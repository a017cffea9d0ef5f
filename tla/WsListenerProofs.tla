-------------------------- MODULE WsListenerProofs --------------------------
(***************************************************************************)
(* Proofs about the Python source, for any number of callers and listener  *)
(* tasks and any timeouts.                                                 *)
(***************************************************************************)
EXTENDS WsListener, TLAPS

(***************************************************************************)
(* The invariant                                                           *)
(***************************************************************************)
\* A source starts with nothing.
LEMMA InitEstablishes == Init => IInv
<1> SUFFICES ASSUME Init PROVE IInv
  OBVIOUS
<1>1. sinceUse \in 0 .. IDLE_TIMEOUT /\ waited \in [Callers -> 0 .. FIRST_FRAME_TIMEOUT]
  BY Timeouts DEF Init
<1>2. TypeOK
  BY <1>1 DEF Init, TypeOK, ListenerStates, CallStates
<1>3. ListenerOwned /\ OneListener /\ EventMeansFrame /\ FrameIsOfListener
  BY DEF Init, ListenerOwned, OneListener, EventMeansFrame, FrameIsOfListener, Running, Live
<1>4. RousedByClose /\ WaitIsUse
  BY DEF Init, RousedByClose, WaitIsUse
<1> QED BY <1>2, <1>3, <1>4 DEF IInv

\* A new call.
LEMMA GetPreserves ==
    ASSUME IInv, NEW c \in Callers, Get(c)
    PROVE  IInv'
<1>1. TypeOK'
  <2>1. sinceUse' \in 0 .. IDLE_TIMEOUT /\ waited' \in [Callers -> 0 .. FIRST_FRAME_TIMEOUT]
    BY Timeouts DEF IInv, TypeOK, Get
  <2>2. /\ task' \in Tasks \cup {NoTask} /\ listener' \in [Tasks -> ListenerStates]
        /\ cancelled' \subseteq Tasks /\ frameEvent' \in BOOLEAN
    BY DEF IInv, TypeOK, Get, EnsureRunning, Spawn, ListenerTo, taskVars, ListenerStates
  <2>3. call' \in [Callers -> CallStates]
    BY DEF IInv, TypeOK, Get, CallTo, CallStates
  <2>4. hasFrame' \in BOOLEAN /\ closed' \in BOOLEAN
    BY DEF IInv, TypeOK, Get
  <2> QED BY <2>1, <2>2, <2>3, <2>4 DEF TypeOK
<1>2. ListenerOwned' /\ OneListener'
  BY ListenerSets
     DEF IInv, TypeOK, ListenerOwned, OneListener, Live, Running, Get, EnsureRunning,
         Spawn, ListenerTo, taskVars
<1>3. EventMeansFrame' /\ FrameIsOfListener'
  BY ListenerSets
     DEF IInv, TypeOK, EventMeansFrame, FrameIsOfListener, Running, Get, EnsureRunning,
         Spawn, ListenerTo, taskVars
<1>4. RousedByClose' /\ WaitIsUse'
  BY Timeouts DEF IInv, TypeOK, RousedByClose, WaitIsUse, Get, CallTo
<1> QED BY <1>1, <1>2, <1>3, <1>4 DEF IInv

\* How it goes on.
LEMMA CallsPreserve ==
    ASSUME IInv, NEW c \in Callers, GetFromClosed(c) \/ Resume(c) \/ TimeOut(c)
    PROVE  IInv'
BY DEF IInv, TypeOK, ListenerOwned, OneListener, EventMeansFrame, FrameIsOfListener,
       RousedByClose, WaitIsUse, Running, Live, CallStates, GetFromClosed, Resume, TimeOut,
       CallTo, sourceVars, clockVars, taskVars

\* The listener.
LEMMA ListenerPreserves ==
    ASSUME IInv, NEW t \in Tasks,
           Turn(t) \/ Connected(t) \/ RecvTimesOut(t) \/ Disconnected(t) \/ Stop(t)
    PROVE  IInv'
<1>1. /\ listener' \in [Tasks -> ListenerStates]
      /\ \A s \in Tasks \ {t} : listener'[s] = listener[s]
      /\ UNCHANGED <<closed, frameEvent, task, sinceUse, waited, call>>
      /\ hasFrame' \in BOOLEAN
  BY DEF IInv, TypeOK, ListenerStates, Turn, Connected, RecvTimesOut, Disconnected, Stop,
         Exit, GoOn, ListenerTo, sourceVars, clockVars
<1>2. \/ /\ listener[t] # "done" /\ listener'[t] # "done"
         /\ cancelled' = cancelled /\ hasFrame' = hasFrame
      \/ /\ listener[t] # "done" /\ listener'[t] = "done"
         /\ cancelled' = cancelled \ {t} /\ ~hasFrame'
      \/ t \in cancelled /\ cancelled' = cancelled \ {t} /\ listener'[t] = "done"
  BY DEF IInv, TypeOK, Turn, Connected, RecvTimesOut, Disconnected, Stop, Exit, GoOn,
         ListenerTo
<1>3. TypeOK' /\ RousedByClose' /\ WaitIsUse'
  BY <1>1, <1>2 DEF IInv, TypeOK, RousedByClose, WaitIsUse
<1>4. ListenerOwned' /\ OneListener'
  <2>1. /\ \A s \in Tasks : Live(s)' => Live(s)
        /\ cancelled' \subseteq cancelled
        /\ \A s \in Tasks : Live(s)' /\ s \in cancelled => s \in cancelled'
    BY <1>1, <1>2 DEF Live
  <2> QED BY <1>1, <2>1 DEF IInv, ListenerOwned, OneListener
<1>5. EventMeansFrame' /\ FrameIsOfListener'
  BY <1>1, <1>2, ListenerSets
     DEF IInv, TypeOK, ListenerOwned, EventMeansFrame, FrameIsOfListener, Running, Live
<1> QED BY <1>3, <1>4, <1>5 DEF IInv

\* A frame.
LEMMA MessagePreserves ==
    ASSUME IInv, NEW t \in Tasks, Message(t)
    PROVE  IInv'
<1>1. TypeOK'
  BY DEF IInv, TypeOK, Message, WaitersTo, ListenerTo, ListenerStates, CallStates, clockVars
<1>2. ListenerOwned' /\ OneListener'
  <2>1. \A s \in Tasks : Live(s)' = Live(s)
    BY DEF IInv, TypeOK, Live, Message, ListenerTo
  <2>2. UNCHANGED <<closed, task, cancelled>>
    BY DEF Message
  <2> QED BY <2>1, <2>2 DEF IInv, ListenerOwned, OneListener
<1>3. EventMeansFrame' /\ FrameIsOfListener'
  BY ListenerSets
     DEF IInv, TypeOK, ListenerOwned, EventMeansFrame, FrameIsOfListener, Running, Live,
         Message, ListenerTo
<1>4. RousedByClose' /\ WaitIsUse'
  BY DEF IInv, TypeOK, RousedByClose, WaitIsUse, Message, WaitersTo, clockVars
<1> QED BY <1>1, <1>2, <1>3, <1>4 DEF IInv

\* close().
LEMMA ClosePreserves == ASSUME IInv, Close PROVE IInv'
<1>1. TypeOK'
  BY DEF IInv, TypeOK, Close, WaitersTo, Running, CallStates, clockVars
<1>2. ListenerOwned' /\ OneListener'
  <2>1. closed' /\ task' = NoTask /\ \A t \in Tasks : Live(t)' = Live(t)
    BY DEF Close, Live
  <2>2. \A t \in Tasks : Live(t) => t \in cancelled'
    <3>1. CASE closed
      BY <3>1 DEF IInv, OneListener, ListenerOwned, Running, Close
    <3>2. CASE ~closed
      BY <3>2, ListenerSets DEF IInv, ListenerOwned, Live, Running, Close
    <3> QED BY <3>1, <3>2
  <2> QED BY <2>1, <2>2 DEF IInv, ListenerOwned, OneListener
<1>3. EventMeansFrame' /\ FrameIsOfListener'
  BY ListenerSets DEF EventMeansFrame, FrameIsOfListener, Running, Close
<1>4. RousedByClose' /\ WaitIsUse'
  BY DEF IInv, TypeOK, RousedByClose, WaitIsUse, Close, WaitersTo, clockVars
<1> QED BY <1>1, <1>2, <1>3, <1>4 DEF IInv

\* Time passes.
LEMMA TickPreserves == ASSUME IInv, Tick PROVE IInv'
<1>1. TypeOK'
  BY Timeouts DEF IInv, TypeOK, Tick, Saturated, sourceVars, taskVars
<1>2. WaitIsUse'
  BY Timeouts DEF IInv, TypeOK, WaitIsUse, Tick, Saturated
<1> QED
  BY <1>1, <1>2
     DEF IInv, ListenerOwned, OneListener, EventMeansFrame, FrameIsOfListener,
         RousedByClose, Running, Live, Tick, sourceVars, taskVars

\* Nothing happens.
LEMMA StutteringPreserves == IInv /\ UNCHANGED vars => IInv'
BY DEF IInv, TypeOK, ListenerOwned, OneListener, EventMeansFrame, FrameIsOfListener,
       RousedByClose, WaitIsUse, Running, Live, vars, sourceVars, clockVars, taskVars

\* IInv is preserved by every step.
LEMMA NextPreserves == IInv /\ [Next]_vars => IInv'
BY GetPreserves, CallsPreserve, ListenerPreserves, MessagePreserves, ClosePreserves,
   TickPreserves, StutteringPreserves DEF Next

\* IInv holds in every state of a source, however calls, frames, going idle and
\* close() interleave.
THEOREM ListenerInvariance == Spec => []IInv
BY InitEstablishes, NextPreserves, PTL DEF Spec

\* Every variable keeps its type.
THEOREM ListenerTypes == Spec => []TypeOK
BY ListenerInvariance, PTL DEF IInv

\* A source never has two listeners, and a closed one stops its own.
THEOREM ListenersAreSingle == Spec => []OneListener
BY ListenerInvariance, PTL DEF IInv

\* The event of a listener that has heard nothing is not set.
THEOREM EventsMeanFrames == Spec => []EventMeansFrame
BY ListenerInvariance, PTL DEF IInv

(***************************************************************************)
(* Idling and waiting                                                      *)
(***************************************************************************)
\* A listener ends by itself only when no call waits.
LEMMA WaitKeepsListener ==
    ASSUME IInv, FIRST_FRAME_TIMEOUT < IDLE_TIMEOUT, ~closed, IdleOut
    PROVE  \A c \in Callers : call[c] # "waiting"
<1> SUFFICES ASSUME NEW c \in Callers, call[c] = "waiting" PROVE FALSE
  OBVIOUS
<1>1. sinceUse \in Nat /\ waited[c] \in Nat /\ waited[c] <= FIRST_FRAME_TIMEOUT
  BY Timeouts DEF IInv, TypeOK
<1>2. sinceUse <= waited[c] /\ sinceUse >= IDLE_TIMEOUT
  BY DEF IInv, WaitIsUse, IdleOut
<1> QED BY <1>1, <1>2, Timeouts

\* If calls give up before an idle source lets go, whatever the two timeouts
\* are, a call that waits is heard.
THEOREM WaitsAreHeard ==
    ASSUME FIRST_FRAME_TIMEOUT < IDLE_TIMEOUT
    PROVE  Spec => []WaitIsHeard
<1>1. Init => WaitIsHeard
  BY DEF Init, WaitIsHeard
<1>2. IInv /\ WaitIsHeard /\ [Next]_vars => WaitIsHeard'
  <2> SUFFICES ASSUME IInv, WaitIsHeard, [Next]_vars
               PROVE  WaitIsHeard'
    OBVIOUS
  <2>1. CASE UNCHANGED vars
    BY <2>1 DEF WaitIsHeard, Running, vars, sourceVars, taskVars
  <2>2. ASSUME NEW c \in Callers, Get(c)
        PROVE  WaitIsHeard'
    BY <2>2, ListenerSets
       DEF IInv, TypeOK, WaitIsHeard, Running, Get, EnsureRunning, Spawn, ListenerTo,
           taskVars
  <2>3. ASSUME NEW c \in Callers, GetFromClosed(c) \/ Resume(c) \/ TimeOut(c)
        PROVE  WaitIsHeard'
    BY <2>3
       DEF IInv, TypeOK, WaitIsHeard, Running, GetFromClosed, Resume, TimeOut, CallTo,
           sourceVars, taskVars
  <2>4. ASSUME NEW t \in Tasks, Turn(t) \/ Connected(t) \/ RecvTimesOut(t) \/ Disconnected(t)
        PROVE  WaitIsHeard'
    <3>1. CASE closed
      BY <2>4, <3>1
         DEF WaitIsHeard, Turn, Connected, RecvTimesOut, Disconnected
    <3>2. CASE ~closed /\ IdleOut
      BY <2>4, <3>2, WaitKeepsListener
         DEF WaitIsHeard, Turn, Connected, RecvTimesOut, Disconnected
    <3>3. CASE ~closed /\ ~IdleOut
      BY <2>4, <3>3
         DEF IInv, TypeOK, WaitIsHeard, Running, Turn, Connected, RecvTimesOut,
             Disconnected, GoOn, ListenerTo
    <3> QED BY <3>1, <3>2, <3>3
  <2>5. ASSUME NEW t \in Tasks, Message(t) \/ Stop(t)
        PROVE  WaitIsHeard'
    BY <2>5
       DEF IInv, TypeOK, ListenerOwned, WaitIsHeard, Running, Message, Stop, WaitersTo,
           ListenerTo, sourceVars
  <2>6. CASE Close \/ Tick
    BY <2>6 DEF WaitIsHeard, Running, Close, Tick, sourceVars, taskVars
  <2> QED BY <2>1, <2>2, <2>3, <2>4, <2>5, <2>6 DEF Next
<1> QED BY <1>1, <1>2, ListenerInvariance, PTL DEF Spec

(***************************************************************************)
(* The promise                                                             *)
(***************************************************************************)
\* The calls, as the promise sees them.
Calls == [c \in Callers |-> Outward(call[c])]

\* One call moves on.
LEMMA OneCallMoves ==
    ASSUME TypeOK, NEW c \in Callers, NEW x, CallTo(c, x)
    PROVE  Calls' = [Calls EXCEPT ![c] = Outward(x)]
<1>1. \A k \in Callers : call'[k] = IF k = c THEN x ELSE call[k]
  BY DEF TypeOK, CallTo
<1> QED BY <1>1 DEF Calls, Outward

\* A new call does not find the event of an earlier listener set.
LEMMA CallsBegin ==
    ASSUME IInv, NEW c \in Callers, Get(c) \/ GetFromClosed(c)
    PROVE  Promise!Ask(c)
<1>1. Calls[c] \in {"idle", "served", "failed"}
  BY DEF Calls, Get, GetFromClosed, Outward
<1>2. Calls' = [Calls EXCEPT ![c] =
                   IF closed THEN "failed" ELSE IF hasFrame /\ ~closed THEN "served"
                                                                      ELSE "waiting"]
  <2>1. CASE Get(c)
    <3>1. frameEvent' => hasFrame
      BY <2>1 DEF IInv, EventMeansFrame, Get, EnsureRunning, Spawn
    <3>2. CallTo(c, IF hasFrame THEN "served" ELSE "waiting")
      BY <2>1, <3>1 DEF Get
    <3>3. Calls' = [Calls EXCEPT ![c] = Outward(IF hasFrame THEN "served" ELSE "waiting")]
      BY <3>2, OneCallMoves DEF IInv
    <3> QED BY <2>1, <3>3 DEF Get, Outward
  <2>2. CASE GetFromClosed(c)
    <3>1. Calls' = [Calls EXCEPT ![c] = Outward("failed")]
      BY <2>2, OneCallMoves DEF IInv, GetFromClosed
    <3> QED BY <2>2, <3>1 DEF GetFromClosed, Outward
  <2> QED BY <2>1, <2>2
<1>3. /\ Running' = (Running \/ ~closed)
      /\ UNCHANGED <<hasFrame /\ ~closed, closed>>
  <2>1. CASE Get(c)
    <3>1. Running' /\ ~closed
      BY <2>1, ListenerSets
         DEF IInv, TypeOK, Running, Get, EnsureRunning, Spawn, ListenerTo, taskVars
    <3> QED BY <2>1, <3>1 DEF Running, Get
  <2>2. CASE GetFromClosed(c)
    BY <2>2 DEF GetFromClosed, Running, sourceVars, taskVars
  <2> QED BY <2>1, <2>2
<1> QED BY <1>1, <1>2, <1>3 DEF Calls, Promise!Ask, Promise!Answered, Promise!CallTo

\* ... and is answered after a frame, or fails.
LEMMA CallsEnd ==
    ASSUME IInv, NEW c \in Callers, Resume(c) \/ TimeOut(c)
    PROVE  Promise!Serve(c) \/ Promise!Fail(c)
<1>1. Running' = Running /\ UNCHANGED <<hasFrame /\ ~closed, closed>>
  BY DEF Resume, TimeOut, Running, sourceVars, taskVars
<1>2. CASE Resume(c) /\ ~closed
  <2>1. Calls' = [Calls EXCEPT ![c] = Outward("served")]
    BY <1>2, OneCallMoves DEF IInv, Resume
  <2>2. Calls[c] = "seen"
    BY <1>2 DEF IInv, RousedByClose, Resume, Calls, Outward
  <2> QED BY <1>1, <2>1, <2>2 DEF Calls, Outward, Promise!Serve, Promise!CallTo
<1>3. CASE TimeOut(c) \/ (Resume(c) /\ closed)
  <2>1. Calls' = [Calls EXCEPT ![c] = Outward("failed")]
    BY <1>3, OneCallMoves DEF IInv, Resume, TimeOut
  <2>2. Calls[c] \in {"waiting", "seen"}
    BY <1>3 DEF Resume, TimeOut, Calls, Outward
  <2>3. Calls' = [Calls EXCEPT ![c] = "failed"]
    BY <2>1 DEF Outward
  <2>4. Promise!Fail(c)
    BY <1>1, <2>2, <2>3 DEF Calls, Promise!Fail, Promise!CallTo
  <2> QED BY <2>4
<1> QED BY <1>2, <1>3

\* The listener goes on, or lets go.
LEMMA ListenerKeepsPromise ==
    ASSUME IInv, FIRST_FRAME_TIMEOUT < IDLE_TIMEOUT, NEW t \in Tasks,
           Turn(t) \/ Connected(t) \/ RecvTimesOut(t) \/ Disconnected(t) \/ Stop(t)
    PROVE  Promise!Lapse \/ UNCHANGED Promise!vars
<1>1. UNCHANGED <<closed, task, call>>
  BY DEF Turn, Connected, RecvTimesOut, Disconnected, Stop, sourceVars
<1>2. CASE closed
  BY <1>1, <1>2 DEF IInv, ListenerOwned, Running, Promise!vars
<1>3. CASE ~closed /\ Exit(t)
  <2>1. listener[t] # "done" /\ IdleOut
    BY <1>3
       DEF IInv, TypeOK, ListenerStates, ListenerOwned, Turn, Connected, RecvTimesOut,
           Disconnected, Stop, Exit, GoOn, ListenerTo
  <2>2. t = task /\ Running /\ ~Running' /\ ~hasFrame'
    BY <1>1, <1>3, <2>1, ListenerSets
       DEF IInv, TypeOK, ListenerOwned, Live, Running, Exit, ListenerTo
  <2>3. \A c \in Callers : Calls[c] # "waiting"
    BY <1>3, <2>1, WaitKeepsListener DEF IInv, RousedByClose, Calls, Outward
  <2> QED BY <1>1, <2>2, <2>3 DEF Calls, Promise!Lapse
<1>4. CASE ~closed /\ ~Exit(t)
  <2>1. \E state \in ListenerStates \ {"done"} : GoOn(t, state)
    BY <1>4
       DEF IInv, ListenerOwned, ListenerStates, Turn, Connected, RecvTimesOut,
           Disconnected, Stop
  <2>2. listener[t] # "done"
    BY <1>4 DEF IInv, ListenerOwned, Turn, Connected, RecvTimesOut, Disconnected, Stop
  <2>3. Running' = Running /\ hasFrame' = hasFrame
    BY <1>1, <2>1, <2>2 DEF IInv, TypeOK, Running, GoOn, ListenerTo
  <2> QED BY <1>1, <2>3 DEF Promise!vars
<1> QED BY <1>2, <1>3, <1>4

\* A frame.
LEMMA MessageKeepsPromise ==
    ASSUME IInv, NEW t \in Tasks, Message(t)
    PROVE  Promise!Arrive \/ UNCHANGED Promise!vars
<1>1. UNCHANGED <<closed, task>> /\ hasFrame'
  BY DEF Message
<1>2. Running' = Running
  BY DEF IInv, TypeOK, Message, Running, ListenerTo
<1>3. Calls' = [c \in Callers |-> IF call[c] = "waiting" THEN "seen" ELSE Calls[c]]
  BY DEF Calls, Message, WaitersTo, Outward
<1>4. CASE closed
  <2>1. Calls' = Calls
    BY <1>3, <1>4 DEF IInv, RousedByClose, Calls
  <2> QED BY <1>1, <1>2, <1>4, <2>1 DEF Calls, Promise!vars
<1>5. CASE ~closed
  <2>1. Running
    BY <1>5, ListenerSets DEF IInv, TypeOK, ListenerOwned, Live, Running, Message
  <2>2. Calls' = [c \in Callers |-> IF Calls[c] = "waiting" THEN "seen" ELSE Calls[c]]
    BY <1>3, <1>5 DEF IInv, RousedByClose, Calls, Outward
  <2> QED BY <1>1, <1>2, <1>5, <2>1, <2>2 DEF Calls, Promise!Arrive
<1> QED BY <1>4, <1>5

\* close() is the promise's, and the calls it rouses are still to be answered.
LEMMA CloseKeepsPromise == ASSUME IInv, Close PROVE Promise!Close
<1>1. closed' /\ ~Running'
  BY DEF Close, Running
<1>2. Calls' = [c \in Callers |-> IF call[c] = "waiting" THEN "waiting" ELSE Calls[c]]
  BY DEF Calls, Close, WaitersTo, Outward
<1>3. Calls' = Calls
  BY <1>2 DEF Calls, Outward
<1> QED BY <1>1, <1>3 DEF Calls, Promise!Close

\* If calls give up before an idle source lets go the source implements
\* SnapshotSource: no call is answered with what an earlier listener heard, none is
\* left without a listener.
THEOREM ListenerKeepsItsPromise ==
    ASSUME FIRST_FRAME_TIMEOUT < IDLE_TIMEOUT
    PROVE  Spec => KeepsPromise
<1>1. Init => Promise!Init
  BY DEF Init, Running, Outward, Promise!Init
<1>2. IInv /\ [Next]_vars => [Promise!Next]_(Promise!vars)
  <2> SUFFICES ASSUME IInv, [Next]_vars
               PROVE  Promise!Next \/ UNCHANGED Promise!vars
    OBVIOUS
  <2>1. CASE UNCHANGED vars
    BY <2>1 DEF vars, sourceVars, taskVars, Running, Promise!vars
  <2>2. CASE Tick
    BY <2>2 DEF Tick, sourceVars, taskVars, Running, Promise!vars
  <2>3. CASE Next
    BY <2>2, <2>3, CallsBegin, CallsEnd, ListenerKeepsPromise, MessageKeepsPromise,
       CloseKeepsPromise DEF Next, Promise!Next
  <2> QED BY <2>1, <2>3
<1> QED BY <1>1, <1>2, ListenerInvariance, PTL DEF Spec, KeepsPromise, Promise!Safety
=============================================================================
