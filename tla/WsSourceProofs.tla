--------------------------- MODULE WsSourceProofs ---------------------------
(***************************************************************************)
(* Proofs about the TypeScript source, for any number of callers and of    *)
(* sockets that linger.                                                    *)
(***************************************************************************)
EXTENDS WsSource, TLAPS

(***************************************************************************)
(* The invariant                                                           *)
(***************************************************************************)
\* A source starts with nothing.
LEMMA InitEstablishes == Init => IInv
BY SocketNames DEF Init, IInv, TypeOK, SocketsOwned, Tended, CloseIsFinal, FrameIsOfSession,
       TornDown, SocketStates, CallStates

\* A new call.
LEMMA GetSnapshotPreserves ==
    ASSUME IInv, NEW c \in Callers, GetSnapshot(c)
    PROVE  IInv'
BY SocketNames
   DEF IInv, TypeOK, SocketsOwned, Tended, CloseIsFinal, FrameIsOfSession, TornDown,
       SocketStates, CallStates, GetSnapshot, Connect, ArmIdleTimer, socketVars

\* What follows an await.
LEMMA ContinuationsPreserve ==
    ASSUME IInv, NEW c \in Callers,
           Resume(c) \/ Rethrow(c) \/ FirstFrameTimeout(c) \/ GetFromClosed(c)
    PROVE  IInv'
BY DEF IInv, TypeOK, SocketsOwned, Tended, CloseIsFinal, FrameIsOfSession, TornDown,
       SocketStates, CallStates, Resume, Rethrow, FirstFrameTimeout, GetFromClosed,
       ArmIdleTimer, socketVars, timerVars

\* Events of sockets.
LEMMA EventsPreserve ==
    ASSUME IInv, NEW s \in Sockets, Opens(s) \/ Message(s) \/ Closes(s)
    PROVE  IInv'
<1>1. CASE Opens(s)
  BY <1>1, SocketNames
     DEF IInv, TypeOK, SocketsOwned, Tended, CloseIsFinal, FrameIsOfSession, TornDown,
         SocketStates, Opens, timerVars
<1>2. CASE Message(s)
  BY <1>2, SocketNames
     DEF IInv, TypeOK, SocketsOwned, Tended, CloseIsFinal, FrameIsOfSession, TornDown,
         SocketStates, CallStates, Message, WaitersTo, Waiters, socketVars, timerVars
<1>3. CASE Closes(s)
  BY <1>3, SocketNames
     DEF IInv, TypeOK, SocketsOwned, Tended, CloseIsFinal, FrameIsOfSession, TornDown,
         SocketStates, Closes
<1> QED BY <1>1, <1>2, <1>3

\* Timers, and close().
LEMMA TimersPreserve ==
    ASSUME IInv, ReconnectFires \/ IdleFires \/ Close
    PROVE  IInv'
<1>1. CASE ReconnectFires
  BY <1>1, SocketNames
     DEF IInv, TypeOK, SocketsOwned, Tended, CloseIsFinal, FrameIsOfSession, TornDown,
         SocketStates, ReconnectFires, Connect, socketVars
<1>2. CASE IdleFires
  BY <1>2, SocketNames
     DEF IInv, TypeOK, SocketsOwned, Tended, CloseIsFinal, FrameIsOfSession, TornDown,
         SocketStates, IdleFires, ArmIdleTimer, DropSocket, Waiters, socketVars
<1>3. CASE Close
  BY <1>3, SocketNames
     DEF IInv, TypeOK, SocketsOwned, Tended, CloseIsFinal, FrameIsOfSession, TornDown,
         SocketStates, CallStates, Close, DropSocket, WaitersTo, Waiters
<1> QED BY <1>1, <1>2, <1>3

\* Nothing happens.
LEMMA StutteringPreserves == IInv /\ UNCHANGED vars => IInv'
BY DEF IInv, TypeOK, SocketsOwned, Tended, CloseIsFinal, FrameIsOfSession, TornDown,
       vars, socketVars, timerVars

\* IInv holds in every state of a source, however events, timers, calls and
\* close() come.
THEOREM SourceInvariance == Spec => []IInv
<1>1. IInv /\ [Next]_vars => IInv'
  BY GetSnapshotPreserves, ContinuationsPreserve, EventsPreserve, TimersPreserve,
     StutteringPreserves DEF Next
<1> QED BY <1>1, InitEstablishes, PTL DEF Spec

\* Every variable keeps its type.
THEOREM SourceTypes == Spec => []TypeOK
BY SourceInvariance, PTL DEF IInv

\* No socket is leaked: one that is open or opening is the one in use.
THEOREM NoSocketLeaks == Spec => []SocketsOwned
BY SourceInvariance, PTL DEF IInv

\* No connection is left without an idle timer or a call that sets it.
THEOREM ConnectionsAreTended == Spec => []Tended
BY SourceInvariance, PTL DEF IInv

\* close() leaves nothing behind, and nothing comes back.
THEOREM ClosingIsFinal == Spec => []CloseIsFinal
BY SourceInvariance, PTL DEF IInv

(***************************************************************************)
(* The promise                                                             *)
(***************************************************************************)
\* The calls, as the promise sees them.
Calls == [c \in Callers |-> Outward(call[c])]

\* One call moves on.
LEMMA OneCallMoves ==
    ASSUME TypeOK, NEW c \in Callers, NEW x, call' = [call EXCEPT ![c] = x]
    PROVE  Calls' = [Calls EXCEPT ![c] = Outward(x)]
<1>1. \A k \in Callers : call'[k] = IF k = c THEN x ELSE call[k]
  BY DEF TypeOK
<1> QED BY <1>1 DEF Calls, Outward

\* The waiting calls are notified.
LEMMA WaitersMove ==
    ASSUME TypeOK, NEW x, WaitersTo(x)
    PROVE  Calls' = [c \in Callers |-> IF call[c] = "waiting" THEN Outward(x) ELSE Calls[c]]
BY DEF Calls, WaitersTo, Waiters

\* The two ways a call begins.
LEMMA CallsBegin ==
    ASSUME IInv, NEW c \in Callers, GetSnapshot(c) \/ GetFromClosed(c)
    PROVE  Promise!Ask(c)
<1>1. Calls[c] \in {"idle", "served", "failed"}
  BY DEF Calls, GetSnapshot, GetFromClosed, Outward
<1>2. Calls' = [Calls EXCEPT ![c] =
                   IF closed THEN "failed" ELSE IF hasFrame /\ ~closed THEN "served"
                                                                      ELSE "waiting"]
  <2>1. CASE GetSnapshot(c)
    <3>1. Calls' = [Calls EXCEPT ![c] = Outward(IF hasFrame THEN "served" ELSE "waiting")]
      BY <2>1, OneCallMoves DEF IInv, GetSnapshot
    <3> QED BY <2>1, <3>1 DEF GetSnapshot, Outward
  <2>2. CASE GetFromClosed(c)
    <3>1. Calls' = [Calls EXCEPT ![c] = Outward("failed")]
      BY <2>2, OneCallMoves DEF IInv, GetFromClosed
    <3> QED BY <2>2, <3>1 DEF GetFromClosed, Outward
  <2> QED BY <2>1, <2>2
<1>3. /\ (~TornDown)' = (~TornDown \/ ~closed)
      /\ UNCHANGED <<hasFrame /\ ~closed, closed>>
  BY SocketNames
     DEF IInv, TypeOK, CloseIsFinal, GetSnapshot, GetFromClosed, Connect, TornDown,
         socketVars, timerVars
<1> QED BY <1>1, <1>2, <1>3 DEF Calls, Promise!Ask, Promise!Answered, Promise!CallTo

\* ... and how it goes on after an await.
LEMMA CallsEnd ==
    ASSUME IInv, NEW c \in Callers, Resume(c) \/ Rethrow(c)
    PROVE  Promise!Serve(c) \/ Promise!Fail(c)
<1>1. (~TornDown)' = ~TornDown /\ UNCHANGED <<hasFrame /\ ~closed, closed>>
  BY DEF Resume, Rethrow, TornDown, socketVars
<1>2. CASE Resume(c)
  <2>1. Calls[c] = "seen" /\ Calls' = [Calls EXCEPT ![c] = Outward("served")]
    BY <1>2, OneCallMoves DEF IInv, Resume, Calls, Outward
  <2> QED BY <1>1, <2>1 DEF Calls, Outward, Promise!Serve, Promise!CallTo
<1>3. CASE Rethrow(c)
  <2>1. Calls[c] = "waiting" /\ Calls' = [Calls EXCEPT ![c] = Outward("failed")]
    BY <1>3, OneCallMoves DEF IInv, Rethrow, Calls, Outward
  <2> QED BY <1>1, <2>1 DEF Calls, Outward, Promise!Fail, Promise!CallTo
<1> QED BY <1>2, <1>3

\* A rejection shows when the call goes on, not before.
LEMMA RejectionIsSilent ==
    ASSUME IInv, NEW c \in Callers, FirstFrameTimeout(c)
    PROVE  UNCHANGED Promise!vars
<1>1. Calls' = [Calls EXCEPT ![c] = Outward("rejected")]
  BY OneCallMoves DEF IInv, FirstFrameTimeout
<1>2. Calls[c] = "waiting" /\ Outward("rejected") = "waiting"
  BY DEF FirstFrameTimeout, Calls, Outward
<1>3. Calls' = Calls
  BY <1>1, <1>2 DEF Calls
<1> QED
  BY <1>3 DEF Calls, FirstFrameTimeout, TornDown, socketVars, timerVars, Promise!vars

\* Sockets.
LEMMA EventsKeepPromise ==
    ASSUME IInv, NEW s \in Sockets, Opens(s) \/ Message(s) \/ Closes(s)
    PROVE  Promise!Arrive \/ UNCHANGED Promise!vars
<1>1. CASE Opens(s)
  BY <1>1 DEF Opens, TornDown, timerVars, Promise!vars
<1>2. CASE Message(s)
  <2>1. ~closed /\ ~TornDown
    BY <1>2, SocketNames DEF IInv, SocketsOwned, CloseIsFinal, TornDown, Message
  <2>2. (~TornDown)' = ~TornDown /\ closed' = closed /\ hasFrame'
    BY <1>2 DEF Message, TornDown, socketVars, timerVars
  <2>3. Calls' = [c \in Callers |-> IF call[c] = "waiting" THEN "seen" ELSE Calls[c]]
    BY <1>2, WaitersMove DEF IInv, Message, Outward
  <2>4. \A c \in Callers : call[c] # "rejected"
    BY <1>2 DEF Message, Settled
  <2>5. Calls' = [c \in Callers |-> IF Calls[c] = "waiting" THEN "seen" ELSE Calls[c]]
    BY <2>3, <2>4 DEF Calls, Outward
  <2> QED BY <2>1, <2>2, <2>5 DEF Calls, Promise!Arrive
<1>3. CASE Closes(s)
  <2>1. (~TornDown)' = ~TornDown
    BY <1>3, SocketNames DEF IInv, TypeOK, CloseIsFinal, Closes, TornDown
  <2> QED BY <1>3, <2>1 DEF Closes, Promise!vars
<1> QED BY <1>1, <1>2, <1>3

\* Timers, and close().
LEMMA TimersKeepPromise ==
    ASSUME IInv, ReconnectFires \/ IdleFires \/ Close
    PROVE  Promise!Lapse \/ Promise!Close \/ UNCHANGED Promise!vars
<1>1. CASE ReconnectFires
  <2>1. (~TornDown)' = ~TornDown
    BY <1>1, SocketNames
       DEF IInv, TypeOK, CloseIsFinal, ReconnectFires, Connect, TornDown, socketVars
  <2> QED BY <1>1, <2>1 DEF ReconnectFires, Promise!vars
<1>2. CASE IdleFires
  <2>1. CASE Waiters # {}
    BY <1>2, <2>1 DEF IdleFires, TornDown, socketVars, Promise!vars
  <2>2. CASE Waiters = {}
    <3>1. TornDown' /\ ~hasFrame' /\ UNCHANGED <<closed, call>>
      BY <1>2, <2>2 DEF IdleFires, DropSocket, TornDown
    <3>2. \A c \in Callers : Calls[c] # "waiting"
      BY <1>2, <2>2 DEF IdleFires, Settled, Waiters, Calls, Outward
    <3>3. CASE TornDown
      BY <3>1, <3>3 DEF IInv, TypeOK, FrameIsOfSession, Promise!vars
    <3>4. CASE ~TornDown
      BY <3>1, <3>2, <3>4 DEF Calls, Promise!Lapse
    <3> QED BY <3>3, <3>4
  <2> QED BY <2>1, <2>2
<1>3. CASE Close
  <2>1. closed' /\ TornDown'
    BY <1>3 DEF Close, DropSocket, TornDown
  <2>2. Calls' = Calls
    <3>1. Calls' = [c \in Callers |-> IF call[c] = "waiting" THEN "waiting" ELSE Calls[c]]
      BY <1>3, WaitersMove DEF IInv, Close, Outward
    <3> QED BY <3>1 DEF Calls, Outward
  <2> QED BY <2>1, <2>2 DEF Calls, Promise!Close
<1> QED BY <1>1, <1>2, <1>3

\* The source implements SnapshotSource: no call is answered with a frame from
\* before the present connection, none is given up by a teardown.
THEOREM SourceKeepsPromise == Spec => KeepsPromise
<1>1. Init => Promise!Init
  BY DEF Init, TornDown, Outward, Promise!Init
<1>2. IInv /\ [Next]_vars => [Promise!Next]_(Promise!vars)
  <2> SUFFICES ASSUME IInv, [Next]_vars
               PROVE  Promise!Next \/ UNCHANGED Promise!vars
    OBVIOUS
  <2>1. CASE UNCHANGED vars
    BY <2>1 DEF vars, socketVars, timerVars, TornDown, Promise!vars
  <2>2. CASE Next
    BY <2>2, CallsBegin, CallsEnd, RejectionIsSilent, EventsKeepPromise,
       TimersKeepPromise DEF Next, Promise!Next
  <2> QED BY <2>1, <2>2
<1> QED BY <1>1, <1>2, SourceInvariance, PTL DEF Spec, KeepsPromise, Promise!Safety
=============================================================================
