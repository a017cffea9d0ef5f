------------------------- MODULE WsConnectionProofs -------------------------
(***************************************************************************)
(* The safety of WsConnection for any number of callers, read loops and    *)
(* calls of close(): IInv is an inductive invariant.                       *)
(***************************************************************************)
EXTENDS WsConnection, FiniteSetTheorems, TLAPS

\* The phases in which a call counts as waiting.
Counted == {"listen", "check", "await", "leave"}

LEMMA WaitingFinite ==
    ASSUME TypeOK
    PROVE  IsFiniteSet(Waiting) /\ Cardinality(Waiting) \in Nat
BY ConnectionSets, FS_Subset, FS_CardinalityType DEF Waiting

\* How the number of waiting calls changes when one call moves on.
LEMMA MovingOn ==
    ASSUME TypeOK, NEW c \in Callers, NEW phase \in CallPhases, CallTo(c, phase)
    PROVE  /\ pc' \in [Callers -> CallPhases]
           /\ (phase \in Counted <=> pc[c] \in Counted) =>
                 Cardinality(Waiting') = Cardinality(Waiting)
           /\ phase \in Counted /\ pc[c] \notin Counted =>
                 Cardinality(Waiting') = Cardinality(Waiting) + 1
           /\ phase \notin Counted /\ pc[c] \in Counted =>
                 Cardinality(Waiting') = Cardinality(Waiting) - 1
<1>1. pc' = [pc EXCEPT ![c] = phase] /\ pc \in [Callers -> CallPhases]
  BY DEF CallTo, TypeOK
<1>2. Waiting' = IF phase \in Counted THEN Waiting \cup {c} ELSE Waiting \ {c}
  BY <1>1 DEF Waiting, Counted
<1>3. c \in Waiting <=> pc[c] \in Counted
  BY DEF Waiting, Counted
<1>4. /\ Cardinality(Waiting \cup {c}) =
            IF c \in Waiting THEN Cardinality(Waiting) ELSE Cardinality(Waiting) + 1
      /\ Cardinality(Waiting \ {c}) =
            IF c \in Waiting THEN Cardinality(Waiting) - 1 ELSE Cardinality(Waiting)
  BY WaitingFinite, FS_AddElement, FS_RemoveElement
<1>. QED  BY <1>1, <1>2, <1>3, <1>4

LEMMA InitIInv == Init => IInv
<1>. SUFFICES ASSUME Init PROVE IInv
  OBVIOUS
<1>1. TypeOK
  <2>1. drops \in 0 .. MaxDrops
    BY ConnectionSets DEF Init
  <2>2. /\ pc \in [Callers -> CallPhases]
        /\ notified \in [Callers -> BOOLEAN]
        /\ loop \in [Tasks -> LoopPhases]
    BY DEF Init, CallPhases, LoopPhases
  <2>3. /\ resume \in [Tasks -> {"read", "connect"}]
        /\ closer \in [Closers -> {"none", "spawned", "notify", "done"}]
    BY DEF Init
  <2>. QED  BY <2>1, <2>2, <2>3 DEF Init, TypeOK
<1>2. LoopOwned /\ AtMostOneLoop
  BY DEF Init, LoopOwned, AtMostOneLoop, Live
<1>3. NoLostWakeup /\ FramesAreCurrent
  BY DEF Init, NoLostWakeup, FramesAreCurrent
<1>4. Waiting = {}
  BY DEF Init, Waiting
<1>5. WaitersAccounted
  BY <1>4, FS_EmptySet DEF Init, WaitersAccounted
<1>. QED  BY <1>1, <1>2, <1>3, <1>5 DEF IInv

(***************************************************************************)
(* What a step that leaves the variables of a conjunct alone preserves     *)
(***************************************************************************)
LEMMA LoopsUntouched ==
    ASSUME LoopOwned, AtMostOneLoop, UNCHANGED <<closed, task, loop, aborted>>
    PROVE  LoopOwned' /\ AtMostOneLoop'
BY DEF LoopOwned, AtMostOneLoop, Live

LEMMA FramesUntouched ==
    ASSUME FramesAreCurrent, UNCHANGED <<hasFrame, closed, task, loop>>
    PROVE  FramesAreCurrent'
BY DEF FramesAreCurrent, Running

LEMMA WaitersUntouched ==
    ASSUME WaitersAccounted, UNCHANGED <<waiters, drops, pc>>
    PROVE  WaitersAccounted'
<1>1. Waiting' = Waiting
  BY DEF Waiting
<1>. QED  BY <1>1 DEF WaitersAccounted

(***************************************************************************)
(* Calls                                                                   *)
(***************************************************************************)
LEMMA EnterPreserves ==
    ASSUME IInv, NEW c \in Callers, Enter(c)
    PROVE  IInv'
<1>. USE DEF IInv
<1>1. PICK phase \in {"out", "register"} : CallTo(c, phase)
  BY DEF Enter
<1>2. /\ pc' \in [Callers -> CallPhases]
      /\ Cardinality(Waiting') = Cardinality(Waiting)
  BY <1>1, MovingOn DEF Enter, Counted, CallPhases
<1>3. /\ pc[c] = "out" /\ closed = FALSE /\ closed' = FALSE /\ aged' = FALSE
      /\ UNCHANGED <<hasFrame, waiters, notified, drops, closer, resume, aborted>>
  BY DEF Enter, TypeOK, Spawn, loopVars
<1>4. CASE Running /\ UNCHANGED <<loop, task>>
  <2>1. TypeOK'
    BY <1>2, <1>3, <1>4 DEF TypeOK
  <2>2. LoopOwned' /\ AtMostOneLoop'
    BY <1>3, <1>4, LoopsUntouched
  <2>3. NoLostWakeup'
    BY <1>1, <1>3, <1>4 DEF NoLostWakeup, CallTo, TypeOK
  <2>4. FramesAreCurrent'
    BY <1>3, <1>4, FramesUntouched
  <2>. QED  BY <1>2, <1>3, <2>1, <2>2, <2>3, <2>4 DEF WaitersAccounted
<1>5. CASE ~Running /\ Spawn
  <2>1. PICK t \in Tasks : /\ loop[t] = "finished"
                           /\ loop' = [loop EXCEPT ![t] = "connect"]
                           /\ task' = t
    BY <1>5 DEF Spawn, LoopTo
  <2>2. TypeOK'
    BY <1>2, <1>3, <2>1 DEF TypeOK, LoopPhases
  <2>3. \A s \in Tasks : loop[s] = "finished"
    BY <1>3, <1>5, ConnectionSets DEF LoopOwned, Live, Running, TypeOK
  <2>4. LoopOwned' /\ AtMostOneLoop'
    BY <1>3, <2>1, <2>3 DEF LoopOwned, AtMostOneLoop, Live, TypeOK
  <2>5. NoLostWakeup'
    BY <1>1, <1>3, <2>1, <2>3 DEF NoLostWakeup, CallTo, TypeOK
  <2>6. FramesAreCurrent'
    BY <1>3, <2>1, ConnectionSets DEF FramesAreCurrent, Running, TypeOK
  <2>. QED  BY <1>2, <1>3, <2>2, <2>4, <2>5, <2>6 DEF WaitersAccounted
<1>. QED  BY <1>4, <1>5 DEF Enter, loopVars

LEMMA CallStepPreserves ==
    ASSUME IInv, NEW c \in Callers, CallStep(c)
    PROVE  IInv'
<1>. USE DEF IInv
<1>0. /\ UNCHANGED <<hasFrame, closed, aged, task, loop, resume, aborted, drops, closer>>
  BY DEF CallStep, Register, Listen, Check, Wake, Timeout, Leave, sharedVars, loopVars
<1>1. LoopOwned' /\ AtMostOneLoop' /\ FramesAreCurrent'
  BY <1>0, LoopsUntouched, FramesUntouched
<1>2. drops \in Nat /\ Cardinality(Waiting) \in Nat
  BY WaitingFinite, ConnectionSets DEF TypeOK
<1>3. CASE Register(c)
  <2>1. CallTo(c, "listen") /\ pc[c] = "register" /\ waiters' = waiters + 1 /\ notified' = notified
    BY <1>3 DEF Register
  <2>2. /\ pc' \in [Callers -> CallPhases]
        /\ Cardinality(Waiting') = Cardinality(Waiting) + 1
    BY <2>1, MovingOn DEF Counted, CallPhases
  <2>3. TypeOK' /\ WaitersAccounted'
    BY <1>0, <1>2, <2>1, <2>2 DEF TypeOK, WaitersAccounted
  <2>4. NoLostWakeup'
    BY <1>0, <2>1 DEF NoLostWakeup, CallTo, TypeOK
  <2>. QED  BY <1>1, <2>3, <2>4
<1>4. CASE Listen(c) \/ Check(c) \/ Wake(c) \/ Timeout(c)
  <2>1. PICK phase \in {"listen", "check", "await", "leave"} :
           /\ CallTo(c, phase)
           /\ phase = "await" => pc[c] = "check" /\ ~closed /\ ~hasFrame
    BY <1>4 DEF Listen, Check, Wake, Timeout
  <2>2. /\ pc[c] \in {"listen", "check", "await", "leave"}
        /\ waiters' = waiters
        /\ notified' \in [Callers -> BOOLEAN]
        /\ \A d \in Callers \ {c} : notified'[d] = notified[d]
    BY <1>4 DEF Listen, Check, Wake, Timeout, TypeOK
  <2>3. /\ pc' \in [Callers -> CallPhases]
        /\ Cardinality(Waiting') = Cardinality(Waiting)
    BY <2>1, <2>2, MovingOn DEF Counted, CallPhases
  <2>4. TypeOK' /\ WaitersAccounted'
    BY <1>0, <2>2, <2>3 DEF TypeOK, WaitersAccounted
  <2>5. NoLostWakeup'
    BY <1>0, <2>1, <2>2 DEF NoLostWakeup, CallTo, TypeOK
  <2>. QED  BY <1>1, <2>4, <2>5
<1>5. CASE Leave(c)
  <2>1. CallTo(c, "out") /\ pc[c] = "leave" /\ waiters' = waiters - 1 /\ notified' = notified
    BY <1>5 DEF Leave
  <2>2. /\ pc' \in [Callers -> CallPhases]
        /\ Cardinality(Waiting') = Cardinality(Waiting) - 1
    BY <2>1, MovingOn DEF Counted, CallPhases
  <2>3. TypeOK' /\ WaitersAccounted'
    <3>1. Cardinality(Waiting) # 0
      BY <2>1, WaitingFinite, FS_EmptySet DEF Waiting
    <3>2. waiters' \in Nat /\ waiters' = drops + Cardinality(Waiting')
      BY <1>2, <2>1, <2>2, <3>1 DEF WaitersAccounted
    <3>. QED  BY <1>0, <2>1, <2>2, <3>2 DEF TypeOK, WaitersAccounted
  <2>4. NoLostWakeup'
    BY <1>0, <2>1 DEF NoLostWakeup, CallTo, TypeOK
  <2>. QED  BY <1>1, <2>3, <2>4
<1>. QED  BY <1>3, <1>4, <1>5 DEF CallStep

LEMMA DropPreserves ==
    ASSUME IInv, NEW c \in Callers, Drop(c)
    PROVE  IInv'
<1>. USE DEF IInv
<1>1. /\ CallTo(c, "out") /\ pc[c] \in {"check", "await"}
      /\ drops < MaxDrops /\ drops' = drops + 1
      /\ UNCHANGED <<hasFrame, closed, aged, task, waiters, notified, loop,
                      resume, aborted, closer>>
  BY DEF Drop, sharedVars, loopVars
<1>2. LoopOwned' /\ AtMostOneLoop' /\ FramesAreCurrent'
  BY <1>1, LoopsUntouched, FramesUntouched
<1>3. drops \in Nat /\ Cardinality(Waiting) \in Nat
  BY WaitingFinite, ConnectionSets DEF TypeOK
<1>4. /\ pc' \in [Callers -> CallPhases]
      /\ Cardinality(Waiting') = Cardinality(Waiting) - 1
  BY <1>1, MovingOn DEF Counted, CallPhases
<1>5. WaitersAccounted' /\ drops' \in 0 .. MaxDrops
  BY <1>1, <1>3, <1>4, ConnectionSets DEF WaitersAccounted
<1>6. TypeOK'
  BY <1>1, <1>4, <1>5 DEF TypeOK
<1>7. NoLostWakeup'
  BY <1>1 DEF NoLostWakeup, CallTo, TypeOK
<1>. QED  BY <1>2, <1>5, <1>6, <1>7

(***************************************************************************)
(* The read loop                                                           *)
(***************************************************************************)
\* What the steps of a live loop leave alone: everything LoopOwned and
\* AtMostOneLoop relate.
LEMMA LoopMoves ==
    ASSUME LoopOwned, AtMostOneLoop, TypeOK, NEW t \in Tasks, Live(t),
           NEW phase \in LoopPhases \ {"finished"}, LoopTo(t, phase),
           UNCHANGED <<closed, task, aborted>>,
           loop[t] # "returning"
    PROVE  /\ LoopOwned' /\ AtMostOneLoop'
           /\ loop' \in [Tasks -> LoopPhases]
BY DEF LoopOwned, AtMostOneLoop, Live, LoopTo, TypeOK, LoopPhases

\* Steps that stay away from frames, waiting calls and their futures.
LEMMA QuietLoopPreserves ==
    ASSUME IInv, NEW t \in Tasks,
           \/ Connected(t) \/ Disconnected(t) \/ DeadlinePasses(t)
           \/ BackoffPasses(t) \/ ReadWaiters(t)
    PROVE  IInv'
<1>. USE DEF IInv
<1>1. PICK phase \in {"read", "sleep", "idle?", "connect", "expire"} : LoopTo(t, phase)
  BY DEF Connected, Disconnected, DeadlinePasses, BackoffPasses, ReadWaiters, TypeOK
<1>2. /\ loop[t] \in {"connect", "read", "sleep", "idle?"}
      /\ resume' \in [Tasks -> {"read", "connect"}]
      /\ UNCHANGED <<hasFrame, closed, aged, task, waiters, pc, notified, drops,
                      aborted, closer>>
  BY DEF Connected, Disconnected, DeadlinePasses, BackoffPasses, ReadWaiters,
         TypeOK, sharedVars, callVars
<1>3. LoopOwned' /\ AtMostOneLoop' /\ loop' \in [Tasks -> LoopPhases]
  BY <1>1, <1>2, LoopMoves DEF Live, LoopPhases
<1>4. TypeOK'
  BY <1>2, <1>3 DEF TypeOK
<1>5. NoLostWakeup'
  BY <1>1, <1>2 DEF NoLostWakeup, LoopTo, TypeOK
<1>6. FramesAreCurrent'
  BY <1>1, <1>2 DEF FramesAreCurrent, Running, LoopTo, TypeOK
<1>7. WaitersAccounted'
  BY <1>2, WaitersUntouched
<1>. QED  BY <1>3, <1>4, <1>5, <1>6, <1>7

LEMMA FramePreserves ==
    ASSUME IInv, NEW t \in Tasks, ApplyFrame(t) \/ NotifyFrame(t)
    PROVE  IInv'
<1>. USE DEF IInv
<1>1. UNCHANGED <<closed, aged, task, waiters, pc, drops, resume, aborted, closer>>
  BY DEF ApplyFrame, NotifyFrame, sharedVars, callVars
<1>2. WaitersAccounted'
  BY <1>1, WaitersUntouched
<1>3. CASE ApplyFrame(t)
  <2>1. /\ loop[t] = "read" /\ LoopTo(t, "notify")
        /\ hasFrame' = TRUE /\ notified' = notified
    BY <1>3 DEF ApplyFrame, callVars
  <2>2. LoopOwned' /\ AtMostOneLoop' /\ loop' \in [Tasks -> LoopPhases]
    BY <1>1, <2>1, LoopMoves DEF Live, LoopPhases
  <2>3. TypeOK'
    BY <1>1, <2>1, <2>2 DEF TypeOK
  <2>4. loop'[t] = "notify"
    BY <2>1 DEF LoopTo, TypeOK
  <2>5. NoLostWakeup'
    BY <2>4 DEF NoLostWakeup
  <2>6. FramesAreCurrent'
    BY <1>1, <2>1, <2>4, ConnectionSets DEF FramesAreCurrent, Running, LoopOwned, Live
  <2>. QED  BY <1>2, <2>2, <2>3, <2>5, <2>6
<1>4. CASE NotifyFrame(t)
  <2>1. /\ loop[t] = "notify" /\ LoopTo(t, "read")
        /\ NotifyWaiters /\ hasFrame' = hasFrame
    BY <1>4 DEF NotifyFrame, sharedVars
  <2>2. LoopOwned' /\ AtMostOneLoop' /\ loop' \in [Tasks -> LoopPhases]
    BY <1>1, <2>1, LoopMoves DEF Live, LoopPhases
  <2>3. /\ notified' \in [Callers -> BOOLEAN]
        /\ \A c \in Callers : pc[c] = "await" => notified'[c]
    BY <2>1 DEF NotifyWaiters, Listening, TypeOK
  <2>4. TypeOK'
    BY <1>1, <2>1, <2>2, <2>3 DEF TypeOK
  <2>5. NoLostWakeup'
    BY <1>1, <2>3 DEF NoLostWakeup
  <2>6. FramesAreCurrent'
    BY <1>1, <2>1 DEF FramesAreCurrent, Running, LoopTo, TypeOK
  <2>. QED  BY <1>2, <2>2, <2>4, <2>5, <2>6
<1>. QED  BY <1>3, <1>4

LEMMA ExpirePreserves ==
    ASSUME IInv, NEW t \in Tasks, Expire(t)
    PROVE  IInv'
<1>. USE DEF IInv
<1>1. PICK phase \in {"returning", "read", "connect"} : LoopTo(t, phase)
  BY DEF Expire, TypeOK
<1>2. /\ loop[t] = "expire" /\ hasFrame' = (hasFrame /\ ~aged)
      /\ phase = "returning" => aged
      /\ UNCHANGED <<closed, aged, task, waiters, pc, notified, drops, resume,
                      aborted, closer>>
  BY <1>1 DEF Expire, callVars, LoopTo, TypeOK
<1>3. LoopOwned' /\ AtMostOneLoop' /\ loop' \in [Tasks -> LoopPhases]
  BY <1>1, <1>2, LoopMoves DEF Live, LoopPhases
<1>4. hasFrame' \in BOOLEAN /\ (hasFrame' => hasFrame /\ phase # "returning")
  BY <1>2
<1>5. TypeOK'
  BY <1>2, <1>3, <1>4 DEF TypeOK
<1>6. NoLostWakeup'
  BY <1>1, <1>2, <1>4 DEF NoLostWakeup, LoopTo, TypeOK
<1>7. FramesAreCurrent'
  BY <1>1, <1>2, <1>4 DEF FramesAreCurrent, Running, LoopTo, TypeOK
<1>8. WaitersAccounted'
  BY <1>2, WaitersUntouched
<1>. QED  BY <1>3, <1>5, <1>6, <1>7, <1>8

\* A loop that ends was torn down, and left no frame, or aborted by close().
LEMMA EndPreserves ==
    ASSUME IInv, NEW t \in Tasks, Return(t) \/ Stop(t)
    PROVE  IInv'
<1>. USE DEF IInv
<1>1. /\ loop' = [loop EXCEPT ![t] = "finished"]
      /\ aborted' = aborted \ {t}
      /\ loop[t] = "returning" \/ t \in aborted
      /\ loop[t] # "notify"
      /\ UNCHANGED <<hasFrame, closed, aged, task, waiters, pc, notified, drops,
                      resume, closer>>
  BY DEF Return, Stop, LoopTo, sharedVars, callVars
<1>2. TypeOK'
  BY <1>1 DEF TypeOK, LoopPhases
<1>3. LoopOwned' /\ AtMostOneLoop'
  BY <1>1 DEF LoopOwned, AtMostOneLoop, Live, TypeOK
<1>4. NoLostWakeup'
  BY <1>1 DEF NoLostWakeup, TypeOK
<1>5. FramesAreCurrent'
  BY <1>1 DEF FramesAreCurrent, LoopOwned, Running, TypeOK
<1>6. WaitersAccounted'
  BY <1>1, WaitersUntouched
<1>. QED  BY <1>2, <1>3, <1>4, <1>5, <1>6

(***************************************************************************)
(* close() and time                                                        *)
(***************************************************************************)
LEMMA ClosePreserves ==
    ASSUME IInv, NEW k \in Closers, Close(k)
    PROVE  IInv'
<1>. USE DEF IInv
<1>1. /\ closer[k] = "none" /\ closer' = [closer EXCEPT ![k] = "spawned"]
      /\ UNCHANGED <<hasFrame, closed, aged, task, waiters, pc, notified, drops,
                      loop, resume, aborted>>
  BY DEF Close, sharedVars, callVars, loopVars
<1>2. TypeOK'
  BY <1>1 DEF TypeOK
<1>3. NoLostWakeup'
  BY <1>1 DEF NoLostWakeup, TypeOK
<1>. QED  BY <1>1, <1>2, <1>3, LoopsUntouched, FramesUntouched, WaitersUntouched

LEMMA TakeDownPreserves ==
    ASSUME IInv, NEW k \in Closers, TakeDown(k)
    PROVE  IInv'
<1>. USE DEF IInv
<1>1. /\ closed' = TRUE /\ task' = NoTask
      /\ aborted' = IF Running THEN aborted \cup {task} ELSE aborted
      /\ closer' = [closer EXCEPT ![k] = "notify"]
      /\ UNCHANGED <<hasFrame, aged, waiters, pc, notified, drops, loop, resume>>
  BY DEF TakeDown, callVars
<1>2. TypeOK'
  BY <1>1 DEF TypeOK, Running
<1>3. LoopOwned' /\ AtMostOneLoop'
  <2>1. CASE closed
    BY <1>1, <2>1 DEF LoopOwned, AtMostOneLoop, Live, Running
  <2>2. CASE ~closed
    BY <1>1, <2>2, ConnectionSets DEF LoopOwned, AtMostOneLoop, Live, Running
  <2>. QED  BY <2>1, <2>2
<1>4. closer'[k] = "notify"
  BY <1>1 DEF TypeOK
<1>5. NoLostWakeup' /\ FramesAreCurrent'
  BY <1>1, <1>4 DEF NoLostWakeup, FramesAreCurrent
<1>. QED  BY <1>1, <1>2, <1>3, <1>5, WaitersUntouched

LEMMA NotifyClosedPreserves ==
    ASSUME IInv, NEW k \in Closers, NotifyClosed(k)
    PROVE  IInv'
<1>. USE DEF IInv
<1>1. /\ NotifyWaiters /\ closer' = [closer EXCEPT ![k] = "done"]
      /\ UNCHANGED <<hasFrame, closed, aged, task, waiters, pc, drops, loop,
                      resume, aborted>>
  BY DEF NotifyClosed, sharedVars, loopVars
<1>2. /\ notified' \in [Callers -> BOOLEAN]
      /\ \A c \in Callers : pc[c] = "await" => notified'[c]
  BY <1>1 DEF NotifyWaiters, Listening, TypeOK
<1>3. TypeOK'
  BY <1>1, <1>2 DEF TypeOK
<1>4. NoLostWakeup'
  BY <1>1, <1>2 DEF NoLostWakeup
<1>. QED  BY <1>1, <1>3, <1>4, LoopsUntouched, FramesUntouched, WaitersUntouched

\* Age, and the steps that change nothing.
LEMMA TimePreserves ==
    ASSUME IInv, Age \/ UNCHANGED vars
    PROVE  IInv'
<1>. USE DEF IInv
<1>1. /\ aged' \in BOOLEAN
      /\ UNCHANGED <<hasFrame, closed, task, waiters, pc, notified, drops, loop,
                      resume, aborted, closer>>
  BY DEF Age, vars, sharedVars, callVars, loopVars, TypeOK
<1>2. TypeOK'
  BY <1>1 DEF TypeOK
<1>3. NoLostWakeup'
  BY <1>1 DEF NoLostWakeup
<1>. QED  BY <1>1, <1>2, <1>3, LoopsUntouched, FramesUntouched, WaitersUntouched

(***************************************************************************)
(* Theorems                                                                *)
(***************************************************************************)
LEMMA NextPreserves == IInv /\ [Next]_vars => IInv'
<1>. SUFFICES ASSUME IInv, [Next]_vars PROVE IInv'
  OBVIOUS
<1>1. CASE \E c \in Callers : Enter(c) \/ CallStep(c) \/ Drop(c)
  BY <1>1, EnterPreserves, CallStepPreserves, DropPreserves
<1>2. CASE \E t \in Tasks :
              \/ Connected(t) \/ Disconnected(t) \/ ApplyFrame(t)
              \/ DeadlinePasses(t) \/ LoopStep(t) \/ Stop(t)
  BY <1>2, QuietLoopPreserves, FramePreserves, ExpirePreserves, EndPreserves
     DEF LoopStep
<1>3. CASE \E k \in Closers : Close(k) \/ CloseStep(k)
  BY <1>3, ClosePreserves, TakeDownPreserves, NotifyClosedPreserves DEF CloseStep
<1>4. CASE Age \/ UNCHANGED vars
  BY <1>4, TimePreserves
<1>. QED  BY <1>1, <1>2, <1>3, <1>4 DEF Next

\* The invariant that the others follow from holds throughout.
THEOREM ConnectionInvariance == Spec => []IInv
BY InitIInv, NextPreserves, PTL DEF Spec

\* Every variable keeps its type; in particular the counter of waiting calls
\* never wraps below zero (ws.rs:96-98).
THEOREM ConnectionTypes == Spec => []TypeOK
<1>1. IInv => TypeOK
  BY DEF IInv
<1>. QED  BY <1>1, ConnectionInvariance, PTL

\* No interleaving of calls, teardowns and close() gives a source two read
\* loops (ws.rs:82-90, 125-131).
THEOREM OneLoop == Spec => []AtMostOneLoop
<1>1. IInv => AtMostOneLoop
  BY DEF IInv
<1>. QED  BY <1>1, ConnectionInvariance, PTL

\* No frame and no close() between a call's check and its wait is missed
\* (ws.rs:103-121, 182-183, 132).
THEOREM WakeupsArrive == Spec => []NoLostWakeup
<1>1. IInv => NoLostWakeup
  BY DEF IInv
<1>. QED  BY <1>1, ConnectionInvariance, PTL

\* The warm path never hands out a frame of a loop that was torn down
\* (ws.rs:91-93, 207-214).
THEOREM FramesStayCurrent == Spec => []FramesAreCurrent
<1>1. IInv => FramesAreCurrent
  BY DEF IInv
<1>. QED  BY <1>1, ConnectionInvariance, PTL

\* The counter that defers teardown counts the waiting calls and the dropped
\* ones, which it never forgets (ws.rs:96-98).
THEOREM WaitersAreCounted == Spec => []WaitersAccounted
<1>1. IInv => WaitersAccounted
  BY DEF IInv
<1>. QED  BY <1>1, ConnectionInvariance, PTL
=============================================================================
