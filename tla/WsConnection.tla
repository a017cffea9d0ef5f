---------------------------- MODULE WsConnection ----------------------------
(***************************************************************************)
(* The lazy WebSocket connection behind OverridesWsSource and              *)
(* PriceLevelsWsSource of the Rust SDK: src/sdk/rust/src/ws.rs.            *)
(*                                                                         *)
(* Calls of get_snapshot, the read loop they spawn and the tasks close()   *)
(* spawns run on tokio worker threads and share a mutex, an atomic counter *)
(* and a Notify.  What one of them does under the mutex is a step; so is   *)
(* each access to the counter and each call of notify_waiters.  Time is    *)
(* abstract: deadlines may pass whenever the code waits for them.  The     *)
(* content of frames is left out, except that a frame was or was not       *)
(* applied since the last idle teardown.                                   *)
(***************************************************************************)
EXTENDS Integers, FiniteSets

CONSTANTS
    Callers,    \* the calls of get_snapshot that may overlap
    Tasks,      \* identities of spawned read loops, used again once finished
    Closers,    \* the calls of close()
    MaxDrops,   \* bound on the calls whose future is dropped half-way
    NoTask

ASSUME ConnectionSets ==
    /\ IsFiniteSet(Callers)
    /\ Tasks # {} /\ NoTask \notin Tasks
    /\ MaxDrops \in Nat

VARIABLES
    hasFrame,   \* a frame is buffered
    closed,
    aged,       \* last_use is idle_timeout ago or longer
    task,       \* the JoinHandle
    waiters,    \* the atomic counter
    pc,         \* where each call is
    notified,   \* its Notified future is ready
    loop,       \* where each read loop is; "finished" as is_finished() sees it
    resume,     \* where an idle check that fails takes it back to
    aborted,    \* the loops whose handle was aborted
    closer,     \* where each close() is
    drops       \* calls dropped so far

sharedVars == <<hasFrame, closed, aged, task>>
callVars == <<waiters, pc, notified, drops>>
loopVars == <<loop, resume, aborted>>
vars == <<sharedVars, callVars, loopVars, closer>>

CallPhases == {"out", "register", "listen", "check", "await", "leave"}
LoopPhases == {"connect", "read", "notify", "sleep", "idle?", "expire",
               "returning", "finished"}

TypeOK ==
    /\ hasFrame \in BOOLEAN /\ closed \in BOOLEAN /\ aged \in BOOLEAN
    /\ task \in Tasks \cup {NoTask}
    /\ waiters \in Nat
    /\ pc \in [Callers -> CallPhases]
    /\ notified \in [Callers -> BOOLEAN]
    /\ loop \in [Tasks -> LoopPhases]
    /\ resume \in [Tasks -> {"read", "connect"}]
    /\ aborted \subseteq Tasks
    /\ closer \in [Closers -> {"none", "spawned", "notify", "done"}]
    /\ drops \in 0 .. MaxDrops

CallTo(c, phase) == pc' = [pc EXCEPT ![c] = phase]
LoopTo(t, phase) == loop' = [loop EXCEPT ![t] = phase]

\* The phases in which a call's Notified future exists.
Listening == {"check", "await"}

\* Mutant of NotifyWaiters: notify_one.
NotifyOne ==
    LET listeners == {c \in Callers : pc[c] \in Listening /\ ~notified[c]}
    IN  IF listeners = {} THEN notified' = notified
        ELSE \E c \in listeners : notified' = [notified EXCEPT ![c] = TRUE]

\* notify_waiters: every Notified future that exists becomes ready.
NotifyWaiters ==
    notified' = [c \in Callers |-> notified[c] \/ pc[c] \in Listening]

(***************************************************************************)
(* get_snapshot.  A call of a closed source fails at once: no step.        *)
(***************************************************************************)
Spawn ==
    \E t \in Tasks :
       /\ loop[t] = "finished"
       /\ LoopTo(t, "connect")
       /\ task' = t
       /\ UNCHANGED <<resume, aborted>>

\* Mutant of Running: a source without a frame is taken for one without loop.
RunningWithFrame == hasFrame /\ task # NoTask

Running == task # NoTask /\ loop[task] # "finished"

\* The warm path, under the mutex: a buffered frame is returned at once.
Enter(c) ==
    /\ pc[c] = "out"
    /\ ~closed
    /\ aged' = FALSE
    /\ IF Running THEN UNCHANGED <<loopVars, task>> ELSE Spawn
    /\ CallTo(c, IF hasFrame THEN "out" ELSE "register")
    /\ UNCHANGED <<hasFrame, closed, waiters, notified, drops, closer>>

Register(c) ==
    /\ pc[c] = "register"
    /\ waiters' = waiters + 1
    /\ CallTo(c, "listen")
    /\ UNCHANGED <<sharedVars, notified, drops, loopVars, closer>>

Listen(c) ==
    /\ pc[c] = "listen"
    /\ notified' = [notified EXCEPT ![c] = FALSE]
    /\ CallTo(c, "check")
    /\ UNCHANGED <<sharedVars, waiters, drops, loopVars, closer>>

Check(c) ==
    /\ pc[c] = "check"
    /\ CallTo(c, IF closed \/ hasFrame THEN "leave" ELSE "await")
    /\ UNCHANGED <<sharedVars, waiters, notified, drops, loopVars, closer>>

Wake(c) ==
    /\ pc[c] = "await"
    /\ notified[c]
    /\ CallTo(c, "listen")
    /\ UNCHANGED <<sharedVars, waiters, notified, drops, loopVars, closer>>

\* first_frame_timeout has passed.
Timeout(c) ==
    /\ pc[c] = "await"
    /\ ~notified[c]
    /\ CallTo(c, "leave")
    /\ UNCHANGED <<sharedVars, waiters, notified, drops, loopVars, closer>>

Leave(c) ==
    /\ pc[c] = "leave"
    /\ waiters' = waiters - 1
    /\ CallTo(c, "out")
    /\ UNCHANGED <<sharedVars, notified, drops, loopVars, closer>>

\* The user of the SDK drops the call's future at one of its awaits, under a
\* timeout or a select! of their own: nothing after the await runs.
Drop(c) ==
    /\ pc[c] \in {"check", "await"}
    /\ drops < MaxDrops
    /\ drops' = drops + 1
    /\ CallTo(c, "out")
    /\ UNCHANGED <<sharedVars, waiters, notified, loopVars, closer>>

(***************************************************************************)
(* run_ws_loop                                                             *)
(***************************************************************************)
Connected(t) ==
    /\ loop[t] = "connect"
    /\ LoopTo(t, "read")
    /\ UNCHANGED <<sharedVars, callVars, resume, aborted, closer>>

\* The connection is refused, or the stream ends: back off.
Disconnected(t) ==
    /\ loop[t] \in {"connect", "read"}
    /\ LoopTo(t, "sleep")
    /\ UNCHANGED <<sharedVars, callVars, resume, aborted, closer>>

\* handle_frame, under the mutex.  A message that is not an applicable frame
\* changes nothing.
ApplyFrame(t) ==
    /\ loop[t] = "read"
    /\ hasFrame' = TRUE
    /\ LoopTo(t, "notify")
    /\ UNCHANGED <<closed, aged, task, callVars, resume, aborted, closer>>

\* ... and after it is released.
NotifyFrame(t) ==
    /\ loop[t] = "notify"
    /\ NotifyWaiters
    /\ LoopTo(t, "read")
    /\ UNCHANGED <<sharedVars, waiters, pc, drops, resume, aborted, closer>>

\* sleep_until(idle_deadline) in the select!.  The deadline is a guess: the
\* source may have been used since, or be waited for.
DeadlinePasses(t) ==
    /\ loop[t] = "read"
    /\ LoopTo(t, "idle?")
    /\ resume' = [resume EXCEPT ![t] = "read"]
    /\ UNCHANGED <<sharedVars, callVars, aborted, closer>>

\* Mutant of BackoffPasses: an idle source reconnects all the same.
BackoffReconnects(t) ==
    /\ loop[t] = "sleep"
    /\ LoopTo(t, "connect")
    /\ UNCHANGED <<sharedVars, callVars, resume, aborted, closer>>

BackoffPasses(t) ==
    /\ loop[t] = "sleep"
    /\ LoopTo(t, "idle?")
    /\ resume' = [resume EXCEPT ![t] = "connect"]
    /\ UNCHANGED <<sharedVars, callVars, aborted, closer>>

\* idle_expired: the counter is read first ...
ReadWaiters(t) ==
    /\ loop[t] = "idle?"
    /\ LoopTo(t, IF waiters > 0 THEN resume[t] ELSE "expire")
    /\ UNCHANGED <<sharedVars, callVars, resume, aborted, closer>>

\* Mutant of Expire: the buffered frame outlives the loop.
ExpireKeepingFrame(t) ==
    /\ loop[t] = "expire"
    /\ LoopTo(t, IF aged THEN "returning" ELSE resume[t])
    /\ UNCHANGED <<sharedVars, callVars, resume, aborted, closer>>

\* ... and last_use after it, under the mutex.
Expire(t) ==
    /\ loop[t] = "expire"
    /\ hasFrame' = (hasFrame /\ ~aged)
    /\ LoopTo(t, IF aged THEN "returning" ELSE resume[t])
    /\ UNCHANGED <<closed, aged, task, callVars, resume, aborted, closer>>

\* The loop has left the mutex behind; tokio marks its task finished later.
Return(t) ==
    /\ loop[t] = "returning"
    /\ LoopTo(t, "finished")
    /\ aborted' = aborted \ {t}
    /\ UNCHANGED <<sharedVars, callVars, resume, closer>>

\* An aborted loop stops when it next yields.  There is nothing to yield at
\* between handle_frame's release of the mutex and its notification.
Stop(t) ==
    /\ t \in aborted
    /\ loop[t] \notin {"notify", "returning", "finished"}
    /\ LoopTo(t, "finished")
    /\ aborted' = aborted \ {t}
    /\ UNCHANGED <<sharedVars, callVars, resume, closer>>

(***************************************************************************)
(* close                                                                   *)
(***************************************************************************)
Close(k) ==
    /\ closer[k] = "none"
    /\ closer' = [closer EXCEPT ![k] = "spawned"]
    /\ UNCHANGED <<sharedVars, callVars, loopVars>>

TakeDown(k) ==
    /\ closer[k] = "spawned"
    /\ closed' = TRUE
    /\ task' = NoTask
    /\ aborted' = IF Running THEN aborted \cup {task} ELSE aborted
    /\ closer' = [closer EXCEPT ![k] = "notify"]
    /\ UNCHANGED <<hasFrame, aged, callVars, loop, resume>>

NotifyClosed(k) ==
    /\ closer[k] = "notify"
    /\ NotifyWaiters
    /\ closer' = [closer EXCEPT ![k] = "done"]
    /\ UNCHANGED <<sharedVars, waiters, pc, drops, loopVars>>

(***************************************************************************)
(* Specification                                                           *)
(***************************************************************************)
\* idle_timeout passes since the last use.
Age ==
    /\ ~aged
    /\ aged' = TRUE
    /\ UNCHANGED <<hasFrame, closed, task, callVars, loopVars, closer>>

Init ==
    /\ hasFrame = FALSE
    /\ closed = FALSE
    /\ aged = TRUE      \* last_use is None
    /\ task = NoTask
    /\ waiters = 0
    /\ pc = [c \in Callers |-> "out"]
    /\ notified = [c \in Callers |-> FALSE]
    /\ loop = [t \in Tasks |-> "finished"]
    /\ resume = [t \in Tasks |-> "read"]
    /\ aborted = {}
    /\ closer = [k \in Closers |-> "none"]
    /\ drops = 0

CallStep(c) ==
    Register(c) \/ Listen(c) \/ Check(c) \/ Wake(c) \/ Timeout(c) \/ Leave(c)

LoopStep(t) ==
    \/ NotifyFrame(t) \/ BackoffPasses(t)
    \/ ReadWaiters(t) \/ Expire(t) \/ Return(t)

CloseStep(k) == TakeDown(k) \/ NotifyClosed(k)

Next ==
    \/ \E c \in Callers : Enter(c) \/ CallStep(c) \/ Drop(c)
    \/ \E t \in Tasks :
          \/ Connected(t) \/ Disconnected(t) \/ ApplyFrame(t)
          \/ DeadlinePasses(t) \/ LoopStep(t) \/ Stop(t)
    \/ \E k \in Closers : Close(k) \/ CloseStep(k)
    \/ Age

\* Tasks that can run do, and timers fire.  select! picks at random among its
\* ready branches, so frames cannot starve the deadline; a task that is never
\* pending is made to yield.  Nothing is assumed of the server.
Fairness ==
    /\ \A c \in Callers : WF_vars(CallStep(c))
    /\ \A t \in Tasks : WF_vars(LoopStep(t)) /\ SF_vars(DeadlinePasses(t))
                                             /\ SF_vars(Stop(t))
    /\ \A k \in Closers : WF_vars(CloseStep(k))
    /\ WF_vars(Age)

Spec == Init /\ [][Next]_vars /\ Fairness

(***************************************************************************)
(* Properties                                                              *)
(***************************************************************************)
Live(t) == loop[t] # "finished"

\* However calls, teardown and close() race, a source never has two read loops,
\* and the one a closed source may still have has been told to stop.
AtMostOneLoop ==
    /\ \A s, t \in Tasks : Live(s) /\ Live(t) => s = t
    /\ closed => \A t \in Tasks : Live(t) /\ loop[t] # "returning" => t \in aborted

\* A call that waits without its future ready either has nothing to be woken
\* for, or somebody is about to notify it: neither a frame nor close() that
\* comes between its check and its wait is missed.
NoLostWakeup ==
    \A c \in Callers :
       pc[c] = "await" /\ ~notified[c] /\ (hasFrame \/ closed) =>
          \/ \E t \in Tasks : loop[t] = "notify"
          \/ \E k \in Closers : closer[k] = "notify"

\* A frame that the warm path hands out comes from a loop that is still there
\* to replace it: a torn down loop leaves no frame behind.
FramesAreCurrent ==
    hasFrame /\ ~closed => Running /\ loop[task] # "returning"

Waiting == {c \in Callers : pc[c] \in {"listen", "check", "await", "leave"}}

\* The counter is the number of calls that wait, plus one for every call that
\* was dropped while it did.
WaitersAccounted == waiters = drops + Cardinality(Waiting)

Unused == aged /\ \A c \in Callers : pc[c] = "out"

\* No attempt to connect hangs for ever: connect_async is not given a timeout.
ConnectsEnd == \A t \in Tasks : []<>(loop[t] # "connect")

\* A live loop of a source nobody uses comes to its end.
IdleLoopEnds ==
    (Unused /\ \E t \in Tasks : Live(t)) ~> (~Unused \/ \A t \in Tasks : ~Live(t))

\* A source nobody uses drops its connection, whatever the server sends and
\* even if it never accepts a connection; unless the future of a call that
\* waited was dropped.
IdleTearsDown == ConnectsEnd /\ [](drops = 0) => IdleLoopEnds

(***************************************************************************)
(* The inductive invariant behind them                                     *)
(***************************************************************************)
\* The handle is that of the live loop; only close() takes it away, and only
\* close() aborts.
LoopOwned ==
    /\ closed => task = NoTask
    /\ ~closed => aborted = {} /\ \A t \in Tasks : Live(t) => t = task

IInv ==
    /\ TypeOK
    /\ LoopOwned
    /\ AtMostOneLoop
    /\ NoLostWakeup
    /\ FramesAreCurrent
    /\ WaitersAccounted
=============================================================================
