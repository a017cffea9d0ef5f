----------------------------- MODULE WsListener -----------------------------
(***************************************************************************)
(* The WebSocket sources of the Python SDK: OverridesWsSource and          *)
(* PriceLevelsWsSource, which differ in what a frame does to the buffered  *)
(* snapshot only (src/sdk/python/src/propamm/overrides/__init__.py and     *)
(* .../prices/__init__.py).  Callers, close() and one background listener  *)
(* are asyncio tasks: each step here is what runs between two awaits.      *)
(*                                                                         *)
(* Time counts, because nothing but time protects a call that waits from a *)
(* listener that goes idle.  Time since an event is counted up to the      *)
(* timeout it is compared with.  What frames say, last_error and the       *)
(* length of the backoff are left out.                                     *)
(***************************************************************************)
EXTENDS Naturals

CONSTANTS
    Callers,
    Tasks,              \* listener tasks, used again and again
    NoTask,
    FIRST_FRAME_TIMEOUT, IDLE_TIMEOUT

ASSUME ListenerSets == Tasks # {} /\ NoTask \notin Tasks
ASSUME Timeouts == FIRST_FRAME_TIMEOUT \in Nat \ {0} /\ IDLE_TIMEOUT \in Nat

VARIABLES
    hasFrame, closed,
    frameEvent,     \* the asyncio.Event is set
    sinceUse,       \* time since last_use
    task,           \* the listener's handle
    listener,       \* where each listener task is; "done" is task.done()
    cancelled,      \* the tasks that were told to stop and have not yet
    call,           \* how each caller's latest call is getting on
    waited          \* how long it has waited

sourceVars == <<hasFrame, closed, frameEvent, task>>
clockVars == <<sinceUse, waited>>
taskVars == <<listener, cancelled>>
vars == <<sourceVars, clockVars, taskVars, call>>

CallStates == {"idle", "waiting", "woken", "roused", "served", "failed"}
ListenerStates == {"created", "connecting", "receiving", "leaving", "backoff", "done"}

TypeOK ==
    /\ {hasFrame, closed, frameEvent} \subseteq BOOLEAN
    /\ sinceUse \in 0 .. IDLE_TIMEOUT
    /\ task \in Tasks \cup {NoTask}
    /\ listener \in [Tasks -> ListenerStates]
    /\ cancelled \subseteq Tasks
    /\ call \in [Callers -> CallStates]
    /\ waited \in [Callers -> 0 .. FIRST_FRAME_TIMEOUT]

CallTo(c, state) == call' = [call EXCEPT ![c] = state]
ListenerTo(t, state) == listener' = [listener EXCEPT ![t] = state]

\* frame_event.set(): whoever waits goes on.
WaitersTo(state) ==
    /\ frameEvent' = TRUE
    /\ call' = [c \in Callers |-> IF call[c] = "waiting" THEN state ELSE call[c]]

\* _idle_remaining() <= 0
IdleOut == sinceUse >= IDLE_TIMEOUT

(***************************************************************************)
(* Calls                                                                   *)
(***************************************************************************)
Running == task # NoTask /\ listener[task] # "done"

Spawn ==
    \E t \in Tasks :
       /\ listener[t] = "done"
       /\ task' = t
       /\ ListenerTo(t, "created")
       /\ frameEvent' = FALSE
       /\ UNCHANGED cancelled

\* Mutant of EnsureRunning: a listener without a frame is replaced.
EnsureFresh ==
    IF Running /\ hasFrame THEN UNCHANGED <<task, frameEvent, taskVars>> ELSE Spawn

EnsureRunning ==
    IF Running THEN UNCHANGED <<task, frameEvent, taskVars>> ELSE Spawn

\* get_overrides up to its await.  If the event is set the wait is over as soon
\* as it begins.
Get(c) ==
    /\ call[c] \in {"idle", "served", "failed"}
    /\ ~closed
    /\ EnsureRunning
    /\ sinceUse' = 0
    /\ waited' = [waited EXCEPT ![c] = 0]
    /\ CallTo(c, IF hasFrame THEN "served" ELSE IF frameEvent' THEN "woken" ELSE "waiting")
    /\ UNCHANGED <<hasFrame, closed>>

GetFromClosed(c) ==
    /\ call[c] \in {"idle", "served", "failed"}
    /\ closed
    /\ CallTo(c, "failed")
    /\ UNCHANGED <<sourceVars, clockVars, taskVars>>

Resume(c) ==
    /\ call[c] \in {"woken", "roused"}
    /\ CallTo(c, IF closed THEN "failed" ELSE "served")
    /\ UNCHANGED <<sourceVars, clockVars, taskVars>>

\* Mutant of TimeOut: without an error to report the call waits on.
TimeOutLate(c) ==
    /\ call[c] \in {"woken", "roused"}
    /\ waited[c] = FIRST_FRAME_TIMEOUT
    /\ CallTo(c, "failed")
    /\ UNCHANGED <<sourceVars, clockVars, taskVars>>

\* wait_for gives up.  Whether it still does so when the event has been set at
\* the same time depends on the version of Python.
TimeOut(c) ==
    /\ call[c] \in {"waiting", "woken", "roused"}
    /\ waited[c] = FIRST_FRAME_TIMEOUT
    /\ CallTo(c, "failed")
    /\ UNCHANGED <<sourceVars, clockVars, taskVars>>

\* task.cancel() does nothing to a task that is done.
Close ==
    /\ closed' = TRUE
    /\ WaitersTo("roused")
    /\ task' = NoTask
    /\ cancelled' = IF Running THEN cancelled \cup {task} ELSE cancelled
    /\ UNCHANGED <<hasFrame, clockVars, listener>>

(***************************************************************************)
(* The listener: _run                                                      *)
(***************************************************************************)
\* Mutant of Exit: the buffered frame outlives the listener.
ExitKeepingFrame(t) ==
    /\ ListenerTo(t, "done")
    /\ cancelled' = cancelled \ {t}
    /\ UNCHANGED hasFrame

Exit(t) ==
    /\ ListenerTo(t, "done")
    /\ cancelled' = cancelled \ {t}
    /\ hasFrame' = FALSE

GoOn(t, state) == ListenerTo(t, state) /\ UNCHANGED <<cancelled, hasFrame>>

\* The outer while loop, first entered or entered again after a backoff.
Turn(t) ==
    /\ listener[t] \in {"created", "backoff"}
    /\ IF closed \/ IdleOut THEN Exit(t) ELSE GoOn(t, "connecting")
    /\ UNCHANGED <<closed, frameEvent, task, clockVars, call>>

\* The inner one receives until the source is closed or idle, ...
Connected(t) ==
    /\ listener[t] = "connecting"
    /\ GoOn(t, IF closed \/ IdleOut THEN "leaving" ELSE "receiving")
    /\ UNCHANGED <<closed, frameEvent, task, clockVars, call>>

\* ... which it finds out between two messages.  A message that cannot be
\* decoded counts for nothing else.
Message(t) ==
    /\ listener[t] = "receiving"
    /\ hasFrame' = TRUE
    /\ WaitersTo("woken")
    /\ ListenerTo(t, IF closed \/ IdleOut THEN "leaving" ELSE "receiving")
    /\ UNCHANGED <<closed, task, clockVars, cancelled>>

\* Mutant of RecvTimesOut: recv() is given no timeout.
RecvForever(t) ==
    /\ listener[t] = "receiving"
    /\ closed
    /\ GoOn(t, "leaving")
    /\ UNCHANGED <<closed, frameEvent, task, clockVars, call>>

\* recv() timed out; before the source is idle that only starts another one.
RecvTimesOut(t) ==
    /\ listener[t] = "receiving"
    /\ closed \/ IdleOut
    /\ GoOn(t, "leaving")
    /\ UNCHANGED <<closed, frameEvent, task, clockVars, call>>

\* The connection fails, is lost, or is left for good.
Disconnected(t) ==
    /\ listener[t] \in {"connecting", "receiving", "leaving"}
    /\ IF closed \/ IdleOut THEN Exit(t) ELSE GoOn(t, "backoff")
    /\ UNCHANGED <<closed, frameEvent, task, clockVars, call>>

\* CancelledError, at whatever the listener awaits.
Stop(t) ==
    /\ t \in cancelled
    /\ ListenerTo(t, "done")
    /\ cancelled' = cancelled \ {t}
    /\ UNCHANGED <<sourceVars, clockVars, call>>

(***************************************************************************)
(* Time and specification                                                  *)
(***************************************************************************)
Saturated(time, limit) == IF time < limit THEN time + 1 ELSE limit

\* Timers fire in the order of their deadlines: a call whose time is up is told
\* so before more time passes for the listener.
Tick ==
    /\ \A c \in Callers : call[c] = "waiting" => waited[c] < FIRST_FRAME_TIMEOUT
    /\ sinceUse' = Saturated(sinceUse, IDLE_TIMEOUT)
    /\ waited' = [c \in Callers |-> IF call[c] \in {"waiting", "woken", "roused"}
                                    THEN Saturated(waited[c], FIRST_FRAME_TIMEOUT)
                                    ELSE 0]
    /\ UNCHANGED <<sourceVars, taskVars, call>>

Init ==
    /\ hasFrame = FALSE
    /\ closed = FALSE
    /\ frameEvent = FALSE
    /\ sinceUse = IDLE_TIMEOUT      \* last_use is 0.0
    /\ task = NoTask
    /\ listener = [t \in Tasks |-> "done"]
    /\ cancelled = {}
    /\ call = [c \in Callers |-> "idle"]
    /\ waited = [c \in Callers |-> 0]

Next ==
    \/ \E c \in Callers : Get(c) \/ GetFromClosed(c) \/ Resume(c) \/ TimeOut(c)
    \/ \E t \in Tasks :
          \/ Turn(t) \/ Connected(t) \/ Message(t)
          \/ RecvTimesOut(t) \/ Disconnected(t) \/ Stop(t)
    \/ Close \/ Tick

\* Tasks that can run do, time passes, and websockets gives up on connecting
\* and on closing after timeouts of its own.  The server may stay silent or may
\* never stop talking.
Fairness ==
    /\ \A c \in Callers : WF_vars(Resume(c) \/ TimeOut(c))
    /\ \A t \in Tasks :
          /\ WF_vars(Turn(t))
          /\ WF_vars(listener[t] = "connecting" /\ (Connected(t) \/ Disconnected(t)))
          /\ WF_vars(listener[t] = "leaving" /\ Disconnected(t))
          /\ WF_vars(RecvTimesOut(t))
          /\ WF_vars(Stop(t))
    /\ WF_vars(Tick)

Spec == Init /\ [][Next]_vars /\ Fairness

(***************************************************************************)
(* Properties                                                              *)
(***************************************************************************)
Live(t) == listener[t] # "done"

\* However calls, going idle and close() interleave, there is one listener at
\* most, and the one a closed source still has was told to stop.
OneListener ==
    /\ \A s, t \in Tasks : Live(s) /\ Live(t) => s = t
    /\ closed => \A t \in Tasks : Live(t) => t \in cancelled

\* A call that waits for its first frame has a listener to hear it, as long as
\* its time is not up.
WaitIsHeard == ~closed /\ (\E c \in Callers : call[c] = "waiting") => Running

\* While a listener has heard nothing its event is not set: a call that comes
\* in will wait for a frame instead of passing on what an earlier listener left.
EventMeansFrame == Running /\ frameEvent => hasFrame

\* What a call amounts to, seen from outside.
Outward(state) ==
    CASE state = "woken"  -> "seen"
      [] state = "roused" -> "waiting"
      [] OTHER            -> state

Promise == INSTANCE SnapshotSource WITH
    up <- Running,
    fresh <- hasFrame /\ ~closed,
    call <- [c \in Callers |-> Outward(call[c])]

\* The source implements SnapshotSource: it answers no call from what it heard
\* before it went idle, and does not go idle under a call that waits.
KeepsPromise == Promise!Safety

\* Every call gets an answer, even from a server that says nothing.
CallsAnswered ==
    \A c \in Callers : call[c] = "waiting" ~> call[c] \in {"served", "failed"}

\* When calls cease the listener ends, whatever the server does.
IdleTearsDown ==
    <>[][\A c \in Callers : ~Get(c)]_vars => <>[](\A t \in Tasks : ~Live(t))

(***************************************************************************)
(* The inductive invariant behind them                                     *)
(***************************************************************************)
\* The handle is that of the live listener; only close() takes it away, and only
\* close() cancels.
ListenerOwned ==
    /\ closed => task = NoTask
    /\ ~closed => cancelled = {} /\ \A t \in Tasks : Live(t) => t = task

\* The buffered frame was heard by the listener that is there.
FrameIsOfListener == hasFrame /\ ~closed => Running

\* close() rouses all that wait, and nothing else does so without a frame.
RousedByClose ==
    /\ closed => \A c \in Callers : call[c] # "waiting"
    /\ ~closed => \A c \in Callers : call[c] # "roused"

\* A call that waits was a use of the source.
WaitIsUse == \A c \in Callers : call[c] = "waiting" => sinceUse <= waited[c]

IInv ==
    /\ TypeOK
    /\ ListenerOwned
    /\ OneListener
    /\ EventMeansFrame
    /\ FrameIsOfListener
    /\ RousedByClose
    /\ WaitIsUse
=============================================================================
