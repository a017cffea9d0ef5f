------------------------------ MODULE WsSource ------------------------------
(***************************************************************************)
(* The WebSocket source of the TypeScript SDK                              *)
(* (src/sdk/typescript/src/ws-source.ts).  All of it runs on one event     *)
(* loop: events and timers are tasks of the loop, and what a settled       *)
(* promise continues with runs before the next of them.  The user's own    *)
(* code, which may call the source again or close it, runs between two     *)
(* such continuations, too.                                                *)
(*                                                                         *)
(* Time is left out: a timer that is set may fire at any time, and whether *)
(* a frame can be decoded and how long a backoff is are not modelled.      *)
(***************************************************************************)
EXTENDS FiniteSets

CONSTANTS
    Callers,
    Sockets,        \* WebSocket objects not collected yet
    NoSocket

ASSUME SocketNames == NoSocket \notin Sockets

VARIABLES
    finite,         \* idleTimeoutMs is not Infinity
    ws,             \* the socket in use
    sock,           \* the readyState of each
    closed,
    reconnectTimer, idleTimer,      \* whether each is set
    hasFrame,
    call            \* how each caller's latest call is getting on

timerVars == <<reconnectTimer, idleTimer>>
socketVars == <<ws, sock>>
vars == <<finite, socketVars, closed, timerVars, hasFrame, call>>

SocketStates == {"unused", "connecting", "open", "closing"}
CallStates == {"idle", "waiting", "woken", "rejected", "served", "failed"}

TypeOK ==
    /\ ws \in Sockets \cup {NoSocket}
    /\ sock \in [Sockets -> SocketStates]
    /\ {finite, closed, reconnectTimer, idleTimer, hasFrame} \subseteq BOOLEAN
    /\ call \in [Callers -> CallStates]

\* frameWaiters
Waiters == {c \in Callers : call[c] = "waiting"}

\* No continuation is pending, so that the event loop may take its next task.
Settled == \A c \in Callers : call[c] \notin {"woken", "rejected"}

WaitersTo(outcome) ==
    call' = [c \in Callers |-> IF c \in Waiters THEN outcome ELSE call[c]]

(***************************************************************************)
(* Parts of the methods                                                    *)
(***************************************************************************)
ArmIdleTimer == idleTimer' = (~closed /\ finite)

Connect(backingOff) ==
    IF ws # NoSocket \/ backingOff \/ closed
    THEN UNCHANGED socketVars
    ELSE \E s \in Sockets :
            /\ sock[s] = "unused"
            /\ ws' = s
            /\ sock' = [sock EXCEPT ![s] = "connecting"]

\* ws?.close(), after or before which this.ws is cleared.
DropSocket ==
    /\ ws' = NoSocket
    /\ sock' = [s \in Sockets |-> IF s = ws THEN "closing" ELSE sock[s]]

(***************************************************************************)
(* What the user of the SDK calls                                          *)
(***************************************************************************)
\* getSnapshot, up to its await.
GetSnapshot(c) ==
    /\ call[c] \in {"idle", "served", "failed"}
    /\ ~closed
    /\ Connect(reconnectTimer)
    /\ IF hasFrame THEN ArmIdleTimer ELSE UNCHANGED idleTimer
    /\ call' = [call EXCEPT ![c] = IF hasFrame THEN "served" ELSE "waiting"]
    /\ UNCHANGED <<finite, closed, reconnectTimer, hasFrame>>

GetFromClosed(c) ==
    /\ call[c] \in {"idle", "served", "failed"}
    /\ closed
    /\ call' = [call EXCEPT ![c] = "failed"]
    /\ UNCHANGED <<finite, socketVars, closed, timerVars, hasFrame>>

Close ==
    /\ closed' = TRUE
    /\ reconnectTimer' = FALSE
    /\ idleTimer' = FALSE
    /\ DropSocket
    /\ WaitersTo("rejected")
    /\ UNCHANGED <<finite, hasFrame>>

(***************************************************************************)
(* Continuations                                                           *)
(***************************************************************************)
\* The rest of getSnapshot, its finally included.
Resume(c) ==
    /\ call[c] = "woken"
    /\ call' = [call EXCEPT ![c] = "served"]
    /\ ArmIdleTimer
    /\ UNCHANGED <<finite, socketVars, closed, reconnectTimer, hasFrame>>

\* Mutant of Rethrow: the idle timer is set on success only.
RethrowUnarmed(c) ==
    /\ call[c] = "rejected"
    /\ call' = [call EXCEPT ![c] = "failed"]
    /\ UNCHANGED <<finite, socketVars, closed, timerVars, hasFrame>>

Rethrow(c) ==
    /\ call[c] = "rejected"
    /\ call' = [call EXCEPT ![c] = "failed"]
    /\ ArmIdleTimer
    /\ UNCHANGED <<finite, socketVars, closed, reconnectTimer, hasFrame>>

(***************************************************************************)
(* Events of sockets                                                       *)
(***************************************************************************)
Opens(s) ==
    /\ Settled
    /\ sock[s] = "connecting"
    /\ sock' = [sock EXCEPT ![s] = "open"]
    /\ UNCHANGED <<finite, ws, closed, timerVars, hasFrame, call>>

\* handleFrame.  A WebSocket that is closing delivers no messages.
Message(s) ==
    /\ Settled
    /\ sock[s] = "open"
    /\ hasFrame' = TRUE
    /\ WaitersTo("woken")
    /\ UNCHANGED <<finite, socketVars, closed, timerVars>>

\* Mutant of Closes: the listener does not ask whose socket it was.
ClosesAnyones(s) ==
    /\ Settled
    /\ sock[s] # "unused"
    /\ sock' = [sock EXCEPT ![s] = "unused"]
    /\ ws' = NoSocket
    /\ reconnectTimer' = (reconnectTimer \/ ~closed)
    /\ UNCHANGED <<finite, closed, idleTimer, hasFrame, call>>

\* The "close" event: the connection was refused, or lost, or closed by the
\* source.  Only the loss of the socket in use is made good.
Closes(s) ==
    /\ Settled
    /\ sock[s] # "unused"
    /\ sock' = [sock EXCEPT ![s] = "unused"]
    /\ IF s = ws THEN ws' = NoSocket /\ reconnectTimer' = (reconnectTimer \/ ~closed)
                 ELSE UNCHANGED <<ws, reconnectTimer>>
    /\ UNCHANGED <<finite, closed, idleTimer, hasFrame, call>>

(***************************************************************************)
(* Timers                                                                  *)
(***************************************************************************)
ReconnectFires ==
    /\ Settled
    /\ reconnectTimer
    /\ reconnectTimer' = FALSE
    /\ Connect(FALSE)
    /\ UNCHANGED <<finite, closed, idleTimer, hasFrame, call>>

\* Mutant of IdleFires: the source is torn down under a call that waits.
IdleFiresOnWaiters ==
    /\ Settled
    /\ idleTimer
    /\ idleTimer' = FALSE
    /\ reconnectTimer' = FALSE
    /\ DropSocket
    /\ hasFrame' = FALSE
    /\ UNCHANGED <<finite, closed, call>>

\* Mutant of IdleFires: the backoff of a reconnection goes on.
IdleFiresReconnecting ==
    /\ Settled
    /\ idleTimer
    /\ IF Waiters # {}
       THEN ArmIdleTimer /\ UNCHANGED <<socketVars, hasFrame>>
       ELSE idleTimer' = FALSE /\ DropSocket /\ hasFrame' = FALSE
    /\ UNCHANGED <<finite, closed, reconnectTimer, call>>

\* idleClose: postponed while somebody waits for the first frame.
IdleFires ==
    /\ Settled
    /\ idleTimer
    /\ IF Waiters # {}
       THEN ArmIdleTimer /\ UNCHANGED <<socketVars, reconnectTimer, hasFrame>>
       ELSE /\ idleTimer' = FALSE
            /\ reconnectTimer' = FALSE
            /\ DropSocket
            /\ hasFrame' = FALSE
    /\ UNCHANGED <<finite, closed, call>>

\* firstFrameTimeoutMs has passed.
FirstFrameTimeout(c) ==
    /\ Settled
    /\ call[c] = "waiting"
    /\ call' = [call EXCEPT ![c] = "rejected"]
    /\ UNCHANGED <<finite, socketVars, closed, timerVars, hasFrame>>

(***************************************************************************)
(* Specification                                                           *)
(***************************************************************************)
Init ==
    /\ finite \in BOOLEAN
    /\ ws = NoSocket
    /\ sock = [s \in Sockets |-> "unused"]
    /\ closed = FALSE
    /\ reconnectTimer = FALSE
    /\ idleTimer = FALSE
    /\ hasFrame = FALSE
    /\ call = [c \in Callers |-> "idle"]

Next ==
    \/ \E c \in Callers :
          \/ GetSnapshot(c) \/ GetFromClosed(c)
          \/ Resume(c) \/ Rethrow(c) \/ FirstFrameTimeout(c)
    \/ \E s \in Sockets : Opens(s) \/ Message(s) \/ Closes(s)
    \/ ReconnectFires \/ IdleFires \/ Close

\* Continuations run, and then the timers that are due; IdleTearsDown relies on
\* the idle timer only once no call sets it anew.  Nothing is assumed of the
\* server.
Fairness ==
    /\ \A c \in Callers : WF_vars(Resume(c) \/ Rethrow(c))
    /\ \A c \in Callers : SF_vars(FirstFrameTimeout(c))
    /\ SF_vars(IdleFires)

Spec == Init /\ [][Next]_vars /\ Fairness

(***************************************************************************)
(* Properties                                                              *)
(***************************************************************************)
TornDown == ws = NoSocket /\ ~reconnectTimer

\* The buffered frame is of the present connection, or of one that is being
\* replaced.
FrameIsOfSession == hasFrame /\ ~closed => ~TornDown

\* What a call amounts to, seen from outside.
Outward(state) ==
    CASE state = "woken"    -> "seen"
      [] state = "rejected" -> "waiting"
      [] OTHER              -> state

Promise == INSTANCE SnapshotSource WITH
    up <- ~TornDown,
    fresh <- hasFrame /\ ~closed,
    call <- [c \in Callers |-> Outward(call[c])]

\* No call is answered with a snapshot that was stale before it was made, none is
\* torn down while it waits: the source implements SnapshotSource.
KeepsPromise == Promise!Safety

\* However teardowns, reconnections and late events of old sockets mix, a
\* socket that is open or opening is the one in use: none is leaked.
SocketsOwned == \A s \in Sockets : sock[s] \in {"connecting", "open"} => s = ws

\* A source with a connection, or about to reconnect, has its idle timer set or
\* a call that will set it, so that it cannot stay up for ever unused.
Tended ==
    ~closed /\ finite /\ (ws # NoSocket \/ reconnectTimer) =>
       idleTimer \/ \E c \in Callers : call[c] \in {"waiting", "woken", "rejected"}

\* close() is final: a call that was under way then revives nothing.
CloseIsFinal == closed => ws = NoSocket /\ ~reconnectTimer /\ ~idleTimer

\* When calls cease the source lets its connection go, whatever the server
\* does; with an idleTimeoutMs of Infinity only close() does that.
IdleTearsDown ==
    finite /\ <>[][\A c \in Callers : ~GetSnapshot(c)]_vars => <>[]TornDown

\* The inductive invariant behind them.
IInv ==
    /\ TypeOK
    /\ SocketsOwned
    /\ Tended
    /\ CloseIsFinal
    /\ FrameIsOfSession
=============================================================================
