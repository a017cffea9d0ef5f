--------------------------- MODULE SnapshotSource ---------------------------
(***************************************************************************)
(* What a streaming source of snapshots promises its callers, whatever     *)
(* language it is written in: a call is answered with a snapshot only if a *)
(* frame has come in while the source was up and the call was made before  *)
(* close(), a source is not torn down under a call that waits for its      *)
(* first frame, and every call is answered.                                *)
(***************************************************************************)
CONSTANTS Callers

VARIABLES
    up,      \* a connection is there, or being made
    fresh,   \* a frame has come in since it is up
    closed,
    call     \* how each caller's latest call is getting on

vars == <<up, fresh, closed, call>>

Answered == {"idle", "served", "failed"}

CallTo(c, outcome) == call' = [call EXCEPT ![c] = outcome]

\* A buffered frame answers at once; a call of a closed source fails.
Ask(c) ==
    /\ call[c] \in Answered
    /\ CallTo(c, IF closed THEN "failed" ELSE IF fresh THEN "served" ELSE "waiting")
    /\ up' = (up \/ ~closed)
    /\ UNCHANGED <<fresh, closed>>

\* A frame is seen by all that wait.
Arrive ==
    /\ up
    /\ fresh' = TRUE
    /\ call' = [c \in Callers |-> IF call[c] = "waiting" THEN "seen" ELSE call[c]]
    /\ UNCHANGED <<up, closed>>

Serve(c) ==
    /\ call[c] = "seen"
    /\ CallTo(c, "served")
    /\ UNCHANGED <<up, fresh, closed>>

\* A timeout, or close().
Fail(c) ==
    /\ call[c] \in {"waiting", "seen"}
    /\ CallTo(c, "failed")
    /\ UNCHANGED <<up, fresh, closed>>

\* An idle source lets go of its connection, and of what it had heard.
Lapse ==
    /\ up
    /\ \A c \in Callers : call[c] # "waiting"
    /\ up' = FALSE
    /\ fresh' = FALSE
    /\ UNCHANGED <<closed, call>>

Close ==
    /\ closed' = TRUE
    /\ up' = FALSE
    /\ fresh' = FALSE
    /\ UNCHANGED call

Init ==
    /\ up = FALSE
    /\ fresh = FALSE
    /\ closed = FALSE
    /\ call = [c \in Callers |-> "idle"]

Next ==
    \/ \E c \in Callers : Ask(c) \/ Serve(c) \/ Fail(c)
    \/ Arrive \/ Lapse \/ Close

Safety == Init /\ [][Next]_vars

Spec == Safety /\ \A c \in Callers : WF_vars(Serve(c) \/ Fail(c))
=============================================================================
