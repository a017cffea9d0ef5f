---------------------------- MODULE MCWsListener ----------------------------
(***************************************************************************)
(* Instances of WsListener for TLC, and what the documentation of the      *)
(* Python SDK says of idle_timeout.                                        *)
(***************************************************************************)
EXTENDS WsListener

\* sdk/docs, python/overrides/ws-source.md:74: with an idle_timeout of 0 the
\* source "closes right after each call": no listener ends before the call it was
\* started for has had its time.
ClosesAfterCalls ==
    [][\A t \in Tasks :
         ~closed /\ Live(t) /\ ~Live(t)' =>
            \A c \in Callers : call[c] # "waiting"]_vars
=============================================================================
