--------------------------- MODULE MCWsConnection ---------------------------
(***************************************************************************)
(* Instances of WsConnection for TLC, and what the comments of             *)
(* src/sdk/rust/src/ws.rs say of it.                                       *)
(***************************************************************************)
EXTENDS WsConnection

\* ws.rs:51-52: the loop "tears down after `idle_timeout` without calls".
TearsDownWithoutCalls == ConnectsEnd => IdleLoopEnds
=============================================================================
