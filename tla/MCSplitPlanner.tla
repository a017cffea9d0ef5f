--------------------------- MODULE MCSplitPlanner ---------------------------
(***************************************************************************)
(* Instance of HonestVenue for TLC: every order meets every venue.         *)
(***************************************************************************)
EXTENDS HonestVenue

UpTo40 == 1 .. 40
UpTo60 == 0 .. 60
=============================================================================
