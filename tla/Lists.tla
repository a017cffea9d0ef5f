-------------------------------- MODULE Lists --------------------------------
(***************************************************************************)
(* What the comprehensions of the repository's Python do to a list.  (It   *)
(* is SelectSeq by position, of which more can be proved.)                 *)
(***************************************************************************)
EXTENDS Naturals, Sequences

\* The elements of seq at these places, in their order.
ElementsAt(seq, places) ==
    LET taken[n \in 0 .. Len(seq)] ==
            IF n = 0 THEN <<>>
            ELSE IF n \in places THEN Append(taken[n - 1], seq[n]) ELSE taken[n - 1]
    IN  taken[Len(seq)]
=============================================================================
