---------------------------- MODULE SplitPlanner ----------------------------
(***************************************************************************)
(* The planning arithmetic of swapSplitV1: src/src/libraries/              *)
(* SplitPlanner.sol, and the part of the router that probes one venue.     *)
(*                                                                         *)
(* A quote curve q gives the output a venue quotes for each size; zero     *)
(* stands for a quote that reverted.  A probe asks for each size once, so  *)
(* an arbitrary curve is an arbitrary venue.                               *)
(***************************************************************************)
EXTENDS Integers, SequencesExt

CONSTANTS
    SATURATION_TOLERANCE_BPS,   \* 100 in the code
    BPS,                        \* 10_000 in the code
    MAX_SATURATION_STEPS,       \* 8 in the code
    MAX_UINT128                 \* type(uint128).max

ASSUME PlannerConstants ==
    /\ SATURATION_TOLERANCE_BPS \in Nat
    /\ BPS \in Nat
    /\ SATURATION_TOLERANCE_BPS < BPS
    /\ MAX_SATURATION_STEPS \in Nat
    /\ MAX_UINT128 \in Nat

\* Mutant of IsSaturated: the half is compared with the whole undoubled.
IsSaturatedUndoubled(outFull, outHalf) ==
    outFull * BPS < outHalf * (BPS - SATURATION_TOLERANCE_BPS)

\* The output of the whole order falls short of twice that of the half.
IsSaturated(outFull, outHalf) ==
    outFull * BPS < 2 * outHalf * (BPS - SATURATION_TOLERANCE_BPS)

\* By rate out / fill, then by size.
BetterThan(a, b) ==
    LET lhs == a.out * b.fill
        rhs == b.out * a.fill
    IN  lhs > rhs \/ (lhs = rhs /\ a.fill > b.fill)

\* Mutant of InsertByRate: the whitelist order is kept.
InsertLast(sorted, key) == Append(sorted, key)

\* One round of the insertion sort: key goes behind the last element of the
\* sorted prefix that it does not beat.
InsertByRate(sorted, key) ==
    LET place == Max({0} \cup {i \in DOMAIN sorted : ~BetterThan(key, sorted[i])})
    IN  SubSeq(sorted, 1, place) \o <<key>> \o SubSeq(sorted, place + 1, Len(sorted))

SortByRateDesc(cands) == FoldLeft(InsertByRate, <<>>, cands)

\* Mutant of ProRataMin: the floor is rounded up.
ProRataMinUp(out, fill, leg) == (out * leg + fill - 1) \div fill

ProRataMin(out, fill, leg) == IF leg = fill THEN out ELSE (out * leg) \div fill

(***************************************************************************)
(* Probing one venue for an order of size p                                *)
(***************************************************************************)
NoFill == [fill |-> 0, out |-> 0]

\* A quote beyond uint128 counts as none.
Clamp(out) == IF out > MAX_UINT128 THEN 0 ELSE out

\* Halve the half until the venue quotes strictly below its ceiling, within
\* the budget; a dead quote on the way ends the search.
ProbeDownToFillable(q, from, ceiling) ==
    LET size[k \in 0 .. MAX_SATURATION_STEPS] ==
            IF k = 0 THEN from ELSE size[k - 1] \div 2
        Ends(k) == \/ size[k] = 0
                   \/ Clamp(q[size[k]]) = 0
                   \/ q[size[k]] < ceiling
        ends == {k \in 1 .. MAX_SATURATION_STEPS : Ends(k)}
        last == size[Min(ends)]
    IN  IF ends = {} \/ last = 0 \/ Clamp(q[last]) = 0 THEN NoFill
        ELSE [fill |-> last, out |-> q[last]]

\* _probeVenue for a venue without IPropAMMFillable.
Probe(q, p) ==
    LET half    == p \div 2
        outFull == Clamp(q[p])
        outHalf == Clamp(q[half])
        Full    == [fill |-> p, out |-> outFull]
        Half    == [fill |-> half, out |-> outHalf]
    IN  CASE half = 0 -> Full
          [] half > 0 /\ outHalf = 0 /\ outFull = 0 -> NoFill
          [] half > 0 /\ outHalf > 0 /\ outFull = 0 -> Half
          [] half > 0 /\ outHalf = 0 /\ outFull > 0 -> Full
          [] half > 0 /\ outHalf > 0 /\ outFull > 0 ->
                IF outFull = outHalf THEN ProbeDownToFillable(q, half, outFull)
                ELSE IF IsSaturated(outFull, outHalf) THEN Half ELSE Full

\* _probeVenue for a venue with IPropAMMFillable that answers fillable, out.
ProbeFillable(fillable, out, p) ==
    IF fillable > p THEN NoFill ELSE [fill |-> fillable, out |-> out]

\* What _gatherCandidates keeps of a probe.
Usable(probe) == probe.fill > 0 /\ probe.out > 0 /\ probe.out <= MAX_UINT128
=============================================================================
