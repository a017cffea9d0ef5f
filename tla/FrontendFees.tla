---------------------------- MODULE FrontendFees ----------------------------
(***************************************************************************)
(* The fee arithmetic of src/src/libraries/FrontendFees.sol.  A frontend   *)
(* fee is bps / BPS_DENOMINATOR of the gross output, rounded down; the net *)
(* minimum the user states is grossed up, rounded up, before the swap.     *)
(***************************************************************************)
EXTENDS Integers

CONSTANTS
    MAX_FEE_BPS,        \* 100 in the code
    BPS_DENOMINATOR     \* 10_000 in the code

ASSUME FeeConstants ==
    /\ MAX_FEE_BPS \in Nat
    /\ BPS_DENOMINATOR \in Nat
    /\ MAX_FEE_BPS < BPS_DENOMINATOR

Bps == 0 .. MAX_FEE_BPS

\* OpenZeppelin Math.ceilDiv: zero is a case of its own, so that a - 1 cannot
\* underflow.
CeilDiv(a, b) == IF a = 0 THEN 0 ELSE (a - 1) \div b + 1

GrossUp(amountOutMin, bps) ==
    CeilDiv(amountOutMin * BPS_DENOMINATOR, BPS_DENOMINATOR - bps)

FeeAmount(amount, bps) == (amount * bps) \div BPS_DENOMINATOR

Net(amount, bps) == amount - FeeAmount(amount, bps)
=============================================================================
