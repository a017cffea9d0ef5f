----------------------------- MODULE MCSplitSwap -----------------------------
(***************************************************************************)
(* An instance of SplitSwap for TLC: quotes of 0 to 5, the last one beyond *)
(* uint128, at most two propAMM legs, a saturation tolerance of one fourth.*)
(***************************************************************************)
EXTENDS SplitSwap

CONSTANTS A, B, C, u1, u2, m1, m2, m3, f1, f2

\* B and C tax their transfers: less arrives than the legs are sized by.
Taxed == [t \in Tokens |-> IF t \in {B, C} THEN 1 ELSE 0]

\* The sender holds one order, the router dust, everybody else what they sell.  The
\* router has enough of B to make up for the tax, and none of C.
Stock == [t \in Tokens |-> [a \in Accounts |->
            CASE a = u1 /\ t # WETH -> 4
              [] a = Router /\ t = B -> 2
              [] a = Router /\ t # C -> 1
              [] a \in Makers /\ t \in {A, WETH} -> 1
              [] a \in Fallbacks /\ t \in {A, WETH} -> 2
              [] OTHER -> 0]]
Stocks == {Stock}

Plain == [withFee |-> FALSE, bps |-> 0, feeTo |-> None, tokenIn |-> A,
          tokenOut |-> WETH, amountIn |-> 4, amountOutMin |-> 1,
          sender |-> u1, recipient |-> u2, value |-> 0, late |-> FALSE]

(***************************************************************************)
(* Planning: every quote that makes a candidate, and none; nobody fills.   *)
(***************************************************************************)
PlanCalls == {[Plain EXCEPT !.amountIn = n] : n \in {3, 4}}

\* Any quote curve, and any answer of a fillable venue.
Answered(p) ==
    {Probe(q, p) : q \in [0 .. p -> 0 .. MAX_UINT128 + 1]}
       \cup {ProbeFillable(f, o, p) : f \in 0 .. p + 1, o \in 0 .. MAX_UINT128 + 1}

Distinct(p) == {a \in Answered(p) : Usable(a)} \cup {NoFill}

Quoting(p) ==
    [answers |-> [v \in Listable |-> Distinct(p)],
     drifts |-> [v \in Listable |-> {0}],
     refs |-> {0, 1, 2, 4, 5}, pays |-> {0}, payees |-> {}]
QuotingOf3 == Quoting(3)
QuotingOf4 == Quoting(4)

(***************************************************************************)
(* Execution: few answers of two venues, every way of running the legs,    *)
(* quotes that move the router's balance included.                         *)
(***************************************************************************)
Swapping(c, pair) ==
    [c EXCEPT !.tokenIn = pair[1], !.tokenOut = pair[2],
              !.value = IF pair[1] = ETH THEN c.amountIn ELSE 0]

RunCalls ==
    LET three == [Plain EXCEPT !.amountIn = 3, !.amountOutMin = 2]
        taxed == [three EXCEPT !.withFee = TRUE, !.bps = 2, !.feeTo = u1,
                               !.amountOutMin = 1]
    IN  {three, [three EXCEPT !.recipient = Router],
         taxed, [taxed EXCEPT !.amountOutMin = 2],
         Swapping(three, <<A, ETH>>), Swapping(taxed, <<ETH, A>>),
         Swapping(taxed, <<A, ETH>>),
         Swapping(three, <<B, WETH>>), Swapping(three, <<C, WETH>>),
         [three EXCEPT !.late = TRUE], [three EXCEPT !.value = 1],
         [three EXCEPT !.amountIn = 0], [three EXCEPT !.amountIn = 5],
         [three EXCEPT !.tokenOut = A], [taxed EXCEPT !.bps = 3],
         [taxed EXCEPT !.amountOutMin = 4],
         [three EXCEPT !.sender = u2]}

Few == {NoFill, [fill |-> 1, out |-> 1], [fill |-> 2, out |-> 1]}

Trading ==
    [answers |-> [v \in Listable |-> IF v \in {m1, m2} THEN Few ELSE {NoFill}],
     drifts |-> [v \in Listable |-> IF v \in {m1, m2} THEN {-1, 0, 1} ELSE {0}],
     refs |-> {0, 2, 3}, pays |-> {0, 1, 2}, payees |-> {u2, Router}]

AllCalls == PlanCalls \cup RunCalls
Outside ==
    [c \in AllCalls |-> IF c \notin PlanCalls THEN Trading
                       ELSE IF c.amountIn = 3 THEN QuotingOf3 ELSE QuotingOf4]

\* The fallback is among the listed of some; the last is more than a split takes.
Lists == {<<m1, m2, m3>>, <<m1, f1, m2>>, <<>>, <<m1, m2, m3, f1>>}
=============================================================================
