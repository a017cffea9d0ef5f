---------------------------- MODULE MCRouterSwap ----------------------------
(***************************************************************************)
(* An instance of RouterSwap for TLC: one ERC-20 beside WETH and ETH, and  *)
(* one more that taxes transfers; fees of one and two parts in four;       *)
(* uint256 narrowed to 15.                                                 *)
(***************************************************************************)
EXTENDS RouterSwap

CONSTANTS A, B, u1, u2, m1, m2, f1, f2

\* Every account but the recipient u2 holds some of everything, the router more of
\* the taxed token than one transfer withholds.
Stock == [t \in Tokens |-> [a \in Accounts |->
             CASE a = u1     -> 2
               [] a = Router -> IF t = B THEN 2 ELSE 1
               [] a \in Listable /\ t = B -> 4
               [] a \in Listable /\ t # ETH -> 2
               [] OTHER -> 0]]

\* The sender can pay for one call; venues hold only what they sell.
Scarce == [t \in Tokens |-> [a \in Accounts |->
             CASE a = u1 /\ t \in {A, ETH} -> 1
               [] a = Router /\ t = A -> 1
               [] a = m1 /\ t = WETH -> 2
               [] a = m2 /\ t = A -> 2
               [] a = f1 /\ t \in {A, WETH} -> 2
               [] OTHER -> 0]]

TaxedB == [t \in Tokens |-> IF t = B THEN 1 ELSE 0]

Plain == [entry |-> "via", withFee |-> FALSE, bps |-> 0, feeTo |-> None,
          named |-> m1, list |-> <<>>, tokenIn |-> A, tokenOut |-> WETH,
          amountIn |-> 1, amountOutMin |-> 1, sender |-> u1,
          recipient |-> u2, value |-> 0, late |-> FALSE]

Pairs == {<<A, WETH>>, <<A, ETH>>, <<WETH, A>>, <<ETH, A>>}

Swapping(c, pair) ==
    [c EXCEPT !.tokenIn = pair[1], !.tokenOut = pair[2],
              !.value = IF pair[1] = ETH THEN c.amountIn ELSE 0]

\* Named-venue calls over every pair, with and without a fee, to the user, to
\* a third party and to the router.
ViaCalls ==
    {Swapping([Plain EXCEPT !.named = v, !.amountIn = x, !.amountOutMin = m,
                            !.recipient = r], p) :
        v \in {m1, f1}, x \in {1, 2}, m \in {1, 2}, r \in {u1, Router},
        p \in Pairs}
  \cup
    {Swapping([Plain EXCEPT !.withFee = TRUE, !.bps = b, !.feeTo = r,
                            !.amountOutMin = m], p) :
        b \in {1, 2}, r \in {u1, Router}, m \in {0, 1, 2}, p \in Pairs}

\* Calls that leave the choice of the venue to the router.
BestCalls ==
    {[Plain EXCEPT !.entry = "swap", !.amountOutMin = 2, !.recipient = u1],
     [Plain EXCEPT !.entry = "selected", !.list = <<m2, f1>>],
     Swapping([Plain EXCEPT !.entry = "selected", !.list = <<m1, m2>>,
                            !.withFee = TRUE, !.bps = 1, !.feeTo = Router],
              <<ETH, A>>)}

\* Calls that must be turned away, each for a reason of its own.
BadCalls ==
    {[Plain EXCEPT !.late = TRUE],
     [Plain EXCEPT !.amountIn = 3],
     [Plain EXCEPT !.value = 1],
     [Plain EXCEPT !.tokenOut = A],
     Swapping(Plain, <<ETH, WETH>>),
     [Plain EXCEPT !.withFee = TRUE, !.bps = 3, !.feeTo = u1],
     [Plain EXCEPT !.withFee = TRUE, !.bps = 1],
     [Plain EXCEPT !.withFee = TRUE, !.bps = 1, !.feeTo = u1,
                   !.amountOutMin = 4]}

\* The token bought, or the one sold, taxes its transfers.
TaxedCalls ==
    {Swapping([Plain EXCEPT !.amountOutMin = m, !.recipient = r], <<WETH, B>>) :
        m \in {1, 2}, r \in {u1, Router}}
  \cup
    {Swapping([Plain EXCEPT !.withFee = TRUE, !.bps = 1, !.feeTo = r], <<WETH, B>>) :
        r \in {u1, Router}}
  \cup
    {Swapping([Plain EXCEPT !.named = v, !.amountIn = 2, !.recipient = r], p) :
        v \in {m1, f1}, r \in {u1, Router}, p \in {<<B, WETH>>, <<B, ETH>>}}

NamedCalls == ViaCalls \cup TaxedCalls \cup BadCalls
EveryCall == NamedCalls \cup BestCalls

(***************************************************************************)
(* Agendas: what users and the lister are about.  They stay with one.      *)
(***************************************************************************)
\* Every named-venue call once, against every behaviour of one maker; and two calls
\* in a row that leave the choice to the router, with administration and rescues
\* between them: two makers, two Uniswap routers, every whitelist, every quote.
Agenda ==
    [named |-> [opening |-> Stock, calls |-> NamedCalls, most |-> 1,
                listable |-> {m1, f1}, payees |-> {u1, Router}, rescue |-> 0],
     best  |-> [opening |-> Scarce, calls |-> BestCalls, most |-> 2,
                listable |-> Listable, payees |-> {u1}, rescue |-> MaxRescue]]

Stocks == {Agenda[a].opening : a \in DOMAIN Agenda}

VARIABLE agenda

Mine == Agenda[agenda]

AgendaInit ==
    /\ Init
    /\ agenda \in DOMAIN Agenda
    /\ bal = Mine.opening
    /\ fb \in Mine.listable

AgendaNext ==
    /\ \/ \E c \in Mine.calls : calls < Mine.most /\ Call(c)
       \/ CallStep
       \/ \E t \in Tokens, to \in Mine.payees, x \in 1 .. MaxPay : VenuePays(t, to, x)
       \/ \E used, out \in 0 .. MaxPay : Uniswap(used, out)
       \/ Administer /\ fb' \in Mine.listable /\ venues' \in Seq(Mine.listable)
       \/ \E t \in Tokens, to \in Users, x \in 1 .. Mine.rescue : Rescue(t, to, x)
    /\ UNCHANGED agenda

\* Spec, with users and a lister who stay with an agenda.
AgendaSpec == AgendaInit /\ [][AgendaNext]_<<vars, agenda>>
=============================================================================
