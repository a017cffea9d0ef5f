--------------------------- MODULE SwapCallProofs ---------------------------
(***************************************************************************)
(* What both kinds of call rest on: the fee arithmetic, for every amount,  *)
(* every denominator and every fee below it, and how transfers, wrapping   *)
(* and approvals change the ledgers.                                       *)
(***************************************************************************)
EXTENDS SwapCall, TLAPS

(***************************************************************************)
(* Fees                                                                    *)
(***************************************************************************)
\* Floor division: the quotient times the divisor brackets the dividend.
LEMMA DivBounds ==
    ASSUME NEW a \in Nat, NEW b \in Nat, b > 0
    PROVE  /\ a \div b \in Nat
           /\ b * (a \div b) <= a
           /\ a < b * (a \div b) + b
  OBVIOUS

\* A common positive factor can be cancelled from an inequality.
LEMMA MulCancel ==
    ASSUME NEW x \in Int, NEW y \in Int, NEW d \in Nat, d > 0, x * d <= y * d
    PROVE  x <= y
  OBVIOUS

\* A product of naturals is a natural.
LEMMA MulNat == ASSUME NEW x \in Nat, NEW y \in Nat PROVE x * y \in Nat
  OBVIOUS

\* Math.ceilDiv rounds up: b times the result is at least the dividend, and
\* less than one divisor above it.
LEMMA CeilDivBounds ==
    ASSUME NEW a \in Nat, NEW b \in Nat, b > 0
    PROVE  /\ CeilDiv(a, b) \in Nat
           /\ a <= b * CeilDiv(a, b)
           /\ b * CeilDiv(a, b) < a + b
<1>1. CASE a = 0
  BY <1>1 DEF CeilDiv
<1>2. CASE a > 0
  <2> DEFINE q == (a - 1) \div b
  <2>1. /\ q \in Nat
        /\ b * q <= a - 1
        /\ a - 1 < b * q + b
    BY <1>2, DivBounds
  <2>2. CeilDiv(a, b) = q + 1
    BY <1>2 DEF CeilDiv
  <2>3. b * (q + 1) = b * q + b
    BY <2>1
  <2> QED BY <2>1, <2>2, <2>3
<1> QED BY <1>1, <1>2

\* The fee never exceeds the amount it is taken from.
LEMMA FeeBounded ==
    ASSUME NEW amount \in Nat, NEW bps \in Bps
    PROVE  /\ FeeAmount(amount, bps) \in 0 .. amount
           /\ FeeAmount(amount, bps) * BPS_DENOMINATOR <= amount * bps
<1> DEFINE due == (amount * bps) \div BPS_DENOMINATOR
<1>1. /\ amount * bps \in Nat
      /\ bps \in Nat
      /\ bps < BPS_DENOMINATOR
      /\ BPS_DENOMINATOR \in Nat
      /\ BPS_DENOMINATOR > 0
  BY FeeConstants, MulNat DEF Bps
<1>2. /\ due \in Nat
      /\ BPS_DENOMINATOR * due <= amount * bps
  BY <1>1, DivBounds
<1>3. amount * bps <= amount * BPS_DENOMINATOR
  BY <1>1
<1>4. due * BPS_DENOMINATOR <= amount * BPS_DENOMINATOR
  BY <1>1, <1>2, <1>3
<1>5. due <= amount
  BY <1>1, <1>2, <1>4, MulCancel
<1> QED BY <1>1, <1>2, <1>5 DEF FeeAmount

\* The grossed-up minimum is an amount.
LEMMA GrossUpType ==
    ASSUME NEW amountOutMin \in Nat, NEW bps \in Bps
    PROVE  GrossUp(amountOutMin, bps) \in Nat
<1>1. /\ BPS_DENOMINATOR - bps \in Nat /\ BPS_DENOMINATOR - bps > 0
      /\ amountOutMin * BPS_DENOMINATOR \in Nat
  BY FeeConstants, MulNat DEF Bps
<1> QED BY <1>1, CeilDivBounds DEF GrossUp

\* _grossUp does what its comment promises: whoever delivers at least the
\* grossed-up minimum leaves, after the rounded-down fee, at least the net
\* minimum the user stated.  _skimAndDisburse relies on it.
THEOREM GrossUpSuffices ==
    ASSUME NEW amountOutMin \in Nat, NEW bps \in Bps, NEW delivered \in Nat,
           delivered >= GrossUp(amountOutMin, bps)
    PROVE  Net(delivered, bps) >= amountOutMin
<1> DEFINE D == BPS_DENOMINATOR
           due == FeeAmount(delivered, bps)
           keep == D - bps
<1>1. /\ D \in Nat /\ D > 0 /\ bps \in Nat
      /\ keep \in Nat /\ keep > 0
      /\ amountOutMin * D \in Nat
  BY FeeConstants, MulNat DEF Bps
<1>2. /\ GrossUp(amountOutMin, bps) \in Nat
      /\ amountOutMin * D <= keep * GrossUp(amountOutMin, bps)
  BY <1>1, CeilDivBounds DEF GrossUp
<1>3. keep * GrossUp(amountOutMin, bps) <= keep * delivered
  BY <1>1, <1>2
<1>4. keep * delivered = delivered * D - delivered * bps
  BY <1>1
<1>5. /\ due \in Nat
      /\ due * D <= delivered * bps
  BY FeeBounded
<1>6. (delivered - due) * D = delivered * D - due * D
  BY <1>1, <1>5
<1>7. /\ amountOutMin * D \in Int
      /\ keep * delivered \in Int
      /\ delivered * D \in Int
      /\ delivered * bps \in Int
      /\ due * D \in Int
      /\ keep * GrossUp(amountOutMin, bps) \in Int
  BY <1>1, <1>2, <1>5
<1>8. amountOutMin * D <= (delivered - due) * D
  <2> HIDE DEF keep, due, D
  <2> QED BY <1>2, <1>3, <1>4, <1>5, <1>6, <1>7
<1>9. amountOutMin <= delivered - due
  BY <1>1, <1>5, <1>8, MulCancel
<1> QED BY <1>9 DEF Net

(***************************************************************************)
(* Ledgers                                                                 *)
(***************************************************************************)
\* What reaches the receiver is never more than what was sent.
LEMMA CreditedBounds ==
    ASSUME NEW t \in Tokens, NEW x \in Nat
    PROVE  /\ Credited(t, x) \in 0 .. x
           /\ Credited(t, x) + TransferTax[t] >= x
           /\ TransferTax[t] = 0 => Credited(t, x) = x
  BY TaxedTokens DEF Credited

\* Ledger c is ledger b after x of t left from and y of u reached to.
Moved(b, c, t, from, x, u, to, y) ==
    /\ c \in Ledgers
    /\ \A s \in Tokens, a \in Accounts :
          /\ b[s][a] \in Nat
          /\ c[s][a] \in Nat
          /\ c[s][a] = b[s][a] - (IF s = t /\ a = from THEN x ELSE 0)
                              + (IF s = u /\ a = to THEN y ELSE 0)

\* A covered movement keeps a ledger a ledger.
LEMMA MoveEffect ==
    ASSUME NEW b \in Ledgers, NEW t \in Tokens, NEW u \in Tokens,
           NEW from \in Accounts, NEW to \in Accounts,
           NEW x \in Nat, NEW y \in Nat, x <= b[t][from]
    PROVE  Moved(b, Move(b, t, from, x, u, to, y), t, from, x, u, to, y)
  BY DEF Move, Moved, Ledgers

\* A transfer is a movement that credits what the token's tax leaves.
LEMMA TransferEffect ==
    ASSUME NEW b \in Ledgers, NEW t \in Tokens,
           NEW from \in Accounts, NEW to \in Accounts,
           NEW x \in Nat, x <= b[t][from]
    PROVE  /\ Credited(t, x) \in Nat
           /\ Moved(b, Transfer(b, t, from, to, x),
                    t, from, x, t, to, Credited(t, x))
<1>1. Credited(t, x) \in Nat
  BY CreditedBounds
<1> QED BY <1>1, MoveEffect DEF Transfer

\* Balances are natural numbers.
LEMMA BalanceNat ==
    ASSUME NEW b \in Ledgers, NEW t \in Tokens, NEW a \in Accounts
    PROVE  b[t][a] \in Nat
  BY DEF Ledgers

\* No approval at all is an allowance table.
LEMMA NoAllowanceType == NoAllowance \in Approvals
  BY DEF NoAllowance, Approvals

\* Granting an approval changes one entry, and resetting it is undoing it.
LEMMA ApproveEffect ==
    ASSUME allow \in Approvals, NEW t \in Tokens, NEW f \in Fallbacks,
           NEW x \in Nat
    PROVE  /\ Approve(t, f, x) \in Approvals
           /\ Approve(t, f, x)[t][f] = x
           /\ \A s \in Tokens, g \in Fallbacks :
                 ~(s = t /\ g = f) => Approve(t, f, x)[s][g] = allow[s][g]
  BY DEF Approve, Approvals

(***************************************************************************)
(* The running call                                                        *)
(***************************************************************************)
\* The arguments that both kinds of call have.
Arguments ==
    /\ call.withFee \in BOOLEAN
    /\ call.bps \in Nat
    /\ call.feeTo \in Users \cup {Router, None}
    /\ call.tokenIn \in Tokens /\ call.tokenOut \in Tokens
    /\ call.amountIn \in Nat /\ call.amountOutMin \in Nat
    /\ call.sender \in Users
    /\ call.recipient \in Users \cup {Router}
    /\ call.value \in Nat

\* What is derived from the arguments of a call.
LEMMA ArgumentFacts ==
    ASSUME Arguments
    PROVE  /\ call.sender \in Accounts /\ call.recipient \in Accounts
           /\ TokenIn \in Tokens \ {ETH} /\ TokenOut \in Tokens \ {ETH}
           /\ call.tokenIn # ETH => TokenIn = call.tokenIn
           /\ call.tokenIn = ETH => TokenIn = WETH
           /\ call.tokenOut # ETH => TokenOut = call.tokenOut
           /\ call.tokenOut = ETH => TokenOut = WETH
           /\ Receiver \in Users \cup {Router}
           /\ Receiver \in Accounts /\ Payer \in Accounts
<1>1. call.sender \in Accounts /\ call.recipient \in Accounts
  BY DEF Arguments, Accounts
<1>2. /\ TokenIn \in Tokens \ {ETH} /\ TokenOut \in Tokens \ {ETH}
      /\ call.tokenIn # ETH => TokenIn = call.tokenIn
      /\ call.tokenIn = ETH => TokenIn = WETH
      /\ call.tokenOut # ETH => TokenOut = call.tokenOut
      /\ call.tokenOut = ETH => TokenOut = WETH
  BY DistinctNames DEF Arguments, TokenIn, TokenOut, Resolve, Tokens
<1>3. Receiver \in Users \cup {Router} /\ Receiver \in Accounts
  BY <1>1 DEF Arguments, Receiver, Accounts
<1>4. Payer \in Accounts
  BY <1>1 DEF Payer, Accounts
<1> QED BY <1>1, <1>2, <1>3, <1>4

(***************************************************************************)
(* Delivery                                                                *)
(***************************************************************************)
\* Unwrapping turns the router's WETH into the ETH of whoever is to hold it.
LEMMA DeliverMoves ==
    ASSUME Arguments, bal \in Ledgers, got \in Nat, Deliver,
           call.tokenOut = ETH => got <= bal[WETH][Router]
    PROVE  /\ bal' \in Ledgers
           /\ UnwrapTo \in Users \cup {Router} /\ UnwrapTo \in Accounts
           /\ \A s \in Tokens, a \in Accounts :
                 /\ bal[s][a] \in Nat /\ bal'[s][a] \in Nat
                 /\ bal'[s][a] = bal[s][a]
                       - (IF call.tokenOut = ETH /\ s = WETH /\ a = Router
                          THEN got ELSE 0)
                       + (IF call.tokenOut = ETH /\ s = ETH /\ a = UnwrapTo
                          THEN got ELSE 0)
<1>1. bal' = IF call.tokenOut = ETH THEN Unwrap(bal, UnwrapTo, got) ELSE bal
  BY DEF Deliver
<1>2. UnwrapTo \in Users \cup {Router} /\ UnwrapTo \in Accounts
  BY DEF UnwrapTo, Arguments, Accounts
<1>3. /\ WETH \in Tokens /\ ETH \in Tokens /\ Router \in Accounts
      /\ \A s \in Tokens, a \in Accounts : bal[s][a] \in Nat
  BY BalanceNat DEF Tokens, Accounts
<1>4. CASE call.tokenOut = ETH
  <2>1. Moved(bal, bal', WETH, Router, got, ETH, UnwrapTo, got)
    BY <1>1, <1>2, <1>3, <1>4, MoveEffect DEF Unwrap
  <2> QED BY <1>2, <1>3, <1>4, <2>1 DEF Moved
<1>5. CASE call.tokenOut # ETH
  BY <1>1, <1>2, <1>3, <1>5
<1> QED BY <1>4, <1>5

\* Paying the fee and the net takes no more than the output off the router and
\* nothing else from anyone; the recipient gains what is reported, and whoever takes
\* the fee gains it less the token's tax.
LEMMA DisburseMoves ==
    ASSUME Arguments, ValidFee, bal \in Ledgers, got \in Nat,
           got <= bal[call.tokenOut][Router], Disburse
    PROVE  /\ bal' \in Ledgers
           /\ FeeDue \in Nat /\ Received \in Nat
           /\ \A s \in Tokens, a \in Accounts :
                 /\ bal[s][a] \in Nat /\ bal'[s][a] \in Nat
                 /\ a # Router \/ s # call.tokenOut => bal'[s][a] >= bal[s][a]
           /\ bal'[call.tokenOut][Router] >= bal[call.tokenOut][Router] - got
           /\ bal'[call.tokenOut][call.recipient]
                 >= bal[call.tokenOut][call.recipient] + Received
                       - (IF call.recipient = Router THEN got ELSE 0)
           /\ call.feeTo # call.recipient =>
                 bal'[call.tokenOut][call.feeTo] + TransferTax[call.tokenOut]
                    >= bal[call.tokenOut][call.feeTo] + FeeDue
                          - (IF call.feeTo = Router THEN got ELSE 0)
<1> DEFINE out == call.tokenOut
           owed == got - FeeDue
           feeIn == Credited(out, FeeDue)
           netIn == Credited(out, owed)
           r == call.recipient
<1>1. bal' = AfterNet /\ Disbursable
  BY DEF Disburse
<1>2. /\ out \in Tokens /\ r \in Accounts /\ Router \in Accounts
      /\ call.amountOutMin \in Nat /\ call.feeTo \in Accounts
  BY DEF Arguments, Accounts, ValidFee
<1>3. FeeDue \in Nat /\ FeeDue <= got /\ owed \in Nat
  <2>1. call.bps \in Bps
    BY FeeConstants DEF ValidFee, Bps, Arguments
  <2>2. FeeAmount(got, call.bps) \in 0 .. got
    BY <2>1, FeeBounded
  <2> QED BY <2>2 DEF FeeDue
<1>4. bal[out][Router] \in Nat /\ bal[out][r] \in Nat
      /\ FeeDue <= bal[out][Router]
  <2>1. bal[out][Router] \in Nat /\ bal[out][r] \in Nat
    BY <1>2, BalanceNat
  <2> QED BY <1>3, <2>1
<1>5. feeIn \in Nat /\ feeIn <= FeeDue /\ netIn \in Nat /\ netIn <= owed
      /\ (out = ETH => feeIn = FeeDue /\ netIn = owed)
  <2>1. out = ETH => TransferTax[out] = 0
    BY TaxedTokens
  <2> HIDE DEF out, owed
  <2> QED BY <1>2, <1>3, <2>1, CreditedBounds
<1>6. Moved(bal, AfterFee, out, Router, FeeDue, out, call.feeTo, feeIn)
  <2>1. AfterFee = Transfer(bal, out, Router, call.feeTo, FeeDue)
    BY DEF AfterFee
  <2> HIDE DEF out
  <2> QED BY <1>2, <1>3, <1>4, <2>1, TransferEffect
<1>7. /\ AfterFee \in Ledgers
      /\ AfterFee[out][Router] \in Nat
      /\ AfterFee[out][Router] >= bal[out][Router] - FeeDue
      /\ owed <= AfterFee[out][Router]
  <2> HIDE DEF out, feeIn
  <2>1. /\ AfterFee \in Ledgers
        /\ AfterFee[out][Router] \in Nat
        /\ AfterFee[out][Router] >= bal[out][Router] - FeeDue
    BY <1>2, <1>3, <1>4, <1>5, <1>6 DEF Moved
  <2>2. got <= bal[out][Router]
    BY DEF out
  <2> QED BY <1>3, <1>4, <2>1, <2>2
<1>8. Moved(AfterFee, bal', out, Router, owed, out, r, netIn)
  <2>1. AfterNet = Transfer(AfterFee, out, Router, r, owed)
    BY DEF AfterNet
  <2> HIDE DEF out, owed, r
  <2> QED BY <1>1, <1>2, <1>3, <1>7, <2>1, TransferEffect
<1> HIDE DEF out, owed, feeIn, netIn, r
<1>9. \A s \in Tokens, a \in Accounts :
         /\ bal[s][a] \in Nat /\ AfterFee[s][a] \in Nat /\ bal'[s][a] \in Nat
         /\ a # Router \/ s # out =>
               AfterFee[s][a] >= bal[s][a] /\ bal'[s][a] >= AfterFee[s][a]
  BY <1>3, <1>5, <1>6, <1>8 DEF Moved
<1>10. bal'[out][Router] >= bal[out][Router] - got
  <2>1. bal'[out][Router] >= AfterFee[out][Router] - owed
    BY <1>2, <1>3, <1>5, <1>7, <1>8 DEF Moved
  <2>2. owed = got - FeeDue /\ bal'[out][Router] \in Nat
    BY <1>2, <1>9 DEF owed
  <2> QED BY <1>2, <1>3, <1>4, <1>7, <2>1, <2>2
<1>11. bal'[out][r] >= AfterFee[out][r] + netIn
                         - (IF r = Router THEN owed ELSE 0)
  BY <1>2, <1>3, <1>5, <1>8, <1>9 DEF Moved
<1>12. AfterFee[out][r] >= bal[out][r] - (IF r = Router THEN FeeDue ELSE 0)
  BY <1>2, <1>3, <1>4, <1>7, <1>9
<1>13. Received \in Nat
       /\ bal'[out][r] >= bal[out][r] + Received
                             - (IF r = Router THEN got ELSE 0)
  <2>1. Received >= call.amountOutMin
    BY <1>1 DEF Disbursable
  <2>2. AfterFee[out][r] \in Nat /\ bal'[out][r] \in Nat
    BY <1>2, <1>9
  <2>3. CASE out = ETH
    <3>1. Received = owed /\ netIn = owed /\ owed = got - FeeDue
      BY <1>5, <2>3 DEF Received, out, owed
    <3> QED BY <1>3, <1>4, <1>11, <1>12, <2>2, <3>1
  <2>4. CASE out # ETH
    <3>1. Received = bal'[out][r] - AfterFee[out][r]
      BY <1>1, <2>4 DEF Received, out, r
    <3>2. Received \in Nat
      BY <1>2, <2>1, <2>2, <3>1
    <3> QED BY <1>3, <1>4, <1>12, <2>2, <3>1, <3>2
  <2> QED BY <2>3, <2>4
<1>14. call.feeTo # r =>
          bal'[out][call.feeTo] + TransferTax[out]
             >= bal[out][call.feeTo] + FeeDue
                   - (IF call.feeTo = Router THEN got ELSE 0)
  <2> DEFINE f == call.feeTo
  <2> SUFFICES ASSUME f # r
               PROVE  bal'[out][f] + TransferTax[out]
                         >= bal[out][f] + FeeDue - (IF f = Router THEN got ELSE 0)
    OBVIOUS
  <2>1. /\ f \in Accounts /\ bal[out][f] \in Nat /\ AfterFee[out][f] \in Nat
        /\ bal'[out][f] \in Nat /\ TransferTax[out] \in Nat /\ owed = got - FeeDue
    BY <1>2, <1>9, TaxedTokens DEF owed
  <2>2. feeIn + TransferTax[out] >= FeeDue
    BY <1>2, <1>3, CreditedBounds DEF feeIn
  <2> HIDE DEF f
  <2>3. AfterFee[out][f] = bal[out][f] - (IF f = Router THEN FeeDue ELSE 0) + feeIn
    BY <1>2, <1>6, <2>1 DEF Moved, f
  <2>4. bal'[out][f] = AfterFee[out][f] - (IF f = Router THEN owed ELSE 0)
    BY <1>2, <1>3, <1>5, <1>8, <2>1 DEF Moved
  <2> QED BY <1>3, <1>5, <2>1, <2>2, <2>3, <2>4
<1> QED BY <1>3, <1>8, <1>9, <1>10, <1>13, <1>14 DEF out, r, Moved
=============================================================================
