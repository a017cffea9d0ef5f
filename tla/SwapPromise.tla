----------------------------- MODULE SwapPromise -----------------------------
(***************************************************************************)
(* What src/src/interfaces/IPropAMMRouter.sol promises a user of the       *)
(* single-venue swaps, with no transaction in sight: the balances every-   *)
(* body can read and the receipt (the Swapped and FrontendFeeCharged       *)
(* events) of the last swap.  A swap is one step.  It either happens whole *)
(* or not at all.                                                          *)
(***************************************************************************)
EXTENDS Integers

CONSTANTS Tokens, Accounts, Router, TransferTax, Calls, Receipts, NoReceipt

VARIABLES ledger, receipt

Init == receipt = NoReceipt

\* The sender parts with the input, and what the token withheld of it on its way in
\* the router may make up for.
Spends(c, a, t) ==
    CASE t = c.tokenIn /\ a = c.sender -> c.amountIn
      [] t = c.tokenIn /\ a = Router   -> TransferTax[t]
      [] OTHER -> 0

\* One swap: the recipient gains what the receipt says, which is at least the
\* minimum; the sender parts with amountIn at most, the router with the tax of the
\* input; the market makers that the receipt names are the only other accounts that
\* may end up with less.  The fee of
\* the receipt is what was sent: what a token withholds of it, its recipient misses.
Swap ==
    LET r == receipt'
        c == r.call
    IN
    /\ receipt = NoReceipt
    /\ r \in Receipts
    /\ r.amountOut >= c.amountOutMin
    /\ ledger'[c.tokenOut][c.recipient]
          >= ledger[c.tokenOut][c.recipient] + r.amountOut
    /\ \A t \in Tokens, a \in Accounts \ r.makers :
          ledger'[t][a] + Spends(c, a, t) >= ledger[t][a]
    /\ c.withFee /\ c.feeTo # c.recipient =>
          ledger'[c.tokenOut][c.feeTo] + TransferTax[c.tokenOut]
             >= ledger[c.tokenOut][c.feeTo] + r.fee
    /\ ~c.withFee => r.fee = 0

\* A call begins: the last receipt is no longer the latest.
Begin == receipt' = NoReceipt /\ UNCHANGED ledger

\* Governance takes standing tokens off the router.
Rescue ==
    /\ UNCHANGED receipt
    /\ \A t \in Tokens, a \in Accounts \ {Router} :
          ledger'[t][a] >= ledger[t][a]

Next == Swap \/ Begin \/ Rescue

Spec == Init /\ [][Next]_<<ledger, receipt>>
=============================================================================
