------------------------------ MODULE SwapCall ------------------------------
(***************************************************************************)
(* What the single-venue and the split entrypoints of src/src/             *)
(* PropAMMRouter.sol share: the running call, how it ends, and how the     *)
(* output collected is delivered.                                          *)
(*                                                                         *)
(* One call runs at a time: transactions are serial, and nonReentrant      *)
(* keeps a second swap out of a running one.  A revert of the call undoes  *)
(* everything since it began.                                              *)
(***************************************************************************)
EXTENDS RouterState, FrontendFees

CONSTANTS
    Openings,   \* the balances there may be before the first call
    Calls,      \* the calls users may make
    MaxCalls,   \* bound on the calls of a behaviour
    MAX_UINT    \* type(uint256).max

ASSUME OpeningBalances == Openings \subseteq Ledgers
ASSUME CallBounds == {MaxCalls, MAX_UINT} \subseteq Nat

VARIABLES
    pc,         \* where the running call is
    call,       \* its arguments
    venue,      \* the venue it uses
    prev,       \* prevTokenOutBalance
    got,        \* the output measured so far
    fee,        \* the frontend fee taken from it
    committed,  \* the ledgers a revert of the call restores
    frame,      \* the ledgers a revert of the dispatch restores
    receipt,    \* the events of the last settled call
    calls       \* calls made so far

swapVars == <<pc, call, venue, prev, got, fee, committed, frame, receipt, calls>>

World == [bal |-> bal, allow |-> allow]

\* The events of a settled call, with the call they belong to.
Receipts == [call : Calls, amountOut : Nat, fee : Nat,
             makers : SUBSET Listable]
NoReceipt == [call |-> None]

(***************************************************************************)
(* What the running call works with                                        *)
(***************************************************************************)
TokenIn == Resolve(call.tokenIn)
TokenOut == Resolve(call.tokenOut)

\* Fee calls and ETH-out calls collect the output on the router first.
Receiver == IF call.withFee \/ call.tokenOut = ETH
            THEN Router ELSE call.recipient

MinOut == IF call.withFee THEN GrossUp(call.amountOutMin, call.bps)
                          ELSE call.amountOutMin

\* Mutant of Payer: the sender is charged though the ETH was wrapped already.
PayerIsSender == call.sender

Payer == IF call.tokenIn = ETH THEN Router ELSE call.sender

Delta == bal[TokenOut][Receiver] - prev

(***************************************************************************)
(* The call ends: everything since it began is undone, or kept.            *)
(***************************************************************************)
Forget ==
    /\ pc' = "idle"
    /\ call' = None
    /\ venue' = None
    /\ prev' = 0
    /\ got' = 0
    /\ fee' = 0
    /\ UNCHANGED <<venues, fb, paused, calls>>

Revert ==
    /\ bal' = committed.bal
    /\ allow' = committed.allow
    /\ frame' = committed
    /\ Forget
    /\ UNCHANGED <<committed, receipt>>

\* The call's state changes become final and its Swapped (one for each of the
\* makers) and FrontendFeeCharged events can be read.
Settle(makers) ==
    /\ pc = "done"
    /\ receipt' = [call |-> call, amountOut |-> got, fee |-> fee,
                   makers |-> makers]
    /\ committed' = World
    /\ frame' = World
    /\ Forget
    /\ UNCHANGED <<bal, allow>>

(***************************************************************************)
(* A call begins                                                           *)
(***************************************************************************)
\* A user sends the transaction with the ETH it attaches.
Call(c) ==
    /\ pc = "idle"
    /\ calls < MaxCalls
    /\ c.value <= bal[ETH][c.sender]
    /\ pc' = "enter"
    /\ call' = c
    /\ calls' = calls + 1
    /\ receipt' = NoReceipt
    /\ UNCHANGED <<stateVars, venue, prev, got, fee, committed, frame>>

ValidFee == call.bps <= MAX_FEE_BPS /\ call.feeTo # None

(***************************************************************************)
(* Delivery: unwrap for ETH, then the fee and the net                      *)
(***************************************************************************)
\* Mutant of UnwrapTo: the ETH of a fee call leaves before the fee is taken.
UnwrapToRecipient == call.recipient

UnwrapTo == IF call.withFee THEN Router ELSE call.recipient

Deliver ==
    /\ pc = "deliver"
    /\ bal' = IF call.tokenOut = ETH THEN Unwrap(bal, UnwrapTo, got) ELSE bal
    /\ pc' = IF call.withFee THEN "disburse" ELSE "done"
    /\ UNCHANGED <<allow, venues, fb, paused, call, venue, prev, got, fee,
                   committed, frame, receipt, calls>>

\* The recipient refuses the ETH.
DeliverFails ==
    /\ pc = "deliver"
    /\ call.tokenOut = ETH
    /\ UnwrapTo # Router
    /\ Revert

FeeDue == FeeAmount(got, call.bps)
AfterFee == Transfer(bal, call.tokenOut, Router, call.feeTo, FeeDue)
AfterNet == Transfer(AfterFee, call.tokenOut, Router, call.recipient,
                     got - FeeDue)

\* Mutant of Received: what was sent, not what arrived.
NominallySent == got - FeeDue

\* What the recipient received: the balance delta of an ERC-20, the nominal
\* amount of ETH.
Received ==
    IF call.tokenOut = ETH THEN got - FeeDue
    ELSE AfterNet[call.tokenOut][call.recipient]
            - AfterFee[call.tokenOut][call.recipient]

\* receive() refuses ETH the router sends to itself.
SelfPaid == /\ call.tokenOut = ETH
            /\ \/ call.feeTo = Router /\ FeeDue > 0
               \/ call.recipient = Router /\ got > FeeDue

Disbursable ==
    /\ got * call.bps <= MAX_UINT
    /\ ~SelfPaid
    /\ Received >= call.amountOutMin

Disburse ==
    /\ pc = "disburse"
    /\ Disbursable
    /\ bal' = AfterNet
    /\ got' = Received
    /\ fee' = FeeDue
    /\ pc' = "done"
    /\ UNCHANGED <<allow, venues, fb, paused, call, venue, prev, committed,
                   frame, receipt, calls>>

\* A check fails, or a payee refuses its ETH.
DisburseFails ==
    /\ pc = "disburse"
    /\ ~Disbursable \/ call.tokenOut = ETH
    /\ Revert

(***************************************************************************)
(* Properties of both kinds of call                                        *)
(***************************************************************************)
\* Slippage: when a call is about to end well, the recipient holds at least
\* the stated minimum, and at least what the Swapped event will report, more
\* of the output token than when the call began - whoever filled, whatever
\* the token's transfer tax, with or without a fee, ETH or not.
MinimumDelivered ==
    pc = "done" =>
       /\ got >= call.amountOutMin
       /\ bal[call.tokenOut][call.recipient]
             >= committed.bal[call.tokenOut][call.recipient] + got

\* What the router may miss of a token because of the call: legs and the fallback
\* are sized by amountIn, so that what a taxed input lost on its way in is made up
\* for out of what was standing on the router.
Withheld(t) == IF t = TokenIn THEN TransferTax[t] ELSE 0

\* SwapRouter can pull from the router only while it swaps, even when it left
\* part of the approved input unpulled.
NoStandingApproval ==
    pc \notin {"uniswap", "uniReturn"} => allow = NoAllowance

\* The gross minimum enforced on the swap covers the net minimum after the
\* fee: an honest token cannot fail the second check of _skimAndDisburse.
FeeLeavesMinimum ==
    pc = "disburse" => Net(got, call.bps) >= call.amountOutMin
=============================================================================
