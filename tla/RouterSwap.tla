----------------------------- MODULE RouterSwap -----------------------------
(***************************************************************************)
(* The single-venue swap entrypoints of src/src/PropAMMRouter.sol: swapV1, *)
(* swapViaVenueV1, swapViaSelectedVenuesV1 and their WithFee variants.     *)
(*                                                                         *)
(* One call runs at a time (transactions are serial, nonReentrant keeps a  *)
(* second swap out of a running one) but it hands control to contracts the *)
(* router does not trust: between the push of the input and the return of  *)
(* the venue, and while Uniswap swaps, the other contract moves tokens as  *)
(* it likes.  The self-call to _dispatchVenue is a frame of its own: if it *)
(* reverts, everything since the frame began is undone and the call goes   *)
(* on to the fallback.  A revert of the call itself undoes everything      *)
(* since the call began.                                                   *)
(***************************************************************************)
EXTENDS SwapCall

CONSTANTS
    MaxQuote,   \* bound on what a venue quotes
    MaxPay,     \* bound on one transfer by a venue or by Uniswap
    MaxRescue,  \* bound on one rescue
    Payees      \* the accounts a venue may pay

CallType ==
    [entry : {"swap", "via", "selected"},   \* the entrypoint ...
     withFee : BOOLEAN,                     \* ... and its WithFee variant
     bps : Nat, feeTo : Users \cup {Router, None},
     named : Listable,                      \* swapViaVenueV1's venue
     list : Seq(Listable),                  \* the selected venues
     tokenIn : Tokens, tokenOut : Tokens,
     amountIn : Nat, amountOutMin : Nat,
     sender : Users, recipient : Users \cup {Router},
     value : Nat,                           \* msg.value
     late : BOOLEAN]                        \* block.timestamp > deadline

ASSUME CallsAreCalls == Calls \subseteq CallType
ASSUME PayeesAreAccounts == Payees \subseteq Accounts
ASSUME SwapBounds == {MaxQuote, MaxPay, MaxRescue} \subseteq Nat

vars == <<stateVars, swapVars>>

Phases == {"idle", "enter", "select", "take", "dispatch", "venue", "fallback",
           "uniswap", "uniReturn", "deliver", "disburse", "done"}

TypeOK ==
    /\ StateTypeOK
    /\ pc \in Phases
    /\ call \in Calls \cup {None}
    /\ pc # "idle" => call \in Calls
    /\ venue \in Listable \cup {None}
    /\ pc \notin {"idle", "enter", "select"} => venue \in Listable
    /\ prev \in Nat
    /\ got \in Nat
    /\ fee \in Nat
    /\ committed \in [bal : Ledgers, allow : Approvals]
    /\ frame \in [bal : Ledgers, allow : Approvals]
    /\ receipt \in Receipts \cup {NoReceipt}
    /\ calls \in Nat

(***************************************************************************)
(* Entry: modifiers, argument checks and venue selection                   *)
(***************************************************************************)
Admissible ==
    /\ ~paused
    /\ call.withFee =>
          /\ ValidFee
          /\ call.amountOutMin * BPS_DENOMINATOR <= MAX_UINT
    /\ call.entry = "via" => IsVenue(call.named)

Enter ==
    /\ pc = "enter"
    /\ Admissible
    /\ pc' = "select"
    /\ UNCHANGED <<stateVars, call, venue, prev, got, fee, committed, frame,
                   receipt, calls>>

EnterFails == pc = "enter" /\ ~Admissible /\ Revert

\* The venues a call asks for quotes, in the order it asks.
Quoted == IF call.entry = "swap" THEN venues ELSE call.list

\* What they may answer; an address that is not a venue is not asked.
Answers == {quotes \in [DOMAIN Quoted -> 0 .. MaxQuote] :
               \A i \in DOMAIN Quoted : ~IsVenue(Quoted[i]) => quotes[i] = 0}

\* The first of the strictly best quotes; a venue that reverts or quotes zero
\* is not a choice.  quotes[i] is what Quoted[i] answers.
IsBest(quotes, i) ==
    /\ quotes[i] > 0
    /\ \A j \in DOMAIN quotes :
          /\ quotes[j] <= quotes[i]
          /\ j < i => quotes[j] < quotes[i]

\* No priced venue, or none that covers the minimum: the fallback.
SelectBest ==
    /\ pc = "select"
    /\ call.entry # "via"
    /\ \E quotes \in Answers :
          \/ \E i \in DOMAIN Quoted :
                /\ IsBest(quotes, i)
                /\ venue' = IF quotes[i] < MinOut THEN fb ELSE Quoted[i]
          \/ /\ \A i \in DOMAIN Quoted : quotes[i] = 0
             /\ venue' = fb
    /\ pc' = "take"
    /\ UNCHANGED <<stateVars, call, prev, got, fee, committed, frame, receipt,
                   calls>>

SelectNamed ==
    /\ pc = "select"
    /\ call.entry = "via"
    /\ venue' = call.named
    /\ pc' = "take"
    /\ UNCHANGED <<stateVars, call, prev, got, fee, committed, frame, receipt,
                   calls>>

(***************************************************************************)
(* _coreSwap up to the venue attempt                                       *)
(***************************************************************************)
Takeable ==
    /\ ~call.late
    /\ call.value = IF call.tokenIn = ETH THEN call.amountIn ELSE 0
    /\ TokenIn # TokenOut

\* ETH is wrapped, and the receiver's balance is read before anything else
\* moves.
Take ==
    /\ pc = "take"
    /\ Takeable
    /\ bal' = IF call.tokenIn = ETH THEN Wrap(bal, call.sender, call.amountIn)
                                    ELSE bal
    /\ prev' = bal'[TokenOut][Receiver]
    /\ pc' = IF venue = fb THEN "fallback" ELSE "dispatch"
    /\ UNCHANGED <<allow, venues, fb, paused, call, venue, got, fee, committed,
                   frame, receipt, calls>>

TakeFails == pc = "take" /\ ~Takeable /\ Revert

(***************************************************************************)
(* The dispatch frame: _dispatchVenue behind this.call                     *)
(***************************************************************************)
CanPush == Listed(venue) /\ bal[TokenIn][Payer] >= call.amountIn

Push ==
    /\ pc = "dispatch"
    /\ CanPush
    /\ frame' = World
    /\ bal' = Transfer(bal, TokenIn, Payer, venue, call.amountIn)
    /\ pc' = "venue"
    /\ UNCHANGED <<allow, venues, fb, paused, call, venue, prev, got, fee,
                   committed, receipt, calls>>

\* The frame reverts before anything moved.
PushFails ==
    /\ pc = "dispatch"
    /\ ~CanPush
    /\ pc' = "fallback"
    /\ UNCHANGED <<stateVars, call, venue, prev, got, fee, committed, frame,
                   receipt, calls>>

\* A running venue may send any of its tokens to anyone, ETH to the router
\* excepted (receive() accepts it from WETH only).
VenuePays(t, to, x) ==
    /\ pc = "venue"
    /\ venue \in Makers
    /\ to # venue
    /\ t = ETH => to # Router
    /\ x <= bal[t][venue]
    /\ bal' = Transfer(bal, t, venue, to, x)
    /\ UNCHANGED <<allow, venues, fb, paused, swapVars>>

\* Enough was delivered: the frame's changes stay.
VenueFills ==
    /\ pc = "venue"
    /\ venue \in Makers
    /\ Delta >= MinOut
    /\ Delta >= 0
    /\ got' = Delta
    /\ pc' = "deliver"
    /\ UNCHANGED <<stateVars, call, venue, prev, fee, committed, frame,
                   receipt, calls>>

\* Mutant of VenueFails: the attempt is not a frame of its own.
VenueFailsUndoingNothing ==
    /\ pc = "venue"
    /\ pc' = "fallback"
    /\ UNCHANGED <<stateVars, call, venue, prev, got, fee, committed, frame,
                   receipt, calls>>

\* The venue reverts, runs out of gas or under-delivers, or is not a venue
\* contract at all: the frame is undone and the fallback takes over.
VenueFails ==
    /\ pc = "venue"
    /\ bal' = frame.bal
    /\ allow' = frame.allow
    /\ pc' = "fallback"
    /\ UNCHANGED <<venues, fb, paused, call, venue, prev, got, fee, committed,
                   frame, receipt, calls>>

(***************************************************************************)
(* The Uniswap fallback                                                    *)
(***************************************************************************)
CanPull == call.tokenIn = ETH \/ bal[TokenIn][call.sender] >= call.amountIn

FallbackPulls ==
    /\ pc = "fallback"
    /\ CanPull
    /\ venue' = fb
    /\ bal' = IF call.tokenIn = ETH THEN bal
              ELSE Transfer(bal, TokenIn, call.sender, Router, call.amountIn)
    /\ allow' = Approve(TokenIn, fb, call.amountIn)
    /\ pc' = "uniswap"
    /\ UNCHANGED <<venues, fb, paused, call, prev, got, fee, committed, frame,
                   receipt, calls>>

FallbackPullFails == pc = "fallback" /\ ~CanPull /\ Revert

\* exactInputSingle pulls up to the approved input (less when the pool runs
\* dry) and pays the receiver.
Uniswap(used, out) ==
    /\ pc = "uniswap"
    /\ used <= allow[TokenIn][fb]
    /\ used <= bal[TokenIn][Router]
    /\ out <= bal[TokenOut][fb]
    /\ bal' = Transfer(Transfer(bal, TokenIn, Router, fb, used),
                       TokenOut, fb, Receiver, out)
    /\ allow' = Approve(TokenIn, fb, allow[TokenIn][fb] - used)
    /\ pc' = "uniReturn"
    /\ UNCHANGED <<venues, fb, paused, call, venue, prev, got, fee, committed,
                   frame, receipt, calls>>

UniswapReverts == pc = "uniswap" /\ Revert

\* The approval is reset whatever was pulled, and the output is measured.
UniswapReturns ==
    /\ pc = "uniReturn"
    /\ Delta >= MinOut
    /\ Delta >= 0
    /\ allow' = Approve(TokenIn, fb, 0)
    /\ got' = Delta
    /\ pc' = "deliver"
    /\ UNCHANGED <<bal, venues, fb, paused, call, venue, prev, fee, committed,
                   frame, receipt, calls>>

UniswapFallsShort ==
    /\ pc = "uniReturn"
    /\ Delta < MinOut \/ Delta < 0
    /\ Revert

Commit == Settle({venue})

(***************************************************************************)
(* Administration runs between calls                                       *)
(***************************************************************************)
Administer ==
    /\ pc = "idle"
    /\ \/ \E v \in Listable : AddVenue(v) \/ RemoveVenue(v)
       \/ \E f \in Fallbacks : SetFallbackSwapRouter(f)
       \/ Pause
       \/ Unpause
    /\ UNCHANGED swapVars

Rescue(t, to, x) ==
    /\ pc = "idle"
    /\ RescueTokens(t, to, x)
    /\ committed' = [committed EXCEPT !.bal = bal']
    /\ frame' = committed'
    /\ UNCHANGED <<pc, call, venue, prev, got, fee, receipt, calls>>

(***************************************************************************)
(* Specification                                                           *)
(***************************************************************************)
Init ==
    /\ bal \in Openings
    /\ allow = NoAllowance
    /\ venues = <<>>
    /\ fb \in Fallbacks
    /\ paused = FALSE
    /\ pc = "idle"
    /\ call = None
    /\ venue = None
    /\ prev = 0
    /\ got = 0
    /\ fee = 0
    /\ committed = World
    /\ frame = World
    /\ receipt = NoReceipt
    /\ calls = 0

CallStep ==
    \/ Enter \/ EnterFails
    \/ SelectBest \/ SelectNamed
    \/ Take \/ TakeFails
    \/ Push \/ PushFails
    \/ VenueFills \/ VenueFails
    \/ FallbackPulls \/ FallbackPullFails
    \/ UniswapReverts \/ UniswapReturns \/ UniswapFallsShort
    \/ Deliver \/ DeliverFails
    \/ Disburse \/ DisburseFails
    \/ Commit

Next ==
    \/ \E c \in Calls : Call(c)
    \/ CallStep
    \/ \E t \in Tokens, to \in Payees, x \in 1 .. MaxPay : VenuePays(t, to, x)
    \/ \E used, out \in 0 .. MaxPay : Uniswap(used, out)
    \/ Administer
    \/ \E t \in Tokens, to \in Users, x \in 1 .. MaxRescue : Rescue(t, to, x)

Spec == Init /\ [][Next]_vars

(***************************************************************************)
(* Properties                                                              *)
(***************************************************************************)
\* The phases in which the sender has parted with the input.
Paid ==
    \/ pc \in {"venue", "uniswap", "uniReturn", "deliver", "disburse", "done"}
    \/ pc \in {"dispatch", "fallback"} /\ call.tokenIn = ETH

\* Only the venue in use may end up with less than when the call began, the
\* sender excepted, who parts with amountIn of the input and nothing else.
\* In particular a venue that failed keeps nothing and loses nothing.
OnlyInputIsSpent ==
    pc # "idle" =>
       \A t \in Tokens, a \in Users \cup Makers \cup Fallbacks :
          \/ a = venue /\ pc \notin {"select", "take", "dispatch", "fallback"}
          \/ bal[t][a] + (IF Paid /\ a = call.sender /\ t = call.tokenIn
                         THEN call.amountIn ELSE 0)
                >= committed.bal[t][a]

\* What the router holds on behalf of the running call.
InCustody(t) ==
    IF \/ pc \in {"dispatch", "fallback"} /\ call.tokenIn = ETH /\ t = WETH
       \/ pc = "uniswap" /\ t = TokenIn
    THEN call.amountIn
    ELSE IF \/ pc = "deliver" /\ Receiver = Router /\ t = TokenOut
            \/ pc = "disburse" /\ t = call.tokenOut
         THEN got ELSE 0

\* Tokens that were standing on the router before the call (awaiting
\* rescueTokens) are never spent by it, not even in the middle of it, when
\* contracts the router does not trust run: but for the tax of one transfer of
\* the input, which the fallback makes up for.
RouterKeepsItsOwn ==
    pc # "idle" =>
       \A t \in Tokens :
          bal[t][Router] + Withheld(t)
             >= committed.bal[t][Router] + InCustody(t)

\* The ledgers of the beginning of the call, with the input wrapped if it is
\* ETH.
Clean(w) ==
    /\ w.allow = committed.allow
    /\ w.bal = IF call.tokenIn = ETH
               THEN Wrap(committed.bal, call.sender, call.amountIn)
               ELSE committed.bal

\* However the venue attempt failed, the fallback starts from the ledgers of
\* the beginning of the call: it has the whole input to swap.
FallbackStartsClean == pc = "fallback" => Clean(World)

(***************************************************************************)
(* The inductive invariant behind them                                     *)
(***************************************************************************)
Begun == pc \in {"enter", "select", "take"}
Taken == pc \notin {"idle", "enter", "select", "take"}

\* What the checks passed so far established about the arguments.
ArgumentsChecked ==
    /\ Begun => call.value <= bal[ETH][call.sender]
    /\ pc \notin {"idle", "enter"} /\ call.withFee => ValidFee
    /\ Taken => TokenIn # TokenOut
    /\ pc = "disburse" => call.withFee

\* What the saved ledgers hold.
SavedLedgers ==
    /\ committed.allow = NoAllowance
    /\ Begun \/ pc = "idle" => committed = World
    /\ pc \in {"dispatch", "fallback"} => Clean(World)
    /\ pc = "venue" => Clean(frame)

\* How the output is measured: against the receiver's balance of the beginning
\* of the call.
Measured ==
    /\ Taken => prev = committed.bal[TokenOut][Receiver]
    /\ pc = "deliver" => Delta = got
    /\ pc \in {"deliver", "disburse"} => got >= MinOut
    /\ pc = "disburse" =>
          bal[call.tokenOut][Router]
             >= committed.bal[call.tokenOut][Router] + got

\* The router's own ETH is never spent.
EtherKept ==
    pc # "idle" => bal[ETH][Router] >= committed.bal[ETH][Router]

\* While Uniswap runs it holds the only approval.
FallbackInUse ==
    pc \in {"uniswap", "uniReturn"} =>
       venue = fb /\ Approve(TokenIn, fb, 0) = NoAllowance

IInv ==
    /\ TypeOK
    /\ ArgumentsChecked
    /\ SavedLedgers
    /\ Measured
    /\ EtherKept
    /\ FallbackInUse
    /\ OnlyInputIsSpent
    /\ NoStandingApproval
    /\ MinimumDelivered

\* The single-venue entrypoints implement what the interface promises of a swap; the
\* ledgers between calls are the promise's.
Promise == INSTANCE SwapPromise WITH ledger <- committed.bal
Promised == Promise!Spec
=============================================================================
