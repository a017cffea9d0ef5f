------------------------------ MODULE SplitSwap ------------------------------
(***************************************************************************)
(* swapSplitV1 and swapSplitWithFeeV1 of src/src/PropAMMRouter.sol.        *)
(*                                                                         *)
(* The whole input is pulled first.  Then the router asks every listed     *)
(* venue for quotes (venue code runs, and may move tokens, while the funds *)
(* are here), ranks the answers, places legs in rate order against a       *)
(* Uniswap reference, runs each leg in a frame of its own, and sends what  *)
(* is left, the input of failed legs included, to Uniswap in one swap.     *)
(***************************************************************************)
EXTENDS SwapCall, SplitPlanner

CONSTANTS
    MAX_LEGS,           \* 5 in the code
    MAX_SPLIT_VENUES,   \* 12 in the code
    REF_DIVISOR,        \* 100 in the code: amountIn / 100 is the least reference
    VenueLists,         \* the whitelists to start with
    Market              \* what venues and Uniswap may do during each call

\* What the probe of a venue may come to and how it may change the router's
\* input balance, what the fallback quoter may answer, what a venue or Uniswap
\* may pay, and whom a venue may pay.
MarketType ==
    [answers : [Listable -> SUBSET [fill : Nat, out : Nat]],
     drifts : [Listable -> SUBSET Int],
     refs : SUBSET Nat, pays : SUBSET Nat, payees : SUBSET Accounts]

CallType ==
    [withFee : BOOLEAN, bps : Nat, feeTo : Users \cup {Router, None},
     tokenIn : Tokens, tokenOut : Tokens,
     amountIn : Nat, amountOutMin : Nat,
     sender : Users, recipient : Users \cup {Router},
     value : Nat, late : BOOLEAN]

ASSUME CallsAreCalls == Calls \subseteq CallType
\* _whitelistedVenues is an EnumerableSet: no venue is in it twice.
ASSUME VenueListsAreSets ==
    \A list \in VenueLists : list \in Seq(Listable) /\ IsInjective(list)
ASSUME MarketOfCalls == Market \in [Calls -> MarketType]
ASSUME SplitConstants ==
    /\ {MAX_LEGS, MAX_SPLIT_VENUES, REF_DIVISOR} \subseteq Nat
    /\ REF_DIVISOR > 0

VARIABLES
    probed,     \* venues asked so far
    cands,      \* candidates: in whitelist order, then in rate order
    next,       \* the candidate, then the leg, whose turn it is
    snap,       \* the router's input balance before the quotes
    ref,        \* the reference: [fill |-> refSize, out |-> refOut]
    refined,    \* the one refinement was spent
    legs,       \* the plan
    failed,     \* fbAmount: the input left for the fallback
    makers      \* the venues a Swapped event named

planVars == <<probed, cands, next, snap, ref, refined, legs, failed, makers>>
vars == <<stateVars, swapVars, planVars>>

\* The input of a plan's legs, on top of a base.
InputOf(base, plan) ==
    FoldLeft(LAMBDA sum, leg : sum + leg.amountIn, base, plan)

\* The input the plan has not placed yet.
Allocated == InputOf(0, legs)
Remaining == call.amountIn - Allocated

\* No plan is under way.
NoPlan == /\ probed = 0
          /\ cands = <<>>
          /\ next = 0
          /\ snap = 0
          /\ ref = NoFill
          /\ refined = FALSE
          /\ legs = <<>>
          /\ failed = 0
          /\ makers = {}

\* The plan is forgotten when the call ends.
Drop   == /\ probed' = 0
          /\ cands' = <<>>
          /\ next' = 0
          /\ snap' = 0
          /\ ref' = NoFill
          /\ refined' = FALSE
          /\ legs' = <<>>
          /\ failed' = 0
          /\ makers' = {}

(***************************************************************************)
(* Checks and the pull                                                     *)
(***************************************************************************)
Begin(c) == Call(c) /\ UNCHANGED planVars

Admissible ==
    /\ ~paused
    /\ call.withFee =>
          /\ ValidFee
          /\ call.amountOutMin * BPS_DENOMINATOR <= MAX_UINT
    /\ ~call.late
    /\ call.amountIn \in 1 .. MAX_UINT128
    /\ Len(venues) <= MAX_SPLIT_VENUES
    /\ TokenIn # TokenOut
    /\ call.value = IF call.tokenIn = ETH THEN call.amountIn ELSE 0
    /\ bal[call.tokenIn][call.sender] >= call.amountIn

Pulled == IF call.tokenIn = ETH THEN Wrap(bal, call.sender, call.amountIn)
          ELSE Transfer(bal, TokenIn, call.sender, Router, call.amountIn)

Pull ==
    /\ pc = "enter"
    /\ Admissible
    /\ bal' = Pulled
    /\ snap' = Pulled[TokenIn][Router]
    /\ pc' = "probe"
    /\ UNCHANGED <<allow, venues, fb, paused, call, venue, prev, got, fee,
                   committed, frame, receipt, calls>>
    /\ UNCHANGED <<probed, cands, next, ref, refined, legs, failed, makers>>

(***************************************************************************)
(* Planning                                                                *)
(***************************************************************************)
\* A quote is a call of venue code while the router holds the input: its
\* balance may fall (a quote that consumes it) or rise (a donation, a rebase).
DriftOf(v, d) ==
    IF d < 0 THEN Move(bal, TokenIn, Router, -d, TokenIn, v, -d)
             ELSE Move(bal, TokenIn, Router, 0, TokenIn, Router, d)

\* _gatherCandidates, one venue: the fallback is not asked, and a useless
\* answer yields no candidate.
ProbeVenue ==
    /\ pc = "probe"
    /\ probed < Len(venues)
    /\ probed' = probed + 1
    /\ LET v == venues[probed + 1] IN
       \/ v = fb /\ UNCHANGED <<bal, cands>>
       \/ /\ v # fb
          /\ \E d \in Market[call].drifts[v] :
                /\ bal[TokenIn][Router] + d >= 0
                /\ bal' = DriftOf(v, d)
          /\ \E answer \in Market[call].answers[v] :
                cands' = IF Usable(answer)
                         THEN Append(cands, [venue |-> v, fill |-> answer.fill,
                                             out |-> answer.out])
                         ELSE cands
    /\ UNCHANGED <<allow, venues, fb, paused, swapVars>>
    /\ UNCHANGED <<next, snap, ref, refined, legs, failed, makers>>

\* What the legs that can be placed leave over, at least.
Residual(ranked) ==
    LET placeable == SubSeq(ranked, 1, Min({Len(ranked), MAX_LEGS}))
        Less(left, c) == IF c.fill >= left THEN 0 ELSE left - c.fill
    IN  FoldLeft(Less, call.amountIn, placeable)

RefSize(ranked) ==
    Max({1, Residual(ranked), call.amountIn \div REF_DIVISOR})

\* The candidates are ranked and the fallback is priced once.
Rank ==
    /\ pc = "probe"
    /\ probed = Len(venues)
    /\ cands' = SortByRateDesc(cands)
    /\ next' = 1
    /\ IF cands = <<>> THEN ref' = ref
       ELSE \E out \in Market[call].refs :
               ref' = [fill |-> RefSize(cands'), out |-> Clamp(out)]
    /\ pc' = "place"
    /\ UNCHANGED <<stateVars, call, venue, prev, got, fee, committed, frame,
                   receipt, calls>>
    /\ UNCHANGED <<probed, snap, refined, legs, failed, makers>>

\* The candidate is no better than the reference.
Contested(c) == c.out * ref.fill <= ref.out * c.fill

Placing == /\ pc = "place"
           /\ next <= Len(cands)
           /\ Remaining > 0
           /\ Len(legs) < MAX_LEGS

\* Mutant of LegSize: the remainder is not a limit.
WholeFill(c) == c.fill

LegSize(c) == Min({c.fill, Remaining})

Place ==
    /\ Placing
    /\ LET c    == cands[next]
           size == LegSize(c)
       IN  /\ ~Contested(c)
           /\ legs' = Append(legs, [venue |-> c.venue, amountIn |-> size,
                                    minOut |-> ProRataMin(c.out, c.fill, size)])
    /\ next' = next + 1
    /\ UNCHANGED <<stateVars, swapVars, probed, cands, snap, ref, refined, failed, makers>>

\* The first contested candidate buys one re-quote at the true remainder, kept
\* only if it is usable; the candidate is then compared again.
Refine ==
    /\ Placing
    /\ Contested(cands[next])
    /\ ~refined
    /\ refined' = TRUE
    /\ \E out \in Market[call].refs :
          ref' = IF Clamp(out) = 0 THEN ref ELSE [fill |-> Remaining, out |-> out]
    /\ UNCHANGED <<stateVars, swapVars, probed, cands, next, snap, legs, failed, makers>>

\* The rest goes to the fallback.
EndPlan ==
    /\ pc = "place"
    /\ Placing => refined /\ Contested(cands[next])
    /\ legs' = IF Remaining = 0 THEN legs
               ELSE Append(legs, [venue |-> fb, amountIn |-> Remaining,
                                  minOut |-> 0])
    /\ next' = 1
    /\ pc' = "bracket"
    /\ UNCHANGED <<stateVars, call, venue, prev, got, fee, committed, frame,
                   receipt, calls>>
    /\ UNCHANGED <<probed, cands, snap, ref, refined, failed, makers>>

\* Mutant of Sound: input consumed by a quote goes unnoticed.
SoundWithoutR1 == legs # <<>> /\ Allocated = call.amountIn

Sound == /\ bal[TokenIn][Router] >= snap    \* R1
         /\ legs # <<>>
         /\ Allocated = call.amountIn

Adopt ==
    /\ pc = "bracket"
    /\ Sound
    /\ pc' = "legs"
    /\ UNCHANGED <<stateVars, call, venue, prev, got, fee, committed, frame,
                   receipt, calls, planVars>>

(***************************************************************************)
(* Execution                                                               *)
(***************************************************************************)
Running == pc = "legs" /\ next <= Len(legs)

Absorb(amount) ==
    /\ failed' = failed + amount
    /\ next' = next + 1
    /\ UNCHANGED <<probed, cands, snap, ref, refined, legs, makers>>

SkipFallbackLeg ==
    /\ Running
    /\ legs[next].venue = fb
    /\ Absorb(legs[next].amountIn)
    /\ UNCHANGED <<stateVars, swapVars>>

CanPush(leg) == Listed(leg.venue) /\ bal[TokenIn][Router] >= leg.amountIn

\* The balance is read again before each leg; the input comes from the router.
PushLeg ==
    /\ Running
    /\ legs[next].venue # fb
    /\ CanPush(legs[next])
    /\ prev' = bal[TokenOut][Receiver]
    /\ frame' = World
    /\ venue' = legs[next].venue
    /\ bal' = Transfer(bal, TokenIn, Router, venue', legs[next].amountIn)
    /\ pc' = "venue"
    /\ UNCHANGED <<allow, venues, fb, paused, call, got, fee, committed,
                   receipt, calls, planVars>>

PushLegFails ==
    /\ Running
    /\ legs[next].venue # fb
    /\ ~CanPush(legs[next])
    /\ Absorb(legs[next].amountIn)
    /\ UNCHANGED <<stateVars, swapVars>>

VenuePays(t, to, x) ==
    /\ pc = "venue"
    /\ venue \in Makers
    /\ x <= bal[t][venue]
    /\ bal' = Transfer(bal, t, venue, to, x)
    /\ UNCHANGED <<allow, venues, fb, paused, swapVars, planVars>>

LegFills ==
    /\ pc = "venue"
    /\ venue \in Makers
    /\ Delta >= legs[next].minOut
    /\ got' = got + Delta
    /\ makers' = makers \cup {venue}
    /\ next' = next + 1
    /\ pc' = "legs"
    /\ UNCHANGED <<stateVars, call, venue, prev, fee, committed, frame, receipt,
                   calls>>
    /\ UNCHANGED <<probed, cands, snap, ref, refined, legs, failed>>

\* Mutant of LegFails: the leg is not a frame of its own.
LegFailsUndoingNothing ==
    /\ pc = "venue"
    /\ pc' = "legs"
    /\ Absorb(legs[next].amountIn)
    /\ UNCHANGED <<stateVars, call, venue, prev, got, fee, committed, frame,
                   receipt, calls>>

LegFails ==
    /\ pc = "venue"
    /\ bal' = frame.bal
    /\ allow' = frame.allow
    /\ pc' = "legs"
    /\ Absorb(legs[next].amountIn)
    /\ UNCHANGED <<venues, fb, paused, call, venue, prev, got, fee, committed,
                   frame, receipt, calls>>

\* The fallback's floor is what the legs that filled fall short of the minimum.
UniMin == IF got >= MinOut THEN 0 ELSE MinOut - got

LegsDone == pc = "legs" /\ next > Len(legs)

StartUniswap ==
    /\ LegsDone
    /\ failed > 0
    /\ prev' = bal[TokenOut][Receiver]
    /\ allow' = Approve(TokenIn, fb, failed)
    /\ pc' = "uniswap"
    /\ UNCHANGED <<bal, venues, fb, paused, call, venue, got, fee, committed,
                   frame, receipt, calls, planVars>>

Uniswap(used, out) ==
    /\ pc = "uniswap"
    /\ used <= allow[TokenIn][fb]
    /\ used <= bal[TokenIn][Router]
    /\ out <= bal[TokenOut][fb]
    /\ bal' = Transfer(Transfer(bal, TokenIn, Router, fb, used),
                       TokenOut, fb, Receiver, out)
    /\ allow' = Approve(TokenIn, fb, allow[TokenIn][fb] - used)
    /\ pc' = "uniReturn"
    /\ UNCHANGED <<venues, fb, paused, call, venue, prev, got, fee, committed,
                   frame, receipt, calls, planVars>>

UniswapReturns ==
    /\ pc = "uniReturn"
    /\ Delta >= UniMin
    /\ allow' = Approve(TokenIn, fb, 0)
    /\ got' = got + Delta
    /\ makers' = makers \cup {fb}
    /\ pc' = "total"
    /\ UNCHANGED <<bal, venues, fb, paused, call, venue, prev, fee, committed,
                   frame, receipt, calls>>
    /\ UNCHANGED <<probed, cands, next, snap, ref, refined, legs, failed>>

\* Every leg, the fallback's included, has been run.
AllRun == pc = "total" \/ (LegsDone /\ failed = 0)

\* The aggregate minimum.
Total ==
    /\ AllRun
    /\ got >= MinOut
    /\ pc' = "deliver"
    /\ UNCHANGED <<stateVars, call, venue, prev, got, fee, committed, frame,
                   receipt, calls, planVars>>

(***************************************************************************)
(* The end of the call                                                     *)
(***************************************************************************)
Fails ==
    /\ \/ pc = "enter" /\ ~Admissible
       \/ pc = "bracket" /\ ~Sound
       \/ pc = "uniswap"
       \/ pc = "uniReturn" /\ Delta < UniMin
       \/ AllRun /\ got < MinOut
    /\ Revert
    /\ Drop

Finish ==
    \/ Deliver /\ UNCHANGED planVars
    \/ DeliverFails /\ Drop
    \/ Disburse /\ UNCHANGED planVars
    \/ DisburseFails /\ Drop

Commit == Settle(makers) /\ Drop

\* The guardian acts between calls.
Administer ==
    /\ pc = "idle"
    /\ Pause \/ Unpause
    /\ UNCHANGED <<swapVars, planVars>>

Init ==
    /\ bal \in Openings
    /\ allow = NoAllowance
    /\ venues \in VenueLists
    /\ fb \in Fallbacks
    /\ paused = FALSE
    /\ pc = "idle"
    /\ call = None
    /\ venue = None
    /\ prev = 0
    /\ got = 0
    /\ fee = 0
    /\ calls = 0
    /\ committed = World
    /\ frame = World
    /\ receipt = NoReceipt
    /\ NoPlan

Planning == Place \/ Refine \/ EndPlan

CallStep ==
    \/ Pull
    \/ ProbeVenue \/ Rank \/ Planning \/ Adopt
    \/ SkipFallbackLeg \/ PushLeg \/ PushLegFails \/ LegFills \/ LegFails
    \/ StartUniswap \/ UniswapReturns \/ Total
    \/ Fails \/ Finish \/ Commit

Next ==
    \/ \E c \in Calls : Begin(c)
    \/ CallStep
    \/ /\ pc = "venue"
       /\ \E t \in Tokens \ {ETH}, to \in Market[call].payees,
             x \in Market[call].pays : VenuePays(t, to, x)
    \/ pc = "uniswap" /\ \E used, out \in Market[call].pays : Uniswap(used, out)
    \/ Administer

Spec == Init /\ [][Next]_vars

(***************************************************************************)
(* Properties                                                              *)
(***************************************************************************)
\* Whatever the quotes, a plan gives away the input exactly once: legs add up
\* to amountIn (SplitAllocationMismatch cannot fire), none is empty, no venue
\* has two, at most MAX_LEGS go to propAMMs and only the last to the fallback.
PlanCoversInput ==
    pc = "bracket" =>
       /\ Allocated = call.amountIn
       /\ \A i, j \in DOMAIN legs :
             /\ legs[i].amountIn > 0
             /\ i # j => legs[i].venue # legs[j].venue
             /\ legs[i].venue = fb => i = Len(legs)
             /\ i > MAX_LEGS => legs[i].venue = fb

\* No leg asks a venue for more than it was quoted for, at a floor other than
\* its share of that quote, and no venue that quoted better than a planned leg
\* is passed over.
PlanHonoursQuotes ==
    pc = "bracket" =>
       \A leg \in {legs[i] : i \in DOMAIN legs} :
          leg.venue # fb =>
             \E i \in DOMAIN cands :
                /\ cands[i].venue = leg.venue
                /\ leg.amountIn <= cands[i].fill
                /\ leg.minOut * cands[i].fill <= cands[i].out * leg.amountIn
                /\ (leg.minOut + 1) * cands[i].fill
                      > cands[i].out * leg.amountIn
                /\ \A j \in DOMAIN cands :
                      BetterThan(cands[j], cands[i]) =>
                         \E k \in DOMAIN legs : legs[k].venue = cands[j].venue

\* The input still to be handed out while legs run.
Unspent == InputOf(failed, SubSeq(legs, next, Len(legs)))

\* When venues run, and whatever the quotes before them did, the router still
\* holds the input of every leg that has not run or has failed, on top of the
\* tokens it held before the call; in the end it holds those at least.  An input
\* that taxes its transfers may cost the router that tax, once: legs are sized by
\* amountIn, not by what arrived.
CustodyKept ==
    /\ pc = "legs" =>
          bal[TokenIn][Router] + Withheld(TokenIn)
             >= committed.bal[TokenIn][Router] + Unspent
    /\ pc = "done" =>
          \A t \in Tokens :
             bal[t][Router] + Withheld(t) >= committed.bal[t][Router]

\* The split entrypoints implement what the interface promises of a swap.
Promise == INSTANCE SwapPromise WITH ledger <- committed.bal
Promised == Promise!Spec
=============================================================================
