-------------------------- MODULE RouterSwapProofs --------------------------
(***************************************************************************)
(* Theorems about RouterSwap, for every set of accounts, tokens and calls. *)
(***************************************************************************)
EXTENDS RouterSwap, SwapCallProofs

(***************************************************************************)
(* The running call                                                        *)
(***************************************************************************)
\* What a call's arguments are, and what is derived from them.
LEMMA CallFacts ==
    ASSUME call \in Calls
    PROVE  /\ Arguments
           /\ call.withFee \in BOOLEAN
           /\ call.bps \in Nat
           /\ call.feeTo \in Users \cup {Router, None}
           /\ call.named \in Listable
           /\ call.tokenIn \in Tokens /\ call.tokenOut \in Tokens
           /\ call.amountIn \in Nat /\ call.amountOutMin \in Nat
           /\ call.sender \in Users /\ call.sender \in Accounts
           /\ call.recipient \in Users \cup {Router}
           /\ call.recipient \in Accounts
           /\ call.value \in Nat
           /\ TokenIn \in Tokens \ {ETH} /\ TokenOut \in Tokens \ {ETH}
           /\ call.tokenIn # ETH => TokenIn = call.tokenIn
           /\ call.tokenIn = ETH => TokenIn = WETH
           /\ call.tokenOut # ETH => TokenOut = call.tokenOut
           /\ call.tokenOut = ETH => TokenOut = WETH
           /\ Receiver \in Users \cup {Router}
           /\ Receiver \in Accounts /\ Payer \in Accounts
<1>1. call \in CallType
  BY CallsAreCalls
<1>2. Arguments /\ call.named \in Listable
  BY <1>1 DEF CallType, Arguments
<1> QED BY <1>2, ArgumentFacts DEF Arguments

(***************************************************************************)
(* The call ends                                                           *)
(***************************************************************************)
LEMMA InitIInv == Init => IInv
<1> SUFFICES ASSUME Init PROVE IInv
  OBVIOUS
<1>1. bal \in Ledgers /\ allow \in Approvals
  BY OpeningBalances, NoAllowanceType DEF Init
<1>2. venues \in Seq(Listable)
  BY DEF Init
<1>3. StateTypeOK
  BY <1>1, <1>2 DEF Init, StateTypeOK
<1>4. TypeOK
  BY <1>1, <1>3 DEF Init, TypeOK, World, Phases
<1>5. /\ pc = "idle"
      /\ committed = World
      /\ committed.allow = NoAllowance
      /\ allow = NoAllowance
  BY DEF Init, World
<1> QED
  BY <1>4, <1>5
     DEF IInv, ArgumentsChecked, SavedLedgers, Measured, EtherKept,
         FallbackInUse, OnlyInputIsSpent, NoStandingApproval,
         MinimumDelivered, Begun, Taken

\* When a call ends the invariant asks only for types and settled ledgers.
LEMMA IdleIInv ==
    ASSUME TypeOK', pc' = "idle", committed' = World', allow' = NoAllowance
    PROVE  IInv'
<1>1. committed'.allow = NoAllowance
  BY DEF World
<1> QED
  BY <1>1
     DEF IInv, ArgumentsChecked, SavedLedgers, Measured, EtherKept,
         FallbackInUse, OnlyInputIsSpent, NoStandingApproval,
         MinimumDelivered, Begun, Taken

LEMMA RevertPreserves == IInv /\ Revert => IInv'
<1> SUFFICES ASSUME IInv, Revert PROVE IInv'
  OBVIOUS
<1>1. TypeOK'
  BY DEF IInv, TypeOK, StateTypeOK, Revert, Forget, Phases
<1>2. pc' = "idle" /\ allow' = NoAllowance
  BY DEF IInv, SavedLedgers, Revert, Forget
<1>3. committed' = World'
  BY DEF IInv, TypeOK, Revert, World
<1> QED BY <1>1, <1>2, <1>3, IdleIInv DEF IInv

LEMMA CommitPreserves == IInv /\ Commit => IInv'
<1> SUFFICES ASSUME IInv, Commit PROVE IInv'
  OBVIOUS
<1>1. receipt' \in Receipts
  BY DEF IInv, TypeOK, Commit, Settle, Receipts
<1>2. committed' \in [bal : Ledgers, allow : Approvals]
  BY DEF IInv, TypeOK, StateTypeOK, Commit, Settle, World
<1>3. TypeOK'
  BY <1>1, <1>2 DEF IInv, TypeOK, StateTypeOK, Commit, Settle, Forget, Phases
<1>4. pc' = "idle" /\ allow' = NoAllowance /\ committed' = World'
  BY DEF IInv, NoStandingApproval, Commit, Settle, Forget, World
<1> QED BY <1>3, <1>4, IdleIInv

(***************************************************************************)
(* Entry                                                                   *)
(***************************************************************************)
LEMMA CallPreserves == ASSUME IInv, NEW c \in Calls, Call(c) PROVE IInv'
<1>1. TypeOK'
  BY DEF IInv, TypeOK, StateTypeOK, stateVars, Call, Phases
<1>2. /\ pc' = "enter" /\ pc = "idle"
      /\ call' = c /\ c.value <= bal[ETH][c.sender]
      /\ UNCHANGED <<bal, allow, committed>>
      /\ committed = World
      /\ allow = NoAllowance
  BY DEF Call, stateVars, IInv, SavedLedgers, NoStandingApproval
<1>3. ArgumentsChecked' /\ SavedLedgers'
  BY <1>2 DEF IInv, ArgumentsChecked, SavedLedgers, Begun, Taken, World
<1>4. EtherKept' /\ OnlyInputIsSpent'
  <2>1. \A t \in Tokens, a \in Accounts :
           bal'[t][a] = committed'.bal[t][a] /\ bal'[t][a] \in Nat
    BY <1>2, BalanceNat DEF World, IInv, TypeOK, StateTypeOK
  <2> QED
    BY <1>2, <2>1 DEF EtherKept, OnlyInputIsSpent, Paid, Tokens, Accounts
<1> QED
  BY <1>1, <1>2, <1>3, <1>4
     DEF IInv, Measured, FallbackInUse, NoStandingApproval, MinimumDelivered,
         Taken

\* Steps before the input is taken leave the ledgers alone.
LEMMA SelectingPreserves ==
    ASSUME IInv, Enter \/ SelectBest \/ SelectNamed
    PROVE  IInv'
<1>1. /\ pc \in {"enter", "select"} /\ pc' \in {"select", "take"}
      /\ pc = "enter" => pc' = "select"
      /\ UNCHANGED <<stateVars, call, prev, got, fee, committed, frame, receipt,
                    calls>>
  BY DEF Enter, SelectBest, SelectNamed
<1>2. call \in Calls
  BY <1>1 DEF IInv, TypeOK
<1>3. venue' \in Listable \cup {None} /\ (pc' = "take" => venue' \in Listable)
  <2>1. CASE Enter
    BY <2>1 DEF Enter, IInv, TypeOK
  <2>2. CASE SelectNamed
    BY <1>2, <2>2, CallFacts DEF SelectNamed
  <2>3. CASE SelectBest
    <3>1. Quoted \in Seq(Listable)
      BY <1>2, CallsAreCalls DEF Quoted, CallType, IInv, TypeOK, StateTypeOK
    <3>2. fb \in Listable
      BY DEF IInv, TypeOK, StateTypeOK, Listable
    <3>3. \A i \in DOMAIN Quoted : Quoted[i] \in Listable
      BY <3>1
    <3> QED BY <2>3, <3>2, <3>3 DEF SelectBest
  <2> QED BY <2>1, <2>2, <2>3
<1>4. TypeOK'
  BY <1>1, <1>2, <1>3 DEF IInv, TypeOK, StateTypeOK, stateVars, Phases
<1>5. ArgumentsChecked'
  <2>1. (call.withFee => ValidFee)'
    BY <1>1 DEF IInv, ArgumentsChecked, ValidFee, Enter, Admissible,
                SelectBest, SelectNamed
  <2> QED
    BY <1>1, <2>1 DEF IInv, ArgumentsChecked, Begun, Taken, stateVars
<1>6. SavedLedgers'
  BY <1>1 DEF IInv, SavedLedgers, Begun, World, stateVars
<1>7. EtherKept'
  BY <1>1 DEF IInv, EtherKept, stateVars
<1>8. OnlyInputIsSpent'
  <2>1. \A t \in Tokens, a \in Accounts :
           bal'[t][a] = committed'.bal[t][a] /\ bal'[t][a] \in Nat
    BY <1>1, BalanceNat
       DEF World, IInv, TypeOK, StateTypeOK, SavedLedgers, Begun, stateVars
  <2> QED
    BY <1>1, <2>1 DEF OnlyInputIsSpent, Paid, Accounts
<1> QED
  BY <1>1, <1>4, <1>5, <1>6, <1>7, <1>8
     DEF IInv, Measured, FallbackInUse, NoStandingApproval, MinimumDelivered,
         Taken, stateVars
\* What taking the input finds: nothing has moved since the call began.
LEMMA TakePreserves == ASSUME IInv, Take PROVE IInv'
<1>1. /\ pc = "take" /\ pc' \in {"dispatch", "fallback"}
      /\ call \in Calls /\ venue \in Listable
      /\ Takeable
      /\ committed = World /\ bal = committed.bal /\ allow = NoAllowance
      /\ bal \in Ledgers
      /\ call.withFee => ValidFee
      /\ UNCHANGED <<allow, venues, fb, paused, call, venue, got, fee,
                    committed, frame, receipt, calls>>
      /\ prev' = bal'[TokenOut][Receiver]
  BY DEF Take, IInv, TypeOK, StateTypeOK, SavedLedgers, Begun,
         NoStandingApproval, ArgumentsChecked, World
<1>2. /\ call.sender \in Users /\ call.sender \in Accounts
      /\ call.amountIn \in Nat
      /\ TokenIn \in Tokens /\ TokenOut \in Tokens
      /\ TokenIn # ETH /\ TokenOut # ETH
      /\ call.tokenIn = ETH => TokenIn = WETH
      /\ Receiver \in Accounts
      /\ ETH \in Tokens /\ WETH \in Tokens /\ Router \in Accounts
  BY <1>1, CallFacts DEF Tokens, Accounts
<1>3. call.tokenIn = ETH => call.amountIn <= bal[ETH][call.sender]
  BY <1>1 DEF Takeable, IInv, ArgumentsChecked, Begun
<1>4. bal' = IF call.tokenIn = ETH THEN Wrap(bal, call.sender, call.amountIn)
             ELSE bal
  BY DEF Take
<1>5. /\ bal' \in Ledgers
      /\ \A s \in Tokens, a \in Accounts :
            /\ bal[s][a] \in Nat
            /\ bal'[s][a] \in Nat
            /\ bal'[s][a] = bal[s][a]
                  - (IF call.tokenIn = ETH /\ s = ETH /\ a = call.sender
                     THEN call.amountIn ELSE 0)
                  + (IF call.tokenIn = ETH /\ s = WETH /\ a = Router
                     THEN call.amountIn ELSE 0)
  <2>1. CASE call.tokenIn = ETH
    <3>1. bal' = Move(bal, ETH, call.sender, call.amountIn, WETH, Router,
                      call.amountIn)
      BY <1>4, <2>1 DEF Wrap
    <3>2. call.amountIn <= bal[ETH][call.sender]
      BY <1>3, <2>1
    <3>3. Moved(bal, bal', ETH, call.sender, call.amountIn, WETH, Router,
                call.amountIn)
      BY <1>1, <1>2, <3>1, <3>2, MoveEffect
    <3> QED BY <2>1, <3>3 DEF Moved
  <2>2. CASE call.tokenIn # ETH
    BY <1>1, <1>4, <2>2, BalanceNat
  <2> QED BY <2>1, <2>2
<1>6. prev' = committed.bal[TokenOut][Receiver] /\ prev' \in Nat
  BY <1>1, <1>2, <1>5 DEF Takeable
<1>7. TypeOK'
  BY <1>1, <1>5, <1>6 DEF IInv, TypeOK, StateTypeOK, Phases
<1>8. ArgumentsChecked' /\ Measured'
  BY <1>1, <1>6
     DEF ArgumentsChecked, Measured, Begun, Taken, ValidFee, Takeable,
         TokenIn, TokenOut, Receiver
<1>9. SavedLedgers'
  BY <1>1, <1>4 DEF SavedLedgers, Begun, Clean, World
<1>10. EtherKept' /\ OnlyInputIsSpent'
  <2>1. Router \notin Users /\ WETH # ETH
    BY DistinctNames
  <2>2. \A s \in Tokens, a \in Users \cup Makers \cup Fallbacks :
           bal'[s][a] + (IF call.tokenIn = ETH /\ a = call.sender
                            /\ s = call.tokenIn
                         THEN call.amountIn ELSE 0) >= committed.bal[s][a]
    BY <1>1, <1>2, <1>5, DistinctNames DEF Accounts, Listable
  <2>3. OnlyInputIsSpent'
    BY <1>1, <1>2, <2>2 DEF OnlyInputIsSpent, Paid
  <2>4. bal'[ETH][Router] >= committed.bal[ETH][Router]
    BY <1>1, <1>2, <1>5, <2>1
  <2> QED BY <1>1, <2>3, <2>4 DEF EtherKept
<1> QED
  BY <1>1, <1>7, <1>8, <1>9, <1>10
     DEF IInv, FallbackInUse, NoStandingApproval, MinimumDelivered
(***************************************************************************)
(* The venue attempt                                                       *)
(***************************************************************************)
\* What every step of a call that has begun can rely on.
LEMMA Context ==
    ASSUME IInv, pc \notin {"idle", "enter", "select"}
    PROVE  /\ call \in Calls /\ venue \in Listable /\ venue \in Accounts
           /\ call.withFee => ValidFee
           /\ fb \in Fallbacks /\ fb \in Accounts /\ fb \in Listable
           /\ bal \in Ledgers /\ committed.bal \in Ledgers
           /\ allow \in Approvals
           /\ prev \in Nat /\ got \in Nat
           /\ call.sender \in Users /\ call.sender \in Accounts
           /\ call.amountIn \in Nat /\ call.amountOutMin \in Nat
           /\ call.tokenIn \in Tokens /\ call.tokenOut \in Tokens
           /\ TokenIn \in Tokens /\ TokenOut \in Tokens
           /\ TokenIn # ETH /\ TokenOut # ETH
           /\ call.tokenIn # ETH => TokenIn = call.tokenIn
           /\ call.tokenIn = ETH => TokenIn = WETH
           /\ call.tokenOut # ETH => TokenOut = call.tokenOut
           /\ call.tokenOut = ETH => TokenOut = WETH
           /\ Payer \in Accounts
           /\ Receiver \in Users \cup {Router} /\ Receiver \in Accounts
           /\ call.recipient \in Users \cup {Router}
           /\ call.recipient \in Accounts
           /\ ETH \in Tokens /\ WETH \in Tokens /\ Router \in Accounts
           /\ WETH # ETH /\ Router \notin Users /\ Router \notin Listable
           /\ Users \cap Listable = {}
           /\ Users \subseteq Accounts /\ Listable \subseteq Accounts
<1>1. /\ call \in Calls /\ venue \in Listable
      /\ call.withFee => ValidFee
      /\ fb \in Fallbacks
      /\ bal \in Ledgers /\ committed.bal \in Ledgers
      /\ allow \in Approvals
      /\ prev \in Nat /\ got \in Nat
  BY DEF IInv, TypeOK, StateTypeOK, ArgumentsChecked
<1>2. fb \in Accounts /\ fb \in Listable /\ venue \in Accounts
  BY <1>1 DEF Accounts, Listable
<1>3. /\ ETH \in Tokens /\ WETH \in Tokens /\ Router \in Accounts
      /\ WETH # ETH /\ Router \notin Users /\ Router \notin Listable
      /\ Users \cap Listable = {}
      /\ Users \subseteq Accounts /\ Listable \subseteq Accounts
  BY DistinctNames DEF Tokens, Accounts, Listable
<1> QED BY <1>1, <1>2, <1>3, CallFacts

LEMMA PushPreserves == ASSUME IInv, Push PROVE IInv'
<1>1. /\ pc = "dispatch" /\ pc' = "venue"
      /\ CanPush /\ Clean(World) /\ frame' = World
      /\ bal' = Transfer(bal, TokenIn, Payer, venue, call.amountIn)
      /\ UNCHANGED <<allow, venues, fb, paused, call, venue, prev, got, fee,
                    committed, receipt, calls>>
  BY DEF Push, IInv, SavedLedgers
<1>2. Moved(bal, bal', TokenIn, Payer, call.amountIn, TokenIn, venue,
            Credited(TokenIn, call.amountIn))
      /\ Credited(TokenIn, call.amountIn) \in Nat
  BY <1>1, Context, TransferEffect DEF CanPush
<1>3. TypeOK'
  <2>1. bal' \in Ledgers /\ World \in [bal : Ledgers, allow : Approvals]
    BY <1>1, <1>2, Context DEF Moved, World
  <2> QED BY <1>1, <2>1 DEF IInv, TypeOK, StateTypeOK, Phases
<1>4. SavedLedgers'
  BY <1>1 DEF IInv, SavedLedgers, Begun, Clean
<1>5. EtherKept'
  <2>1. bal'[ETH][Router] = bal[ETH][Router] /\ bal[ETH][Router] \in Nat
    BY <1>1, <1>2, Context DEF Moved
  <2> QED BY <1>1, <2>1 DEF IInv, EtherKept
<1>6. OnlyInputIsSpent'
  <2> SUFFICES ASSUME NEW t \in Tokens,
                      NEW a \in Users \cup Makers \cup Fallbacks, a # venue
               PROVE  bal'[t][a] + (IF a = call.sender /\ t = call.tokenIn
                                    THEN call.amountIn ELSE 0)
                         >= committed.bal[t][a]
    BY <1>1 DEF OnlyInputIsSpent, Paid
  <2>1. /\ a \in Accounts /\ a # Router
        /\ bal[t][a] \in Nat /\ bal'[t][a] \in Nat
        /\ committed.bal[t][a] \in Nat
    BY <1>1, <1>2, Context, BalanceNat DEF Moved, Accounts, Listable
  <2>2. bal[t][a] + (IF call.tokenIn = ETH /\ a = call.sender
                        /\ t = call.tokenIn
                     THEN call.amountIn ELSE 0) >= committed.bal[t][a]
    BY <1>1, <2>1, Context DEF IInv, OnlyInputIsSpent, Paid
  <2>3. bal'[t][a] = bal[t][a] - (IF t = TokenIn /\ a = Payer
                                  THEN call.amountIn ELSE 0)
    <3>1. call.amountIn \in Nat
      BY <1>1, Context
    <3> QED BY <1>2, <2>1, <3>1 DEF Moved
  <2> QED BY <1>1, <2>1, <2>2, <2>3, Context DEF Payer
<1> QED
  BY <1>1, <1>3, <1>4, <1>5, <1>6
     DEF IInv, ArgumentsChecked, Measured, FallbackInUse, NoStandingApproval,
         MinimumDelivered, Begun, Taken, ValidFee, TokenIn, TokenOut, Receiver

LEMMA PushFailsPreserves == ASSUME IInv, PushFails PROVE IInv'
<1>1. /\ pc = "dispatch" /\ pc' = "fallback"
      /\ UNCHANGED <<bal, allow, venues, fb, paused, call, venue, prev, got,
                    fee, committed, frame, receipt, calls>>
  BY DEF PushFails, stateVars
<1>2. TypeOK'
  BY <1>1 DEF IInv, TypeOK, StateTypeOK, Phases
<1>3. OnlyInputIsSpent'
  BY <1>1 DEF IInv, OnlyInputIsSpent, Paid
<1>4. SavedLedgers'
  BY <1>1 DEF IInv, SavedLedgers, Begun, Clean, World
<1> QED
  BY <1>1, <1>2, <1>3, <1>4
     DEF IInv, ArgumentsChecked, Measured, FallbackInUse, NoStandingApproval,
         MinimumDelivered, EtherKept, Begun, Taken, ValidFee, TokenIn,
         TokenOut, Receiver

LEMMA VenuePaysPreserves ==
    ASSUME IInv, NEW t \in Tokens, NEW to \in Payees, NEW x \in Nat,
           VenuePays(t, to, x)
    PROVE  IInv'
<1>1. /\ pc = "venue" /\ pc' = pc
      /\ venue \in Makers /\ x <= bal[t][venue]
      /\ bal' = Transfer(bal, t, venue, to, x)
      /\ UNCHANGED <<allow, venues, fb, paused, call, venue, prev, got, fee,
                    committed, frame, receipt, calls>>
  BY DEF VenuePays, swapVars
<1>2. to \in Accounts
  BY PayeesAreAccounts
<1>3. Moved(bal, bal', t, venue, x, t, to, Credited(t, x))
      /\ Credited(t, x) \in Nat
  BY <1>1, <1>2, Context, TransferEffect
<1>4. TypeOK'
  BY <1>1, <1>3 DEF IInv, TypeOK, StateTypeOK, Phases, Moved
<1>5. \A s \in Tokens, a \in Accounts :
         /\ bal[s][a] \in Nat /\ bal'[s][a] \in Nat
         /\ a # venue => bal'[s][a] >= bal[s][a]
  BY <1>3 DEF Moved
<1>6. EtherKept'
  <2>1. /\ bal[ETH][Router] \in Nat /\ bal'[ETH][Router] \in Nat
        /\ committed.bal[ETH][Router] \in Nat
        /\ bal'[ETH][Router] >= bal[ETH][Router]
    BY <1>1, <1>5, Context, BalanceNat
  <2> QED BY <1>1, <2>1 DEF IInv, EtherKept
<1>7. OnlyInputIsSpent'
  <2> SUFFICES ASSUME NEW s \in Tokens,
                      NEW a \in Users \cup Makers \cup Fallbacks, a # venue
               PROVE  bal'[s][a] + (IF a = call.sender /\ s = call.tokenIn
                                    THEN call.amountIn ELSE 0)
                         >= committed.bal[s][a]
    BY <1>1 DEF OnlyInputIsSpent, Paid
  <2>1. /\ a \in Accounts
        /\ bal[s][a] \in Nat /\ bal'[s][a] \in Nat
        /\ committed.bal[s][a] \in Nat
        /\ bal'[s][a] >= bal[s][a]
    BY <1>1, <1>5, Context, BalanceNat DEF Accounts
  <2>2. bal[s][a] + (IF a = call.sender /\ s = call.tokenIn
                     THEN call.amountIn ELSE 0) >= committed.bal[s][a]
    BY <1>1 DEF IInv, OnlyInputIsSpent, Paid
  <2> QED BY <1>1, <2>1, <2>2, Context
<1>8. SavedLedgers'
  BY <1>1 DEF IInv, SavedLedgers, Begun, Clean
<1> QED
  BY <1>1, <1>4, <1>6, <1>7, <1>8
     DEF IInv, ArgumentsChecked, Measured, FallbackInUse, NoStandingApproval,
         MinimumDelivered, Begun, Taken, ValidFee, TokenIn, TokenOut, Receiver
LEMMA VenueFillsPreserves == ASSUME IInv, VenueFills PROVE IInv'
<1>1. /\ pc = "venue" /\ pc' = "deliver"
      /\ Delta >= MinOut /\ Delta >= 0 /\ got' = Delta
      /\ UNCHANGED <<bal, allow, venues, fb, paused, call, venue, prev, fee,
                    committed, frame, receipt, calls>>
  BY DEF VenueFills, stateVars
<1>2. got' \in Nat /\ got' >= MinOut /\ Delta' = got'
  <2>1. bal[TokenOut][Receiver] \in Nat /\ prev \in Nat
    BY <1>1, Context, BalanceNat
  <2> QED BY <1>1, <2>1 DEF Delta, TokenOut, Receiver
<1>3. TypeOK'
  BY <1>1, <1>2 DEF IInv, TypeOK, StateTypeOK, Phases
<1>4. Measured'
  BY <1>1, <1>2
     DEF IInv, Measured, Taken, TokenOut, Receiver, MinOut
<1>5. OnlyInputIsSpent'
  BY <1>1 DEF IInv, OnlyInputIsSpent, Paid
<1>6. SavedLedgers'
  BY <1>1 DEF IInv, SavedLedgers, Begun
<1> QED
  BY <1>1, <1>3, <1>4, <1>5, <1>6
     DEF IInv, ArgumentsChecked, FallbackInUse, NoStandingApproval,
         MinimumDelivered, EtherKept, Begun, Taken, ValidFee, TokenIn,
         TokenOut

\* A failed attempt leaves no trace: the frame it began with is clean.
LEMMA VenueFailsPreserves == ASSUME IInv, VenueFails PROVE IInv'
<1>1. /\ pc = "venue" /\ pc' = "fallback"
      /\ bal' = frame.bal /\ allow' = frame.allow
      /\ Clean(frame) /\ committed.allow = NoAllowance
      /\ UNCHANGED <<venues, fb, paused, call, venue, prev, got, fee,
                    committed, frame, receipt, calls>>
  BY DEF VenueFails, IInv, SavedLedgers
<1>2. TypeOK'
  BY <1>1 DEF IInv, TypeOK, StateTypeOK, Phases
<1>3. SavedLedgers'
  BY <1>1 DEF IInv, SavedLedgers, Begun, Clean, World
<1>4. allow' = NoAllowance
  BY <1>1 DEF Clean
<1>5. bal' = IF call.tokenIn = ETH
             THEN [s \in Tokens |-> [a \in Accounts |->
                     committed.bal[s][a]
                       - (IF s = ETH /\ a = call.sender
                          THEN call.amountIn ELSE 0)
                       + (IF s = WETH /\ a = Router
                          THEN call.amountIn ELSE 0)]]
             ELSE committed.bal
  BY <1>1 DEF Clean, Wrap, Move
<1>6. \A s \in Tokens, a \in Accounts :
         /\ committed.bal[s][a] \in Nat
         /\ ~(call.tokenIn = ETH /\ s = ETH /\ a = call.sender) =>
               bal'[s][a] >= committed.bal[s][a]
         /\ call.tokenIn = ETH /\ s = ETH /\ a = call.sender =>
               bal'[s][a] + call.amountIn >= committed.bal[s][a]
  <2> TAKE s \in Tokens, a \in Accounts
  <2>1. committed.bal[s][a] \in Nat /\ call.amountIn \in Nat
    BY <1>1, Context, BalanceNat
  <2>2. WETH # ETH
    BY <1>1, Context
  <2>3. CASE call.tokenIn = ETH
    BY <1>5, <2>1, <2>2, <2>3
  <2>4. CASE call.tokenIn # ETH
    BY <1>5, <2>1, <2>4
  <2> QED BY <2>1, <2>3, <2>4
<1>7. EtherKept'
  <2>1. Router # call.sender
    BY <1>1, Context
  <2> QED BY <1>1, <1>6, <2>1, Context DEF EtherKept
<1>8. OnlyInputIsSpent'
  <2> SUFFICES ASSUME NEW s \in Tokens,
                      NEW a \in Users \cup Makers \cup Fallbacks
               PROVE  bal'[s][a] + (IF /\ call.tokenIn = ETH
                                       /\ a = call.sender
                                       /\ s = call.tokenIn
                                    THEN call.amountIn ELSE 0)
                         >= committed.bal[s][a]
    BY <1>1 DEF OnlyInputIsSpent, Paid
  <2>1. a \in Accounts
    BY DEF Accounts
  <2>2. bal'[s][a] \in Nat
    BY <1>2, <2>1, BalanceNat DEF TypeOK, StateTypeOK
  <2> QED BY <1>6, <2>1, <2>2
<1> QED
  BY <1>1, <1>2, <1>3, <1>4, <1>7, <1>8
     DEF IInv, ArgumentsChecked, Measured, FallbackInUse, NoStandingApproval,
         MinimumDelivered, Begun, Taken, ValidFee, TokenIn, TokenOut, Receiver
(***************************************************************************)
(* The fallback                                                            *)
(***************************************************************************)
LEMMA FallbackPullsPreserves == ASSUME IInv, FallbackPulls PROVE IInv'
<1>1. /\ pc = "fallback" /\ pc' = "uniswap"
      /\ CanPull /\ venue' = fb
      /\ bal' = IF call.tokenIn = ETH THEN bal
                ELSE Transfer(bal, TokenIn, call.sender, Router, call.amountIn)
      /\ allow' = Approve(TokenIn, fb, call.amountIn)
      /\ allow = NoAllowance
      /\ UNCHANGED <<venues, fb, paused, call, prev, got, fee, committed, frame,
                    receipt, calls>>
  BY DEF FallbackPulls, IInv, NoStandingApproval
<1>2. \/ call.tokenIn = ETH /\ bal' = bal
      \/ /\ call.tokenIn # ETH
         /\ Moved(bal, bal', TokenIn, call.sender, call.amountIn, TokenIn,
                  Router, Credited(TokenIn, call.amountIn))
         /\ Credited(TokenIn, call.amountIn) \in Nat
  BY <1>1, Context, TransferEffect DEF CanPull
<1>3. \A s \in Tokens, a \in Accounts :
         /\ bal[s][a] \in Nat /\ bal'[s][a] \in Nat
         /\ \/ bal'[s][a] >= bal[s][a]
            \/ /\ call.tokenIn # ETH /\ s = TokenIn /\ a = call.sender
               /\ bal'[s][a] + call.amountIn >= bal[s][a]
  <2> TAKE s \in Tokens, a \in Accounts
  <2>1. call.amountIn \in Nat /\ bal[s][a] \in Nat
    BY <1>1, Context, BalanceNat
  <2> QED BY <1>2, <2>1 DEF Moved
<1>4. bal' \in Ledgers
  BY <1>1, <1>2, Context DEF Moved
<1>5. /\ allow' \in Approvals
      /\ \A s \in Tokens, g \in Fallbacks :
            ~(s = TokenIn /\ g = fb) => allow'[s][g] = 0
  <2>1. \A s \in Tokens, g \in Fallbacks : allow[s][g] = 0
    BY <1>1 DEF NoAllowance
  <2>2. /\ TokenIn \in Tokens /\ fb \in Fallbacks /\ call.amountIn \in Nat
        /\ allow \in Approvals
    BY <1>1, Context
  <2>3. /\ Approve(TokenIn, fb, call.amountIn) \in Approvals
        /\ \A s \in Tokens, g \in Fallbacks :
              ~(s = TokenIn /\ g = fb) =>
                 Approve(TokenIn, fb, call.amountIn)[s][g] = allow[s][g]
    BY <2>2, ApproveEffect
  <2> QED BY <1>1, <2>1, <2>3
<1>6. TypeOK'
  BY <1>1, <1>4, <1>5, Context DEF IInv, TypeOK, StateTypeOK, Phases, Listable
<1>7. FallbackInUse'
  BY <1>1, <1>5 DEF FallbackInUse, Approve, NoAllowance, TokenIn
<1>8. EtherKept'
  <2>1. bal'[ETH][Router] >= bal[ETH][Router]
    BY <1>1, <1>3, Context
  <2>2. /\ bal'[ETH][Router] \in Nat /\ bal[ETH][Router] \in Nat
        /\ committed.bal[ETH][Router] \in Nat
    BY <1>1, <1>3, Context, BalanceNat
  <2> QED BY <1>1, <2>1, <2>2 DEF IInv, EtherKept
<1>9. OnlyInputIsSpent'
  <2> SUFFICES ASSUME NEW s \in Tokens,
                      NEW a \in Users \cup Makers \cup Fallbacks
               PROVE  bal'[s][a] + (IF a = call.sender /\ s = call.tokenIn
                                    THEN call.amountIn ELSE 0)
                         >= committed.bal[s][a]
    BY <1>1 DEF OnlyInputIsSpent, Paid
  <2>1. /\ a \in Accounts
        /\ bal[s][a] \in Nat /\ bal'[s][a] \in Nat
        /\ committed.bal[s][a] \in Nat /\ call.amountIn \in Nat
    BY <1>1, <1>3, Context, BalanceNat DEF Accounts
  <2>2. bal[s][a] + (IF call.tokenIn = ETH /\ a = call.sender
                        /\ s = call.tokenIn
                     THEN call.amountIn ELSE 0) >= committed.bal[s][a]
    BY <1>1 DEF IInv, OnlyInputIsSpent, Paid
  <2>3. \/ bal'[s][a] >= bal[s][a]
        \/ /\ call.tokenIn # ETH /\ s = call.tokenIn /\ a = call.sender
           /\ bal'[s][a] + call.amountIn >= bal[s][a]
    BY <1>1, <1>3, <2>1, Context
  <2> QED BY <2>1, <2>2, <2>3
<1>10. SavedLedgers'
  BY <1>1 DEF IInv, SavedLedgers, Begun
<1> QED
  BY <1>1, <1>6, <1>7, <1>8, <1>9, <1>10
     DEF IInv, ArgumentsChecked, Measured, NoStandingApproval,
         MinimumDelivered, Begun, Taken, ValidFee, TokenIn, TokenOut, Receiver

LEMMA UniswapPreserves ==
    ASSUME IInv, NEW used \in Nat, NEW out \in Nat, Uniswap(used, out)
    PROVE  IInv'
<1> DEFINE mid == Transfer(bal, TokenIn, Router, fb, used)
<1>1. /\ pc = "uniswap" /\ pc' = "uniReturn"
      /\ venue = fb /\ Approve(TokenIn, fb, 0) = NoAllowance
      /\ used <= allow[TokenIn][fb] /\ used <= bal[TokenIn][Router]
      /\ out <= bal[TokenOut][fb]
      /\ bal' = Transfer(mid, TokenOut, fb, Receiver, out)
      /\ allow' = Approve(TokenIn, fb, allow[TokenIn][fb] - used)
      /\ TokenIn # TokenOut
      /\ UNCHANGED <<venues, fb, paused, call, venue, prev, got, fee, committed,
                    frame, receipt, calls>>
  BY DEF Uniswap, IInv, FallbackInUse, ArgumentsChecked, Taken
<1>2. Moved(bal, mid, TokenIn, Router, used, TokenIn, fb,
            Credited(TokenIn, used))
      /\ Credited(TokenIn, used) \in Nat
  BY <1>1, Context, TransferEffect
<1>3. mid \in Ledgers /\ out <= mid[TokenOut][fb]
  BY <1>1, <1>2, Context DEF Moved
<1>4. Moved(mid, bal', TokenOut, fb, out, TokenOut, Receiver,
            Credited(TokenOut, out))
      /\ Credited(TokenOut, out) \in Nat
  <2> HIDE DEF mid
  <2> QED BY <1>1, <1>3, Context, TransferEffect
<1>5. \A s \in Tokens, a \in Accounts :
         /\ bal[s][a] \in Nat /\ bal'[s][a] \in Nat
         /\ a # fb /\ (s = TokenIn => a # Router) => bal'[s][a] >= bal[s][a]
  <2> HIDE DEF mid
  <2> QED BY <1>2, <1>4 DEF Moved
<1>6. allow' \in Approvals /\ Approve(TokenIn, fb, 0)' = NoAllowance
  <2>1. allow[TokenIn][fb] - used \in Nat
    BY <1>1, Context DEF Approvals
  <2>2. allow' \in Approvals
    BY <1>1, <2>1, Context, ApproveEffect
  <2>3. \A s \in Tokens, g \in Fallbacks :
           ~(s = TokenIn /\ g = fb) => allow'[s][g] = 0
    <3>1. \A s \in Tokens, g \in Fallbacks :
             ~(s = TokenIn /\ g = fb) => allow[s][g] = 0
      BY <1>1, Context DEF Approve, NoAllowance
    <3> QED BY <1>1, <3>1 DEF Approve
  <2> QED BY <1>1, <2>2, <2>3 DEF Approve, NoAllowance, TokenIn
<1>7. TypeOK'
  <2>1. bal' \in Ledgers
    <3> HIDE DEF mid
    <3> QED BY <1>4 DEF Moved
  <2> QED BY <1>1, <1>6, <2>1 DEF IInv, TypeOK, StateTypeOK, Phases
<1>8. EtherKept'
  <2>1. /\ bal'[ETH][Router] >= bal[ETH][Router]
        /\ bal'[ETH][Router] \in Nat /\ bal[ETH][Router] \in Nat
        /\ committed.bal[ETH][Router] \in Nat
    BY <1>1, <1>5, Context, BalanceNat
  <2> QED BY <1>1, <2>1 DEF IInv, EtherKept
<1>9. OnlyInputIsSpent'
  <2> SUFFICES ASSUME NEW s \in Tokens,
                      NEW a \in Users \cup Makers \cup Fallbacks, a # venue
               PROVE  bal'[s][a] + (IF a = call.sender /\ s = call.tokenIn
                                    THEN call.amountIn ELSE 0)
                         >= committed.bal[s][a]
    BY <1>1 DEF OnlyInputIsSpent, Paid
  <2>1. /\ a \in Accounts /\ a # Router /\ call.amountIn \in Nat
        /\ bal[s][a] \in Nat /\ bal'[s][a] \in Nat
        /\ committed.bal[s][a] \in Nat
    BY <1>1, <1>5, Context, BalanceNat DEF Accounts, Listable
  <2>2. bal[s][a] + (IF a = call.sender /\ s = call.tokenIn
                     THEN call.amountIn ELSE 0) >= committed.bal[s][a]
    BY <1>1 DEF IInv, OnlyInputIsSpent, Paid
  <2>3. bal'[s][a] >= bal[s][a]
    BY <1>1, <1>5, <2>1
  <2> QED BY <2>1, <2>2, <2>3
<1>10. SavedLedgers'
  BY <1>1 DEF IInv, SavedLedgers, Begun
<1>11. FallbackInUse'
  BY <1>1, <1>6 DEF FallbackInUse
<1> QED
  BY <1>1, <1>7, <1>8, <1>9, <1>10, <1>11
     DEF IInv, ArgumentsChecked, Measured, NoStandingApproval,
         MinimumDelivered, Begun, Taken, ValidFee, TokenIn, TokenOut, Receiver

LEMMA UniswapReturnsPreserves == ASSUME IInv, UniswapReturns PROVE IInv'
<1>1. /\ pc = "uniReturn" /\ pc' = "deliver"
      /\ Delta >= MinOut /\ Delta >= 0 /\ got' = Delta
      /\ allow' = NoAllowance
      /\ UNCHANGED <<bal, venues, fb, paused, call, venue, prev, fee, committed,
                    frame, receipt, calls>>
  BY DEF UniswapReturns, IInv, FallbackInUse
<1>2. got' \in Nat /\ got' >= MinOut /\ Delta' = got'
  <2>1. bal[TokenOut][Receiver] \in Nat /\ prev \in Nat
    BY <1>1, Context, BalanceNat
  <2> QED BY <1>1, <2>1 DEF Delta, TokenOut, Receiver
<1>3. TypeOK'
  BY <1>1, <1>2, NoAllowanceType DEF IInv, TypeOK, StateTypeOK, Phases
<1>4. Measured'
  BY <1>1, <1>2 DEF IInv, Measured, Taken, TokenOut, Receiver, MinOut
<1>5. OnlyInputIsSpent'
  BY <1>1 DEF IInv, OnlyInputIsSpent, Paid
<1>6. SavedLedgers'
  BY <1>1 DEF IInv, SavedLedgers, Begun
<1> QED
  BY <1>1, <1>3, <1>4, <1>5, <1>6
     DEF IInv, ArgumentsChecked, FallbackInUse, NoStandingApproval,
         MinimumDelivered, EtherKept, Begun, Taken, ValidFee, TokenIn,
         TokenOut

(***************************************************************************)
(* Delivery                                                                *)
(***************************************************************************)
\* A user other than the sender of the token has not lost any of it.
LEMMA RecipientKeeps ==
    ASSUME IInv, pc \in {"deliver", "disburse"}, TokenIn # TokenOut,
           NEW a \in Users
    PROVE  bal[call.tokenOut][a] >= committed.bal[call.tokenOut][a]
<1>1. call.tokenIn # call.tokenOut
  BY DEF TokenIn, TokenOut
<1>2. a # venue /\ a \in Accounts /\ call.tokenOut \in Tokens
  BY Context
<1>3. bal[call.tokenOut][a] \in Nat
  BY <1>2, Context, BalanceNat
<1> QED BY <1>1, <1>2, <1>3 DEF IInv, OnlyInputIsSpent

\* Unwrapping takes WETH off the router and nothing else from anyone, and
\* whoever is to hold the output next holds all of it.
LEMMA DeliverEffect ==
    ASSUME IInv, Deliver
    PROVE  /\ bal' \in Ledgers
           /\ \A s \in Tokens, a \in Accounts :
                 /\ bal[s][a] \in Nat /\ bal'[s][a] \in Nat
                 /\ ~(s = WETH /\ a = Router) => bal'[s][a] >= bal[s][a]
           /\ bal'[call.tokenOut][UnwrapTo]
                 >= committed.bal[call.tokenOut][UnwrapTo] + got
<1> DEFINE out == call.tokenOut
<1>1. /\ pc = "deliver" /\ TokenIn # TokenOut
      /\ prev = committed.bal[TokenOut][Receiver]
      /\ bal[TokenOut][Receiver] - prev = got
  BY DEF Deliver, IInv, Measured, ArgumentsChecked, Taken, Delta
<1>2. /\ Arguments /\ bal \in Ledgers /\ got \in Nat /\ prev \in Nat
      /\ TokenOut \in Tokens /\ Receiver \in Accounts
      /\ WETH \in Tokens /\ ETH \in Tokens /\ WETH # ETH
      /\ Router \in Accounts
      /\ out \in Tokens
      /\ out = ETH => TokenOut = WETH /\ Receiver = Router
      /\ out # ETH => TokenOut = out /\ Receiver = UnwrapTo
  BY <1>1, Context, CallFacts DEF Receiver, UnwrapTo
<1>3. \A s \in Tokens, a \in Accounts : committed.bal[s][a] \in Nat
  BY <1>1, Context, BalanceNat
<1>4. bal[TokenOut][Receiver] \in Nat /\ bal[TokenOut][Receiver] = prev + got
  BY <1>1, <1>2, BalanceNat
<1>5. out = ETH => got <= bal[WETH][Router]
  BY <1>2, <1>4
<1>6. /\ bal' \in Ledgers
      /\ UnwrapTo \in Users \cup {Router} /\ UnwrapTo \in Accounts
      /\ \A s \in Tokens, a \in Accounts :
            /\ bal[s][a] \in Nat /\ bal'[s][a] \in Nat
            /\ bal'[s][a] = bal[s][a]
                  - (IF out = ETH /\ s = WETH /\ a = Router THEN got ELSE 0)
                  + (IF out = ETH /\ s = ETH /\ a = UnwrapTo THEN got ELSE 0)
  BY <1>2, <1>5, DeliverMoves
<1> HIDE DEF out
<1>7. \A s \in Tokens, a \in Accounts :
         ~(s = WETH /\ a = Router) => bal'[s][a] >= bal[s][a]
  BY <1>2, <1>6
<1>8. bal'[out][UnwrapTo] >= committed.bal[out][UnwrapTo] + got
  <2>1. CASE out = ETH
    <3>1. bal[ETH][UnwrapTo] >= committed.bal[ETH][UnwrapTo]
      <4>1. CASE UnwrapTo = Router
        BY <1>1, <4>1 DEF IInv, EtherKept
      <4>2. CASE UnwrapTo \in Users
        BY <1>1, <2>1, <4>2, RecipientKeeps DEF out
      <4> QED BY <1>6, <4>1, <4>2
    <3> QED BY <1>2, <1>3, <1>6, <2>1, <3>1
  <2>2. CASE out # ETH
    BY <1>1, <1>2, <1>3, <1>4, <1>6, <2>2
  <2> QED BY <2>1, <2>2
<1> QED BY <1>6, <1>7, <1>8 DEF out

LEMMA DeliverPreserves == ASSUME IInv, Deliver PROVE IInv'
<1>1. /\ pc = "deliver" /\ pc' = IF call.withFee THEN "disburse" ELSE "done"
      /\ got >= MinOut
      /\ TokenIn # TokenOut
      /\ UNCHANGED <<allow, venues, fb, paused, call, venue, prev, got, fee,
                    committed, frame, receipt, calls>>
  BY DEF Deliver, IInv, Measured, ArgumentsChecked, Taken
<1>2. call.withFee \in BOOLEAN
  BY <1>1, Context, CallFacts
<1>3. TypeOK'
  BY <1>1, <1>2, DeliverEffect DEF IInv, TypeOK, StateTypeOK, Phases
<1>4. ArgumentsChecked'
  BY <1>1, <1>2
     DEF IInv, ArgumentsChecked, Begun, Taken, ValidFee, TokenIn, TokenOut
<1>5. Measured'
  <2>1. prev = committed.bal[TokenOut][Receiver]
    BY <1>1 DEF IInv, Measured, Taken
  <2>2. call.withFee => UnwrapTo = Router
    BY DEF UnwrapTo
  <2> QED
    BY <1>1, <1>2, <2>1, <2>2, DeliverEffect
       DEF Measured, Taken, TokenOut, Receiver, MinOut
<1>6. EtherKept'
  <2>1. /\ bal'[ETH][Router] >= bal[ETH][Router]
        /\ bal'[ETH][Router] \in Nat /\ bal[ETH][Router] \in Nat
        /\ committed.bal[ETH][Router] \in Nat
    BY <1>1, Context, DeliverEffect, BalanceNat
  <2> QED BY <1>1, <2>1 DEF IInv, EtherKept
<1>7. OnlyInputIsSpent'
  <2> SUFFICES ASSUME NEW s \in Tokens,
                      NEW a \in Users \cup Makers \cup Fallbacks, a # venue
               PROVE  bal'[s][a] + (IF a = call.sender /\ s = call.tokenIn
                                    THEN call.amountIn ELSE 0)
                         >= committed.bal[s][a]
    BY <1>1, <1>2 DEF OnlyInputIsSpent, Paid
  <2>1. a # Router /\ a \in Accounts /\ call.amountIn \in Nat
    BY <1>1, Context DEF Accounts, Listable
  <2>2. /\ bal[s][a] \in Nat /\ bal'[s][a] \in Nat
        /\ bal'[s][a] >= bal[s][a]
    BY <2>1, DeliverEffect
  <2>3. committed.bal[s][a] \in Nat
    BY <1>1, <2>1, Context, BalanceNat
  <2>4. bal[s][a] + (IF a = call.sender /\ s = call.tokenIn
                     THEN call.amountIn ELSE 0) >= committed.bal[s][a]
    BY <1>1 DEF IInv, OnlyInputIsSpent, Paid
  <2> QED BY <2>1, <2>2, <2>3, <2>4
<1>8. MinimumDelivered'
  <2>1. CASE ~call.withFee
    <3>1. UnwrapTo = call.recipient /\ got >= call.amountOutMin
      BY <1>1, <2>1 DEF UnwrapTo, MinOut
    <3> QED BY <1>1, <3>1, DeliverEffect DEF MinimumDelivered
  <2>2. CASE call.withFee
    BY <1>1, <2>2 DEF MinimumDelivered
  <2> QED BY <1>2, <2>1, <2>2
<1>9. SavedLedgers'
  BY <1>1, <1>2 DEF IInv, SavedLedgers, Begun
<1>10. NoStandingApproval' /\ FallbackInUse'
  BY <1>1, <1>2 DEF IInv, NoStandingApproval, FallbackInUse
<1> QED
  BY <1>3, <1>4, <1>5, <1>6, <1>7, <1>8, <1>9, <1>10 DEF IInv

\* Paying the fee and the net takes the output token off the router and
\* nothing else from anyone, and the recipient gains what is reported.
LEMMA DisburseEffect ==
    ASSUME IInv, Disburse
    PROVE  /\ bal' \in Ledgers
           /\ FeeDue \in Nat /\ Received \in Nat
           /\ \A s \in Tokens, a \in Accounts :
                 /\ bal[s][a] \in Nat /\ bal'[s][a] \in Nat
                 /\ a # Router \/ s # call.tokenOut => bal'[s][a] >= bal[s][a]
           /\ bal'[call.tokenOut][Router] >= committed.bal[call.tokenOut][Router]
           /\ bal'[ETH][Router] >= committed.bal[ETH][Router]
           /\ bal'[call.tokenOut][call.recipient]
                 >= committed.bal[call.tokenOut][call.recipient] + Received
           /\ call.feeTo # call.recipient =>
                 bal'[call.tokenOut][call.feeTo] + TransferTax[call.tokenOut]
                    >= committed.bal[call.tokenOut][call.feeTo] + FeeDue
<1> DEFINE out == call.tokenOut
           r == call.recipient
<1>1. /\ pc = "disburse" /\ ValidFee
      /\ TokenIn # TokenOut
      /\ bal[out][Router] >= committed.bal[out][Router] + got
  BY DEF Disburse, IInv, Measured, ArgumentsChecked, Taken
<1>2. /\ Arguments /\ bal \in Ledgers /\ got \in Nat
      /\ out \in Tokens /\ r \in Accounts /\ r \in Users \cup {Router}
      /\ Router \in Accounts /\ ETH \in Tokens
  BY <1>1, Context, CallFacts
<1>3. \A s \in Tokens, a \in Accounts : committed.bal[s][a] \in Nat
  BY <1>1, Context, BalanceNat
<1>4. got <= bal[out][Router]
  BY <1>1, <1>2, <1>3, BalanceNat
<1>5. /\ bal' \in Ledgers
      /\ FeeDue \in Nat /\ Received \in Nat
      /\ \A s \in Tokens, a \in Accounts :
            /\ bal[s][a] \in Nat /\ bal'[s][a] \in Nat
            /\ a # Router \/ s # out => bal'[s][a] >= bal[s][a]
      /\ bal'[out][Router] >= bal[out][Router] - got
      /\ bal'[out][r] >= bal[out][r] + Received
                            - (IF r = Router THEN got ELSE 0)
      /\ call.feeTo # r =>
            bal'[out][call.feeTo] + TransferTax[out]
               >= bal[out][call.feeTo] + FeeDue
                     - (IF call.feeTo = Router THEN got ELSE 0)
  BY <1>1, <1>2, <1>4, DisburseMoves
<1>6. bal[out][r] >= committed.bal[out][r] + (IF r = Router THEN got ELSE 0)
  <2>1. CASE r = Router
    BY <1>1, <2>1
  <2>2. CASE r # Router
    <3>1. r \in Users
      BY <1>2, <2>2
    <3> QED BY <1>1, <1>2, <1>3, <2>2, <3>1, RecipientKeeps
  <2> QED BY <2>1, <2>2
<1> HIDE DEF out, r
<1>7. bal'[out][Router] >= committed.bal[out][Router]
  BY <1>1, <1>2, <1>3, <1>5
<1>8. bal'[ETH][Router] >= committed.bal[ETH][Router]
  <2>1. bal[ETH][Router] >= committed.bal[ETH][Router]
    BY <1>1 DEF IInv, EtherKept
  <2>2. CASE out # ETH
    <3>1. bal'[ETH][Router] >= bal[ETH][Router]
      BY <1>2, <1>5, <2>2
    <3> QED BY <1>2, <1>3, <1>5, <2>1, <3>1
  <2>3. CASE out = ETH
    BY <1>7, <2>3
  <2> QED BY <2>2, <2>3
<1>9. bal'[out][r] >= committed.bal[out][r] + Received
  BY <1>2, <1>3, <1>5, <1>6
<1>10. call.feeTo # r =>
          bal'[out][call.feeTo] + TransferTax[out]
             >= committed.bal[out][call.feeTo] + FeeDue
  <2> DEFINE f == call.feeTo
  <2> SUFFICES ASSUME f # r
               PROVE  bal'[out][f] + TransferTax[out] >= committed.bal[out][f] + FeeDue
    OBVIOUS
  <2>1. f \in Users \cup {Router} /\ f \in Accounts
    BY <1>1, <1>2 DEF ValidFee, Arguments, Accounts
  <2>2. bal[out][f] >= committed.bal[out][f] + (IF f = Router THEN got ELSE 0)
    <3>1. CASE f = Router
      BY <1>1, <3>1
    <3>2. CASE f # Router
      BY <1>1, <1>2, <1>3, <2>1, <3>2, RecipientKeeps DEF out
    <3> QED BY <3>1, <3>2
  <2>3. TransferTax[out] \in Nat
    BY <1>2, TaxedTokens
  <2>4. bal'[out][f] + TransferTax[out]
           >= bal[out][f] + FeeDue - (IF f = Router THEN got ELSE 0)
    BY <1>5
  <2> HIDE DEF f
  <2> QED BY <1>2, <1>3, <1>5, <2>1, <2>2, <2>3, <2>4
<1> QED BY <1>5, <1>7, <1>8, <1>9, <1>10 DEF out, r

LEMMA DisbursePreserves == ASSUME IInv, Disburse PROVE IInv'
<1>1. /\ pc = "disburse" /\ pc' = "done"
      /\ got' = Received /\ fee' = FeeDue
      /\ Received >= call.amountOutMin
      /\ TokenIn # TokenOut
      /\ UNCHANGED <<allow, venues, fb, paused, call, venue, prev, committed,
                    frame, receipt, calls>>
  BY DEF Disburse, Disbursable, IInv, ArgumentsChecked, Taken
<1>2. TypeOK'
  BY <1>1, DisburseEffect DEF IInv, TypeOK, StateTypeOK, Phases
<1>3. ArgumentsChecked'
  BY <1>1
     DEF IInv, ArgumentsChecked, Begun, Taken, ValidFee, TokenIn, TokenOut
<1>4. Measured'
  BY <1>1 DEF IInv, Measured, Taken, TokenOut, Receiver
<1>5. EtherKept'
  BY <1>1, DisburseEffect DEF EtherKept
<1>6. OnlyInputIsSpent'
  <2> SUFFICES ASSUME NEW s \in Tokens,
                      NEW a \in Users \cup Makers \cup Fallbacks, a # venue
               PROVE  bal'[s][a] + (IF a = call.sender /\ s = call.tokenIn
                                    THEN call.amountIn ELSE 0)
                         >= committed.bal[s][a]
    BY <1>1 DEF OnlyInputIsSpent, Paid
  <2>1. a # Router /\ a \in Accounts /\ call.amountIn \in Nat
    BY <1>1, Context DEF Accounts, Listable
  <2>2. /\ bal[s][a] \in Nat /\ bal'[s][a] \in Nat
        /\ bal'[s][a] >= bal[s][a]
    BY <2>1, DisburseEffect
  <2>3. committed.bal[s][a] \in Nat
    BY <1>1, <2>1, Context, BalanceNat
  <2>4. bal[s][a] + (IF a = call.sender /\ s = call.tokenIn
                     THEN call.amountIn ELSE 0) >= committed.bal[s][a]
    BY <1>1 DEF IInv, OnlyInputIsSpent, Paid
  <2> QED BY <2>1, <2>2, <2>3, <2>4
<1>7. MinimumDelivered'
  BY <1>1, DisburseEffect DEF MinimumDelivered
<1>8. SavedLedgers'
  BY <1>1 DEF IInv, SavedLedgers, Begun
<1>9. NoStandingApproval' /\ FallbackInUse'
  BY <1>1 DEF IInv, NoStandingApproval, FallbackInUse
<1> QED
  BY <1>2, <1>3, <1>4, <1>5, <1>6, <1>7, <1>8, <1>9 DEF IInv

(***************************************************************************)
(* Between calls                                                           *)
(***************************************************************************)
LEMMA AdministerPreserves == ASSUME IInv, Administer PROVE IInv'
<1>1. /\ pc = "idle" /\ UNCHANGED <<bal, allow, swapVars>>
      /\ committed = World /\ allow = NoAllowance
  BY DEF Administer, AddVenue, RemoveVenue, SetFallbackSwapRouter, Pause,
         Unpause, IInv, SavedLedgers, NoStandingApproval
<1>2. StateTypeOK
  BY DEF IInv, TypeOK
<1>3. venues' \in Seq(Listable)
  <2>1. CASE \E v \in Listable : AddVenue(v)
    BY <1>2, <2>1 DEF AddVenue, StateTypeOK
  <2>2. CASE \E v \in Listable : RemoveVenue(v)
    <3> PICK i \in DOMAIN venues :
             venues' = SubSeq([venues EXCEPT ![i] = venues[Len(venues)]],
                              1, Len(venues) - 1)
      BY <2>2 DEF RemoveVenue
    <3>1. venues \in Seq(Listable) /\ i \in 1 .. Len(venues)
      BY <1>2 DEF StateTypeOK
    <3> DEFINE moved == [venues EXCEPT ![i] = venues[Len(venues)]]
    <3>2. moved \in Seq(Listable) /\ Len(moved) = Len(venues)
      BY <3>1
    <3>3. \A j \in 1 .. Len(venues) - 1 : moved[j] \in Listable
      BY <3>1, <3>2
    <3> QED
      BY <3>1, <3>2, <3>3
  <2>3. CASE UNCHANGED venues
    BY <1>2, <2>3 DEF StateTypeOK
  <2> QED
    BY <2>1, <2>2, <2>3
       DEF Administer, SetFallbackSwapRouter, Pause, Unpause
<1>4. fb' \in Fallbacks /\ paused' \in BOOLEAN
  BY <1>2
     DEF StateTypeOK, Administer, AddVenue, RemoveVenue,
         SetFallbackSwapRouter, Pause, Unpause
<1>5. TypeOK'
  BY <1>1, <1>3, <1>4 DEF IInv, TypeOK, StateTypeOK, swapVars
<1>6. pc' = "idle" /\ committed' = World' /\ allow' = NoAllowance
  BY <1>1 DEF swapVars, World
<1> QED BY <1>5, <1>6, IdleIInv

LEMMA RescuePreserves ==
    ASSUME IInv, NEW t \in Tokens, NEW to \in Users, NEW x \in Nat,
           Rescue(t, to, x)
    PROVE  IInv'
<1>1. /\ pc = "idle" /\ pc' = "idle"
      /\ committed = World /\ allow = NoAllowance
      /\ x <= bal[t][Router] /\ bal' = Transfer(bal, t, Router, to, x)
      /\ committed' = [committed EXCEPT !.bal = bal'] /\ frame' = committed'
      /\ UNCHANGED <<allow, venues, fb, paused, call, venue, prev, got, fee,
                    receipt, calls>>
  BY DEF Rescue, RescueTokens, IInv, SavedLedgers, NoStandingApproval
<1>2. bal \in Ledgers /\ Router \in Accounts /\ to \in Accounts
  BY DEF IInv, TypeOK, StateTypeOK, Accounts
<1>3. bal' \in Ledgers
  BY <1>1, <1>2, TransferEffect DEF Moved
<1>4. committed' = World'
  BY <1>1 DEF World
<1>5. TypeOK'
  BY <1>1, <1>3, <1>4 DEF IInv, TypeOK, StateTypeOK, World
<1> QED BY <1>1, <1>4, <1>5, IdleIInv

LEMMA StutterPreserves == ASSUME IInv, UNCHANGED vars PROVE IInv'
<1>1. UNCHANGED <<bal, allow, venues, fb, paused, pc, call, venue, prev, got,
                  fee, committed, frame, receipt, calls>>
  BY DEF vars, stateVars, swapVars
<1>2. TypeOK' /\ ArgumentsChecked' /\ EtherKept'
  BY <1>1 DEF IInv, TypeOK, StateTypeOK, ArgumentsChecked, Begun, Taken,
              ValidFee, EtherKept, TokenIn, TokenOut
<1>3. SavedLedgers' /\ Measured'
  BY <1>1 DEF IInv, SavedLedgers, Measured, Begun, Taken, Clean, World, Delta,
              MinOut, TokenOut, Receiver
<1>4. FallbackInUse' /\ OnlyInputIsSpent' /\ NoStandingApproval'
      /\ MinimumDelivered'
  BY <1>1 DEF IInv, FallbackInUse, OnlyInputIsSpent, NoStandingApproval,
              MinimumDelivered, Paid, Approve, TokenIn
<1> QED BY <1>2, <1>3, <1>4 DEF IInv

LEMMA NextPreserves == IInv /\ [Next]_vars => IInv'
<1> SUFFICES ASSUME IInv, [Next]_vars PROVE IInv'
  OBVIOUS
<1>1. CASE \E c \in Calls : Call(c)
  BY <1>1, CallPreserves
<1>2. CASE CallStep
  <2>1. CASE Enter \/ SelectBest \/ SelectNamed
    BY <2>1, SelectingPreserves
  <2>2. CASE Take
    BY <2>2, TakePreserves
  <2>3. CASE Push \/ PushFails
    BY <2>3, PushPreserves, PushFailsPreserves
  <2>4. CASE VenueFills \/ VenueFails
    BY <2>4, VenueFillsPreserves, VenueFailsPreserves
  <2>5. CASE FallbackPulls \/ UniswapReturns
    BY <2>5, FallbackPullsPreserves, UniswapReturnsPreserves
  <2>6. CASE Deliver \/ Disburse
    BY <2>6, DeliverPreserves, DisbursePreserves
  <2>7. CASE \/ EnterFails \/ TakeFails \/ FallbackPullFails \/ UniswapReverts
             \/ UniswapFallsShort \/ DeliverFails \/ DisburseFails
    <3>1. Revert
      BY <2>7 DEF EnterFails, TakeFails, FallbackPullFails, UniswapReverts,
                  UniswapFallsShort, DeliverFails, DisburseFails
    <3> QED BY <3>1, RevertPreserves
  <2>8. CASE Commit
    BY <2>8, CommitPreserves
  <2> QED
    BY <1>2, <2>1, <2>2, <2>3, <2>4, <2>5, <2>6, <2>7, <2>8 DEF CallStep
<1>3. CASE \E t \in Tokens, to \in Payees, x \in 1 .. MaxPay :
              VenuePays(t, to, x)
  BY <1>3, VenuePaysPreserves
<1>4. CASE \E used, out \in 0 .. MaxPay : Uniswap(used, out)
  BY <1>4, UniswapPreserves
<1>5. CASE Administer
  BY <1>5, AdministerPreserves
<1>6. CASE \E t \in Tokens, to \in Users, x \in 1 .. MaxRescue :
              Rescue(t, to, x)
  BY <1>6, RescuePreserves
<1>7. CASE UNCHANGED vars
  BY <1>7, StutterPreserves
<1> QED BY <1>1, <1>2, <1>3, <1>4, <1>5, <1>6, <1>7 DEF Next

(***************************************************************************)
(* What was standing on the router                                         *)
(***************************************************************************)
\* With RouterKeepsItsOwn, why Uniswap cannot pull more than the input.
StandingKept ==
    /\ RouterKeepsItsOwn
    /\ pc = "uniswap" => allow[TokenIn][fb] = call.amountIn

\* Balances of the router, as numbers.
LEMMA RouterBalances ==
    ASSUME IInv, NEW t \in Tokens
    PROVE  /\ bal[t][Router] \in Nat /\ committed.bal[t][Router] \in Nat
           /\ Withheld(t) \in Nat
<1>1. Router \in Accounts
  BY DEF Accounts
<1>2. bal \in Ledgers /\ committed.bal \in Ledgers
  BY DEF IInv, TypeOK, StateTypeOK
<1>3. Withheld(t) \in Nat
  BY TaxedTokens DEF Withheld
<1> QED BY <1>1, <1>2, <1>3, BalanceNat

\* Before the input is taken nothing has moved.
LEMMA StandingBegun == IInv /\ Begun => StandingKept
<1> SUFFICES ASSUME IInv, Begun PROVE StandingKept
  OBVIOUS
<1>1. bal = committed.bal /\ pc \in {"enter", "select", "take"}
  BY DEF IInv, SavedLedgers, World, Begun
<1>2. \A t \in Tokens : InCustody(t) = 0
  BY <1>1 DEF InCustody
<1> QED BY <1>1, <1>2, RouterBalances DEF StandingKept, RouterKeepsItsOwn

\* An attempt starts from the ledgers of the beginning, with the input wrapped.
LEMMA StandingClean ==
    IInv /\ pc \in {"dispatch", "fallback"} => StandingKept
<1> SUFFICES ASSUME IInv, pc \in {"dispatch", "fallback"} PROVE StandingKept
  OBVIOUS
<1>1. Clean(World) /\ bal = World.bal
  BY DEF IInv, SavedLedgers, World
<1>2. committed.bal \in Ledgers /\ call.amountIn \in Nat /\ call.sender \in Users
      /\ Router \in Accounts /\ Router \notin Users /\ WETH # ETH
  BY Context, DistinctNames DEF IInv, TypeOK
<1>3. SUFFICES ASSUME NEW t \in Tokens
               PROVE  bal[t][Router] + Withheld(t)
                         >= committed.bal[t][Router] + InCustody(t)
  BY DEF StandingKept, RouterKeepsItsOwn
<1>4. /\ bal[t][Router] \in Nat /\ committed.bal[t][Router] \in Nat
      /\ Withheld(t) \in Nat
  BY RouterBalances
<1>5. InCustody(t) = IF call.tokenIn = ETH /\ t = WETH THEN call.amountIn ELSE 0
  BY DEF InCustody
<1>6. CASE call.tokenIn = ETH
  <2>1. bal = Wrap(committed.bal, call.sender, call.amountIn)
    BY <1>1, <1>6 DEF Clean
  <2>2. bal[t][Router] = committed.bal[t][Router]
                            + (IF t = WETH THEN call.amountIn ELSE 0)
    BY <1>2, <1>4, <2>1 DEF Wrap, Move
  <2> QED BY <1>2, <1>4, <1>5, <1>6, <2>2
<1>7. CASE call.tokenIn # ETH
  BY <1>1, <1>4, <1>5, <1>7 DEF Clean
<1> QED BY <1>6, <1>7

LEMMA StandingPush == ASSUME IInv, Push PROVE StandingKept'
<1>1. /\ pc = "dispatch" /\ pc' = "venue" /\ CanPush
      /\ bal' = Transfer(bal, TokenIn, Payer, venue, call.amountIn)
      /\ UNCHANGED <<call, committed>>
  BY DEF Push
<1>2. Moved(bal, bal', TokenIn, Payer, call.amountIn, TokenIn, venue,
            Credited(TokenIn, call.amountIn))
      /\ Credited(TokenIn, call.amountIn) \in Nat
  BY <1>1, Context, TransferEffect DEF CanPush
<1>3. SUFFICES ASSUME NEW t \in Tokens
               PROVE  bal'[t][Router] + Withheld(t) >= committed.bal[t][Router]
  BY <1>1, RouterBalances
     DEF StandingKept, RouterKeepsItsOwn, InCustody, Withheld, TokenIn
<1>4. /\ bal[t][Router] + Withheld(t) >= committed.bal[t][Router] + InCustody(t)
      /\ InCustody(t) = IF call.tokenIn = ETH /\ t = WETH
                        THEN call.amountIn ELSE 0
  BY <1>1, <1>3, StandingClean DEF StandingKept, RouterKeepsItsOwn, InCustody
<1>5. bal'[t][Router] = bal[t][Router] - (IF t = TokenIn /\ Payer = Router
                                          THEN call.amountIn ELSE 0)
  <2>1. Router # venue /\ Router \in Accounts /\ call.amountIn \in Nat
    BY <1>1, Context
  <2> QED BY <1>2, <2>1, RouterBalances DEF Moved
<1>6. Payer = Router => call.tokenIn = ETH /\ TokenIn = WETH
  BY <1>1, Context DEF Payer
<1> QED BY <1>1, <1>4, <1>5, <1>6, Context, RouterBalances

\* A running venue only adds to the router's balance.
LEMMA StandingPaid ==
    ASSUME IInv, StandingKept, NEW s \in Tokens, NEW to \in Payees,
           NEW x \in 1 .. MaxPay, VenuePays(s, to, x)
    PROVE  StandingKept'
<1>1. /\ pc = "venue" /\ venue \in Makers /\ x <= bal[s][venue]
      /\ bal' = Transfer(bal, s, venue, to, x)
      /\ UNCHANGED <<pc, call, got, committed>>
  BY DEF VenuePays, swapVars
<1>2. Moved(bal, bal', s, venue, x, s, to, Credited(s, x))
      /\ Credited(s, x) \in Nat
  <2>1. x \in Nat /\ to \in Accounts
    BY SwapBounds, PayeesAreAccounts
  <2> QED BY <1>1, <2>1, Context, TransferEffect
<1>3. SUFFICES ASSUME NEW t \in Tokens
               PROVE  bal'[t][Router] + Withheld(t) >= committed.bal[t][Router]
  BY <1>1, RouterBalances
     DEF StandingKept, RouterKeepsItsOwn, InCustody, Withheld, TokenIn
<1>4. bal[t][Router] + Withheld(t) >= committed.bal[t][Router] + InCustody(t)
      /\ InCustody(t) = 0
  BY <1>1, <1>3 DEF StandingKept, RouterKeepsItsOwn, InCustody
<1>5. bal'[t][Router] >= bal[t][Router]
  <2>1. Router # venue /\ Router \in Accounts /\ x \in Nat
    BY <1>1, Context
  <2> QED BY <1>2, <2>1, RouterBalances DEF Moved
<1>6. bal'[t][Router] \in Nat
  BY <1>1, <1>2, Context DEF Moved
<1> QED BY <1>4, <1>5, <1>6, RouterBalances

\* The output measured on the router is on top of what it held.
LEMMA StandingMeasured ==
    ASSUME IInv, StandingKept, VenueFills \/ UniswapReturns
    PROVE  StandingKept'
<1>1. /\ pc \in {"venue", "uniReturn"} /\ pc' = "deliver" /\ got' = Delta
      /\ UNCHANGED <<bal, call, committed>>
      /\ prev = committed.bal[TokenOut][Receiver]
  BY DEF VenueFills, UniswapReturns, stateVars, IInv, Measured, Taken
<1>2. SUFFICES ASSUME NEW t \in Tokens
               PROVE  bal[t][Router] + Withheld(t) >= committed.bal[t][Router]
                         + (IF Receiver = Router /\ t = TokenOut
                            THEN Delta ELSE 0)
  BY <1>1 DEF StandingKept, RouterKeepsItsOwn, InCustody, Withheld, TokenIn, TokenOut,
              Receiver
<1>3. bal[t][Router] + Withheld(t) >= committed.bal[t][Router] + InCustody(t)
      /\ InCustody(t) = 0
  BY <1>1, <1>2 DEF StandingKept, RouterKeepsItsOwn, InCustody
<1> QED BY <1>1, <1>3, RouterBalances DEF Delta

\* Pulled whole, the input is there for Uniswap to take.
LEMMA StandingPulled ==
    ASSUME IInv, FallbackPulls
    PROVE  StandingKept'
<1>1. /\ pc = "fallback" /\ pc' = "uniswap" /\ CanPull
      /\ bal' = IF call.tokenIn = ETH THEN bal
                ELSE Transfer(bal, TokenIn, call.sender, Router, call.amountIn)
      /\ allow' = Approve(TokenIn, fb, call.amountIn)
      /\ UNCHANGED <<fb, call, committed>>
  BY DEF FallbackPulls
<1>2. allow'[TokenIn][fb] = call.amountIn
  BY <1>1, Context, ApproveEffect
<1>3. SUFFICES ASSUME NEW t \in Tokens
               PROVE  bal'[t][Router] + Withheld(t) >= committed.bal[t][Router]
                         + (IF t = TokenIn THEN call.amountIn ELSE 0)
  BY <1>1, <1>2 DEF StandingKept, RouterKeepsItsOwn, InCustody, Withheld, TokenIn
<1>4. /\ bal[t][Router] + Withheld(t) >= committed.bal[t][Router] + InCustody(t)
      /\ InCustody(t) = IF call.tokenIn = ETH /\ t = WETH
                        THEN call.amountIn ELSE 0
  BY <1>1, <1>3, StandingClean DEF StandingKept, RouterKeepsItsOwn, InCustody
<1>5. CASE call.tokenIn = ETH
  BY <1>1, <1>4, <1>5, Context
<1>6. CASE call.tokenIn # ETH
  <2> DEFINE in == Credited(TokenIn, call.amountIn)
  <2>1. in \in Nat /\ in + TransferTax[TokenIn] >= call.amountIn
    BY <1>1, Context, CreditedBounds
  <2>2. Moved(bal, bal', TokenIn, call.sender, call.amountIn, TokenIn, Router, in)
    <3>1. call.amountIn <= bal[TokenIn][call.sender]
      <4>1. bal[TokenIn][call.sender] \in Nat
        BY <1>1, Context, BalanceNat
      <4> QED BY <1>1, <1>6, <4>1, Context DEF CanPull
    <3> QED BY <1>1, <1>6, <2>1, <3>1, Context, TransferEffect
  <2>3. bal'[t][Router] = bal[t][Router]
                             + (IF t = TokenIn THEN in ELSE 0)
    <3>1. Router # call.sender /\ Router \in Accounts /\ call.amountIn \in Nat
      BY <1>1, Context
    <3> HIDE DEF in
    <3> QED BY <2>1, <2>2, <3>1, RouterBalances DEF Moved
  <2>4. bal = committed.bal
    BY <1>1, <1>6 DEF IInv, SavedLedgers, Clean, World
  <2>5. TransferTax[TokenIn] \in Nat /\ call.amountIn \in Nat
    BY <1>1, Context, TaxedTokens
  <2> HIDE DEF in
  <2> QED BY <2>1, <2>3, <2>4, <2>5, RouterBalances DEF Withheld
<1> QED BY <1>5, <1>6

\* Uniswap takes no more than the approved input.
LEMMA StandingSwapped ==
    ASSUME IInv, StandingKept, NEW used \in Nat, NEW out \in Nat,
           Uniswap(used, out)
    PROVE  StandingKept'
<1> DEFINE between == Transfer(bal, TokenIn, Router, fb, used)
<1>1. /\ pc = "uniswap" /\ pc' = "uniReturn"
      /\ used <= allow[TokenIn][fb] /\ used <= bal[TokenIn][Router]
      /\ out <= bal[TokenOut][fb]
      /\ bal' = Transfer(between, TokenOut, fb, Receiver, out)
      /\ UNCHANGED <<call, committed>>
      /\ allow[TokenIn][fb] = call.amountIn
      /\ TokenIn # TokenOut
  BY DEF Uniswap, StandingKept, IInv, ArgumentsChecked, Taken
<1>2. Moved(bal, between, TokenIn, Router, used, TokenIn, fb,
            Credited(TokenIn, used))
      /\ Credited(TokenIn, used) \in Nat
  BY <1>1, Context, TransferEffect
<1>3. /\ Moved(between, bal', TokenOut, fb, out, TokenOut, Receiver,
               Credited(TokenOut, out))
      /\ Credited(TokenOut, out) \in Nat
  <2>1. out <= between[TokenOut][fb] /\ between \in Ledgers
    BY <1>1, <1>2, Context DEF Moved
  <2> HIDE DEF between
  <2> QED BY <1>1, <2>1, Context, TransferEffect
<1> HIDE DEF between
<1>4. SUFFICES ASSUME NEW t \in Tokens
               PROVE  bal'[t][Router] + Withheld(t) >= committed.bal[t][Router]
  BY <1>1, RouterBalances
     DEF StandingKept, RouterKeepsItsOwn, InCustody, Withheld, TokenIn
<1>5. bal[t][Router] + Withheld(t) >= committed.bal[t][Router] + InCustody(t)
      /\ InCustody(t) = IF t = TokenIn THEN call.amountIn ELSE 0
  BY <1>1, <1>4 DEF StandingKept, RouterKeepsItsOwn, InCustody
<1>6. Router \in Accounts /\ Router # fb /\ call.amountIn \in Nat
  BY <1>1, Context
<1>7. between[t][Router] = bal[t][Router] - (IF t = TokenIn THEN used ELSE 0)
      /\ between[t][Router] \in Nat
  BY <1>2, <1>6 DEF Moved
<1>8. bal'[t][Router] >= between[t][Router] /\ bal'[t][Router] \in Nat
  BY <1>3, <1>6, <1>7 DEF Moved
<1> QED BY <1>1, <1>5, <1>6, <1>7, <1>8, RouterBalances

LEMMA StandingDelivered == ASSUME IInv, StandingKept, Deliver PROVE StandingKept'
<1>1. /\ pc = "deliver" /\ pc' = IF call.withFee THEN "disburse" ELSE "done"
      /\ bal' = IF call.tokenOut = ETH THEN Unwrap(bal, UnwrapTo, got)
                                       ELSE bal
      /\ UNCHANGED <<call, got, committed>>
  BY DEF Deliver
<1>2. SUFFICES ASSUME NEW t \in Tokens
               PROVE  bal'[t][Router] + Withheld(t) >= committed.bal[t][Router]
                         + (IF call.withFee /\ t = call.tokenOut
                            THEN got ELSE 0)
  <2>1. call.withFee => Receiver = Router
    BY DEF Receiver
  <2> QED BY <1>1, Context, CallFacts
          DEF StandingKept, RouterKeepsItsOwn, InCustody, Withheld, TokenIn, Arguments
<1>3. bal[t][Router] + Withheld(t) >= committed.bal[t][Router] + InCustody(t)
      /\ InCustody(t) = IF Receiver = Router /\ t = TokenOut THEN got ELSE 0
  BY <1>1, <1>2 DEF StandingKept, RouterKeepsItsOwn, InCustody
<1>4. /\ call.withFee => Receiver = Router /\ UnwrapTo = Router
      /\ call.tokenOut = ETH => Receiver = Router
      /\ Router \in Accounts
  BY <1>1, Context DEF Receiver, UnwrapTo
<1>5. got \in Nat /\ bal'[t][Router] \in Nat
  BY <1>1, <1>4, Context, DeliverEffect
<1>6. CASE call.withFee /\ t = call.tokenOut
  <2>1. bal'[t][Router] >= committed.bal[t][Router] + got
    BY <1>4, <1>6, DeliverEffect
  <2> QED BY <1>5, <1>6, <2>1, RouterBalances
<1>7. CASE ~(call.withFee /\ t = call.tokenOut)
  <2>1. CASE t = WETH /\ call.tokenOut = ETH
    <3>1. bal'[t][Router] = bal[t][Router] - got
      BY <1>1, <1>4, <1>5, <2>1, Context, RouterBalances DEF Unwrap, Move
    <3> QED BY <1>1, <1>3, <1>4, <1>5, <1>7, <2>1, <3>1, Context, RouterBalances
  <2>2. CASE ~(t = WETH /\ call.tokenOut = ETH)
    <3>1. bal'[t][Router] >= bal[t][Router]
      <4>1. CASE t # WETH
        BY <1>4, <4>1, DeliverEffect
      <4>2. CASE call.tokenOut # ETH
        BY <1>1, <4>2, RouterBalances
      <4> QED BY <2>2, <4>1, <4>2
    <3> QED BY <1>3, <1>5, <1>7, <3>1, RouterBalances
  <2> QED BY <2>1, <2>2
<1> QED BY <1>6, <1>7

LEMMA StandingDisbursed ==
    ASSUME IInv, StandingKept, Disburse
    PROVE  StandingKept'
<1>1. pc = "disburse" /\ pc' = "done" /\ UNCHANGED <<call, committed>>
  BY DEF Disburse
<1>2. SUFFICES ASSUME NEW t \in Tokens
               PROVE  bal'[t][Router] + Withheld(t) >= committed.bal[t][Router]
  BY <1>1, RouterBalances
     DEF StandingKept, RouterKeepsItsOwn, InCustody, Withheld, TokenIn
<1>3. CASE t = call.tokenOut
  <2>1. bal'[t][Router] >= committed.bal[t][Router] /\ bal'[t][Router] \in Nat
    BY <1>1, <1>3, Context, DisburseEffect
  <2> QED BY <2>1, RouterBalances
<1>4. CASE t # call.tokenOut
  <2>1. bal[t][Router] + Withheld(t) >= committed.bal[t][Router]
    BY <1>1, <1>2, <1>4, RouterBalances
       DEF StandingKept, RouterKeepsItsOwn, InCustody
  <2>2. bal'[t][Router] >= bal[t][Router] /\ bal'[t][Router] \in Nat
    BY <1>1, <1>4, Context, DisburseEffect
  <2> QED BY <2>1, <2>2, RouterBalances
<1> QED BY <1>3, <1>4

LEMMA StandingPreserved ==
    IInv /\ IInv' /\ StandingKept /\ [Next]_vars => StandingKept'
<1> SUFFICES ASSUME IInv, IInv', StandingKept, [Next]_vars PROVE StandingKept'
  OBVIOUS
<1>1. CASE pc' = "idle"
  BY <1>1 DEF StandingKept, RouterKeepsItsOwn
<1>2. CASE pc' \in {"enter", "select", "take"}
  <2>1. (IInv /\ Begun => StandingKept)'
    BY StandingBegun, PTL
  <2> QED BY <1>2, <2>1 DEF Begun
<1>3. CASE pc' \in {"dispatch", "fallback"}
  <2>1. (IInv /\ pc \in {"dispatch", "fallback"} => StandingKept)'
    BY StandingClean, PTL
  <2> QED BY <1>3, <2>1
<1>4. CASE Push
  BY <1>4, StandingPush
<1>5. CASE VenueFills \/ UniswapReturns
  BY <1>5, StandingMeasured
<1>6. CASE FallbackPulls
  BY <1>6, StandingPulled
<1>7. CASE Deliver \/ Disburse
  BY <1>7, StandingDelivered, StandingDisbursed
<1>8. CASE \E t \in Tokens, to \in Payees, x \in 1 .. MaxPay :
              VenuePays(t, to, x)
  BY <1>8, StandingPaid
<1>9. CASE \E used, out \in 0 .. MaxPay : Uniswap(used, out)
  BY <1>9, StandingSwapped, SwapBounds
<1>10. CASE UNCHANGED vars
  BY <1>10 DEF vars, stateVars, swapVars, StandingKept, RouterKeepsItsOwn,
               InCustody, Withheld, TokenIn, TokenOut, Receiver
<1>11. CASE \/ \E c \in Calls : Call(c)
            \/ Enter \/ SelectBest \/ SelectNamed \/ Take \/ PushFails
            \/ VenueFails
  BY <1>2, <1>3, <1>11 DEF Call, Enter, SelectBest, SelectNamed, Take,
                           PushFails, VenueFails
<1>12. CASE \/ EnterFails \/ TakeFails \/ FallbackPullFails \/ UniswapReverts
            \/ UniswapFallsShort \/ DeliverFails \/ DisburseFails \/ Commit
  BY <1>1, <1>12 DEF EnterFails, TakeFails, FallbackPullFails, UniswapReverts,
                     UniswapFallsShort, DeliverFails, DisburseFails, Commit,
                     Settle, Revert, Forget
<1>13. CASE \/ Administer
            \/ \E t \in Tokens, to \in Users, x \in 1 .. MaxRescue :
                  Rescue(t, to, x)
  BY <1>1, <1>13 DEF Administer, Rescue, swapVars
<1> QED
  BY <1>4, <1>5, <1>6, <1>7, <1>8, <1>9, <1>10, <1>11, <1>12, <1>13
     DEF Next, CallStep

(***************************************************************************)
(* What the interface promises                                             *)
(***************************************************************************)
\* The receipt is blank while a call runs, and the fee is what was disbursed.
FeeInv ==
    /\ pc # "idle" => receipt = NoReceipt
    /\ pc # "done" \/ ~call.withFee => fee = 0
    /\ pc = "done" /\ call.withFee /\ call.feeTo # call.recipient =>
          bal[call.tokenOut][call.feeTo] + TransferTax[call.tokenOut]
             >= committed.bal[call.tokenOut][call.feeTo] + fee

LEMMA FeeStep == IInv /\ FeeInv /\ [Next]_vars => FeeInv'
<1> SUFFICES ASSUME IInv, FeeInv, [Next]_vars PROVE FeeInv'
  OBVIOUS
<1>1. CASE Disburse
  <2>1. /\ pc = "disburse" /\ pc' = "done" /\ fee' = FeeDue /\ call.withFee
        /\ call' = call /\ committed' = committed /\ receipt' = receipt
    BY <1>1 DEF Disburse, IInv, ArgumentsChecked
  <2> QED BY <1>1, <2>1, DisburseEffect DEF FeeInv
<1>2. CASE Deliver
  BY <1>2 DEF Deliver, FeeInv
<1>3. CASE \/ Revert \/ Commit
  BY <1>3 DEF Commit, Settle, Revert, Forget, FeeInv
<1>4. CASE \E c \in Calls : Call(c)
  BY <1>4 DEF Call, FeeInv
<1>5. CASE \/ Enter \/ SelectBest \/ SelectNamed \/ Take \/ Push \/ PushFails
           \/ VenueFills \/ VenueFails \/ FallbackPulls \/ UniswapReturns
  BY <1>5 DEF Enter, SelectBest, SelectNamed, Take, Push, PushFails, VenueFills,
              VenueFails, FallbackPulls, UniswapReturns, FeeInv
<1>6. CASE \/ \E t \in Tokens, to \in Payees, x \in 1 .. MaxPay : VenuePays(t, to, x)
           \/ \E used, out \in 0 .. MaxPay : Uniswap(used, out)
  BY <1>6 DEF VenuePays, Uniswap, swapVars, FeeInv
<1>7. CASE \/ Administer
           \/ \E t \in Tokens, to \in Users, x \in 1 .. MaxRescue : Rescue(t, to, x)
  BY <1>7 DEF Administer, Rescue, swapVars, FeeInv
<1>8. CASE UNCHANGED vars
  BY <1>8 DEF vars, stateVars, swapVars, FeeInv
<1> QED
  BY <1>1, <1>2, <1>3, <1>4, <1>5, <1>6, <1>7, <1>8
     DEF Next, CallStep, EnterFails, TakeFails, FallbackPullFails, UniswapReverts,
         UniswapFallsShort, DeliverFails, DisburseFails

\* A settled call is a swap of the promise.
LEMMA CommitIsASwap ==
    ASSUME IInv, StandingKept, FeeInv, Commit
    PROVE  Promise!Swap
<1>1. /\ pc = "done" /\ call \in Calls /\ venue \in Listable
      /\ receipt' = [call |-> call, amountOut |-> got, fee |-> fee, makers |-> {venue}]
      /\ committed'.bal = bal
      /\ got \in Nat /\ fee \in Nat
      /\ receipt = NoReceipt
  BY DEF Commit, Settle, IInv, TypeOK, World, FeeInv
<1>2. /\ receipt' \in Receipts /\ receipt'.call = call /\ receipt'.amountOut = got
      /\ receipt'.fee = fee /\ receipt'.makers = {venue}
  BY <1>1 DEF Receipts
<1>3. /\ got >= call.amountOutMin
      /\ bal[call.tokenOut][call.recipient]
            >= committed.bal[call.tokenOut][call.recipient] + got
  BY <1>1 DEF IInv, MinimumDelivered
<1>4. ASSUME NEW t \in Tokens, NEW a \in Accounts \ {venue}
      PROVE  bal[t][a] + Promise!Spends(call, a, t) >= committed.bal[t][a]
  <2>1. CASE a = Router
    <3>1. Router \notin Users /\ call.sender \in Users
      BY <1>1, Context
    <3>2. bal[t][Router] + Withheld(t) >= committed.bal[t][Router]
      BY <1>1, RouterBalances DEF StandingKept, RouterKeepsItsOwn, InCustody
    <3>3. Promise!Spends(call, Router, t) = IF t = call.tokenIn THEN TransferTax[t]
                                            ELSE 0
      BY <3>1 DEF Promise!Spends
    <3>4. Withheld(t) <= Promise!Spends(call, Router, t)
      BY <3>3, TaxedTokens DEF Withheld, TokenIn, Resolve
    <3>5. Promise!Spends(call, Router, t) \in Nat
      BY <3>3, TaxedTokens
    <3> QED BY <2>1, <3>2, <3>4, <3>5, RouterBalances
  <2>2. CASE a # Router
    <3>1. a \in Users \cup Makers \cup Fallbacks
      BY <2>2 DEF Accounts, Listable
    <3>2. Promise!Spends(call, a, t) = IF a = call.sender /\ t = call.tokenIn
                                       THEN call.amountIn ELSE 0
      BY <2>2 DEF Promise!Spends
    <3>3. bal[t][a] + (IF a = call.sender /\ t = call.tokenIn
                       THEN call.amountIn ELSE 0)
             >= committed.bal[t][a]
      BY <1>1, <3>1 DEF IInv, OnlyInputIsSpent, Paid
    <3> QED BY <3>2, <3>3
  <2> QED BY <2>1, <2>2
<1>5. /\ call.withFee /\ call.feeTo # call.recipient =>
            bal[call.tokenOut][call.feeTo] + TransferTax[call.tokenOut]
               >= committed.bal[call.tokenOut][call.feeTo] + fee
      /\ ~call.withFee => fee = 0
  BY <1>1 DEF FeeInv
<1> QED BY <1>1, <1>2, <1>3, <1>4, <1>5 DEF Promise!Swap

LEMMA StepsArePromised ==
    IInv /\ StandingKept /\ FeeInv /\ [Next]_vars
       => [Promise!Next]_<<committed.bal, receipt>>
<1> SUFFICES ASSUME IInv, StandingKept, FeeInv, [Next]_vars
             PROVE  [Promise!Next]_<<committed.bal, receipt>>
  OBVIOUS
<1>1. CASE Commit
  BY <1>1, CommitIsASwap DEF Promise!Next
<1>2. CASE \E c \in Calls : Call(c)
  BY <1>2 DEF Call, Promise!Begin, Promise!Next
<1>3. ASSUME NEW t \in Tokens, NEW to \in Users, NEW x \in 1 .. MaxRescue,
             Rescue(t, to, x)
      PROVE  Promise!Rescue
  <2>1. /\ pc = "idle" /\ committed = World /\ UNCHANGED receipt
        /\ x <= bal[t][Router] /\ x \in Nat /\ bal' = Transfer(bal, t, Router, to, x)
        /\ committed' = [committed EXCEPT !.bal = bal']
    BY <1>3, SwapBounds DEF Rescue, RescueTokens, IInv, SavedLedgers
  <2>2. committed.bal = bal /\ committed'.bal = bal'
    BY <2>1 DEF World
  <2>3. bal \in Ledgers /\ Router \in Accounts /\ to \in Accounts
    BY DEF IInv, TypeOK, StateTypeOK, Accounts
  <2>4. /\ Moved(bal, bal', t, Router, x, t, to, Credited(t, x))
        /\ Credited(t, x) \in Nat
    BY <2>1, <2>3, TransferEffect
  <2>5. \A s \in Tokens, a \in Accounts \ {Router} : bal'[s][a] >= bal[s][a]
    BY <2>1, <2>4 DEF Moved
  <2> QED BY <2>1, <2>2, <2>5 DEF Promise!Rescue
<1>4. CASE UNCHANGED <<committed, receipt>>
  BY <1>4
<1>5. CASE CallStep /\ ~Commit
  BY <1>4, <1>5
     DEF CallStep, Enter, SelectBest, SelectNamed, Take, Push, PushFails, VenueFills,
         VenueFails, FallbackPulls, UniswapReturns, Deliver, Disburse, EnterFails,
         TakeFails, FallbackPullFails, UniswapReverts, UniswapFallsShort, DeliverFails,
         DisburseFails, Revert
<1>6. CASE \/ \E t \in Tokens, to \in Payees, x \in 1 .. MaxPay : VenuePays(t, to, x)
           \/ \E used, out \in 0 .. MaxPay : Uniswap(used, out)
           \/ Administer \/ UNCHANGED vars
  BY <1>4, <1>6 DEF VenuePays, Uniswap, Administer, swapVars, vars
<1> QED BY <1>1, <1>2, <1>3, <1>5, <1>6 DEF Next, Promise!Next

(***************************************************************************)
(* The theorems                                                            *)
(***************************************************************************)
\* The inductive invariant holds throughout every behaviour.
THEOREM Invariance == Spec => []IInv
  BY InitIInv, NextPreserves, PTL DEF Spec

\* Every variable of the router and of a running call has its type: balances
\* and approvals never go below zero, whatever contracts do in between.
THEOREM TypeCorrect == Spec => []TypeOK
<1>1. IInv => TypeOK
  BY DEF IInv
<1> QED BY <1>1, Invariance, PTL

\* The slippage check of _coreSwap and _skimAndDisburse: the recipient of a
\* swap that ends well gained at least the minimum.
THEOREM MinimumIsDelivered == Spec => []MinimumDelivered
<1>1. IInv => MinimumDelivered
  BY DEF IInv
<1> QED BY <1>1, Invariance, PTL

\* Across venue failures and fallbacks nobody but the venue in use ends with
\* less than before, the sender's amountIn excepted.
THEOREM InputIsSpentOnce == Spec => []OnlyInputIsSpent
<1>1. IInv => OnlyInputIsSpent
  BY DEF IInv
<1> QED BY <1>1, Invariance, PTL

\* swapExactIn's approval never outlives the Uniswap call.
THEOREM ApprovalsAreReset == Spec => []NoStandingApproval
<1>1. IInv => NoStandingApproval
  BY DEF IInv
<1> QED BY <1>1, Invariance, PTL

\* The frame of _dispatchVenue undoes the whole of a failed attempt.
THEOREM FallbackIsClean == Spec => []FallbackStartsClean
<1>1. IInv => FallbackStartsClean
  BY DEF IInv, SavedLedgers, FallbackStartsClean
<1> QED BY <1>1, Invariance, PTL

\* What _coreSwap enforces on a fee call leaves the net minimum after the fee.
THEOREM FeeLeavesTheMinimum == Spec => []FeeLeavesMinimum
<1>1. IInv => FeeLeavesMinimum
  <2> SUFFICES ASSUME IInv, pc = "disburse"
               PROVE  Net(got, call.bps) >= call.amountOutMin
    BY DEF FeeLeavesMinimum
  <2>1. call.withFee /\ ValidFee /\ got >= MinOut
    BY DEF IInv, ArgumentsChecked, Measured
  <2>2. call.bps \in Bps /\ call.amountOutMin \in Nat /\ got \in Nat
    BY <2>1, Context, CallFacts, FeeConstants DEF ValidFee, Bps
  <2>3. got >= GrossUp(call.amountOutMin, call.bps)
    BY <2>1 DEF MinOut
  <2> QED BY <2>2, <2>3, GrossUpSuffices
<1> QED BY <1>1, Invariance, PTL

\* Tokens standing on the router (awaiting rescueTokens) are not spent by a
\* swap, not even while venues and Uniswap run, but for the tax of the transfer
\* that pulls the input: the fallback approves amountIn, so that what a taxed
\* input lost on its way in is made up for out of what the router held, and
\* nothing more.
THEOREM StandingTokensAreKept == Spec => []RouterKeepsItsOwn
<1>1. Init => StandingKept
  BY DEF Init, StandingKept, RouterKeepsItsOwn
<1>2. StandingKept => RouterKeepsItsOwn
  BY DEF StandingKept
<1> QED BY <1>1, <1>2, StandingPreserved, Invariance, PTL DEF Spec

\* Seen between calls, the entrypoints do what IPropAMMRouter.sol says of a swap: it
\* happens whole or not at all, for the minimum at least, at nobody's expense but the
\* sender's input, the tax of it and the venue that is named.
THEOREM SwapsKeepTheirPromise == Spec => Promised
<1>1. Init => Promise!Init /\ StandingKept /\ FeeInv
  BY DEF Init, Promise!Init, StandingKept, RouterKeepsItsOwn, FeeInv
<1>2. IInv /\ StandingKept /\ FeeInv /\ [Next]_vars
         => [Promise!Next]_<<committed.bal, receipt>>
  BY StepsArePromised
<1> QED
  BY <1>1, <1>2, FeeStep, StandingPreserved, Invariance, PTL
     DEF Spec, Promised, Promise!Spec

=============================================================================
