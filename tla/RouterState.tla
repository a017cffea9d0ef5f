----------------------------- MODULE RouterState -----------------------------
(***************************************************************************)
(* The storage of src/src/PropAMMRouter.sol and the token ledgers it moves *)
(* funds on, with the administrative entrypoints that change them.  The    *)
(* swap modules extend this one.                                           *)
(*                                                                         *)
(* Tokens other than native ETH and WETH are ERC-20s; a token may credit   *)
(* the receiver of a transfer with less than was sent (TransferTax).       *)
(* Addresses are the users (callers, recipients, fee recipients), the      *)
(* market makers that may be listed as venues, the Uniswap SwapRouter      *)
(* deployments, and the router itself.                                     *)
(***************************************************************************)
EXTENDS Integers, Sequences

CONSTANTS
    ERC20s,         \* ERC-20 tokens other than WETH
    WETH,           \* the wrapped native token
    ETH,            \* ETH_SENTINEL: native ETH
    Router,         \* address(this)
    Users,          \* externally owned accounts
    Makers,         \* contracts that may be listed as propAMM venues
    Fallbacks,      \* Uniswap V3 SwapRouter deployments
    None,           \* address(0)
    TransferTax     \* what each token withholds from the receiver of a transfer

Tokens == ERC20s \cup {WETH, ETH}
Accounts == Users \cup Makers \cup Fallbacks \cup {Router}
Listable == Makers \cup Fallbacks

ASSUME DistinctNames ==
    /\ WETH \notin ERC20s /\ ETH \notin ERC20s /\ WETH # ETH
    /\ Router \notin Users /\ Router \notin Listable
    /\ Users \cap Listable = {}
    /\ Makers \cap Fallbacks = {}
    /\ None \notin Accounts

\* Only ERC-20s tax transfers: WETH and ETH credit exactly.
ASSUME TaxedTokens ==
    /\ TransferTax \in [Tokens -> Nat]
    /\ TransferTax[WETH] = 0 /\ TransferTax[ETH] = 0

VARIABLES
    bal,        \* bal[t][a]: balance of token t held by account a
    allow,      \* allow[t][f]: what the router lets SwapRouter f pull
    venues,     \* _whitelistedVenues, an EnumerableSet in enumeration order
    fb,         \* fallbackSwapRouter
    paused      \* Pausable: swaps are halted

stateVars == <<bal, allow, venues, fb, paused>>

Ledgers == [Tokens -> [Accounts -> Nat]]
Approvals == [Tokens -> [Fallbacks -> Nat]]

StateTypeOK ==
    /\ bal \in Ledgers
    /\ allow \in Approvals
    /\ venues \in Seq(Listable)
    /\ fb \in Fallbacks
    /\ paused \in BOOLEAN

(***************************************************************************)
(* Ledgers                                                                 *)
(***************************************************************************)
Resolve(t) == IF t = ETH THEN WETH ELSE t

Credited(t, x) == IF x > TransferTax[t] THEN x - TransferTax[t] ELSE 0

\* x of token t leaves from, y of token u reaches to.
Move(b, t, from, x, u, to, y) ==
    [s \in Tokens |-> [a \in Accounts |->
        b[s][a] - (IF s = t /\ a = from THEN x ELSE 0)
                + (IF s = u /\ a = to THEN y ELSE 0)]]

\* A transfer credits its receiver less the token's tax.
Transfer(b, t, from, to, x) == Move(b, t, from, x, t, to, Credited(t, x))

\* IWETH.deposit by the router with the caller's msg.value.
Wrap(b, from, x) == Move(b, ETH, from, x, WETH, Router, x)

\* IWETH.withdraw followed by the ETH call to the receiver.
Unwrap(b, to, x) == Move(b, WETH, Router, x, ETH, to, x)

NoAllowance == [t \in Tokens |-> [f \in Fallbacks |-> 0]]

\* Mutant of Approve: an approval of zero is skipped.
ApproveUnlessZero(t, f, x) ==
    IF x = 0 THEN allow
    ELSE [s \in Tokens |-> [g \in Fallbacks |->
             IF s = t /\ g = f THEN x ELSE allow[s][g]]]

\* The approvals after the router lets f pull x of token t.
Approve(t, f, x) ==
    [s \in Tokens |-> [g \in Fallbacks |->
        IF s = t /\ g = f THEN x ELSE allow[s][g]]]

(***************************************************************************)
(* Venue whitelist                                                         *)
(***************************************************************************)
Listed(v) == \E i \in DOMAIN venues : venues[i] = v

IsVenue(v) == Listed(v) \/ v = fb

AddVenue(v) ==
    /\ ~Listed(v)
    /\ venues' = Append(venues, v)
    /\ UNCHANGED <<bal, allow, fb, paused>>

\* EnumerableSet.remove: the last member takes the place of the removed one.
RemoveVenue(v) ==
    /\ Listed(v)
    /\ \E i \in DOMAIN venues :
          /\ venues[i] = v
          /\ venues' = SubSeq([venues EXCEPT ![i] = venues[Len(venues)]],
                              1, Len(venues) - 1)
    /\ UNCHANGED <<bal, allow, fb, paused>>

(***************************************************************************)
(* Other restricted entrypoints                                            *)
(***************************************************************************)
SetFallbackSwapRouter(f) ==
    /\ fb' = f
    /\ UNCHANGED <<bal, allow, venues, paused>>

Pause ==
    /\ ~paused
    /\ paused' = TRUE
    /\ UNCHANGED <<bal, allow, venues, fb>>

Unpause ==
    /\ paused
    /\ paused' = FALSE
    /\ UNCHANGED <<bal, allow, venues, fb>>

RescueTokens(t, to, x) ==
    /\ t = ETH => to # Router   \* receive() takes ETH from WETH only
    /\ x <= bal[t][Router]
    /\ bal' = Transfer(bal, t, Router, to, x)
    /\ UNCHANGED <<allow, venues, fb, paused>>
=============================================================================
