------------------------------ MODULE GasTrace ------------------------------
(***************************************************************************)
(* How the gas of a traced swap is split between the venue, the token      *)
(* transfers and the router: the walks of decompose_swap                   *)
(* (src/scripts/gas/router_overhead.py) and of decompose                   *)
(* (src/scripts/gas/router_gas_compare.py) over one call tree, which comes *)
(* into being as it is walked.                                             *)
(*                                                                         *)
(* The gas a frame used includes that of the frames beneath it.  Inputs    *)
(* are told apart by what their selector says.                             *)
(***************************************************************************)
EXTENDS Integers, Sequences

CONSTANTS
    MaxGas, MaxDepth,   \* bound the tree
    INTRINSIC_GAS,
    Venue0, Elsewhere   \* the venue of the swap's log, and any other address

ASSUME TraceBounds == {MaxGas, MaxDepth, INTRINSIC_GAS} \subseteq Nat

VARIABLES
    open,               \* the frames above the next one
    used,               \* the gas of the outermost
    tally,              \* decompose_swap
    compared,           \* decompose
    beneath             \* what calls beneath a transfer used, outside the venue's frame

traceVars == <<open, used, tally, compared, beneath>>

CallFrame == [to : {Venue0, Elsewhere}, type : {"CALL", "DELEGATECALL", "STATICCALL"},
          call : {"swap", "quote", "transfer", "transferFrom", "other"},
          payee : {Venue0, Elsewhere}, gas : 1 .. MaxGas]

Nobody == "nobody"
Buckets == [inner |-> 0, pull |-> 0, delivery |-> 0, other |-> 0,
            frames |-> 0, venue |-> Nobody]

Larger(m, n) == IF m < n THEN n ELSE m

(***************************************************************************)
(* One frame                                                               *)
(***************************************************************************)
\* The venue's own execution; it re-quotes while venues are chosen, which is not.
IsVenueSwap(f) == f.to = Venue0 /\ f.type = "CALL" /\ f.call # "quote"

\* Mutant of IsTransfer: the type is not looked at.
IsTransferCall(f) == f.call \in {"transfer", "transferFrom"}

\* A proxy that hands a transfer on by DELEGATECALL makes no second one; a token that
\* calls another one to transfer does.
IsTransfer(f) == f.type = "CALL" /\ f.call \in {"transfer", "transferFrom"}

\* decompose_swap: the heaviest frame of the venue, and what the router moves.
Tallied(f, inVenue) ==
    IF inVenue THEN tally
    ELSE IF IsVenueSwap(f)
         THEN [tally EXCEPT !.inner = Larger(@, f.gas), !.frames = @ + 1]
    ELSE IF ~IsTransfer(f) THEN tally
    ELSE IF f.call = "transferFrom" THEN [tally EXCEPT !.pull = @ + f.gas]
    ELSE IF f.payee = Venue0 THEN [tally EXCEPT !.delivery = @ + f.gas]
    ELSE [tally EXCEPT !.other = @ + f.gas]

\* decompose: a frame is the venue's by its selector, and the first one counts; what
\* is transferred before it is taken for the payment of the venue.
IsSwapCall(f) == f.type = "CALL" /\ f.call = "swap"

Compared(f, inSwap) ==
    IF inSwap THEN compared
    ELSE IF IsSwapCall(f)
         THEN IF compared.inner = 0 THEN [compared EXCEPT !.inner = f.gas, !.venue = f.to]
              ELSE compared
    ELSE IF ~IsTransfer(f) THEN compared
    ELSE IF f.call = "transferFrom" THEN [compared EXCEPT !.pull = @ + f.gas]
    ELSE IF compared.venue \in {Nobody, f.payee} THEN [compared EXCEPT !.delivery = @ + f.gas]
    ELSE [compared EXCEPT !.other = @ + f.gas]

(***************************************************************************)
(* The walk                                                                *)
(***************************************************************************)
Top == open[Len(open)]

Opened(f) ==
    [gas |-> f.gas, left |-> f.gas,
     moves |-> Top.moves \/ IsTransfer(f),
     inVenue |-> Top.inVenue \/ IsVenueSwap(f),
     inSwap |-> Top.inSwap \/ IsSwapCall(f)]

\* Neither walk looks at the transfer it is beneath.
Beneath(f) ==
    LET gas == IF Top.moves /\ f.type = "CALL" THEN f.gas ELSE 0
    IN  [tally |-> beneath.tally + IF Top.inVenue THEN 0 ELSE gas,
         compared |-> beneath.compared + IF Top.inSwap THEN 0 ELSE gas]

Walk(f) ==
    /\ open # <<>> /\ Len(open) < MaxDepth
    /\ f.gas <= Top.left
    /\ open' = Append([open EXCEPT ![Len(open)].left = @ - f.gas], Opened(f))
    /\ tally' = Tallied(f, Top.inVenue)
    /\ compared' = Compared(f, Top.inSwap)
    /\ beneath' = Beneath(f)
    /\ UNCHANGED used

Back ==
    /\ open # <<>>
    /\ open' = SubSeq(open, 1, Len(open) - 1)
    /\ UNCHANGED <<used, tally, compared, beneath>>

\* The outermost frame calls the router.
TraceInit ==
    /\ used \in 1 .. MaxGas
    /\ open = <<[gas |-> used, left |-> used, moves |-> FALSE,
                 inVenue |-> FALSE, inSwap |-> FALSE]>>
    /\ tally = Buckets /\ compared = Buckets
    /\ beneath = [tally |-> 0, compared |-> 0]

TraceNext == (\E f \in CallFrame : Walk(f)) \/ Back

TraceSpec == TraceInit /\ [][TraceNext]_traceVars

(***************************************************************************)
(* Properties                                                              *)
(***************************************************************************)
\* analyze_swap and analyze_tx: what is left for the router.  Refunds, which lower the
\* total, are left out.
Total == used + INTRINSIC_GAS
Plumbing(t) == t.pull + t.delivery + t.other
Overhead(t) == Total - t.inner - Plumbing(t)

\* The buckets of a swap overlap only where a CALL is made beneath a transfer: in a call
\* tree of any shape, what is left for the router falls short of the price of the bare
\* transaction by no more than such calls used (and by the refunds, as the scripts note).
GasAddsUp ==
    /\ Overhead(tally) + beneath.tally >= INTRINSIC_GAS
    /\ Overhead(compared) + beneath.compared >= INTRINSIC_GAS
=============================================================================
