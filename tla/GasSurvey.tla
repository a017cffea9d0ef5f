----------------------------- MODULE GasSurvey -----------------------------
(***************************************************************************)
(* The survey of the router's gas on chain: which swaps the script finds   *)
(* and writes a row for (src/scripts/gas/router_overhead.py).  How the gas *)
(* of one of them is split is GasTrace's.                                  *)
(*                                                                         *)
(* Every request to the node may fail: before swaps are analyzed that ends *)
(* the script, afterwards it costs a row its figures.  Blocks up to the    *)
(* end of the window are final.  Amounts, prices, the spelling of rows and *)
(* the explicit --start-block, which skips the search, are left out.       *)
(***************************************************************************)
EXTENDS Naturals, FiniteSets, Sequences, SequencesExt, Lists

CONSTANTS
    LATEST,             \* the newest block
    Clocks,             \* the timestamps of the blocks may be any of these
    Txs,                \* a sequence, sorted by hash
    Legs,               \* tx |-> the makers of its Swapped logs
    Wrapped,            \* transactions that are not sent to the router
    PROPAMMS,           \* the named venues
    Days,               \* --days, in the unit of the clocks
    WINDOW, MAX_TXS

Sent == ToSet(Txs)

ASSUME SurveyInputs ==
    /\ {LATEST, WINDOW, MAX_TXS} \subseteq Nat \ {0} /\ Days \subseteq Nat
    /\ \A t \in Clocks : /\ t \in Seq(Nat) /\ Len(t) = LATEST
                         /\ \A b \in 2 .. LATEST : t[b - 1] < t[b]
    /\ Txs \in Seq(Sent) /\ IsInjective(Txs) /\ "none" \notin Sent
    /\ DOMAIN Legs = Sent /\ \A tx \in Sent : Len(Legs[tx]) > 0
    /\ IsFiniteSet(PROPAMMS)

VARIABLES
    clock, block,       \* timestamps; the block of a transaction, 0 if of none
    to, days,           \* the arguments of the script
    phase,
    lo, hi,             \* of the search
    start,              \* of the next window of logs
    found,              \* the swaps found, then those to be analyzed
    seen,               \* named venues among them
    swapRows, quoteRows

chainVars == <<clock, block, to, days>>
searchVars == <<lo, hi>>
rowVars == <<seen, swapRows, quoteRows>>
surveyVars == <<chainVars, phase, searchVars, start, found, rowVars>>

(***************************************************************************)
(* Window discovery                                                        *)
(***************************************************************************)
\* days before the last block; never before the first timestamp there is.
Target == IF clock[to] > days THEN clock[to] - days ELSE 0

\* Mutant of Before: the block at the target itself is taken for too old.
BeforeOrAt(b) == clock[b] <= Target

Before(b) == clock[b] < Target

\* block_at_timestamp: the lowest block not before the target.
Halve ==
    LET mid == (lo + hi) \div 2
    IN  /\ phase = "searching" /\ lo < hi
        /\ IF Before(mid) THEN lo' = mid + 1 /\ UNCHANGED hi
                          ELSE hi' = mid /\ UNCHANGED lo
        /\ UNCHANGED <<chainVars, phase, start, found, rowVars>>

Found ==
    /\ phase = "searching" /\ lo = hi
    /\ phase' = "scanning"
    /\ start' = lo
    /\ UNCHANGED <<chainVars, searchVars, found, rowVars>>

(***************************************************************************)
(* find_router_swaps                                                       *)
(***************************************************************************)
Within(first, last) == {tx \in Sent : block[tx] \in first .. last}

\* Of several logs of a transaction the first is kept.
Swap(tx) == [tx |-> tx, block |-> block[tx], maker |-> Head(Legs[tx])]

Swaps(txs) == [i \in DOMAIN txs |-> Swap(txs[i])]

ScanWindow ==
    LET end == IF start + WINDOW - 1 < to THEN start + WINDOW - 1 ELSE to
        known == {found[i].tx : i \in DOMAIN found}
        new == ElementsAt(Txs, {i \in DOMAIN Txs : Txs[i] \in Within(start, end) \ known})
    IN  /\ phase = "scanning" /\ start <= to
        /\ found' = found \o Swaps(new)
        /\ start' = end + 1
        /\ UNCHANGED <<chainVars, phase, searchVars, rowVars>>

\* By block, then by hash.
Hash(tx) == CHOOSE i \in DOMAIN Txs : Txs[i] = tx
Earlier(s, t) == s.block < t.block \/ (s.block = t.block /\ Hash(s.tx) < Hash(t.tx))

\* What was found, each swap once, in this order.
InOrder ==
    CHOOSE s \in [DOMAIN found -> ToSet(found)] :
       /\ ToSet(s) = ToSet(found)
       /\ \A i, j \in DOMAIN s : i < j => Earlier(s[i], s[j])

\* The first MAX_TXS are analyzed.
Scanned ==
    /\ phase = "scanning" /\ start > to
    /\ phase' = "analyzing"
    /\ found' = SubSeq(InOrder, 1, IF Len(found) < MAX_TXS THEN Len(found) ELSE MAX_TXS)
    /\ UNCHANGED <<chainVars, searchVars, start, rowVars>>

\* Nothing is rescued before there are rows.
Aborts ==
    /\ phase \in {"searching", "scanning"}
    /\ phase' = "failed"
    /\ UNCHANGED <<chainVars, searchVars, start, found, rowVars>>

(***************************************************************************)
(* Rows                                                                    *)
(***************************************************************************)
\* analyze_swap: premiums are for transactions sent to the router in whose trace
\* the venue is found.
SwapKinds(tx) == {"error"} \cup IF tx \in Wrapped THEN {"wrapper"} ELSE {"measured", "no frame"}

\* analyze_quote: a premium needs both quotes, neither of which reverted.
QuoteKinds == {"error", "measured", "failed"}

Row(swap, kind) == [swap |-> swap, kind |-> kind]

Analyze ==
    /\ phase = "analyzing" /\ Len(swapRows) < Len(found)
    /\ LET swap == found[Len(swapRows) + 1]
       IN  /\ seen' = seen \cup ({swap.maker} \cap PROPAMMS)
           /\ \E kind \in SwapKinds(swap.tx) : swapRows' = Append(swapRows, Row(swap, kind))
           /\ \E kind \in QuoteKinds : quoteRows' = Append(quoteRows, Row(swap, kind))
    /\ UNCHANGED <<chainVars, phase, searchVars, start, found>>

\* Named venues that no row is about get one that says so.
Idle(venue) == Row([tx |-> "none", block |-> 0, maker |-> venue], "idle")

Finish ==
    LET idle == SetToSeq(PROPAMMS \ seen)
        note == [i \in DOMAIN idle |-> Idle(idle[i])]
    IN  /\ phase = "analyzing" /\ Len(swapRows) = Len(found)
        /\ phase' = "done"
        /\ swapRows' = swapRows \o note
        /\ quoteRows' = quoteRows \o note
        /\ UNCHANGED <<chainVars, searchVars, start, found, seen>>

SurveyInit ==
    /\ clock \in Clocks /\ block \in [Sent -> 0 .. LATEST]
    /\ to \in 1 .. LATEST /\ days \in Days
    /\ phase = "searching"
    /\ lo = 1 /\ hi = LATEST
    /\ start = 0
    /\ found = <<>>
    /\ seen = {} /\ swapRows = <<>> /\ quoteRows = <<>>

SurveyNext ==
    Halve \/ Found \/ ScanWindow \/ Scanned \/ Aborts \/ Analyze \/ Finish

SurveySpec == SurveyInit /\ [][SurveyNext]_surveyVars

(***************************************************************************)
(* Properties                                                              *)
(***************************************************************************)
\* The transactions that routed a swap in the last days of the window.
Routed == {tx \in Sent : block[tx] \in 1 .. to /\ clock[block[tx]] >= Target}

\* A survey that ends has one row, of swaps and of quotes, for every transaction that
\* routed a swap in the time asked for, whatever the timestamps, the windows and
\* the requests that failed; of more than MAX_TXS the oldest.
EverySwapOnce ==
    phase = "done" =>
       LET about(rows, tx) == {i \in DOMAIN rows : rows[i].swap.tx = tx}
           older(tx) == {other \in Routed : block[other] < block[tx]}
           younger(tx) == {other \in Routed : block[other] > block[tx]}
       IN  \A tx \in Sent : \A rows \in {swapRows, quoteRows} :
              /\ Cardinality(about(rows, tx)) <= 1
              /\ about(rows, tx) # {} => tx \in Routed /\ Cardinality(older(tx)) < MAX_TXS
              /\ (tx \in Routed /\ Cardinality(Routed \ younger(tx)) <= MAX_TXS)
                    => about(rows, tx) # {}
=============================================================================
