------------------------------- MODULE GasRig -------------------------------
(***************************************************************************)
(* The rig that measures the gas of splits: a snapshot of Titan's          *)
(* overrides is assembled (src/scripts/gas/titan_overrides.py), replayed   *)
(* into an anvil fork, and one transaction after another is measured from  *)
(* the same state (src/scripts/gas/split_gas.py).                          *)
(*                                                                         *)
(* A request to anvil is a step, and may fail.  Anvil.call tries again     *)
(* after an internal error, ATTEMPTS times in all, and the request may have*)
(* been carried out all the same: the fork reverted, a snapshot made, a    *)
(* transaction mined, each time in a block of its own.  A transaction may  *)
(* also be mined and its receipt not be seen in time.  Amounts, tokens and *)
(* gas are left out; a trade is what the sizes of the ladders and their    *)
(* directions tell apart.                                                  *)
(***************************************************************************)
EXTENDS Naturals, FiniteSets, Sequences, SequencesExt, Lists

CONSTANTS
    WHITELIST_VENUES,   \* a sequence
    ByAddress,          \* the same venues, sorted
    Trades,             \* a sequence
    MaxVenues,          \* --max-venues
    RigBlocks,          \* what overrides may target
    WS_ATTEMPTS,
    ATTEMPTS,           \* of Anvil.call
    MaxSnapshots,       \* bounds the snapshots whose id is lost
    None

Venue == ToSet(WHITELIST_VENUES)

ASSUME RigInputs ==
    /\ WHITELIST_VENUES \in Seq(Venue) /\ ByAddress \in Seq(Venue)
    /\ ToSet(ByAddress) = Venue /\ Len(ByAddress) = Len(WHITELIST_VENUES)
    /\ Trades \in Seq(ToSet(Trades))
    /\ {MaxVenues, WS_ATTEMPTS, MaxSnapshots} \subseteq Nat
    /\ RigBlocks \subseteq Nat \ {0}
    /\ ATTEMPTS \in Nat \ {0}

VARIABLES
    fallsBack, attempt, \* --source is auto; failed attempts to stream
    heard,              \* block |-> the venues that published for it
    titan,              \* the snapshot of overrides
    task,               \* of the run
    fork,               \* what the chain of anvil holds
    saved, issued,      \* id |-> what a snapshot of anvil holds, ids so far
    base,               \* the id the rig goes back to
    live,               \* trade |-> the venues that quote it
    jobs,               \* measurements to be made, the first one being made
    left,               \* venues to be listed for it
    row                 \* the measurement written, until the next one is begun

streamVars == <<fallsBack, attempt, heard, titan>>
anvilVars == <<fork, saved, issued>>
rigVars == <<streamVars, task, anvilVars, base, live, jobs, left, row>>

(***************************************************************************)
(* Titan's overrides                                                       *)
(***************************************************************************)
Nowhere == [b \in RigBlocks |-> {}]
Unknown == [block |-> 0, venues |-> {}]

\* Entries of one message: the venues and the block each of them targets.
Entries == UNION {[vs -> RigBlocks] : vs \in SUBSET Venue}

Newest(blocks) == CHOOSE b \in blocks : \A other \in blocks : other <= b

\* What fetch_snapshot kept is gone when it returns.
Forget == fallsBack' = FALSE /\ attempt' = 0 /\ heard' = Nowhere

\* fetch_snapshot_ws: entries are grouped by block.
StreamFrame(entries) ==
    /\ task = "streaming"
    /\ heard' = [b \in RigBlocks |-> heard[b] \cup {v \in DOMAIN entries : entries[v] = b}]
    /\ UNCHANGED <<fallsBack, attempt, titan, task, anvilVars, base, live, jobs, left, row>>

\* The newest of the blocks that most venues published for.
Fullest ==
    {b \in RigBlocks : \A other \in RigBlocks : Cardinality(heard[other]) <= Cardinality(heard[b])}

WindowEnds ==
    /\ task = "streaming" /\ heard # Nowhere
    /\ titan' = [block |-> Newest(Fullest), venues |-> heard[Newest(Fullest)]]
    /\ task' = "setup"
    /\ Forget
    /\ UNCHANGED <<anvilVars, base, live, jobs, left, row>>

\* No usable frame, or any error: fetch_snapshot tries again, then asks over HTTP.
StreamFails ==
    /\ task = "streaming"
    /\ attempt' = attempt + 1
    /\ task' = IF attempt' < WS_ATTEMPTS THEN "streaming"
                ELSE IF fallsBack THEN "fetching" ELSE "over"
    /\ heard' = Nowhere
    /\ UNCHANGED <<fallsBack, titan, anvilVars, base, live, jobs, left, row>>

\* fetch_snapshot_rpc: older entries are left out.
FetchOverRpc(entries) ==
    LET blocks == {entries[v] : v \in DOMAIN entries}
    IN  /\ task = "fetching"
        /\ IF blocks = {} THEN task' = "over" /\ UNCHANGED titan
           ELSE /\ task' = "setup"
                /\ titan' = [block |-> Newest(blocks),
                             venues |-> {v \in DOMAIN entries : entries[v] = Newest(blocks)}]
        /\ Forget
        /\ UNCHANGED <<anvilVars, base, live, jobs, left, row>>

(***************************************************************************)
(* Anvil                                                                   *)
(***************************************************************************)
\* The fork with the overrides of the snapshot applied, the clock stopped, the
\* router deployed and the taker funded, and after some transactions: the blocks mined
\* since, and how many of them are of a transaction that was sent again.
Prepared(listed, swaps, mined, resent) ==
    [overrides |-> titan, listed |-> listed, swaps |-> swaps, still |-> TRUE,
     mined |-> mined, resent |-> resent]
Pristine == Prepared({}, 0, 0, 0)

\* A transaction that is carried out again, each time in a block of its own.
Resent(f, again) == [f EXCEPT !.mined = @ + again, !.resent = @ + again]
Repeats == 0 .. ATTEMPTS - 1

SetUp ==
    /\ task = "setup"
    /\ \/ /\ fork' = Pristine
          /\ issued' = issued + 1
          /\ saved' = [id \in {issued'} |-> Pristine]
          /\ base' = issued'
          /\ task' = "revert"
          /\ left' = WHITELIST_VENUES
       \/ task' = "over" /\ UNCHANGED <<anvilVars, base, left>>
    /\ UNCHANGED <<streamVars, live, jobs, row>>

\* A RuntimeError ends the measurement; while venues are probed, the run.
NextJob ==
    /\ jobs' = Tail(jobs)
    /\ IF jobs' = <<>> THEN task' = "over" /\ left' = <<>>
       ELSE task' = "revert" /\ left' = Head(jobs').venues

GiveUp ==
    IF jobs = <<>> THEN task' = "over" /\ UNCHANGED <<jobs, left>> ELSE NextJob

\* evm_revert gives a snapshot up, and those made after it; of one that is gone it
\* says so, which Anvil.revert does not look at.  The clock runs again.
Rewind ==
    IF base \in DOMAIN saved
    THEN /\ fork' = [saved[base] EXCEPT !.still = FALSE]
         /\ saved' = [id \in {i \in DOMAIN saved : i < base} |-> saved[id]]
    ELSE UNCHANGED <<fork, saved>>

Revert ==
    /\ task = "revert"
    /\ \/ Rewind /\ task' = "freeze" /\ UNCHANGED <<jobs, left>>
       \/ Rewind /\ UNCHANGED <<task, jobs, left>>
       \/ Rewind /\ GiveUp
       \/ UNCHANGED <<fork, saved>> /\ GiveUp
    /\ row' = None
    /\ UNCHANGED <<streamVars, issued, base, live>>

Freeze ==
    /\ task = "freeze"
    /\ \/ fork' = [fork EXCEPT !.still = TRUE] /\ task' = "arm" /\ UNCHANGED <<jobs, left>>
       \/ UNCHANGED fork /\ GiveUp
    /\ UNCHANGED <<streamVars, saved, issued, base, live, row>>

\* Mutant of Rearmed: the first snapshot is good for every reset.
RearmedOnce(id) == base

\* Rig.reset arms the next one.
Rearmed(id) == id

Take ==
    /\ issued' = issued + 1
    /\ saved' = [id \in DOMAIN saved \cup {issued'} |-> IF id = issued' THEN fork ELSE saved[id]]

Arm ==
    /\ task = "arm"
    /\ \/ Take /\ base' = Rearmed(issued') /\ task' = "list" /\ UNCHANGED <<jobs, left>>
       \/ /\ issued < MaxSnapshots
          /\ Take /\ UNCHANGED base
          /\ (UNCHANGED <<task, jobs, left>> \/ GiveUp)
       \/ UNCHANGED <<saved, issued, base>> /\ GiveUp
    /\ UNCHANGED <<streamVars, fork, live, row>>

\* set_whitelist: one addVenue after another; of a venue that is listed it reverts,
\* which is not looked at.
ListVenue ==
    /\ task = "list" /\ left # <<>>
    /\ \/ /\ \E again \in Repeats :
                fork' = [Resent(fork, again) EXCEPT !.listed = @ \cup {Head(left)}, !.mined = @ + 1]
          /\ (left' = Tail(left) /\ UNCHANGED <<task, jobs>>) \/ GiveUp
       \/ UNCHANGED fork /\ GiveUp
    /\ UNCHANGED <<streamVars, saved, issued, base, live, row>>

(***************************************************************************)
(* What is measured                                                        *)
(***************************************************************************)
Among(venues, seq) == ElementsAt(seq, {i \in DOMAIN seq : seq[i] \in venues})
Prefix(seq, n) == SubSeq(seq, 1, n)
Least(m, n) == IF m < n THEN m ELSE n
Most(m, n) == IF m < n THEN n ELSE m

\* Live venues first, padded from those live at other sizes, then the stale ones.
Ordered(quoting, anywhere, trade) ==
    Among(quoting[trade], WHITELIST_VENUES)
       \o Among(anywhere \ quoting[trade], ByAddress)
       \o Among(Venue \ anywhere, WHITELIST_VENUES)

Job(shape, trade, venues) == [shape |-> shape, trade |-> trade, venues |-> venues]

Shapes(quoting, anywhere, trade) ==
    LET ordered == Ordered(quoting, anywhere, trade)
        count == Cardinality(quoting[trade])
        best == Prefix(ordered, Least(Len(ordered), Most(2, count)))
        splits == Least(MaxVenues, Len(ordered))
    IN  <<Job("via Uniswap", trade, <<>>)>>
           \o (IF count = 0 THEN <<>> ELSE <<Job("via venue", trade, Prefix(ordered, 1))>>)
           \o <<Job("swapV1", trade, best)>>
           \o [n \in 1 .. splits - 1 |-> Job("swapSplitV1", trade, Prefix(ordered, n + 1))]

\* Which venues quote a trade; one that reverts, or answers with zero, does not.
Quoting == [ToSet(Trades) -> SUBSET Venue]

\* Every venue is probed for every trade, by eth_calls that change nothing.
Probe(quoting) ==
    LET anywhere == UNION {quoting[t] : t \in DOMAIN quoting}
    IN  /\ task = "list" /\ left = <<>> /\ jobs = <<>>
        /\ live' = quoting
        /\ jobs' = FlattenSeq([i \in DOMAIN Trades |-> Shapes(quoting, anywhere, Trades[i])])
        /\ IF anywhere = {} THEN task' = "over" /\ UNCHANGED left
           ELSE task' = "revert" /\ left' = Head(jobs').venues
        /\ UNCHANGED <<streamVars, anvilVars, base, row>>

\* The swap, which may revert: that is a measurement too.  The receipt is that of the
\* last one, when it was sent again.
Measure ==
    LET before(again) == [Resent(fork, again) EXCEPT !.swaps = @ + again]
        after(again) == [before(again) EXCEPT !.swaps = @ + 1, !.mined = @ + 1]
    IN  /\ task = "list" /\ left = <<>> /\ jobs # <<>>
        /\ \/ \E again \in Repeats, outcome \in {"ok", "reverted"} :
                 /\ row' = [job |-> Head(jobs), status |-> outcome, on |-> before(again),
                            again |-> again,
                            live |-> Cardinality(ToSet(Head(jobs).venues)
                                                    \cap live[Head(jobs).trade])]
                 /\ fork' = after(again)
           \/ /\ fork' \in {fork} \cup {after(again) : again \in Repeats}
              /\ UNCHANGED row
        /\ NextJob
        /\ UNCHANGED <<streamVars, saved, issued, base, live>>

RigInit ==
    /\ \E source \in {"ws", "rpc", "auto"} :
          /\ fallsBack = (source = "auto")
          /\ task = IF source = "rpc" THEN "fetching" ELSE "streaming"
    /\ attempt = 0
    /\ heard = Nowhere
    /\ titan = Unknown
    /\ fork = Pristine
    /\ saved = [id \in {} |-> Pristine]
    /\ issued = 0 /\ base = 0
    /\ live = [t \in ToSet(Trades) |-> {}]
    /\ jobs = <<>> /\ left = <<>>
    /\ row = None

RigNext ==
    \/ \E entries \in Entries : StreamFrame(entries) \/ FetchOverRpc(entries)
    \/ WindowEnds \/ StreamFails \/ SetUp
    \/ Revert \/ Freeze \/ Arm \/ ListVenue \/ Measure
    \/ \E quoting \in Quoting : Probe(quoting)

RigSpec == RigInit /\ [][RigNext]_rigVars

(***************************************************************************)
(* Properties                                                              *)
(***************************************************************************)
\* Whatever request failed, was repeated or half made, what is measured ran on the fork
\* as it was set up, with a clock that stands still and just its own venues listed,
\* after no swap but itself, in the block that follows theirs: shapes with as many
\* venues are measured in the same block, but for transactions that were sent again.
EqualFooting ==
    row # None =>
       LET listed == row.job.venues
           resent == row.on.resent
       IN  row.on = Prepared(ToSet(listed), row.again, Len(listed) + resent, resent)
=============================================================================
