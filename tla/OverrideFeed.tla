---------------------------- MODULE OverrideFeed ----------------------------
(***************************************************************************)
(* What the Python SDK makes of Titan's state overrides: how a payload is  *)
(* parsed, how OverridesWsSource accumulates frames, and the override map  *)
(* an eth_call is given (src/sdk/python/src/propamm/overrides/__init__.py).*)
(*                                                                         *)
(* A storage slot of a contract is a cell; an entry of a payload writes    *)
(* the cells of its market maker, each with the block it was generated at, *)
(* which stands for the value.  Slot and timestamp of a payload come and   *)
(* go with its block and are left out; so are JSON, hex words and the      *)
(* spelling of addresses.  When the listener runs, and which calls it      *)
(* answers, is WsListener's.                                               *)
(***************************************************************************)
EXTENDS Naturals, FiniteSets

CONSTANTS
    Makers,             \* quote addresses
    Addresses, Names,   \* what selects the entry of a maker (_entry_selected)
    Cells,
    Writes,             \* the cells the entry of a maker overrides
    Bebop, BebopCell,   \* BEBOP and the slot of its price
    Payloads,           \* what Titan may send
    MaxBlock

ASSUME FeedMakers ==
    /\ Bebop \in Makers /\ IsFiniteSet(Makers)
    /\ Names \in [Makers -> SUBSET Addresses]
ASSUME FeedCells ==
    /\ Writes \in [Makers -> SUBSET Cells]
    /\ BebopCell \in Writes[Bebop]
ASSUME FeedBlocks == MaxBlock \in Nat

(***************************************************************************)
(* A payload, v1 or v2, holds entries: their place in it, whether their    *)
(* diff is blank, and how many blocks they lag behind the payload's.       *)
(* Entries without a quote address are dropped and left out.               *)
(***************************************************************************)
Entry == [place : 1 .. Cardinality(Makers), blank : BOOLEAN, lag : {0, 1}]
Partial(f, S, T) == DOMAIN f \subseteq S /\ f \in [DOMAIN f -> T]

\* Blank entries are dropped.
Kept(payload) == {m \in DOMAIN payload.entries : ~payload.entries[m].blank}

Fresh(payload, m) == payload.entries[m].lag = 0

\* The newest entry of a payload is of its block.
ASSUME FeedPayloads ==
    \A p \in Payloads :
       /\ p.version \in {1, 2} /\ Partial(p.entries, Makers, Entry)
       /\ Kept(p) # {} => \E m \in Kept(p) : Fresh(p, m)

VARIABLES
    head,               \* the newest block Titan has generated overrides for
    published,          \* the block of the latest entry of each maker
    up,                 \* the listener has a connection
    hasFrame,
    snapshot            \* what the source has accumulated

feedVars == <<head, published, up, hasFrame, snapshot>>

(***************************************************************************)
(* OverridesSnapshot: the place of each maker in the dict per_pamm, the    *)
(* block of what it wrote, and the block context, 0 for None.              *)
(***************************************************************************)
Held(s) == DOMAIN s.diffs

IsSnapshot(s) ==
    /\ Partial(s.place, Makers, Nat)
    /\ Partial(s.diffs, Makers, 0 .. MaxBlock)
    /\ s.block \in 0 .. MaxBlock
    /\ s = [place |-> s.place, diffs |-> s.diffs, block |-> s.block]
    /\ DOMAIN s.place = Held(s)

Empty == [place |-> [m \in {} |-> 0], diffs |-> [m \in {} |-> 0], block |-> 0]

FeedTypeOK ==
    /\ head \in 0 .. MaxBlock
    /\ published \in [Makers -> 0 .. MaxBlock]
    /\ {up, hasFrame} \subseteq BOOLEAN
    /\ IsSnapshot(snapshot)

\* Mutant of Context: the oldest block is kept.
OldestContext(payload, at) ==
    IF payload.version = 1 \/ \A m \in Kept(payload) : Fresh(payload, m) THEN at
    ELSE IF Kept(payload) = {} THEN 0 ELSE at - 1

\* A v1 payload has one block; among the entries of a v2 payload the newest
\* block is kept.
Context(payload, at) ==
    IF payload.version = 1 \/ \E m \in Kept(payload) : Fresh(payload, m) THEN at
    ELSE IF Kept(payload) = {} THEN 0 ELSE at - 1

\* parse_overrides_message, for a payload generated at a block.
Parse(payload, at) ==
    [place |-> [m \in Kept(payload) |-> payload.entries[m].place],
     diffs |-> [m \in Kept(payload) |-> at - payload.entries[m].lag],
     block |-> Context(payload, at)]

\* dict.update: a key that is written again keeps its place, new ones follow.
Merged(old, new) ==
    [m \in DOMAIN old \cup DOMAIN new |->
        IF m \in DOMAIN new THEN new[m] ELSE old[m]]

Behind(old, new) ==
    [m \in DOMAIN old \cup DOMAIN new |->
        IF m \in DOMAIN old THEN old[m]
        ELSE new[m] + Cardinality(Makers) * Cardinality(DOMAIN old)]

\* _handle_frame: entries of other makers stay; the block context of the frame
\* takes the place of the one before.
Accumulate(s, frame) ==
    [place |-> Behind(s.place, frame.place),
     diffs |-> Merged(s.diffs, frame.diffs),
     block |-> IF frame.block = 0 THEN s.block ELSE frame.block]

(***************************************************************************)
(* to_state_override: the last maker in the dict to write a cell decides   *)
(* what it holds; Bebop's price is zero unless Bebop's entry is there.     *)
(***************************************************************************)
Cleared == 0
Everyone == UNION {Names[m] : m \in Makers}

Selected(s, pamms) == {m \in Held(s) : Names[m] \cap pamms # {}}

StateOverride(s, pamms, bebopDefault) ==
    LET chosen == Selected(s, pamms)
        writers(c) == {m \in chosen : c \in Writes[m]}
        last(c) == CHOOSE m \in writers(c) :
                      \A n \in writers(c) : s.place[n] <= s.place[m]
        zeroed == IF bebopDefault /\ Bebop \notin chosen THEN {BebopCell} ELSE {}
    IN  [c \in zeroed \cup UNION {Writes[m] : m \in chosen} |->
            IF c \in zeroed THEN Cleared ELSE s.diffs[last(c)]]

(***************************************************************************)
(* The stream.  Titan sends payloads of the current block or of the next,  *)
(* and nothing older about a maker than it has sent before.                *)
(***************************************************************************)
\* _handle_frame, for a listener that has a connection.
Hear(frame) ==
    IF up THEN snapshot' = Accumulate(snapshot, frame) /\ hasFrame' = TRUE
          ELSE UNCHANGED <<snapshot, hasFrame>>

Frame(payload, at) ==
    LET frame == Parse(payload, at)
    IN  /\ at \in {head, head + 1} /\ at \in 1 .. MaxBlock
        /\ \A m \in Held(frame) : frame.diffs[m] > 0 /\ frame.diffs[m] >= published[m]
        /\ head' = at
        /\ published' = Merged(published, frame.diffs)
        /\ Hear(frame)
        /\ UNCHANGED up

\* _run: a connection is made, is lost and made again; when the listener ends,
\* what it accumulated stays.
Connects == ~up /\ up' = TRUE /\ UNCHANGED <<head, published, hasFrame, snapshot>>
Drops == up /\ up' = FALSE /\ UNCHANGED <<head, published, hasFrame, snapshot>>

Ends ==
    /\ hasFrame
    /\ up' = FALSE
    /\ hasFrame' = FALSE
    /\ UNCHANGED <<head, published, snapshot>>

FeedInit ==
    /\ head = 0
    /\ published = [m \in Makers |-> 0]
    /\ up = FALSE
    /\ hasFrame = FALSE
    /\ snapshot = Empty

FeedNext ==
    \/ \E payload \in Payloads, at \in 1 .. MaxBlock : Frame(payload, at)
    \/ Connects \/ Drops \/ Ends

FeedSpec == FeedInit /\ [][FeedNext]_feedVars

(***************************************************************************)
(* Properties                                                              *)
(***************************************************************************)
\* The block context covers a snapshot if none of its entries is newer: venues
\* revert on state that was pushed for another block than the simulated one.
Covered(s) == \A m \in Held(s) : s.diffs[m] <= s.block

\* Frame after frame, across lost connections and listeners that ended, what
\* the source has accumulated is covered by the block it will be quoted at.
ContextCovers == Covered(snapshot)
=============================================================================
