---------------------------- MODULE RouterQuotes ----------------------------
(***************************************************************************)
(* Quotes of the Python SDK: PropAmmRouter.quote and get_quotes, and the   *)
(* eth_calls they make (src/sdk/python/src/propamm/router/bindings.py and  *)
(* .../client.py), over the overrides that OverrideFeed accumulates.       *)
(* Callers and the calls of one get_quotes are coroutines: frames and other*)
(* answers come in at every await.                                         *)
(*                                                                         *)
(* An eth_call is answered with an amount, with a revert, with some other  *)
(* error of the node, or not at all.  Addresses, ABI encoding, the names of*)
(* custom errors and the order in which quotes are listed are left out.    *)
(***************************************************************************)
EXTENDS OverrideFeed

CONSTANTS
    Callers,
    Venues,             \* what the router may have whitelisted
    Orders,             \* the quotes that callers ask for
    MaxAmount

\* method: which of the two; all: opts.venues is None; source: opts.overrides.
Order == [method : {"quote", "get_quotes"}, all : BOOLEAN, venues : SUBSET Venues,
          source : {"attached", "rpc", "none"}, bebopDefault : BOOLEAN]

ASSUME QuoteOrders == Orders \subseteq Order
ASSUME QuoteAmounts == MaxAmount \in Nat

VARIABLES
    stage, order,
    targets,            \* the sets of venues to make a call for
    held,               \* the snapshot resolved for the quote
    sent,               \* the overrides each call was made with
    reply               \* what the node said

callVars == <<stage, order, targets, held, sent, reply>>
quoteVars == <<feedVars, callVars>>

Stages == {"idle", "listing", "resolving", "calling", "quoted", "failed"}

\* An amount; or beyond them all a revert, a JSON-RPC error of another kind (an
\* unknown header, a rate limit), or a transport that failed.
Reverted == MaxAmount + 1
Refused == MaxAmount + 2
Broken == MaxAmount + 3
Replies == 0 .. Broken

QuotesTypeOK ==
    /\ FeedTypeOK
    /\ stage \in [Callers -> Stages]
    /\ order \in [Callers -> Order]
    /\ targets \in [Callers -> SUBSET SUBSET Venues]
    /\ {DOMAIN held, DOMAIN sent, DOMAIN reply} = {Callers}
    /\ \A c \in Callers :
          /\ IsSnapshot(held[c])
          /\ DOMAIN reply[c] \subseteq DOMAIN sent[c]
          /\ DOMAIN sent[c] \subseteq targets[c]
          /\ \A t \in DOMAIN sent[c] : Partial(sent[c][t].map, Cells, 0 .. MaxBlock)
          /\ \A t \in DOMAIN reply[c] : reply[c][t] \in Replies

Set(f, c, value) == [f EXCEPT ![c] = value]
Move(c, to) == stage' = Set(stage, c, to)
Nothing == [t \in {} |-> 0]

(***************************************************************************)
(* The steps of a quote                                                    *)
(***************************************************************************)
\* _venue_dispatch, which refuses an empty list, and the candidates of
\* get_quotes, for which an empty list is none at all.
Begin(c, o) ==
    /\ stage[c] \in {"idle", "quoted", "failed"}
    /\ Move(c, IF o.method = "quote"
               THEN IF ~o.all /\ o.venues = {} THEN "failed" ELSE "resolving"
               ELSE IF o.all \/ o.venues = {} THEN "listing" ELSE "resolving")
    /\ order' = Set(order, c, o)
    /\ targets' = Set(targets, c, IF o.method = "get_quotes" THEN {{v} : v \in o.venues}
                                  ELSE IF o.all THEN {{}} ELSE {o.venues})
    /\ held' = Set(held, c, Empty)
    /\ sent' = Set(sent, c, Nothing)
    /\ reply' = Set(reply, c, Nothing)
    /\ UNCHANGED feedVars

\* get_whitelisted_venues: what the router has listed when the node answers.
List(c, listed) ==
    /\ stage[c] = "listing"
    /\ Move(c, "resolving")
    /\ targets' = Set(targets, c, {{v} : v \in listed})
    /\ UNCHANGED <<feedVars, order, held, sent, reply>>

\* titan_getPammVenues: everything published, in an order of Titan's own.
Known == {m \in Makers : published[m] > 0}
Full == [place |-> CHOOSE f \in [Known -> 1 .. Cardinality(Makers)] :
                      \A m, n \in Known : m # n => f[m] # f[n],
         diffs |-> [m \in Known |-> published[m]],
         block |-> head]

\* _resolve_snapshot: a copy of what the attached source accumulated, a full
\* snapshot over HTTP, or none.
Resolve(c) ==
    /\ stage[c] = "resolving"
    /\ Move(c, "calling")
    /\ \/ order[c].source = "none" /\ UNCHANGED held
       \/ order[c].source = "attached" /\ hasFrame /\ held' = Set(held, c, snapshot)
       \/ order[c].source = "rpc" /\ held' = Set(held, c, Full)
    /\ UNCHANGED <<feedVars, order, targets, sent, reply>>

\* The node or the source fails, or the source was closed: the error surfaces.
Fail(c) ==
    /\ \/ stage[c] = "listing"
       \/ stage[c] = "resolving" /\ order[c].source # "none"
    /\ Move(c, "failed")
    /\ UNCHANGED <<feedVars, order, targets, held, sent, reply>>

\* Mutant of Given: every call of get_quotes resolves its own snapshot.
GivenAnew(c) == IF order[c].source = "attached" THEN snapshot ELSE held[c]

\* The snapshot a call is made with is the one that was resolved: get_overrides
\* copied it, and get_quotes hands it to every call.
Given(c) == held[c]

\* _resolve_overrides: no block context without overrides.
Request(c) ==
    LET map == StateOverride(Given(c), Everyone, order[c].bebopDefault)
    IN  IF order[c].source = "none" \/ DOMAIN map = {}
        THEN [map |-> Nothing, block |-> 0]
        ELSE [map |-> map, block |-> Given(c).block]

\* call_with_overrides, for one of the targets.
Call(c, t) ==
    /\ stage[c] = "calling"
    /\ t \in targets[c] \ DOMAIN sent[c]
    /\ sent' = Set(sent, c, [u \in DOMAIN sent[c] \cup {t} |->
                                IF u = t THEN Request(c) ELSE sent[c][u]])
    /\ UNCHANGED <<feedVars, stage, order, targets, held, reply>>
IsRevertError(r) == r \in {Reverted, Refused}

\* Mutant of Surfaces: get_quotes takes any failure for an answer.
SurfacesToQuote(c, r) ==
    (r = Broken \/ IsRevertError(r)) /\ order[c].method = "quote"

\* call_with_overrides makes a RevertError of every JSON-RPC error, and
\* get_quotes takes a RevertError for a venue that does not price the pair.
Surfaces(c, r) == r = Broken \/ (IsRevertError(r) /\ order[c].method = "quote")

\* The first error is that of the whole call; what is under way is forgotten.
\* (The call of a get_quotes without candidates ends at once.)
Answer(c, t, r) ==
    /\ stage[c] = "calling"
    /\ t \in DOMAIN sent[c] \ DOMAIN reply[c]
    /\ reply' = Set(reply, c, [u \in DOMAIN reply[c] \cup {t} |->
                                  IF u = t THEN r ELSE reply[c][u]])
    /\ IF Surfaces(c, r) THEN Move(c, "failed") ELSE UNCHANGED stage
    /\ UNCHANGED <<feedVars, order, targets, held, sent>>

\* gather is done.
Return(c) ==
    /\ stage[c] = "calling"
    /\ DOMAIN reply[c] = targets[c]
    /\ Move(c, "quoted")
    /\ UNCHANGED <<feedVars, order, targets, held, sent, reply>>

\* What get_quotes returns: the venues that quote something.
Board(c) == {t \in DOMAIN reply[c] : reply[c][t] \in 1 .. MaxAmount}

QuotesInit ==
    /\ FeedInit
    /\ stage = [c \in Callers |-> "idle"]
    /\ order = [c \in Callers |-> [method |-> "quote", all |-> TRUE, venues |-> {},
                                   source |-> "none", bebopDefault |-> TRUE]]
    /\ targets = [c \in Callers |-> {}]
    /\ held = [c \in Callers |-> Empty]
    /\ sent = [c \in Callers |-> Nothing]
    /\ reply = [c \in Callers |-> Nothing]

Feed == FeedNext /\ UNCHANGED callVars

QuotesNext ==
    \/ Feed
    \/ \E c \in Callers :
          \/ \E o \in Orders : Begin(c, o)
          \/ \E listed \in SUBSET Venues : List(c, listed)
          \/ Resolve(c) \/ Fail(c) \/ Return(c)
          \/ \E t \in SUBSET Venues :
                Call(c, t) \/ \E r \in Replies : Answer(c, t, r)

QuotesSpec == QuotesInit /\ [][QuotesNext]_quoteVars

(***************************************************************************)
(* Properties                                                              *)
(***************************************************************************)
\* The amounts of one get_quotes can be compared: its calls, made and answered
\* while frames come in, carried the same overrides and the same block.
BoardIsComparable ==
    \A c \in Callers : \A t, u \in DOMAIN sent[c] : sent[c][t] = sent[c][u]

\* A call that ends well left no venue out but those whose call was answered, with
\* zero or with an error, whichever of its calls failed and when.
BoardIsComplete ==
    \A c \in Callers :
       stage[c] = "quoted" =>
          \A t \in targets[c] :
             t \in Board(c) \/ reply[c][t] = 0 \/ IsRevertError(reply[c][t])

\* bindings.py says that only a revert means that a venue does not price the
\* pair, and that anything else, of the node too, must surface.
OnlyRevertsAreDropped ==
    \A c \in Callers : stage[c] = "quoted" => \A t \in targets[c] : reply[c][t] # Refused

\* No call runs at a block older than what it is given, whatever frames were
\* missed, and Bebop's price is never left to what is on the chain.
CallsAreCovered ==
    \A c \in Callers : \A t \in DOMAIN sent[c] :
       LET made == sent[c][t]
       IN  /\ \A cell \in DOMAIN made.map : made.map[cell] <= made.block
           /\ order[c].bebopDefault /\ order[c].source # "none"
                 => BebopCell \in DOMAIN made.map
=============================================================================
