------------------------------ MODULE MCPython ------------------------------
(***************************************************************************)
(* The Python of the repository for TLC.  What shares no state has a scene *)
(* of its own: quotes over streamed overrides, transactions and price books*)
(* of the SDK; the rig, the survey and the traces of the scripts.          *)
(***************************************************************************)
EXTENDS RouterQuotes, SwapClient, PriceBooks, GasRig, GasSurvey, GasTrace, TLC

CONSTANTS bebop, m1, m2, bebopCell, c1, c2, v1, v2, w, u, x, q1, q2, q3, venue,
          t1, t2, tx1, tx2, tx3

VARIABLE scene

(***************************************************************************)
(* Quotes: two market makers that write a cell in common, and Bebop.       *)
(***************************************************************************)
OwnNames == [m \in {bebop, m1, m2} |-> {m}]
SharedCells == (bebop :> {bebopCell}) @@ (m1 :> {c1, c2}) @@ (m2 :> {c2})

Fill(place, lag) == [place |-> place, blank |-> FALSE, lag |-> lag]
Blank(place) == [place |-> place, blank |-> TRUE, lag |-> 0]
V1(entries) == [version |-> 1, entries |-> entries]
V2(entries) == [version |-> 2, entries |-> entries]

Frames ==
    {V2(bebop :> Fill(1, 0) @@ m1 :> Fill(2, 1)), V2(m1 :> Fill(1, 0) @@ m2 :> Fill(2, 0)),
     V1(m2 :> Fill(1, 0) @@ bebop :> Blank(2)), V1(m1 :> Blank(1)), V2(bebop :> Blank(1))}

Ask(method, all, listed, source, default) ==
    [method |-> method, all |-> all, venues |-> listed, source |-> source,
     bebopDefault |-> default]

Asked ==
    {Ask("get_quotes", TRUE, {}, "attached", TRUE), Ask("get_quotes", FALSE, {v1, v2}, "rpc", TRUE),
     Ask("quote", TRUE, {}, "attached", FALSE), Ask("quote", FALSE, {v1, v2}, "none", TRUE),
     Ask("quote", FALSE, {}, "none", TRUE)}

(***************************************************************************)
(* Transactions: an approval, and swaps with and without value and fee.    *)
(***************************************************************************)
Wanted(kind, listed, eth, bps, unpaid) ==
    [kind |-> kind, listed |-> listed, eth |-> eth, amount |-> 1, plain |-> bps = 0,
     bps |-> bps, unpaid |-> unpaid, capped |-> FALSE]

Wanting ==
    {Wanted("approve", "all", FALSE, 0, FALSE), Wanted("swap", "one", TRUE, 1, FALSE),
     Wanted("swap", "none", TRUE, 0, FALSE), Wanted("swap", "all", FALSE, 1, TRUE),
     Wanted("swap", "several", FALSE, MAX_FEE_BPS + 1, FALSE)}

(***************************************************************************)
(* Price books: two quote addresses of one venue and a venue of its own, a *)
(* token with decimals only the caller knows, and one with impossible ones.*)
(***************************************************************************)
Metric == (q1 :> venue) @@ (q2 :> venue)
BuiltIn == (w :> 1) @@ (u :> 2)
Added == {(u :> 0) @@ (x :> MAX_DECIMALS + 1)}

Rung(volume, price) == [volume |-> volume, price |-> price]
Side == {<<>>, <<Rung(1, 3)>>, <<Rung(0, 2), Rung(3, 5)>>,
         <<Rung(1, Malformed), Rung(2, 1)>>, <<Rung(1, 1), Rung(9, 9)>>}
Book(quote, one, two, bids, asks) ==
    [quote |-> quote, token1 |-> one, token2 |-> two, bids |-> bids, asks |-> asks]

Published ==
    {Malformed} \cup {Book(q, w, u, bids, asks) : q \in {q1, q2}, bids \in Side, asks \in Side}
       \cup {Book(q, u, t, <<Rung(1, 3), Rung(3, 5)>>, <<Rung(2, 1)>>) :
                q \in {q2, q3, Malformed}, t \in {w, x, Malformed}}
       \cup {Book(q1, u, u, bids, <<Rung(2, 1)>>) : bids \in {<<>>, <<Rung(1, 3)>>}}

(***************************************************************************)
(* Scripts: two venues and two trades; three transactions, the second one a*)
(* split, the maker of the third none of the named venues.                 *)
(***************************************************************************)
Whitelist == <<v1, v2>>
Sorted == <<v2, v1>>
Ladder == <<t1, t2>>

Hashes == <<tx1, tx2, tx3>>
Logged == (tx1 :> <<v1>>) @@ (tx2 :> <<v2, v1>>) @@ (tx3 :> <<"other">>)
Minutes == {<<1, 2, 4, 5>>, <<2, 3, 4, 5>>, <<1, 2, 3, 6>>}

(***************************************************************************)
(* The scenes, and what they leave alone                                   *)
(***************************************************************************)
SdkInit == QuotesInit /\ SwapsInit /\ BooksInit
sdkVars == <<quoteVars, swapVars, bookVars>>
scriptVars == <<rigVars, surveyVars, traceVars>>

RigAside == RigInit /\ task = "fetching"
SurveyAside ==
    /\ clock = <<1, 2, 4, 5>> /\ block = [tx \in Sent |-> 0] /\ to = 1 /\ days = 0
    /\ SurveyInit
TraceAside == used = 1 /\ TraceInit

Init ==
    /\ SdkInit
    /\ \/ scene \in {"quotes", "swaps", "books"} /\ RigAside /\ SurveyAside /\ TraceAside
       \/ scene = "rig" /\ RigInit /\ SurveyAside /\ TraceAside
       \/ scene = "survey" /\ RigAside /\ SurveyInit /\ TraceAside
       \/ scene = "trace" /\ RigAside /\ SurveyAside /\ TraceInit

Next ==
    /\ \/ scene = "quotes" /\ QuotesNext /\ UNCHANGED <<swapVars, bookVars, scriptVars>>
       \/ scene = "swaps" /\ SwapsNext /\ UNCHANGED <<quoteVars, bookVars, scriptVars>>
       \/ scene = "books" /\ BooksNext /\ UNCHANGED <<quoteVars, swapVars, scriptVars>>
       \/ scene = "rig" /\ RigNext /\ UNCHANGED <<sdkVars, surveyVars, traceVars>>
       \/ scene = "survey" /\ SurveyNext /\ UNCHANGED <<sdkVars, rigVars, traceVars>>
       \/ scene = "trace" /\ TraceNext /\ UNCHANGED <<sdkVars, rigVars, surveyVars>>
    /\ UNCHANGED scene

Spec == Init /\ [][Next]_<<scene, sdkVars, scriptVars>>
=============================================================================
