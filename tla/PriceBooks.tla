----------------------------- MODULE PriceBooks -----------------------------
(***************************************************************************)
(* How the Python SDK reads a price-levels payload of version 2: the books *)
(* of the market makers, in human units, become one order book of integer  *)
(* amounts per venue and direction                                         *)
(* (src/sdk/python/src/propamm/prices/__init__.py).                        *)
(*                                                                         *)
(* A step reads one more book of the payload, so that every state is a     *)
(* payload that has been read.  A decimal number is an integer count of    *)
(* steps of RADIX^-FRACTION; what is not a number, an address or an object *)
(* is Malformed.  When frames come in, and which call reads which, is      *)
(* WsListener's; slot, block and timestamp are left out.                   *)
(***************************************************************************)
EXTENDS Naturals, Sequences, Lists

CONSTANTS
    Tokens,
    QuoteAddresses,     \* what a maker may publish its books under
    QUOTE_ADDRESS_VENUES, TOKEN_DECIMALS,
    Extras,             \* the decimals a caller may add
    Books,              \* what Titan may send
    MaxBooks,           \* bounds the payload
    RADIX, FRACTION, MAX_DECIMALS, MAX_UINT256,
    Malformed

ASSUME BookBounds ==
    /\ {MaxBooks, RADIX, FRACTION, MAX_DECIMALS, MAX_UINT256} \subseteq Nat
    /\ RADIX > 1
ASSUME BooksOfTitan ==
    LET Number == Nat \cup {Malformed}
    IN  \A book \in Books \ {Malformed} :
           {book.bids, book.asks}
              \subseteq Seq([volume : Number, price : Number] \cup {Malformed})
ASSUME BookTables ==
    /\ DOMAIN QUOTE_ADDRESS_VENUES \subseteq QuoteAddresses
    /\ \A t \in {TOKEN_DECIMALS} \cup Extras : DOMAIN t \subseteq Tokens

VARIABLES
    table,              \* the decimals of the source
    payload,            \* the books read so far
    filed               \* <<venue, token in, token out>> |-> its order book

bookVars == <<table, payload, filed>>

(***************************************************************************)
(* Numbers                                                                 *)
(***************************************************************************)
\* RADIX to the n-th; the product of two numbers counts steps of their square.
Power[n \in 0 .. MAX_DECIMALS + 2 * FRACTION] == IF n = 0 THEN 1 ELSE RADIX * Power[n - 1]

Scale == Power[2 * FRACTION]
Whole(n) == n * Power[FRACTION]

HalfUp(n, d) == (2 * n + d) \div (2 * d)

BaseUnits(value, decimals) ==
    LET units == HalfUp(value * Power[decimals], Scale)
    IN  IF units <= MAX_UINT256 THEN units ELSE Malformed

IsTokenDecimals(d) == d \in 0 .. MAX_DECIMALS

\* _decimals_table: what the caller adds overrides the built-in table.
DecimalsTable(extra) ==
    [t \in DOMAIN TOKEN_DECIMALS \cup DOMAIN extra |->
        IF t \in DOMAIN extra THEN extra[t] ELSE TOKEN_DECIMALS[t]]

(***************************************************************************)
(* One book                                                                *)
(***************************************************************************)
WellFormed(rung) == rung # Malformed /\ rung.volume # Malformed /\ rung.price # Malformed

\* What a rung trades of token1 and of token2.
Rungs(side) ==
    LET sound == ElementsAt(side, {i \in DOMAIN side : WellFormed(side[i])})
    IN  [i \in DOMAIN sound |-> [one |-> Whole(sound[i].volume),
                                 two |-> sound[i].volume * sound[i].price]]

\* Mutant of IsLevel: zero is as good as any amount.
IsLevelOrFree(level) == level.amountIn # Malformed /\ level.amountOut # Malformed

\* A zero amount in would read as a free fill; a zero amount out is kept.
IsLevel(level) == level.amountIn \notin {0, Malformed} /\ level.amountOut # Malformed

Levels(units) == ElementsAt(units, {i \in DOMAIN units : IsLevel(units[i])})

\* Bids sell token1 for token2.
Bids(book) ==
    LET rungs == Rungs(book.bids)
    IN  Levels([i \in DOMAIN rungs |->
                   [amountIn |-> BaseUnits(rungs[i].one, table[book.token1]),
                    amountOut |-> BaseUnits(rungs[i].two, table[book.token2])]])

\* Asks pay token2 for token1.
Asks(book) ==
    LET rungs == Rungs(book.asks)
    IN  Levels([i \in DOMAIN rungs |->
                   [amountIn |-> BaseUnits(rungs[i].two, table[book.token2]),
                    amountOut |-> BaseUnits(rungs[i].one, table[book.token1])]])

IsReadable(book) ==
    /\ book # Malformed /\ book.quote # Malformed
    /\ \A token \in {book.token1, book.token2} :
          token \in DOMAIN table /\ IsTokenDecimals(table[token])

VenueOf(book) ==
    IF book.quote \in DOMAIN QUOTE_ADDRESS_VENUES
    THEN QUOTE_ADDRESS_VENUES[book.quote] ELSE book.quote

BidKey(book) == <<VenueOf(book), book.token1, book.token2>>
AskKey(book) == <<VenueOf(book), book.token2, book.token1>>

(***************************************************************************)
(* The payload                                                             *)
(***************************************************************************)

\* Mutant of File: the last book of a pair is kept.
FileAgain(books, key, levels) ==
    IF levels = <<>> THEN books
    ELSE [k \in DOMAIN books \cup {key} |-> IF k = key THEN levels ELSE books[k]]

\* The first book of a pair is kept.
File(books, key, levels) ==
    IF levels = <<>> \/ key \in DOMAIN books THEN books
    ELSE [k \in DOMAIN books \cup {key} |-> IF k = key THEN levels ELSE books[k]]

ReadBook(book) ==
    /\ Len(payload) < MaxBooks
    /\ payload' = Append(payload, book)
    /\ filed' = IF IsReadable(book)
                THEN File(File(filed, BidKey(book), Bids(book)), AskKey(book), Asks(book))
                ELSE filed
    /\ UNCHANGED table

BooksInit ==
    /\ \E extra \in Extras : table = DecimalsTable(extra)
    /\ payload = <<>>
    /\ filed = [k \in {} |-> <<>>]

BooksNext == \E book \in Books : ReadBook(book)

BooksSpec == BooksInit /\ [][BooksNext]_bookVars

(***************************************************************************)
(* Properties                                                              *)
(***************************************************************************)
Readable == {i \in DOMAIN payload : IsReadable(payload[i])}

\* What a book has to offer for a pair in one direction; a pair of one token with
\* itself has bids and asks under one key, and the bids come first.
Offer(book, k) ==
    IF k = BidKey(book) /\ (Bids(book) # <<>> \/ k # AskKey(book)) THEN Bids(book)
    ELSE IF k = AskKey(book) THEN Asks(book) ELSE <<>>

\* The books that offer something for k.
Offering(k) == {i \in Readable : Offer(payload[i], k) # <<>>}

\* Whichever of several quote addresses of a venue a payload lists first, and
\* whatever was skipped: an order book is that of one book, the first to have levels
\* for the pair in that direction, and none is missing.
FirstBookIsKept ==
    /\ \A i \in Readable : \A k \in {BidKey(payload[i]), AskKey(payload[i])} :
          Offer(payload[i], k) # <<>> => k \in DOMAIN filed
    /\ \A k \in DOMAIN filed :
          \E i \in Offering(k) :
             /\ \A j \in Offering(k) : i <= j
             /\ filed[k] = Offer(payload[i], k)

\* units of a token are the decimal number value, rounded half up.
Rounds(units, value, token) ==
    LET exact == 2 * value * Power[table[token]]
    IN  2 * units * Scale <= exact + Scale /\ exact < (2 * units + 1) * Scale

\* Nothing is given for nothing, and no level strays from what its maker sent by
\* more than rounding, in either direction and with any decimals.
LevelsAreSound ==
    \A k \in DOMAIN filed : \A n \in DOMAIN filed[k] :
       LET level == filed[k][n]
           sold == [token |-> k[2], units |-> level.amountIn]
           got == [token |-> k[3], units |-> level.amountOut]
           comesFrom(side, one, two) ==
              \E r \in DOMAIN side :
                 /\ WellFormed(side[r])
                 /\ Rounds(one.units, Whole(side[r].volume), one.token)
                 /\ Rounds(two.units, side[r].volume * side[r].price, two.token)
       IN  /\ level.amountIn \in 1 .. MAX_UINT256 /\ level.amountOut \in 0 .. MAX_UINT256
           /\ \E i \in Readable :
                 \/ k = BidKey(payload[i]) /\ comesFrom(payload[i].bids, sold, got)
                 \/ k = AskKey(payload[i]) /\ comesFrom(payload[i].asks, got, sold)
=============================================================================
