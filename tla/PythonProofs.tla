----------------------------- MODULE PythonProofs -----------------------------
(***************************************************************************)
(* Theorems about the Python of the repository, for any market makers,     *)
(* payloads, venues, callers, senders and sends, and any call tree.        *)
(*                                                                         *)
(* FeedInv: the accumulated snapshot is covered by its block context,      *)
(* because a frame with entries moves the context to the newest block.     *)
(* QuotesInv: what a caller holds is such a snapshot, and every call of his*)
(* was made with it.                                                       *)
(*                                                                         *)
(* SwapsInv: a send is alone if it ran while no other did (it is not in    *)
(* crossed).  The pool has no gaps (NoGaps), so that the next nonce is the *)
(* one behind it.  The nonce of a lone send stays free until it is         *)
(* submitted (Fits), so that a node cannot refuse it; and a lone           *)
(* transaction keeps its place in the pool until it is mined (Placed),     *)
(* because whoever counts later counts beyond it.                          *)
(*                                                                         *)
(* TraceInv, RigInv, BooksInv and SurveyInv are explained where they are   *)
(* defined.                                                                *)
(***************************************************************************)
EXTENDS RouterQuotes, SwapClient, PriceBooks, GasRig, GasSurvey, GasTrace,
        FiniteSetTheorems, SequenceTheorems, WellFoundedInduction, TLAPS

(***************************************************************************)
(* Lists: what is computed along a list by a recursive function            *)
(***************************************************************************)
\* What is true of 0, and of n + 1 whenever it is of n, is true of every number.
LEMMA NatSetInduction ==
    ASSUME NEW T, 0 \in T, \A n \in Nat : n \in T => n + 1 \in T
    PROVE  Nat \subseteq T
<1> DEFINE Bad == {n \in Nat : n \notin T}
<1> SUFFICES ASSUME Bad # {} PROVE FALSE
  OBVIOUS
<1>1. PICK n \in Bad : \A y \in Bad : ~(<<y, n>> \in OpToRel(<, Nat))
  <2>1. Bad \subseteq Nat
    OBVIOUS
  <2> HIDE DEF Bad
  <2> QED BY <2>1, WFMin, NatLessThanWellFounded
<1>2. n # 0 /\ n - 1 \in Nat /\ n - 1 < n
  OBVIOUS
<1>3. <<n - 1, n>> \in OpToRel(<, Nat)
  BY <1>2 DEF OpToRel
<1>4. n - 1 \notin Bad
  BY <1>1, <1>3
<1> QED BY <1>2, <1>4

\* From from, n steps can be taken one after another.
Runs(S, from, N, next) ==
    \E g \in [0 .. N -> S] : g[0] = from /\ \A n \in 1 .. N : g[n] = next[n][g[n - 1]]

\* They can if they stay in S.
LEMMA Recursion ==
    ASSUME NEW S, NEW from \in S, NEW N \in Nat, NEW next \in [1 .. N -> [S -> S]]
    PROVE  Runs(S, from, N, next)
<1> DEFINE Upto(g, k) == /\ g \in [0 .. k -> S] /\ g[0] = from
                         /\ \A n \in 1 .. k : g[n] = next[n][g[n - 1]]
           T == {k \in Nat : k <= N => \E g : Upto(g, k)}
<1>1. 0 \in T
  <2>1. Upto([n \in 0 .. 0 |-> from], 0)
    OBVIOUS
  <2> HIDE DEF Upto
  <2> QED BY <2>1
<1>2. ASSUME NEW k \in Nat, k \in T, k + 1 <= N PROVE \E g : Upto(g, k + 1)
  <2>1. PICK g : Upto(g, k)
    BY <1>2
  <2> DEFINE h == [n \in 0 .. k + 1 |-> IF n = k + 1 THEN next[k + 1][g[k]] ELSE g[n]]
  <2>2. next[k + 1][g[k]] \in S
    BY <1>2, <2>1
  <2>3. h \in [0 .. k + 1 -> S] /\ h[0] = from
    BY <2>1, <2>2
  <2>4. ASSUME NEW n \in 1 .. k + 1 PROVE h[n] = next[n][h[n - 1]]
    <3>1. n - 1 \in 0 .. k /\ h[n - 1] = g[n - 1]
      OBVIOUS
    <3>2. CASE n = k + 1
      BY <3>1, <3>2
    <3>3. CASE n # k + 1
      <4>1. n \in 1 .. k /\ h[n] = g[n]
        BY <3>3
      <4> QED BY <2>1, <3>1, <4>1
    <3> QED BY <3>2, <3>3
  <2> HIDE DEF h
  <2> QED BY <2>3, <2>4
<1>3. Nat \subseteq T
  <2>1. ASSUME NEW k \in Nat, k \in T PROVE k + 1 \in T
    <3> HIDE DEF Upto
    <3>1. k <= N => \E g : Upto(g, k)
      BY <2>1
    <3> QED BY <1>2, <2>1
  <2> HIDE DEF T
  <2> QED BY <1>1, <2>1, NatSetInduction
<1> QED BY <1>3 DEF Runs

\* picked are the elements of seq at these places, in their order: at those p lists.
InPlaces(picked, seq, p, places) ==
    /\ p \in Seq(places)
    /\ picked = [i \in 1 .. Len(p) |-> seq[p[i]]]
    /\ \A k \in places : \E i \in DOMAIN p : p[i] = k
    /\ \A i, j \in DOMAIN p : i < j => p[i] < p[j]

LEMMA Comprehension ==
    ASSUME NEW S, NEW seq \in Seq(S), NEW places
    PROVE  \E p : InPlaces(ElementsAt(seq, places), seq, p, DOMAIN seq \cap places)
<1> DEFINE N == Len(seq)
           R == {seq[i] : i \in DOMAIN seq \cap places}
           Is(f) == f = [n \in 0 .. N |->
                            IF n = 0 THEN <<>>
                            ELSE IF n \in places THEN Append(f[n - 1], seq[n])
                            ELSE f[n - 1]]
           next == [n \in 1 .. N |->
                       [s \in Seq(R) |-> IF n \in places THEN Append(s, seq[n]) ELSE s]]
           taken == CHOOSE f : Is(f)
<1>1. N \in Nat /\ DOMAIN seq = 1 .. N
  OBVIOUS
<1>2. \A n \in 1 .. N : n \in places => seq[n] \in R
  BY <1>1
<1>3. next \in [1 .. N -> [Seq(R) -> Seq(R)]]
  <2> HIDE DEF R
  <2> QED BY <1>2
<1>4. \E f : Is(f)
  <2>1. <<>> \in Seq(R)
    OBVIOUS
  <2>2. PICK g \in [0 .. N -> Seq(R)] :
           g[0] = <<>> /\ \A n \in 1 .. N : g[n] = next[n][g[n - 1]]
    <3> DEFINE lists == Seq(R)
               none == <<>>
    <3>1. none \in lists /\ N \in Nat /\ next \in [1 .. N -> [lists -> lists]]
      BY <1>1, <1>3, <2>1
    <3>2. Runs(lists, none, N, next)
      <4> HIDE DEF lists, none, next, R, N
      <4> QED BY <3>1, Recursion
    <3> HIDE DEF R, next, N
    <3> QED BY <3>2 DEF Runs
  <2>3. ASSUME NEW n \in 0 .. N
        PROVE  g[n] = IF n = 0 THEN <<>>
                      ELSE IF n \in places THEN Append(g[n - 1], seq[n])
                      ELSE g[n - 1]
    <3>1. CASE n = 0
      BY <2>2, <3>1
    <3>2. CASE n # 0
      <4>1. n \in 1 .. N /\ n - 1 \in 0 .. N
        BY <1>1, <3>2
      <4>2. g[n - 1] \in Seq(R) /\ g[n] = next[n][g[n - 1]]
        BY <2>2, <4>1
      <4> HIDE DEF R, N
      <4> QED BY <3>2, <4>1, <4>2
    <3> QED BY <3>1, <3>2
  <2>4. g = [n \in 0 .. N |-> g[n]]
    BY <2>2
  <2>5. Is(g)
    <3> HIDE DEF N, R, next
    <3> QED BY <2>3, <2>4
  <2> QED BY <2>5
<1>5. Is(taken)
  <2> HIDE DEF Is
  <2> QED BY <1>4
<1> HIDE DEF taken
<1> DEFINE Upto(n, p) == InPlaces(taken[n], seq, p, (1 .. n) \cap places)
           T == {n \in Nat : n <= N => \E p : Upto(n, p)}
<1>6. 0 \in T
  <2>1. taken[0] = <<>>
    BY <1>1, <1>5
  <2>2. InPlaces(<<>>, seq, <<>>, (1 .. 0) \cap places)
    BY DEF InPlaces
  <2> QED BY <2>1, <2>2
<1>7. ASSUME NEW n \in Nat, n \in T PROVE n + 1 \in T
  <2>1. SUFFICES ASSUME n + 1 <= N PROVE \E p : Upto(n + 1, p)
    <3> HIDE DEF Upto
    <3> QED OBVIOUS
  <2>2. PICK p : Upto(n, p)
    <3> HIDE DEF Upto
    <3> QED BY <1>1, <1>7, <2>1
  <2>3. taken[n + 1] = IF n + 1 \in places THEN Append(taken[n], seq[n + 1]) ELSE taken[n]
    <3>1. n + 1 \in 0 .. N /\ n + 1 # 0 /\ (n + 1) - 1 = n
      BY <1>1, <2>1
    <3> HIDE DEF N
    <3> QED BY <1>5, <3>1
  <2>4. /\ p \in Seq((1 .. n) \cap places)
        /\ taken[n] = [i \in 1 .. Len(p) |-> seq[p[i]]]
        /\ \A k \in (1 .. n) \cap places : \E i \in DOMAIN p : p[i] = k
        /\ \A i, j \in DOMAIN p : i < j => p[i] < p[j]
    BY <2>2 DEF InPlaces
  <2>5. CASE n + 1 \in places
    <3> DEFINE q == Append(p, n + 1)
               places2 == (1 .. n + 1) \cap places
    <3>1. Len(p) \in Nat /\ DOMAIN p = 1 .. Len(p) /\ \A i \in DOMAIN p : p[i] \in (1 .. n) \cap places
      BY <2>4
    <3>2. p \in Seq(places2) /\ n + 1 \in places2
      <4>1. \A i \in 1 .. Len(p) : p[i] \in places2
        BY <3>1
      <4>2. p \in [1 .. Len(p) -> places2]
        BY <2>4, <4>1
      <4> QED BY <2>5, <3>1, <4>2
    <3>3. /\ q \in Seq(places2) /\ Len(q) = Len(p) + 1
          /\ \A i \in 1 .. Len(p) : q[i] = p[i]
          /\ q[Len(p) + 1] = n + 1
      <4> HIDE DEF places2
      <4> QED BY <3>2, AppendProperties
    <3>4. Append(taken[n], seq[n + 1]) = [i \in 1 .. Len(q) |-> seq[q[i]]]
      <4>1. Append(taken[n], seq[n + 1])
            = [i \in 1 .. Len(p) + 1 |-> IF i = Len(p) + 1 THEN seq[n + 1] ELSE seq[p[i]]]
        BY <2>4, <3>1
      <4>2. \A i \in 1 .. Len(p) + 1 :
               seq[q[i]] = IF i = Len(p) + 1 THEN seq[n + 1] ELSE seq[p[i]]
        BY <3>1, <3>3
      <4> HIDE DEF q
      <4> QED BY <3>3, <4>1, <4>2
    <3>5. \A k \in places2 : \E i \in DOMAIN q : q[i] = k
      <4> SUFFICES ASSUME NEW k \in places2 PROVE \E i \in 1 .. Len(p) + 1 : q[i] = k
        BY <3>3
      <4>1. CASE k = n + 1
        BY <3>1, <3>3, <4>1
      <4>2. CASE k # n + 1
        <5>1. k \in (1 .. n) \cap places
          BY <4>2
        <5>2. PICK i \in DOMAIN p : p[i] = k
          BY <2>4, <5>1
        <5> QED BY <3>1, <3>3, <5>2
      <4> QED BY <4>1, <4>2
    <3>6. \A i, j \in DOMAIN q : i < j => q[i] < q[j]
      <4> SUFFICES ASSUME NEW i \in 1 .. Len(p) + 1, NEW j \in 1 .. Len(p) + 1, i < j
                   PROVE  q[i] < q[j]
        BY <3>3
      <4>1. i \in 1 .. Len(p)
        BY <3>1
      <4>2. CASE j = Len(p) + 1
        BY <3>1, <3>3, <4>1, <4>2
      <4>3. CASE j # Len(p) + 1
        <5>1. i \in DOMAIN p /\ j \in DOMAIN p /\ q[i] = p[i] /\ q[j] = p[j]
          <6> HIDE DEF q
          <6> QED BY <3>1, <3>3, <4>1, <4>3
        <5> QED BY <2>4, <5>1
      <4> QED BY <4>2, <4>3
    <3>7. Upto(n + 1, q)
      <4> HIDE DEF q
      <4> QED BY <2>3, <2>5, <3>3, <3>4, <3>5, <3>6 DEF InPlaces
    <3> QED BY <3>7
  <2>6. CASE n + 1 \notin places
    <3>1. taken[n + 1] = taken[n] /\ (1 .. n + 1) \cap places = (1 .. n) \cap places
      BY <2>3, <2>6
    <3>2. Upto(n + 1, p)
      BY <2>2, <3>1
    <3> QED BY <3>2
  <2> QED BY <2>5, <2>6
<1>8. Nat \subseteq T
  <2> HIDE DEF T
  <2> QED BY <1>6, <1>7, NatSetInduction
<1>9. PICK p : Upto(N, p)
  <2> HIDE DEF Upto
  <2> QED BY <1>1, <1>8
<1>10. ElementsAt(seq, places) = taken[N]
  BY DEF ElementsAt, taken
<1>11. (1 .. N) \cap places = DOMAIN seq \cap places
  BY <1>1
<1> QED BY <1>9, <1>10, <1>11

\* A list comprehension makes a list of elements of the list, of none only if
\* none was wanted.
LEMMA ElementsAtPlaces ==
    ASSUME NEW S, NEW seq \in Seq(S), NEW places
    PROVE  /\ ElementsAt(seq, places) \in Seq({seq[i] : i \in DOMAIN seq \cap places})
           /\ DOMAIN seq \cap places # {} => ElementsAt(seq, places) # <<>>
<1> DEFINE R == {seq[i] : i \in DOMAIN seq \cap places}
           these == DOMAIN seq \cap places
           kept == ElementsAt(seq, places)
<1>1. PICK p : InPlaces(kept, seq, p, these)
  BY Comprehension
<1>2. /\ p \in Seq(these) /\ kept = [i \in 1 .. Len(p) |-> seq[p[i]]]
      /\ \A k \in these : \E i \in DOMAIN p : p[i] = k
  BY <1>1 DEF InPlaces
<1>3. /\ Len(p) \in Nat /\ DOMAIN p = 1 .. Len(p)
      /\ \A i \in 1 .. Len(p) : p[i] \in these
  <2> HIDE DEF these
  <2> QED BY <1>2
<1>4. \A i \in 1 .. Len(p) : seq[p[i]] \in R
  BY <1>3
<1>5. kept \in Seq(R) /\ Len(kept) = Len(p)
  <2> HIDE DEF R, kept
  <2> QED BY <1>2, <1>3, <1>4
<1>6. these # {} => kept # <<>>
  <2> HIDE DEF kept, these
  <2>1. these # {} => Len(kept) # 0
    BY <1>2, <1>3, <1>5
  <2> QED BY <2>1
<1> QED BY <1>5, <1>6

\* R has every list that two lists of R make.
Joins(R) == \A s, t \in R : s \o t \in R

\* Lists that can be joined are joined.
LEMMA FlattenedLists ==
    ASSUME NEW R, Joins(R),
           NEW seqs \in Seq(R), Len(seqs) # 0
    PROVE  FlattenSeq(seqs) \in R
<1> DEFINE N == Len(seqs)
           Is(f) == f = [i \in 1 .. N |-> IF i = 1 THEN seqs[i] ELSE f[i - 1] \o seqs[i]]
           next == [i \in 1 .. N |->
                       [s \in R |-> IF i = 1 THEN seqs[i] ELSE s \o seqs[i]]]
           flat == CHOOSE f : Is(f)
<1>1. N \in Nat /\ N # 0 /\ 1 \in 1 .. N /\ \A i \in 1 .. N : seqs[i] \in R
  OBVIOUS
<1>2. \A s, t \in R : s \o t \in R
  BY DEF Joins
<1>3. next \in [1 .. N -> [R -> R]]
  <2> HIDE DEF N
  <2> QED BY <1>1, <1>2
<1>4. \E f : Is(f)
  <2>1. PICK g \in [0 .. N -> R] :
           g[0] = seqs[1] /\ \A i \in 1 .. N : g[i] = next[i][g[i - 1]]
    <3> DEFINE first == seqs[1]
               lists == R
    <3>1. first \in lists /\ N \in Nat /\ next \in [1 .. N -> [lists -> lists]]
      BY <1>1, <1>3
    <3>2. Runs(lists, first, N, next)
      <4> HIDE DEF first, lists, next, N, Is, flat
      <4> QED BY <3>1, Recursion
    <3> HIDE DEF next, N
    <3> QED BY <3>2 DEF Runs
  <2> DEFINE f == [i \in 1 .. N |-> g[i]]
  <2>2. ASSUME NEW i \in 1 .. N
        PROVE  f[i] = IF i = 1 THEN seqs[i] ELSE f[i - 1] \o seqs[i]
    <3>1. g[i - 1] \in R /\ g[i] = next[i][g[i - 1]]
      <4>1. i - 1 \in 0 .. N
        BY <1>1
      <4> HIDE DEF next, N
      <4> QED BY <2>1, <4>1
    <3>2. g[i] = IF i = 1 THEN seqs[i] ELSE g[i - 1] \o seqs[i]
      BY <3>1
    <3>3. i # 1 => i - 1 \in 1 .. N
      BY <1>1
    <3> QED BY <3>2, <3>3
  <2>3. f = [i \in 1 .. N |-> f[i]]
    OBVIOUS
  <2> HIDE DEF f
  <2>4. Is(f)
    BY <2>2, <2>3
  <2> QED BY <2>4
<1>5. Is(flat)
  <2> HIDE DEF Is
  <2> QED BY <1>4
<1> HIDE DEF flat
<1> DEFINE T == {n \in Nat : n + 1 <= N => flat[n + 1] \in R}
<1>6. 0 \in T
  BY <1>1, <1>5
<1>7. ASSUME NEW n \in Nat, n \in T PROVE n + 1 \in T
  <2>1. SUFFICES ASSUME n + 2 <= N PROVE flat[n + 2] \in R
    BY <1>1
  <2>2. flat[n + 1] \in R /\ n + 2 \in 1 .. N /\ n + 2 # 1 /\ (n + 2) - 1 = n + 1
    BY <1>1, <1>7, <2>1
  <2>3. flat[n + 2] = flat[n + 1] \o seqs[n + 2]
    <3> HIDE DEF N
    <3> QED BY <1>5, <2>2
  <2> QED BY <1>1, <1>2, <2>2, <2>3
<1>8. Nat \subseteq T
  <2> HIDE DEF T
  <2> QED BY <1>6, <1>7, NatSetInduction
<1>9. flat[N] \in R
  <2>1. N - 1 \in Nat /\ (N - 1) + 1 = N
    BY <1>1
  <2> HIDE DEF N
  <2>2. N - 1 \in T
    BY <1>8, <2>1
  <2> QED BY <2>1, <2>2
<1>10. FlattenSeq(seqs) = flat[N]
  BY <1>1 DEF FlattenSeq, flat
<1> QED BY <1>9, <1>10

\* What is taken from a list was in it.
LEMMA Taken ==
    ASSUME NEW S, NEW seq \in Seq(S), NEW places, NEW n \in DOMAIN ElementsAt(seq, places)
    PROVE  \E i \in DOMAIN seq : i \in places /\ ElementsAt(seq, places)[n] = seq[i]
<1> DEFINE R == {seq[i] : i \in DOMAIN seq \cap places}
<1>1. ElementsAt(seq, places) \in Seq(R)
  BY ElementsAtPlaces
<1>2. ElementsAt(seq, places)[n] \in R
  <2> HIDE DEF R
  <2> QED BY <1>1
<1> QED BY <1>2


\* Floor division: the quotient times the divisor brackets the dividend.
LEMMA DivBounds ==
    ASSUME NEW a \in Nat, NEW b \in Nat, b > 0
    PROVE  a \div b \in Nat /\ b * (a \div b) <= a /\ a < b * (a \div b) + b
  OBVIOUS

\* A product of naturals is one, and not zero if they are not.
LEMMA Product == ASSUME NEW x \in Nat, NEW y \in Nat
                 PROVE  x * y \in Nat /\ (x > 0 /\ y > 0 => x * y > 0)
  OBVIOUS

(***************************************************************************)
(* The accumulated snapshot                                                *)
(***************************************************************************)
FeedInv ==
    /\ FeedTypeOK
    /\ \A m \in Makers : published[m] <= head
    /\ snapshot.block <= head
    /\ ContextCovers

\* A payload with entries is parsed to a snapshot of its own block.
LEMMA ParsedIsCovered ==
    ASSUME NEW msg \in Payloads, NEW at \in 1 .. MaxBlock,
           \A m \in Held(Parse(msg, at)) : Parse(msg, at).diffs[m] > 0
    PROVE  LET frame == Parse(msg, at)
           IN  /\ IsSnapshot(frame)
               /\ \A m \in Held(frame) : frame.diffs[m] <= at
               /\ Held(frame) # {} => frame.block = at
               /\ frame.block \in {0, at}
<1> DEFINE frame == Parse(msg, at)
<1>1. /\ msg.version \in {1, 2} /\ Partial(msg.entries, Makers, Entry)
      /\ Kept(msg) # {} => \E m \in Kept(msg) : Fresh(msg, m)
  BY FeedPayloads
<1>2. /\ Kept(msg) \subseteq Makers
      /\ \A m \in Kept(msg) : msg.entries[m] \in Entry
  BY <1>1 DEF Kept, Partial
<1>3. /\ Cardinality(Makers) \in Nat /\ at \in Nat /\ MaxBlock \in Nat
      /\ at > 0 /\ at <= MaxBlock
  BY FeedMakers, FeedBlocks, FS_CardinalityType
<1>4. \A m \in Kept(msg) : /\ msg.entries[m].place \in Nat
                               /\ msg.entries[m].lag \in {0, 1}
  BY <1>2, <1>3 DEF Entry
<1>5. /\ frame.place = [m \in Kept(msg) |-> msg.entries[m].place]
      /\ frame.diffs = [m \in Kept(msg) |-> at - msg.entries[m].lag]
      /\ frame.block = Context(msg, at)
      /\ Held(frame) = Kept(msg)
      /\ frame = [place |-> frame.place, diffs |-> frame.diffs, block |-> frame.block]
  BY DEF Parse, Held
<1>6. \A m \in Kept(msg) : frame.diffs[m] \in 0 .. MaxBlock /\ frame.diffs[m] <= at
  BY <1>3, <1>4, <1>5
<1>7. Kept(msg) # {} => frame.block = at
  BY <1>1, <1>5 DEF Context
<1>8. frame.block \in {0, at}
  BY <1>1, <1>5 DEF Context
<1>9. Partial(frame.place, Makers, Nat)
  BY <1>2, <1>4, <1>5 DEF Partial
<1>10. Partial(frame.diffs, Makers, 0 .. MaxBlock)
  BY <1>2, <1>5, <1>6 DEF Partial
<1>11. IsSnapshot(frame)
  BY <1>3, <1>5, <1>8, <1>9, <1>10 DEF IsSnapshot, Held
<1> QED BY <1>3, <1>5, <1>6, <1>7, <1>8, <1>11

\* Accumulating a frame of a block that is not older keeps a snapshot covered.
LEMMA AccumulatedIsCovered ==
    ASSUME NEW s, NEW frame, NEW at \in 0 .. MaxBlock,
           IsSnapshot(s), IsSnapshot(frame), Covered(s), s.block <= at,
           \A m \in Held(frame) : frame.diffs[m] <= at,
           Held(frame) # {} => frame.block = at,
           frame.block \in {0, at}
    PROVE  LET new == Accumulate(s, frame)
           IN  IsSnapshot(new) /\ Covered(new) /\ new.block <= at
<1> DEFINE new == Accumulate(s, frame)
<1>1. /\ s.block \in 0 .. MaxBlock /\ frame.block \in 0 .. MaxBlock
      /\ DOMAIN s.place = Held(s) /\ DOMAIN frame.place = Held(frame)
      /\ Held(s) \subseteq Makers /\ Held(frame) \subseteq Makers
      /\ \A m \in Held(s) : s.place[m] \in Nat /\ s.diffs[m] \in 0 .. MaxBlock
      /\ \A m \in Held(frame) :
            frame.place[m] \in Nat /\ frame.diffs[m] \in 0 .. MaxBlock
  BY DEF IsSnapshot, Partial, Held
<1>2. /\ new.place = Behind(s.place, frame.place)
      /\ new.diffs = Merged(s.diffs, frame.diffs)
      /\ new.block = IF frame.block = 0 THEN s.block ELSE frame.block
      /\ new = [place |-> new.place, diffs |-> new.diffs, block |-> new.block]
  BY DEF Accumulate
<1>3. Held(new) = Held(s) \cup Held(frame)
  BY <1>2 DEF Held, Merged
<1>4. \A m \in Held(new) :
         new.diffs[m] = IF m \in Held(frame) THEN frame.diffs[m] ELSE s.diffs[m]
  BY <1>2, <1>3 DEF Held, Merged
<1>5. \A k \in Nat : \A m \in Held(frame) : frame.place[m] + Cardinality(Makers) * k \in Nat
  <2>1. Cardinality(Makers) \in Nat
    BY FeedMakers, FS_CardinalityType
  <2> QED BY <1>1, <2>1
<1>6. Cardinality(Held(s)) \in Nat
  BY <1>1, FeedMakers, FS_Subset, FS_CardinalityType
<1>7. Partial(new.place, Makers, Nat) /\ DOMAIN new.place = Held(new)
  BY <1>1, <1>2, <1>3, <1>5, <1>6 DEF Partial, Behind
<1>8. Partial(new.diffs, Makers, 0 .. MaxBlock)
  <2>1. DOMAIN new.diffs = Held(new)
    BY DEF Held
  <2>2. \A m \in Held(new) : new.diffs[m] \in 0 .. MaxBlock
    BY <1>1, <1>3, <1>4
  <2>3. new.diffs \in [DOMAIN new.diffs -> 0 .. MaxBlock]
    BY <1>2, <2>1, <2>2 DEF Merged
  <2> QED BY <1>1, <1>3, <2>1, <2>3 DEF Partial
<1>9. new.block \in 0 .. MaxBlock /\ new.block <= at
  BY <1>1, <1>2
<1>10. IsSnapshot(new)
  BY <1>2, <1>7, <1>8, <1>9 DEF IsSnapshot
<1>11. Covered(new)
  <2> SUFFICES ASSUME NEW m \in Held(new) PROVE new.diffs[m] <= new.block
    BY DEF Covered
  <2>1. CASE m \in Held(frame)
    <3>1. frame.block = at /\ frame.diffs[m] <= at
      BY <2>1
    <3>2. CASE at = 0
      BY <1>1, <1>2, <1>3, <1>4, <2>1, <3>1, <3>2
    <3>3. CASE at # 0
      BY <1>1, <1>2, <1>3, <1>4, <2>1, <3>1, <3>3
    <3> QED BY <3>2, <3>3
  <2>2. CASE m \notin Held(frame)
    <3>1. m \in Held(s) /\ new.diffs[m] = s.diffs[m] /\ s.diffs[m] <= s.block
      BY <1>3, <1>4, <2>2 DEF Covered
    <3>2. CASE frame.block = 0
      BY <1>2, <3>1, <3>2
    <3>3. CASE frame.block # 0
      <4>1. CASE Held(frame) = {}
        BY <1>1, <1>2, <3>1, <3>3, <4>1
      <4>2. CASE Held(frame) # {}
        BY <1>1, <1>2, <3>1, <3>3, <4>2
      <4> QED BY <4>1, <4>2
    <3> QED BY <3>2, <3>3
  <2> QED BY <2>1, <2>2
<1> QED BY <1>9, <1>10, <1>11

\* Frame after frame, lost connection after lost connection.
LEMMA FeedSteps == FeedInv /\ [FeedNext]_feedVars => FeedInv'
<1> SUFFICES ASSUME FeedInv, [FeedNext]_feedVars PROVE FeedInv'
  OBVIOUS
<1>1. ASSUME NEW msg \in Payloads, NEW at \in 1 .. MaxBlock, Frame(msg, at)
      PROVE  FeedInv'
  <2> DEFINE frame == Parse(msg, at)
             new == Accumulate(snapshot, frame)
  <2>1. /\ at \in {head, head + 1} /\ head' = at /\ up' = up
        /\ \A m \in Held(frame) : frame.diffs[m] > 0
        /\ published' = Merged(published, frame.diffs)
        /\ \/ snapshot' = new /\ hasFrame' = TRUE
           \/ snapshot' = snapshot /\ hasFrame' = hasFrame
    BY <1>1 DEF Frame, Hear
  <2>2. /\ IsSnapshot(frame) /\ \A m \in Held(frame) : frame.diffs[m] <= at
        /\ Held(frame) # {} => frame.block = at
        /\ frame.block \in {0, at}
    BY <2>1, ParsedIsCovered
  <2>3. /\ head \in 0 .. MaxBlock /\ MaxBlock \in Nat /\ at \in 0 .. MaxBlock
        /\ head <= at /\ IsSnapshot(snapshot) /\ Covered(snapshot)
        /\ snapshot.block \in Nat /\ snapshot.block <= head
        /\ published \in [Makers -> 0 .. MaxBlock]
    BY <2>1, FeedBlocks DEF FeedInv, FeedTypeOK, ContextCovers, IsSnapshot
  <2>4. IsSnapshot(new) /\ Covered(new) /\ new.block <= at
    <3>1. snapshot.block <= at
      BY <2>3
    <3> HIDE DEF frame
    <3> QED BY <2>2, <2>3, <3>1, AccumulatedIsCovered
  <2>5. IsSnapshot(snapshot') /\ Covered(snapshot') /\ snapshot'.block <= head'
    <3> HIDE DEF new
    <3> QED BY <2>1, <2>3, <2>4
  <2>6. /\ published' \in [Makers -> 0 .. MaxBlock]
        /\ \A m \in Makers : published'[m] <= head'
    <3>1. Held(frame) \subseteq Makers
          /\ \A m \in Held(frame) : frame.diffs[m] \in 0 .. MaxBlock
      BY <2>2 DEF IsSnapshot, Partial, Held
    <3> HIDE DEF frame
    <3>2. DOMAIN published \cup DOMAIN frame.diffs = Makers
      BY <2>3, <3>1 DEF Held
    <3>3. /\ DOMAIN published' = Makers
          /\ published' = [m \in Makers |->
                IF m \in Held(frame) THEN frame.diffs[m] ELSE published[m]]
      BY <2>1, <3>2 DEF Merged, Held
    <3>4. \A m \in Makers : published[m] <= head
      BY DEF FeedInv
    <3> QED BY <2>1, <2>2, <2>3, <3>1, <3>3, <3>4
  <2>7. {up', hasFrame'} \subseteq BOOLEAN
    BY <2>1 DEF FeedInv, FeedTypeOK
  <2>8. head' \in 0 .. MaxBlock
    BY <2>1, <2>3
  <2> QED
    BY <2>5, <2>6, <2>7, <2>8 DEF FeedInv, FeedTypeOK, ContextCovers
<1>2. CASE Connects \/ Drops \/ Ends
  BY <1>2 DEF Connects, Drops, Ends, FeedInv, FeedTypeOK, ContextCovers
<1>3. CASE UNCHANGED feedVars
  BY <1>3 DEF feedVars, FeedInv, FeedTypeOK, ContextCovers
<1> QED BY <1>1, <1>2, <1>3 DEF FeedNext

LEMMA FeedStarts == FeedInit => FeedInv
<1> SUFFICES ASSUME FeedInit PROVE FeedInv
  OBVIOUS
<1>1. IsSnapshot(Empty) /\ Held(Empty) = {} /\ Empty.block = 0
  BY FeedBlocks DEF IsSnapshot, Partial, Empty, Held
<1>2. /\ head = 0 /\ published = [m \in Makers |-> 0] /\ snapshot = Empty
      /\ {up, hasFrame} \subseteq BOOLEAN
  BY DEF FeedInit
<1>3. MaxBlock \in Nat /\ 0 \in 0 .. MaxBlock
  BY FeedBlocks
<1>4. FeedTypeOK
  BY <1>1, <1>2, <1>3 DEF FeedTypeOK
<1>5. ContextCovers
  BY <1>1, <1>2 DEF ContextCovers, Covered
<1>6. \A m \in Makers : published[m] <= head
  BY <1>2
<1> QED BY <1>1, <1>2, <1>4, <1>5, <1>6 DEF FeedInv

\* What OverridesWsSource has accumulated is covered by its block context, whatever
\* frames were missed: to_state_override never pairs state with an older block.
THEOREM AccumulationIsCovered == FeedSpec => []ContextCovers
<1>1. FeedInv => ContextCovers
  BY DEF FeedInv
<1> QED BY <1>1, FeedStarts, FeedSteps, PTL DEF FeedSpec

(***************************************************************************)
(* The override map                                                        *)
(***************************************************************************)
\* One of finitely many market makers comes last in the dict.
LEMMA LastWriter ==
    ASSUME NEW S \in SUBSET Makers, S # {}, NEW place,
           \A m \in S : place[m] \in Nat
    PROVE  \E m \in S : \A n \in S : place[n] <= place[m]
<1> DEFINE After(m) == {n \in S : place[n] > place[m]}
           T == {After(m) : m \in S}
<1>1. IsFiniteSet(S)
  BY FeedMakers, FS_Subset
<1>2. IsWellFoundedOn(StrictSubsetOrdering(S), SUBSET S)
  BY <1>1, FS_StrictSubsetOrderingWellFounded, FS_FiniteSubsetsOfFinite
<1>3. T \subseteq SUBSET S /\ T # {}
  OBVIOUS
<1>4. PICK U \in T : \A V \in T : <<V, U>> \notin StrictSubsetOrdering(S)
  <2> HIDE DEF T
  <2> QED BY <1>2, <1>3, WFMin
<1>5. PICK m \in S : U = After(m)
  BY <1>4
<1>6. \A n \in S : place[n] <= place[m]
  <2> SUFFICES ASSUME NEW n \in S, place[n] > place[m] PROVE FALSE
    OBVIOUS
  <2>1. After(n) \subseteq After(m)
    OBVIOUS
  <2>2. n \in After(m) /\ n \notin After(n)
    OBVIOUS
  <2>3. <<After(n), After(m)>> \in StrictSubsetOrdering(S)
    BY <1>3, <2>1, <2>2 DEF StrictSubsetOrdering
  <2> QED BY <1>4, <1>5, <2>3
<1> QED BY <1>6

\* to_state_override of a covered snapshot is covered by the block of the snapshot,
\* and it always decides Bebop's price when it is asked to.
LEMMA OverrideIsCovered ==
    ASSUME NEW s, IsSnapshot(s), Covered(s), NEW pamms, NEW d \in BOOLEAN
    PROVE  LET map == StateOverride(s, pamms, d)
           IN  /\ \A cell \in DOMAIN map : map[cell] <= s.block
               /\ d => BebopCell \in DOMAIN map
<1> DEFINE chosen == Selected(s, pamms)
           writers(c) == {m \in chosen : c \in Writes[m]}
           last(c) == CHOOSE m \in writers(c) :
                         \A n \in writers(c) : s.place[n] <= s.place[m]
           zeroed == IF d /\ Bebop \notin chosen THEN {BebopCell} ELSE {}
           map == StateOverride(s, pamms, d)
<1>1. map = [c \in zeroed \cup UNION {Writes[m] : m \in chosen} |->
               IF c \in zeroed THEN Cleared ELSE s.diffs[last(c)]]
  BY DEF StateOverride
<1>2. /\ chosen \subseteq Held(s) /\ Held(s) \subseteq Makers /\ s.block \in Nat
      /\ \A m \in Held(s) : s.place[m] \in Nat
  BY FeedBlocks DEF IsSnapshot, Partial, Selected, Held
<1>3. ASSUME NEW cell \in DOMAIN map PROVE map[cell] <= s.block
  <2>1. CASE cell \in zeroed
    BY <1>1, <1>2, <2>1 DEF Cleared
  <2>2. CASE cell \notin zeroed
    <3>1. map[cell] = s.diffs[last(cell)]
      BY <1>1, <2>2
    <3>2. cell \in UNION {Writes[m] : m \in chosen}
      BY <1>1, <2>2
    <3>3. writers(cell) # {} /\ writers(cell) \subseteq Makers
          /\ \A m \in writers(cell) : s.place[m] \in Nat
      BY <1>2, <3>2
    <3>4. \E m \in writers(cell) : \A n \in writers(cell) : s.place[n] <= s.place[m]
      <4> DEFINE S == writers(cell)
                 place == s.place
      <4>1. S \in SUBSET Makers /\ S # {} /\ \A m \in S : place[m] \in Nat
        BY <3>3
      <4> HIDE DEF S, place
      <4>2. \E m \in S : \A n \in S : place[n] <= place[m]
        BY <4>1, LastWriter
      <4> QED BY <4>2 DEF S, place
    <3>5. last(cell) \in Held(s)
      BY <1>2, <3>4
    <3> QED BY <3>1, <3>5 DEF Covered
  <2> QED BY <2>1, <2>2
<1>4. d => BebopCell \in DOMAIN map
  BY <1>1, FeedCells
<1> QED BY <1>3, <1>4

(***************************************************************************)
(* Quotes                                                                  *)
(***************************************************************************)
\* What a caller holds, and what he made of it.
HoldsCovered(c) == IsSnapshot(held[c]) /\ Covered(held[c])

CallsAlike(c) ==
    /\ stage[c] \in {"listing", "resolving"} => DOMAIN sent[c] = {}
    /\ \A t \in DOMAIN sent[c] : sent[c][t] = Request(c)

RepliesHeard(c) ==
    /\ stage[c] \in {"listing", "resolving"} => DOMAIN reply[c] = {}
    /\ \A t \in DOMAIN reply[c] :
          /\ reply[c][t] \in Replies
          /\ stage[c] # "failed" => ~Surfaces(c, reply[c][t])
    /\ stage[c] = "quoted" => DOMAIN reply[c] = targets[c]

QuotesInv ==
    /\ FeedInv
    /\ stage \in [Callers -> Stages]
    /\ order \in [Callers -> Order]
    /\ DOMAIN targets = Callers
    /\ DOMAIN held = Callers /\ DOMAIN sent = Callers /\ DOMAIN reply = Callers
    /\ \A c \in Callers : HoldsCovered(c) /\ CallsAlike(c) /\ RepliesHeard(c)

\* The snapshot that Titan serves over HTTP is of its newest block.
LEMMA FullIsCovered == FeedInv => IsSnapshot(Full) /\ Covered(Full)
<1> SUFFICES ASSUME FeedInv PROVE IsSnapshot(Full) /\ Covered(Full)
  OBVIOUS
<1> DEFINE n == Cardinality(Makers)
           Injections == {f \in [Known -> 1 .. n] :
                             \A l, m \in Known : l # m => f[l] # f[m]}
<1>1. /\ head \in 0 .. MaxBlock /\ published \in [Makers -> 0 .. MaxBlock]
      /\ \A m \in Makers : published[m] <= head
      /\ Known \subseteq Makers
  BY DEF FeedInv, FeedTypeOK, Known
<1>2. PICK g \in [1 .. n -> Makers] : \A m \in Makers : \E i \in 1 .. n : g[i] = m
  BY FeedMakers, FS_CardinalityType DEF ExistsBijection, Bijection, Surjection
<1>3. Injections # {}
  <2> DEFINE h == [m \in Known |-> CHOOSE i \in 1 .. n : g[i] = m]
  <2>1. \A m \in Known : h[m] \in 1 .. n /\ g[h[m]] = m
    BY <1>1, <1>2
  <2>2. h \in [Known -> 1 .. n]
    BY <2>1
  <2> HIDE DEF h
  <2>3. h \in Injections
    BY <2>1, <2>2
  <2> QED BY <2>3
<1>4. /\ Full.place \in [Known -> 1 .. n]
      /\ Full.diffs = [m \in Known |-> published[m]]
      /\ Full.block = head
      /\ Full = [place |-> Full.place, diffs |-> Full.diffs, block |-> Full.block]
  BY <1>3 DEF Full
<1>5. Held(Full) = Known /\ DOMAIN Full.place = Known
  BY <1>4 DEF Held
<1>6. Partial(Full.place, Makers, Nat)
  <2>1. \A m \in Known : Full.place[m] \in Nat
    BY <1>4
  <2> QED BY <1>1, <1>4, <1>5, <2>1 DEF Partial
<1>7. Partial(Full.diffs, Makers, 0 .. MaxBlock)
  BY <1>1, <1>4 DEF Partial
<1> QED BY <1>1, <1>4, <1>5, <1>6, <1>7 DEF IsSnapshot, Covered

LEMMA EmptyIsCovered == IsSnapshot(Empty) /\ Covered(Empty)
BY FeedBlocks DEF IsSnapshot, Partial, Empty, Held, Covered

LEMMA QuotesStart == QuotesInit => QuotesInv
<1> SUFFICES ASSUME QuotesInit PROVE QuotesInv
  OBVIOUS
<1>1. FeedInv
  BY FeedStarts DEF QuotesInit
<1>2. /\ stage = [c \in Callers |-> "idle"]
      /\ held = [c \in Callers |-> Empty]
      /\ sent = [c \in Callers |-> Nothing] /\ reply = [c \in Callers |-> Nothing]
      /\ DOMAIN targets = Callers
  BY DEF QuotesInit
<1>3. order \in [Callers -> Order]
  BY DEF QuotesInit, Order
<1>4. ASSUME NEW c \in Callers
      PROVE  HoldsCovered(c) /\ CallsAlike(c) /\ RepliesHeard(c)
  <2>1. DOMAIN sent[c] = {} /\ DOMAIN reply[c] = {} /\ stage[c] = "idle"
        /\ held[c] = Empty
    BY <1>2 DEF Nothing
  <2> QED BY <2>1, EmptyIsCovered DEF HoldsCovered, CallsAlike, RepliesHeard
<1> QED BY <1>1, <1>2, <1>3, <1>4 DEF QuotesInv, Stages

\* The others do not notice a step of one caller.
Others(c) ==
    \A d \in Callers \ {c} :
       /\ stage'[d] = stage[d] /\ order'[d] = order[d] /\ targets'[d] = targets[d]
       /\ held'[d] = held[d] /\ sent'[d] = sent[d] /\ reply'[d] = reply[d]

Shaped ==
    /\ stage \in [Callers -> Stages] /\ order \in [Callers -> Order]
    /\ DOMAIN targets = Callers
    /\ DOMAIN held = Callers /\ DOMAIN sent = Callers /\ DOMAIN reply = Callers

LEMMA OneCaller ==
    ASSUME QuotesInv, NEW c \in Callers, UNCHANGED feedVars, Others(c), Shaped',
           HoldsCovered(c)', CallsAlike(c)', RepliesHeard(c)'
    PROVE  QuotesInv'
<1>1. FeedInv'
  BY DEF QuotesInv, feedVars, FeedInv, FeedTypeOK, ContextCovers
<1>2. ASSUME NEW d \in Callers, d # c
      PROVE  HoldsCovered(d)' /\ CallsAlike(d)' /\ RepliesHeard(d)'
  <2>1. /\ stage'[d] = stage[d] /\ order'[d] = order[d] /\ targets'[d] = targets[d]
        /\ held'[d] = held[d] /\ sent'[d] = sent[d] /\ reply'[d] = reply[d]
    BY <1>2 DEF Others
  <2>2. HoldsCovered(d) /\ CallsAlike(d) /\ RepliesHeard(d)
    BY DEF QuotesInv
  <2>3. Request(d)' = Request(d)
    BY <2>1 DEF Request, Given
  <2>4. \A r : Surfaces(d, r)' <=> Surfaces(d, r)
    BY <2>1 DEF Surfaces
  <2>5. HoldsCovered(d)'
    BY <2>1, <2>2 DEF HoldsCovered
  <2>6. CallsAlike(d)'
    BY <2>1, <2>2, <2>3 DEF CallsAlike
  <2>7. RepliesHeard(d)'
    BY <2>1, <2>2, <2>4 DEF RepliesHeard
  <2> QED BY <2>5, <2>6, <2>7
<1> QED BY <1>1, <1>2 DEF QuotesInv, Shaped

\* A caller goes on to a stage, without calls or replies of his being touched.
LEMMA Moves ==
    ASSUME QuotesInv, NEW c \in Callers, NEW dest \in Stages, UNCHANGED feedVars,
           Move(c, dest), UNCHANGED <<order, held, sent, reply>>,
           \/ targets' = targets
           \/ dest # "quoted" /\ \E ts : targets' = Set(targets, c, ts),
           dest \in {"listing", "resolving"} => stage[c] \in {"listing", "resolving"},
           dest # "failed" => stage[c] # "failed",
           dest = "quoted" => DOMAIN reply[c] = targets[c]
    PROVE  QuotesInv'
<1>1. Shaped /\ HoldsCovered(c) /\ CallsAlike(c) /\ RepliesHeard(c)
  BY DEF QuotesInv, Shaped
<1>2. stage'[c] = dest
  BY <1>1 DEF Shaped, Move, Set
<1>3. Shaped'
  BY <1>1 DEF Shaped, Move, Set
<1>4. Others(c)
  BY <1>1 DEF Others, Shaped, Move, Set
<1>5. HoldsCovered(c)'
  BY <1>1 DEF HoldsCovered
<1>6. Request(c)' = Request(c)
  BY DEF Request, Given
<1>7. CallsAlike(c)'
  BY <1>1, <1>2, <1>6 DEF CallsAlike
<1>8. \A r : Surfaces(c, r)' <=> Surfaces(c, r)
  BY DEF Surfaces
<1>9. RepliesHeard(c)'
  <2>1. stage'[c] = "quoted" => DOMAIN reply[c] = targets'[c]
    BY <1>2
  <2> QED BY <1>1, <1>2, <1>8, <2>1 DEF RepliesHeard
<1> QED BY <1>3, <1>4, <1>5, <1>7, <1>9, OneCaller

(***************************************************************************)
(* The steps of a quote                                                    *)
(***************************************************************************)
LEMMA Begins ==
    ASSUME QuotesInv, NEW c \in Callers, NEW o \in Orders, Begin(c, o)
    PROVE  QuotesInv'
<1>1. Shaped /\ o \in Order
  BY QuoteOrders DEF QuotesInv, Shaped
<1>2. Shaped' /\ stage'[c] \notin {"quoted"}
  BY <1>1 DEF Begin, Shaped, Move, Set, Stages
<1>3. Others(c)
  BY <1>1 DEF Begin, Others, Shaped, Move, Set
<1>4. held'[c] = Empty /\ sent'[c] = Nothing /\ reply'[c] = Nothing
  BY <1>1 DEF Begin, Shaped, Set
<1>5. HoldsCovered(c)'
  BY <1>4, EmptyIsCovered DEF HoldsCovered
<1>6. CallsAlike(c)' /\ RepliesHeard(c)'
  BY <1>2, <1>4 DEF CallsAlike, RepliesHeard, Nothing
<1> QED BY <1>2, <1>3, <1>5, <1>6, OneCaller DEF Begin

LEMMA Resolves ==
    ASSUME QuotesInv, NEW c \in Callers, Resolve(c)
    PROVE  QuotesInv'
<1>1. Shaped /\ HoldsCovered(c) /\ CallsAlike(c) /\ RepliesHeard(c)
  BY DEF QuotesInv, Shaped
<1>2. stage[c] = "resolving" /\ stage' = Set(stage, c, "calling")
      /\ UNCHANGED <<feedVars, order, targets, sent, reply>>
      /\ \/ held' = held
         \/ \E h \in {snapshot, Full} : held' = Set(held, c, h)
  BY DEF Resolve, Move
<1>3. Shaped'
  BY <1>1, <1>2 DEF Shaped, Set, Stages
<1>4. Others(c)
  BY <1>1, <1>2 DEF Others, Shaped, Set
<1>5. HoldsCovered(c)'
  <2>1. IsSnapshot(snapshot) /\ Covered(snapshot) /\ IsSnapshot(Full) /\ Covered(Full)
    BY FullIsCovered DEF QuotesInv, FeedInv, FeedTypeOK, ContextCovers
  <2>2. held'[c] = held[c] \/ held'[c] = snapshot \/ held'[c] = Full
    BY <1>1, <1>2 DEF Shaped, Set
  <2> HIDE DEF IsSnapshot, Covered, Full
  <2> QED BY <1>1, <2>1, <2>2 DEF HoldsCovered
<1>6. DOMAIN sent'[c] = {} /\ DOMAIN reply'[c] = {} /\ stage'[c] = "calling"
  BY <1>1, <1>2 DEF CallsAlike, RepliesHeard, Shaped, Set
<1>7. CallsAlike(c)' /\ RepliesHeard(c)'
  BY <1>6 DEF CallsAlike, RepliesHeard
<1> QED BY <1>2, <1>3, <1>4, <1>5, <1>7, OneCaller

LEMMA CallsGoOut ==
    ASSUME QuotesInv, NEW c \in Callers, NEW t, Call(c, t)
    PROVE  QuotesInv'
<1>1. Shaped /\ HoldsCovered(c) /\ CallsAlike(c) /\ RepliesHeard(c)
  BY DEF QuotesInv, Shaped
<1>2. /\ stage[c] = "calling"
      /\ sent' = Set(sent, c, [u \in DOMAIN sent[c] \cup {t} |->
                                  IF u = t THEN Request(c) ELSE sent[c][u]])
      /\ UNCHANGED <<feedVars, stage, order, targets, held, reply>>
  BY DEF Call
<1>3. Shaped' /\ Others(c)
  BY <1>1, <1>2 DEF Shaped, Others, Set
<1>4. Request(c)' = Request(c)
  BY <1>2 DEF Request, Given, feedVars
<1>5. sent'[c] = [u \in DOMAIN sent[c] \cup {t} |->
                     IF u = t THEN Request(c) ELSE sent[c][u]]
  BY <1>1, <1>2 DEF Shaped, Set
<1>6. CallsAlike(c)'
  <2> HIDE DEF Request
  <2>1. \A u \in DOMAIN sent'[c] : sent'[c][u] = Request(c)
    BY <1>1, <1>5 DEF CallsAlike
  <2> QED BY <1>2, <1>4, <2>1 DEF CallsAlike
<1>7. \A r : Surfaces(c, r)' <=> Surfaces(c, r)
  BY <1>2 DEF Surfaces
<1>8. HoldsCovered(c)' /\ RepliesHeard(c)'
  BY <1>1, <1>2, <1>7 DEF HoldsCovered, RepliesHeard
<1> QED BY <1>2, <1>3, <1>6, <1>8, OneCaller

LEMMA Answers ==
    ASSUME QuotesInv, NEW c \in Callers, NEW t, NEW r \in Replies, Answer(c, t, r)
    PROVE  QuotesInv'
<1>1. Shaped /\ HoldsCovered(c) /\ CallsAlike(c) /\ RepliesHeard(c)
  BY DEF QuotesInv, Shaped
<1>2. /\ stage[c] = "calling"
      /\ reply' = Set(reply, c, [u \in DOMAIN reply[c] \cup {t} |->
                                    IF u = t THEN r ELSE reply[c][u]])
      /\ stage' = IF Surfaces(c, r) THEN Set(stage, c, "failed") ELSE stage
      /\ UNCHANGED <<feedVars, order, targets, held, sent>>
  BY DEF Answer, Move
<1>3. Shaped' /\ Others(c)
  BY <1>1, <1>2 DEF Shaped, Others, Set, Stages
<1>4. stage'[c] = IF Surfaces(c, r) THEN "failed" ELSE "calling"
  BY <1>1, <1>2 DEF Shaped, Set
<1>5. reply'[c] = [u \in DOMAIN reply[c] \cup {t} |-> IF u = t THEN r ELSE reply[c][u]]
  BY <1>1, <1>2 DEF Shaped, Set
<1>6. Request(c)' = Request(c)
  BY <1>2 DEF Request, Given, feedVars
<1>7. \A q : Surfaces(c, q)' <=> Surfaces(c, q)
  BY <1>2 DEF Surfaces
<1>8. HoldsCovered(c)' /\ CallsAlike(c)'
  BY <1>1, <1>2, <1>4, <1>6 DEF HoldsCovered, CallsAlike
<1>9. RepliesHeard(c)'
  <2>1. \A u \in DOMAIN reply'[c] :
           /\ reply'[c][u] \in Replies
           /\ stage'[c] # "failed" => ~Surfaces(c, reply'[c][u])
    BY <1>1, <1>2, <1>4, <1>5 DEF RepliesHeard
  <2> QED BY <1>4, <1>7, <2>1 DEF RepliesHeard
<1> QED BY <1>2, <1>3, <1>8, <1>9, OneCaller

LEMMA QuotesStep == QuotesInv /\ [QuotesNext]_quoteVars => QuotesInv'
<1> SUFFICES ASSUME QuotesInv, [QuotesNext]_quoteVars PROVE QuotesInv'
  OBVIOUS
<1>1. ASSUME UNCHANGED callVars, [FeedNext]_feedVars PROVE QuotesInv'
  <2>1. FeedInv'
    BY <1>1, FeedSteps DEF QuotesInv
  <2>2. \A c \in Callers : Request(c)' = Request(c)
    BY <1>1 DEF Request, Given, callVars
  <2>3. \A c \in Callers : \A r : Surfaces(c, r)' <=> Surfaces(c, r)
    BY <1>1 DEF Surfaces, callVars
  <2>4. \A c \in Callers : HoldsCovered(c)' /\ CallsAlike(c)' /\ RepliesHeard(c)'
    BY <1>1, <2>2, <2>3
       DEF QuotesInv, callVars, HoldsCovered, CallsAlike, RepliesHeard
  <2> QED BY <1>1, <2>1, <2>4 DEF QuotesInv, callVars
<1>2. ASSUME NEW c \in Callers, NEW listed \in SUBSET Venues, List(c, listed)
      PROVE  QuotesInv'
  <2>1. stage[c] = "listing" /\ "resolving" \in Stages
    BY <1>2 DEF List, Stages
  <2> QED BY <1>2, <2>1, Moves DEF List
<1>3. ASSUME NEW c \in Callers, Fail(c) PROVE QuotesInv'
  <2>1. "failed" \in Stages
    BY DEF Stages
  <2> QED BY <1>3, <2>1, Moves DEF Fail
<1>4. ASSUME NEW c \in Callers, Return(c) PROVE QuotesInv'
  <2>1. stage[c] = "calling" /\ "quoted" \in Stages
    BY <1>4 DEF Return, Stages
  <2> QED BY <1>4, <2>1, Moves DEF Return
<1>5. CASE UNCHANGED quoteVars
  BY <1>1, <1>5 DEF quoteVars
<1> QED
  BY <1>1, <1>2, <1>3, <1>4, <1>5, Begins, Resolves, CallsGoOut, Answers
     DEF QuotesNext, Feed

THEOREM QuotesAreSound == QuotesSpec => []QuotesInv
<1> QED BY QuotesStart, QuotesStep, PTL DEF QuotesSpec

\* The calls of one get_quotes carry one snapshot, whatever frames come in.
THEOREM BoardsAreComparable == QuotesSpec => []BoardIsComparable
<1>1. QuotesInv => BoardIsComparable
  BY DEF QuotesInv, CallsAlike, BoardIsComparable
<1> QED BY <1>1, QuotesAreSound, PTL

\* get_quotes leaves out no venue whose call was not answered.
THEOREM BoardsAreComplete == QuotesSpec => []BoardIsComplete
<1>1. QuotesInv => BoardIsComplete
  <2> SUFFICES ASSUME QuotesInv, NEW c \in Callers, stage[c] = "quoted",
                      NEW t \in targets[c]
               PROVE  t \in Board(c) \/ reply[c][t] = 0 \/ IsRevertError(reply[c][t])
    BY DEF BoardIsComplete
  <2>1. t \in DOMAIN reply[c] /\ reply[c][t] \in Replies
        /\ ~Surfaces(c, reply[c][t])
    BY DEF QuotesInv, RepliesHeard
  <2> QED
    BY <2>1, QuoteAmounts
       DEF Replies, Surfaces, Board, IsRevertError, Broken, Refused, Reverted
<1> QED BY <1>1, QuotesAreSound, PTL

\* No eth_call of the SDK runs at a block older than its overrides, and the default
\* of Bebop's price is in every map that asks for it.
THEOREM EveryCallIsCovered == QuotesSpec => []CallsAreCovered
<1>1. QuotesInv => CallsAreCovered
  <2> SUFFICES ASSUME QuotesInv, NEW c \in Callers, NEW t \in DOMAIN sent[c]
               PROVE  /\ \A cell \in DOMAIN sent[c][t].map :
                            sent[c][t].map[cell] <= sent[c][t].block
                      /\ order[c].bebopDefault /\ order[c].source # "none"
                            => BebopCell \in DOMAIN sent[c][t].map
    BY DEF CallsAreCovered
  <2> DEFINE map == StateOverride(held[c], Everyone, order[c].bebopDefault)
  <2>1. sent[c][t] = IF order[c].source = "none" \/ DOMAIN map = {}
                     THEN [map |-> Nothing, block |-> 0]
                     ELSE [map |-> map, block |-> held[c].block]
    BY DEF QuotesInv, CallsAlike, Request, Given
  <2>2. order[c].bebopDefault \in BOOLEAN
    BY DEF QuotesInv, Order
  <2>3. /\ \A cell \in DOMAIN map : map[cell] <= held[c].block
        /\ order[c].bebopDefault => BebopCell \in DOMAIN map
    BY <2>2, OverrideIsCovered DEF QuotesInv, HoldsCovered
  <2> HIDE DEF map
  <2> QED BY <2>1, <2>3 DEF Nothing
<1> QED BY <1>1, QuotesAreSound, PTL

(***************************************************************************)
(* The inductive invariant                                                 *)
(***************************************************************************)
\* The sender knows the nonce of the transaction that he is about to send.
Counted(c) == step[c] \in {"building", "sending"}

\* What is sent is a wish that passed the checks of the SDK.
Checked ==
    \A c \in Senders : step[c] \in Sending =>
       /\ wish[c] \in Wishes /\ Valid(wish[c])
       /\ send[c] \in 1 .. begun

\* Who sends at the same time as another knows no order.
Together ==
    \A c, d \in Senders :
       c # d /\ step[c] \in Sending /\ step[d] \in Sending => send[c] \in crossed

NoGaps ==
    \E top \in Nat :
       /\ top >= Len(chain)
       /\ DOMAIN pool = Len(chain) .. top - 1
       /\ \A c \in Senders : Counted(c) => nonce[c] <= top

Fits ==
    \A c \in Senders :
       Counted(c) /\ send[c] \notin crossed =>
          nonce[c] >= Len(chain) /\ nonce[c] \notin DOMAIN pool

\* The past of a send is over when it begins.
Past ==
    /\ returned \subseteq 1 .. begun
    /\ \A t \in Id : before[t] \subseteq returned
    /\ \A n \in DOMAIN pool : pool[n].id \in 1 .. begun
    /\ \A i \in DOMAIN chain : chain[i].id \in 1 .. begun

Mined(t) == \E j \in DOMAIN chain : chain[j].id = t

\* Transaction t waits at nonce n, and nobody is about to replace it.
At(t, n) ==
    /\ n \in DOMAIN pool /\ pool[n].id = t
    /\ \A d \in Senders : Counted(d) => nonce[d] > n

Placed == \A t \in returned \ crossed : Mined(t) \/ \E n \in Nat : At(t, n)

\* What a pending transaction must follow is mined, or ahead of it.
OrderIntact ==
    \A m \in DOMAIN pool : \A t \in before[pool[m].id] \ crossed :
       Mined(t) \/ \E n \in Nat : At(t, n) /\ n < m

SwapsInv ==
    /\ SwapsTypeOK /\ Checked /\ Together /\ NoGaps /\ Fits /\ Past
    /\ Placed /\ OrderIntact
    /\ LoneSendIsAccepted /\ MinedInOrder /\ MessagesPass

(***************************************************************************)
(* Lemmas                                                                  *)
(***************************************************************************)
\* get_transaction_count answers the nonce behind the pool.
LEMMA NextIsTop ==
    ASSUME SwapsTypeOK, NEW top \in Nat, top >= Len(chain),
           DOMAIN pool = Len(chain) .. top - 1
    PROVE  NextNonce = top
<1>1. Len(chain) \in Nat
  BY DEF SwapsTypeOK
<1> DEFINE S == {Len(chain)} \cup {m + 1 : m \in DOMAIN pool}
           P(n) == /\ n >= Len(chain) /\ n \notin DOMAIN pool
                   /\ \A m \in Len(chain) .. n - 1 : m \in DOMAIN pool
<1>2. S \subseteq Nat
  BY <1>1
<1>3. top \in S /\ P(top)
  <2>1. CASE top = Len(chain)
    BY <1>1, <2>1
  <2>2. CASE top > Len(chain)
    <3>1. top - 1 \in DOMAIN pool
      BY <1>1, <2>2
    <3>2. top = (top - 1) + 1
      OBVIOUS
    <3>3. top \in S
      BY <3>1, <3>2
    <3> QED BY <1>1, <3>3
  <2> QED BY <1>1, <2>1, <2>2
<1>4. ASSUME NEW n \in S, P(n) PROVE n = top
  <2>1. n \in Nat
    BY <1>2
  <2>2. ~(n < top)
    BY <1>1, <1>4, <2>1
  <2>3. ~(n > top)
    <3>1. SUFFICES ASSUME n > top PROVE FALSE
      OBVIOUS
    <3>2. top \in Len(chain) .. n - 1
      BY <1>1, <2>1, <3>1
    <3> QED BY <1>1, <1>4, <3>2
  <2> QED BY <2>1, <2>2, <2>3
<1> QED BY <1>3, <1>4 DEF NextNonce

\* What leaves the SDK is taken by the router.
LEMMA ValidIsTaken ==
    ASSUME NEW w \in Wishes, Valid(w)
    PROVE  MessageOf(w) \in Message /\ RouterTakes(MessageOf(w))
<1>1. w \in Wish /\ (w.kind = "approve" => ~w.eth /\ w.plain)
  BY SendWishes
<1>2. w.kind \in {"approve", "swap"} /\ w.plain \in BOOLEAN /\ w.bps \in Nat
      /\ w.unpaid \in BOOLEAN /\ w.eth \in BOOLEAN /\ w.amount \in Nat
  BY <1>1 DEF Wish
<1>3. MessageOf(w) \in Message
  BY <1>2 DEF MessageOf, Message
<1>4. CASE w.kind = "approve"
  BY <1>1, <1>2, <1>3, <1>4 DEF RouterTakes, MessageOf
<1>5. CASE w.kind = "swap"
  <2>1. w.plain \/ (w.bps \in 1 .. MAX_FEE_BPS /\ ~w.unpaid)
    BY <1>5 DEF Valid, ValidFee
  <2> QED BY <1>2, <1>3, <1>5, <2>1, SendBounds DEF RouterTakes, MessageOf
<1> QED BY <1>2, <1>4, <1>5

(***************************************************************************)
(* A sender goes on, and nothing else changes                              *)
(***************************************************************************)
LEMMA GoesOn ==
    ASSUME SwapsInv, NEW c \in Senders, NEW dest \in Sending \cup {"waiting"} \cup Ended,
           Go(c, dest),
           UNCHANGED <<nodeVars, wish, nonce, send, hash, pastVars>>,
           dest \in Sending => step[c] = "building" /\ dest = "sending",
           dest = "refused" => send[c] \in crossed
    PROVE  SwapsInv'
<1> USE DEF nodeVars, pastVars
<1>1. step \in [Senders -> Sending \cup {"waiting"} \cup Ended]
  BY DEF SwapsInv, SwapsTypeOK
<1>2. \A d \in Senders : /\ step'[d] = IF d = c THEN dest ELSE step[d]
                         /\ step'[d] \in Sending => step[d] \in Sending
                         /\ Counted(d)' => Counted(d)
  BY <1>1 DEF Go, Sending, Counted, Ended
<1>3. SwapsTypeOK'
  BY <1>1 DEF SwapsInv, SwapsTypeOK, Go
<1>4. Checked'
  BY <1>2 DEF SwapsInv, Checked
<1>5. Together'
  BY <1>2 DEF SwapsInv, Together
<1>6. NoGaps'
  BY <1>2 DEF SwapsInv, NoGaps
<1>7. Fits'
  BY <1>2 DEF SwapsInv, Fits
<1>8. Past'
  BY DEF SwapsInv, Past
<1>9. \A t, n : (Mined(t) => Mined(t)') /\ (At(t, n) => At(t, n)')
  BY <1>2 DEF Mined, At
<1>10. Placed'
  BY <1>9 DEF SwapsInv, Placed
<1>11. OrderIntact'
  BY <1>9 DEF SwapsInv, OrderIntact
<1>12. LoneSendIsAccepted'
  BY <1>2 DEF SwapsInv, LoneSendIsAccepted
<1>13. MinedInOrder' /\ MessagesPass'
  BY DEF SwapsInv, MinedInOrder, MessagesPass
<1> QED
  BY <1>3, <1>4, <1>5, <1>6, <1>7, <1>8, <1>10, <1>11, <1>12, <1>13 DEF SwapsInv

(***************************************************************************)
(* A send begins                                                           *)
(***************************************************************************)
LEMMA BeginSends ==
    ASSUME SwapsInv, NEW c \in Senders, NEW w \in Wishes, BeginSend(c, w), Valid(w)
    PROVE  SwapsInv'
<1> DEFINE busy == {s \in Senders : step[s] \in Sending}
           this == begun + 1
<1>1. /\ step[c] \in Ended /\ begun < MaxSends
      /\ step' = [step EXCEPT ![c] = "counting"]
      /\ wish' = [wish EXCEPT ![c] = w]
      /\ send' = [send EXCEPT ![c] = this]
      /\ begun' = this
      /\ before' = [before EXCEPT ![this] = returned]
      /\ crossed' = crossed \cup {send[s] : s \in busy}
                            \cup (IF busy = {} THEN {} ELSE {this})
      /\ chain' = chain /\ pool' = pool /\ nonce' = nonce /\ hash' = hash
      /\ returned' = returned
  BY DEF BeginSend, Go, nodeVars
<1>2. /\ step \in [Senders -> Sending \cup {"waiting"} \cup Ended]
      /\ wish \in [Senders -> Wish] /\ send \in [Senders -> 0 .. begun]
      /\ hash \in [Senders -> 0 .. begun]
      /\ begun \in 0 .. MaxSends /\ MaxSends \in Nat
      /\ returned \subseteq Id /\ crossed \subseteq Id
      /\ before \in [Id -> SUBSET Id]
  BY SendBounds DEF SwapsInv, SwapsTypeOK
<1>3. this \in Id /\ this \in Nat /\ this \notin 1 .. begun
  BY <1>1, <1>2 DEF Id
<1>4. \A d \in Senders :
         /\ step'[d] = (IF d = c THEN "counting" ELSE step[d])
         /\ send'[d] = (IF d = c THEN this ELSE send[d])
         /\ wish'[d] = (IF d = c THEN w ELSE wish[d])
         /\ Counted(d)' <=> Counted(d)
         /\ Counted(d) => d # c
  BY <1>1, <1>2 DEF Counted, Ended
<1>5. \A d \in busy : send[d] \in 1 .. begun /\ d # c
  BY <1>1 DEF SwapsInv, Checked, Sending, Ended
<1>6. crossed \subseteq crossed' /\ crossed' \subseteq Id
  <2>1. {send[s] : s \in busy} \subseteq Id
    BY <1>2, <1>5 DEF Id
  <2> QED BY <1>1, <1>2, <1>3, <2>1
<1>7. SwapsTypeOK'
  <2>1. wish' \in [Senders -> Wish]
    BY <1>1, <1>2, SendWishes
  <2>2. send' \in [Senders -> 0 .. begun'] /\ hash' \in [Senders -> 0 .. begun']
    BY <1>1, <1>2, <1>3
  <2>3. step' \in [Senders -> Sending \cup {"waiting"} \cup Ended]
    BY <1>1, <1>2 DEF Sending
  <2>4. before' \in [Id -> SUBSET Id]
    BY <1>1, <1>2, <1>3
  <2>5. begun' \in 0 .. MaxSends
    BY <1>1, <1>2
  <2> QED
    BY <1>1, <1>2, <1>6, <2>1, <2>2, <2>3, <2>4, <2>5 DEF SwapsInv, SwapsTypeOK
<1>8. Checked'
  <2> SUFFICES ASSUME NEW d \in Senders, step'[d] \in Sending
               PROVE  wish'[d] \in Wishes /\ Valid(wish'[d]) /\ send'[d] \in 1 .. begun'
    BY DEF Checked
  <2>1. CASE d = c
    BY <1>1, <1>2, <1>3, <1>4, <2>1
  <2>2. CASE d # c
    BY <1>1, <1>2, <1>3, <1>4, <2>2 DEF SwapsInv, Checked
  <2> QED BY <2>1, <2>2
<1>9. Together'
  <2> SUFFICES ASSUME NEW d \in Senders, NEW e \in Senders, d # e,
                      step'[d] \in Sending, step'[e] \in Sending
               PROVE  send'[d] \in crossed'
    BY DEF Together
  <2>1. CASE d = c
    <3>1. e \in busy
      BY <1>4, <2>1
    <3> QED BY <1>1, <1>4, <2>1, <3>1
  <2>2. CASE d # c
    <3>1. d \in busy
      BY <1>4, <2>2
    <3> QED BY <1>1, <1>4, <2>2, <3>1
  <2> QED BY <2>1, <2>2
<1>10. NoGaps'
  BY <1>1, <1>4 DEF SwapsInv, NoGaps
<1>11. Fits'
  BY <1>1, <1>4, <1>6 DEF SwapsInv, Fits
<1>12. Past'
  <2>1. \A t \in Id : before'[t] \subseteq returned
    BY <1>1, <1>2 DEF SwapsInv, Past
  <2>2. 1 .. begun \subseteq 1 .. begun'
    BY <1>1, <1>2
  <2> QED BY <1>1, <2>1, <2>2 DEF SwapsInv, Past
<1>13. \A t, n : (Mined(t) => Mined(t)') /\ (At(t, n) => At(t, n)')
  BY <1>1, <1>4 DEF Mined, At
<1>14. Placed'
  BY <1>1, <1>6, <1>13 DEF SwapsInv, Placed
<1>15. \A t \in 1 .. begun : before'[t] = before[t]
  BY <1>1, <1>2, <1>3 DEF Id
<1>16. OrderIntact'
  <2> SUFFICES ASSUME NEW m \in DOMAIN pool, NEW t \in before'[pool[m].id] \ crossed'
               PROVE  Mined(t)' \/ \E n \in Nat : At(t, n)' /\ n < m
    BY <1>1 DEF OrderIntact
  <2>1. t \in before[pool[m].id] \ crossed
    BY <1>6, <1>15 DEF SwapsInv, Past
  <2> QED BY <1>13, <2>1 DEF SwapsInv, OrderIntact
<1>17. LoneSendIsAccepted'
  BY <1>4, <1>6 DEF SwapsInv, LoneSendIsAccepted
<1>18. MinedInOrder'
  <2> SUFFICES ASSUME NEW i \in DOMAIN chain, NEW t \in before'[chain[i].id] \ crossed'
               PROVE  \E j \in 1 .. i - 1 : chain[j].id = t
    BY <1>1 DEF MinedInOrder
  <2>1. t \in before[chain[i].id] \ crossed
    BY <1>6, <1>15 DEF SwapsInv, Past
  <2> QED BY <2>1 DEF SwapsInv, MinedInOrder
<1>19. MessagesPass'
  BY <1>1 DEF SwapsInv, MessagesPass
<1> QED
  BY <1>7, <1>8, <1>9, <1>10, <1>11, <1>12, <1>14, <1>16, <1>17, <1>18, <1>19 DEF SwapsInv

(***************************************************************************)
(* A sender learns his nonce                                               *)
(***************************************************************************)
LEMMA Counts ==
    ASSUME SwapsInv, NEW c \in Senders, Count(c)
    PROVE  SwapsInv'
<1>1. /\ step[c] = "counting"
      /\ step' = [step EXCEPT ![c] = "building"]
      /\ nonce' = [nonce EXCEPT ![c] = NextNonce]
      /\ UNCHANGED <<chain, pool, wish, send, hash, begun, returned, before, crossed>>
  BY DEF Count, Go, nodeVars, pastVars
<1>2. PICK top \in Nat : /\ top >= Len(chain)
                         /\ DOMAIN pool = Len(chain) .. top - 1
                         /\ \A d \in Senders : Counted(d) => nonce[d] <= top
  BY DEF SwapsInv, NoGaps
<1>3. NextNonce = top
  BY <1>2, NextIsTop DEF SwapsInv
<1>4. Len(chain) \in Nat
  BY DEF SwapsInv, SwapsTypeOK
<1>5. /\ step \in [Senders -> Sending \cup {"waiting"} \cup Ended]
      /\ nonce \in [Senders -> Nat]
  BY DEF SwapsInv, SwapsTypeOK
<1>6. \A d \in Senders : /\ step'[d] = (IF d = c THEN "building" ELSE step[d])
                         /\ nonce'[d] = (IF d = c THEN top ELSE nonce[d])
                         /\ step'[d] \in Sending <=> step[d] \in Sending
                         /\ d # c => (Counted(d)' <=> Counted(d))
  BY <1>1, <1>3, <1>5 DEF Sending, Counted
<1>7. SwapsTypeOK'
  BY <1>1, <1>3, <1>5 DEF SwapsInv, SwapsTypeOK, Sending
<1>8. Checked'
  BY <1>1, <1>6 DEF SwapsInv, Checked
<1>9. Together'
  BY <1>1, <1>6 DEF SwapsInv, Together
<1>10. NoGaps'
  <2>1. \A d \in Senders : Counted(d)' => nonce'[d] <= top
    BY <1>2, <1>6
  <2> QED BY <1>1, <1>2, <2>1 DEF NoGaps
<1>11. Fits'
  <2> SUFFICES ASSUME NEW d \in Senders, Counted(d)', send[d] \notin crossed
               PROVE  nonce'[d] >= Len(chain) /\ nonce'[d] \notin DOMAIN pool
    BY <1>1 DEF Fits
  <2>1. CASE d = c
    BY <1>2, <1>4, <1>6, <2>1
  <2>2. CASE d # c
    BY <1>6, <2>2 DEF SwapsInv, Fits
  <2> QED BY <2>1, <2>2
<1>12. Past'
  BY <1>1 DEF SwapsInv, Past
<1>13. ASSUME NEW t, NEW n \in Nat, At(t, n)
       PROVE  At(t, n)'
  <2>1. n \in DOMAIN pool /\ pool[n].id = t /\ n < top
    BY <1>2, <1>4, <1>13 DEF At
  <2>2. \A d \in Senders : Counted(d)' => nonce'[d] > n
    BY <1>6, <1>13, <2>1 DEF At
  <2> QED BY <1>1, <2>1, <2>2 DEF At
<1>14. \A t : Mined(t) => Mined(t)'
  BY <1>1 DEF Mined
<1>15. Placed'
  BY <1>1, <1>13, <1>14 DEF SwapsInv, Placed
<1>16. OrderIntact'
  BY <1>1, <1>13, <1>14 DEF SwapsInv, OrderIntact
<1>17. LoneSendIsAccepted'
  BY <1>1, <1>6 DEF SwapsInv, LoneSendIsAccepted
<1>18. MinedInOrder' /\ MessagesPass'
  BY <1>1 DEF SwapsInv, MinedInOrder, MessagesPass
<1> QED
  BY <1>7, <1>8, <1>9, <1>10, <1>11, <1>12, <1>15, <1>16, <1>17, <1>18 DEF SwapsInv

(***************************************************************************)
(* A transaction reaches the pool                                          *)
(***************************************************************************)
LEMMA Submits ==
    ASSUME SwapsInv, NEW c \in Senders, Submit(c)
    PROVE  SwapsInv'
<1> DEFINE tx == [id |-> send[c], message |-> MessageOf(wish[c])]
<1>1. /\ step[c] = "sending" /\ nonce[c] >= Len(chain)
      /\ pool' = [n \in DOMAIN pool \cup {nonce[c]} |->
                     IF n = nonce[c] THEN tx ELSE pool[n]]
      /\ UNCHANGED <<chain, wish, nonce, send, begun, before, crossed>>
  BY DEF Submit, Queue
<1>2. PICK dest \in {"sent", "lost"} :
         /\ step' = [step EXCEPT ![c] = dest]
         /\ hash' = hash \/ hash' = [hash EXCEPT ![c] = send[c]]
         /\ returned' = returned \/ returned' = returned \cup {send[c]}
  BY DEF Submit, Go
<1>3. /\ step \in [Senders -> Sending \cup {"waiting"} \cup Ended]
      /\ nonce \in [Senders -> Nat] /\ begun \in Nat
      /\ send \in [Senders -> 0 .. begun] /\ hash \in [Senders -> 0 .. begun]
      /\ Len(chain) \in Nat /\ DOMAIN pool \subseteq Nat
      /\ pool \in [DOMAIN pool -> Tx] /\ begun \in 0 .. MaxSends /\ MaxSends \in Nat
  BY SendBounds DEF SwapsInv, SwapsTypeOK
<1>4. /\ wish[c] \in Wishes /\ Valid(wish[c]) /\ send[c] \in 1 .. begun
  BY <1>1 DEF SwapsInv, Checked, Sending
<1>5. tx \in Tx /\ RouterTakes(tx.message) /\ send[c] \in Id
  <2>1. send[c] \in Id
    BY <1>3, <1>4 DEF Id
  <2> QED BY <1>4, <2>1, ValidIsTaken DEF Tx
<1>6. \A d \in Senders : /\ step'[d] = IF d = c THEN dest ELSE step[d]
                         /\ step'[d] \in Sending => step[d] \in Sending /\ d # c
                         /\ Counted(d)' => Counted(d) /\ d # c
  BY <1>1, <1>2, <1>3 DEF Sending, Counted
<1>7. \A d \in Senders : step'[d] \in Sending =>
         send[d] \in crossed /\ send[c] \in crossed
  BY <1>1, <1>6 DEF SwapsInv, Together, Sending
<1>8. /\ DOMAIN pool' = DOMAIN pool \cup {nonce[c]}
      /\ pool'[nonce[c]] = tx
      /\ \A n \in DOMAIN pool : n # nonce[c] => pool'[n] = pool[n]
  BY <1>1
<1>9. SwapsTypeOK'
  <2>1. DOMAIN pool' \subseteq Nat /\ pool' \in [DOMAIN pool' -> Tx]
    BY <1>1, <1>3, <1>5, <1>8
  <2>2. step' \in [Senders -> Sending \cup {"waiting"} \cup Ended]
    BY <1>2, <1>3 DEF Ended
  <2>3. hash' \in [Senders -> 0 .. begun]
    BY <1>2, <1>3
  <2>4. returned' \subseteq Id
    BY <1>2, <1>5 DEF SwapsInv, SwapsTypeOK
  <2> QED BY <1>1, <2>1, <2>2, <2>3, <2>4 DEF SwapsInv, SwapsTypeOK
<1>10. Checked'
  BY <1>1, <1>6 DEF SwapsInv, Checked
<1>11. Together'
  BY <1>1, <1>6 DEF SwapsInv, Together
<1>12. NoGaps'
  <2>1. PICK top \in Nat : /\ top >= Len(chain)
                          /\ DOMAIN pool = Len(chain) .. top - 1
                          /\ \A d \in Senders : Counted(d) => nonce[d] <= top
    BY DEF SwapsInv, NoGaps
  <2>2. nonce[c] <= top /\ nonce[c] \in Nat
    BY <1>1, <1>3, <2>1 DEF Counted
  <2>3. CASE nonce[c] = top
    <3>1. DOMAIN pool' = Len(chain) .. (top + 1) - 1
      BY <1>1, <1>3, <1>8, <2>1, <2>3
    <3>2. \A d \in Senders : Counted(d)' => nonce[d] <= top + 1
      BY <1>3, <1>6, <2>1
    <3>3. top + 1 \in Nat /\ top + 1 >= Len(chain)
      BY <1>3, <2>1
    <3> HIDE DEF tx
    <3> QED BY <1>1, <3>1, <3>2, <3>3 DEF NoGaps
  <2>4. CASE nonce[c] < top
    <3>1. DOMAIN pool' = Len(chain) .. top - 1
      BY <1>1, <1>3, <1>8, <2>1, <2>2, <2>4
    <3> QED BY <1>1, <1>6, <2>1, <3>1 DEF NoGaps
  <2> QED BY <2>1, <2>2, <2>3, <2>4
<1>13. Fits'
  BY <1>1, <1>7 DEF Fits, Counted, Sending
<1>14. Past'
  <2>1. returned' \subseteq 1 .. begun /\ returned \subseteq returned'
    BY <1>2, <1>4 DEF SwapsInv, Past
  <2>2. \A n \in DOMAIN pool' : pool'[n].id \in 1 .. begun
    BY <1>4, <1>8 DEF SwapsInv, Past
  <2>3. \A t \in Id : before[t] \subseteq returned'
    BY <2>1 DEF SwapsInv, Past
  <2> QED BY <1>1, <2>1, <2>2, <2>3 DEF SwapsInv, Past
<1>15. ASSUME NEW t, NEW n \in Nat, At(t, n)
       PROVE  At(t, n)' /\ n < nonce[c]
  <2>1. n \in DOMAIN pool /\ pool[n].id = t /\ nonce[c] > n
    BY <1>1, <1>15 DEF At, Counted
  <2>2. pool'[n] = pool[n] /\ n \in DOMAIN pool'
    BY <1>3, <1>8, <2>1
  <2>3. \A d \in Senders : Counted(d)' => nonce[d] > n
    BY <1>6, <1>15 DEF At
  <2> QED BY <1>1, <1>3, <2>1, <2>2, <2>3 DEF At
<1>16. \A t : Mined(t) => Mined(t)'
  BY <1>1 DEF Mined
<1>17. Placed'
  <2> SUFFICES ASSUME NEW t \in returned' \ crossed
               PROVE  Mined(t)' \/ \E n \in Nat : At(t, n)'
    BY <1>1 DEF Placed
  <2>1. CASE t \in returned
    BY <1>15, <1>16, <2>1 DEF SwapsInv, Placed
  <2>2. CASE t = send[c]
    <3>1. \A d \in Senders : ~Counted(d)'
      BY <1>7, <2>2 DEF Counted, Sending
    <3>2. At(t, nonce[c])'
      BY <1>1, <1>8, <2>2, <3>1 DEF At
    <3> QED BY <1>1, <1>3, <3>2
  <2> QED BY <1>2, <2>1, <2>2
<1>18. OrderIntact'
  <2> SUFFICES ASSUME NEW m \in DOMAIN pool',
                      NEW t \in before[pool'[m].id] \ crossed
               PROVE  Mined(t)' \/ \E n \in Nat : At(t, n)' /\ n < m
    BY <1>1 DEF OrderIntact
  <2>1. CASE m = nonce[c]
    <3>1. t \in returned \ crossed
      BY <1>5, <1>8, <2>1 DEF SwapsInv, Past
    <3> QED BY <1>15, <1>16, <2>1, <3>1 DEF SwapsInv, Placed
  <2>2. CASE m # nonce[c]
    <3>1. m \in DOMAIN pool /\ pool'[m] = pool[m]
      BY <1>8, <2>2
    <3> QED BY <1>15, <1>16, <3>1 DEF SwapsInv, OrderIntact
  <2> QED BY <2>1, <2>2
<1>19. LoneSendIsAccepted'
  BY <1>1, <1>6 DEF SwapsInv, LoneSendIsAccepted
<1>20. MinedInOrder'
  BY <1>1 DEF SwapsInv, MinedInOrder
<1>21. MessagesPass'
  <2>1. \A n \in DOMAIN pool' : RouterTakes(pool'[n].message)
    BY <1>5, <1>8 DEF SwapsInv, MessagesPass
  <2> QED BY <1>1, <2>1 DEF SwapsInv, MessagesPass
<1> QED
  BY <1>9, <1>10, <1>11, <1>12, <1>13, <1>14, <1>17, <1>18, <1>19, <1>20, <1>21
     DEF SwapsInv

(***************************************************************************)
(* The first of the pool is mined                                          *)
(***************************************************************************)
LEMMA Mines ==
    ASSUME SwapsInv, Mine
    PROVE  SwapsInv'
<1> DEFINE L == Len(chain)
<1>1. /\ L \in DOMAIN pool
      /\ chain' = Append(chain, pool[L])
      /\ pool' = [n \in DOMAIN pool \ {L} |-> pool[n]]
      /\ UNCHANGED <<step, wish, nonce, send, hash, begun, returned, before, crossed>>
  BY DEF Mine, pastVars
<1>2. /\ chain \in Seq(Tx) /\ L \in Nat /\ DOMAIN pool \subseteq Nat
      /\ pool \in [DOMAIN pool -> Tx] /\ nonce \in [Senders -> Nat]
  BY DEF SwapsInv, SwapsTypeOK
<1>3. pool[L] \in Tx
  BY <1>1, <1>2
<1>4. /\ chain' \in Seq(Tx) /\ Len(chain') = L + 1
      /\ DOMAIN chain = 1 .. L /\ DOMAIN chain' = 1 .. L + 1
      /\ \A i \in 1 .. L : chain'[i] = chain[i]
      /\ chain'[L + 1] = pool[L]
  BY <1>1, <1>2, <1>3
<1>5. /\ DOMAIN pool' = DOMAIN pool \ {L}
      /\ \A n \in DOMAIN pool' : pool'[n] = pool[n]
  BY <1>1
<1>6. PICK top \in Nat : /\ top >= L
                        /\ DOMAIN pool = L .. top - 1
                        /\ \A d \in Senders : Counted(d) => nonce[d] <= top
  BY DEF SwapsInv, NoGaps
<1>7. SwapsTypeOK'
  <2>1. DOMAIN pool' \subseteq Nat /\ pool' \in [DOMAIN pool' -> Tx]
    BY <1>1, <1>2, <1>5
  <2> QED BY <1>1, <1>4, <2>1 DEF SwapsInv, SwapsTypeOK
<1>8. Checked' /\ Together' /\ LoneSendIsAccepted'
  BY <1>1 DEF SwapsInv, Checked, Together, LoneSendIsAccepted
<1>9. NoGaps'
  <2>1. DOMAIN pool' = L + 1 .. top - 1 /\ top >= L + 1
    BY <1>1, <1>2, <1>5, <1>6
  <2> QED BY <1>1, <1>4, <1>6, <2>1 DEF NoGaps, Counted
<1>10. Fits'
  <2> SUFFICES ASSUME NEW d \in Senders, Counted(d), send[d] \notin crossed
               PROVE  nonce[d] >= L + 1 /\ nonce[d] \notin DOMAIN pool'
    BY <1>1, <1>4 DEF Fits, Counted
  <2>1. nonce[d] >= L /\ nonce[d] \notin DOMAIN pool /\ nonce[d] \in Nat
    BY <1>2 DEF SwapsInv, Fits
  <2> QED BY <1>1, <1>2, <1>5, <2>1
<1>11. Past'
  <2>1. \A i \in DOMAIN chain' : chain'[i].id \in 1 .. begun
    BY <1>1, <1>2, <1>4 DEF SwapsInv, Past
  <2> QED BY <1>1, <1>5, <2>1 DEF SwapsInv, Past
<1>12. \A t : Mined(t) => Mined(t)'
  <2> SUFFICES ASSUME NEW t, NEW j \in DOMAIN chain, chain[j].id = t
               PROVE  Mined(t)'
    BY DEF Mined
  <2>1. j \in DOMAIN chain' /\ chain'[j].id = t
    BY <1>2, <1>4
  <2> QED BY <2>1 DEF Mined
<1>13. ASSUME NEW t, NEW n \in Nat, At(t, n)
       PROVE  Mined(t)' \/ At(t, n)'
  <2>1. CASE n = L
    <3>1. L + 1 \in DOMAIN chain' /\ chain'[L + 1].id = t
      BY <1>2, <1>4, <1>13, <2>1 DEF At
    <3> QED BY <3>1 DEF Mined
  <2>2. CASE n # L
    BY <1>1, <1>5, <1>13, <2>2 DEF At, Counted
  <2> QED BY <2>1, <2>2
<1>14. Placed'
  BY <1>1, <1>12, <1>13 DEF SwapsInv, Placed
<1>15. OrderIntact'
  <2> SUFFICES ASSUME NEW m \in DOMAIN pool',
                      NEW t \in before[pool[m].id] \ crossed
               PROVE  Mined(t)' \/ \E n \in Nat : At(t, n)' /\ n < m
    BY <1>1, <1>5 DEF OrderIntact
  <2>1. Mined(t) \/ \E n \in Nat : At(t, n) /\ n < m
    BY <1>5 DEF SwapsInv, OrderIntact
  <2> QED BY <1>12, <1>13, <2>1
<1>16. MinedInOrder'
  <2> SUFFICES ASSUME NEW i \in 1 .. L + 1,
                      NEW t \in before[chain'[i].id] \ crossed
               PROVE  \E j \in 1 .. i - 1 : chain'[j].id = t
    BY <1>1, <1>4 DEF MinedInOrder
  <2>1. CASE i \in 1 .. L
    <3>1. PICK j \in 1 .. i - 1 : chain[j].id = t
      BY <1>4, <2>1 DEF SwapsInv, MinedInOrder
    <3>2. j \in 1 .. L
      BY <1>2, <2>1
    <3> QED BY <1>4, <3>1, <3>2
  <2>2. CASE i = L + 1
    <3>1. ~\E n \in Nat : At(t, n) /\ n < L
      BY <1>2, <1>6 DEF At
    <3>2. Mined(t)
      BY <1>1, <1>4, <2>2, <3>1 DEF SwapsInv, OrderIntact
    <3>3. PICK j \in 1 .. L : chain[j].id = t
      BY <1>4, <3>2 DEF Mined
    <3> QED BY <1>2, <1>4, <2>2, <3>3
  <2> QED BY <1>2, <2>1, <2>2
<1>17. MessagesPass'
  <2>1. \A i \in DOMAIN chain' : RouterTakes(chain'[i].message)
    BY <1>1, <1>2, <1>4 DEF SwapsInv, MessagesPass
  <2> QED BY <1>5, <2>1 DEF SwapsInv, MessagesPass
<1> QED
  BY <1>7, <1>8, <1>9, <1>10, <1>11, <1>14, <1>15, <1>16, <1>17 DEF SwapsInv

(***************************************************************************)
(* Every behaviour                                                         *)
(***************************************************************************)
LEMMA StartsInOrder == SwapsInit => SwapsInv
<1> SUFFICES ASSUME SwapsInit PROVE SwapsInv
  OBVIOUS
<1>1. /\ chain = <<>> /\ DOMAIN pool = {} /\ pool = [n \in {} |-> 0]
      /\ step = [c \in Senders |-> "ready"]
      /\ nonce = [c \in Senders |-> 0] /\ send = [c \in Senders |-> 0]
      /\ hash = [c \in Senders |-> 0]
      /\ begun = 0 /\ returned = {} /\ crossed = {} /\ before = [t \in Id |-> {}]
  BY DEF SwapsInit
<1>2. wish \in [Senders -> Wish]
  BY DEF SwapsInit, Wish
<1>3. pool \in [DOMAIN pool -> Tx] /\ chain \in Seq(Tx) /\ Len(chain) = 0
  BY <1>1
<1>4. SwapsTypeOK
  BY <1>1, <1>2, <1>3, SendBounds DEF SwapsTypeOK, Ended
<1>5. \A c \in Senders : step[c] \notin Sending /\ ~Counted(c) /\ step[c] # "refused"
  BY <1>1 DEF Sending, Counted
<1>6. NoGaps
  <2>1. DOMAIN pool = Len(chain) .. 0 - 1 /\ 0 >= Len(chain) /\ 0 \in Nat
    BY <1>1, <1>3
  <2> QED BY <1>5, <2>1 DEF NoGaps
<1>7. DOMAIN chain = {}
  BY <1>1
<1> QED
  BY <1>1, <1>4, <1>5, <1>6, <1>7
     DEF SwapsInv, Checked, Together, Fits, Past, Placed, OrderIntact,
         LoneSendIsAccepted, MinedInOrder, MessagesPass

LEMMA StepsInOrder == SwapsInv /\ [SwapsNext]_swapVars => SwapsInv'
<1> SUFFICES ASSUME SwapsInv, [SwapsNext]_swapVars PROVE SwapsInv'
  OBVIOUS
<1>1. ASSUME NEW c \in Senders, NEW w \in Wishes, BeginSend(c, w) PROVE SwapsInv'
  <2>1. CASE Valid(w)
    BY <1>1, <2>1, BeginSends
  <2>2. CASE ~Valid(w)
    <3>1. /\ Go(c, "invalid") /\ "invalid" \in Ended
          /\ UNCHANGED <<nodeVars, wish, nonce, send, hash, pastVars>>
      BY <1>1, <2>2 DEF BeginSend, pastVars, Ended
    <3> QED BY <3>1, GoesOn DEF Sending
  <2> QED BY <2>1, <2>2
<1>2. ASSUME NEW c \in Senders, Build(c) PROVE SwapsInv'
  <2>1. PICK dest \in {"sending", "reverts"} : Go(c, dest)
    BY <1>2 DEF Build
  <2> QED BY <1>2, <2>1, GoesOn DEF Build, Sending, Ended
<1>3. ASSUME NEW c \in Senders, Refuse(c) PROVE SwapsInv'
  <2>1. send[c] \in crossed
    <3>1. nonce[c] \in Nat /\ Len(chain) \in Nat
      BY DEF SwapsInv, SwapsTypeOK
    <3> QED BY <1>3, <3>1 DEF SwapsInv, Fits, Refuse, Counted
  <2> QED BY <1>3, <2>1, GoesOn DEF Refuse, Sending, Ended
<1>4. ASSUME NEW c \in Senders, SendFails(c) PROVE SwapsInv'
  BY <1>4, GoesOn DEF SendFails, Sending, Ended
<1>5. ASSUME NEW c \in Senders, Wait(c) PROVE SwapsInv'
  BY <1>5, GoesOn DEF Wait, Sending
<1>6. ASSUME NEW c \in Senders, Receipt(c) PROVE SwapsInv'
  <2>1. PICK dest \in {"swapped", "reverted", "silent"} : Go(c, dest)
    BY <1>6 DEF Receipt
  <2> QED BY <1>6, <2>1, GoesOn DEF Receipt, Sending, Ended
<1>7. ASSUME NEW c \in Senders, TimeOut(c) PROVE SwapsInv'
  BY <1>7, GoesOn DEF TimeOut, Sending, Ended
<1>8. CASE UNCHANGED swapVars
  BY <1>8 DEF swapVars, nodeVars, pastVars, SwapsInv, SwapsTypeOK, Checked, Together,
              NoGaps, Fits, Past, Placed, OrderIntact, At, Mined, Counted,
              LoneSendIsAccepted, MinedInOrder, MessagesPass
<1> QED
  BY <1>1, <1>2, <1>3, <1>4, <1>5, <1>6, <1>7, <1>8, Counts, Submits, Mines
     DEF SwapsNext

THEOREM SwapsKeepOrder == SwapsSpec => []SwapsInv
<1> QED BY StartsInOrder, StepsInOrder, PTL DEF SwapsSpec

\* No node refuses the nonce of a send that ran alone (ContractClient.send).
THEOREM LoneSendsAreAccepted == SwapsSpec => []LoneSendIsAccepted
<1>1. SwapsInv => LoneSendIsAccepted
  BY DEF SwapsInv
<1> QED BY <1>1, SwapsKeepOrder, PTL

\* A swap is mined after the approval whose hash was returned before it was sent.
THEOREM OrderIsKept == SwapsSpec => []MinedInOrder
<1>1. SwapsInv => MinedInOrder
  BY DEF SwapsInv
<1> QED BY <1>1, SwapsKeepOrder, PTL

\* The checks of the SDK imply those of the router on value and fee.
THEOREM MessagesAreTaken == SwapsSpec => []MessagesPass
<1>1. SwapsInv => MessagesPass
  BY DEF SwapsInv
<1> QED BY <1>1, SwapsKeepOrder, PTL
(***************************************************************************)
(* The walk of a call tree.  A frame is shut to a walk once nothing beneath*)
(* it is counted for the first time: it is the venue's, or a transfer is   *)
(* under way, beneath which a CALL is counted once more.  What the walk    *)
(* counted but for those, and the gas left to the frames that are not shut,*)
(* never exceed what the outermost frame used.                             *)
(***************************************************************************)
Amounts == [inner : Nat, pull : Nat, delivery : Nat, other : Nat, frames : Nat,
            venue : {Nobody, Venue0, Elsewhere}]

OpenFrame == [gas : Nat, left : Nat, moves : BOOLEAN, inVenue : BOOLEAN,
              inSwap : BOOLEAN]

Amount(t) == t.inner + t.pull + t.delivery + t.other

\* What is counted is a number.
LEMMA AmountIsNat == ASSUME NEW t \in Amounts PROVE Amount(t) \in Nat
<1>1. /\ t.inner \in Nat /\ t.pull \in Nat /\ t.delivery \in Nat
      /\ t.other \in Nat
  BY DEF Amounts
<1>2. t.inner + t.pull \in Nat
  BY <1>1
<1>3. t.delivery + t.other \in Nat
  BY <1>1
<1> QED BY <1>1, <1>2, <1>3 DEF Amount

Shut(walk, frame) ==
    frame.moves \/ (IF walk = "tally" THEN frame.inVenue ELSE frame.inSwap)

\* Room h[n] is what is not left to the frames up to the n-th.
Rooms(walk, h, stack) ==
    /\ \A n \in 0 .. Len(stack) : h[n] \in 0 .. used
    /\ h[0] = used
    /\ \A n \in 1 .. Len(stack) :
          h[n - 1] = h[n] + (IF Shut(walk, stack[n]) THEN 0 ELSE stack[n].left)

\* What is counted beside the calls beneath a transfer.
HasRoom(walk, t) ==
    \E h : Rooms(walk, h, open) /\ Amount(t) - beneath[walk] <= h[Len(open)]

TraceInv ==
    /\ used \in Nat
    /\ open \in Seq(OpenFrame)
    /\ tally \in Amounts /\ compared \in Amounts
    /\ beneath \in [tally : Nat, compared : Nat]
    /\ HasRoom("tally", tally)
    /\ HasRoom("compared", compared)

\* A frame that is counted is a CALL beneath a transfer, or shuts itself beneath one
\* that is not shut.
LEMMA CountedFrames ==
    ASSUME NEW f \in CallFrame, tally \in Amounts, compared \in Amounts,
           beneath \in [tally : Nat, compared : Nat], Top \in OpenFrame
    PROVE  LET shuts(walk) == ~Shut(walk, Top) /\ Shut(walk, Opened(f))
               t == Tallied(f, Top.inVenue)
               c == Compared(f, Top.inSwap)
           IN  /\ Opened(f) \in OpenFrame /\ Opened(f).left = f.gas
               /\ Shut("tally", Top) => Shut("tally", Opened(f))
               /\ Shut("compared", Top) => Shut("compared", Opened(f))
               /\ t \in Amounts /\ c \in Amounts
               /\ Beneath(f) \in [tally : Nat, compared : Nat]
               /\ Amount(t) - Beneath(f).tally
                     <= Amount(tally) - beneath.tally
                           + (IF shuts("tally") THEN f.gas ELSE 0)
               /\ Amount(c) - Beneath(f).compared
                     <= Amount(compared) - beneath.compared
                           + (IF shuts("compared") THEN f.gas ELSE 0)
<1>1. f.gas \in Nat /\ f.gas > 0 /\ f.to \in {Venue0, Elsewhere}
  BY TraceBounds DEF CallFrame
<1>2. /\ Top.moves \in BOOLEAN
      /\ Top.inVenue \in BOOLEAN /\ Top.inSwap \in BOOLEAN
  BY DEF OpenFrame
<1>3. Opened(f) \in OpenFrame /\ Opened(f).left = f.gas
  <2>1. /\ IsVenueSwap(f) \in BOOLEAN /\ IsSwapCall(f) \in BOOLEAN
        /\ IsTransfer(f) \in BOOLEAN
    BY DEF IsVenueSwap, IsSwapCall, IsTransfer
  <2>2. /\ (Top.moves \/ IsTransfer(f)) \in BOOLEAN
        /\ (Top.inVenue \/ IsVenueSwap(f)) \in BOOLEAN
        /\ (Top.inSwap \/ IsSwapCall(f)) \in BOOLEAN
    BY <1>2, <2>1
  <2> QED BY <1>1, <2>2 DEF Opened, OpenFrame
<1>4. /\ Opened(f).moves = (Top.moves \/ IsTransfer(f))
      /\ Opened(f).inVenue = (Top.inVenue \/ IsVenueSwap(f))
      /\ Opened(f).inSwap = (Top.inSwap \/ IsSwapCall(f))
  BY DEF Opened
<1>5. /\ Shut("tally", Top) => Shut("tally", Opened(f))
      /\ Shut("compared", Top) => Shut("compared", Opened(f))
  BY <1>4 DEF Shut
<1>6. ASSUME NEW t \in Amounts
      PROVE  /\ t.inner \in Nat /\ t.pull \in Nat /\ t.delivery \in Nat
             /\ t.other \in Nat /\ t.frames \in Nat
             /\ t.venue \in {Nobody, Venue0, Elsewhere}
  BY DEF Amounts
<1> DEFINE gas == IF Top.moves /\ f.type = "CALL" THEN f.gas ELSE 0
           more == (IF ~Shut("tally", Top) /\ Shut("tally", Opened(f)) THEN f.gas ELSE 0)
                      + (IF Top.inVenue THEN 0 ELSE gas)
           again == (IF ~Shut("compared", Top) /\ Shut("compared", Opened(f)) THEN f.gas ELSE 0)
                       + (IF Top.inSwap THEN 0 ELSE gas)
<1>7. more \in Nat /\ again \in Nat
  BY <1>1
<1>8. LET t == Tallied(f, Top.inVenue)
      IN  /\ t \in Amounts
          /\ Amount(t) <= Amount(tally) + more
  <2>1. CASE Top.inVenue
    BY <1>1, <1>6, <1>7, <2>1 DEF Tallied, Amount
  <2>2. CASE ~Top.inVenue /\ IsVenueSwap(f)
    <3>1. more = f.gas
      <4>1. f.type = "CALL" /\ Shut("tally", Opened(f))
        BY <1>4, <2>2 DEF Shut, IsVenueSwap
      <4>2. Shut("tally", Top) <=> Top.moves
        BY <1>2, <2>2 DEF Shut
      <4> QED BY <1>1, <4>1, <4>2, <2>2
    <3>2. Tallied(f, Top.inVenue)
             = [tally EXCEPT !.inner = Larger(@, f.gas), !.frames = @ + 1]
      BY <2>2 DEF Tallied
    <3>3. /\ Larger(tally.inner, f.gas) \in Nat
          /\ Larger(tally.inner, f.gas) <= tally.inner + f.gas
      BY <1>1, <1>6 DEF Larger
    <3> DEFINE t == Tallied(f, Top.inVenue)
    <3>4. t = [inner |-> Larger(tally.inner, f.gas), pull |-> tally.pull,
               delivery |-> tally.delivery, other |-> tally.other,
               frames |-> tally.frames + 1, venue |-> tally.venue]
      BY <3>2 DEF Amounts
    <3>5. t \in Amounts
      BY <1>6, <3>3, <3>4 DEF Amounts
    <3>6. Amount(t) = Larger(tally.inner, f.gas) + tally.pull + tally.delivery
                        + tally.other
      BY <3>4 DEF Amount
    <3> HIDE DEF t
    <3>7. Amount(t) <= Amount(tally) + f.gas
      BY <1>1, <1>6, <3>3, <3>6 DEF Amount
    <3> QED BY <3>1, <3>5, <3>7 DEF t
  <2>3. CASE ~Top.inVenue /\ ~IsVenueSwap(f) /\ ~IsTransfer(f)
    BY <1>1, <1>6, <1>7, <2>3 DEF Tallied, Amount
  <2>4. CASE ~Top.inVenue /\ ~IsVenueSwap(f) /\ IsTransfer(f)
    <3>1. more = f.gas
      <4>1. f.type = "CALL" /\ Shut("tally", Opened(f))
        BY <1>4, <2>4 DEF Shut, IsTransfer
      <4>2. Shut("tally", Top) <=> Top.moves
        BY <1>2, <2>4 DEF Shut
      <4> QED BY <1>1, <4>1, <4>2, <2>4
    <3>2. Tallied(f, Top.inVenue) \in
             {[tally EXCEPT !.pull = @ + f.gas],
              [tally EXCEPT !.delivery = @ + f.gas],
              [tally EXCEPT !.other = @ + f.gas]}
      BY <2>4 DEF Tallied
    <3> QED BY <1>1, <1>6, <3>1, <3>2 DEF Amount, Amounts
  <2> QED BY <1>2, <2>1, <2>2, <2>3, <2>4
<1>9. LET c == Compared(f, Top.inSwap)
      IN  /\ c \in Amounts
          /\ Amount(c) <= Amount(compared) + again
  <2>1. CASE Top.inSwap
    BY <1>1, <1>6, <1>7, <2>1 DEF Compared, Amount
  <2>2. CASE ~Top.inSwap /\ IsSwapCall(f)
    <3>1. again = f.gas
      <4>1. f.type = "CALL" /\ Shut("compared", Opened(f))
        BY <1>4, <2>2 DEF Shut, IsSwapCall
      <4>2. Shut("compared", Top) <=> Top.moves
        BY <1>2, <2>2 DEF Shut
      <4> QED BY <1>1, <4>1, <4>2, <2>2
    <3>2. Compared(f, Top.inSwap)
             = IF compared.inner = 0
               THEN [compared EXCEPT !.inner = f.gas, !.venue = f.to]
               ELSE compared
      BY <2>2 DEF Compared
    <3>3. CASE compared.inner # 0
      BY <1>1, <1>6, <3>1, <3>2, <3>3 DEF Amount
    <3>4. CASE compared.inner = 0
      <4> DEFINE c == Compared(f, Top.inSwap)
      <4>1. c = [inner |-> f.gas, pull |-> compared.pull,
                 delivery |-> compared.delivery, other |-> compared.other,
                 frames |-> compared.frames, venue |-> f.to]
        BY <3>2, <3>4 DEF Amounts
      <4>2. c \in Amounts
        BY <1>1, <1>6, <4>1 DEF Amounts
      <4>3. Amount(c) = f.gas + compared.pull + compared.delivery + compared.other
        BY <4>1 DEF Amount
      <4> HIDE DEF c
      <4>4. Amount(c) <= Amount(compared) + f.gas
        BY <1>1, <1>6, <3>4, <4>3 DEF Amount
      <4> QED BY <3>1, <4>2, <4>4 DEF c
    <3> QED BY <3>3, <3>4
  <2>3. CASE ~Top.inSwap /\ ~IsSwapCall(f) /\ ~IsTransfer(f)
    BY <1>1, <1>6, <1>7, <2>3 DEF Compared, Amount
  <2>4. CASE ~Top.inSwap /\ ~IsSwapCall(f) /\ IsTransfer(f)
    <3>1. again = f.gas
      <4>1. f.type = "CALL" /\ Shut("compared", Opened(f))
        BY <1>4, <2>4 DEF Shut, IsTransfer
      <4>2. Shut("compared", Top) <=> Top.moves
        BY <1>2, <2>4 DEF Shut
      <4> QED BY <1>1, <4>1, <4>2, <2>4
    <3>2. Compared(f, Top.inSwap) \in
             {[compared EXCEPT !.pull = @ + f.gas],
              [compared EXCEPT !.delivery = @ + f.gas],
              [compared EXCEPT !.other = @ + f.gas]}
      BY <2>4 DEF Compared
    <3> QED BY <1>1, <1>6, <3>1, <3>2 DEF Amount, Amounts
  <2> QED BY <1>2, <2>1, <2>2, <2>3, <2>4
<1>10. /\ beneath.tally \in Nat /\ beneath.compared \in Nat
       /\ Beneath(f) = [tally |-> beneath.tally + (IF Top.inVenue THEN 0 ELSE gas),
                        compared |-> beneath.compared + (IF Top.inSwap THEN 0 ELSE gas)]
  BY DEF Beneath
<1>11. Amount(tally) \in Nat /\ Amount(compared) \in Nat
  BY AmountIsNat
<1>12. Beneath(f) \in [tally : Nat, compared : Nat]
  BY <1>1, <1>10
<1>13. LET t == Tallied(f, Top.inVenue)
       IN  Amount(t) - Beneath(f).tally
              <= Amount(tally) - beneath.tally
                    + (IF ~Shut("tally", Top) /\ Shut("tally", Opened(f)) THEN f.gas ELSE 0)
  <2> DEFINE t == Tallied(f, Top.inVenue)
  <2>1. Amount(t) \in Nat /\ Amount(t) <= Amount(tally) + more
    BY <1>8, AmountIsNat
  <2>2. Beneath(f).tally = beneath.tally + (IF Top.inVenue THEN 0 ELSE gas)
    BY <1>10
  <2> HIDE DEF t
  <2>3. QED BY <1>1, <1>10, <1>11, <2>1, <2>2 DEF t
<1>14. LET c == Compared(f, Top.inSwap)
       IN  Amount(c) - Beneath(f).compared
              <= Amount(compared) - beneath.compared
                    + (IF ~Shut("compared", Top) /\ Shut("compared", Opened(f))
                       THEN f.gas ELSE 0)
  <2> DEFINE c == Compared(f, Top.inSwap)
  <2>1. Amount(c) \in Nat /\ Amount(c) <= Amount(compared) + again
    BY <1>9, AmountIsNat
  <2>2. Beneath(f).compared = beneath.compared + (IF Top.inSwap THEN 0 ELSE gas)
    BY <1>10
  <2> HIDE DEF c
  <2>3. QED BY <1>1, <1>10, <1>11, <2>1, <2>2 DEF c
<1> HIDE DEF more, again, gas
<1> QED BY <1>3, <1>5, <1>8, <1>9, <1>12, <1>13, <1>14
\* A frame within the top one takes its gas from it, and what is counted of it
\* is no more than that.
LEMMA RoomForFrame ==
    ASSUME open \in Seq(OpenFrame), open # <<>>, used \in Nat,
           NEW walk, NEW g \in Nat, g <= Top.left,
           NEW o \in OpenFrame, o.left = g, Shut(walk, Top) => Shut(walk, o),
           NEW a \in Int, NEW h, Rooms(walk, h, open), a <= h[Len(open)],
           NEW b \in Int,
           b <= a + (IF ~Shut(walk, Top) /\ Shut(walk, o) THEN g ELSE 0)
    PROVE  LET stack == Append([open EXCEPT ![Len(open)].left = @ - g], o)
           IN  \E k : Rooms(walk, k, stack) /\ b <= k[Len(stack)]
<1> DEFINE n == Len(open)
           lower == [open EXCEPT ![n].left = @ - g]
           stack == Append(lower, o)
           shut == Shut(walk, Top)
           k == [i \in 0 .. n + 1 |->
                   IF i < n THEN h[i]
                   ELSE IF i = n THEN h[n] + (IF shut THEN 0 ELSE g)
                   ELSE h[n] + (IF ~shut /\ Shut(walk, o) THEN g ELSE 0)]
<1>1. n \in Nat /\ n > 0 /\ n \in 1 .. n
  OBVIOUS
<1>2. \A i \in 1 .. n : open[i] \in OpenFrame
  OBVIOUS
<1>3. Top \in OpenFrame /\ Top.left \in Nat /\ Top.left - g \in Nat
  <2>1. Top \in OpenFrame
    BY <1>1, <1>2 DEF Top
  <2>2. Top.left \in Nat
    BY <2>1 DEF OpenFrame
  <2> QED BY <2>1, <2>2
<1>4. /\ lower \in Seq(OpenFrame) /\ Len(lower) = n
      /\ \A i \in 1 .. n - 1 : lower[i] = open[i]
      /\ lower[n] = [Top EXCEPT !.left = @ - g]
  <2>1. [Top EXCEPT !.left = @ - g] \in OpenFrame
    BY <1>3 DEF OpenFrame
  <2>2. lower = [open EXCEPT ![n] = [Top EXCEPT !.left = @ - g]]
    BY DEF Top
  <2>3. lower \in Seq(OpenFrame) /\ Len(lower) = n
    BY <1>1, <2>1, <2>2
  <2>4. \A i \in 1 .. n : lower[i] = IF i = n THEN [Top EXCEPT !.left = @ - g]
                                   ELSE open[i]
    BY <1>1, <2>2
  <2> QED BY <1>1, <2>3, <2>4
<1>5. /\ stack \in Seq(OpenFrame) /\ Len(stack) = n + 1
      /\ \A i \in 1 .. n : stack[i] = lower[i]
      /\ stack[n + 1] = o
  <2> HIDE DEF lower
  <2> QED BY <1>1, <1>4
<1>6. /\ \A i \in 1 .. n - 1 : stack[i] = open[i]
      /\ stack[n].left = Top.left - g
      /\ Shut(walk, stack[n]) = shut
  <2> HIDE DEF lower, stack, n
  <2>1. stack[n] = [Top EXCEPT !.left = @ - g]
    BY <1>1, <1>4, <1>5
  <2>2. \A i \in 1 .. n - 1 : stack[i] = open[i]
    BY <1>1, <1>4, <1>5
  <2> QED BY <1>3, <2>1, <2>2 DEF OpenFrame, Shut
<1>7. /\ \A i \in 0 .. n : h[i] \in 0 .. used
      /\ h[0] = used
      /\ \A i \in 1 .. n :
            h[i - 1] = h[i] + (IF Shut(walk, open[i]) THEN 0 ELSE open[i].left)
  BY DEF Rooms
<1>8. h[n] \in Nat /\ n \in 0 .. n + 1 /\ n + 1 \in 0 .. n + 1
  BY <1>1, <1>7
<1>9. /\ k[n] = h[n] + (IF shut THEN 0 ELSE g)
      /\ k[n + 1] = h[n] + (IF ~shut /\ Shut(walk, o) THEN g ELSE 0)
      /\ \A i \in 0 .. n - 1 : k[i] = h[i]
  BY <1>1, <1>8
<1>10. ASSUME NEW i \in 1 .. n + 1
       PROVE  k[i - 1] = k[i] + (IF Shut(walk, stack[i]) THEN 0 ELSE stack[i].left)
  <2>1. CASE i = n + 1
    <3>1. stack[i] = o /\ i - 1 = n
      BY <1>1, <1>5, <2>1
    <3> HIDE DEF k, stack
    <3> QED BY <1>8, <1>9, <2>1, <3>1
  <2>2. CASE i = n
    <3>1. h[n - 1] = h[n] + (IF shut THEN 0 ELSE Top.left) /\ k[n - 1] = h[n - 1]
      BY <1>1, <1>7, <1>9 DEF Top
    <3> HIDE DEF k, stack, shut, n
    <3> QED BY <1>3, <1>6, <1>8, <1>9, <2>2, <3>1
  <2>3. CASE i < n
    <3>1. /\ i \in 1 .. n - 1 /\ i \in 0 .. n - 1 /\ i - 1 \in 0 .. n - 1
          /\ i \in 1 .. n
      BY <1>1, <2>3
    <3>2. k[i] = h[i] /\ k[i - 1] = h[i - 1] /\ stack[i] = open[i]
      BY <1>6, <1>9, <3>1
    <3> HIDE DEF k, stack
    <3> QED BY <1>7, <3>1, <3>2
  <2>4. i < n \/ i = n \/ i = n + 1
    BY <1>1
  <2> QED BY <2>1, <2>2, <2>3, <2>4
<1>11. \A i \in 0 .. n + 1 : k[i] \in 0 .. used
  <2>1. k[n] \in 0 .. used /\ k[n + 1] \in 0 .. used
    <3>1. /\ h[n - 1] = h[n] + (IF shut THEN 0 ELSE Top.left)
          /\ h[n - 1] \in 0 .. used /\ h[n] \in 0 .. used
      BY <1>1, <1>7 DEF Top
    <3>2. CASE shut
      <4>1. k[n] = h[n] /\ k[n + 1] = h[n]
        BY <1>8, <1>9, <3>2
      <4> QED BY <3>1, <4>1
    <3>3. CASE ~shut
      <4>0. h[n] + Top.left \in 0 .. used
        BY <3>1, <3>3
      <4>1. h[n] + g \in 0 .. used
        <5> DEFINE room == h[n]
                   all == Top.left
        <5>1. room \in Nat /\ all \in Nat /\ room + all <= used
          BY <1>3, <1>8, <4>0
        <5> HIDE DEF k, stack, lower, shut, room, all, n
        <5>2. g <= all
          BY DEF all
        <5>3. room + g \in 0 .. used
          BY <5>1, <5>2
        <5> QED BY <5>3 DEF room
      <4>2. k[n] = h[n] + g /\ k[n + 1] \in {h[n], h[n] + g}
        BY <1>8, <1>9, <3>3
      <4> HIDE DEF k
      <4> QED BY <3>1, <4>1, <4>2
    <3> QED BY <3>2, <3>3
  <2>2. \A i \in 0 .. n - 1 : k[i] \in 0 .. used
    BY <1>1, <1>7, <1>9
  <2>3. \A i \in 0 .. n + 1 : i \in 0 .. n - 1 \/ i = n \/ i = n + 1
    BY <1>1
  <2> HIDE DEF k
  <2> QED BY <2>1, <2>2, <2>3
<1>12. k[0] = used
  BY <1>1, <1>7
<1>13. b <= k[n + 1]
  <2> HIDE DEF k
  <2> QED BY <1>8, <1>9
<1>14. Rooms(walk, k, stack)
  <2> HIDE DEF k, stack
  <2> QED BY <1>5, <1>10, <1>11, <1>12 DEF Rooms
<1>15. Rooms(walk, k, stack) /\ b <= k[Len(stack)]
  BY <1>5, <1>13, <1>14
<1> HIDE DEF k, stack
<1>16. \E r : Rooms(walk, r, stack) /\ b <= r[Len(stack)]
  BY <1>15
<1> QED BY <1>16 DEF stack, lower, n

LEMMA TraceWalks ==
    ASSUME TraceInv, NEW f \in CallFrame, Walk(f)
    PROVE  TraceInv'
<1>1. /\ open # <<>> /\ f.gas <= Top.left
      /\ open' = Append([open EXCEPT ![Len(open)].left = @ - f.gas], Opened(f))
      /\ tally' = Tallied(f, Top.inVenue)
      /\ compared' = Compared(f, Top.inSwap)
      /\ beneath' = Beneath(f)
      /\ used' = used
  BY DEF Walk
<1>2. /\ used \in Nat /\ open \in Seq(OpenFrame)
      /\ tally \in Amounts /\ compared \in Amounts
      /\ beneath \in [tally : Nat, compared : Nat]
      /\ HasRoom("tally", tally) /\ HasRoom("compared", compared)
  BY DEF TraceInv
<1>3. Top \in OpenFrame /\ Top.left \in Nat
  <2>1. \A i \in 1 .. Len(open) : open[i] \in OpenFrame
    BY <1>2
  <2>2. Top \in OpenFrame
    BY <1>1, <1>2, <2>1 DEF Top
  <2> QED BY <2>2 DEF OpenFrame
<1>4. f.gas \in Nat /\ f.gas <= Top.left
  BY <1>1, TraceBounds DEF CallFrame
<1>5. /\ Opened(f) \in OpenFrame /\ Opened(f).left = f.gas
      /\ Shut("tally", Top) => Shut("tally", Opened(f))
      /\ Shut("compared", Top) => Shut("compared", Opened(f))
      /\ tally' \in Amounts /\ compared' \in Amounts
      /\ beneath' \in [tally : Nat, compared : Nat]
      /\ Amount(tally') - beneath'["tally"] <= Amount(tally) - beneath["tally"]
            + (IF ~Shut("tally", Top) /\ Shut("tally", Opened(f))
               THEN f.gas ELSE 0)
      /\ Amount(compared') - beneath'["compared"] <= Amount(compared) - beneath["compared"]
            + (IF ~Shut("compared", Top) /\ Shut("compared", Opened(f))
               THEN f.gas ELSE 0)
  BY <1>1, <1>2, <1>3, CountedFrames
<1>6. /\ Amount(tally) - beneath["tally"] \in Int
      /\ Amount(tally') - beneath'["tally"] \in Int
      /\ Amount(compared) - beneath["compared"] \in Int
      /\ Amount(compared') - beneath'["compared"] \in Int
  <2>1. /\ Amount(tally) \in Nat /\ Amount(tally') \in Nat
        /\ Amount(compared) \in Nat /\ Amount(compared') \in Nat
    BY <1>2, <1>5, AmountIsNat
  <2>2. /\ beneath["tally"] \in Nat /\ beneath'["tally"] \in Nat
        /\ beneath["compared"] \in Nat /\ beneath'["compared"] \in Nat
    BY <1>2, <1>5
  <2> QED BY <2>1, <2>2
<1>7. HasRoom("tally", tally)'
  <2>1. PICK h : /\ Rooms("tally", h, open)
                   /\ Amount(tally) - beneath["tally"] <= h[Len(open)]
    BY <1>2 DEF HasRoom
  <2>2. \E k : /\ Rooms("tally", k, open')
                /\ Amount(tally') - beneath'["tally"] <= k[Len(open')]
    BY <1>1, <1>2, <1>4, <1>5, <1>6, <2>1, RoomForFrame
  <2> QED BY <1>1, <2>2 DEF HasRoom, Rooms, Shut, Amount
<1>8. HasRoom("compared", compared)'
  <2>1. PICK h : /\ Rooms("compared", h, open)
                   /\ Amount(compared) - beneath["compared"] <= h[Len(open)]
    BY <1>2 DEF HasRoom
  <2>2. \E k : /\ Rooms("compared", k, open')
                /\ Amount(compared') - beneath'["compared"] <= k[Len(open')]
    BY <1>1, <1>2, <1>4, <1>5, <1>6, <2>1, RoomForFrame
  <2> QED BY <1>1, <2>2 DEF HasRoom, Rooms, Shut, Amount
<1>9. open' \in Seq(OpenFrame)
  <2> DEFINE n == Len(open)
             lower == [open EXCEPT ![n].left = @ - f.gas]
  <2>1. n \in 1 .. n
    BY <1>1, <1>2
  <2>2. [Top EXCEPT !.left = @ - f.gas] \in OpenFrame
    BY <1>3, <1>4 DEF OpenFrame
  <2>3. lower = [open EXCEPT ![n] = [Top EXCEPT !.left = @ - f.gas]]
    BY DEF Top
  <2>4. lower \in Seq(OpenFrame)
    BY <1>2, <2>1, <2>2, <2>3
  <2> QED BY <1>1, <1>5, <2>4
<1> QED BY <1>1, <1>2, <1>5, <1>7, <1>8, <1>9 DEF TraceInv

\* What is left of a frame that returns is counted by nobody.
LEMMA RoomAbove ==
    ASSUME open \in Seq(OpenFrame), open # <<>>,
           beneath \in [tally : Nat, compared : Nat],
           NEW walk \in {"tally", "compared"}, NEW t \in Amounts, HasRoom(walk, t)
    PROVE  LET stack == SubSeq(open, 1, Len(open) - 1)
           IN  \E h : Rooms(walk, h, stack) /\ Amount(t) - beneath[walk] <= h[Len(stack)]
<1> DEFINE n == Len(open)
           stack == SubSeq(open, 1, n - 1)
<1>1. PICK h : Rooms(walk, h, open) /\ Amount(t) - beneath[walk] <= h[n]
  BY DEF HasRoom
<1>2. n \in Nat /\ n > 0 /\ \A i \in 1 .. n : open[i] \in OpenFrame
  OBVIOUS
<1>3. Len(stack) = n - 1 /\ \A i \in 1 .. n - 1 : stack[i] = open[i]
  <2>1. /\ 1 \in Int /\ n - 1 \in Int
        /\ \A i \in 1 .. n - 1 : open[i] \in OpenFrame
    BY <1>2
  <2> HIDE DEF n
  <2>2. /\ Len(stack) = IF 1 <= n - 1 THEN (n - 1) - 1 + 1 ELSE 0
        /\ \A i \in 1 .. (n - 1) - 1 + 1 : stack[i] = open[1 + i - 1]
    BY <2>1, SubSeqProperties
  <2> HIDE DEF stack
  <2> QED BY <1>2, <2>2
<1>4. Rooms(walk, h, stack)
  <2> HIDE DEF stack
  <2> QED BY <1>1, <1>2, <1>3 DEF Rooms
<1>5. Amount(t) - beneath[walk] <= h[n - 1]
  <2>1. h[n] \in Nat /\ h[n - 1] \in Nat /\ open[n].left \in Nat
    BY <1>1, <1>2 DEF Rooms, OpenFrame
  <2>2. h[n - 1] = h[n] + (IF Shut(walk, open[n]) THEN 0 ELSE open[n].left)
    BY <1>1, <1>2 DEF Rooms
  <2>3. Amount(t) \in Nat /\ beneath[walk] \in Nat
    BY AmountIsNat
  <2> QED BY <1>1, <2>1, <2>2, <2>3
<1> QED BY <1>3, <1>4, <1>5

LEMMA TraceReturns == ASSUME TraceInv, Back PROVE TraceInv'
<1>1. /\ open # <<>> /\ open' = SubSeq(open, 1, Len(open) - 1)
      /\ UNCHANGED <<used, tally, compared, beneath>>
  BY DEF Back
<1>2. open' \in Seq(OpenFrame)
  BY <1>1 DEF TraceInv
<1>3. HasRoom("tally", tally)'
  <2>1. \E h : /\ Rooms("tally", h, open')
                /\ Amount(tally) - beneath["tally"] <= h[Len(open')]
    BY <1>1, RoomAbove DEF TraceInv
  <2> QED BY <1>1, <2>1 DEF HasRoom, Rooms, Shut, Amount
<1>4. HasRoom("compared", compared)'
  <2>1. \E h : /\ Rooms("compared", h, open')
                /\ Amount(compared) - beneath["compared"] <= h[Len(open')]
    BY <1>1, RoomAbove DEF TraceInv
  <2> QED BY <1>1, <2>1 DEF HasRoom, Rooms, Shut, Amount
<1> QED BY <1>1, <1>2, <1>3, <1>4 DEF TraceInv

LEMMA TraceStarts == TraceInit => TraceInv
<1> SUFFICES ASSUME TraceInit PROVE TraceInv
  OBVIOUS
<1>1. /\ used \in Nat
      /\ open = <<[gas |-> used, left |-> used, moves |-> FALSE,
                   inVenue |-> FALSE, inSwap |-> FALSE]>>
      /\ tally = Buckets /\ compared = Buckets
      /\ beneath = [tally |-> 0, compared |-> 0]
  BY TraceBounds DEF TraceInit
<1>2. open \in Seq(OpenFrame) /\ Len(open) = 1 /\ open[1].left = used
  BY <1>1 DEF OpenFrame
<1>3. Buckets \in Amounts /\ Amount(Buckets) = 0
  BY DEF Buckets, Amounts, Amount
<1>4. ASSUME NEW walk \in {"tally", "compared"}, NEW t, t = Buckets, ~Shut(walk, open[1])
      PROVE  HasRoom(walk, t)
  <2> DEFINE h == [i \in 0 .. 1 |-> IF i = 0 THEN used ELSE 0]
  <2>1. h[0] = used /\ h[1] = 0 /\ used \in Nat
    BY <1>1
  <2> HIDE DEF h
  <2>3. Rooms(walk, h, open)
    BY <1>2, <1>4, <2>1 DEF Rooms
  <2>2. Amount(t) - beneath[walk] <= h[Len(open)]
    BY <1>1, <1>2, <1>3, <1>4, <2>1
  <2> QED BY <2>2, <2>3 DEF HasRoom
<1>5. ~Shut("tally", open[1]) /\ ~Shut("compared", open[1])
  BY <1>1 DEF Shut
<1> QED BY <1>1, <1>2, <1>3, <1>4, <1>5 DEF TraceInv

\* The walks count what the frames used once.
THEOREM WalksAreSound == TraceSpec => []TraceInv
<1>1. TraceInv /\ [TraceNext]_traceVars => TraceInv'
  <2> SUFFICES ASSUME TraceInv, [TraceNext]_traceVars PROVE TraceInv'
    OBVIOUS
  <2>1. ASSUME UNCHANGED traceVars PROVE TraceInv'
    BY <2>1 DEF traceVars, TraceInv, HasRoom, Rooms, Shut, Amount
  <2> QED BY <2>1, TraceWalks, TraceReturns DEF TraceNext
<1> QED BY <1>1, TraceStarts, PTL DEF TraceSpec

LEMMA Remainder ==
    ASSUME NEW all \in Nat, NEW price \in Nat, NEW inner \in Nat, NEW pull \in Nat,
           NEW delivery \in Nat, NEW other \in Nat, NEW twice \in Nat,
           inner + pull + delivery + other - twice <= all
    PROVE  (all + price) - inner - (pull + delivery + other) + twice >= price
OBVIOUS

\* decompose_swap and decompose count no gas twice but that of calls beneath a
\* transfer, whatever the shape of the call tree.
THEOREM GasIsCountedOnce == TraceSpec => []GasAddsUp
<1>1. TraceInv => GasAddsUp
  <2>1. ASSUME TraceInv, NEW walk \in {"tally", "compared"}, NEW t \in Amounts,
               HasRoom(walk, t)
        PROVE  Overhead(t) + beneath[walk] >= INTRINSIC_GAS
    <3>1. PICK h : /\ Rooms(walk, h, open)
                   /\ Amount(t) - beneath[walk] <= h[Len(open)]
      BY <2>1 DEF HasRoom
    <3>2. /\ Len(open) \in 0 .. Len(open) /\ used \in Nat
          /\ h[Len(open)] \in 0 .. used
      BY <2>1, <3>1 DEF TraceInv, Rooms
    <3>3. /\ t.inner \in Nat /\ t.pull \in Nat /\ t.delivery \in Nat
          /\ t.other \in Nat /\ INTRINSIC_GAS \in Nat /\ beneath[walk] \in Nat
      BY <2>1, TraceBounds DEF Amounts, TraceInv
    <3>4. t.inner + t.pull + t.delivery + t.other - beneath[walk] <= used
      BY <3>1, <3>2, <3>3 DEF Amount
    <3>5. Overhead(t) = (used + INTRINSIC_GAS) - t.inner - (t.pull + t.delivery + t.other)
      BY DEF Overhead, Plumbing, Total
    <3> QED BY <3>2, <3>3, <3>4, <3>5, Remainder
  <2> QED BY <2>1 DEF TraceInv, GasAddsUp
<1> QED BY <1>1, WalksAreSound, PTL
(***************************************************************************)
(* The rig: every measurement starts from the fork as it was set up.  The  *)
(* rig goes back to a snapshot of that (Anchored); when a revert has used  *)
(* it up and the next one is not taken yet, the fork itself is still as it *)
(* was set up (Clean), so that another revert that does nothing does no    *)
(* harm.  What is listed and what is left to be listed are the venues of   *)
(* the job, and every one that is listed mined a block, or more if it was  *)
(* sent again (Ready).                                                     *)
(***************************************************************************)
\* What is to be measured.
Jobs == [shape : {"via Uniswap", "via venue", "swapV1", "swapSplitV1"},
         trade : ToSet(Trades), venues : Seq(Venue)]

\* The fork as it was set up, with or without its clock standing still.
Clean == fork \in {Pristine, [Pristine EXCEPT !.still = FALSE]}

\* The snapshot the rig goes back to is the fork as it was set up; while it has
\* none, the fork itself still is.
Anchored ==
    /\ base \in 0 .. issued /\ DOMAIN saved \subseteq 0 .. issued
    /\ base \in DOMAIN saved => saved[base] = Pristine
    /\ base \in DOMAIN saved \/ Clean

\* But for venues and the blocks they mined, the fork is as it was set up.
Since(listed, mined, resent) == Prepared(listed, 0, mined, resent)
Listing ==
    \E listed : \E mined, resent \in Nat : fork = Since(listed, mined, resent)

\* With a snapshot to go back to, the fork is set up, has its clock stopped and then
\* its venues listed, those of the job.
Ready ==
    /\ Anchored
    /\ jobs \in Seq(Jobs) /\ left \in Seq(Venue)
    /\ task \in {"freeze", "arm"} => Clean
    /\ task = "arm" => fork = Pristine
    /\ task = "list" => base \in DOMAIN saved /\ Listing
    /\ jobs # <<>> =>
          IF task = "list"
          THEN /\ fork.listed \cup ToSet(left) = ToSet(Head(jobs).venues)
               /\ fork.mined + Len(left) = Len(Head(jobs).venues) + fork.resent
          ELSE left = Head(jobs).venues

Busy == {"revert", "freeze", "arm", "list"}

RigInv ==
    /\ issued \in Nat
    /\ task \in {"streaming", "fetching", "setup"} => row = None /\ jobs = <<>>
    /\ task \in Busy => Ready
    /\ EqualFooting

\* The venues that are among some.
LEMMA Picked ==
    ASSUME NEW seq \in Seq(Venue), NEW venues
    PROVE  Among(venues, seq) \in Seq(Venue)
<1> DEFINE places == {i \in DOMAIN seq : seq[i] \in venues}
           R == {seq[i] : i \in DOMAIN seq \cap places}
<1>1. R \subseteq Venue
  OBVIOUS
<1>2. Among(venues, seq) \in Seq(R)
  BY ElementsAtPlaces DEF Among
<1> HIDE DEF R
<1> QED BY <1>1, <1>2

\* The first few venues.
LEMMA FirstVenues ==
    ASSUME NEW seq \in Seq(Venue), NEW n \in 0 .. Len(seq)
    PROVE  Prefix(seq, n) \in Seq(Venue)
  BY SubSeqProperties DEF Prefix

\* Every trade makes a list of jobs, and at least one.
LEMMA TradesMakeJobs ==
    ASSUME NEW quoting \in Quoting, NEW anywhere, NEW trade \in ToSet(Trades)
    PROVE  Shapes(quoting, anywhere, trade) \in Seq(Jobs) \ {<<>>}
<1> DEFINE ordered == Ordered(quoting, anywhere, trade)
           count == Cardinality(quoting[trade])
           best == Prefix(ordered, Least(Len(ordered), Most(2, count)))
           splits == Least(MaxVenues, Len(ordered))
           one == <<Job("via Uniswap", trade, <<>>)>>
           two == IF count = 0 THEN <<>> ELSE <<Job("via venue", trade, Prefix(ordered, 1))>>
           three == <<Job("swapV1", trade, best)>>
           four == [n \in 1 .. splits - 1 |-> Job("swapSplitV1", trade, Prefix(ordered, n + 1))]
<1>0. <<>> \in Seq(Jobs) /\ \A job \in Jobs : <<job>> \in Seq(Jobs) /\ Len(<<job>>) = 1
  OBVIOUS
<1>1. ordered \in Seq(Venue) /\ Len(ordered) \in Nat
  <2> DEFINE a == Among(quoting[trade], WHITELIST_VENUES)
             b == Among(anywhere \ quoting[trade], ByAddress)
             c == Among(Venue \ anywhere, WHITELIST_VENUES)
  <2>1. a \in Seq(Venue) /\ b \in Seq(Venue) /\ c \in Seq(Venue)
    BY Picked, RigInputs
  <2> HIDE DEF a, b, c
  <2>2. a \o b \o c \in Seq(Venue)
    BY <2>1
  <2>3. ordered = a \o b \o c
    BY DEF Ordered, a, b, c
  <2> HIDE DEF ordered
  <2> QED BY <2>2, <2>3
<1>2. count \in Nat /\ (count # 0 => Len(ordered) >= 1)
  <2>1. quoting[trade] \subseteq Venue
    BY DEF Quoting
  <2>2. IsFiniteSet(Venue)
    <3> DEFINE f == [i \in 1 .. Len(WHITELIST_VENUES) |-> WHITELIST_VENUES[i]]
               places == 1 .. Len(WHITELIST_VENUES)
    <3>1. IsFiniteSet(places)
      BY RigInputs, FS_Interval
    <3>2. Venue = {WHITELIST_VENUES[i] : i \in places}
      <4>1. DOMAIN WHITELIST_VENUES = places
        BY RigInputs
      <4>2. Venue = {WHITELIST_VENUES[i] : i \in DOMAIN WHITELIST_VENUES}
        BY DEF Venue, ToSet
      <4> QED BY <4>1, <4>2
    <3>3. f \in Surjection(places, Venue)
      BY <3>2 DEF Surjection
    <3> QED BY <3>1, <3>3, FS_Surjection
  <2>3. count \in Nat /\ (count # 0 => quoting[trade] # {})
    BY <2>1, <2>2, FS_Subset, FS_CardinalityType, FS_EmptySet
  <2>4. ASSUME quoting[trade] # {}
        PROVE  Among(quoting[trade], WHITELIST_VENUES) # <<>>
    <3>1. PICK i \in DOMAIN WHITELIST_VENUES : WHITELIST_VENUES[i] \in quoting[trade]
      BY <2>1, <2>4 DEF Venue, ToSet
    <3> QED BY <3>1, RigInputs, ElementsAtPlaces DEF Among
  <2>5. ASSUME quoting[trade] # {} PROVE Len(ordered) >= 1
    <3> DEFINE a == Among(quoting[trade], WHITELIST_VENUES)
               b == Among(anywhere \ quoting[trade], ByAddress)
               c == Among(Venue \ anywhere, WHITELIST_VENUES)
    <3>1. a \in Seq(Venue) /\ b \in Seq(Venue) /\ c \in Seq(Venue) /\ a # <<>>
      BY <2>4, <2>5, Picked, RigInputs
    <3>2. ordered = a \o b \o c
      BY DEF Ordered
    <3> HIDE DEF a, b, c, ordered
    <3>3. Len(a) \in Nat /\ Len(b) \in Nat /\ Len(c) \in Nat /\ Len(a) # 0
      BY <3>1
    <3>4. Len(ordered) = Len(a) + Len(b) + Len(c)
      BY <3>1, <3>2
    <3> QED BY <3>3, <3>4
  <2> QED BY <2>3, <2>5
<1>3. ASSUME NEW vs \in Seq(Venue)
      PROVE  /\ Job("via Uniswap", trade, vs) \in Jobs /\ Job("via venue", trade, vs) \in Jobs
             /\ Job("swapV1", trade, vs) \in Jobs /\ Job("swapSplitV1", trade, vs) \in Jobs
  BY DEF Job, Jobs
<1>4. best \in Seq(Venue)
  <2> HIDE DEF ordered, count
  <2>1. Least(Len(ordered), Most(2, count)) \in 0 .. Len(ordered)
    BY <1>1, <1>2 DEF Least, Most
  <2> QED BY <1>1, <2>1, FirstVenues
<1>5. splits \in Nat /\ splits <= Len(ordered)
  <2> HIDE DEF ordered
  <2> QED BY <1>1, RigInputs DEF Least
<1>6. one \in Seq(Jobs) /\ three \in Seq(Jobs) /\ Len(one) = 1
  <2>1. <<>> \in Seq(Venue)
    OBVIOUS
  <2>2. Job("via Uniswap", trade, <<>>) \in Jobs /\ Job("swapV1", trade, best) \in Jobs
    <3> HIDE DEF best
    <3> QED BY <1>3, <1>4, <2>1
  <2> HIDE DEF best
  <2> QED BY <1>0, <2>2
<1>7. two \in Seq(Jobs)
  <2> HIDE DEF ordered, count
  <2>1. CASE count # 0
    <3>1. Prefix(ordered, 1) \in Seq(Venue)
      BY <1>1, <1>2, <2>1, FirstVenues
    <3>2. Job("via venue", trade, Prefix(ordered, 1)) \in Jobs
      BY <1>3, <3>1
    <3> QED BY <1>0, <2>1, <3>2
  <2>2. CASE count = 0
    BY <1>0, <2>2
  <2> QED BY <2>1, <2>2
<1>8. four \in Seq(Jobs)
  <2> HIDE DEF ordered, splits
  <2>1. ASSUME NEW n \in 1 .. splits - 1
        PROVE  Job("swapSplitV1", trade, Prefix(ordered, n + 1)) \in Jobs
    <3>1. n + 1 \in 0 .. Len(ordered)
      BY <1>1, <1>5
    <3>2. Prefix(ordered, n + 1) \in Seq(Venue)
      BY <1>1, <3>1, FirstVenues
    <3> QED BY <1>3, <3>2
  <2>2. CASE splits = 0
    <3>1. four = <<>>
      BY <2>2
    <3> QED BY <1>0, <3>1
  <2>3. CASE splits # 0
    <3>1. splits - 1 \in Nat
      BY <1>5, <2>3
    <3> QED BY <2>1, <3>1
  <2> QED BY <2>2, <2>3
<1>9. Shapes(quoting, anywhere, trade) = one \o two \o three \o four
  BY DEF Shapes
<1> HIDE DEF one, two, three, four
<1>10. ASSUME NEW a \in Seq(Jobs), NEW b \in Seq(Jobs), Len(a) > 0
       PROVE  a \o b \in Seq(Jobs) /\ Len(a \o b) > 0
  <2>1. Len(a \o b) = Len(a) + Len(b) /\ Len(a) \in Nat /\ Len(b) \in Nat
    OBVIOUS
  <2> QED BY <1>10, <2>1
<1>11. one \o two \in Seq(Jobs) /\ Len(one \o two) > 0
  <2>1. one \in Seq(Jobs) /\ Len(one) > 0
    BY <1>6
  <2> QED BY <1>7, <1>10, <2>1, Zenon
<1> DEFINE all == one \o two \o three \o four
<1>12. all \in Seq(Jobs) /\ Len(all) > 0
  BY <1>6, <1>8, <1>10, <1>11
<1>13. all # <<>>
  <2> HIDE DEF all
  <2> QED BY <1>12
<1> QED BY <1>9, <1>12, <1>13

\* Whatever gives a job up leaves the rig ready for the next one.
LEMMA GivesUp ==
    ASSUME GiveUp, jobs \in Seq(Jobs), left \in Seq(Venue), Anchored'
    PROVE  task' \in {"over", "revert"} /\ (task' \in Busy => Ready')
<1>1. CASE jobs = <<>>
  BY <1>1 DEF GiveUp, Busy
<1>2. CASE jobs # <<>>
  <2>1. NextJob
    BY <1>2 DEF GiveUp
  <2>2. jobs' \in Seq(Jobs)
    BY <1>2, <2>1, HeadTailProperties DEF NextJob
  <2>3. CASE jobs' = <<>>
    BY <2>1, <2>3 DEF NextJob, Busy
  <2>4. CASE jobs' # <<>>
    <3>1. Head(jobs') \in Jobs
      BY <2>2, <2>4, HeadTailProperties
    <3>2. task' = "revert" /\ left' = Head(jobs').venues
      BY <2>1, <2>4 DEF NextJob
    <3>3. left' \in Seq(Venue)
      BY <3>1, <3>2 DEF Jobs
    <3> QED BY <2>2, <3>2, <3>3 DEF Ready
  <2> QED BY <2>3, <2>4
<1> QED BY <1>1, <1>2

\* The overrides are settled before the fork is set up.
LEMMA Streams ==
    ASSUME RigInv,
           \/ \E entries \in Entries : StreamFrame(entries) \/ FetchOverRpc(entries)
           \/ WindowEnds \/ StreamFails \/ SetUp
    PROVE  RigInv'
<1>1. task \in {"streaming", "fetching", "setup"}
  BY DEF StreamFrame, FetchOverRpc, WindowEnds, StreamFails, SetUp
<1>2. row = None /\ jobs = <<>> /\ UNCHANGED <<jobs, row>>
  BY <1>1 DEF RigInv, StreamFrame, FetchOverRpc, WindowEnds, StreamFails, SetUp
<1>3. EqualFooting'
  BY <1>2 DEF EqualFooting
<1>4. CASE SetUp
  <2>1. task' = "over" \/ task' = "revert"
    BY <1>4 DEF SetUp
  <2>2. CASE task' = "revert"
    <3>1. /\ fork' = Pristine /\ issued' = issued + 1 /\ base' = issued'
          /\ saved' = [id \in {issued'} |-> Pristine] /\ left' = WHITELIST_VENUES
          /\ Pristine' = Pristine
      BY <1>4, <2>2 DEF SetUp, streamVars, Pristine, Prepared
    <3>2. issued' \in Nat
      BY <3>1 DEF RigInv
    <3>3. base' \in 0 .. issued' /\ DOMAIN saved' \subseteq 0 .. issued'
      BY <3>1, <3>2
    <3>4. saved'[base'] = Pristine'
      BY <3>1
    <3>5. Anchored'
      BY <3>1, <3>3, <3>4 DEF Anchored
    <3>6. jobs' = <<>> /\ jobs' \in Seq(Jobs) /\ left' \in Seq(Venue)
      BY <1>2, <3>1, RigInputs
    <3>7. Ready'
      BY <2>2, <3>5, <3>6 DEF Ready
    <3> QED BY <2>2, <1>3, <3>2, <3>7 DEF RigInv
  <2>3. CASE task' = "over"
    <3>1. issued' = issued
      BY <1>4, <2>3 DEF SetUp, anvilVars
    <3> QED BY <2>3, <1>3, <3>1 DEF RigInv, Busy
  <2> QED BY <2>1, <2>2, <2>3
<1>5. CASE ~SetUp
  <2>1. task' \notin Busy
    BY <1>1, <1>5 DEF Busy, StreamFrame, FetchOverRpc, WindowEnds, StreamFails
  <2>2. issued' = issued
    BY <1>5 DEF StreamFrame, FetchOverRpc, WindowEnds, StreamFails, anvilVars
  <2> QED BY <1>2, <1>3, <2>1, <2>2 DEF RigInv
<1> QED BY <1>4, <1>5

\* What the steps of a run share, once it is set up.
LEMMA Running ==
    ASSUME RigInv, task \in Busy, UNCHANGED streamVars, issued' \in Nat,
           task' \in Busy => Ready',
           task' \in Busy \cup {"over"},
           row' = row \/ EqualFooting'
    PROVE  RigInv'
<1>1. Pristine' = Pristine
  BY DEF streamVars, Pristine, Prepared
<1>2. EqualFooting'
  BY <1>1 DEF RigInv, EqualFooting, Prepared, streamVars
<1> QED BY <1>2 DEF RigInv, Busy

\* A revert uses the snapshot up, or does nothing to a fork that is clean.
LEMMA Reverts == ASSUME RigInv, Revert PROVE RigInv'
<1>1. /\ task = "revert" /\ Ready
      /\ UNCHANGED <<streamVars, issued, base>> /\ EqualFooting'
  BY DEF Revert, RigInv, Busy, EqualFooting
<1>2. Pristine' = Pristine
  BY <1>1 DEF streamVars, Pristine, Prepared
<1>3. ASSUME Rewind PROVE Anchored' /\ Clean'
  <2>1. CASE base \in DOMAIN saved
    <3>1. fork' = [Pristine EXCEPT !.still = FALSE]
      BY <1>1, <1>3, <2>1 DEF Rewind, Ready, Anchored
    <3>2. saved' = [id \in {i \in DOMAIN saved : i < base} |-> saved[id]]
      BY <1>3, <2>1 DEF Rewind
    <3>3. Clean'
      BY <1>2, <3>1 DEF Clean
    <3>4. base \in Nat
      BY <1>1 DEF Ready, Anchored, RigInv
    <3>5. base' \notin DOMAIN saved'
      BY <1>1, <3>2, <3>4
    <3>6. DOMAIN saved' \subseteq 0 .. issued'
      BY <1>1, <3>2 DEF Ready, Anchored
    <3> QED BY <1>1, <3>3, <3>5, <3>6 DEF Ready, Anchored
  <2>2. CASE base \notin DOMAIN saved
    <3>1. UNCHANGED <<fork, saved>>
      BY <1>3, <2>2 DEF Rewind
    <3> QED BY <1>1, <1>2, <2>2, <3>1 DEF Ready, Anchored, Clean
  <2> QED BY <2>1, <2>2
<1>4. CASE Rewind /\ task' \in {"freeze", "revert"} /\ UNCHANGED <<jobs, left>>
  <2>1. Ready'
    BY <1>1, <1>3, <1>4 DEF Ready
  <2> QED BY <1>1, <1>4, <2>1, Running DEF Busy, RigInv
<1>5. CASE (Rewind \/ UNCHANGED <<fork, saved>>) /\ GiveUp
  <2>1. Anchored'
    BY <1>1, <1>2, <1>3, <1>5 DEF Ready, Anchored, Clean
  <2>2. task' \in {"over", "revert"} /\ (task' \in Busy => Ready')
    BY <1>1, <1>5, <2>1, GivesUp DEF Ready
  <2> QED BY <1>1, <2>2, Running DEF Busy, RigInv
<1> QED BY <1>1, <1>4, <1>5 DEF Revert

\* With its clock stopped again, a clean fork is as it was set up.
LEMMA Freezes == ASSUME RigInv, Freeze PROVE RigInv'
<1>1. /\ task = "freeze" /\ Ready
      /\ UNCHANGED <<streamVars, saved, issued, base, row>>
  BY DEF Freeze, RigInv, Busy
<1>2. Pristine' = Pristine
  BY <1>1 DEF streamVars, Pristine, Prepared
<1>3. CASE /\ fork' = [fork EXCEPT !.still = TRUE] /\ task' = "arm"
           /\ UNCHANGED <<jobs, left>>
  <2>1. fork' = Pristine
    <3> DEFINE set(b) == [overrides |-> titan, listed |-> {}, swaps |-> 0, still |-> b,
                          mined |-> 0, resent |-> 0]
    <3>1. Pristine = set(TRUE)
      BY DEF Pristine, Prepared
    <3>2. ASSUME NEW b, NEW r, r = set(b), NEW still
          PROVE  [r EXCEPT !.still = still] = set(still)
      BY <3>2
    <3>3. fork = set(TRUE) \/ fork = set(FALSE)
      <4> HIDE DEF set
      <4>1. [Pristine EXCEPT !.still = FALSE] = set(FALSE)
        BY <3>1, <3>2
      <4> QED BY <1>1, <3>1, <4>1 DEF Ready, Clean
    <3> HIDE DEF set
    <3>4. [fork EXCEPT !.still = TRUE] = set(TRUE)
      BY <3>2, <3>3
    <3> QED BY <1>3, <3>1, <3>4
  <2>2. Ready'
    BY <1>1, <1>2, <1>3, <2>1 DEF Ready, Anchored, Clean
  <2> QED BY <1>1, <1>3, <2>2, Running DEF Busy, RigInv
<1>4. CASE UNCHANGED fork /\ GiveUp
  <2>1. Anchored'
    BY <1>1, <1>2, <1>4 DEF Ready, Anchored, Clean
  <2>2. task' \in {"over", "revert"} /\ (task' \in Busy => Ready')
    BY <1>1, <1>4, <2>1, GivesUp DEF Ready
  <2> QED BY <1>1, <2>2, Running DEF Busy, RigInv
<1> QED BY <1>3, <1>4 DEF Freeze

\* The next snapshot is one of the fork as it was set up.
LEMMA Arms == ASSUME RigInv, Arm PROVE RigInv'
<1>1. /\ task = "arm" /\ Ready /\ issued \in Nat
      /\ UNCHANGED <<streamVars, fork, row>>
  BY DEF Arm, RigInv, Busy
<1>2. Pristine' = Pristine /\ fork = Pristine
  BY <1>1 DEF streamVars, Pristine, Prepared, Ready
<1>3. ASSUME Take
      PROVE  /\ issued' = issued + 1 /\ issued' \in Nat
             /\ DOMAIN saved' = DOMAIN saved \cup {issued'}
             /\ DOMAIN saved' \subseteq 0 .. issued'
             /\ saved'[issued'] = Pristine
             /\ base \in 0 .. issued /\ base # issued'
             /\ base \in DOMAIN saved => saved'[base] = Pristine
  <2>1. issued' = issued + 1 /\ issued' \in Nat
    BY <1>1, <1>3 DEF Take
  <2>2. DOMAIN saved \subseteq 0 .. issued /\ base \in 0 .. issued
    BY <1>1 DEF Ready, Anchored
  <2>3. issued' \notin DOMAIN saved /\ base # issued'
    BY <1>1, <2>1, <2>2
  <2>4. saved' = [id \in DOMAIN saved \cup {issued'} |->
                     IF id = issued' THEN fork ELSE saved[id]]
    BY <1>3 DEF Take
  <2>5. base \in DOMAIN saved => saved[base] = Pristine
    BY <1>1 DEF Ready, Anchored
  <2>6. DOMAIN saved' \subseteq 0 .. issued'
    BY <1>1, <2>1, <2>2, <2>4
  <2> QED BY <1>2, <2>1, <2>2, <2>3, <2>4, <2>5, <2>6
<1>4. CASE Take /\ base' = Rearmed(issued') /\ task' = "list" /\ UNCHANGED <<jobs, left>>
  <2>1. base' = issued'
    BY <1>4 DEF Rearmed
  <2>2. Anchored'
    BY <1>2, <1>3, <1>4, <2>1 DEF Anchored
  <2>3. /\ fork' = Since({}, 0, 0)' /\ Listing'
        /\ fork'.listed = {} /\ fork'.mined = 0 /\ fork'.resent = 0
    BY <1>1, <1>2 DEF Pristine, Prepared, Since, Listing
  <2>4. jobs' # <<>> => /\ fork'.listed \cup ToSet(left') = ToSet(Head(jobs').venues)
                        /\ fork'.mined + Len(left') = Len(Head(jobs').venues) + fork'.resent
    BY <1>1, <1>4, <2>3 DEF Ready
  <2>5. Ready'
    BY <1>1, <1>2, <1>3, <1>4, <2>1, <2>2, <2>3, <2>4 DEF Ready
  <2> QED BY <1>1, <1>3, <1>4, <2>5, Running DEF Busy
<1>5. CASE /\ Take /\ UNCHANGED base
           /\ (UNCHANGED <<task, jobs, left>> \/ GiveUp)
  <2>1. Anchored'
    BY <1>1, <1>2, <1>3, <1>5 DEF Ready, Anchored, Clean
  <2>2. CASE UNCHANGED <<task, jobs, left>>
    <3>1. Ready'
      BY <1>1, <1>2, <2>1, <2>2 DEF Ready, Clean
    <3> QED BY <1>1, <1>3, <1>5, <2>2, <3>1, Running DEF Busy
  <2>3. CASE GiveUp
    <3>1. task' \in {"over", "revert"} /\ (task' \in Busy => Ready')
      BY <1>1, <2>1, <2>3, GivesUp DEF Ready
    <3> QED BY <1>1, <1>3, <1>5, <3>1, Running DEF Busy
  <2> QED BY <1>5, <2>2, <2>3
<1>6. CASE UNCHANGED <<saved, issued, base>> /\ GiveUp
  <2>1. Anchored'
    BY <1>1, <1>2, <1>6 DEF Ready, Anchored, Clean
  <2>2. task' \in {"over", "revert"} /\ (task' \in Busy => Ready')
    BY <1>1, <1>6, <2>1, GivesUp DEF Ready
  <2> QED BY <1>1, <1>6, <2>2, Running DEF Busy
<1> QED BY <1>4, <1>5, <1>6 DEF Arm

\* A listed venue is no longer left to be listed.
LEMMA ListsVenues == ASSUME RigInv, ListVenue PROVE RigInv'
<1>1. /\ task = "list" /\ left # <<>> /\ Ready
      /\ UNCHANGED <<streamVars, saved, issued, base, row>>
  BY DEF ListVenue, RigInv, Busy
<1>2. Pristine' = Pristine
  BY <1>1 DEF streamVars, Pristine, Prepared
<1>3. base \in DOMAIN saved /\ Anchored'
  BY <1>1, <1>2 DEF Ready, Anchored
<1>4. ASSUME NEW again \in Repeats,
             fork' = [Resent(fork, again) EXCEPT !.listed = @ \cup {Head(left)}, !.mined = @ + 1],
             left' = Tail(left), UNCHANGED <<task, jobs>>
      PROVE  RigInv'
  <2>1. left' \in Seq(Venue) /\ Len(left) \in Nat /\ Len(left') = Len(left) - 1
    BY <1>1, <1>4, HeadTailProperties DEF Ready
  <2>2. ToSet(left) = {Head(left)} \cup ToSet(Tail(left))
    <3>1. left \in Seq(Venue) /\ left # <<>>
      BY <1>1 DEF Ready
    <3>2. /\ Len(left) \in Nat /\ Len(left) > 0 /\ Len(Tail(left)) = Len(left) - 1
          /\ Head(left) = left[1]
          /\ \A i \in 1 .. Len(Tail(left)) : Tail(left)[i] = left[i + 1]
          /\ DOMAIN left = 1 .. Len(left) /\ DOMAIN Tail(left) = 1 .. Len(Tail(left))
      BY <3>1, HeadTailProperties
    <3>3. ASSUME NEW i \in DOMAIN left PROVE left[i] \in {Head(left)} \cup ToSet(Tail(left))
      <4>1. CASE i = 1
        BY <3>2, <4>1
      <4>2. CASE i # 1
        <5>1. i - 1 \in DOMAIN Tail(left) /\ Tail(left)[i - 1] = left[i]
          BY <3>2, <4>2
        <5> QED BY <5>1 DEF ToSet
      <4> QED BY <4>1, <4>2
    <3>4. ASSUME NEW i \in DOMAIN Tail(left) PROVE Tail(left)[i] \in ToSet(left)
      <4>1. i + 1 \in DOMAIN left /\ left[i + 1] = Tail(left)[i]
        BY <3>2
      <4> QED BY <4>1 DEF ToSet
    <3>5. Head(left) \in ToSet(left)
      BY <3>2 DEF ToSet
    <3> QED BY <3>3, <3>4, <3>5 DEF ToSet
  <2>3. /\ fork'.listed = fork.listed \cup {Head(left)} /\ Listing'
        /\ fork'.mined = fork.mined + again + 1 /\ fork'.resent = fork.resent + again
        /\ fork.mined \in Nat /\ fork.resent \in Nat /\ again \in Nat
    <3>1. PICK listed : \E mined, resent \in Nat : fork = Since(listed, mined, resent)
      BY <1>1 DEF Ready, Listing
    <3>2. PICK mined \in Nat, resent \in Nat : fork = Since(listed, mined, resent)
      BY <3>1
    <3>3. again \in Nat
      BY <1>4, RigInputs DEF Repeats
    <3>4. fork' = [overrides |-> titan, listed |-> listed \cup {Head(left)}, swaps |-> 0,
                   still |-> TRUE, mined |-> mined + again + 1, resent |-> resent + again]
      BY <1>4, <3>2 DEF Resent, Since, Prepared
    <3>5. titan' = titan
      BY <1>1 DEF streamVars
    <3>6. mined + again + 1 \in Nat /\ resent + again \in Nat
      BY <3>2, <3>3
    <3>7. ASSUME NEW l, NEW m \in Nat, NEW n \in Nat,
                 fork' = [overrides |-> titan, listed |-> l, swaps |-> 0, still |-> TRUE,
                          mined |-> m, resent |-> n]
          PROVE  Listing'
      BY <3>5, <3>7 DEF Listing, Since, Prepared
    <3>8. Listing'
      BY <3>4, <3>6, <3>7
    <3> QED BY <3>2, <3>3, <3>4, <3>8 DEF Since, Prepared
  <2>4. jobs' # <<>> => /\ fork'.listed \cup ToSet(left') = ToSet(Head(jobs').venues)
                        /\ fork'.mined + Len(left') = Len(Head(jobs').venues) + fork'.resent
    <3> SUFFICES ASSUME jobs # <<>>
                 PROVE  /\ fork'.listed \cup ToSet(left') = ToSet(Head(jobs).venues)
                        /\ fork'.mined + Len(left') = Len(Head(jobs).venues) + fork'.resent
      BY <1>4
    <3>1. /\ fork.listed \cup ToSet(left) = ToSet(Head(jobs).venues)
          /\ fork.mined + Len(left) = Len(Head(jobs).venues) + fork.resent
      BY <1>1 DEF Ready
    <3>2. Len(Head(jobs).venues) \in Nat
      <4>1. Head(jobs) \in Jobs
        BY <1>1, HeadTailProperties DEF Ready
      <4>2. Head(jobs).venues \in Seq(Venue)
        BY <4>1 DEF Jobs
      <4> QED BY <4>2
    <3>3. fork'.listed \cup ToSet(left') = ToSet(Head(jobs).venues)
      BY <1>4, <2>2, <2>3, <3>1
    <3> DEFINE k == Len(Head(jobs).venues)
               n == Len(left)
               m == fork.mined
               t == fork.resent
    <3>4. m + n = k + t /\ m \in Nat /\ n \in Nat /\ k \in Nat /\ t \in Nat /\ again \in Nat
      BY <2>1, <2>3, <3>1, <3>2
    <3>5. fork'.mined = m + again + 1 /\ fork'.resent = t + again /\ Len(left') = n - 1
      BY <2>1, <2>3
    <3> HIDE DEF k, n, m, t
    <3>6. fork'.mined + Len(left') = k + fork'.resent
      BY <3>4, <3>5
    <3> QED BY <3>3, <3>6 DEF k
  <2>5. Ready'
    BY <1>1, <1>2, <1>3, <1>4, <2>1, <2>3, <2>4 DEF Ready
  <2> QED BY <1>1, <1>4, <2>5, Running DEF Busy, RigInv
<1>5. CASE GiveUp
  <2>1. task' \in {"over", "revert"} /\ (task' \in Busy => Ready')
    BY <1>1, <1>3, <1>5, GivesUp DEF Ready
  <2> QED BY <1>1, <2>1, Running DEF Busy, RigInv
<1> QED BY <1>4, <1>5 DEF ListVenue

\* The probes change nothing and make a list of jobs.
LEMMA Probes == ASSUME RigInv, NEW quoting \in Quoting, Probe(quoting) PROVE RigInv'
<1> DEFINE anywhere == UNION {quoting[t] : t \in DOMAIN quoting}
           per == [i \in DOMAIN Trades |-> Shapes(quoting, anywhere, Trades[i])]
           R == Seq(Jobs) \ {<<>>}
<1>1. /\ task = "list" /\ Ready
      /\ UNCHANGED <<streamVars, anvilVars, base, row>>
      /\ jobs' = FlattenSeq(per)
  BY DEF Probe, RigInv, Busy
<1>2. Pristine' = Pristine
  BY <1>1 DEF streamVars, Pristine, Prepared
<1>3. Anchored' /\ issued' \in Nat
  BY <1>1, <1>2 DEF Ready, Anchored, Clean, anvilVars, RigInv
<1>4. CASE anywhere = {}
  <2>1. task' = "over"
    BY <1>4 DEF Probe
  <2> QED BY <1>1, <1>3, <2>1, Running DEF Busy
<1>5. CASE anywhere # {}
  <2>1. task' = "revert" /\ left' = Head(jobs').venues
    BY <1>5 DEF Probe
  <2>2. Len(Trades) # 0 /\ Len(Trades) \in Nat /\ DOMAIN Trades = 1 .. Len(Trades)
    <3>1. Len(Trades) \in Nat /\ DOMAIN Trades = 1 .. Len(Trades)
      BY RigInputs
    <3>2. DOMAIN quoting = ToSet(Trades)
      BY DEF Quoting
    <3>3. ToSet(Trades) # {}
      BY <1>5, <3>2
    <3> QED BY <3>1, <3>3 DEF ToSet
  <2>3. per \in Seq(R) /\ Len(per) # 0
    <3> HIDE DEF anywhere, R
    <3>1. \A i \in DOMAIN Trades : Shapes(quoting, anywhere, Trades[i]) \in R
      BY TradesMakeJobs DEF ToSet, R
    <3> QED BY <2>2, <3>1
  <2>4. Joins(R)
    <3> SUFFICES ASSUME NEW s \in R, NEW t \in R PROVE s \o t \in R
      BY DEF Joins
    <3>1. s \o t \in Seq(Jobs) /\ Len(s \o t) = Len(s) + Len(t)
      OBVIOUS
    <3>2. Len(s) \in Nat /\ Len(s) # 0 /\ Len(t) \in Nat
      OBVIOUS
    <3>3. Len(s \o t) # 0
      BY <3>1, <3>2
    <3>4. Len(<<>>) = 0
      OBVIOUS
    <3> QED BY <3>1, <3>3, <3>4
  <2>5. jobs' \in R
    <3> HIDE DEF R, per
    <3> QED BY <1>1, <2>3, <2>4, FlattenedLists
  <2>6. Head(jobs') \in Jobs
    BY <2>5, HeadTailProperties
  <2>7. left' \in Seq(Venue)
    BY <2>1, <2>6 DEF Jobs
  <2>8. Ready'
    BY <1>3, <2>1, <2>5, <2>7 DEF Ready
  <2> QED BY <1>1, <1>3, <2>1, <2>8, Running DEF Busy
<1> QED BY <1>4, <1>5

\* The fork once a swap was sent again, and again.
LEMMA AfterRepeats ==
    ASSUME NEW listed, NEW m \in Nat, NEW n \in Nat, NEW again \in Nat
    PROVE  [Resent(Since(listed, m, n), again) EXCEPT !.swaps = @ + again]
              = Prepared(listed, again, m + again, n + again)
<1> DEFINE f == Since(listed, m, n)
           g == Resent(f, again)
           none == 0
           true == TRUE
<1>1. f = [overrides |-> titan, listed |-> listed, swaps |-> none, still |-> true,
           mined |-> m, resent |-> n]
  BY DEF Since, Prepared
<1>2. g = [f EXCEPT !.mined = @ + again, !.resent = @ + again]
  BY DEF Resent
<1>3. none + again = again
  OBVIOUS
<1>4. Prepared(listed, again, m + again, n + again)
         = [overrides |-> titan, listed |-> listed, swaps |-> again, still |-> true,
            mined |-> m + again, resent |-> n + again]
  BY DEF Prepared
<1> HIDE DEF f, g, none, true
<1>5. g = [overrides |-> titan, listed |-> listed, swaps |-> none, still |-> true,
           mined |-> m + again, resent |-> n + again]
  BY <1>1, <1>2
<1>6. [g EXCEPT !.swaps = @ + again] = [g EXCEPT !.swaps = again]
  BY <1>3, <1>5
<1>7. [g EXCEPT !.swaps = again]
         = [overrides |-> titan, listed |-> listed, swaps |-> again, still |-> true,
            mined |-> m + again, resent |-> n + again]
  BY <1>5
<1> QED BY <1>4, <1>6, <1>7 DEF f, g

\* A measurement runs on the fork as it was set up, with its own venues listed.
LEMMA Measures == ASSUME RigInv, Measure PROVE RigInv'
<1>1. /\ task = "list" /\ left = <<>> /\ jobs # <<>> /\ Ready /\ NextJob
      /\ UNCHANGED <<streamVars, saved, issued, base, live>>
  BY DEF Measure, RigInv, Busy
<1>2. Pristine' = Pristine
  BY <1>1 DEF streamVars, Pristine, Prepared
<1>3. Anchored'
  BY <1>1, <1>2 DEF Ready, Anchored
<1>4. task' \in {"over", "revert"} /\ (task' \in Busy => Ready')
  BY <1>1, <1>3, GivesUp DEF Ready, GiveUp
<1>5. PICK mined \in Nat, resent \in Nat :
         /\ fork = Since(ToSet(Head(jobs).venues), mined, resent)
         /\ mined = Len(Head(jobs).venues) + resent
  <2>1. ToSet(left) = {} /\ Len(left) = 0
    BY <1>1 DEF ToSet
  <2>2. PICK listed : \E m, n \in Nat : fork = Since(listed, m, n)
    BY <1>1 DEF Ready, Listing
  <2>3. PICK m \in Nat, n \in Nat : fork = Since(listed, m, n)
    BY <2>2
  <2>4. fork.listed = listed /\ fork.mined = m /\ fork.resent = n
    BY <2>3 DEF Since, Prepared
  <2>5. /\ fork.listed \cup ToSet(left) = ToSet(Head(jobs).venues)
        /\ fork.mined + Len(left) = Len(Head(jobs).venues) + fork.resent
    BY <1>1 DEF Ready
  <2>6. listed = ToSet(Head(jobs).venues) /\ m = Len(Head(jobs).venues) + n
    BY <2>1, <2>3, <2>4, <2>5
  <2> QED BY <2>3, <2>6
<1>6. row' = row \/ EqualFooting'
  <2> DEFINE on(again) == [Resent(fork, again) EXCEPT !.swaps = @ + again]
             venues == Head(jobs).venues
  <2>0. row' = row \/ \E again \in Repeats : /\ row'.job = Head(jobs)
                                              /\ row'.on = on(again) /\ row'.again = again
    <3>1. CASE \E again \in Repeats, outcome \in {"ok", "reverted"} :
                  row' = [job |-> Head(jobs), status |-> outcome, on |-> on(again),
                          again |-> again,
                          live |-> Cardinality(ToSet(Head(jobs).venues)
                                                  \cap live[Head(jobs).trade])]
      <4>1. PICK again \in Repeats, outcome \in {"ok", "reverted"} :
               row' = [job |-> Head(jobs), status |-> outcome, on |-> on(again),
                       again |-> again,
                       live |-> Cardinality(ToSet(Head(jobs).venues)
                                               \cap live[Head(jobs).trade])]
        BY <3>1
      <4> HIDE DEF on
      <4>2. row'.job = Head(jobs) /\ row'.on = on(again) /\ row'.again = again
        BY <4>1
      <4> QED BY <4>2
    <3>2. CASE UNCHANGED row
      BY <3>2
    <3> QED BY <3>1, <3>2 DEF Measure
  <2> SUFFICES ASSUME NEW again \in Repeats, row'.job = Head(jobs),
                      row'.on = on(again), row'.again = again
               PROVE  row'.on = Prepared(ToSet(venues), again,
                                         Len(venues) + row'.on.resent, row'.on.resent)
    <3>1. titan' = titan
      BY <1>1 DEF streamVars
    <3> QED BY <2>0, <3>1 DEF EqualFooting, Prepared
  <2>1. again \in Nat
    BY RigInputs DEF Repeats
  <2>2. Len(venues) \in Nat
    <3>1. Head(jobs) \in Jobs
      BY <1>1, HeadTailProperties DEF Ready
    <3>2. venues \in Seq(Venue)
      BY <3>1 DEF Jobs
    <3> HIDE DEF venues
    <3> QED BY <3>2
  <2>3. on(again) = Prepared(ToSet(venues), again, mined + again, resent + again)
    <3>1. on(again) = [Resent(fork, again) EXCEPT !.swaps = @ + again]
      OBVIOUS
    <3> HIDE DEF on
    <3> QED BY <1>5, <2>1, <3>1, AfterRepeats
  <2>4. mined + again = Len(venues) + (resent + again)
    BY <1>5, <2>1, <2>2
  <2> HIDE DEF on, venues
  <2>5. row'.on.resent = resent + again
    BY <2>3 DEF Prepared
  <2> QED BY <2>3, <2>4, <2>5
<1> QED BY <1>1, <1>4, <1>6, Running DEF Busy, RigInv

\* Nothing has been measured at first.
LEMMA RigStarts == RigInit => RigInv
<1> SUFFICES ASSUME RigInit PROVE RigInv
  OBVIOUS
<1>1. task \in {"fetching", "streaming"} /\ row = None /\ jobs = <<>> /\ issued = 0
  BY DEF RigInit
<1> QED BY <1>1 DEF RigInv, EqualFooting, Busy

\* Every step keeps the invariant.
LEMMA RigStep == RigInv /\ [RigNext]_rigVars => RigInv'
<1> SUFFICES ASSUME RigInv, [RigNext]_rigVars PROVE RigInv'
  OBVIOUS
<1>1. ASSUME UNCHANGED rigVars PROVE RigInv'
  <2>1. UNCHANGED <<titan, task, fork, saved, issued, base, jobs, left, row>>
    BY <1>1 DEF rigVars, streamVars, anvilVars
  <2>2. Pristine' = Pristine /\ Listing' = Listing
    BY <2>1 DEF Pristine, Prepared, Listing, Since
  <2>3. Ready' = Ready /\ EqualFooting' = EqualFooting
    BY <2>1, <2>2 DEF Ready, Anchored, Clean, EqualFooting, Prepared
  <2> QED BY <2>1, <2>3 DEF RigInv
<1> QED
  BY <1>1, Streams, Reverts, Freezes, Arms, ListsVenues, Measures, Probes DEF RigNext

\* The rig always has a way back to the fork as it was set up.
THEOREM RigIsSound == RigSpec => []RigInv
  BY RigStarts, RigStep, PTL DEF RigSpec

\* Rig.reset and set_whitelist: whatever request to anvil failed, was repeated or was
\* half made, every measurement ran on the fork as it was set up, with just the
\* venues of its shape listed and in the block after theirs, or as many later as
\* transactions were sent again.
THEOREM FootingIsEqual == RigSpec => []EqualFooting
<1>1. RigInv => EqualFooting
  BY DEF RigInv
<1> QED BY <1>1, RigIsSound, PTL

(***************************************************************************)
(* Price books: what a payload offers for a pair in a direction is filed   *)
(* once, from the first book that offers anything.                         *)
(***************************************************************************)
BooksInv == payload \in Seq(Books) /\ FirstBookIsKept

\* File adds what the book offers and keeps what was filed.
LEMMA FilingABook ==
    ASSUME NEW books, NEW book
    PROVE  LET after == File(File(books, BidKey(book), Bids(book)), AskKey(book), Asks(book))
           IN  \A k : /\ k \in DOMAIN after <=> k \in DOMAIN books \/ Offer(book, k) # <<>>
                      /\ k \in DOMAIN books => after[k] = books[k]
                      /\ k \notin DOMAIN books /\ Offer(book, k) # <<>>
                            => after[k] = Offer(book, k)
<1> DEFINE b == BidKey(book)
           a == AskKey(book)
           bids == Bids(book)
           asks == Asks(book)
           mid == File(books, b, bids)
           after == File(mid, a, asks)
<1>1. \A k : Offer(book, k) = IF k = b /\ (bids # <<>> \/ k # a) THEN bids
                              ELSE IF k = a THEN asks ELSE <<>>
  BY DEF Offer
<1> HIDE DEF b, a, bids, asks
<1>2. /\ \A k : k \in DOMAIN mid <=> k \in DOMAIN books \/ (bids # <<>> /\ k = b)
      /\ \A k \in DOMAIN books : mid[k] = books[k]
      /\ bids # <<>> /\ b \notin DOMAIN books => mid[b] = bids
  BY DEF File
<1>3. /\ \A k : k \in DOMAIN after <=> k \in DOMAIN mid \/ (asks # <<>> /\ k = a)
      /\ \A k \in DOMAIN mid : after[k] = mid[k]
      /\ asks # <<>> /\ a \notin DOMAIN mid => after[a] = asks
  BY DEF File
<1> HIDE DEF mid, after
<1>4. \A k : /\ k \in DOMAIN after <=> k \in DOMAIN books \/ Offer(book, k) # <<>>
             /\ k \in DOMAIN books => after[k] = books[k]
             /\ k \notin DOMAIN books /\ Offer(book, k) # <<>> => after[k] = Offer(book, k)
  BY <1>1, <1>2, <1>3
<1>5. QED
  BY <1>4 DEF after, mid, b, a, bids, asks

\* What a book says does not change with the books after it.
LEMMA BooksAreRead ==
    ASSUME NEW book, NEW k, table' = table
    PROVE  /\ Offer(book, k)' = Offer(book, k)
           /\ IsReadable(book)' = IsReadable(book)
BY DEF Offer, Bids, Asks, BaseUnits, Rungs, IsReadable, BidKey, AskKey, VenueOf

LEMMA BooksStep == BooksInv /\ [BooksNext]_bookVars => BooksInv'
<1> SUFFICES ASSUME BooksInv, [BooksNext]_bookVars PROVE BooksInv'
  OBVIOUS
<1>1. CASE UNCHANGED bookVars
  <2>1. /\ table' = table /\ payload' = payload /\ filed' = filed
    BY <1>1 DEF bookVars
  <2>2. \A i \in DOMAIN payload : \A k : /\ Offer(payload[i], k)' = Offer(payload[i], k)
                                         /\ IsReadable(payload[i])' = IsReadable(payload[i])
    BY <2>1, BooksAreRead
  <2>3. Readable' = Readable /\ Readable \subseteq DOMAIN payload
    BY <2>1, <2>2 DEF Readable
  <2>4. \A k : Offering(k)' = Offering(k)
    BY <2>1, <2>2, <2>3 DEF Offering
  <2>5. \A i : BidKey(payload[i])' = BidKey(payload[i]) /\ AskKey(payload[i])' = AskKey(payload[i])
    BY <2>1 DEF BidKey, AskKey, VenueOf
  <2>6. \A k : Offering(k) \subseteq Readable
    BY DEF Offering
  <2>7. FirstBookIsKept'
    BY <2>1, <2>2, <2>3, <2>4, <2>5, <2>6 DEF BooksInv, FirstBookIsKept
  <2>8. QED
    BY <2>1, <2>7 DEF BooksInv
<1>2. ASSUME NEW book \in Books, ReadBook(book) PROVE BooksInv'
  <2>1. payload \in Seq(Books) /\ FirstBookIsKept
    BY DEF BooksInv
  <2>2. payload' = Append(payload, book) /\ table' = table
    BY <1>2 DEF ReadBook
  <2> PICK n \in Nat : n = Len(payload) + 1
    BY <2>1
  <2>3. /\ payload' \in Seq(Books) /\ n \in Nat
        /\ DOMAIN payload' = DOMAIN payload \cup {n} /\ DOMAIN payload \subseteq Nat
        /\ \A i \in DOMAIN payload : i < n /\ payload'[i] = payload[i]
        /\ payload'[n] = book
    BY <2>1, <2>2
  <2>4. \A i \in DOMAIN payload : \A k :
           /\ Offer(payload[i], k)' = Offer(payload[i], k)
           /\ IsReadable(payload[i])' = IsReadable(payload[i])
           /\ BidKey(payload[i])' = BidKey(payload[i]) /\ AskKey(payload[i])' = AskKey(payload[i])
    BY <2>2, <2>3, BooksAreRead DEF BidKey, AskKey, VenueOf
  <2>5. /\ \A k : Offer(payload[n], k)' = Offer(book, k)
        /\ IsReadable(payload[n])' = IsReadable(book)
        /\ BidKey(payload[n])' = BidKey(book) /\ AskKey(payload[n])' = AskKey(book)
    BY <2>2, <2>3, BooksAreRead DEF BidKey, AskKey, VenueOf
  <2>6. /\ Readable' = Readable \cup (IF IsReadable(book) THEN {n} ELSE {})
        /\ Readable \subseteq DOMAIN payload
    BY <2>3, <2>4, <2>5 DEF Readable
  <2>7. \A k : Offering(k)' = Offering(k)
                 \cup (IF IsReadable(book) /\ Offer(book, k) # <<>> THEN {n} ELSE {})
    BY <2>3, <2>4, <2>5, <2>6 DEF Offering
  <2>8. \A k : /\ k \in DOMAIN filed' <=>
                     k \in DOMAIN filed \/ (IsReadable(book) /\ Offer(book, k) # <<>>)
               /\ k \in DOMAIN filed => filed'[k] = filed[k]
               /\ k \notin DOMAIN filed /\ IsReadable(book) /\ Offer(book, k) # <<>>
                     => filed'[k] = Offer(book, k)
    <3>1. filed' = IF IsReadable(book)
                   THEN File(File(filed, BidKey(book), Bids(book)), AskKey(book), Asks(book))
                   ELSE filed
      BY <1>2 DEF ReadBook
    <3>2. QED
      BY <3>1, FilingABook
  \* What was offered before is filed; so is what this book offers.
  <2>9. ASSUME NEW i \in Readable', NEW k \in {BidKey(payload[i]), AskKey(payload[i])}',
               (Offer(payload[i], k) # <<>>)'
        PROVE  k \in DOMAIN filed'
    <3>1. CASE i \in Readable
      BY <3>1, <2>1, <2>4, <2>6, <2>8, <2>9 DEF FirstBookIsKept
    <3>2. CASE i = n /\ IsReadable(book)
      BY <3>2, <2>5, <2>8, <2>9
    <3>3. QED
      BY <3>1, <3>2, <2>6
  <2>10. ASSUME NEW k \in DOMAIN filed'
         PROVE  \E i \in Offering(k)' : /\ \A j \in Offering(k)' : i <= j
                                        /\ filed'[k] = Offer(payload[i], k)'
    <3>1. CASE k \in DOMAIN filed
      <4>1. PICK i \in Offering(k) : /\ \A j \in Offering(k) : i <= j
                                     /\ filed[k] = Offer(payload[i], k)
        BY <2>1, <3>1 DEF FirstBookIsKept
      <4>2. i \in DOMAIN payload /\ i < n /\ i \in Nat
        BY <2>3, <2>6 DEF Offering
      <4>3. i \in Offering(k)' /\ \A j \in Offering(k)' : i <= j
        BY <2>3, <2>7, <4>1, <4>2
      <4>4. filed'[k] = Offer(payload[i], k)'
        BY <2>4, <2>8, <3>1, <4>1, <4>2
      <4>5. QED
        BY <4>3, <4>4
    <3>2. CASE k \notin DOMAIN filed
      <4>1. IsReadable(book) /\ Offer(book, k) # <<>> /\ filed'[k] = Offer(book, k)
        BY <2>8, <2>10, <3>2
      <4>2. Offering(k) = {}
        <5>1. SUFFICES ASSUME NEW i \in Offering(k) PROVE FALSE
          OBVIOUS
        <5>2. i \in Readable /\ Offer(payload[i], k) # <<>>
          BY DEF Offering
        <5>3. k \in {BidKey(payload[i]), AskKey(payload[i])}
          BY <5>2 DEF Offer
        <5>4. QED
          BY <2>1, <3>2, <5>2, <5>3 DEF FirstBookIsKept
      <4>3. Offering(k)' = {n}
        BY <2>7, <4>1, <4>2
      <4>4. QED
        BY <2>3, <2>5, <4>1, <4>3
    <3>3. QED
      BY <3>1, <3>2
  <2>11. FirstBookIsKept'
    BY <2>9, <2>10 DEF FirstBookIsKept
  <2>12. QED
    BY <2>3, <2>11 DEF BooksInv
<1>3. QED
  BY <1>1, <1>2 DEF BooksNext

\* An order book is that of the first book of its pair, and none is missing, for any
\* tables, any arithmetic of levels and payloads of any length (FirstBookIsKept).
THEOREM FirstBooksAreKept == BooksSpec => []FirstBookIsKept
<1>1. BooksInit => BooksInv
  BY DEF BooksInit, BooksInv, FirstBookIsKept, Readable
<1>2. BooksInv => FirstBookIsKept
  BY DEF BooksInv
<1>3. QED
  BY <1>1, <1>2, BooksStep, PTL DEF BooksSpec

(***************************************************************************)
(* Levels: filed books are offers of books that were read (BooksInv), and  *)
(* what a book offers are rungs of a side with both amounts rounded.       *)
(***************************************************************************)
\* A power of the radix is a number that can be divided by.
LEMMA Powers == \A n \in 0 .. MAX_DECIMALS + 2 * FRACTION : Power[n] \in Nat \ {0}
<1> DEFINE N == MAX_DECIMALS + 2 * FRACTION
           S == Nat \ {0}
           Is(f) == f = [n \in 0 .. N |-> IF n = 0 THEN 1 ELSE RADIX * f[n - 1]]
           next == [n \in 1 .. N |-> [x \in S |-> RADIX * x]]
<1>1. N \in Nat /\ RADIX \in Nat /\ RADIX > 0
  BY BookBounds
<1>2. \A x \in S : RADIX * x \in S
  BY <1>1, Product
<1>3. next \in [1 .. N -> [S -> S]]
  <2> HIDE DEF N, S
  <2> QED BY <1>2
<1>4. \E f : Is(f)
  <2>1. PICK g \in [0 .. N -> S] : g[0] = 1 /\ \A n \in 1 .. N : g[n] = next[n][g[n - 1]]
    <3> DEFINE one == 1
    <3>1. one \in S /\ N \in Nat
      BY <1>1
    <3>2. Runs(S, one, N, next)
      <4> HIDE DEF one, N, S, next, Is
      <4> QED BY <1>3, <3>1, Recursion
    <3> HIDE DEF N, S, next
    <3> QED BY <3>2 DEF Runs
  <2>2. ASSUME NEW n \in 0 .. N PROVE g[n] = IF n = 0 THEN 1 ELSE RADIX * g[n - 1]
    <3>1. CASE n # 0
      <4>1. n \in 1 .. N /\ n - 1 \in 0 .. N
        BY <1>1, <3>1
      <4>2. g[n - 1] \in S /\ g[n] = next[n][g[n - 1]]
        BY <2>1, <4>1
      <4> HIDE DEF N, S
      <4> QED BY <3>1, <4>1, <4>2
    <3> QED BY <2>1, <3>1
  <2>3. g = [n \in 0 .. N |-> g[n]]
    BY <2>1
  <2>4. Is(g)
    <3> HIDE DEF N, S, next
    <3> QED BY <2>2, <2>3
  <2> QED BY <2>4
<1>5. Is(Power)
  <2>1. Power = CHOOSE f : Is(f)
    BY DEF Power
  <2> HIDE DEF Is
  <2> QED BY <1>4, <2>1
<1> DEFINE T == {n \in Nat : n <= N => Power[n] \in S}
<1>6. 0 \in T
  BY <1>1, <1>5
<1>7. ASSUME NEW n \in Nat, n \in T PROVE n + 1 \in T
  <2>1. SUFFICES ASSUME n + 1 <= N PROVE Power[n + 1] \in S
    OBVIOUS
  <2>2. n + 1 \in 0 .. N /\ n + 1 # 0 /\ (n + 1) - 1 = n /\ Power[n] \in S
    BY <1>1, <1>7, <2>1
  <2>3. Power[n + 1] = RADIX * Power[n]
    <3> HIDE DEF N
    <3> QED BY <1>5, <2>2
  <2> HIDE DEF S
  <2> QED BY <1>2, <2>2, <2>3
<1>8. Nat \subseteq T
  <2> HIDE DEF T
  <2> QED BY <1>6, <1>7, NatSetInduction
<1> QED BY <1>1, <1>8

\* Base units are the number rounded half up.
LEMMA UnitsRound ==
    ASSUME NEW value \in Nat, NEW token, IsTokenDecimals(table[token]),
           BaseUnits(value, table[token]) # Malformed
    PROVE  /\ BaseUnits(value, table[token]) \in 0 .. MAX_UINT256
           /\ Rounds(BaseUnits(value, table[token]), value, token)
<1> DEFINE p == Power[table[token]]
           vp == value * p
           units == HalfUp(vp, Scale)
<1>1. p \in Nat /\ Scale \in Nat /\ Scale > 0 /\ MAX_UINT256 \in Nat
  <2>1. table[token] \in 0 .. MAX_DECIMALS + 2 * FRACTION
        /\ 2 * FRACTION \in 0 .. MAX_DECIMALS + 2 * FRACTION /\ MAX_UINT256 \in Nat
    BY BookBounds DEF IsTokenDecimals
  <2> QED BY <2>1, Powers DEF Scale
<1>2. vp \in Nat
  BY <1>1, Product
<1>3. BaseUnits(value, table[token]) = units /\ units <= MAX_UINT256
  BY DEF BaseUnits
<1>4. 2 * value * p = 2 * vp
  BY <1>1
<1> HIDE DEF p, vp
<1>5. /\ units \in Nat /\ (2 * Scale) * units <= 2 * vp + Scale
      /\ 2 * vp + Scale < (2 * Scale) * units + 2 * Scale
  <2> DEFINE a == 2 * vp + Scale
             b == 2 * Scale
  <2>1. a \in Nat /\ b \in Nat /\ b > 0 /\ units = a \div b
    BY <1>1, <1>2 DEF HalfUp
  <2> HIDE DEF a, b, units
  <2>2. a \div b \in Nat /\ b * (a \div b) <= a /\ a < b * (a \div b) + b
    BY <2>1, DivBounds
  <2> QED BY <2>1, <2>2 DEF a, b
<1> HIDE DEF units
<1> DEFINE us == units * Scale
<1>6. us \in Nat /\ (2 * Scale) * units = 2 * us /\ 2 * units * Scale = 2 * us
      /\ (2 * units + 1) * Scale = 2 * us + Scale
  BY <1>1, <1>5, Product
<1> HIDE DEF us
<1>7. 2 * us <= 2 * vp + Scale /\ 2 * vp < 2 * us + Scale
  BY <1>1, <1>2, <1>5, <1>6
<1>8. Rounds(units, value, token)
  BY <1>4, <1>6, <1>7 DEF Rounds, p
<1> QED BY <1>1, <1>3, <1>5, <1>8

\* The rungs of a side are those of its well-formed entries.
LEMMA RungsAreSound ==
    ASSUME NEW side \in Seq([volume : Nat \cup {Malformed}, price : Nat \cup {Malformed}]
                               \cup {Malformed})
    PROVE  /\ \E n \in Nat : DOMAIN Rungs(side) = 1 .. n
           /\ \A i \in DOMAIN Rungs(side) :
                 \E r \in DOMAIN side :
                    /\ WellFormed(side[r])
                    /\ side[r].volume \in Nat /\ side[r].price \in Nat
                    /\ Rungs(side)[i].one = Whole(side[r].volume)
                    /\ Rungs(side)[i].two = side[r].volume * side[r].price
<1> DEFINE S == [volume : Nat \cup {Malformed}, price : Nat \cup {Malformed}] \cup {Malformed}
           places == {i \in DOMAIN side : WellFormed(side[i])}
           sound == ElementsAt(side, places)
<1>1. sound \in Seq({side[i] : i \in DOMAIN side \cap places})
  <2> HIDE DEF places
  <2> QED BY ElementsAtPlaces
<1>2. Len(sound) \in Nat /\ DOMAIN sound = 1 .. Len(sound)
  <2> HIDE DEF sound, places
  <2> QED BY <1>1
<1>3. Rungs(side) = [i \in DOMAIN sound |-> [one |-> Whole(sound[i].volume),
                                             two |-> sound[i].volume * sound[i].price]]
  BY DEF Rungs
<1>4. ASSUME NEW i \in DOMAIN sound
      PROVE  \E r \in DOMAIN side : WellFormed(side[r]) /\ sound[i] = side[r]
  <2>1. \E r \in DOMAIN side : r \in places /\ sound[i] = side[r]
    <3> HIDE DEF places, S
    <3> QED BY Taken
  <2> QED BY <2>1
<1>5. \A r \in DOMAIN side :
         WellFormed(side[r]) => side[r].volume \in Nat /\ side[r].price \in Nat
  <2> SUFFICES ASSUME NEW r \in DOMAIN side, WellFormed(side[r])
               PROVE  side[r].volume \in Nat /\ side[r].price \in Nat
    OBVIOUS
  <2>1. side[r] \in S
    OBVIOUS
  <2> QED BY <2>1 DEF WellFormed
<1> HIDE DEF sound, places, S
<1>6. DOMAIN Rungs(side) = DOMAIN sound
  BY <1>3
<1>7. ASSUME NEW i \in DOMAIN sound
      PROVE  \E r \in DOMAIN side :
                /\ WellFormed(side[r])
                /\ side[r].volume \in Nat /\ side[r].price \in Nat
                /\ Rungs(side)[i].one = Whole(side[r].volume)
                /\ Rungs(side)[i].two = side[r].volume * side[r].price
  <2>1. PICK r \in DOMAIN side : WellFormed(side[r]) /\ sound[i] = side[r]
    BY <1>4
  <2>2. /\ Rungs(side)[i].one = Whole(side[r].volume)
        /\ Rungs(side)[i].two = side[r].volume * side[r].price
    BY <1>3, <2>1
  <2> QED BY <1>5, <2>1, <2>2
<1> QED BY <1>2, <1>6, <1>7

\* A level is that of a rung, converted, that takes an input and overflows nowhere.
LEMMA LevelsAreConverted ==
    ASSUME NEW S, NEW units \in Seq(S), NEW n \in DOMAIN Levels(units)
    PROVE  \E i \in DOMAIN units : IsLevel(units[i]) /\ Levels(units)[n] = units[i]
<1> DEFINE places == {i \in DOMAIN units : IsLevel(units[i])}
<1>1. n \in DOMAIN ElementsAt(units, places)
  BY DEF Levels
<1>2. \E i \in DOMAIN units : i \in places /\ ElementsAt(units, places)[n] = units[i]
  <2> HIDE DEF places
  <2> QED BY <1>1, Taken
<1> QED BY <1>2 DEF Levels

\* one and two are what a rung of this side has of the two tokens.
FromRung(side, one, oneToken, two, twoToken) ==
    \E r \in DOMAIN side :
       /\ WellFormed(side[r])
       /\ Rounds(one, Whole(side[r].volume), oneToken)
       /\ Rounds(two, side[r].volume * side[r].price, twoToken)

\* A level takes something, and overflows nowhere.
InBounds(level) ==
    level.amountIn \in 1 .. MAX_UINT256 /\ level.amountOut \in 0 .. MAX_UINT256

\* The numbers of a rung.
LEMMA RungNumbers ==
    ASSUME NEW volume \in Nat, NEW price \in Nat
    PROVE  Whole(volume) \in Nat /\ volume * price \in Nat
<1>1. FRACTION \in 0 .. MAX_DECIMALS + 2 * FRACTION
  BY BookBounds
<1> QED BY <1>1, Powers, Product DEF Whole

\* Every level is a rung of its side, with both amounts converted.
LEMMA LevelsComeFromRungs ==
    ASSUME NEW side \in Seq([volume : Nat \cup {Malformed}, price : Nat \cup {Malformed}]
                               \cup {Malformed}),
           NEW S, NEW units \in Seq(S), DOMAIN units = DOMAIN Rungs(side),
           NEW n \in DOMAIN Levels(units)
    PROVE  \E i \in DOMAIN Rungs(side) : \E r \in DOMAIN side :
              /\ IsLevel(units[i]) /\ Levels(units)[n] = units[i]
              /\ WellFormed(side[r])
              /\ Rungs(side)[i].one = Whole(side[r].volume) /\ Rungs(side)[i].one \in Nat
              /\ Rungs(side)[i].two = side[r].volume * side[r].price
              /\ Rungs(side)[i].two \in Nat
<1>1. PICK i \in DOMAIN units : IsLevel(units[i]) /\ Levels(units)[n] = units[i]
  BY LevelsAreConverted
<1>2. PICK r \in DOMAIN side :
         /\ WellFormed(side[r])
         /\ side[r].volume \in Nat /\ side[r].price \in Nat
         /\ Rungs(side)[i].one = Whole(side[r].volume)
         /\ Rungs(side)[i].two = side[r].volume * side[r].price
  BY RungsAreSound
<1>3. Rungs(side)[i].one \in Nat /\ Rungs(side)[i].two \in Nat
  BY <1>2, RungNumbers
<1> QED BY <1>1, <1>2, <1>3

\* The sides of a book are lists.
LEMMA SidesAreLists ==
    ASSUME NEW book \in Books, book # Malformed
    PROVE  /\ book.bids \in Seq([volume : Nat \cup {Malformed}, price : Nat \cup {Malformed}]
                                   \cup {Malformed})
           /\ book.asks \in Seq([volume : Nat \cup {Malformed}, price : Nat \cup {Malformed}]
                                   \cup {Malformed})
  BY BooksOfTitan

\* Bids take token1 and pay token2.
LEMMA BidsAreSound ==
    ASSUME NEW book \in Books, IsReadable(book), NEW n \in DOMAIN Bids(book)
    PROVE  LET level == Bids(book)[n]
           IN  /\ InBounds(level)
               /\ FromRung(book.bids, level.amountIn, book.token1, level.amountOut, book.token2)
<1> DEFINE rungs == Rungs(book.bids)
           units == [i \in DOMAIN rungs |->
                       [amountIn |-> BaseUnits(rungs[i].one, table[book.token1]),
                        amountOut |-> BaseUnits(rungs[i].two, table[book.token2])]]
           level == Bids(book)[n]
<1>1. /\ book # Malformed
      /\ IsTokenDecimals(table[book.token1]) /\ IsTokenDecimals(table[book.token2])
  BY DEF IsReadable
<1>2. Bids(book) = Levels(units)
  BY DEF Bids
<1>3. \E S : units \in Seq(S)
  <2> HIDE DEF rungs
  <2>1. PICK m \in Nat : DOMAIN rungs = 1 .. m
    BY <1>1, SidesAreLists, RungsAreSound DEF rungs
  <2>2. units \in Seq({units[i] : i \in 1 .. m})
    BY <2>1
  <2> QED BY <2>2
<1>4. PICK i \in DOMAIN rungs, r \in DOMAIN book.bids :
         /\ IsLevel(units[i]) /\ level = units[i] /\ WellFormed(book.bids[r])
         /\ rungs[i].one = Whole(book.bids[r].volume) /\ rungs[i].one \in Nat
         /\ rungs[i].two = book.bids[r].volume * book.bids[r].price /\ rungs[i].two \in Nat
  <2> DEFINE side == book.bids
  <2>1. DOMAIN units = DOMAIN Rungs(side)
    OBVIOUS
  <2> HIDE DEF units, rungs
  <2>2. side \in Seq([volume : Nat \cup {Malformed}, price : Nat \cup {Malformed}]
                        \cup {Malformed})
    BY <1>1, SidesAreLists
  <2>3. PICK S : units \in Seq(S)
    BY <1>3
  <2>4. n \in DOMAIN Levels(units) /\ level = Levels(units)[n]
    BY <1>2
  <2> HIDE DEF side, level
  <2>5. PICK i \in DOMAIN Rungs(side), r \in DOMAIN side :
           /\ IsLevel(units[i]) /\ Levels(units)[n] = units[i]
           /\ WellFormed(side[r])
           /\ Rungs(side)[i].one = Whole(side[r].volume) /\ Rungs(side)[i].one \in Nat
           /\ Rungs(side)[i].two = side[r].volume * side[r].price
           /\ Rungs(side)[i].two \in Nat
    BY <2>1, <2>2, <2>3, <2>4, LevelsComeFromRungs
  <2> QED BY <2>4, <2>5 DEF side, rungs
<1>5. /\ level.amountIn = BaseUnits(rungs[i].one, table[book.token1])
      /\ level.amountOut = BaseUnits(rungs[i].two, table[book.token2])
      /\ level.amountIn # Malformed /\ level.amountIn # 0 /\ level.amountOut # Malformed
  <2> HIDE DEF rungs, level
  <2> QED BY <1>4 DEF IsLevel
<1> HIDE DEF rungs, level, units
<1>6. level.amountIn \in 0 .. MAX_UINT256 /\ Rounds(level.amountIn, rungs[i].one, book.token1)
  BY <1>1, <1>4, <1>5, UnitsRound
<1>7. level.amountOut \in 0 .. MAX_UINT256 /\ Rounds(level.amountOut, rungs[i].two, book.token2)
  BY <1>1, <1>4, <1>5, UnitsRound
<1>8. InBounds(level)
  BY <1>5, <1>6, <1>7, BookBounds DEF InBounds
<1>9. FromRung(book.bids, level.amountIn, book.token1, level.amountOut, book.token2)
  BY <1>4, <1>6, <1>7 DEF FromRung
<1> QED BY <1>8, <1>9 DEF level

\* Asks take token2 and pay token1.
LEMMA AsksAreSound ==
    ASSUME NEW book \in Books, IsReadable(book), NEW n \in DOMAIN Asks(book)
    PROVE  LET level == Asks(book)[n]
           IN  /\ InBounds(level)
               /\ FromRung(book.asks, level.amountOut, book.token1, level.amountIn, book.token2)
<1> DEFINE rungs == Rungs(book.asks)
           units == [i \in DOMAIN rungs |->
                       [amountIn |-> BaseUnits(rungs[i].two, table[book.token2]),
                        amountOut |-> BaseUnits(rungs[i].one, table[book.token1])]]
           level == Asks(book)[n]
<1>1. /\ book # Malformed
      /\ IsTokenDecimals(table[book.token1]) /\ IsTokenDecimals(table[book.token2])
  BY DEF IsReadable
<1>2. Asks(book) = Levels(units)
  BY DEF Asks
<1>3. \E S : units \in Seq(S)
  <2> HIDE DEF rungs
  <2>1. PICK m \in Nat : DOMAIN rungs = 1 .. m
    BY <1>1, SidesAreLists, RungsAreSound DEF rungs
  <2>2. units \in Seq({units[i] : i \in 1 .. m})
    BY <2>1
  <2> QED BY <2>2
<1>4. PICK i \in DOMAIN rungs, r \in DOMAIN book.asks :
         /\ IsLevel(units[i]) /\ level = units[i] /\ WellFormed(book.asks[r])
         /\ rungs[i].one = Whole(book.asks[r].volume) /\ rungs[i].one \in Nat
         /\ rungs[i].two = book.asks[r].volume * book.asks[r].price /\ rungs[i].two \in Nat
  <2> DEFINE side == book.asks
  <2>1. DOMAIN units = DOMAIN Rungs(side)
    OBVIOUS
  <2> HIDE DEF units, rungs
  <2>2. side \in Seq([volume : Nat \cup {Malformed}, price : Nat \cup {Malformed}]
                        \cup {Malformed})
    BY <1>1, SidesAreLists
  <2>3. PICK S : units \in Seq(S)
    BY <1>3
  <2>4. n \in DOMAIN Levels(units) /\ level = Levels(units)[n]
    BY <1>2
  <2> HIDE DEF side, level
  <2>5. PICK i \in DOMAIN Rungs(side), r \in DOMAIN side :
           /\ IsLevel(units[i]) /\ Levels(units)[n] = units[i]
           /\ WellFormed(side[r])
           /\ Rungs(side)[i].one = Whole(side[r].volume) /\ Rungs(side)[i].one \in Nat
           /\ Rungs(side)[i].two = side[r].volume * side[r].price
           /\ Rungs(side)[i].two \in Nat
    BY <2>1, <2>2, <2>3, <2>4, LevelsComeFromRungs
  <2> QED BY <2>4, <2>5 DEF side, rungs
<1>5. /\ level.amountIn = BaseUnits(rungs[i].two, table[book.token2])
      /\ level.amountOut = BaseUnits(rungs[i].one, table[book.token1])
      /\ level.amountIn # Malformed /\ level.amountIn # 0 /\ level.amountOut # Malformed
  <2> HIDE DEF rungs, level
  <2> QED BY <1>4 DEF IsLevel
<1> HIDE DEF rungs, level, units
<1>6. level.amountIn \in 0 .. MAX_UINT256 /\ Rounds(level.amountIn, rungs[i].two, book.token2)
  BY <1>1, <1>4, <1>5, UnitsRound
<1>7. level.amountOut \in 0 .. MAX_UINT256 /\ Rounds(level.amountOut, rungs[i].one, book.token1)
  BY <1>1, <1>4, <1>5, UnitsRound
<1>8. InBounds(level)
  BY <1>5, <1>6, <1>7, BookBounds DEF InBounds
<1>9. FromRung(book.asks, level.amountOut, book.token1, level.amountIn, book.token2)
  BY <1>4, <1>6, <1>7 DEF FromRung
<1> QED BY <1>8, <1>9 DEF level

\* What is filed is what a book that was read offers.
LEMMA KeptBooksAreSound ==
    ASSUME payload \in Seq(Books), FirstBookIsKept
    PROVE  LevelsAreSound
<1> DEFINE level(k, n) == filed[k][n]
           Sold(k, n, i) ==
              k = BidKey(payload[i]) /\ FromRung(payload[i].bids, level(k, n).amountIn, k[2],
                                                 level(k, n).amountOut, k[3])
           Bought(k, n, i) ==
              k = AskKey(payload[i]) /\ FromRung(payload[i].asks, level(k, n).amountOut, k[3],
                                                 level(k, n).amountIn, k[2])
<1>1. ASSUME NEW k \in DOMAIN filed, NEW n \in DOMAIN filed[k]
      PROVE  /\ InBounds(level(k, n))
             /\ \E i \in Readable : Sold(k, n, i) \/ Bought(k, n, i)
  <2>1. PICK i \in Readable : Offer(payload[i], k) # <<>> /\ filed[k] = Offer(payload[i], k)
    BY DEF FirstBookIsKept, Offering
  <2> DEFINE book == payload[i]
  <2>2. book \in Books /\ IsReadable(book)
    BY <2>1 DEF Readable
  <2>3. CASE k = BidKey(book) /\ filed[k] = Bids(book)
    <3>1. n \in DOMAIN Bids(book) /\ level(k, n) = Bids(book)[n]
      BY <2>3
    <3>2. k[2] = book.token1 /\ k[3] = book.token2
      BY <2>3 DEF BidKey
    <3> HIDE DEF book, level
    <3>3. /\ InBounds(level(k, n))
          /\ FromRung(book.bids, level(k, n).amountIn, k[2], level(k, n).amountOut, k[3])
      BY <2>2, <3>1, <3>2, BidsAreSound
    <3> QED BY <2>1, <2>3, <3>3 DEF book
  <2>4. CASE k = AskKey(book) /\ filed[k] = Asks(book)
    <3>1. n \in DOMAIN Asks(book) /\ level(k, n) = Asks(book)[n]
      BY <2>4
    <3>2. k[2] = book.token2 /\ k[3] = book.token1
      BY <2>4 DEF AskKey
    <3> HIDE DEF book, level
    <3>3. /\ InBounds(level(k, n))
          /\ FromRung(book.asks, level(k, n).amountOut, k[3], level(k, n).amountIn, k[2])
      BY <2>2, <3>1, <3>2, AsksAreSound
    <3> QED BY <2>1, <2>4, <3>3 DEF book
  <2>5. \/ k = BidKey(book) /\ filed[k] = Bids(book)
        \/ k = AskKey(book) /\ filed[k] = Asks(book)
    BY <2>1 DEF Offer
  <2> QED BY <2>3, <2>4, <2>5
<1> QED BY <1>1 DEF LevelsAreSound, InBounds, FromRung

\* _levels and _base_units: no level gives something for nothing, or strays from
\* the rung it was made of by more than rounding, in either direction.
THEOREM LevelsAreKeptSound == BooksSpec => []LevelsAreSound
<1>1. BooksInv => LevelsAreSound
  BY KeptBooksAreSound DEF BooksInv
<1>2. BooksInit => BooksInv
  BY DEF BooksInit, BooksInv, FirstBookIsKept, Readable
<1> QED BY <1>1, <1>2, BooksStep, PTL DEF BooksSpec
(***************************************************************************)
(* The survey                                                              *)
(***************************************************************************)
AnySwap == {Swap(tx) : tx \in Sent}

\* swaps lists the swap of each of these transactions once.
OnceEach(swaps, txs) ==
    /\ swaps \in Seq(AnySwap)
    /\ \A i \in DOMAIN swaps : swaps[i].tx \in txs
    /\ \A tx \in txs : \E i \in DOMAIN swaps : swaps[i] = Swap(tx)
    /\ \A i, j \in DOMAIN swaps : swaps[i].tx = swaps[j].tx => i = j

ByBlock(swaps) == \A i, j \in DOMAIN swaps : i < j => swaps[i].block <= swaps[j].block

Shorter(n) == IF n < MAX_TXS THEN n ELSE MAX_TXS

\* What is analyzed: the first of the swaps of the transactions in the time asked for.
FirstOf(swaps) == SubSeq(swaps, 1, Shorter(Len(swaps)))

Kinds == {"error", "wrapper", "measured", "no frame", "failed"}
AnyRow == {Row(swap, kind) : swap \in AnySwap, kind \in Kinds}

\* The rows are about the first of these swaps, one each.
About(rows, swaps) ==
    /\ rows \in Seq(AnyRow) /\ Len(rows) <= Len(swaps)
    /\ \A i \in DOMAIN rows : rows[i].swap = swaps[i]

\* There is a row about each of the first n swaps, and the others are about none.
Final(rows, swaps) ==
    /\ DOMAIN rows \subseteq Nat
    /\ \A i \in 1 .. Shorter(Len(swaps)) : i \in DOMAIN rows /\ rows[i].swap = swaps[i]
    /\ \A i \in DOMAIN rows : i \in 1 .. Shorter(Len(swaps)) \/ rows[i].swap.tx = "none"

Listed == \E swaps : /\ OnceEach(swaps, Routed) /\ ByBlock(swaps)
                     /\ found = FirstOf(swaps)

SurveyTypeOK ==
    /\ clock \in Clocks /\ block \in [Sent -> 0 .. LATEST]
    /\ to \in 1 .. LATEST /\ days \in Days
    /\ phase \in {"searching", "scanning", "analyzing", "done", "failed"}
    /\ lo \in 1 .. LATEST /\ hi \in 1 .. LATEST

\* What is known of the blocks that the search has left out.
Narrowed ==
    /\ lo <= hi
    /\ \A b \in 1 .. LATEST : /\ b < lo => clock[b] < Target
                              /\ b >= hi => ~ clock[b] < Target
    /\ phase \in {"scanning", "analyzing"} => lo = hi

\* The rows so far.
Progress ==
    /\ phase = "searching" => found = <<>>
    /\ phase \in {"searching", "scanning"} => swapRows = <<>> /\ quoteRows = <<>>
    /\ phase = "scanning" => /\ start \in lo .. to + 1
                             /\ OnceEach(found, Within(lo, start - 1))
    /\ phase = "analyzing" => /\ Listed
                              /\ About(swapRows, found) /\ About(quoteRows, found)
                              /\ Len(swapRows) = Len(quoteRows)
    /\ phase = "done" => \E swaps : /\ OnceEach(swaps, Routed) /\ ByBlock(swaps)
                                    /\ Final(swapRows, swaps) /\ Final(quoteRows, swaps)

\* The search leaves out only blocks before the target; the windows list every swap
\* once; the rows go along the first of them, in order.
SurveyInv == SurveyTypeOK /\ Narrowed /\ Progress

\* Blocks are in the order of their clocks.
LEMMA ClocksRun ==
    ASSUME NEW t \in Clocks, NEW a \in 1 .. LATEST, NEW b \in 1 .. LATEST, a <= b
    PROVE  t[a] \in Nat /\ t[b] \in Nat /\ t[a] <= t[b]
<1> DEFINE T == {n \in Nat : a + n <= LATEST => t[a] <= t[a + n]}
<1>1. /\ LATEST \in Nat
      /\ \A n \in 1 .. LATEST : t[n] \in Nat
      /\ \A n \in 2 .. LATEST : t[n - 1] < t[n]
  <2>1. LATEST \in Nat /\ t \in Seq(Nat) /\ Len(t) = LATEST /\ \A n \in 2 .. LATEST : t[n - 1] < t[n]
    BY SurveyInputs
  <2> QED BY <2>1
<1>2. 0 \in T
  BY <1>1
<1>3. ASSUME NEW n \in Nat, n \in T PROVE n + 1 \in T
  <2> SUFFICES ASSUME a + (n + 1) <= LATEST PROVE t[a] <= t[a + (n + 1)]
    OBVIOUS
  <2>1. t[a] <= t[a + n] /\ a + n \in 1 .. LATEST
    BY <1>1, <1>3
  <2>2. a + (n + 1) \in 2 .. LATEST /\ a + (n + 1) - 1 = a + n
    BY <1>1
  <2>3. t[a + n] < t[a + (n + 1)]
    BY <1>1, <2>2
  <2> QED BY <1>1, <2>1, <2>2, <2>3
<1>4. Nat \subseteq T
  <2> HIDE DEF T
  <2> QED BY <1>2, <1>3, NatSetInduction
<1>5. b - a \in Nat /\ a + (b - a) = b
  BY <1>1
<1>6. b - a \in T
  BY <1>4, <1>5
<1> QED BY <1>1, <1>5, <1>6

\* Every transaction has a place among the hashes, which tells it from the others.
LEMMA Hashes ==
    /\ \A tx \in Sent : Hash(tx) \in 1 .. Len(Txs) /\ Txs[Hash(tx)] = tx
    /\ \A i \in 1 .. Len(Txs) : Txs[i] \in Sent /\ Hash(Txs[i]) = i
    /\ Len(Txs) \in Nat /\ DOMAIN Txs = 1 .. Len(Txs)
    /\ IsFiniteSet(Sent)
<1>1. Txs \in Seq(Sent) /\ IsInjective(Txs) /\ Sent = {Txs[i] : i \in DOMAIN Txs}
  BY SurveyInputs DEF Sent, ToSet
<1>2. Len(Txs) \in Nat /\ DOMAIN Txs = 1 .. Len(Txs) /\ Txs \in [1 .. Len(Txs) -> Sent]
  BY <1>1
<1>3. \A tx \in Sent : \E i \in DOMAIN Txs : Txs[i] = tx
  BY <1>1
<1>4. \A tx \in Sent : Hash(tx) \in 1 .. Len(Txs) /\ Txs[Hash(tx)] = tx
  BY <1>2, <1>3 DEF Hash
<1>5. \A i \in 1 .. Len(Txs) : Txs[i] \in Sent /\ Hash(Txs[i]) = i
  BY <1>1, <1>2, <1>4 DEF IsInjective
<1>6. Txs \in Surjection(1 .. Len(Txs), Sent)
  BY <1>1, <1>2 DEF Surjection
<1>7. IsFiniteSet(Sent)
  BY <1>2, <1>6, FS_Interval, FS_Surjection
<1> QED BY <1>2, <1>4, <1>5, <1>7

\* A swap tells its transaction, and a transaction its swap.
LEMMA Fields ==
    /\ \A tx \in Sent : /\ Swap(tx) \in AnySwap
                        /\ Swap(tx).tx = tx /\ Swap(tx).block = block[tx]
    /\ \A s \in AnySwap : s.tx \in Sent /\ s = Swap(s.tx)
    /\ \A s, t \in AnySwap : s.tx = t.tx => s = t
BY DEF AnySwap, Swap

\* These swaps are the ones of all up to this block, in order.
Upto(swaps, all, last) ==
    /\ swaps \in Seq(all)
    /\ \A s \in all : s.block <= last => \E i \in DOMAIN swaps : swaps[i] = s
    /\ \A i \in DOMAIN swaps : swaps[i].block <= last
    /\ \A i, j \in DOMAIN swaps : i < j => Earlier(swaps[i], swaps[j])

\* Swaps can be put in order: block by block, those of a block by hash.
LEMMA SwapsHaveAnOrder ==
    ASSUME SurveyTypeOK, NEW all, all \subseteq AnySwap
    PROVE  \E swaps : Upto(swaps, all, LATEST)
<1> DEFINE T == {b \in Nat : \E swaps : Upto(swaps, all, b)}
<1>1. LATEST \in Nat /\ \A s \in all : s.block \in 0 .. LATEST
  <2>1. LATEST \in Nat /\ \A tx \in Sent : block[tx] \in 0 .. LATEST
    BY SurveyInputs DEF SurveyTypeOK
  <2> QED BY <2>1, Fields
\* The swaps of a block, by hash.
<1>2. ASSUME NEW b \in Nat
      PROVE  \E swaps : /\ swaps \in Seq(all)
                        /\ \A s \in all : s.block = b => \E i \in DOMAIN swaps : swaps[i] = s
                        /\ \A i \in DOMAIN swaps : swaps[i].block = b
                        /\ \A i, j \in DOMAIN swaps :
                              i < j => Hash(swaps[i].tx) < Hash(swaps[j].tx)
  <2> DEFINE places == {i \in DOMAIN Txs : Swap(Txs[i]) \in all /\ block[Txs[i]] = b}
             txs == ElementsAt(Txs, places)
             swaps == [i \in DOMAIN txs |-> Swap(txs[i])]
  <2>1. Txs \in Seq(Sent) /\ DOMAIN Txs \cap places = places
    BY SurveyInputs
  <2>2. PICK p : InPlaces(txs, Txs, p, places)
    <3>1. \E p : InPlaces(txs, Txs, p, DOMAIN Txs \cap places)
      <4> HIDE DEF places
      <4> QED BY <2>1, Comprehension
    <3> QED BY <2>1, <3>1
  <2>3. /\ p \in Seq(places) /\ txs = [i \in 1 .. Len(p) |-> Txs[p[i]]]
        /\ \A k \in places : \E i \in DOMAIN p : p[i] = k
        /\ \A i, j \in DOMAIN p : i < j => p[i] < p[j]
    BY <2>2 DEF InPlaces
  <2>4. /\ Len(p) \in Nat /\ DOMAIN p = 1 .. Len(p)
        /\ \A i \in 1 .. Len(p) : p[i] \in places
    <3> HIDE DEF places
    <3> QED BY <2>3
  <2>5. /\ DOMAIN swaps = 1 .. Len(p)
        /\ \A i \in 1 .. Len(p) : swaps[i] = Swap(Txs[p[i]])
    <3> HIDE DEF places, txs
    <3> QED BY <2>3
  <2> HIDE DEF txs
  <2>6. \A i \in 1 .. Len(p) : /\ swaps[i] \in all /\ swaps[i].block = b
                                  /\ Hash(swaps[i].tx) = p[i]
    BY <2>4, <2>5, Hashes, Fields
  <2>7. swaps \in Seq(all)
    <3> HIDE DEF places
    <3> QED BY <2>4, <2>5, <2>6
  <2>8. ASSUME NEW s \in all, s.block = b PROVE \E i \in DOMAIN swaps : swaps[i] = s
    <3>1. s.tx \in Sent /\ s = Swap(s.tx) /\ block[s.tx] = b
      BY <2>8, Fields
    <3>2. Hash(s.tx) \in places /\ Txs[Hash(s.tx)] = s.tx
      BY <2>8, <3>1, Hashes
    <3>3. PICK i \in DOMAIN p : p[i] = Hash(s.tx)
      BY <2>3, <3>2
    <3> HIDE DEF swaps, places
    <3> QED BY <2>4, <2>5, <3>1, <3>2, <3>3
  <2> HIDE DEF swaps, places
  <2>9. \A i, j \in DOMAIN swaps : i < j => Hash(swaps[i].tx) < Hash(swaps[j].tx)
    BY <2>3, <2>4, <2>5, <2>6
  <2>10. \A i \in DOMAIN swaps : swaps[i].block = b
    BY <2>5, <2>6
  <2> QED BY <2>7, <2>8, <2>9, <2>10
\* Put behind those of earlier blocks they are in order.
<1>3. ASSUME NEW front \in Seq(all), NEW b \in Nat, NEW a \in Nat,
             NEW these \in Seq(all),
             \A s \in all : s.block < b => \E i \in DOMAIN front : front[i] = s,
             \A i \in DOMAIN front : front[i].block < b,
             \A i, j \in DOMAIN front : i < j => Earlier(front[i], front[j]),
             \A s \in all : s.block = b => \E i \in DOMAIN these : these[i] = s,
             \A i \in DOMAIN these : these[i].block = b,
             \A i, j \in DOMAIN these : i < j => Hash(these[i].tx) < Hash(these[j].tx)
      PROVE  Upto(front \o these, all, b)
  <2> DEFINE swaps == front \o these
             N == Len(front)
             M == Len(these)
  <2>1. /\ N \in Nat /\ M \in Nat /\ DOMAIN front = 1 .. N /\ DOMAIN these = 1 .. M
        /\ swaps \in Seq(all) /\ DOMAIN swaps = 1 .. N + M
        /\ \A i \in 1 .. N + M : swaps[i] = IF i <= N THEN front[i] ELSE these[i - N]
    BY ConcatProperties
  <2>2. /\ \A i \in 1 .. N : swaps[i] = front[i] /\ i \in DOMAIN swaps
        /\ \A i \in 1 .. M : swaps[N + i] = these[i] /\ N + i \in DOMAIN swaps
    <3> HIDE DEF swaps, N, M
    <3> QED BY <2>1
  <2>3. ASSUME NEW s \in all, s.block <= b PROVE \E i \in DOMAIN swaps : swaps[i] = s
    <3>1. s.block < b \/ s.block = b
      BY <1>1, <2>3
    <3>2. CASE s.block < b
      BY <1>3, <2>1, <2>2, <3>2
    <3>3. CASE s.block = b
      <4>1. PICK i \in DOMAIN these : these[i] = s
        BY <1>3, <3>3
      <4> HIDE DEF swaps, N, M
      <4> QED BY <2>1, <2>2, <4>1
    <3> QED BY <3>1, <3>2, <3>3
  <2>4. ASSUME NEW i \in DOMAIN swaps
        PROVE  \/ i \in 1 .. N /\ swaps[i] = front[i] /\ swaps[i].block < b
               \/ /\ i - N \in 1 .. M /\ swaps[i] = these[i - N] /\ swaps[i].block = b
                  /\ i > N
    <3>1. CASE i <= N
      <4>1. i \in 1 .. N /\ swaps[i] = front[i]
        <5> HIDE DEF swaps, N, M
        <5> QED BY <2>1, <2>4, <3>1
      <4> QED BY <1>3, <2>1, <4>1
    <3>2. CASE ~ i <= N
      <4>1. i - N \in 1 .. M /\ swaps[i] = these[i - N] /\ i > N
        <5> HIDE DEF swaps, N, M
        <5> QED BY <2>1, <2>4, <3>2
      <4> QED BY <1>3, <2>1, <4>1
    <3> QED BY <3>1, <3>2
  <2>5. \A i \in DOMAIN swaps : swaps[i].block <= b
    <3>1. \A i \in DOMAIN swaps : swaps[i] \in all
      <4> HIDE DEF swaps, N, M
      <4> QED BY <2>1
    <3> QED BY <1>1, <2>4, <3>1
  <2>6. ASSUME NEW i \in DOMAIN swaps, NEW j \in DOMAIN swaps, i < j
        PROVE  Earlier(swaps[i], swaps[j])
    <3>1. i \in Nat /\ j \in Nat
      BY <2>1
    <3>2. CASE i \in 1 .. N /\ j \in 1 .. N
      <4>1. swaps[i] = front[i] /\ swaps[j] = front[j]
        BY <2>2, <3>2
      <4> QED BY <1>3, <2>1, <2>6, <3>2, <4>1
    <3>3. CASE i \in 1 .. N /\ j > N
      <4>1. swaps[i].block < b /\ swaps[j].block = b
        BY <2>1, <2>4, <3>3
      <4> QED BY <4>1 DEF Earlier
    <3>4. CASE i > N /\ j > N
      <4>1. /\ i - N \in DOMAIN these /\ j - N \in DOMAIN these /\ i - N < j - N
            /\ swaps[i] = these[i - N] /\ swaps[j] = these[j - N]
            /\ swaps[i].block = swaps[j].block
        <5>1. /\ i - N \in 1 .. M /\ swaps[i] = these[i - N] /\ swaps[i].block = b
              /\ j - N \in 1 .. M /\ swaps[j] = these[j - N] /\ swaps[j].block = b
          <6> HIDE DEF swaps, N, M
          <6> QED BY <2>1, <2>4, <3>1, <3>4
        <5>2. i - N < j - N
          BY <2>1, <2>6, <3>1
        <5> QED BY <2>1, <5>1, <5>2
      <4>2. Hash(swaps[i].tx) < Hash(swaps[j].tx)
        BY <1>3, <4>1
      <4> QED BY <4>1, <4>2 DEF Earlier
    <3> QED BY <2>1, <2>4, <2>6, <3>1, <3>2, <3>3, <3>4
  <2>7. Upto(swaps, all, b)
    <3> HIDE DEF swaps, N, M
    <3> QED BY <2>1, <2>3, <2>5, <2>6 DEF Upto
  <2> QED BY <2>7
<1>4. ASSUME NEW front \in Seq(all), NEW b \in Nat,
             \A s \in all : s.block < b => \E i \in DOMAIN front : front[i] = s,
             \A i \in DOMAIN front : front[i].block < b,
             \A i, j \in DOMAIN front : i < j => Earlier(front[i], front[j])
      PROVE  b \in T
  <2>1. PICK these \in Seq(all) :
           /\ \A s \in all : s.block = b => \E i \in DOMAIN these : these[i] = s
           /\ \A i \in DOMAIN these : these[i].block = b
           /\ \A i, j \in DOMAIN these : i < j => Hash(these[i].tx) < Hash(these[j].tx)
    BY <1>2
  <2>2. Upto(front \o these, all, b)
    BY <1>3, <1>4, <2>1
  <2> QED BY <2>2
<1>5. 0 \in T
  <2>1. /\ <<>> \in Seq(all) /\ DOMAIN <<>> = {}
        /\ \A s \in all : ~ s.block < 0
    BY <1>1
  <2> HIDE DEF T
  <2> QED BY <1>4, <2>1
<1>6. ASSUME NEW b \in Nat, b \in T PROVE b + 1 \in T
  <2>1. PICK front : Upto(front, all, b)
    BY <1>6
  <2>2. /\ front \in Seq(all)
        /\ \A s \in all : s.block <= b => \E i \in DOMAIN front : front[i] = s
        /\ \A i \in DOMAIN front : front[i].block <= b
        /\ \A i, j \in DOMAIN front : i < j => Earlier(front[i], front[j])
    BY <2>1 DEF Upto
  <2>3. \A i \in DOMAIN front : front[i] \in all
    BY <2>2
  <2>4. \A s \in all : s.block < b + 1 <=> s.block <= b
    BY <1>1
  <2> HIDE DEF T
  <2> QED BY <1>4, <2>2, <2>3, <2>4
<1>7. Nat \subseteq T
  <2> HIDE DEF T
  <2> QED BY <1>5, <1>6, NatSetInduction
<1> QED BY <1>1, <1>7

\* There are n numbers from 1 to n.
LEMMA CountingUp == ASSUME NEW n \in Nat PROVE IsFiniteSet(1 .. n) /\ Cardinality(1 .. n) = n
<1>1. 1 \in Int /\ n \in Int
  OBVIOUS
<1>2. IsFiniteSet(1 .. n) /\ Cardinality(1 .. n) = IF 1 > n THEN 0 ELSE n - 1 + 1
  BY <1>1, FS_Interval
<1> QED BY <1>2

\* Two lists of the same swaps, each of them once, are equally long.
LEMMA NotLonger ==
    ASSUME NEW s \in Seq(AnySwap), NEW t \in Seq(AnySwap),
           \A i, j \in DOMAIN s : s[i] = s[j] => i = j,
           \A i \in DOMAIN s : \E j \in DOMAIN t : t[j] = s[i]
    PROVE  Len(s) <= Len(t)
<1> DEFINE f == [i \in 1 .. Len(s) |-> CHOOSE j \in 1 .. Len(t) : t[j] = s[i]]
<1>1. /\ Len(s) \in Nat /\ DOMAIN s = 1 .. Len(s)
      /\ Len(t) \in Nat /\ DOMAIN t = 1 .. Len(t)
  OBVIOUS
<1>2. \A i \in 1 .. Len(s) : f[i] \in 1 .. Len(t) /\ t[f[i]] = s[i]
  BY <1>1
<1>3. f \in [1 .. Len(s) -> 1 .. Len(t)]
  BY <1>2
<1>4. \A i, j \in 1 .. Len(s) : f[i] = f[j] => i = j
  <2> HIDE DEF f
  <2> QED BY <1>1, <1>2
<1>5. f \in Injection(1 .. Len(s), 1 .. Len(t))
  <2> HIDE DEF f
  <2> QED BY <1>3, <1>4 DEF Injection, IsInjective
<1>6. Cardinality(1 .. Len(s)) <= Cardinality(1 .. Len(t))
  <2> HIDE DEF f
  <2> QED BY <1>1, <1>5, CountingUp, FS_Injection
<1>7. Cardinality(1 .. Len(s)) = Len(s) /\ Cardinality(1 .. Len(t)) = Len(t)
  BY <1>1, CountingUp
<1> QED BY <1>6, <1>7

\* What sorted returns is what was found, each swap once, by block.
LEMMA OrderingTheSwaps ==
    ASSUME SurveyTypeOK, NEW txs, OnceEach(found, txs)
    PROVE  /\ OnceEach(InOrder, txs) /\ ByBlock(InOrder)
           /\ Len(InOrder) = Len(found)
<1> DEFINE all == ToSet(found)
           Fine(s) == /\ ToSet(s) = all
                      /\ \A i, j \in DOMAIN s : i < j => Earlier(s[i], s[j])
<1>1. /\ found \in Seq(AnySwap) /\ Len(found) \in Nat /\ DOMAIN found = 1 .. Len(found)
      /\ \A i \in DOMAIN found : found[i].tx \in txs
      /\ \A tx \in txs : \E i \in DOMAIN found : found[i] = Swap(tx)
      /\ \A i, j \in DOMAIN found : found[i].tx = found[j].tx => i = j
  BY DEF OnceEach
<1>2. all \subseteq AnySwap /\ all = {found[i] : i \in DOMAIN found}
  BY <1>1 DEF ToSet
<1>3. /\ LATEST \in Nat
      /\ \A s \in AnySwap : s.block \in 0 .. LATEST /\ Hash(s.tx) \in Nat
  <2>1. LATEST \in Nat /\ \A tx \in Sent : block[tx] \in 0 .. LATEST /\ Hash(tx) \in Nat
    BY SurveyInputs, Hashes DEF SurveyTypeOK
  <2> QED BY <2>1, Fields
\* In an order a swap is not before itself.
<1>4. ASSUME NEW s \in Seq(all), \A i, j \in DOMAIN s : i < j => Earlier(s[i], s[j])
      PROVE  /\ \A i, j \in DOMAIN s : s[i] = s[j] => i = j
             /\ ByBlock(s)
  <2>1. DOMAIN s \subseteq Nat /\ \A i \in DOMAIN s : s[i] \in AnySwap
    BY <1>2
  <2>2. ASSUME NEW i \in DOMAIN s, NEW j \in DOMAIN s, s[i] = s[j] PROVE ~ i < j
    <3>1. s[i].block \in Nat /\ Hash(s[i].tx) \in Nat
      BY <1>3, <2>1
    <3>2. ~ Earlier(s[i], s[j])
      BY <2>2, <3>1 DEF Earlier
    <3> QED BY <1>4, <3>2
  <2>3. ASSUME NEW i \in DOMAIN s, NEW j \in DOMAIN s, i < j PROVE s[i].block <= s[j].block
    <3>1. s[i].block \in Nat /\ s[j].block \in Nat /\ Earlier(s[i], s[j])
      BY <1>3, <1>4, <2>1, <2>3
    <3> QED BY <3>1 DEF Earlier
  <2>4. ASSUME NEW i \in DOMAIN s, NEW j \in DOMAIN s, s[i] = s[j] PROVE i = j
    <3>1. ~ i < j /\ ~ j < i
      BY <2>2, <2>4
    <3> QED BY <2>1, <3>1
  <2> QED BY <2>3, <2>4 DEF ByBlock
<1>5. \E s \in [DOMAIN found -> all] : Fine(s)
  <2>1. PICK s : Upto(s, all, LATEST)
    BY <1>2, SwapsHaveAnOrder
  <2>2. /\ s \in Seq(all) /\ \A i, j \in DOMAIN s : i < j => Earlier(s[i], s[j])
        /\ \A x \in all : \E i \in DOMAIN s : s[i] = x
    <3>1. \A x \in all : x.block <= LATEST
      BY <1>2, <1>3
    <3> HIDE DEF all
    <3> QED BY <2>1, <3>1 DEF Upto
  <2>3. /\ s \in Seq(AnySwap) /\ Len(s) \in Nat /\ s \in [1 .. Len(s) -> all]
        /\ \A i \in DOMAIN s : s[i] \in all
    BY <1>2, <2>2
  <2>4. ToSet(s) = all
    BY <2>2, <2>3 DEF ToSet
  <2>5. \A i, j \in DOMAIN s : s[i] = s[j] => i = j
    <3> HIDE DEF all
    <3> QED BY <1>4, <2>2
  <2>6. Len(s) <= Len(found)
    <3>1. \A i \in DOMAIN s : \E j \in DOMAIN found : found[j] = s[i]
      BY <1>2, <2>3
    <3> HIDE DEF all
    <3> QED BY <1>1, <2>3, <2>5, <3>1, NotLonger
  <2>7. Len(found) <= Len(s)
    <3>1. \A i \in DOMAIN found : \E j \in DOMAIN s : s[j] = found[i]
      BY <1>2, <2>2
    <3> HIDE DEF all
    <3> QED BY <1>1, <2>3, <3>1, NotLonger
  <2>8. DOMAIN found = 1 .. Len(s)
    <3> HIDE DEF all
    <3>1. Len(s) \in Nat /\ Len(found) \in Nat
      BY <1>1, <2>3
    <3>2. Len(s) = Len(found)
      BY <2>6, <2>7, <3>1
    <3> QED BY <1>1, <3>2
  <2> HIDE DEF all
  <2> QED BY <2>2, <2>3, <2>4, <2>8
<1>6. InOrder \in [DOMAIN found -> all] /\ Fine(InOrder)
  <2>1. InOrder = CHOOSE s \in [DOMAIN found -> all] : Fine(s)
    BY DEF InOrder
  <2> HIDE DEF Fine, all
  <2> QED BY <1>5, <2>1
<1> DEFINE s == InOrder
<1> HIDE DEF s
<1>7. s \in Seq(all) /\ Len(s) = Len(found) /\ DOMAIN s = DOMAIN found
  <2> HIDE DEF all
  <2>1. s \in [1 .. Len(found) -> all]
    BY <1>1, <1>6 DEF s
  <2> QED BY <1>1, <2>1
<1>8. /\ \A i, j \in DOMAIN s : s[i] = s[j] => i = j
      /\ ByBlock(s)
  <2>1. \A i, j \in DOMAIN s : i < j => Earlier(s[i], s[j])
    BY <1>6 DEF s
  <2> HIDE DEF all
  <2> QED BY <1>4, <1>7, <2>1
<1>9. /\ \A i \in DOMAIN s : s[i] \in all
      /\ \A x \in all : \E i \in DOMAIN s : s[i] = x
  <2>1. all = {s[i] : i \in DOMAIN s}
    BY <1>6 DEF s, ToSet
  <2> HIDE DEF all
  <2> QED BY <1>7, <2>1
<1>10. OnceEach(s, txs)
  <2>1. s \in Seq(AnySwap) /\ \A i \in DOMAIN s : s[i] \in AnySwap
    BY <1>2, <1>7
  <2>2. \A i \in DOMAIN s : s[i].tx \in txs
    BY <1>1, <1>2, <1>9
  <2>3. ASSUME NEW tx \in txs PROVE \E i \in DOMAIN s : s[i] = Swap(tx)
    <3>1. Swap(tx) \in all
      BY <1>1, <1>2
    <3> QED BY <1>9, <3>1
  <2>4. ASSUME NEW i \in DOMAIN s, NEW j \in DOMAIN s, s[i].tx = s[j].tx PROVE i = j
    <3>1. s[i] = s[j]
      BY <2>1, <2>4, Fields
    <3> QED BY <1>8, <3>1
  <2> QED BY <2>1, <2>2, <2>3, <2>4 DEF OnceEach
<1> QED BY <1>7, <1>8, <1>10 DEF s

(***************************************************************************)
(* Steps                                                                   *)
(***************************************************************************)
\* The last block of the window is not before the target, nor is any later one.
LEMMA TargetIsReached ==
    ASSUME SurveyTypeOK
    PROVE  /\ LATEST \in Nat \ {0} /\ to \in Nat /\ lo \in Nat /\ hi \in Nat
           /\ Target \in Nat /\ \A b \in 1 .. LATEST : clock[b] \in Nat
           /\ \A b \in to .. LATEST : ~ clock[b] < Target
           /\ \A b, c \in 1 .. LATEST : b <= c => clock[b] <= clock[c]
<1>1. /\ LATEST \in Nat \ {0} /\ days \in Nat /\ to \in 1 .. LATEST /\ clock \in Clocks
      /\ lo \in 1 .. LATEST /\ hi \in 1 .. LATEST
  BY SurveyInputs DEF SurveyTypeOK
<1>2. \A b, c \in 1 .. LATEST : b <= c => clock[b] \in Nat /\ clock[c] \in Nat /\ clock[b] <= clock[c]
  BY <1>1, ClocksRun
<1>3. \A b \in 1 .. LATEST : clock[b] \in Nat
  BY <1>1, <1>2
<1>4. Target \in Nat /\ Target <= clock[to]
  BY <1>1, <1>3 DEF Target
<1>5. ASSUME NEW b \in to .. LATEST PROVE ~ clock[b] < Target
  <2>1. b \in 1 .. LATEST /\ to \in 1 .. LATEST /\ to <= b
    BY <1>1
  <2> QED BY <1>2, <1>4, <2>1
<1> QED BY <1>1, <1>2, <1>3, <1>4, <1>5

\* No block before the first is in the window, and the newest is not before the target.
LEMMA SurveyStarts == SurveyInit => SurveyInv
<1> SUFFICES ASSUME SurveyInit PROVE SurveyInv
  OBVIOUS
<1>1. SurveyTypeOK
  BY SurveyInputs DEF SurveyInit, SurveyTypeOK
<1>2. Narrowed
  BY <1>1, TargetIsReached DEF SurveyInit, Narrowed, SurveyTypeOK
<1>3. Progress
  BY DEF SurveyInit, Progress
<1> QED BY <1>1, <1>2, <1>3 DEF SurveyInv

\* Half of the blocks left are told apart by their middle, because clocks only increase.
LEMMA Halves == ASSUME SurveyInv, Halve PROVE SurveyInv'
<1> DEFINE mid == (lo + hi) \div 2
<1>1. /\ SurveyTypeOK /\ Narrowed /\ Progress
      /\ phase = "searching" /\ lo < hi /\ phase' = phase
      /\ UNCHANGED <<clock, block, to, days, start, found, seen, swapRows, quoteRows>>
      /\ \/ Before(mid) /\ lo' = mid + 1 /\ hi' = hi
         \/ ~ Before(mid) /\ hi' = mid /\ lo' = lo
  BY DEF SurveyInv, Halve, chainVars, rowVars
<1>2. /\ mid \in 1 .. LATEST /\ lo <= mid /\ mid < hi /\ hi \in 1 .. LATEST
      /\ lo \in 1 .. LATEST
  BY <1>1, TargetIsReached DEF SurveyTypeOK
<1>3. Before(mid) <=> clock[mid] < Target
  BY DEF Before
<1> HIDE DEF mid
<1>4. SurveyTypeOK'
  BY <1>1, <1>2, TargetIsReached DEF SurveyTypeOK
<1>5. Target' = Target
  BY <1>1 DEF Target
<1>6. Narrowed'
  <2>1. \A b \in 1 .. LATEST : /\ b <= mid => clock[b] <= clock[mid]
                               /\ b >= mid => clock[mid] <= clock[b]
    BY <1>1, <1>2, TargetIsReached
  <2>2. CASE Before(mid)
    <3>1. lo' = mid + 1 /\ hi' = hi
      BY <1>1, <2>2
    <3>2. ASSUME NEW b \in 1 .. LATEST, b < mid + 1 PROVE clock[b] < Target
      BY <1>1, <1>2, <1>3, <2>1, <2>2, <3>2, TargetIsReached
    <3> QED BY <1>1, <1>2, <1>5, <3>1, <3>2, TargetIsReached DEF Narrowed
  <2>3. CASE ~ Before(mid)
    <3>1. lo' = lo /\ hi' = mid
      BY <1>1, <2>3
    <3>2. ASSUME NEW b \in 1 .. LATEST, b >= mid PROVE ~ clock[b] < Target
      BY <1>1, <1>2, <1>3, <2>1, <2>3, <3>2, TargetIsReached
    <3> QED BY <1>1, <1>2, <1>5, <3>1, <3>2, TargetIsReached DEF Narrowed
  <2> QED BY <2>2, <2>3
<1>7. Progress'
  BY <1>1 DEF Progress
<1> QED BY <1>4, <1>6, <1>7 DEF SurveyInv

\* What the search has found out stays true after it.
LEMMA StaysNarrowed ==
    ASSUME SurveyTypeOK, Narrowed,
           UNCHANGED <<clock, block, to, days, lo, hi>>,
           phase' \in {"scanning", "analyzing", "done", "failed"},
           phase' \in {"scanning", "analyzing"} => lo = hi
    PROVE  SurveyTypeOK' /\ Narrowed'
<1>1. Target' = Target
  BY DEF Target
<1>2. SurveyTypeOK'
  BY DEF SurveyTypeOK
<1>3. Narrowed'
  BY <1>1 DEF Narrowed
<1> QED BY <1>2, <1>3

\* The search ends at a block of the window, of which nothing is found yet.
LEMMA Finds == ASSUME SurveyInv, Found PROVE SurveyInv'
<1>1. /\ SurveyTypeOK /\ Narrowed /\ Progress
      /\ phase = "searching" /\ lo = hi /\ phase' = "scanning" /\ start' = lo
      /\ UNCHANGED <<clock, block, to, days, lo, hi, found, seen, swapRows, quoteRows>>
  BY DEF SurveyInv, Found, chainVars, searchVars, rowVars
<1>2. SurveyTypeOK' /\ Narrowed'
  BY <1>1, StaysNarrowed
\* The last block is not too old, so that the search does not end behind it.
<1>3. lo <= to
  BY <1>1, TargetIsReached DEF Narrowed, SurveyTypeOK
<1>4. start' \in lo .. to + 1
  BY <1>1, <1>3, TargetIsReached
<1>5. OnceEach(<<>>, Within(lo, lo - 1))
  BY <1>1, TargetIsReached DEF OnceEach, Within, SurveyTypeOK
<1>6. OnceEach(found, Within(lo, start - 1))'
  <2>1. found' = <<>> /\ found = <<>>
    BY <1>1 DEF Progress
  <2> QED BY <1>1, <1>5, <2>1 DEF OnceEach, Within, AnySwap, Swap
<1>7. Progress'
  BY <1>1, <1>4, <1>6 DEF Progress
<1> QED BY <1>2, <1>7 DEF SurveyInv

\* A survey that failed promises nothing.
LEMMA Fails == ASSUME SurveyInv, Aborts PROVE SurveyInv'
<1>1. /\ SurveyTypeOK /\ Narrowed /\ phase' = "failed"
      /\ UNCHANGED <<clock, block, to, days, lo, hi>>
  BY DEF SurveyInv, Aborts, chainVars, searchVars
<1>2. SurveyTypeOK' /\ Narrowed'
  BY <1>1, StaysNarrowed
<1>3. Progress'
  BY <1>1 DEF Progress
<1> QED BY <1>2, <1>3 DEF SurveyInv

\* A window adds the swaps of the transactions not known yet.
LEMMA WindowAdds ==
    ASSUME SurveyTypeOK, NEW txs \in SUBSET Sent, OnceEach(found, txs),
           NEW more \in SUBSET Sent
    PROVE  LET known == {found[i].tx : i \in DOMAIN found}
               new == ElementsAt(Txs, {i \in DOMAIN Txs : Txs[i] \in more \ known})
           IN  OnceEach(found \o Swaps(new), txs \cup more)
<1> DEFINE known == {found[i].tx : i \in DOMAIN found}
           places == {i \in DOMAIN Txs : Txs[i] \in more \ known}
           new == ElementsAt(Txs, places)
           swaps == Swaps(new)
           all == found \o swaps
           N == Len(found)
<1>1. /\ found \in Seq(AnySwap) /\ N \in Nat /\ DOMAIN found = 1 .. N
      /\ \A i \in DOMAIN found : found[i].tx \in txs
      /\ \A tx \in txs : \E i \in DOMAIN found : found[i] = Swap(tx)
      /\ \A i, j \in DOMAIN found : found[i].tx = found[j].tx => i = j
  BY DEF OnceEach
<1>2. PICK p : InPlaces(new, Txs, p, places)
  <2>1. Txs \in Seq(Sent) /\ DOMAIN Txs \cap places = places
    BY SurveyInputs
  <2>2. \E p : InPlaces(new, Txs, p, DOMAIN Txs \cap places)
    <3> HIDE DEF places
    <3> QED BY <2>1, Comprehension
  <2> QED BY <2>1, <2>2
<1>3. /\ p \in Seq(places) /\ new = [i \in 1 .. Len(p) |-> Txs[p[i]]]
      /\ \A k \in places : \E i \in DOMAIN p : p[i] = k
      /\ \A i, j \in DOMAIN p : i < j => p[i] < p[j]
  BY <1>2 DEF InPlaces
<1> DEFINE M == Len(p)
<1>4. /\ M \in Nat /\ DOMAIN p = 1 .. M /\ \A i \in 1 .. M : p[i] \in places
  <2> HIDE DEF places
  <2> QED BY <1>3
<1> HIDE DEF new
<1>5. /\ DOMAIN swaps = 1 .. M /\ Len(p) = M
      /\ swaps = [i \in 1 .. M |-> Swap(Txs[p[i]])]
  <2> HIDE DEF places
  <2> QED BY <1>3, <1>4 DEF Swaps
<1>6. \A i \in 1 .. M : /\ swaps[i] \in AnySwap /\ swaps[i] = Swap(Txs[p[i]])
                        /\ swaps[i].tx = Txs[p[i]]
                        /\ Txs[p[i]] \in more /\ Txs[p[i]] \notin known
  BY <1>4, <1>5, Hashes, Fields
<1>7. \A i, j \in 1 .. M : swaps[i].tx = swaps[j].tx => i = j
  <2> SUFFICES ASSUME NEW i \in 1 .. M, NEW j \in 1 .. M, swaps[i].tx = swaps[j].tx
               PROVE  i = j
    OBVIOUS
  <2>1. p[i] \in 1 .. Len(Txs) /\ p[j] \in 1 .. Len(Txs)
    BY <1>4, Hashes
  <2>2. p[i] = p[j]
    BY <1>6, <2>1, Hashes
  <2>3. /\ i \in DOMAIN p /\ j \in DOMAIN p
        /\ p[i] \in Nat /\ p[j] \in Nat
    BY <1>4, <2>1
  <2>4. ~ i < j /\ ~ j < i
    <3> HIDE DEF places, M
    <3> QED BY <1>3, <2>2, <2>3
  <2> QED BY <1>4, <2>4
<1>8. swaps \in Seq(AnySwap) /\ Len(swaps) = M
  <2> HIDE DEF places, swaps
  <2> QED BY <1>4, <1>5, <1>6
<1> HIDE DEF swaps
<1>9. /\ all \in Seq(AnySwap) /\ DOMAIN all = 1 .. N + M
      /\ \A i \in 1 .. N + M : all[i] = IF i <= N THEN found[i] ELSE swaps[i - N]
  <2>1. /\ all \in Seq(AnySwap) /\ Len(all) = N + M
        /\ \A i \in 1 .. N + M : all[i] = IF i <= N THEN found[i] ELSE swaps[i - N]
    <3> HIDE DEF M
    <3> QED BY <1>1, <1>8, ConcatProperties
  <2> HIDE DEF all
  <2> QED BY <2>1
<1> HIDE DEF all, places, known
<1>10. /\ \A i \in 1 .. N : all[i] = found[i] /\ i \in DOMAIN all
       /\ \A i \in 1 .. M : all[N + i] = swaps[i] /\ N + i \in DOMAIN all
  <2>1. \A i \in 1 .. M : N + i \in 1 .. N + M /\ ~ N + i <= N /\ (N + i) - N = i
    BY <1>1, <1>4
  <2>2. \A i \in 1 .. N : i \in 1 .. N + M /\ i <= N
    BY <1>1, <1>4
  <2> HIDE DEF N, M
  <2> QED BY <1>9, <2>1, <2>2
<1>11. ASSUME NEW i \in DOMAIN all
       PROVE  \/ i \in 1 .. N /\ all[i] = found[i] /\ all[i].tx \in known
              \/ i - N \in 1 .. M /\ all[i] = swaps[i - N] /\ all[i].tx \notin known /\ i > N
  <2>1. CASE i <= N
    <3>1. i \in 1 .. N /\ all[i] = found[i]
      BY <1>1, <1>4, <1>9, <2>1
    <3> QED BY <1>1, <3>1 DEF known
  <2>2. CASE ~ i <= N
    <3>1. i - N \in 1 .. M /\ all[i] = swaps[i - N] /\ i > N
      BY <1>1, <1>4, <1>9, <2>2
    <3> QED BY <1>6, <3>1
  <2> QED BY <2>1, <2>2
<1>12. \A i \in DOMAIN all : all[i].tx \in txs \cup more
  BY <1>1, <1>6, <1>11
<1>13. ASSUME NEW tx \in txs \cup more PROVE \E i \in DOMAIN all : all[i] = Swap(tx)
  <2>1. CASE tx \in known
    <3>1. PICK i \in DOMAIN found : found[i].tx = tx
      BY <2>1 DEF known
    <3>2. found[i] = Swap(tx)
      BY <1>1, <3>1, Fields
    <3> QED BY <1>1, <1>10, <3>2
  <2>2. CASE tx \notin known
    <3>1. tx \in more
      <4>1. ASSUME tx \in txs PROVE FALSE
        <5>1. PICK i \in DOMAIN found : found[i] = Swap(tx)
          BY <1>1, <4>1
        <5>2. found[i].tx = tx
          BY <4>1, <5>1, Fields
        <5> QED BY <2>2, <5>2 DEF known
      <4> QED BY <1>13, <4>1
    <3>2. Hash(tx) \in places /\ Txs[Hash(tx)] = tx
      BY <2>2, <3>1, Hashes DEF places
    <3>3. PICK i \in DOMAIN p : p[i] = Hash(tx)
      BY <1>3, <3>2
    <3>4. i \in 1 .. M /\ swaps[i] = Swap(tx)
      BY <1>4, <1>6, <3>2, <3>3
    <3> QED BY <1>10, <3>4
  <2> QED BY <2>1, <2>2
<1>14. ASSUME NEW i \in DOMAIN all, NEW j \in DOMAIN all, all[i].tx = all[j].tx PROVE i = j
  <2>1. i \in Nat /\ j \in Nat
    BY <1>9
  <2>2. CASE i \in 1 .. N /\ all[i] = found[i] /\ all[i].tx \in known
    <3>1. j \in 1 .. N /\ all[j] = found[j]
      BY <1>11, <1>14, <2>2
    <3> QED BY <1>1, <1>14, <2>2, <3>1
  <2>3. CASE i - N \in 1 .. M /\ all[i] = swaps[i - N] /\ all[i].tx \notin known /\ i > N
    <3>1. j - N \in 1 .. M /\ all[j] = swaps[j - N]
      BY <1>11, <1>14, <2>3
    <3>2. i - N = j - N
      BY <1>7, <1>14, <2>3, <3>1
    <3> QED BY <1>1, <2>1, <3>2
  <2> QED BY <1>11, <2>2, <2>3
<1>15. OnceEach(all, txs \cup more)
  BY <1>9, <1>12, <1>13, <1>14 DEF OnceEach
<1> QED BY <1>15 DEF all, swaps, new, places, known

\* A window is behind those before it, and ends at the last block at the latest.
LEMMA Scans == ASSUME SurveyInv, ScanWindow PROVE SurveyInv'
<1> DEFINE end == IF start + WINDOW - 1 < to THEN start + WINDOW - 1 ELSE to
           known == {found[i].tx : i \in DOMAIN found}
           new == ElementsAt(Txs, {i \in DOMAIN Txs : Txs[i] \in Within(start, end) \ known})
<1>1. /\ SurveyTypeOK /\ Narrowed /\ Progress
      /\ phase = "scanning" /\ phase' = "scanning" /\ start <= to
      /\ found' = found \o Swaps(new) /\ start' = end + 1
      /\ UNCHANGED <<clock, block, to, days, lo, hi, seen, swapRows, quoteRows>>
  BY DEF SurveyInv, ScanWindow, chainVars, searchVars, rowVars
<1>2. SurveyTypeOK' /\ Narrowed'
  BY <1>1, StaysNarrowed DEF Narrowed
<1>3. /\ start \in lo .. to + 1 /\ start \in Nat /\ lo \in Nat /\ to \in Nat
      /\ OnceEach(found, Within(lo, start - 1)) /\ WINDOW \in Nat \ {0}
  BY <1>1, SurveyInputs, TargetIsReached DEF Progress
<1>4. end \in start .. to /\ start' \in lo .. to + 1 /\ start' - 1 = end
  BY <1>1, <1>3
<1> HIDE DEF end
<1>5. Within(lo, start - 1) \cup Within(start, end) = Within(lo, end)
  BY <1>1, <1>3, <1>4, SurveyInputs DEF Within, SurveyTypeOK
<1>6. Within(lo, start - 1) \in SUBSET Sent /\ Within(start, end) \in SUBSET Sent
  BY DEF Within
<1>7. OnceEach(found \o Swaps(new), Within(lo, start - 1) \cup Within(start, end))
  BY <1>1, <1>3, <1>6, WindowAdds
<1>8. OnceEach(found', Within(lo, end))
  BY <1>1, <1>5, <1>7
<1>9. OnceEach(found, Within(lo, start - 1))'
  BY <1>1, <1>4, <1>8 DEF OnceEach, Within, AnySwap, Swap
<1>10. Progress'
  BY <1>1, <1>4, <1>9 DEF Progress
<1> QED BY <1>2, <1>10 DEF SurveyInv

\* What is found in the end is routed in the time asked for.
LEMMA FoundIsRouted ==
    ASSUME SurveyTypeOK, Narrowed, lo = hi
    PROVE  Within(lo, to) = Routed
<1>1. \A b \in 1 .. LATEST : b >= lo <=> ~ clock[b] < Target
  BY TargetIsReached DEF Narrowed, SurveyTypeOK
<1>2. ASSUME NEW tx \in Sent
      PROVE  block[tx] \in lo .. to <=> block[tx] \in 1 .. to /\ clock[block[tx]] >= Target
  <2>1. block[tx] \in 0 .. LATEST /\ to \in 1 .. LATEST /\ lo \in 1 .. LATEST
    BY DEF SurveyTypeOK
  <2>2. block[tx] \in 1 .. LATEST =>
           (clock[block[tx]] >= Target <=> ~ clock[block[tx]] < Target)
    BY TargetIsReached
  <2> QED BY <1>1, <2>1, <2>2, TargetIsReached
<1> QED BY <1>2 DEF Within, Routed

\* When the windows have reached the last block, every routed swap is found.
LEMMA Sorts == ASSUME SurveyInv, Scanned PROVE SurveyInv'
<1>1. /\ SurveyTypeOK /\ Narrowed /\ Progress
      /\ phase = "scanning" /\ start > to /\ phase' = "analyzing"
      /\ found' = SubSeq(InOrder, 1, Shorter(Len(found)))
      /\ UNCHANGED <<clock, block, to, days, lo, hi, start, seen, swapRows, quoteRows>>
  BY DEF SurveyInv, Scanned, chainVars, searchVars, rowVars, Shorter
<1>2. lo = hi /\ start \in lo .. to + 1 /\ OnceEach(found, Within(lo, start - 1))
      /\ swapRows = <<>> /\ quoteRows = <<>>
  BY <1>1 DEF Narrowed, Progress
<1>3. SurveyTypeOK' /\ Narrowed'
  BY <1>1, <1>2, StaysNarrowed
<1>4. start - 1 = to
  BY <1>1, <1>2, TargetIsReached
<1>5. OnceEach(found, Routed)
  BY <1>1, <1>2, <1>4, FoundIsRouted
<1>6. /\ OnceEach(InOrder, Routed) /\ ByBlock(InOrder)
      /\ found' = FirstOf(InOrder)
  BY <1>1, <1>5, OrderingTheSwaps DEF FirstOf
<1>7. \A swaps : /\ OnceEach(swaps, Routed)' <=> OnceEach(swaps, Routed)
  BY <1>1 DEF OnceEach, Routed, AnySwap, Swap, Target
<1>8. Listed'
  <2> DEFINE s == InOrder
  <2>1. OnceEach(s, Routed) /\ ByBlock(s) /\ found' = FirstOf(s)
    BY <1>6
  <2> HIDE DEF s
  <2>2. \E swaps : OnceEach(swaps, Routed)' /\ ByBlock(swaps) /\ found' = FirstOf(swaps)
    BY <1>7, <2>1
  <2> QED BY <2>2 DEF Listed, ByBlock, FirstOf, Shorter
<1>9. found' \in Seq(AnySwap)'
  <2>1. InOrder \in Seq(AnySwap) /\ MAX_TXS \in Nat
    BY <1>6, SurveyInputs DEF OnceEach
  <2>2. Shorter(Len(InOrder)) \in Int /\ \A i \in 1 .. Shorter(Len(InOrder)) : InOrder[i] \in AnySwap
    BY <2>1 DEF Shorter
  <2>3. SubSeq(InOrder, 1, Shorter(Len(InOrder))) \in Seq(AnySwap)
    BY <2>2, SubSeqProperties
  <2>4. AnySwap' = AnySwap
    BY <1>1 DEF AnySwap, Swap
  <2> QED BY <1>6, <2>3, <2>4 DEF FirstOf
<1>10. About(swapRows, found)' /\ About(quoteRows, found)' /\ (Len(swapRows) = Len(quoteRows))'
  BY <1>1, <1>2, <1>9 DEF About
<1>11. Progress'
  BY <1>1, <1>8, <1>10 DEF Progress
<1> QED BY <1>3, <1>11 DEF SurveyInv

\* A row about the next swap goes on with the list.
LEMMA RowsGrow ==
    ASSUME NEW rows, NEW swaps \in Seq(AnySwap), About(rows, swaps), Len(rows) < Len(swaps),
           NEW kind \in Kinds
    PROVE  /\ About(Append(rows, Row(swaps[Len(rows) + 1], kind)), swaps)
           /\ Len(Append(rows, Row(swaps[Len(rows) + 1], kind))) = Len(rows) + 1
<1> DEFINE n == Len(rows)
           next == Row(swaps[n + 1], kind)
           longer == Append(rows, next)
<1>1. /\ rows \in Seq(AnyRow) /\ n \in Nat /\ DOMAIN rows = 1 .. n
      /\ Len(swaps) \in Nat /\ n + 1 \in DOMAIN swaps /\ n + 1 <= Len(swaps)
      /\ \A i \in 1 .. n : rows[i].swap = swaps[i]
  BY DEF About
<1>2. next \in AnyRow /\ next.swap = swaps[n + 1]
  BY <1>1 DEF AnyRow, Row
<1> HIDE DEF next, n
<1>3. /\ longer \in Seq(AnyRow) /\ Len(longer) = n + 1 /\ DOMAIN longer = 1 .. n + 1
      /\ \A i \in 1 .. n : longer[i] = rows[i]
      /\ longer[n + 1] = next
  BY <1>1, <1>2, AppendProperties DEF n
<1> HIDE DEF longer
<1>4. \A i \in 1 .. n + 1 : longer[i].swap = swaps[i]
  <2> SUFFICES ASSUME NEW i \in 1 .. n + 1 PROVE longer[i].swap = swaps[i]
    OBVIOUS
  <2>1. CASE i = n + 1
    BY <1>2, <1>3, <2>1
  <2>2. CASE i # n + 1
    BY <1>1, <1>3, <2>2
  <2> QED BY <2>1, <2>2
<1>5. About(longer, swaps) /\ Len(longer) = n + 1
  BY <1>1, <1>3, <1>4 DEF About
<1> QED BY <1>5 DEF longer, next, n

\* Each swap gets a row of either kind, whichever requests failed.
LEMMA Analyzes == ASSUME SurveyInv, Analyze PROVE SurveyInv'
<1> DEFINE swap == found[Len(swapRows) + 1]
<1>1. /\ SurveyTypeOK /\ Narrowed /\ Progress
      /\ phase = "analyzing" /\ phase' = "analyzing" /\ Len(swapRows) < Len(found)
      /\ \E kind \in SwapKinds(swap.tx) : swapRows' = Append(swapRows, Row(swap, kind))
      /\ \E kind \in QuoteKinds : quoteRows' = Append(quoteRows, Row(swap, kind))
      /\ UNCHANGED <<clock, block, to, days, lo, hi, start, found>>
  BY DEF SurveyInv, Analyze, chainVars, searchVars
<1>2. /\ Listed /\ About(swapRows, found) /\ About(quoteRows, found)
      /\ Len(swapRows) = Len(quoteRows) /\ lo = hi
  BY <1>1 DEF Progress, Narrowed
<1>3. SurveyTypeOK' /\ Narrowed'
  BY <1>1, <1>2, StaysNarrowed
<1>4. found \in Seq(AnySwap)
  <2>1. PICK swaps : OnceEach(swaps, Routed) /\ found = FirstOf(swaps)
    BY <1>2 DEF Listed
  <2>2. swaps \in Seq(AnySwap) /\ MAX_TXS \in Nat
    BY <2>1, SurveyInputs DEF OnceEach
  <2>3. Shorter(Len(swaps)) \in Int /\ \A i \in 1 .. Shorter(Len(swaps)) : swaps[i] \in AnySwap
    BY <2>2 DEF Shorter
  <2> QED BY <2>1, <2>3, SubSeqProperties DEF FirstOf
<1>5. PICK kind \in SwapKinds(swap.tx) : swapRows' = Append(swapRows, Row(swap, kind))
  BY <1>1
<1>6. PICK kind2 \in QuoteKinds : quoteRows' = Append(quoteRows, Row(swap, kind2))
  BY <1>1
<1>7. kind \in Kinds /\ kind2 \in Kinds
  BY DEF SwapKinds, QuoteKinds, Kinds
<1>8. /\ About(swapRows', found) /\ Len(swapRows') = Len(swapRows) + 1
  BY <1>1, <1>2, <1>4, <1>5, <1>7, RowsGrow
<1>9. /\ About(quoteRows', found) /\ Len(quoteRows') = Len(quoteRows) + 1
  BY <1>1, <1>2, <1>4, <1>6, <1>7, RowsGrow
<1>10. About(swapRows, found)' /\ About(quoteRows, found)' /\ Len(swapRows') = Len(quoteRows')
  BY <1>1, <1>2, <1>8, <1>9 DEF About, AnyRow, AnySwap, Swap
<1>11. Listed'
  BY <1>1, <1>2 DEF Listed, OnceEach, Routed, AnySwap, Swap, Target
<1>12. Progress'
  BY <1>1, <1>10, <1>11 DEF Progress
<1> QED BY <1>3, <1>12 DEF SurveyInv

\* Rows that note an idle venue are about no swap.
LEMMA NotesAreIdle ==
    LET idle == SetToSeq(PROPAMMS \ seen)
    IN  \E n \in Nat : idle \in [1 .. n -> PROPAMMS]
<1> DEFINE S == PROPAMMS \ seen
           n == Cardinality(S)
           Fine(f) == IsInjective(f)
<1>1. IsFiniteSet(S)
  BY SurveyInputs, FS_Subset
<1> HIDE DEF S
<1>2. n \in Nat /\ ExistsBijection(1 .. n, S)
  BY <1>1, FS_CardinalityType
<1>3. \E f \in [1 .. n -> S] : Fine(f)
  BY <1>2 DEF ExistsBijection, Bijection, Injection, IsInjective
<1>4. SetToSeq(S) = CHOOSE f \in [1 .. n -> S] : Fine(f)
  BY DEF SetToSeq
<1>5. SetToSeq(S) \in [1 .. n -> S]
  <2> HIDE DEF Fine, n
  <2> QED BY <1>3, <1>4
<1>6. SetToSeq(S) \in [1 .. n -> PROPAMMS]
  <2> HIDE DEF n
  <2>1. S \subseteq PROPAMMS
    BY DEF S
  <2> QED BY <1>5, <2>1
<1> QED BY <1>2, <1>6 DEF S

\* Behind the rows about swaps there are only notes of idle venues.
LEMMA NotesAreAdded ==
    ASSUME NEW rows, NEW swaps, OnceEach(swaps, Routed), About(rows, FirstOf(swaps)),
           Len(rows) = Len(FirstOf(swaps)),
           NEW n \in Nat, NEW idle \in [1 .. n -> PROPAMMS]
    PROVE  Final(rows \o [i \in DOMAIN idle |-> Idle(idle[i])], swaps)
<1> DEFINE notes == {Idle(venue) : venue \in PROPAMMS}
           note == [i \in DOMAIN idle |-> Idle(idle[i])]
           N == Len(rows)
           all == rows \o note
<1>1. swaps \in Seq(AnySwap) /\ MAX_TXS \in Nat \ {0} /\ Len(swaps) \in Nat
  BY SurveyInputs DEF OnceEach
<1>2. /\ Shorter(Len(swaps)) \in Nat
      /\ \A i \in 1 .. Shorter(Len(swaps)) : swaps[i] \in AnySwap
  BY <1>1 DEF Shorter
<1>3. /\ Len(FirstOf(swaps)) = Shorter(Len(swaps))
      /\ \A i \in 1 .. Shorter(Len(swaps)) : FirstOf(swaps)[i] = swaps[i]
  <2> DEFINE m == Shorter(Len(swaps))
  <2>1. /\ Len(SubSeq(swaps, 1, m)) = IF 1 <= m THEN m - 1 + 1 ELSE 0
        /\ \A i \in 1 .. m - 1 + 1 : SubSeq(swaps, 1, m)[i] = swaps[1 + i - 1]
    <3> HIDE DEF m
    <3>1. m \in Int /\ 1 \in Int /\ \A i \in 1 .. m : swaps[i] \in AnySwap
      BY <1>2 DEF m
    <3> QED BY <3>1, SubSeqProperties
  <2>2. m \in Nat
    BY <1>2
  <2> HIDE DEF m
  <2>3. Len(SubSeq(swaps, 1, m)) = m /\ \A i \in 1 .. m : SubSeq(swaps, 1, m)[i] = swaps[i]
    BY <2>1, <2>2
  <2> QED BY <2>3 DEF m, FirstOf
<1>4. /\ rows \in Seq(AnyRow) /\ N = Shorter(Len(swaps)) /\ N \in Nat
      /\ \A i \in 1 .. N : rows[i].swap = swaps[i]
  BY <1>2, <1>3 DEF About
<1>5. \A venue \in PROPAMMS : Idle(venue).swap.tx = "none"
  BY DEF Idle, Row
<1>6. /\ DOMAIN note = 1 .. n /\ note \in [1 .. n -> notes]
      /\ \A i \in 1 .. n : note[i].swap.tx = "none"
  BY <1>5
<1> HIDE DEF notes, note, N
<1>7. note \in Seq(notes) /\ Len(note) = n
  BY <1>6
<1>8. /\ DOMAIN all = 1 .. N + n
      /\ \A i \in 1 .. N + n : all[i] = IF i <= N THEN rows[i] ELSE note[i - N]
  <2>1. rows \in Seq(AnyRow \cup notes) /\ note \in Seq(AnyRow \cup notes)
    BY <1>4, <1>7
  <2>2. /\ all \in Seq(AnyRow \cup notes) /\ Len(all) = N + n
        /\ \A i \in 1 .. N + n : all[i] = IF i <= N THEN rows[i] ELSE note[i - N]
    BY <1>7, <2>1, ConcatProperties DEF N
  <2> HIDE DEF all
  <2> QED BY <2>2
<1> HIDE DEF all
<1>9. \A i \in 1 .. N : i \in DOMAIN all /\ all[i].swap = swaps[i]
  BY <1>4, <1>8
<1>10. \A i \in DOMAIN all : i \in 1 .. N \/ all[i].swap.tx = "none"
  <2> SUFFICES ASSUME NEW i \in 1 .. N + n, ~ i <= N PROVE all[i].swap.tx = "none"
    BY <1>4, <1>8
  <2>1. i - N \in 1 .. n /\ all[i] = note[i - N]
    BY <1>4, <1>8
  <2> QED BY <1>6, <2>1
<1>11. Final(all, swaps)
  BY <1>4, <1>8, <1>9, <1>10 DEF Final
<1> QED BY <1>11 DEF all, note

\* The survey ends when every swap that was chosen has its rows.
LEMMA Finishes == ASSUME SurveyInv, Finish PROVE SurveyInv'
<1> DEFINE idle == SetToSeq(PROPAMMS \ seen)
           note == [i \in DOMAIN idle |-> Idle(idle[i])]
<1>1. /\ SurveyTypeOK /\ Narrowed /\ Progress
      /\ phase = "analyzing" /\ phase' = "done" /\ Len(swapRows) = Len(found)
      /\ swapRows' = swapRows \o note /\ quoteRows' = quoteRows \o note
      /\ UNCHANGED <<clock, block, to, days, lo, hi, start, found, seen>>
  BY DEF SurveyInv, Finish, chainVars, searchVars
<1>2. SurveyTypeOK' /\ Narrowed'
  BY <1>1, StaysNarrowed
<1>3. PICK swaps : OnceEach(swaps, Routed) /\ ByBlock(swaps) /\ found = FirstOf(swaps)
  BY <1>1 DEF Progress, Listed
<1>4. PICK n \in Nat : idle \in [1 .. n -> PROPAMMS]
  BY NotesAreIdle
<1> HIDE DEF idle
<1>5. /\ About(swapRows, FirstOf(swaps)) /\ Len(swapRows) = Len(FirstOf(swaps))
      /\ About(quoteRows, FirstOf(swaps)) /\ Len(quoteRows) = Len(FirstOf(swaps))
  BY <1>1, <1>3 DEF Progress
<1>6. Final(swapRows', swaps) /\ Final(quoteRows', swaps)
  BY <1>1, <1>3, <1>4, <1>5, NotesAreAdded
<1>7. OnceEach(swaps, Routed)'
  BY <1>1, <1>3 DEF OnceEach, Routed, AnySwap, Swap, Target
<1>8. Progress'
  <2>1. \E s : OnceEach(s, Routed)' /\ ByBlock(s) /\ Final(swapRows', s) /\ Final(quoteRows', s)
    BY <1>3, <1>6, <1>7
  <2> QED BY <1>1, <2>1 DEF Progress, ByBlock, Final, Shorter
<1> QED BY <1>2, <1>8 DEF SurveyInv

\* Every step of a survey keeps SurveyInv.
LEMMA SurveyStep == SurveyInv /\ [SurveyNext]_surveyVars => SurveyInv'
<1> SUFFICES ASSUME SurveyInv, [SurveyNext]_surveyVars PROVE SurveyInv'
  OBVIOUS
<1>1. CASE Halve
  BY <1>1, Halves
<1>2. CASE Found
  BY <1>2, Finds
<1>3. CASE ScanWindow
  BY <1>3, Scans
<1>4. CASE Scanned
  BY <1>4, Sorts
<1>5. CASE Aborts
  BY <1>5, Fails
<1>6. CASE Analyze
  BY <1>6, Analyzes
<1>7. CASE Finish
  BY <1>7, Finishes
<1>8. CASE UNCHANGED surveyVars
  <2>1. UNCHANGED <<clock, block, to, days, phase, lo, hi, start, found, swapRows, quoteRows>>
    BY <1>8 DEF surveyVars, chainVars, searchVars, rowVars
  <2>2. SurveyTypeOK' /\ Narrowed'
    BY <2>1 DEF SurveyInv, SurveyTypeOK, Narrowed, Target
  <2>3. (\A s, txs : OnceEach(s, txs)' <=> OnceEach(s, txs)) /\ Routed' = Routed
    BY <2>1 DEF OnceEach, AnySwap, Swap, Routed, Target
  <2>4. /\ Listed' <=> Listed
        /\ About(swapRows, found)' <=> About(swapRows, found)
        /\ About(quoteRows, found)' <=> About(quoteRows, found)
        /\ Within(lo, start - 1)' = Within(lo, start - 1)
    BY <2>1, <2>3 DEF Listed, ByBlock, FirstOf, Shorter, About, AnyRow, AnySwap, Row, Swap, Within
  <2>5. Progress'
    <3>1. /\ phase = "scanning" => OnceEach(found, Within(lo, start - 1))
          /\ phase = "done" => \E s : /\ OnceEach(s, Routed) /\ ByBlock(s)
                                     /\ Final(swapRows', s) /\ Final(quoteRows', s)
      BY <2>1, <2>3, <2>4 DEF SurveyInv, Progress
    <3> QED BY <2>1, <2>3, <2>4, <3>1 DEF SurveyInv, Progress, ByBlock, Final, Shorter
  <2> QED BY <2>2, <2>5 DEF SurveyInv
<1> QED BY <1>1, <1>2, <1>3, <1>4, <1>5, <1>6, <1>7, <1>8 DEF SurveyNext

(***************************************************************************)
(* What it means for the rows                                              *)
(***************************************************************************)
\* EverySwapOnce of one transaction.
OneRow(rows, tx) ==
    LET about == {i \in DOMAIN rows : rows[i].swap.tx = tx}
        older == {other \in Routed : block[other] < block[tx]}
        younger == {other \in Routed : block[other] > block[tx]}
    IN  /\ Cardinality(about) <= 1
        /\ about # {} => tx \in Routed /\ Cardinality(older) < MAX_TXS
        /\ (tx \in Routed /\ Cardinality(Routed \ younger) <= MAX_TXS) => about # {}

\* Rows along the first swaps of a listing by block are those EverySwapOnce asks for.
LEMMA EveryRowOnce ==
    ASSUME SurveyTypeOK, NEW swaps, OnceEach(swaps, Routed), ByBlock(swaps),
           NEW rows, Final(rows, swaps), NEW tx \in Sent
    PROVE  OneRow(rows, tx)
<1> DEFINE about == {i \in DOMAIN rows : rows[i].swap.tx = tx}
           older == {other \in Routed : block[other] < block[tx]}
           younger == {other \in Routed : block[other] > block[tx]}
           N == Len(swaps)
           M == Shorter(N)
<1>1. /\ swaps \in Seq(AnySwap) /\ N \in Nat /\ DOMAIN swaps = 1 .. N
      /\ \A i \in 1 .. N : swaps[i] \in AnySwap /\ swaps[i].tx \in Routed
      /\ \A other \in Routed : \E i \in 1 .. N : swaps[i] = Swap(other)
      /\ \A i, j \in 1 .. N : swaps[i].tx = swaps[j].tx => i = j
      /\ \A i, j \in 1 .. N : i < j => swaps[i].block <= swaps[j].block
  BY DEF OnceEach, ByBlock
<1>2. /\ MAX_TXS \in Nat \ {0} /\ M \in Nat /\ M <= N /\ M <= MAX_TXS
      /\ M = N \/ M = MAX_TXS
      /\ DOMAIN rows \subseteq Nat
      /\ \A i \in 1 .. M : i \in DOMAIN rows /\ rows[i].swap = swaps[i]
      /\ \A i \in DOMAIN rows : i \in 1 .. M \/ rows[i].swap.tx = "none"
      /\ tx # "none"
  BY <1>1, SurveyInputs DEF Final, Shorter
<1>3. Routed \subseteq Sent /\ IsFiniteSet(Routed)
  BY Hashes, FS_Subset DEF Routed
<1>4. \A i \in 1 .. N : swaps[i].block = block[swaps[i].tx] /\ block[swaps[i].tx] \in Nat
  BY <1>1, <1>3, Fields DEF SurveyTypeOK
<1>5. block[tx] \in Nat
  BY DEF SurveyTypeOK
<1> HIDE DEF M, N
<1>6. \A i \in about : i \in 1 .. M /\ i \in 1 .. N /\ swaps[i].tx = tx
  BY <1>1, <1>2
<1>7. Cardinality(about) <= 1
  <2>1. CASE about = {}
    BY <2>1, FS_EmptySet
  <2>2. CASE about # {}
    <3>1. PICK i : i \in about
      BY <2>2
    <3>2. about = {i}
      BY <1>1, <1>6, <3>1
    <3> HIDE DEF about
    <3>3. Cardinality({i}) = 1
      BY FS_Singleton
    <3> QED BY <3>2, <3>3
  <2> QED BY <2>1, <2>2
\* Those that are older stand before it.
<1>8. ASSUME NEW i \in about PROVE tx \in Routed /\ Cardinality(older) < MAX_TXS
  <2> DEFINE f == [other \in older |-> CHOOSE j \in 1 .. i - 1 : swaps[j].tx = other]
  <2>1. i \in 1 .. M /\ i \in 1 .. N /\ swaps[i].tx = tx
    BY <1>6
  <2>2. ASSUME NEW other \in older PROVE \E j \in 1 .. i - 1 : swaps[j].tx = other
    <3>1. other \in Routed /\ other \in Sent /\ block[other] < block[tx]
      BY <1>3
    <3>2. PICK j \in 1 .. N : swaps[j] = Swap(other)
      BY <1>1, <3>1
    <3>3. swaps[j].tx = other /\ swaps[j].block < swaps[i].block
      BY <1>4, <2>1, <3>1, <3>2, Fields
    <3>4. ~ i < j /\ i # j
      BY <1>1, <1>4, <2>1, <3>3
    <3>5. j \in 1 .. i - 1
      BY <1>1, <2>1, <3>4
    <3> QED BY <3>3, <3>5
  <2>3. \A other \in older : f[other] \in 1 .. i - 1 /\ swaps[f[other]].tx = other
    BY <2>2
  <2>4. f \in [older -> 1 .. i - 1]
    BY <2>3
  <2>5. \A a, b \in older : f[a] = f[b] => a = b
    <3> HIDE DEF f, older
    <3> QED BY <2>3
  <2>6. f \in Injection(older, 1 .. i - 1)
    <3> HIDE DEF f, older
    <3> QED BY <2>4, <2>5 DEF Injection, IsInjective
  <2>7. i - 1 \in Nat /\ i - 1 < MAX_TXS
    BY <1>2, <2>1
  <2> HIDE DEF f, older
  <2>8. IsFiniteSet(older) /\ Cardinality(older) <= i - 1
    BY <2>6, <2>7, CountingUp, FS_Injection
  <2>9. Cardinality(older) \in Nat
    BY <2>8, FS_CardinalityType
  <2>10. Cardinality(older) < MAX_TXS
    BY <1>2, <2>7, <2>8, <2>9
  <2>11. tx \in Routed
    BY <1>1, <2>1
  <2> QED BY <2>10, <2>11
\* It stands among the first if few are not younger.
<1>9. ASSUME tx \in Routed, Cardinality(Routed \ younger) <= MAX_TXS PROVE about # {}
  <2> DEFINE rest == Routed \ younger
  <2>1. PICK i \in 1 .. N : swaps[i] = Swap(tx)
    BY <1>1, <1>9
  <2>2. swaps[i].tx = tx /\ swaps[i].block = block[tx]
    BY <1>9, <2>1, Fields
  <2> DEFINE f == [j \in 1 .. i |-> swaps[j].tx]
  <2>3. ASSUME NEW j \in 1 .. i PROVE j \in 1 .. N /\ f[j] \in rest
    <3>1. j \in 1 .. N
      BY <1>1
    <3>2. swaps[j].block <= swaps[i].block
      BY <1>1, <1>4, <3>1
    <3>3. swaps[j].tx \in Routed /\ block[swaps[j].tx] <= block[tx] /\ block[swaps[j].tx] \in Nat
      BY <1>1, <1>4, <2>2, <3>1, <3>2
    <3> QED BY <1>5, <3>1, <3>3
  <2>4. f \in [1 .. i -> rest]
    <3> HIDE DEF rest
    <3> QED BY <2>3
  <2>5. \A j, k \in 1 .. i : f[j] = f[k] => j = k
    BY <1>1, <2>3
  <2>6. IsFiniteSet(rest)
    BY <1>3, FS_Subset
  <2>7. i \in Nat
    BY <1>1
  <2> HIDE DEF f, rest
  <2>8. f \in Injection(1 .. i, rest)
    BY <2>4, <2>5 DEF Injection, IsInjective
  <2>9. i <= Cardinality(rest)
    BY <2>6, <2>7, <2>8, CountingUp, FS_Injection
  <2>10. Cardinality(rest) \in Nat /\ Cardinality(rest) <= MAX_TXS
    BY <1>9, <2>6, FS_CardinalityType DEF rest
  <2>11. i \in 1 .. M
    BY <1>1, <1>2, <2>7, <2>9, <2>10
  <2>12. i \in about
    BY <1>2, <2>2, <2>11
  <2> QED BY <2>12
<1> QED BY <1>7, <1>8, <1>9 DEF OneRow

\* The survey of router_overhead.py is sound as SurveyInv says, for any timestamps,
\* transactions, windows and failing requests.
THEOREM SurveysAreSound == SurveySpec => []SurveyInv
BY SurveyStarts, SurveyStep, PTL DEF SurveySpec

\* A survey that ends has one row for every transaction that routed a swap in the
\* time asked for, the oldest if there are too many.
THEOREM SwapsAreSurveyedOnce == SurveySpec => []EverySwapOnce
<1>1. SurveyInv => EverySwapOnce
  <2> SUFFICES ASSUME SurveyInv, phase = "done" PROVE EverySwapOnce
    BY DEF EverySwapOnce
  <2>1. SurveyTypeOK
    BY DEF SurveyInv
  <2>2. PICK swaps : /\ OnceEach(swaps, Routed) /\ ByBlock(swaps)
                     /\ Final(swapRows, swaps) /\ Final(quoteRows, swaps)
    BY DEF SurveyInv, Progress
  <2>3. ASSUME NEW tx \in Sent, NEW rows \in {swapRows, quoteRows}
        PROVE  OneRow(rows, tx)
    <3>1. Final(rows, swaps)
      BY <2>2
    <3> QED BY <2>1, <2>2, <3>1, EveryRowOnce
  <2> QED BY <2>3 DEF EverySwapOnce, OneRow
<1> QED BY <1>1, SurveysAreSound, PTL
===============================================================================
