--------------------------- MODULE SplitSwapProofs ---------------------------
(***************************************************************************)
(* Theorems about SplitPlanner and SplitSwap, for every whitelist, every   *)
(* order and whatever venues and Uniswap answer, move and pay.             *)
(***************************************************************************)
EXTENDS SplitSwap, HonestVenue, SwapCallProofs, SequenceTheorems, WellFoundedInduction

Candidates == [venue : Listable, fill : Nat \ {0}, out : Nat \ {0}]
Legs == [venue : Listable, amountIn : Nat, minOut : Nat]

(***************************************************************************)
(* Folds over sequences                                                    *)
(***************************************************************************)
\* What is true of 0, and of n + 1 whenever it is of n, is true of every number.
LEMMA NatSetInduction ==
    ASSUME NEW T, 0 \in T, \A n \in Nat : n \in T => n + 1 \in T
    PROVE  Nat \subseteq T
<1> DEFINE Bad == {n \in Nat : n \notin T}
<1> SUFFICES ASSUME Bad # {} PROVE FALSE
  OBVIOUS
<1>1. PICK n \in Bad : \A y \in Bad : ~(<<y, n>> \in OpToRel(<, Nat))
  <2>1. Bad \subseteq Nat
    OBVIOUS
  <2> HIDE DEF Bad
  <2> QED BY <2>1, WFMin, NatLessThanWellFounded
<1>2. n # 0 /\ n - 1 \in Nat /\ n - 1 < n
  OBVIOUS
<1>3. <<n - 1, n>> \in OpToRel(<, Nat)
  BY <1>2 DEF OpToRel
<1>4. n - 1 \notin Bad
  BY <1>1, <1>3
<1> QED BY <1>2, <1>4

\* One step of each of the three folds of the model: the input of a plan, the
\* ranking of the candidates, and what the legs leave over.
FoldStep(kind, acc, x) ==
    CASE kind = "input" -> acc + x.amountIn
      [] kind = "rank"  -> InsertByRate(acc, x)
      [] kind = "left"  -> IF x.fill >= acc THEN 0 ELSE acc - x.fill

\* g is the function FoldLeft recurs over when it folds the first n of s.
IsFold(g, kind, base, s, n) ==
    g = [S \in SUBSET (1 .. n) |->
            IF S = {} THEN base ELSE FoldStep(kind, g[S \ {Max(S)}], s[Max(S)])]

LEMMA MaxIsLast ==
    ASSUME NEW n \in Nat, NEW S \in SUBSET (1 .. n + 1), n + 1 \in S
    PROVE  Max(S) = n + 1
<1>1. \A y \in S : n + 1 >= y
  OBVIOUS
<1>2. \A x \in S : (\A y \in S : x >= y) => x = n + 1
  OBVIOUS
<1> QED BY <1>1, <1>2 DEF Max

\* There is such a function for every n.
LEMMA FoldExists ==
    ASSUME NEW kind, NEW base, NEW s, NEW n \in Nat
    PROVE  \E g : IsFold(g, kind, base, s, n)
<1> DEFINE T == {k \in Nat : \E g : IsFold(g, kind, base, s, k)}
<1>1. 0 \in T
  <2> DEFINE g == [S \in SUBSET (1 .. 0) |-> base]
  <2>1. IsFold(g, kind, base, s, 0)
    BY DEF IsFold
  <2> QED BY <2>1
<1>2. ASSUME NEW k \in Nat, k \in T PROVE k + 1 \in T
  <2>1. PICK f : IsFold(f, kind, base, s, k)
    BY <1>2
  <2> DEFINE g == [S \in SUBSET (1 .. k + 1) |->
                      IF k + 1 \in S
                      THEN FoldStep(kind, f[S \ {k + 1}], s[k + 1])
                      ELSE f[S]]
  <2>2. ASSUME NEW S \in SUBSET (1 .. k + 1)
        PROVE  g[S] = IF S = {} THEN base
                      ELSE FoldStep(kind, g[S \ {Max(S)}], s[Max(S)])
    <3>1. CASE k + 1 \in S
      <4>1. Max(S) = k + 1
        BY <3>1, MaxIsLast
      <4>2. S \ {k + 1} \in SUBSET (1 .. k) /\ S \ {k + 1} \in SUBSET (1 .. k + 1)
        OBVIOUS
      <4>3. g[S \ {k + 1}] = f[S \ {k + 1}]
        BY <4>2
      <4> QED BY <3>1, <4>1, <4>3
    <3>2. CASE k + 1 \notin S
      <4>1. S \in SUBSET (1 .. k) /\ S \ {Max(S)} \in SUBSET (1 .. k)
            /\ S \ {Max(S)} \in SUBSET (1 .. k + 1)
            /\ k + 1 \notin S \ {Max(S)}
        <5>1. \A x \in S : x \in 1 .. k
          BY <3>2
        <5> QED BY <3>2, <5>1
      <4>2. g[S] = f[S] /\ g[S \ {Max(S)}] = f[S \ {Max(S)}]
        BY <3>2, <4>1
      <4>3. f[S] = IF S = {} THEN base
                   ELSE FoldStep(kind, f[S \ {Max(S)}], s[Max(S)])
        BY <2>1, <4>1 DEF IsFold
      <4> QED BY <4>2, <4>3
    <3> QED BY <3>1, <3>2
  <2>3. IsFold(g, kind, base, s, k + 1)
    <3>1. g = [S \in SUBSET (1 .. k + 1) |-> g[S]]
      OBVIOUS
    <3> HIDE DEF g
    <3> QED BY <2>2, <3>1 DEF IsFold
  <2> HIDE DEF g
  <2> QED BY <2>3
<1>3. Nat \subseteq T
  <2> HIDE DEF T
  <2> QED BY <1>1, <1>2, NatSetInduction
<1> QED BY <1>3

\* h holds the results of folding the first 0, 1, 2... elements of s.
Chain(h, kind, base, s) ==
    /\ h[0] = base
    /\ \A k \in Nat : k < Len(s) => h[k + 1] = FoldStep(kind, h[k], s[k + 1])

LEMMA ChainOfFold ==
    ASSUME NEW kind, NEW base, NEW s, Len(s) \in Nat,
           NEW g, IsFold(g, kind, base, s, Len(s))
    PROVE  \E h : Chain(h, kind, base, s) /\ h[Len(s)] = g[1 .. Len(s)]
<1> DEFINE n == Len(s)
           h == [k \in 0 .. n |-> g[1 .. k]]
<1>1. h[0] = base
  <2>1. 1 .. 0 = {} /\ {} \in SUBSET (1 .. n) /\ 0 \in 0 .. n
    OBVIOUS
  <2> QED BY <2>1 DEF IsFold
<1>2. ASSUME NEW k \in Nat, k < n
      PROVE  h[k + 1] = FoldStep(kind, h[k], s[k + 1])
  <2>1. /\ 1 .. k + 1 \in SUBSET (1 .. n) /\ 1 .. k + 1 # {}
        /\ Max(1 .. k + 1) = k + 1
        /\ (1 .. k + 1) \ {k + 1} = 1 .. k
    <3>1. /\ 1 .. k + 1 \in SUBSET (1 .. n) /\ k + 1 \in 1 .. k + 1
          /\ (1 .. k + 1) \ {k + 1} = 1 .. k
      BY <1>2
    <3> QED BY <3>1, MaxIsLast
  <2>2. g[1 .. k + 1] = FoldStep(kind, g[1 .. k], s[k + 1])
    BY <2>1 DEF IsFold
  <2> QED BY <1>2, <2>2
<1>3. h[n] = g[1 .. n]
  OBVIOUS
<1> HIDE DEF h
<1> QED BY <1>1, <1>2, <1>3 DEF Chain

\* There is only one such function.
LEMMA ChainUnique ==
    ASSUME NEW kind, NEW base, NEW s, Len(s) \in Nat, NEW h, NEW e,
           Chain(h, kind, base, s), Chain(e, kind, base, s)
    PROVE  h[Len(s)] = e[Len(s)]
<1> DEFINE T == {k \in Nat : k <= Len(s) => h[k] = e[k]}
<1>1. 0 \in T
  BY DEF Chain
<1>2. ASSUME NEW k \in Nat, k \in T PROVE k + 1 \in T
  BY <1>2 DEF Chain
<1>3. Nat \subseteq T
  <2> HIDE DEF T
  <2> QED BY <1>1, <1>2, NatSetInduction
<1> QED BY <1>3

(***************************************************************************)
(* The input of a plan                                                     *)
(***************************************************************************)
LEMMA InputChain ==
    ASSUME NEW base, NEW plan, Len(plan) \in Nat,
           DOMAIN plan = 1 .. Len(plan)
    PROVE  \E h : Chain(h, "input", base, plan)
                    /\ InputOf(base, plan) = h[Len(plan)]
<1> DEFINE n == Len(plan)
           Is(g) == g = [S \in SUBSET (1 .. n) |->
                            IF S = {} THEN base
                            ELSE g[S \ {Max(S)}] + plan[Max(S)].amountIn]
           f == CHOOSE g : Is(g)
<1>1. InputOf(base, plan) = f[1 .. n]
  BY DEF InputOf, FoldLeft, MapThenFoldSet
<1>2. ASSUME NEW g PROVE Is(g) <=> IsFold(g, "input", base, plan, n)
  BY DEF IsFold, FoldStep
<1>3. \E g : Is(g)
  <2> HIDE DEF Is
  <2> QED BY <1>2, FoldExists
<1>4. IsFold(f, "input", base, plan, n)
  <2> HIDE DEF Is
  <2> QED BY <1>2, <1>3
<1> HIDE DEF f
<1> QED BY <1>1, <1>4, ChainOfFold

\* The sums of the inputs of the first legs are naturals, and say what any
\* suffix of the plan sums up to.
LEMMA InputSums ==
    ASSUME NEW plan \in Seq(Legs)
    PROVE  \E h :
              /\ \A k \in 0 .. Len(plan) : h[k] \in Nat
              /\ h[0] = 0
              /\ \A k \in 1 .. Len(plan) :
                    h[k] = h[k - 1] + plan[k].amountIn
              /\ InputOf(0, plan) = h[Len(plan)]
              /\ \A base \in Nat, i \in 1 .. Len(plan) + 1 :
                    InputOf(base, SubSeq(plan, i, Len(plan)))
                       = base + h[Len(plan)] - h[i - 1]
<1> DEFINE n == Len(plan)
<1>1. /\ n \in Nat /\ DOMAIN plan = 1 .. n
      /\ \A k \in 1 .. n : plan[k].amountIn \in Nat
  <2>1. \A k \in 1 .. n : plan[k] \in Legs
    OBVIOUS
  <2> QED BY <2>1 DEF Legs
<1>2. PICK h : Chain(h, "input", 0, plan) /\ InputOf(0, plan) = h[n]
  BY <1>1, InputChain
<1>3. /\ h[0] = 0
      /\ \A k \in Nat : k < n => h[k + 1] = h[k] + plan[k + 1].amountIn
  BY <1>2 DEF Chain, FoldStep
<1>4. \A k \in 0 .. n : h[k] \in Nat
  <2> DEFINE T == {k \in Nat : k <= n => h[k] \in Nat}
  <2>1. 0 \in T
    BY <1>3
  <2>2. ASSUME NEW k \in Nat, k \in T PROVE k + 1 \in T
    <3> SUFFICES ASSUME k + 1 <= n PROVE h[k + 1] \in Nat
      OBVIOUS
    <3>1. h[k] \in Nat /\ k < n /\ k + 1 \in 1 .. n
      BY <1>1, <2>2
    <3> QED BY <1>1, <1>3, <3>1
  <2>3. Nat \subseteq T
    <3> HIDE DEF T
    <3> QED BY <2>1, <2>2, NatSetInduction
  <2> QED BY <2>3
<1>5. \A k \in 1 .. n : h[k] = h[k - 1] + plan[k].amountIn
  <2> SUFFICES ASSUME NEW k \in 1 .. n
               PROVE  h[k] = h[k - 1] + plan[k].amountIn
    OBVIOUS
  <2>1. k - 1 \in Nat /\ k - 1 < n /\ (k - 1) + 1 = k
    BY <1>1
  <2> QED BY <1>3, <2>1
<1>6. ASSUME NEW base \in Nat, NEW i \in 1 .. n + 1
      PROVE  InputOf(base, SubSeq(plan, i, n)) = base + h[n] - h[i - 1]
  <2> DEFINE rest == SubSeq(plan, i, n)
             m == n - i + 1
             e == [k \in 0 .. m |-> base + h[i - 1 + k] - h[i - 1]]
  <2>1. /\ rest \in Seq(Legs) /\ Len(rest) = m /\ m \in Nat
        /\ \A k \in 1 .. m : rest[k] = plan[i - 1 + k]
    <3>1. n = Len(plan) /\ i \in 1 .. n + 1 /\ n \in Nat
      BY <1>1
    <3> QED BY <3>1
  <2>2. /\ i - 1 \in Nat /\ i - 1 + m = n
        /\ \A k \in 0 .. m : i - 1 + k \in 0 .. n
    BY <1>1
  <2>3. e[0] = base
    <3>1. 0 \in 0 .. m /\ i - 1 + 0 = i - 1 /\ h[i - 1] \in Nat
      BY <1>1, <1>4, <2>1, <2>2
    <3> QED BY <3>1
  <2>4. ASSUME NEW k \in Nat, k < m
        PROVE  e[k + 1] = e[k] + rest[k + 1].amountIn
    <3>1. /\ k \in 0 .. m /\ k + 1 \in 0 .. m /\ k + 1 \in 1 .. m
          /\ i - 1 + (k + 1) = (i - 1 + k) + 1
          /\ i - 1 + k \in Nat /\ i - 1 + k < n
      BY <2>1, <2>2, <2>4
    <3>2. h[(i - 1 + k) + 1] = h[i - 1 + k] + rest[k + 1].amountIn
      BY <1>3, <2>1, <3>1
    <3>3. /\ h[i - 1 + k] \in Nat /\ h[i - 1] \in Nat
          /\ rest[k + 1].amountIn \in Nat
      <4>1. i - 1 + k \in 0 .. n /\ i - 1 \in 0 .. n
            /\ i - 1 + (k + 1) \in 1 .. n
        BY <1>1, <3>1
      <4> QED BY <1>1, <1>4, <2>1, <3>1, <4>1
    <3>4. /\ e[k + 1] = base + h[(i - 1 + k) + 1] - h[i - 1]
          /\ e[k] = base + h[i - 1 + k] - h[i - 1]
      BY <3>1
    <3> HIDE DEF e, rest
    <3>5. e[k + 1] = base + (h[i - 1 + k] + rest[k + 1].amountIn) - h[i - 1]
      BY <3>2, <3>4
    <3> DEFINE x == h[i - 1 + k]
               y == rest[k + 1].amountIn
               z == h[i - 1]
    <3>6. /\ x \in Nat /\ y \in Nat /\ z \in Nat
          /\ e[k + 1] = base + (x + y) - z /\ e[k] = base + x - z
      BY <3>3, <3>4, <3>5
    <3> HIDE DEF x, z
    <3> HIDE DEF y
    <3>7. base + (x + y) - z = (base + x - z) + y
      BY <3>6
    <3> QED BY <3>6, <3>7 DEF y
  <2>5. e[m] = base + h[n] - h[i - 1]
    <3>1. m \in 0 .. m
      BY <2>1
    <3>2. e[m] = base + h[i - 1 + m] - h[i - 1]
      BY <3>1
    <3> HIDE DEF m
    <3> QED BY <2>2, <3>2
  <2>6. PICK f : Chain(f, "input", base, rest) /\ InputOf(base, rest) = f[m]
    <3>1. Len(rest) \in Nat /\ DOMAIN rest = 1 .. Len(rest)
      BY <2>1
    <3> HIDE DEF rest, m
    <3> QED BY <2>1, <3>1, InputChain
  <2> HIDE DEF e, m, rest
  <2>7. Chain(e, "input", base, rest)
    BY <2>1, <2>3, <2>4 DEF Chain, FoldStep
  <2>8. e[m] = f[m]
    <3>1. Len(rest) = m /\ Len(rest) \in Nat
      BY <2>1
    <3>2. Chain(f, "input", base, rest)
      BY <2>6
    <3>3. e[Len(rest)] = f[Len(rest)]
      <4> HIDE DEF n
      <4> QED BY <2>7, <3>1, <3>2, ChainUnique
    <3> QED BY <3>1, <3>3
  <2> QED BY <2>5, <2>6, <2>8 DEF rest
<1> QED BY <1>2, <1>3, <1>4, <1>5, <1>6

\* The empty plan.
LEMMA InputOfNone == InputOf(0, <<>>) = 0
<1>1. <<>> \in Seq(Legs) /\ Len(<<>>) = 0
  OBVIOUS
<1> QED BY <1>1, InputSums

\* A plan with one more leg.
LEMMA InputOfAppend ==
    ASSUME NEW plan \in Seq(Legs), NEW leg \in Legs
    PROVE  /\ Append(plan, leg) \in Seq(Legs)
           /\ InputOf(0, plan) \in Nat
           /\ InputOf(0, Append(plan, leg)) = InputOf(0, plan) + leg.amountIn
<1> DEFINE more == Append(plan, leg)
           n == Len(plan)
<1>1. /\ more \in Seq(Legs) /\ Len(more) = n + 1 /\ n \in Nat
      /\ \A k \in 1 .. n : more[k] = plan[k]
      /\ more[n + 1] = leg
  OBVIOUS
<1>2. PICK h : /\ \A k \in 0 .. n : h[k] \in Nat
               /\ h[0] = 0
               /\ \A k \in 1 .. n : h[k] = h[k - 1] + plan[k].amountIn
               /\ InputOf(0, plan) = h[n]
  BY InputSums
<1>3. PICK f : Chain(f, "input", 0, more) /\ InputOf(0, more) = f[n + 1]
  <2>1. Len(more) \in Nat /\ DOMAIN more = 1 .. Len(more)
    BY <1>1
  <2> HIDE DEF more
  <2> QED BY <1>1, <2>1, InputChain
<1> DEFINE e == [k \in 0 .. n + 1 |-> IF k <= n THEN h[k]
                                               ELSE h[n] + leg.amountIn]
<1>4. Chain(e, "input", 0, more)
  <2>1. e[0] = 0
    BY <1>1, <1>2
  <2>2. ASSUME NEW k \in Nat, k < n + 1
        PROVE  e[k + 1] = e[k] + more[k + 1].amountIn
    <3>1. CASE k < n
      <4>1. k + 1 \in 1 .. n /\ (k + 1) - 1 = k
        BY <1>1, <3>1
      <4>2. h[k + 1] = h[k] + plan[k + 1].amountIn
        BY <1>2, <4>1
      <4>3. e[k + 1] = h[k + 1] /\ e[k] = h[k]
        BY <1>1, <3>1, <4>1
      <4> QED BY <1>1, <4>1, <4>2, <4>3
    <3>2. CASE k = n
      BY <1>1, <3>2
    <3> QED BY <1>1, <2>2, <3>1, <3>2
  <2> HIDE DEF e, more
  <2> QED BY <1>1, <2>1, <2>2 DEF Chain, FoldStep
<1>5. e[n + 1] = h[n] + leg.amountIn
  BY <1>1
<1>6. f[n + 1] = e[n + 1]
  <2>1. Len(more) \in Nat
    BY <1>1
  <2> HIDE DEF e, more
  <2> QED BY <1>1, <1>3, <1>4, <2>1, ChainUnique
<1>7. h[n] \in Nat
  BY <1>1, <1>2
<1> QED BY <1>1, <1>2, <1>3, <1>5, <1>6, <1>7

\* A plan read from the start is the whole plan; read past its end it is empty;
\* and its next leg takes its own input off the rest.
LEMMA InputOfRest ==
    ASSUME NEW plan \in Seq(Legs), NEW base \in Nat
    PROVE  /\ InputOf(0, plan) \in Nat
           /\ InputOf(base, SubSeq(plan, 1, Len(plan)))
                 = base + InputOf(0, plan)
           /\ InputOf(base, SubSeq(plan, Len(plan) + 1, Len(plan))) = base
           /\ \A i \in 1 .. Len(plan) :
                 /\ InputOf(base, SubSeq(plan, i + 1, Len(plan))) \in Nat
                 /\ InputOf(base, SubSeq(plan, i, Len(plan)))
                       = plan[i].amountIn
                          + InputOf(base, SubSeq(plan, i + 1, Len(plan)))
                 /\ InputOf(base, SubSeq(plan, i, Len(plan)))
                       = InputOf(base + plan[i].amountIn,
                                 SubSeq(plan, i + 1, Len(plan)))
<1> DEFINE n == Len(plan)
<1>1. /\ n \in Nat
      /\ \A k \in 1 .. n : plan[k].amountIn \in Nat
  <2>1. \A k \in 1 .. n : plan[k] \in Legs
    OBVIOUS
  <2> QED BY <2>1 DEF Legs
<1>2. PICK h : /\ \A k \in 0 .. n : h[k] \in Nat
               /\ h[0] = 0
               /\ \A k \in 1 .. n : h[k] = h[k - 1] + plan[k].amountIn
               /\ InputOf(0, plan) = h[n]
               /\ \A b \in Nat, i \in 1 .. n + 1 :
                     InputOf(b, SubSeq(plan, i, n)) = b + h[n] - h[i - 1]
  BY InputSums
<1>3. h[n] \in Nat
  BY <1>1, <1>2
<1>4. InputOf(base, SubSeq(plan, 1, n)) = base + InputOf(0, plan)
  <2>1. 1 \in 1 .. n + 1 /\ 1 - 1 = 0
    BY <1>1
  <2>2. InputOf(base, SubSeq(plan, 1, n)) = base + h[n] - h[0]
    BY <1>2, <2>1
  <2> QED BY <1>2, <1>3, <2>2
<1>5. InputOf(base, SubSeq(plan, n + 1, n)) = base
  <2>1. n + 1 \in 1 .. n + 1 /\ (n + 1) - 1 = n
    BY <1>1
  <2>2. InputOf(base, SubSeq(plan, n + 1, n)) = base + h[n] - h[n]
    BY <1>2, <2>1
  <2> QED BY <1>3, <2>2
<1>6. ASSUME NEW k \in 0 .. n PROVE h[k] <= h[n]
  <2> DEFINE T == {j \in Nat : j <= n => \A m \in 0 .. j : h[m] <= h[j]}
  <2>1. 0 \in T
    BY <1>1, <1>2
  <2>2. ASSUME NEW j \in Nat, j \in T PROVE j + 1 \in T
    <3> SUFFICES ASSUME j + 1 <= n, NEW m \in 0 .. j + 1
                 PROVE  h[m] <= h[j + 1]
      OBVIOUS
    <3>1. j + 1 \in 1 .. n /\ (j + 1) - 1 = j /\ j \in 0 .. n
          /\ j + 1 \in 0 .. n /\ m \in 0 .. n
      BY <1>1
    <3>2. h[j + 1] = h[j] + plan[j + 1].amountIn
      BY <1>2, <3>1
    <3>3. /\ plan[j + 1].amountIn \in Nat /\ h[j] \in Nat
          /\ h[j + 1] \in Nat /\ h[m] \in Nat
      BY <1>1, <1>2, <3>1
    <3>4. m \in 0 .. j => h[m] <= h[j]
      BY <2>2, <3>1
    <3> QED BY <3>2, <3>3, <3>4
  <2>3. Nat \subseteq T
    <3> HIDE DEF T
    <3> QED BY <2>1, <2>2, NatSetInduction
  <2>4. n \in T
    BY <1>1, <2>3
  <2> QED BY <1>1, <2>4
<1>7. ASSUME NEW i \in 1 .. n
      PROVE  /\ InputOf(base, SubSeq(plan, i + 1, n)) \in Nat
             /\ InputOf(base, SubSeq(plan, i, n))
                   = plan[i].amountIn + InputOf(base, SubSeq(plan, i + 1, n))
             /\ InputOf(base, SubSeq(plan, i, n))
                   = InputOf(base + plan[i].amountIn, SubSeq(plan, i + 1, n))
  <2>1. /\ i \in 1 .. n + 1 /\ i + 1 \in 1 .. n + 1 /\ (i + 1) - 1 = i
        /\ i \in 0 .. n /\ i - 1 \in 0 .. n
        /\ plan[i].amountIn \in Nat /\ base + plan[i].amountIn \in Nat
    BY <1>1
  <2>2. /\ InputOf(base, SubSeq(plan, i + 1, n)) = base + h[n] - h[i]
        /\ InputOf(base, SubSeq(plan, i, n)) = base + h[n] - h[i - 1]
        /\ InputOf(base + plan[i].amountIn, SubSeq(plan, i + 1, n))
              = (base + plan[i].amountIn) + h[n] - h[i]
    BY <1>2, <2>1
  <2>3. h[i] = h[i - 1] + plan[i].amountIn
    BY <1>2, <2>1
  <2>4. h[i] \in Nat /\ h[i - 1] \in Nat /\ h[i] <= h[n]
    BY <1>2, <1>6, <2>1
  <2>5. /\ base + h[n] - h[i] \in Nat
        /\ base + h[n] - h[i - 1]
              = plan[i].amountIn + (base + h[n] - h[i])
        /\ base + h[n] - h[i - 1]
              = (base + plan[i].amountIn) + h[n] - h[i]
    <3> DEFINE was == h[i - 1]
               is == h[i]
               all == h[n]
               leg == plan[i].amountIn
    <3>1. /\ was \in Nat /\ is \in Nat /\ all \in Nat /\ leg \in Nat
          /\ is = was + leg /\ is <= all
      BY <1>3, <2>1, <2>3, <2>4
    <3> HIDE DEF was, is, all, leg
    <3>2. /\ base + all - is \in Nat
          /\ base + all - was = leg + (base + all - is)
          /\ base + all - was = (base + leg) + all - is
      BY <3>1
    <3> QED BY <3>2 DEF was, is, all, leg
  <2> QED BY <2>2, <2>5
<1>8. InputOf(0, plan) \in Nat
  BY <1>2, <1>3
<1> QED BY <1>4, <1>5, <1>7, <1>8

(***************************************************************************)
(* Ranking the candidates                                                  *)
(***************************************************************************)
\* A product of naturals is a natural, and grows with its factors.
LEMMA ScaleUp ==
    ASSUME NEW x \in Nat, NEW y \in Nat, NEW k \in Nat, x <= y
    PROVE  x * k <= y * k /\ x * k \in Nat /\ y * k \in Nat
  OBVIOUS

\* BetterThan is asymmetric...
LEMMA BetterIsAsymmetric ==
    ASSUME NEW a \in Candidates, NEW b \in Candidates, BetterThan(a, b)
    PROVE  ~BetterThan(b, a)
<1>1. /\ a.out * b.fill \in Nat /\ b.out * a.fill \in Nat
      /\ a.fill \in Nat /\ b.fill \in Nat
  BY MulNat DEF Candidates
<1> QED BY <1>1 DEF BetterThan

\* ... and its negation is transitive: a rate is a quotient.
LEMMA NoBetterIsTransitive ==
    ASSUME NEW a \in Candidates, NEW b \in Candidates, NEW c \in Candidates,
           ~BetterThan(a, b), ~BetterThan(b, c)
    PROVE  ~BetterThan(a, c)
<1> DEFINE ab == a.out * b.fill   ba == b.out * a.fill
           bc == b.out * c.fill   cb == c.out * b.fill
           ac == a.out * c.fill   ca == c.out * a.fill
<1>1. /\ a.fill \in Nat /\ a.fill > 0 /\ a.out \in Nat
      /\ b.fill \in Nat /\ b.fill > 0 /\ b.out \in Nat
      /\ c.fill \in Nat /\ c.fill > 0 /\ c.out \in Nat
  BY DEF Candidates
<1>2. /\ ab \in Nat /\ ba \in Nat /\ bc \in Nat /\ cb \in Nat
      /\ ac \in Nat /\ ca \in Nat
  BY <1>1, MulNat
<1>3. /\ ac * b.fill = ab * c.fill
      /\ ba * c.fill = bc * a.fill
      /\ cb * a.fill = ca * b.fill
  BY <1>1
<1>4. /\ ab <= ba /\ (ab = ba => a.fill <= b.fill)
      /\ bc <= cb /\ (bc = cb => b.fill <= c.fill)
      /\ BetterThan(a, c) <=> ac > ca \/ (ac = ca /\ a.fill > c.fill)
  BY <1>1, <1>2 DEF BetterThan
<1> HIDE DEF ab, ba, bc, cb, ac, ca
<1>5. ab * c.fill <= ba * c.fill /\ bc * a.fill <= cb * a.fill
  BY <1>1, <1>2, <1>4, ScaleUp
<1>6. /\ ab * c.fill \in Nat /\ ba * c.fill \in Nat /\ cb * a.fill \in Nat
      /\ ac * b.fill \in Nat /\ ca * b.fill \in Nat
  BY <1>1, <1>2, MulNat
<1>7. ac <= ca
  <2>1. ac * b.fill <= ca * b.fill
    BY <1>3, <1>5, <1>6
  <2> QED BY <1>1, <1>2, <2>1, MulCancel
<1>8. ac = ca => a.fill <= c.fill
  <2> SUFFICES ASSUME ac = ca PROVE a.fill <= c.fill
    OBVIOUS
  <2>1. ba * c.fill <= ab * c.fill /\ cb * a.fill <= bc * a.fill
    BY <1>3, <1>5, <1>6
  <2>2. ba <= ab /\ cb <= bc
    BY <1>1, <1>2, <2>1, MulCancel
  <2> QED BY <1>1, <1>2, <1>4, <2>2
<1> QED BY <1>1, <1>2, <1>4, <1>7, <1>8

Ranked(s) == \A i, j \in DOMAIN s : i < j => ~BetterThan(s[j], s[i])

DistinctVenues(s) == \A i, j \in DOMAIN s : i # j => s[i].venue # s[j].venue

Elements(s) == {s[i] : i \in DOMAIN s}

\* A bounded set of naturals has a largest member.
LEMMA MaxOfBounded ==
    ASSUME NEW n \in Nat, NEW S \in SUBSET (0 .. n), S # {}
    PROVE  Max(S) \in S /\ \A y \in S : Max(S) >= y
<1> DEFINE T == {k \in Nat : \A R \in SUBSET (0 .. k) :
                    R # {} => \E x \in R : \A y \in R : x >= y}
<1>1. 0 \in T
  <2> SUFFICES ASSUME NEW R \in SUBSET (0 .. 0), R # {}
               PROVE  \E x \in R : \A y \in R : x >= y
    OBVIOUS
  <2>1. \A y \in R : y = 0
    OBVIOUS
  <2>2. 0 \in R
    BY <2>1
  <2> QED BY <2>1, <2>2
<1>2. ASSUME NEW k \in Nat, k \in T PROVE k + 1 \in T
  <2> SUFFICES ASSUME NEW R \in SUBSET (0 .. k + 1), R # {}
               PROVE  \E x \in R : \A y \in R : x >= y
    OBVIOUS
  <2>1. CASE k + 1 \in R
    BY <2>1
  <2>2. CASE k + 1 \notin R
    <3>1. R \in SUBSET (0 .. k)
      BY <2>2
    <3> QED BY <1>2, <3>1
  <2> QED BY <2>1, <2>2
<1>3. Nat \subseteq T
  <2> HIDE DEF T
  <2> QED BY <1>1, <1>2, NatSetInduction
<1>4. \E x \in S : \A y \in S : x >= y
  BY <1>3
<1> QED BY <1>4 DEF Max

\* One round of the insertion sort keeps what is ranked ranked.
LEMMA InsertEffect ==
    ASSUME NEW s \in Seq(Candidates), Ranked(s), NEW key \in Candidates
    PROVE  LET r == InsertByRate(s, key)
           IN  /\ r \in Seq(Candidates)
               /\ Len(r) = Len(s) + 1
               /\ Ranked(r)
               /\ Elements(r) = Elements(s) \cup {key}
               /\ /\ DistinctVenues(s)
                  /\ \A i \in DOMAIN s : s[i].venue # key.venue
                  => DistinctVenues(r)
<1> DEFINE n == Len(s)
           Beaten == {i \in DOMAIN s : ~BetterThan(key, s[i])}
           place == Max({0} \cup Beaten)
           r == InsertByRate(s, key)
<1>1. n \in Nat /\ DOMAIN s = 1 .. n /\ \A i \in 1 .. n : s[i] \in Candidates
  OBVIOUS
<1>2. /\ place \in {0} \cup Beaten
      /\ \A y \in {0} \cup Beaten : place >= y
  <2>1. {0} \cup Beaten \in SUBSET (0 .. n)
    BY <1>1
  <2> HIDE DEF Beaten
  <2> QED BY <1>1, <2>1, MaxOfBounded
<1>3. r = SubSeq(s, 1, place) \o <<key>> \o SubSeq(s, place + 1, n)
  BY DEF InsertByRate
<1>4. /\ place \in 0 .. n
      /\ place > 0 => ~BetterThan(key, s[place])
      /\ \A i \in 1 .. n : i > place => BetterThan(key, s[i])
  BY <1>1, <1>2
<1> HIDE DEF place, r
<1>5. /\ r \in Seq(Candidates) /\ Len(r) = n + 1
      /\ \A i \in 1 .. n + 1 :
            r[i] = IF i <= place THEN s[i]
                   ELSE IF i = place + 1 THEN key ELSE s[i - 1]
  <2> DEFINE low == SubSeq(s, 1, place)
             high == SubSeq(s, place + 1, n)
             mid == low \o <<key>>
  <2>1. /\ low \in Seq(Candidates) /\ Len(low) = place
        /\ \A i \in 1 .. place : low[i] = s[i]
    BY <1>1, <1>4
  <2>2. /\ high \in Seq(Candidates) /\ Len(high) = n - place
        /\ \A i \in 1 .. n - place : high[i] = s[place + i]
    <3>1. /\ place + 1 \in Int /\ n \in Int /\ n - (place + 1) + 1 = n - place
          /\ \A i \in place + 1 .. n : s[i] \in Candidates
          /\ \A i \in 1 .. n - place : (place + 1) + i - 1 = place + i
      BY <1>1, <1>4
    <3>2. /\ high \in Seq(Candidates)
          /\ Len(high) = IF place + 1 <= n THEN n - (place + 1) + 1 ELSE 0
          /\ \A i \in 1 .. n - (place + 1) + 1 : high[i] = s[(place + 1) + i - 1]
      BY <3>1, SubSeqProperties
    <3>3. (IF place + 1 <= n THEN n - (place + 1) + 1 ELSE 0) = n - place
      <4>1. n \in Nat /\ place \in 0 .. n
        BY <1>1, <1>4
      <4> HIDE DEF n
      <4> QED BY <4>1
    <3> HIDE DEF high
    <3> QED BY <3>1, <3>2, <3>3
  <2> HIDE DEF low, high
  <2>3. /\ mid \in Seq(Candidates) /\ Len(mid) = place + 1
        /\ \A i \in 1 .. place + 1 :
              mid[i] = IF i <= place THEN s[i] ELSE key
    BY <1>1, <1>4, <2>1
  <2>4. r = mid \o high
    BY <1>3 DEF low, high
  <2> HIDE DEF mid
  <2>5. /\ r \in Seq(Candidates) /\ Len(r) = n + 1
        /\ \A i \in 1 .. n + 1 :
              r[i] = IF i <= place + 1 THEN mid[i]
                                       ELSE high[i - (place + 1)]
    <3>1. mid \o high \in Seq(Candidates)
      BY <2>2, <2>3
    <3>2. Len(mid) + Len(high) = n + 1
      BY <1>1, <1>4, <2>2, <2>3
    <3>3. /\ Len(mid \o high) = Len(mid) + Len(high)
          /\ \A i \in 1 .. Len(mid) + Len(high) :
                (mid \o high)[i] = IF i <= Len(mid) THEN mid[i]
                                   ELSE high[i - Len(mid)]
      BY <2>2, <2>3, ConcatProperties
    <3> QED BY <2>3, <2>4, <3>1, <3>2, <3>3
  <2>6. ASSUME NEW i \in 1 .. n + 1, i > place + 1
        PROVE  high[i - (place + 1)] = s[i - 1]
    <3>1. i - (place + 1) \in 1 .. n - place
          /\ place + (i - (place + 1)) = i - 1
      BY <1>1, <1>4, <2>6
    <3> QED BY <2>2, <3>1
  <2> QED BY <1>1, <1>4, <2>3, <2>5, <2>6
<1>6. DOMAIN r = 1 .. n + 1
  BY <1>1, <1>5
<1>7. \A i \in 1 .. n : i <= place => ~BetterThan(key, s[i])
  <2> SUFFICES ASSUME NEW i \in 1 .. n, i < place
               PROVE  ~BetterThan(key, s[i])
    BY <1>1, <1>4
  <2>1. place \in 1 .. n
    BY <1>1, <1>4
  <2>2. ~BetterThan(key, s[place]) /\ ~BetterThan(s[place], s[i])
    BY <1>1, <1>4, <2>1 DEF Ranked
  <2> QED BY <1>1, <2>1, <2>2, NoBetterIsTransitive
<1>8. \A i \in 1 .. n : i > place => ~BetterThan(s[i], key)
  BY <1>1, <1>4, BetterIsAsymmetric
<1>9. Ranked(r)
  <2> SUFFICES ASSUME NEW i \in 1 .. n + 1, NEW j \in 1 .. n + 1, i < j
               PROVE  ~BetterThan(r[j], r[i])
    BY <1>6 DEF Ranked
  <2>1. CASE j <= place
    BY <1>1, <1>4, <1>5, <2>1 DEF Ranked
  <2>2. CASE j = place + 1
    <3>1. i \in 1 .. n /\ i <= place
      BY <1>1, <1>4, <2>2
    <3> QED BY <1>4, <1>5, <1>7, <2>2, <3>1
  <2>3. CASE j > place + 1 /\ i = place + 1
    <3>1. j - 1 \in 1 .. n /\ j - 1 > place
      BY <1>1, <1>4, <2>3
    <3> QED BY <1>4, <1>5, <1>8, <2>3, <3>1
  <2>4. CASE j > place + 1 /\ i <= place
    <3>1. j - 1 \in 1 .. n /\ i \in 1 .. n /\ i < j - 1
      BY <1>1, <1>4, <2>4
    <3>2. r[j] = s[j - 1] /\ r[i] = s[i]
      BY <1>4, <1>5, <2>4
    <3> QED BY <1>1, <3>1, <3>2 DEF Ranked
  <2>5. CASE j > place + 1 /\ i > place + 1
    <3>1. j - 1 \in 1 .. n /\ i - 1 \in 1 .. n /\ i - 1 < j - 1
      BY <1>1, <1>4, <2>5
    <3>2. r[j] = s[j - 1] /\ r[i] = s[i - 1]
      BY <1>4, <1>5, <2>5
    <3> QED BY <1>1, <3>1, <3>2 DEF Ranked
  <2> QED BY <1>4, <2>1, <2>2, <2>3, <2>4, <2>5
<1>10. Elements(r) = Elements(s) \cup {key}
  <2>1. ASSUME NEW x \in Elements(r) PROVE x \in Elements(s) \cup {key}
    <3>1. PICK i \in 1 .. n + 1 : x = r[i]
      BY <1>6 DEF Elements
    <3>2. CASE i <= place
      <4>1. i \in 1 .. n /\ x = s[i]
        BY <1>1, <1>4, <1>5, <3>1, <3>2
      <4> QED BY <1>1, <4>1 DEF Elements
    <3>3. CASE i = place + 1
      BY <1>4, <1>5, <3>1, <3>3
    <3>4. CASE i > place + 1
      <4>1. i - 1 \in 1 .. n /\ x = s[i - 1]
        BY <1>1, <1>4, <1>5, <3>1, <3>4
      <4> QED BY <1>1, <4>1 DEF Elements
    <3> QED BY <1>1, <1>4, <3>1, <3>2, <3>3, <3>4
  <2>2. key \in Elements(r)
    <3>1. place + 1 \in 1 .. n + 1 /\ r[place + 1] = key
      BY <1>1, <1>4, <1>5
    <3> QED BY <1>6, <3>1 DEF Elements
  <2>3. ASSUME NEW i \in 1 .. n PROVE s[i] \in Elements(r)
    <3>1. CASE i <= place
      <4>1. i \in 1 .. n + 1 /\ r[i] = s[i]
        BY <1>1, <1>5, <3>1
      <4> QED BY <1>6, <4>1 DEF Elements
    <3>2. CASE i > place
      <4>1. i + 1 \in 1 .. n + 1 /\ i + 1 > place + 1 /\ (i + 1) - 1 = i
        BY <1>1, <1>4, <3>2
      <4>2. ~ i + 1 <= place /\ i + 1 # place + 1
        <5>1. n \in Nat /\ place \in 0 .. n /\ i \in 1 .. n
          BY <1>1, <1>4
        <5> HIDE DEF n
        <5> QED BY <3>2, <5>1
      <4>3. r[i + 1] = s[(i + 1) - 1]
        BY <1>5, <4>1, <4>2
      <4> QED BY <1>6, <4>1, <4>3 DEF Elements
    <3> QED BY <1>1, <1>4, <3>1, <3>2
  <2> QED BY <1>1, <2>1, <2>2, <2>3 DEF Elements
<1>11. ASSUME DistinctVenues(s), \A i \in DOMAIN s : s[i].venue # key.venue
       PROVE  DistinctVenues(r)
  <2> SUFFICES ASSUME NEW i \in 1 .. n + 1, NEW j \in 1 .. n + 1, i < j
               PROVE  r[i].venue # r[j].venue
    BY <1>1, <1>6 DEF DistinctVenues
  <2>1. CASE j <= place
    BY <1>1, <1>4, <1>5, <1>11, <2>1 DEF DistinctVenues
  <2>2. CASE j = place + 1
    <3>1. i \in DOMAIN s
      BY <1>1, <1>4, <2>2
    <3>2. r[i] = s[i] /\ r[j] = key
      <4>1. place \in Nat /\ i \in Nat /\ i <= place /\ ~ j <= place
        BY <1>1, <1>4, <2>2
      <4> HIDE DEF n
      <4> QED BY <1>5, <2>2, <4>1
    <3> QED BY <1>11, <3>1, <3>2
  <2>3. CASE j > place + 1 /\ i = place + 1
    <3>1. j - 1 \in DOMAIN s
      BY <1>1, <1>4, <2>3
    <3>2. r[j] = s[j - 1] /\ r[i] = key
      BY <1>4, <1>5, <2>3
    <3> QED BY <1>11, <3>1, <3>2
  <2>4. CASE j > place + 1 /\ i <= place
    <3>1. j - 1 \in 1 .. n /\ i \in 1 .. n /\ i # j - 1
      BY <1>1, <1>4, <2>4
    <3>2. r[j] = s[j - 1] /\ r[i] = s[i]
      BY <1>4, <1>5, <2>4
    <3> QED BY <1>1, <1>11, <3>1, <3>2 DEF DistinctVenues
  <2>5. CASE j > place + 1 /\ i > place + 1
    <3>1. j - 1 \in 1 .. n /\ i - 1 \in 1 .. n /\ i - 1 # j - 1
      BY <1>1, <1>4, <2>5
    <3>2. r[j] = s[j - 1] /\ r[i] = s[i - 1]
      BY <1>4, <1>5, <2>5
    <3> QED BY <1>1, <1>11, <3>1, <3>2 DEF DistinctVenues
  <2> QED BY <1>4, <2>1, <2>2, <2>3, <2>4, <2>5
<1> QED BY <1>5, <1>9, <1>10, <1>11 DEF r

LEMMA RankChain ==
    ASSUME NEW s, Len(s) \in Nat, DOMAIN s = 1 .. Len(s)
    PROVE  \E h : Chain(h, "rank", <<>>, s) /\ SortByRateDesc(s) = h[Len(s)]
<1> DEFINE n == Len(s)
           Is(g) == g = [S \in SUBSET (1 .. n) |->
                            IF S = {} THEN <<>>
                            ELSE InsertByRate(g[S \ {Max(S)}], s[Max(S)])]
           f == CHOOSE g : Is(g)
<1>1. SortByRateDesc(s) = f[1 .. n]
  BY DEF SortByRateDesc, FoldLeft, MapThenFoldSet
<1>2. ASSUME NEW g PROVE Is(g) <=> IsFold(g, "rank", <<>>, s, n)
  BY DEF IsFold, FoldStep
<1>3. \E g : Is(g)
  <2> HIDE DEF Is
  <2> QED BY <1>2, FoldExists
<1>4. IsFold(f, "rank", <<>>, s, n)
  <2> HIDE DEF Is
  <2> QED BY <1>2, <1>3
<1> HIDE DEF f
<1> QED BY <1>1, <1>4, ChainOfFold

\* sortByRateDesc, whose insertion sort the planning relies on: for any
\* candidates it returns the same ones, none of them better than one before it.
THEOREM RankingSorts ==
    ASSUME NEW s \in Seq(Candidates)
    PROVE  /\ SortByRateDesc(s) \in Seq(Candidates)
           /\ Len(SortByRateDesc(s)) = Len(s)
           /\ Elements(SortByRateDesc(s)) = Elements(s)
           /\ Ranked(SortByRateDesc(s))
           /\ DistinctVenues(s) => DistinctVenues(SortByRateDesc(s))
<1> DEFINE n == Len(s)
<1>1. n \in Nat /\ DOMAIN s = 1 .. n /\ \A i \in 1 .. n : s[i] \in Candidates
  OBVIOUS
<1>2. PICK h : Chain(h, "rank", <<>>, s) /\ SortByRateDesc(s) = h[n]
  BY <1>1, RankChain
<1>3. /\ h[0] = <<>>
      /\ \A k \in Nat : k < n => h[k + 1] = InsertByRate(h[k], s[k + 1])
  BY <1>2 DEF Chain, FoldStep
<1> DEFINE Sorted(k) == /\ h[k] \in Seq(Candidates)
                        /\ Len(h[k]) = k
                        /\ Elements(h[k]) = {s[i] : i \in 1 .. k}
                        /\ Ranked(h[k])
                        /\ DistinctVenues(s) => DistinctVenues(h[k])
           T == {k \in Nat : k <= n => Sorted(k)}
<1>4. 0 \in T
  <2>1. /\ <<>> \in Seq(Candidates) /\ Len(<<>>) = 0 /\ DOMAIN <<>> = {}
        /\ 1 .. 0 = {}
    OBVIOUS
  <2>2. Elements(<<>>) = {} /\ Ranked(<<>>) /\ DistinctVenues(<<>>)
    BY <2>1 DEF Elements, Ranked, DistinctVenues
  <2> QED BY <1>3, <2>1, <2>2
<1>5. ASSUME NEW k \in Nat, k \in T PROVE k + 1 \in T
  <2> SUFFICES ASSUME k + 1 <= n PROVE Sorted(k + 1)
    OBVIOUS
  <2> DEFINE key == s[k + 1]
             r == InsertByRate(h[k], key)
  <2>1. k < n /\ k + 1 \in 1 .. n /\ key \in Candidates /\ h[k + 1] = r
    BY <1>1, <1>3
  <2>2. Sorted(k)
    BY <1>1, <1>5, <2>1
  <2>3. /\ r \in Seq(Candidates) /\ Len(r) = k + 1 /\ Ranked(r)
        /\ Elements(r) = {s[i] : i \in 1 .. k} \cup {key}
        /\ /\ DistinctVenues(h[k])
           /\ \A i \in DOMAIN h[k] : h[k][i].venue # key.venue
           => DistinctVenues(r)
    <3> HIDE DEF key
    <3> QED BY <2>1, <2>2, InsertEffect
  <2>4. {s[i] : i \in 1 .. k} \cup {key} = {s[i] : i \in 1 .. k + 1}
    BY <2>1
  <2>5. ASSUME DistinctVenues(s), NEW i \in DOMAIN h[k]
        PROVE  h[k][i].venue # key.venue
    <3>1. h[k][i] \in {s[j] : j \in 1 .. k}
      BY <2>2 DEF Elements
    <3>2. PICK j \in 1 .. k : h[k][i] = s[j]
      BY <3>1
    <3>3. j \in 1 .. n /\ j # k + 1
      BY <1>1, <2>1
    <3> QED BY <1>1, <2>1, <2>5, <3>2, <3>3 DEF DistinctVenues
  <2> HIDE DEF r, key
  <2> QED BY <2>1, <2>2, <2>3, <2>4, <2>5
<1>6. Nat \subseteq T
  <2> HIDE DEF T
  <2> QED BY <1>4, <1>5, NatSetInduction
<1>7. Sorted(n)
  <2> HIDE DEF Sorted
  <2> QED BY <1>1, <1>6
<1>8. {s[i] : i \in 1 .. n} = Elements(s)
  BY <1>1 DEF Elements
<1> QED BY <1>2, <1>7, <1>8

(***************************************************************************)
(* Reference size and floors                                               *)
(***************************************************************************)
\* What placeable legs leave over is an amount.
LEMMA ResidualNat ==
    ASSUME NEW ranked \in Seq(Candidates), call.amountIn \in Nat
    PROVE  Residual(ranked) \in Nat
<1> DEFINE s == SubSeq(ranked, 1, Min({Len(ranked), MAX_LEGS}))
           n == Len(s)
           Is(g) == g = [S \in SUBSET (1 .. n) |->
                            IF S = {} THEN call.amountIn
                            ELSE IF s[Max(S)].fill >= g[S \ {Max(S)}] THEN 0
                                 ELSE g[S \ {Max(S)}] - s[Max(S)].fill]
           f == CHOOSE g : Is(g)
<1>1. Min({Len(ranked), MAX_LEGS}) \in {Len(ranked), MAX_LEGS}
      /\ Min({Len(ranked), MAX_LEGS}) <= Len(ranked)
  <2>1. Len(ranked) \in Nat /\ MAX_LEGS \in Nat
    BY SplitConstants
  <2>2. \E x \in {Len(ranked), MAX_LEGS} :
           \A y \in {Len(ranked), MAX_LEGS} : x <= y
    BY <2>1
  <2> QED BY <2>1, <2>2 DEF Min
<1>2. /\ n \in Nat /\ DOMAIN s = 1 .. n
      /\ \A i \in 1 .. n : s[i].fill \in Nat
  <2> DEFINE m == Min({Len(ranked), MAX_LEGS})
  <2>1. m \in Nat /\ m <= Len(ranked)
    BY <1>1, SplitConstants
  <2> HIDE DEF m
  <2>2. SubSeq(ranked, 1, m) \in Seq(Candidates)
    BY <2>1
  <2>3. \A x \in Candidates : x.fill \in Nat
    BY DEF Candidates
  <2>4. s \in Seq(Candidates)
    BY <2>2 DEF m
  <2> HIDE DEF s
  <2>5. \A i \in 1 .. n : s[i] \in Candidates
    BY <2>4
  <2> QED BY <2>3, <2>4, <2>5
<1>3. Residual(ranked) = f[1 .. n]
  BY <1>2 DEF Residual, FoldLeft, MapThenFoldSet
<1> HIDE DEF s
<1>4. ASSUME NEW g PROVE Is(g) <=> IsFold(g, "left", call.amountIn, s, n)
  BY DEF IsFold, FoldStep
<1>5. \E g : Is(g)
  <2> HIDE DEF Is
  <2> QED BY <1>2, <1>4, FoldExists
<1>6. IsFold(f, "left", call.amountIn, s, n)
  <2> HIDE DEF Is
  <2> QED BY <1>4, <1>5
<1> HIDE DEF f
<1>7. PICK h : Chain(h, "left", call.amountIn, s) /\ h[n] = f[1 .. n]
  BY <1>2, <1>6, ChainOfFold
<1>8. /\ h[0] = call.amountIn
      /\ \A k \in Nat : k < n =>
            h[k + 1] = IF s[k + 1].fill >= h[k] THEN 0 ELSE h[k] - s[k + 1].fill
  BY <1>7 DEF Chain, FoldStep
<1> DEFINE T == {k \in Nat : k <= n => h[k] \in Nat}
<1>9. 0 \in T
  BY <1>8
<1>10. ASSUME NEW k \in Nat, k \in T PROVE k + 1 \in T
  BY <1>2, <1>8, <1>10
<1>11. Nat \subseteq T
  <2> HIDE DEF T
  <2> QED BY <1>9, <1>10, NatSetInduction
<1> QED BY <1>2, <1>3, <1>7, <1>11

\* The reference is a fill of at least one.
LEMMA RefSizeNat ==
    ASSUME NEW ranked \in Seq(Candidates), call.amountIn \in Nat
    PROVE  RefSize(ranked) \in Nat
<1>1. Residual(ranked) \in Nat
  BY ResidualNat
<1>2. call.amountIn \div REF_DIVISOR \in Nat
  BY SplitConstants, DivBounds
<1>3. \E x \in {1, Residual(ranked), call.amountIn \div REF_DIVISOR} :
         \A y \in {1, Residual(ranked), call.amountIn \div REF_DIVISOR} : x >= y
  BY <1>1, <1>2
<1> QED BY <1>1, <1>2, <1>3 DEF RefSize, Max

\* The floor of a leg is its share of the quote, rounded down.
LEMMA ProRataBounds ==
    ASSUME NEW out \in Nat, NEW fill \in Nat, fill > 0, NEW leg \in Nat
    PROVE  /\ ProRataMin(out, fill, leg) \in Nat
           /\ ProRataMin(out, fill, leg) * fill <= out * leg
           /\ (ProRataMin(out, fill, leg) + 1) * fill > out * leg
<1>1. CASE leg = fill
  <2>1. out * fill \in Nat /\ (out + 1) * fill = out * fill + fill
    BY MulNat
  <2> QED BY <1>1, <2>1 DEF ProRataMin
<1>2. CASE leg # fill
  <2> DEFINE q == (out * leg) \div fill
  <2>1. out * leg \in Nat
    BY MulNat
  <2>2. q \in Nat /\ fill * q <= out * leg /\ out * leg < fill * q + fill
    BY <2>1, DivBounds
  <2>3. ProRataMin(out, fill, leg) = q
    BY <1>2 DEF ProRataMin
  <2> HIDE DEF q
  <2>4. q * fill = fill * q /\ (q + 1) * fill = fill * q + fill
    BY <2>2
  <2> QED BY <2>2, <2>3, <2>4
<1> QED BY <1>1, <1>2

\* Floor division: the quotient is the largest whose multiple fits.
LEMMA QuotientLargest ==
    ASSUME NEW a \in Nat, NEW b \in Nat, b > 0, NEW k \in Nat, b * k <= a
    PROVE  k <= a \div b
<1> DEFINE q == a \div b
<1>1. q \in Nat /\ a < b * q + b
  BY DivBounds
<1>2. b * k < b * (q + 1)
  <2>1. b * (q + 1) = b * q + b
    BY <1>1
  <2> HIDE DEF q
  <2> QED BY <1>1, <2>1
<1>3. k < q + 1
  BY <1>1, <1>2
<1> QED BY <1>1, <1>3

\* proRataMin's comment: for a venue with a linear price (num for den, rounded
\* down) the floor of a leg is never above what the venue delivers for it.
THEOREM FloorAlwaysMet ==
    ASSUME NEW num \in Nat, NEW den \in Nat, den > 0,
           NEW fill \in Nat, fill > 0, NEW leg \in Nat
    PROVE  ProRataMin((num * fill) \div den, fill, leg) <= (num * leg) \div den
<1> DEFINE out == (num * fill) \div den
           min == (out * leg) \div fill
<1>1. num * fill \in Nat /\ num * leg \in Nat
  BY ScaleUp
<1>2. out \in Nat /\ den * out <= num * fill
  BY <1>1, DivBounds
<1>3. out * leg \in Nat
  BY <1>2, ScaleUp
<1>4. min \in Nat /\ fill * min <= out * leg
  BY <1>3, DivBounds
<1> HIDE DEF out, min
<1>5. (den * min) * fill <= (num * leg) * fill
  <2>1. /\ (fill * min) * den <= (out * leg) * den
        /\ (fill * min) * den \in Nat /\ (out * leg) * den \in Nat
    <3>1. fill * min \in Nat
      BY <1>4
    <3> QED BY <1>3, <1>4, <3>1, ScaleUp
  <2>2. /\ (den * out) * leg <= (num * fill) * leg
        /\ (den * out) * leg \in Nat /\ (num * fill) * leg \in Nat
    <3>1. den * out \in Nat
      BY <1>2
    <3> QED BY <1>1, <1>2, <3>1, ScaleUp
  <2>3. (den * min) * fill = (fill * min) * den
    BY <1>4
  <2>4. (out * leg) * den = (den * out) * leg
    BY <1>2
  <2>5. (num * fill) * leg = (num * leg) * fill
    OBVIOUS
  <2> QED BY <2>1, <2>2, <2>3, <2>4, <2>5
<1>6. den * min \in Nat /\ den * min <= num * leg
  <2>1. den * min \in Nat
    BY <1>4
  <2> QED BY <1>1, <1>5, <2>1, MulCancel
<1>7. min <= (num * leg) \div den
  BY <1>1, <1>4, <1>6, QuotientLargest
<1>8. CASE leg = fill
  <2>1. ProRataMin(out, fill, leg) = (num * leg) \div den
    BY <1>8 DEF ProRataMin, out
  <2>2. (num * leg) \div den \in Nat
    BY <1>1, DivBounds
  <2> QED BY <2>1, <2>2 DEF out
<1>9. CASE leg # fill
  BY <1>7, <1>9 DEF ProRataMin, out, min
<1> QED BY <1>8, <1>9

(***************************************************************************)
(* Honest venues                                                           *)
(***************************************************************************)
\* sizes halves from, as often as the budget allows.
Halving(sizes, from) ==
    sizes = [k \in 0 .. MAX_SATURATION_STEPS |-> IF k = 0 THEN from ELSE sizes[k - 1] \div 2]

\* It is a list of sizes, none above the first.
LEMMA HalvesShrink ==
    ASSUME NEW from \in Nat
    PROVE  /\ \E sizes : Halving(sizes, from)
           /\ \A sizes : Halving(sizes, from) =>
                 \A k \in 0 .. MAX_SATURATION_STEPS : sizes[k] \in 0 .. from
<1> DEFINE M == MAX_SATURATION_STEPS
           Upto(f, n) == f = [k \in 0 .. n |-> IF k = 0 THEN from ELSE f[k - 1] \div 2]
           T == {n \in Nat : \E f : Upto(f, n)}
<1>1. M \in Nat
  BY PlannerConstants
<1>2. 0 \in T
  <2>1. Upto([k \in 0 .. 0 |-> from], 0)
    OBVIOUS
  <2> HIDE DEF Upto
  <2> QED BY <2>1
<1>3. ASSUME NEW n \in Nat, n \in T PROVE n + 1 \in T
  <2>1. PICK f : Upto(f, n)
    BY <1>3
  <2> DEFINE g == [k \in 0 .. n + 1 |-> IF k = n + 1 THEN f[n] \div 2 ELSE f[k]]
  <2>2. \A k \in 0 .. n : f[k] = IF k = 0 THEN from ELSE f[k - 1] \div 2
    BY <2>1
  <2>3. ASSUME NEW k \in 0 .. n + 1
        PROVE  g[k] = IF k = 0 THEN from ELSE g[k - 1] \div 2
    <3>1. CASE k = n + 1
      <4>1. g[k] = f[n] \div 2 /\ k # 0 /\ k - 1 \in 0 .. n + 1 /\ k - 1 = n /\ n # n + 1
        BY <3>1
      <4>2. g[k - 1] = f[n]
        BY <4>1
      <4> QED BY <4>1, <4>2
    <3>2. CASE k # n + 1
      <4>1. k \in 0 .. n /\ g[k] = f[k]
        BY <3>2
      <4>2. k # 0 => k - 1 \in 0 .. n + 1 /\ k - 1 # n + 1 /\ g[k - 1] = f[k - 1]
        BY <4>1
      <4> HIDE DEF g
      <4> QED BY <2>2, <4>1, <4>2
    <3> QED BY <3>1, <3>2
  <2>4. g = [k \in 0 .. n + 1 |-> g[k]]
    OBVIOUS
  <2>5. Upto(g, n + 1)
    <3> HIDE DEF g
    <3> QED BY <2>3, <2>4
  <2> HIDE DEF Upto, g
  <2> QED BY <2>5
<1>4. Nat \subseteq T
  <2> HIDE DEF T
  <2> QED BY <1>2, <1>3, NatSetInduction
<1>5. \E sizes : Halving(sizes, from)
  BY <1>1, <1>4 DEF Halving
<1>6. ASSUME NEW sizes, Halving(sizes, from)
      PROVE  \A k \in 0 .. M : sizes[k] \in 0 .. from
  <2> DEFINE S == {n \in Nat : n <= M => sizes[n] \in 0 .. from}
  <2>1. \A k \in 0 .. M : sizes[k] = IF k = 0 THEN from ELSE sizes[k - 1] \div 2
    BY <1>1, <1>6 DEF Halving
  <2>2. 0 \in S
    BY <1>1, <2>1
  <2>3. ASSUME NEW n \in Nat, n \in S PROVE n + 1 \in S
    <3> SUFFICES ASSUME n + 1 <= M PROVE sizes[n + 1] \in 0 .. from
      OBVIOUS
    <3>1. sizes[n] \in 0 .. from
      BY <1>1, <2>3
    <3>2. sizes[n + 1] = sizes[n] \div 2
      BY <1>1, <2>1
    <3>3. \A x \in Nat : x \div 2 \in Nat /\ x \div 2 <= x
      OBVIOUS
    <3> HIDE DEF M
    <3> QED BY <3>1, <3>2, <3>3
  <2>4. Nat \subseteq S
    <3> HIDE DEF S
    <3> QED BY <2>2, <2>3, NatSetInduction
  <2> QED BY <1>1, <2>4
<1> QED BY <1>5, <1>6

\* A set of numbers has a least one.
LEMMA MinOfNumbers ==
    ASSUME NEW S \in SUBSET Nat, S # {}
    PROVE  Min(S) \in S
<1>1. PICK n \in S : \A y \in S : ~(<<y, n>> \in OpToRel(<, Nat))
  BY WFMin, NatLessThanWellFounded
<1>2. ASSUME NEW y \in S PROVE n <= y
  <2>1. y \in Nat /\ n \in Nat
    OBVIOUS
  <2>2. ~ y < n
    BY <1>1, <2>1 DEF OpToRel
  <2> QED BY <2>1, <2>2
<1> QED BY <1>2 DEF Min

\* A probe that halves further ends where the venue quotes strictly less than its
\* ceiling, below the half.
LEMMA ProbeDownIsBelow ==
    ASSUME NEW q, \A size \in Nat : q[size] \in Nat, NEW from \in Nat, NEW ceiling \in Nat,
           ProbeDownToFillable(q, from, ceiling).fill # 0
    PROVE  LET probe == ProbeDownToFillable(q, from, ceiling)
           IN  /\ probe.fill \in 1 .. from
               /\ probe.out = q[probe.fill] /\ q[probe.fill] < ceiling
<1> DEFINE sizes == CHOOSE f : Halving(f, from)
           Ends(k) == \/ sizes[k] = 0
                      \/ Clamp(q[sizes[k]]) = 0
                      \/ q[sizes[k]] < ceiling
           ends == {k \in 1 .. MAX_SATURATION_STEPS : Ends(k)}
           last == sizes[Min(ends)]
           probe == ProbeDownToFillable(q, from, ceiling)
<1>1. MAX_SATURATION_STEPS \in Nat /\ ends \subseteq 1 .. MAX_SATURATION_STEPS
  BY PlannerConstants
<1>2. \A k \in 0 .. MAX_SATURATION_STEPS : sizes[k] \in 0 .. from
  BY HalvesShrink
<1>3. probe = IF ends = {} \/ last = 0 \/ Clamp(q[last]) = 0 THEN NoFill
              ELSE [fill |-> last, out |-> q[last]]
  BY DEF ProbeDownToFillable, Halving
<1> HIDE DEF probe
<1>4. /\ ends # {} /\ last # 0 /\ Clamp(q[last]) # 0
      /\ probe = [fill |-> last, out |-> q[last]]
  <2>1. probe # NoFill
    BY DEF NoFill, probe
  <2> HIDE DEF ends, last
  <2> QED BY <1>3, <2>1
<1>5. Min(ends) \in ends
  <2>1. ends \in SUBSET Nat
    BY <1>1
  <2> HIDE DEF ends
  <2> QED BY <1>4, <2>1, MinOfNumbers
<1>6. Ends(Min(ends)) /\ Min(ends) \in 0 .. MAX_SATURATION_STEPS
  <2>1. Ends(Min(ends)) /\ Min(ends) \in 1 .. MAX_SATURATION_STEPS
    BY <1>5
  <2> HIDE DEF Ends, ends
  <2>2. 1 .. MAX_SATURATION_STEPS \subseteq 0 .. MAX_SATURATION_STEPS
    BY <1>1
  <2> QED BY <2>1, <2>2
<1>7. last \in 0 .. from
  <2> HIDE DEF sizes, ends
  <2> QED BY <1>2, <1>6
<1>8. q[last] < ceiling
  <2> HIDE DEF sizes, ends
  <2> QED BY <1>4, <1>6
<1> HIDE DEF last
<1>9. probe.fill = last /\ probe.out = q[last]
  BY <1>4
<1>10. probe.fill \in 1 .. from /\ probe.out = q[probe.fill] /\ q[probe.fill] < ceiling
  BY <1>4, <1>7, <1>8, <1>9
<1> QED BY <1>10 DEF probe

\* What an honest venue quotes: the linear price until its capacity is reached.
LEMMA HonestQuotes ==
    ASSUME price \in Nat, capacity \in Nat
    PROVE  /\ \A s \in Nat : Curve[s] \in Nat /\ s * price \in Nat
           /\ \A s, t \in Nat : s <= t => Curve[s] <= Curve[t]
           /\ \A s, t \in Nat : Curve[s] < Curve[t] => Curve[s] = s * price
<1>1. \A s \in Nat : s * price \in Nat
  OBVIOUS
<1>2. \A s \in Nat : Curve[s] = IF s * price <= capacity THEN s * price ELSE capacity
  BY DEF Curve
<1>3. \A s \in Nat : /\ Curve[s] \in Nat /\ Curve[s] <= capacity
                     /\ Curve[s] < capacity => Curve[s] = s * price
  BY <1>1, <1>2
<1>4. ASSUME NEW s \in Nat, NEW t \in Nat, s <= t PROVE Curve[s] <= Curve[t]
  <2>1. s * price <= t * price /\ s * price \in Nat /\ t * price \in Nat
    BY <1>4, ScaleUp
  <2> QED BY <1>2, <1>3, <2>1
<1>5. ASSUME NEW s \in Nat, NEW t \in Nat, Curve[s] < Curve[t] PROVE Curve[s] = s * price
  <2>1. /\ Curve[s] \in Nat /\ Curve[t] \in Nat /\ Curve[t] <= capacity
        /\ Curve[s] < capacity => Curve[s] = s * price
    BY <1>3
  <2> QED BY <1>5, <2>1
<1> QED BY <1>1, <1>3, <1>4, <1>5

\* Of the whole order an honest venue is found to fill all but the tolerance.
LEMMA WholeIsAlmostFilled ==
    ASSUME NEW out \in Nat, NEW half \in Nat, NEW p \in Nat, 2 * half >= p - 1, p > 0,
           NEW rate \in Nat, ~IsSaturated(out, half * rate)
    PROVE  out * BPS >= (p - 1) * rate * (BPS - SATURATION_TOLERANCE_BPS)
<1> DEFINE R == BPS - SATURATION_TOLERANCE_BPS
           w == half * rate
<1>1. R \in Nat /\ BPS \in Nat /\ w \in Nat /\ p - 1 \in Nat /\ 2 * half \in Nat
  BY PlannerConstants, ScaleUp
<1> HIDE DEF R
<1>2. 2 * w * R \in Nat /\ out * BPS \in Nat /\ out * BPS >= 2 * w * R
  <2>1. out * BPS \in Nat /\ 2 * w \in Nat
    BY <1>1, ScaleUp
  <2>2. (2 * w) * R \in Nat
    BY <1>1, <2>1, ScaleUp
  <2>3. ~ out * BPS < 2 * w * R
    BY DEF IsSaturated, R
  <2> QED BY <2>1, <2>2, <2>3
<1>3. (p - 1) * rate <= (2 * half) * rate /\ (p - 1) * rate \in Nat /\ (2 * half) * rate \in Nat
  BY <1>1, ScaleUp
<1>4. /\ ((p - 1) * rate) * R <= ((2 * half) * rate) * R
      /\ ((p - 1) * rate) * R \in Nat /\ ((2 * half) * rate) * R \in Nat
  BY <1>1, <1>3, ScaleUp
<1>5. (2 * half) * rate = 2 * w
  OBVIOUS
<1> HIDE DEF w
<1>6. out * BPS >= ((p - 1) * rate) * R
  BY <1>2, <1>4, <1>5
<1> QED BY <1>6 DEF R

LEMMA HonestStarts == HonestSpec => [](order \in Sizes /\ price \in Prices /\ capacity \in Capacities)
<1>1. HonestInit => order \in Sizes /\ price \in Prices /\ capacity \in Capacities
  BY DEF HonestInit
<1>2. /\ order \in Sizes /\ price \in Prices /\ capacity \in Capacities
      /\ [Reprice]_honestVars
      => (order \in Sizes /\ price \in Prices /\ capacity \in Capacities)'
  BY DEF Reprice, honestVars
<1> QED BY <1>1, <1>2, PTL DEF HonestSpec

\* Whatever it is asked for, the router's probe of it says what it fills.
LEMMA ProbeIsHonest ==
    ASSUME order \in Sizes, price \in Prices, capacity \in Capacities
    PROVE  ProbesFitCapacity
<1> DEFINE p == order
           q == Curve
           half == p \div 2
           outFull == Clamp(q[p])
           outHalf == Clamp(q[half])
           probe == Probe(q, p)
<1>1. /\ p \in Nat /\ p > 0 /\ price \in Nat /\ price > 0 /\ capacity \in Nat
      /\ half \in Nat /\ half < p /\ 2 * half >= p - 1
      /\ MAX_UINT128 \in Nat
  BY HonestInputs, PlannerConstants
<1>2. /\ \A s \in Nat : q[s] \in Nat /\ s * price \in Nat
      /\ \A s, t \in Nat : s <= t => q[s] <= q[t]
      /\ \A s, t \in Nat : q[s] < q[t] => q[s] = s * price
  BY <1>1, HonestQuotes
<1> HIDE DEF q, half, p
<1>3. /\ q[p] \in Nat /\ q[half] \in Nat /\ q[half] <= q[p]
      /\ q[half] < q[p] => q[half] = half * price
      /\ outFull \in {0, q[p]} /\ outHalf \in {0, q[half]}
      /\ outFull = 0 /\ q[p] # 0 => q[p] > MAX_UINT128
      /\ outHalf = 0 /\ q[half] # 0 => q[half] > MAX_UINT128
      /\ outFull # 0 => outFull <= MAX_UINT128
      /\ outHalf # 0 => outHalf <= MAX_UINT128
  BY <1>1, <1>2 DEF Clamp
<1> DEFINE Full == [fill |-> p, out |-> outFull]
           Half == [fill |-> half, out |-> outHalf]
<1>4. probe = CASE half = 0 -> Full
                [] half > 0 /\ outHalf = 0 /\ outFull = 0 -> NoFill
                [] half > 0 /\ outHalf > 0 /\ outFull = 0 -> Half
                [] half > 0 /\ outHalf = 0 /\ outFull > 0 -> Full
                [] half > 0 /\ outHalf > 0 /\ outFull > 0 ->
                      IF outFull = outHalf THEN ProbeDownToFillable(q, half, outFull)
                      ELSE IF IsSaturated(outFull, outHalf) THEN Half ELSE Full
  BY DEF Probe, half
<1> HIDE DEF probe, outFull, outHalf
<1>5. SUFFICES ASSUME Usable(probe)
               PROVE  /\ probe.fill <= p /\ probe.out = q[probe.fill]
                      /\ probe.fill < p => probe.out = probe.fill * price
                      /\ probe.fill = p /\ q[half] > 0 =>
                            probe.out * BPS >=
                               (p - 1) * price * (BPS - SATURATION_TOLERANCE_BPS)
  BY DEF ProbesFitCapacity, probe, q, half, p
<1>6. probe.fill > 0 /\ probe.out > 0
  BY <1>5 DEF Usable
<1>7. CASE half = 0
  <2>1. probe = Full
    BY <1>4, <1>7
  <2>2. q[half] = 0
    BY <1>1, <1>7 DEF q, Curve
  <2> QED BY <1>1, <1>3, <1>6, <2>1, <2>2
<1>8. CASE half > 0 /\ outHalf = 0 /\ outFull = 0
  <2>1. probe = NoFill
    BY <1>1, <1>4, <1>8
  <2> QED BY <1>6, <2>1 DEF NoFill
\* The whole is beyond what a quote holds: the half is below it.
<1>9. CASE half > 0 /\ outHalf > 0 /\ outFull = 0
  <2>1. probe = Half
    BY <1>1, <1>3, <1>4, <1>9
  <2>2. outHalf = q[half] /\ q[half] < q[p]
    BY <1>1, <1>3, <1>9
  <2> QED BY <1>1, <1>3, <2>1, <2>2
\* If the half is beyond what a quote holds then so is the whole.
<1>10. CASE half > 0 /\ outHalf = 0 /\ outFull > 0
  <2>1. probe = Full
    BY <1>1, <1>3, <1>4, <1>10
  <2>2. q[half] = 0
    BY <1>1, <1>3, <1>10
  <2> QED BY <1>1, <1>3, <1>10, <2>1, <2>2
<1>11. CASE half > 0 /\ outHalf > 0 /\ outFull > 0 /\ outFull = outHalf
  <2>1. probe = ProbeDownToFillable(q, half, outFull)
    BY <1>1, <1>3, <1>4, <1>11
  <2>2. /\ probe.fill \in 1 .. half /\ probe.out = q[probe.fill]
        /\ q[probe.fill] < outFull
    <3>1. /\ \A size \in Nat : q[size] \in Nat
          /\ half \in Nat /\ outFull \in Nat
          /\ ProbeDownToFillable(q, half, outFull).fill # 0
      BY <1>1, <1>2, <1>3, <1>6, <2>1
    <3> QED BY <2>1, <3>1, ProbeDownIsBelow
  <2>3. probe.fill \in Nat /\ q[probe.fill] < q[p]
    BY <1>1, <1>3, <1>11, <2>2
  <2>4. q[probe.fill] = probe.fill * price
    BY <1>1, <1>2, <2>3
  <2> QED BY <1>1, <2>2, <2>4
<1>12. CASE half > 0 /\ outHalf > 0 /\ outFull > 0 /\ outFull # outHalf
  <2>1. outHalf = q[half] /\ outFull = q[p] /\ q[half] = half * price
    BY <1>1, <1>3, <1>12
  <2>2. CASE IsSaturated(outFull, outHalf)
    <3>1. probe = Half
      BY <1>1, <1>3, <1>4, <1>12, <2>2
    <3> QED BY <1>1, <2>1, <3>1
  <2>3. CASE ~IsSaturated(outFull, outHalf)
    <3>1. probe = Full
      BY <1>1, <1>3, <1>4, <1>12, <2>3
    <3>2. q[p] * BPS >= (p - 1) * price * (BPS - SATURATION_TOLERANCE_BPS)
      BY <1>1, <1>3, <2>1, <2>3, WholeIsAlmostFilled
    <3> QED BY <1>1, <2>1, <3>1, <3>2
  <2> QED BY <2>2, <2>3
<1> QED BY <1>1, <1>3, <1>7, <1>8, <1>9, <1>10, <1>11, <1>12

\* The comment of _probeDownToFillable: a size that quotes strictly below the ceiling
\* is one the venue fills in full; and of the whole order it keeps no more than the
\* tolerance.
THEOREM ProbesFit == HonestSpec => []ProbesFitCapacity
BY ProbeIsHonest, HonestStarts, PTL

\* No leg of an honest venue fails on rounding.
THEOREM FloorsMet == HonestSpec => []FloorsAreMet
<1>1. order \in Sizes /\ price \in Prices => FloorsAreMet
  BY HonestInputs, FloorAlwaysMet DEF FloorsAreMet
<1> QED BY <1>1, HonestStarts, PTL

(***************************************************************************)
(* The plan: what is invariant about it                                    *)
(***************************************************************************)
Phases == {"idle", "enter", "probe", "place", "bracket", "legs", "venue",
           "uniswap", "uniReturn", "total", "deliver", "disburse", "done"}

PlanTypeOK ==
    /\ pc \in Phases
    /\ call \in Calls \cup {None}
    /\ pc # "idle" => call \in Calls
    /\ venues \in VenueLists
    /\ fb \in Fallbacks
    /\ paused \in BOOLEAN
    /\ probed \in 0 .. Len(venues)
    /\ cands \in Seq(Candidates)
    /\ next \in Nat
    /\ ref \in [fill : Nat, out : Nat]
    /\ refined \in BOOLEAN
    /\ legs \in Seq(Legs)
    /\ failed \in Nat
    /\ makers \in SUBSET Listable

\* Nothing is left of an earlier plan.
Unplanned ==
    /\ pc \in {"idle", "enter"} => NoPlan
    /\ pc = "probe" => next = 0 /\ legs = <<>> /\ failed = 0

\* The candidates are venues asked so far, each once, the fallback excepted;
\* once ranked they stay so.
QuotesIntact ==
    pc \in {"probe", "place", "bracket"} =>
       /\ DistinctVenues(cands)
       /\ \A i \in DOMAIN cands : cands[i].venue # fb
       /\ pc = "probe" =>
             \A i \in DOMAIN cands :
                \E k \in 1 .. probed : cands[i].venue = venues[k]
       /\ pc # "probe" => Ranked(cands)

\* Leg k is carved from the quote of candidate k.
Follows(k) ==
    /\ legs[k].venue = cands[k].venue
    /\ legs[k].amountIn \in 1 .. cands[k].fill
    /\ legs[k].minOut = ProRataMin(cands[k].out, cands[k].fill, legs[k].amountIn)

\* The legs placed so far are those of the best candidates, in order, and ask
\* for no more than the order.
WaterfallIntact ==
    pc = "place" =>
       /\ failed = 0
       /\ next = Len(legs) + 1
       /\ Len(legs) <= Len(cands) /\ Len(legs) <= MAX_LEGS
       /\ Allocated <= call.amountIn
       /\ \A k \in DOMAIN legs : Follows(k)

\* The legs are run in order.
LegsIntact ==
    /\ pc = "bracket" => next = 1 /\ failed = 0
    /\ pc \in {"legs", "venue"} => next \in 1 .. Len(legs) + 1
    /\ pc = "venue" => next <= Len(legs)

PlanInv ==
    /\ PlanTypeOK
    /\ Unplanned
    /\ QuotesIntact
    /\ WaterfallIntact
    /\ LegsIntact
    /\ PlanCoversInput
    /\ PlanHonoursQuotes

\* What the arguments of the running call are.
LEMMA CallFacts ==
    ASSUME call \in Calls
    PROVE  /\ Arguments
           /\ call.amountIn \in Nat
           /\ Market[call] \in MarketType
<1>1. call \in CallType
  BY CallsAreCalls
<1>2. Arguments
  BY <1>1 DEF CallType, Arguments
<1> QED BY <1>2, MarketOfCalls DEF Arguments

LEMMA ListFacts ==
    ASSUME PlanTypeOK
    PROVE  /\ venues \in Seq(Listable) /\ IsInjective(venues)
           /\ Len(venues) \in Nat /\ DOMAIN venues = 1 .. Len(venues)
           /\ fb \in Listable
<1>1. venues \in Seq(Listable) /\ IsInjective(venues)
  BY VenueListsAreSets DEF PlanTypeOK
<1> QED BY <1>1 DEF PlanTypeOK, Listable

LEMMA NothingPlanned ==
    /\ <<>> \in Seq(Candidates) /\ <<>> \in Seq(Legs)
    /\ NoFill \in [fill : Nat, out : Nat]
  BY DEF NoFill

LEMMA PlanInit == Init => PlanInv
<1> SUFFICES ASSUME Init PROVE PlanInv
  OBVIOUS
<1>1. /\ pc = "idle" /\ call = None /\ venues \in VenueLists
      /\ fb \in Fallbacks /\ paused = FALSE /\ NoPlan
  BY DEF Init
<1>2. Len(venues) \in Nat
  BY <1>1, VenueListsAreSets
<1>3. PlanTypeOK
  <2>1. /\ probed \in 0 .. Len(venues) /\ next \in Nat /\ failed \in Nat
        /\ makers \in SUBSET Listable
    BY <1>1, <1>2 DEF NoPlan
  <2>3. refined \in BOOLEAN
    BY <1>1 DEF NoPlan
  <2>2. /\ cands \in Seq(Candidates) /\ legs \in Seq(Legs)
        /\ ref \in [fill : Nat, out : Nat]
    BY <1>1, NothingPlanned DEF NoPlan
  <2> QED BY <1>1, <2>1, <2>2, <2>3 DEF PlanTypeOK, Phases
<1> QED BY <1>1, <1>3
           DEF PlanInv, Unplanned, QuotesIntact, WaterfallIntact, LegsIntact,
               PlanCoversInput, PlanHonoursQuotes

\* When the call ends the plan is forgotten.
LEMMA PlanDropped ==
    ASSUME PlanInv, Drop, pc' = "idle", call' = None,
           UNCHANGED <<venues, fb, paused>>
    PROVE  PlanInv'
<1>1. Len(venues) \in Nat
  BY ListFacts DEF PlanInv
<1>2. PlanTypeOK'
  <2>1. /\ probed' \in 0 .. Len(venues') /\ next' \in Nat /\ failed' \in Nat
        /\ makers' \in SUBSET Listable
    BY <1>1 DEF Drop
  <2>3. refined' \in BOOLEAN
    BY DEF Drop
  <2>2. /\ cands' \in Seq(Candidates) /\ legs' \in Seq(Legs)
        /\ ref' \in [fill : Nat, out : Nat]
    BY NothingPlanned DEF Drop
  <2> QED BY <2>1, <2>2, <2>3 DEF PlanInv, PlanTypeOK, Phases
<1>3. Unplanned'
  BY DEF Drop, Unplanned, NoPlan
<1> QED BY <1>2, <1>3
           DEF PlanInv, QuotesIntact, WaterfallIntact, LegsIntact,
               PlanCoversInput, PlanHonoursQuotes

\* Steps that leave the plan alone and go to a phase that asks no more of it.
LEMMA PlanKept ==
    ASSUME PlanInv, UNCHANGED <<call, venues, fb, paused>>,
           UNCHANGED <<probed, cands, next, ref, refined, legs, failed>>,
           makers' \in SUBSET Listable,
           pc \notin {"idle", "enter"},
           pc' \in {pc, "uniswap", "uniReturn", "total", "deliver", "disburse",
                    "done"}
    PROVE  PlanInv'
<1>1. PlanTypeOK'
  BY DEF PlanInv, PlanTypeOK, Phases
<1>2. Unplanned' /\ QuotesIntact' /\ LegsIntact'
  BY DEF PlanInv, Unplanned, QuotesIntact, LegsIntact
<1>3. WaterfallIntact'
  BY DEF PlanInv, WaterfallIntact, Allocated, Follows
<1>4. PlanCoversInput' /\ PlanHonoursQuotes'
  BY DEF PlanInv, PlanCoversInput, PlanHonoursQuotes, Allocated
<1> QED BY <1>1, <1>2, <1>3, <1>4 DEF PlanInv

\* Steps outside a call, and its first.
LEMMA PlanUntouched ==
    ASSUME PlanInv, UNCHANGED <<venues, fb, planVars>>, paused' \in BOOLEAN,
           \/ UNCHANGED <<pc, call>>
           \/ pc = "idle" /\ pc' = "enter" /\ call' \in Calls
    PROVE  PlanInv'
<1> USE DEF planVars
<1>1. PlanTypeOK'
  BY DEF PlanInv, PlanTypeOK, Phases
<1>2. Unplanned' /\ QuotesIntact' /\ LegsIntact'
  BY DEF PlanInv, Unplanned, NoPlan, QuotesIntact, LegsIntact
<1>3. WaterfallIntact'
  BY DEF PlanInv, WaterfallIntact, Allocated, Follows
<1>4. PlanCoversInput' /\ PlanHonoursQuotes'
  BY DEF PlanInv, PlanCoversInput, PlanHonoursQuotes, Allocated
<1> QED BY <1>1, <1>2, <1>3, <1>4 DEF PlanInv

(***************************************************************************)
(* The plan is made                                                        *)
(***************************************************************************)
LEMMA PlanPull == ASSUME PlanInv, Pull PROVE PlanInv'
<1>1. /\ pc = "enter" /\ pc' = "probe" /\ NoPlan
      /\ UNCHANGED <<venues, fb, paused, call, probed, cands, next, ref,
                     refined, legs, failed, makers>>
  BY DEF Pull, PlanInv, Unplanned
<1>2. PlanTypeOK'
  BY <1>1 DEF PlanInv, PlanTypeOK, Phases
<1>3. Unplanned' /\ QuotesIntact'
  BY <1>1 DEF NoPlan, Unplanned, QuotesIntact, DistinctVenues
<1> QED BY <1>1, <1>2, <1>3
           DEF PlanInv, WaterfallIntact, LegsIntact, PlanCoversInput,
               PlanHonoursQuotes

LEMMA PlanProbe == ASSUME PlanInv, ProbeVenue PROVE PlanInv'
<1> DEFINE v == venues[probed + 1]
<1>1. /\ pc = "probe" /\ pc' = "probe" /\ call \in Calls
      /\ probed < Len(venues) /\ probed' = probed + 1
      /\ UNCHANGED <<venues, fb, paused, call, next, ref, refined, legs, failed,
                     makers>>
      /\ \/ cands' = cands
         \/ /\ v # fb
            /\ \E answer \in Market[call].answers[v] :
                  cands' = IF Usable(answer)
                           THEN Append(cands, [venue |-> v, fill |-> answer.fill,
                                               out |-> answer.out])
                           ELSE cands
  BY DEF ProbeVenue, swapVars, PlanInv, PlanTypeOK
<1>2. /\ venues \in Seq(Listable) /\ IsInjective(venues)
      /\ Len(venues) \in Nat /\ DOMAIN venues = 1 .. Len(venues)
      /\ probed \in Nat /\ probed + 1 \in 1 .. Len(venues)
      /\ v \in Listable
  BY <1>1, ListFacts DEF PlanInv, PlanTypeOK
<1>3. /\ cands \in Seq(Candidates) /\ DistinctVenues(cands)
      /\ DOMAIN cands = 1 .. Len(cands) /\ Len(cands) \in Nat
      /\ \A i \in DOMAIN cands : cands[i].venue # fb
      /\ \A i \in DOMAIN cands :
            \E k \in 1 .. probed : cands[i].venue = venues[k]
  BY <1>1 DEF PlanInv, PlanTypeOK, QuotesIntact
<1>4. CASE cands' = cands
  <2>1. PlanTypeOK'
    BY <1>1, <1>2, <1>4 DEF PlanInv, PlanTypeOK
  <2>2. \A i \in DOMAIN cands :
           \E k \in 1 .. probed + 1 : cands[i].venue = venues[k]
    <3>1. 1 .. probed \subseteq 1 .. probed + 1
      BY <1>2
    <3> QED BY <1>3, <3>1
  <2>3. QuotesIntact'
    BY <1>1, <1>3, <1>4, <2>2 DEF QuotesIntact
  <2> QED BY <1>1, <2>1, <2>3
             DEF PlanInv, Unplanned, WaterfallIntact, LegsIntact,
                 PlanCoversInput, PlanHonoursQuotes
<1>5. CASE cands' # cands
  <2>1. PICK answer \in Market[call].answers[v] :
           /\ Usable(answer)
           /\ cands' = Append(cands, [venue |-> v, fill |-> answer.fill,
                                      out |-> answer.out])
    BY <1>1, <1>5
  <2> DEFINE c == [venue |-> v, fill |-> answer.fill, out |-> answer.out]
             n == Len(cands)
  <2>2. answer.fill \in Nat \ {0} /\ answer.out \in Nat \ {0}
    <3>1. Market[call].answers \in [Listable -> SUBSET [fill : Nat, out : Nat]]
      BY <1>1, CallFacts DEF MarketType
    <3>2. answer \in [fill : Nat, out : Nat]
      BY <1>2, <3>1
    <3> QED BY <2>1, <3>2 DEF Usable
  <2>3. c \in Candidates /\ c.venue = v
    BY <1>2, <2>2 DEF Candidates
  <2> HIDE DEF c, v
  <2>4. /\ cands' \in Seq(Candidates) /\ Len(cands') = n + 1
        /\ DOMAIN cands' = 1 .. n + 1
        /\ \A i \in 1 .. n : cands'[i] = cands[i]
        /\ cands'[n + 1] = c
    BY <1>3, <2>1, <2>3 DEF c
  <2>5. PlanTypeOK'
    BY <1>1, <1>2, <2>4 DEF PlanInv, PlanTypeOK
  <2>6. \A i \in 1 .. n : cands[i].venue # v
    <3> SUFFICES ASSUME NEW i \in 1 .. n, cands[i].venue = v PROVE FALSE
      OBVIOUS
    <3>1. PICK k \in 1 .. probed : cands[i].venue = venues[k]
      BY <1>3
    <3>2. k \in DOMAIN venues /\ probed + 1 \in DOMAIN venues /\ k # probed + 1
      BY <1>2
    <3> QED BY <1>2, <3>1, <3>2 DEF v, IsInjective
  <2>7. DistinctVenues(cands')
    <3> SUFFICES ASSUME NEW i \in 1 .. n + 1, NEW j \in 1 .. n + 1, i < j
                 PROVE  cands'[i].venue # cands'[j].venue
      BY <1>3, <2>4 DEF DistinctVenues
    <3>1. CASE j = n + 1
      BY <1>3, <2>3, <2>4, <2>6, <3>1
    <3>2. CASE j # n + 1
      <4> n \in Nat
        BY <1>3
      <4>1. i \in 1 .. n /\ j \in 1 .. n
        BY <3>2
      <4> QED BY <1>3, <2>4, <4>1 DEF DistinctVenues
    <3> QED BY <3>1, <3>2
  <2>8. \A i \in DOMAIN cands' :
           /\ cands'[i].venue # fb
           /\ \E k \in 1 .. probed + 1 : cands'[i].venue = venues[k]
    <3> SUFFICES ASSUME NEW i \in 1 .. n + 1
                 PROVE  /\ cands'[i].venue # fb
                        /\ \E k \in 1 .. probed + 1 :
                              cands'[i].venue = venues[k]
      BY <2>4
    <3>1. CASE i = n + 1
      <4>1. v # fb
        BY <1>1, <1>5
      <4> QED BY <1>2, <2>3, <2>4, <3>1, <4>1 DEF v
    <3>2. CASE i # n + 1
      <4>1. i \in 1 .. n /\ 1 .. probed \subseteq 1 .. probed + 1
        BY <1>2, <1>3, <3>2
      <4> QED BY <1>3, <2>4, <4>1
    <3> QED BY <3>1, <3>2
  <2>9. QuotesIntact'
    BY <1>1, <2>7, <2>8 DEF QuotesIntact
  <2> QED BY <1>1, <2>5, <2>9
             DEF PlanInv, Unplanned, WaterfallIntact, LegsIntact,
                 PlanCoversInput, PlanHonoursQuotes
<1> QED BY <1>4, <1>5

LEMMA PlanRank == ASSUME PlanInv, Rank PROVE PlanInv'
<1>1. /\ pc = "probe" /\ pc' = "place" /\ call \in Calls
      /\ cands' = SortByRateDesc(cands) /\ next' = 1
      /\ UNCHANGED <<venues, fb, paused, call, probed, refined, legs, failed,
                     makers>>
      /\ legs = <<>> /\ failed = 0
      /\ cands \in Seq(Candidates) /\ DistinctVenues(cands)
      /\ \A i \in DOMAIN cands : cands[i].venue # fb
  BY DEF Rank, stateVars, PlanInv, PlanTypeOK, Unplanned, QuotesIntact
<1>2. /\ cands' \in Seq(Candidates) /\ Ranked(cands')
      /\ Elements(cands') = Elements(cands) /\ DistinctVenues(cands')
  BY <1>1, RankingSorts
<1>3. ref' \in [fill : Nat, out : Nat]
  <2>1. CASE cands = <<>>
    BY <2>1 DEF Rank, PlanInv, PlanTypeOK
  <2>2. CASE cands # <<>>
    <3>1. PICK out \in Market[call].refs :
             ref' = [fill |-> RefSize(cands'), out |-> Clamp(out)]
      BY <2>2 DEF Rank
    <3>2. out \in Nat
      BY <1>1, CallFacts DEF MarketType
    <3>3. RefSize(cands') \in Nat
      <4>1. \A s \in Seq(Candidates) : RefSize(s) \in Nat
        BY <1>1, CallFacts, RefSizeNat
      <4> QED BY <1>2, <4>1
    <3> QED BY <3>1, <3>2, <3>3 DEF Clamp
  <2> QED BY <2>1, <2>2
<1>4. PlanTypeOK'
  BY <1>1, <1>2, <1>3 DEF PlanInv, PlanTypeOK, Phases
<1>5. QuotesIntact'
  <2>1. ASSUME NEW i \in DOMAIN cands' PROVE cands'[i].venue # fb
    <3>1. cands'[i] \in Elements(cands)
      BY <1>2 DEF Elements
    <3> QED BY <1>1, <3>1 DEF Elements
  <2> QED BY <1>1, <1>2, <2>1 DEF QuotesIntact
<1>6. WaterfallIntact'
  <2>1. Len(legs) = 0 /\ DOMAIN legs = {} /\ Len(cands') \in Nat
    BY <1>1, <1>2
  <2>2. InputOf(0, legs) = 0
    BY <1>1, InputOfNone
  <2> QED BY <1>1, <2>1, <2>2, CallFacts, SplitConstants
             DEF WaterfallIntact, Allocated
<1> QED BY <1>1, <1>4, <1>5, <1>6
           DEF PlanInv, Unplanned, LegsIntact, PlanCoversInput,
               PlanHonoursQuotes

\* What is known while legs are placed.
LEMMA PlaceFacts ==
    ASSUME PlanInv, pc = "place"
    PROVE  /\ call \in Calls /\ call.amountIn \in Nat
           /\ cands \in Seq(Candidates) /\ legs \in Seq(Legs)
           /\ Len(cands) \in Nat /\ DOMAIN cands = 1 .. Len(cands)
           /\ Len(legs) \in Nat /\ DOMAIN legs = 1 .. Len(legs)
           /\ next = Len(legs) + 1 /\ failed = 0
           /\ Len(legs) <= Len(cands) /\ Len(legs) <= MAX_LEGS
           /\ Allocated \in Nat /\ Allocated <= call.amountIn
           /\ Remaining \in Nat /\ Remaining = call.amountIn - Allocated
           /\ \A k \in 1 .. Len(legs) : Follows(k)
           /\ \A k \in 1 .. Len(cands) :
                 /\ cands[k].venue \in Listable /\ cands[k].venue # fb
                 /\ cands[k].fill \in Nat /\ cands[k].fill > 0
                 /\ cands[k].out \in Nat
<1>1. /\ call \in Calls /\ cands \in Seq(Candidates) /\ legs \in Seq(Legs)
      /\ next = Len(legs) + 1 /\ failed = 0
      /\ Len(legs) <= Len(cands) /\ Len(legs) <= MAX_LEGS
      /\ Allocated <= call.amountIn
      /\ \A k \in DOMAIN legs : Follows(k)
      /\ \A k \in DOMAIN cands : cands[k].venue # fb
  BY DEF PlanInv, PlanTypeOK, WaterfallIntact, QuotesIntact
<1>2. Allocated \in Nat
  BY <1>1, InputOfRest DEF Allocated
<1>3. \A k \in 1 .. Len(cands) : cands[k] \in Candidates
  BY <1>1
<1>4. \A c \in Candidates :
         c.venue \in Listable /\ c.fill \in Nat /\ c.fill > 0 /\ c.out \in Nat
  BY DEF Candidates
<1>5. /\ DOMAIN cands = 1 .. Len(cands) /\ Len(cands) \in Nat
      /\ DOMAIN legs = 1 .. Len(legs) /\ Len(legs) \in Nat
  BY <1>1
<1>6. call.amountIn \in Nat
  BY <1>1, CallFacts
<1>7. Remaining \in Nat /\ Remaining = call.amountIn - Allocated
  BY <1>1, <1>2, <1>6 DEF Remaining
<1> HIDE DEF Remaining, Allocated, Follows
<1> QED BY <1>1, <1>2, <1>3, <1>4, <1>5, <1>6, <1>7

LEMMA PlanPlace == ASSUME PlanInv, Place PROVE PlanInv'
<1> DEFINE c == cands[next]
           size == LegSize(c)
           leg == [venue |-> c.venue, amountIn |-> size,
                   minOut |-> ProRataMin(c.out, c.fill, size)]
           n == Len(legs)
<1>1. /\ pc = "place" /\ pc' = "place" /\ Placing
      /\ legs' = Append(legs, leg) /\ next' = next + 1
      /\ UNCHANGED <<venues, fb, paused, call, probed, cands, ref, refined,
                     failed, makers>>
  BY DEF Place, Placing, stateVars, swapVars
<1>2. /\ next \in 1 .. Len(cands) /\ Remaining > 0 /\ n < MAX_LEGS
      /\ c.venue \in Listable /\ c.fill \in Nat /\ c.fill > 0 /\ c.out \in Nat
  BY <1>1, PlaceFacts DEF Placing
<1>3. size \in Nat /\ size > 0 /\ size <= c.fill /\ size <= Remaining
  <2>1. Remaining \in Nat
    BY <1>1, PlaceFacts
  <2>2. \E x \in {c.fill, Remaining} : \A y \in {c.fill, Remaining} : x <= y
    BY <1>2, <2>1
  <2> HIDE DEF c
  <2> QED BY <1>2, <2>1, <2>2 DEF LegSize, Min
<1>4. leg \in Legs /\ leg.amountIn = size /\ leg.venue = c.venue
      /\ leg.minOut = ProRataMin(c.out, c.fill, size)
  <2> HIDE DEF c, size
  <2>1. ProRataMin(c.out, c.fill, size) \in Nat
    BY <1>2, <1>3, ProRataBounds
  <2> QED BY <1>2, <1>3, <2>1 DEF Legs
<1> HIDE DEF leg, size
<1>5. /\ legs' \in Seq(Legs) /\ Len(legs') = n + 1
      /\ DOMAIN legs' = 1 .. n + 1
      /\ \A k \in 1 .. n : legs'[k] = legs[k]
      /\ legs'[n + 1] = leg
  BY <1>1, <1>4, PlaceFacts
<1>6. Allocated' = Allocated + size
  <2>1. InputOf(0, Append(legs, leg)) = InputOf(0, legs) + leg.amountIn
    BY <1>1, <1>4, PlaceFacts, InputOfAppend
  <2> QED BY <1>1, <1>4, <2>1 DEF Allocated
<1>7. PlanTypeOK'
  BY <1>1, <1>5, PlaceFacts DEF PlanInv, PlanTypeOK
<1>8. WaterfallIntact'
  <2>1. ASSUME NEW k \in 1 .. n + 1 PROVE Follows(k)'
    <3>1. CASE k = n + 1
      <4>1. k = next
        BY <1>1, <3>1, PlaceFacts
      <4>2. /\ legs'[k].venue = c.venue
            /\ legs'[k].amountIn = size
            /\ legs'[k].minOut = ProRataMin(c.out, c.fill, size)
        BY <1>4, <1>5, <3>1
      <4>3. size \in 1 .. c.fill
        BY <1>2, <1>3
      <4> QED BY <1>1, <4>1, <4>2, <4>3 DEF Follows
    <3>2. CASE k # n + 1
      <4>1. k \in 1 .. n
        BY <1>1, <3>2, PlaceFacts
      <4>2. Follows(k) /\ legs'[k] = legs[k]
        BY <1>1, <1>5, <4>1, PlaceFacts
      <4> QED BY <1>1, <4>2 DEF Follows
    <3> QED BY <3>1, <3>2
  <2>2. Allocated' <= call.amountIn
    BY <1>1, <1>3, <1>6, PlaceFacts
  <2>3. /\ next' = Len(legs') + 1
        /\ Len(legs') <= Len(cands') /\ Len(legs') <= MAX_LEGS
    BY <1>1, <1>2, <1>5, PlaceFacts, SplitConstants
  <2> QED BY <1>1, <1>5, <2>1, <2>2, <2>3, PlaceFacts DEF WaterfallIntact
<1>9. QuotesIntact'
  BY <1>1 DEF PlanInv, QuotesIntact
<1> QED BY <1>1, <1>7, <1>8, <1>9
           DEF PlanInv, Unplanned, LegsIntact, PlanCoversInput,
               PlanHonoursQuotes

LEMMA PlanRefine == ASSUME PlanInv, Refine PROVE PlanInv'
<1>1. /\ pc = "place" /\ pc' = "place" /\ refined' = TRUE /\ call \in Calls
      /\ UNCHANGED <<venues, fb, paused, call, probed, cands, next, legs,
                     failed, makers>>
      /\ \E out \in Market[call].refs :
            ref' = IF Clamp(out) = 0 THEN ref
                                     ELSE [fill |-> Remaining, out |-> out]
  BY DEF Refine, Placing, stateVars, swapVars, PlanInv, PlanTypeOK
<1>2. ref' \in [fill : Nat, out : Nat]
  <2>1. Market[call].refs \subseteq Nat
    BY <1>1, CallFacts DEF MarketType
  <2>2. Remaining \in Nat /\ ref \in [fill : Nat, out : Nat]
    BY <1>1, PlaceFacts DEF PlanInv, PlanTypeOK
  <2> QED BY <1>1, <2>1, <2>2
<1>3. PlanTypeOK'
  BY <1>1, <1>2 DEF PlanInv, PlanTypeOK
<1>4. Unplanned' /\ QuotesIntact' /\ LegsIntact'
  BY <1>1 DEF PlanInv, Unplanned, QuotesIntact, LegsIntact
<1>5. WaterfallIntact'
  BY <1>1 DEF PlanInv, WaterfallIntact, Allocated, Follows
<1> QED BY <1>1, <1>3, <1>4, <1>5
           DEF PlanInv, PlanCoversInput, PlanHonoursQuotes

\* The legs placed and the remainder for the fallback are the whole order, and
\* what was quoted for is honoured.
LEMMA PlanEnd == ASSUME PlanInv, EndPlan PROVE PlanInv'
<1> DEFINE n == Len(legs)
           rest == [venue |-> fb, amountIn |-> Remaining, minOut |-> 0]
<1>1. /\ pc = "place" /\ pc' = "bracket" /\ next' = 1
      /\ legs' = IF Remaining = 0 THEN legs ELSE Append(legs, rest)
      /\ UNCHANGED <<venues, fb, paused, call, probed, cands, ref, refined,
                     failed, makers>>
  BY DEF EndPlan, stateVars
<1>2. /\ rest \in Legs /\ rest.venue = fb /\ rest.amountIn = Remaining
      /\ Remaining \in Nat
  BY <1>1, PlaceFacts, ListFacts DEF PlanInv, Legs
<1> HIDE DEF rest
<1>3. /\ legs' \in Seq(Legs) /\ Len(legs') \in Nat
      /\ DOMAIN legs' = 1 .. Len(legs')
      /\ Len(legs') = IF Remaining = 0 THEN n ELSE n + 1
      /\ \A k \in 1 .. n : legs'[k] = legs[k]
      /\ Len(legs') = n + 1 => legs'[n + 1] = rest
  BY <1>1, <1>2, PlaceFacts
<1>4. Allocated' = call.amountIn
  <2>1. CASE Remaining = 0
    <3>1. Allocated' = Allocated
      BY <1>1, <2>1 DEF Allocated
    <3> QED BY <1>1, <2>1, <3>1, PlaceFacts
  <2>2. CASE Remaining # 0
    <3>1. InputOf(0, Append(legs, rest)) = InputOf(0, legs) + Remaining
      BY <1>1, <1>2, PlaceFacts, InputOfAppend
    <3>2. Allocated' = Allocated + Remaining
      BY <1>1, <2>2, <3>1 DEF Allocated
    <3> QED BY <1>1, <3>2, PlaceFacts
  <2> QED BY <2>1, <2>2
<1>5. \A k \in 1 .. n :
         /\ k \in 1 .. Len(cands) /\ Follows(k)
         /\ legs'[k] = legs[k] /\ legs[k].venue = cands[k].venue
         /\ legs'[k].venue # fb
  <2> SUFFICES ASSUME NEW k \in 1 .. n
               PROVE  /\ k \in 1 .. Len(cands) /\ Follows(k)
                      /\ legs'[k] = legs[k] /\ legs[k].venue = cands[k].venue
                      /\ legs'[k].venue # fb
    OBVIOUS
  <2>1. k \in 1 .. Len(cands) /\ Follows(k)
    BY <1>1, PlaceFacts
  <2>2. legs[k].venue = cands[k].venue /\ cands[k].venue # fb
    BY <1>1, <2>1, PlaceFacts DEF Follows
  <2> QED BY <1>3, <2>1, <2>2
<1>6. DistinctVenues(cands) /\ Ranked(cands) /\ DOMAIN cands = 1 .. Len(cands)
  BY <1>1, PlaceFacts DEF PlanInv, QuotesIntact
<1>7. PlanCoversInput'
  <2>1. ASSUME NEW i \in 1 .. Len(legs')
        PROVE  /\ legs'[i].amountIn > 0
               /\ legs'[i].venue = fb => i = Len(legs')
               /\ i > MAX_LEGS => legs'[i].venue = fb
    <3>1. CASE i \in 1 .. n
      <4>1. legs[i].amountIn \in 1 .. cands[i].fill
        BY <1>5, <3>1 DEF Follows
      <4>2. i <= MAX_LEGS /\ cands[i].fill \in Nat
        BY <1>1, <1>5, <3>1, PlaceFacts, SplitConstants
      <4> QED BY <1>5, <3>1, <4>1, <4>2, SplitConstants
    <3>2. CASE i \notin 1 .. n
      <4>1. i = n + 1 /\ Len(legs') = n + 1 /\ Remaining # 0
        BY <1>1, <1>3, <3>2, PlaceFacts
      <4> QED BY <1>2, <1>3, <4>1
    <3> QED BY <3>1, <3>2
  <2>2. ASSUME NEW i \in 1 .. Len(legs'), NEW j \in 1 .. Len(legs'), i < j
        PROVE  legs'[i].venue # legs'[j].venue
    <3>1. i \in 1 .. n
      BY <1>1, <1>3, <2>2, PlaceFacts
    <3>2. CASE j \in 1 .. n
      BY <1>5, <1>6, <2>2, <3>1, <3>2 DEF DistinctVenues
    <3>3. CASE j \notin 1 .. n
      <4>1. j = n + 1 /\ Len(legs') = n + 1
        BY <1>1, <1>3, <3>3, PlaceFacts
      <4> QED BY <1>2, <1>3, <1>5, <3>1, <4>1
    <3> QED BY <3>2, <3>3
  <2>3. \A i, j \in 1 .. Len(legs') :
           i # j => legs'[i].venue # legs'[j].venue
    <3> SUFFICES ASSUME NEW i \in 1 .. Len(legs'), NEW j \in 1 .. Len(legs'),
                        i # j
                 PROVE  legs'[i].venue # legs'[j].venue
      OBVIOUS
    <3>1. i < j \/ j < i
      BY <1>3
    <3> QED BY <2>2, <3>1
  <2> QED BY <1>1, <1>3, <1>4, <2>1, <2>3 DEF PlanCoversInput
<1>8. PlanHonoursQuotes'
  <2>1. ASSUME NEW i \in 1 .. Len(legs'), legs'[i].venue # fb
        PROVE  /\ i \in 1 .. Len(cands)
               /\ cands[i].venue = legs'[i].venue
               /\ legs'[i].amountIn <= cands[i].fill
               /\ legs'[i].minOut * cands[i].fill
                     <= cands[i].out * legs'[i].amountIn
               /\ (legs'[i].minOut + 1) * cands[i].fill
                     > cands[i].out * legs'[i].amountIn
               /\ \A j \in 1 .. Len(cands) :
                     BetterThan(cands[j], cands[i]) =>
                        \E k \in 1 .. Len(legs') :
                           legs'[k].venue = cands[j].venue
    <3>1. i \in 1 .. n
      <4> SUFFICES ASSUME i \notin 1 .. n PROVE FALSE
        OBVIOUS
      <4>1. i = n + 1 /\ Len(legs') = n + 1
        BY <1>1, <1>3, PlaceFacts
      <4> QED BY <1>2, <1>3, <2>1, <4>1
    <3>2. /\ i \in 1 .. Len(cands) /\ legs'[i] = legs[i]
          /\ legs[i].venue = cands[i].venue
          /\ legs[i].amountIn \in 1 .. cands[i].fill
          /\ legs[i].minOut
                = ProRataMin(cands[i].out, cands[i].fill, legs[i].amountIn)
      BY <1>5, <3>1 DEF Follows
    <3>3. /\ cands[i].fill \in Nat /\ cands[i].fill > 0 /\ cands[i].out \in Nat
      BY <1>1, <3>2, PlaceFacts
    <3>4. legs[i].amountIn \in Nat /\ legs[i].amountIn <= cands[i].fill
      BY <3>2, <3>3
    <3>5. ASSUME NEW j \in 1 .. Len(cands), BetterThan(cands[j], cands[i])
          PROVE  \E k \in 1 .. Len(legs') : legs'[k].venue = cands[j].venue
      <4>1. j # i
        <5>1. cands[i] \in Candidates
          BY <1>1, <3>2, PlaceFacts
        <5> QED BY <3>5, <5>1, BetterIsAsymmetric
      <4>2. ~(i < j)
        BY <1>6, <3>2, <3>5 DEF Ranked
      <4>3. j \in 1 .. n
        BY <1>1, <3>1, <4>1, <4>2, PlaceFacts
      <4>4. j \in 1 .. Len(legs')
        BY <1>3, <4>3
      <4> QED BY <1>5, <4>3, <4>4
    <3> QED BY <3>2, <3>3, <3>4, <3>5, ProRataBounds
  <2> SUFFICES ASSUME NEW i \in 1 .. Len(legs'), legs'[i].venue # fb
               PROVE  \E m \in DOMAIN cands :
                         /\ cands[m].venue = legs'[i].venue
                         /\ legs'[i].amountIn <= cands[m].fill
                         /\ legs'[i].minOut * cands[m].fill
                               <= cands[m].out * legs'[i].amountIn
                         /\ (legs'[i].minOut + 1) * cands[m].fill
                               > cands[m].out * legs'[i].amountIn
                         /\ \A j \in DOMAIN cands :
                               BetterThan(cands[j], cands[m]) =>
                                  \E k \in DOMAIN legs' :
                                     legs'[k].venue = cands[j].venue
    BY <1>1, <1>3 DEF PlanHonoursQuotes
  <2>2. i \in DOMAIN cands
    BY <1>6, <2>1
  <2> WITNESS i \in DOMAIN cands
  <2> QED BY <1>3, <1>6, <2>1
<1>9. PlanTypeOK'
  BY <1>1, <1>3 DEF PlanInv, PlanTypeOK, Phases
<1>10. QuotesIntact'
  BY <1>1 DEF PlanInv, QuotesIntact
<1>11. LegsIntact' /\ Unplanned' /\ WaterfallIntact'
  BY <1>1, PlaceFacts DEF LegsIntact, Unplanned, WaterfallIntact
<1> QED BY <1>7, <1>8, <1>9, <1>10, <1>11 DEF PlanInv

(***************************************************************************)
(* The legs are run                                                        *)
(***************************************************************************)
\* The legs of an adopted plan are run one after the other, each once.
LEMMA PlanAdopt == ASSUME PlanInv, Adopt PROVE PlanInv'
<1>1. /\ pc = "bracket" /\ pc' = "legs"
      /\ UNCHANGED <<venues, fb, paused, call, planVars>>
  BY DEF Adopt, stateVars
<1>2. PlanTypeOK'
  BY <1>1 DEF PlanInv, PlanTypeOK, Phases, planVars
<1>3. LegsIntact'
  <2>1. next = 1 /\ Len(legs) \in Nat
    BY <1>1 DEF PlanInv, PlanTypeOK, LegsIntact
  <2> QED BY <1>1, <2>1 DEF LegsIntact, planVars
<1> QED BY <1>1, <1>2, <1>3
           DEF PlanInv, Unplanned, QuotesIntact, WaterfallIntact,
               PlanCoversInput, PlanHonoursQuotes

\* The leg whose turn it is.
LEMMA LegFacts ==
    ASSUME PlanInv, pc \in {"legs", "venue"}, next <= Len(legs)
    PROVE  /\ call \in Calls
           /\ legs \in Seq(Legs) /\ Len(legs) \in Nat
           /\ next \in 1 .. Len(legs)
           /\ legs[next] \in Legs
           /\ legs[next].venue \in Listable
           /\ legs[next].amountIn \in Nat /\ legs[next].minOut \in Nat
<1>1. legs \in Seq(Legs) /\ call \in Calls
  BY DEF PlanInv, PlanTypeOK
<1>2. Len(legs) \in Nat /\ \A k \in 1 .. Len(legs) : legs[k] \in Legs
  BY <1>1
<1>3. next \in 1 .. Len(legs)
  BY <1>2 DEF PlanInv, LegsIntact
<1>4. legs[next] \in Legs
  BY <1>2, <1>3
<1> QED BY <1>1, <1>2, <1>3, <1>4 DEF Legs

LEMMA PlanRuns ==
    ASSUME PlanInv,
           \/ SkipFallbackLeg \/ PushLeg \/ PushLegFails \/ LegFills \/ LegFails
    PROVE  PlanInv'
<1>1. /\ pc \in {"legs", "venue"} /\ pc' \in {"legs", "venue"}
      /\ next <= Len(legs)
      /\ UNCHANGED <<venues, fb, paused, call, probed, cands, ref, refined,
                     legs>>
      /\ pc' = "venue" => next' = next
      /\ pc' = "legs" => next' = next + 1
      /\ failed' = failed \/ failed' = failed + legs[next].amountIn
      /\ makers' = makers \/ (makers' = makers \cup {venue} /\ venue \in Makers)
  <2>1. pc = "venue" => next <= Len(legs)
    BY DEF PlanInv, LegsIntact
  <2>2. CASE SkipFallbackLeg
    BY <2>2 DEF SkipFallbackLeg, Running, Absorb, stateVars, swapVars
  <2>3. CASE PushLeg
    BY <2>3 DEF PushLeg, Running, planVars
  <2>4. CASE PushLegFails
    BY <2>4 DEF PushLegFails, Running, Absorb, stateVars, swapVars
  <2>5. CASE LegFills
    BY <2>1, <2>5 DEF LegFills, stateVars
  <2>6. CASE LegFails
    BY <2>1, <2>6 DEF LegFails, Absorb
  <2> QED BY <2>2, <2>3, <2>4, <2>5, <2>6
<1>2. /\ legs[next].amountIn \in Nat /\ failed \in Nat
      /\ next \in 1 .. Len(legs) /\ Len(legs) \in Nat
  BY <1>1, LegFacts DEF PlanInv, PlanTypeOK
<1>3. PlanTypeOK'
  <2>1. makers' \in SUBSET Listable
    BY <1>1 DEF PlanInv, PlanTypeOK, Listable
  <2>2. failed' \in Nat /\ next' \in Nat
    BY <1>1, <1>2
  <2> QED BY <1>1, <2>1, <2>2 DEF PlanInv, PlanTypeOK, Phases
<1>4. LegsIntact'
  BY <1>1, <1>2 DEF LegsIntact
<1> QED BY <1>1, <1>3, <1>4
           DEF PlanInv, Unplanned, QuotesIntact, WaterfallIntact,
               PlanCoversInput, PlanHonoursQuotes

\* Every step leaves a plan that covers the input and honours the quotes.
LEMMA PlanNext == PlanInv /\ [Next]_vars => PlanInv'
<1> SUFFICES ASSUME PlanInv, [Next]_vars PROVE PlanInv'
  OBVIOUS
<1>1. ASSUME NEW c \in Calls, Begin(c) PROVE PlanInv'
  BY <1>1, PlanUntouched
     DEF Begin, Call, stateVars, PlanInv, PlanTypeOK
<1>2. CASE Administer
  BY <1>2, PlanUntouched DEF Administer, Pause, Unpause, swapVars
<1>3. CASE UNCHANGED vars
  BY <1>3, PlanUntouched DEF vars, stateVars, swapVars, PlanInv, PlanTypeOK
<1>4. CASE Pull
  BY <1>4, PlanPull
<1>5. CASE ProbeVenue
  BY <1>5, PlanProbe
<1>6. CASE Rank
  BY <1>6, PlanRank
<1>7. CASE Planning
  BY <1>7, PlanPlace, PlanRefine, PlanEnd DEF Planning
<1>8. CASE Adopt
  BY <1>8, PlanAdopt
<1>9. CASE SkipFallbackLeg \/ PushLeg \/ PushLegFails \/ LegFills \/ LegFails
  BY <1>9, PlanRuns
<1>10. CASE StartUniswap \/ UniswapReturns \/ Total
  <2>1. fb \in Listable /\ makers \in SUBSET Listable
    BY ListFacts DEF PlanInv, PlanTypeOK
  <2>2. CASE StartUniswap
    BY <2>1, <2>2, PlanKept DEF StartUniswap, LegsDone, planVars
  <2>3. CASE UniswapReturns
    BY <2>1, <2>3, PlanKept DEF UniswapReturns
  <2>4. CASE Total
    BY <2>1, <2>4, PlanKept DEF Total, AllRun, LegsDone, planVars, stateVars
  <2> QED BY <1>10, <2>2, <2>3, <2>4
<1>11. CASE (Deliver \/ Disburse) /\ UNCHANGED planVars
  <2>1. makers \in SUBSET Listable /\ call \in Calls \cup {None}
    BY DEF PlanInv, PlanTypeOK
  <2>2. CASE Deliver /\ UNCHANGED planVars
    BY <2>1, <2>2, PlanKept DEF Deliver, planVars
  <2>3. CASE Disburse /\ UNCHANGED planVars
    BY <2>1, <2>3, PlanKept DEF Disburse, planVars
  <2> QED BY <1>11, <2>2, <2>3
<1>12. CASE Fails \/ ((DeliverFails \/ DisburseFails) /\ Drop) \/ Commit
  BY <1>12, PlanDropped
     DEF Fails, DeliverFails, DisburseFails, Commit, Settle, Revert, Forget
<1>13. ASSUME NEW t \in Tokens, NEW to, NEW x, VenuePays(t, to, x)
       PROVE  PlanInv'
  <2>1. makers \in SUBSET Listable
    BY DEF PlanInv, PlanTypeOK
  <2> QED BY <1>13, <2>1, PlanKept DEF VenuePays, swapVars, planVars
<1>14. ASSUME NEW used, NEW out, Uniswap(used, out) PROVE PlanInv'
  <2>1. makers \in SUBSET Listable
    BY DEF PlanInv, PlanTypeOK
  <2> QED BY <1>14, <2>1, PlanKept DEF Uniswap, planVars
<1> QED
  BY <1>1, <1>2, <1>3, <1>4, <1>5, <1>6, <1>7, <1>8, <1>9, <1>10, <1>11,
     <1>12, <1>13, <1>14
     DEF Next, CallStep, Finish

(***************************************************************************)
(* The ledgers: types, and what nobody but the sender parts with           *)
(***************************************************************************)
LedgerTypeOK ==
    /\ bal \in Ledgers
    /\ allow \in Approvals
    /\ venue \in Listable \cup {None}
    /\ pc = "venue" => venue \in Listable
    /\ prev \in Nat
    /\ got \in Nat
    /\ fee \in Nat
    /\ committed \in [bal : Ledgers, allow : Approvals]
    /\ frame \in [bal : Ledgers, allow : Approvals]
    /\ receipt \in Receipts \cup {NoReceipt}
    /\ calls \in Nat
    /\ snap \in Nat

\* What the checks passed so far established.
Checked ==
    /\ pc \in {"idle", "enter"} => committed = World
    /\ pc \in {"idle", "enter", "probe", "place", "bracket"} => got = 0
    /\ pc \notin {"idle", "enter"} =>
          TokenIn # TokenOut /\ (call.withFee => ValidFee)
    /\ pc = "disburse" => call.withFee
    /\ pc \in {"deliver", "disburse"} => got >= MinOut
    /\ pc = "done" => got >= call.amountOutMin

\* No user and not the router holds less of any token than when the call began,
\* the input token and what the sender pays with excepted; and account o holds
\* what was collected of token u on top.
Keeps(ledger, u, o) ==
    \A t \in Tokens, a \in Users \cup {Router} :
       \/ t = TokenIn
       \/ t = call.tokenIn /\ a = call.sender
       \/ ledger[t][a] >= committed.bal[t][a]
                             + (IF t = u /\ a = o THEN got ELSE 0)

OutputKept ==
    /\ pc \notin {"idle", "enter", "disburse", "done"} =>
          Keeps(bal, TokenOut, Receiver)
    /\ pc = "venue" => Keeps(frame.bal, TokenOut, Receiver)
    /\ pc \in {"venue", "uniswap", "uniReturn"} =>
          prev >= committed.bal[TokenOut][Receiver] + got
    /\ pc = "disburse" => Keeps(bal, call.tokenOut, Router)
    /\ pc = "done" => Keeps(bal, call.tokenOut, call.recipient)

LedgerInv == LedgerTypeOK /\ Checked /\ OutputKept

\* What is known in the middle of a call.
LEMMA Context ==
    ASSUME PlanInv, LedgerInv, pc # "idle"
    PROVE  /\ call \in Calls /\ Arguments
           /\ bal \in Ledgers /\ committed.bal \in Ledgers
           /\ \A t \in Tokens, a \in Accounts :
                 bal[t][a] \in Nat /\ committed.bal[t][a] \in Nat
           /\ allow \in Approvals /\ prev \in Nat /\ got \in Nat
           /\ call.amountIn \in Nat /\ call.amountOutMin \in Nat
           /\ call.withFee \in BOOLEAN
           /\ call.tokenIn \in Tokens /\ call.tokenOut \in Tokens
           /\ call.sender \in Users /\ call.sender \in Accounts
           /\ call.recipient \in Users \cup {Router}
           /\ call.recipient \in Accounts
           /\ TokenIn \in Tokens /\ TokenOut \in Tokens
           /\ TokenIn # ETH /\ TokenOut # ETH
           /\ call.tokenIn # ETH => TokenIn = call.tokenIn
           /\ call.tokenIn = ETH => TokenIn = WETH
           /\ call.tokenOut # ETH => TokenOut = call.tokenOut
           /\ call.tokenOut = ETH => TokenOut = WETH
           /\ Receiver \in Users \cup {Router} /\ Receiver \in Accounts
           /\ fb \in Fallbacks /\ fb \in Accounts /\ fb \in Listable
           /\ ETH \in Tokens /\ WETH \in Tokens /\ Router \in Accounts
           /\ WETH # ETH /\ Router \notin Users /\ Router \notin Listable
           /\ Users \cap Listable = {}
           /\ Users \subseteq Accounts /\ Listable \subseteq Accounts
<1>1. /\ call \in Calls /\ bal \in Ledgers /\ committed.bal \in Ledgers
      /\ allow \in Approvals /\ prev \in Nat /\ got \in Nat
      /\ fb \in Fallbacks
  BY DEF PlanInv, PlanTypeOK, LedgerInv, LedgerTypeOK
<1>2. fb \in Accounts /\ fb \in Listable
  BY <1>1 DEF Accounts, Listable
<1>3. /\ ETH \in Tokens /\ WETH \in Tokens /\ Router \in Accounts
      /\ WETH # ETH /\ Router \notin Users /\ Router \notin Listable
      /\ Users \cap Listable = {}
      /\ Users \subseteq Accounts /\ Listable \subseteq Accounts
  BY DistinctNames DEF Tokens, Accounts, Listable
<1>4. Arguments
  BY <1>1, CallFacts
<1>5. \A t \in Tokens, a \in Accounts :
         bal[t][a] \in Nat /\ committed.bal[t][a] \in Nat
  BY <1>1, BalanceNat
<1> QED BY <1>1, <1>2, <1>3, <1>4, <1>5, ArgumentFacts DEF Arguments

\* The output token is not what the sender pays with, wrapped or not.
LEMMA OutputIsNotInput ==
    ASSUME PlanInv, LedgerInv, pc \notin {"idle", "enter"}
    PROVE  /\ TokenOut # TokenIn /\ TokenOut # call.tokenIn
           /\ call.tokenOut # TokenIn /\ call.tokenOut # call.tokenIn
<1>1. TokenIn # TokenOut
  BY DEF LedgerInv, Checked
<1> QED BY <1>1, Context

\* Keeps is about balances: it survives when none of them falls.
LEMMA KeepsRaised ==
    ASSUME PlanInv, LedgerInv, pc # "idle", NEW u, NEW o, NEW l \in Ledgers,
           NEW m \in Ledgers, Keeps(l, u, o),
           \A t \in Tokens, a \in Users \cup {Router} :
              t # TokenIn => m[t][a] >= l[t][a]
    PROVE  Keeps(m, u, o)
<1> SUFFICES ASSUME NEW t \in Tokens, NEW a \in Users \cup {Router},
                    t # TokenIn, ~(t = call.tokenIn /\ a = call.sender)
             PROVE  m[t][a] >= committed.bal[t][a]
                                  + (IF t = u /\ a = o THEN got ELSE 0)
  BY DEF Keeps
<1>1. a \in Accounts
  BY DEF Accounts
<1>2. /\ l[t][a] \in Nat /\ m[t][a] \in Nat /\ committed.bal[t][a] \in Nat
      /\ got \in Nat
  BY <1>1, BalanceNat DEF LedgerInv, LedgerTypeOK
<1>3. l[t][a] >= committed.bal[t][a] + (IF t = u /\ a = o THEN got ELSE 0)
  BY DEF Keeps
<1>4. m[t][a] >= l[t][a]
  OBVIOUS
<1> QED BY <1>2, <1>3, <1>4

LEMMA LedgerInit == Init => LedgerInv
<1> SUFFICES ASSUME Init PROVE LedgerInv
  OBVIOUS
<1>1. bal \in Ledgers /\ allow \in Approvals
  BY OpeningBalances, NoAllowanceType DEF Init
<1>2. LedgerTypeOK
  BY <1>1 DEF Init, NoPlan, LedgerTypeOK, World
<1> QED BY <1>2 DEF Init, LedgerInv, Checked, OutputKept

LEMMA LedgerReverts ==
    ASSUME LedgerInv, Revert, Drop
    PROVE  LedgerInv'
<1>1. LedgerTypeOK'
  BY DEF LedgerInv, LedgerTypeOK, Revert, Forget, Drop
<1>2. Checked'
  BY DEF LedgerInv, LedgerTypeOK, Checked, Revert, Forget, World
<1> QED BY <1>1, <1>2 DEF LedgerInv, OutputKept, Revert, Forget

LEMMA LedgerSettles == ASSUME PlanInv, LedgerInv, Commit PROVE LedgerInv'
<1>1. /\ pc = "done" /\ call \in Calls /\ makers \in SUBSET Listable
      /\ got \in Nat /\ fee \in Nat
  BY DEF Commit, Settle, PlanInv, PlanTypeOK, LedgerInv, LedgerTypeOK
<1>2. receipt' \in Receipts
  BY <1>1 DEF Commit, Settle, Receipts
<1>3. committed' \in [bal : Ledgers, allow : Approvals]
  BY DEF LedgerInv, LedgerTypeOK, Commit, Settle, World
<1>4. LedgerTypeOK'
  BY <1>2, <1>3 DEF LedgerInv, LedgerTypeOK, Commit, Settle, Forget, Drop
<1>5. Checked'
  BY DEF Checked, Commit, Settle, Forget, World
<1> QED BY <1>4, <1>5 DEF LedgerInv, OutputKept, Commit, Settle, Forget

LEMMA LedgerBegins ==
    ASSUME LedgerInv, NEW c \in Calls, Begin(c)
    PROVE  LedgerInv'
<1>1. LedgerTypeOK'
  BY DEF LedgerInv, LedgerTypeOK, Begin, Call, stateVars, planVars
<1>2. Checked' /\ OutputKept'
  BY DEF LedgerInv, Checked, OutputKept, Begin, Call, stateVars, World
<1> QED BY <1>1, <1>2 DEF LedgerInv

LEMMA LedgerPulls == ASSUME PlanInv, LedgerInv, Pull PROVE LedgerInv'
<1>1. /\ pc = "enter" /\ pc' = "probe" /\ Admissible
      /\ bal' = Pulled /\ snap' = Pulled[TokenIn][Router]
      /\ UNCHANGED <<allow, venues, fb, paused, call, venue, prev, got, fee,
                     committed, frame, receipt, calls>>
      /\ committed = World /\ got = 0
  BY DEF Pull, LedgerInv, Checked
<1>2. call.amountIn \in Nat /\ call.amountIn <= bal[call.tokenIn][call.sender]
  <2>1. bal[call.tokenIn][call.sender] >= call.amountIn
    BY <1>1 DEF Admissible
  <2> QED BY <1>1, <2>1, Context
<1>3. /\ bal' \in Ledgers
      /\ \A t \in Tokens, a \in Users \cup {Router} :
            \/ t = TokenIn
            \/ t = call.tokenIn /\ a = call.sender
            \/ bal'[t][a] >= bal[t][a]
  <2>1. Users \cup {Router} \subseteq Accounts
    BY DEF Accounts
  <2>2. CASE call.tokenIn = ETH
    <3>1. Moved(bal, bal', ETH, call.sender, call.amountIn,
                WETH, Router, call.amountIn)
      BY <1>1, <1>2, <2>2, Context, MoveEffect DEF Pulled, Wrap
    <3> QED BY <1>1, <1>2, <2>1, <2>2, <3>1, Context DEF Moved
  <2>3. CASE call.tokenIn # ETH
    <3>1. /\ Moved(bal, bal', TokenIn, call.sender, call.amountIn,
                   TokenIn, Router, Credited(TokenIn, call.amountIn))
          /\ Credited(TokenIn, call.amountIn) \in Nat
      BY <1>1, <1>2, <2>3, Context, TransferEffect DEF Pulled
    <3> QED BY <1>1, <1>2, <2>1, <3>1, Context DEF Moved
  <2> QED BY <2>2, <2>3
<1>4. Keeps(bal, TokenOut, Receiver)'
  <2> SUFFICES ASSUME NEW t \in Tokens, NEW a \in Users \cup {Router},
                      t # TokenIn, ~(t = call.tokenIn /\ a = call.sender)
               PROVE  bal'[t][a] >= committed.bal[t][a] + 0
    BY <1>1 DEF Keeps, TokenIn, TokenOut, Receiver
  <2>1. committed.bal = bal /\ a \in Accounts
    BY <1>1 DEF World, Accounts
  <2>2. bal[t][a] \in Nat
    BY <1>1, <2>1, Context
  <2> QED BY <1>3, <2>1, <2>2
<1>5. snap' \in Nat
  <2>1. bal'[TokenIn][Router] \in Nat
    BY <1>1, <1>3, Context, BalanceNat
  <2> QED BY <1>1, <2>1
<1>6. LedgerTypeOK'
  BY <1>1, <1>3, <1>5 DEF LedgerInv, LedgerTypeOK
<1>7. Checked'
  BY <1>1, Context DEF Checked, Admissible, TokenIn, TokenOut, ValidFee
<1> QED BY <1>1, <1>4, <1>6, <1>7 DEF LedgerInv, OutputKept
(***************************************************************************)
(* What the steps of a call do to the ledgers                              *)
(***************************************************************************)
\* A quote moves nothing but the router's input token.
LEMMA ProbeMoves ==
    ASSUME PlanInv, LedgerInv, ProbeVenue
    PROVE  /\ bal' \in Ledgers
           /\ \A t \in Tokens, a \in Accounts :
                 t # TokenIn \/ a # Router => bal'[t][a] >= bal[t][a]
<1>1. pc = "probe" /\ probed < Len(venues)
  BY DEF ProbeVenue
<1> DEFINE v == venues[probed + 1]
<1>2. v \in Listable
  <2>1. probed + 1 \in 1 .. Len(venues)
    BY <1>1, ListFacts DEF PlanInv, PlanTypeOK
  <2> QED BY <2>1, ListFacts DEF PlanInv
<1>3. /\ bal \in Ledgers /\ TokenIn \in Tokens /\ Router \in Accounts
      /\ v \in Accounts /\ bal[TokenIn][Router] \in Nat
  BY <1>1, <1>2, Context
<1>4. CASE bal' = bal
  BY <1>3, <1>4, BalanceNat
<1>5. ASSUME NEW d \in Market[call].drifts[v],
             bal[TokenIn][Router] + d >= 0, bal' = DriftOf(v, d)
      PROVE  /\ bal' \in Ledgers
             /\ \A t \in Tokens, a \in Accounts :
                   t # TokenIn \/ a # Router => bal'[t][a] >= bal[t][a]
  <2>1. d \in Int
    <3>1. call \in Calls
      BY <1>1, Context
    <3>2. Market[call] \in MarketType
      BY <3>1, CallFacts
    <3> QED BY <1>2, <3>2 DEF MarketType
  <2> HIDE DEF v
  <2>2. CASE d < 0
    <3>1. -d \in Nat /\ -d <= bal[TokenIn][Router]
      BY <1>3, <1>5, <2>1, <2>2
    <3>2. bal' = Move(bal, TokenIn, Router, -d, TokenIn, v, -d)
      BY <1>5, <2>2 DEF DriftOf
    <3>3. Moved(bal, bal', TokenIn, Router, -d, TokenIn, v, -d)
      BY <1>3, <3>1, <3>2, MoveEffect
    <3> QED BY <1>3, <3>1, <3>3, BalanceNat DEF Moved
  <2>3. CASE ~(d < 0)
    <3>1. d \in Nat /\ 0 <= bal[TokenIn][Router]
      BY <1>3, <2>1, <2>3
    <3>2. bal' = Move(bal, TokenIn, Router, 0, TokenIn, Router, d)
      BY <1>5, <2>3 DEF DriftOf
    <3>3. Moved(bal, bal', TokenIn, Router, 0, TokenIn, Router, d)
      BY <1>3, <3>1, <3>2, MoveEffect
    <3> QED BY <3>3 DEF Moved
  <2> QED BY <2>2, <2>3
<1> QED BY <1>4, <1>5 DEF ProbeVenue

\* A leg takes its input off the router, and nothing else from anybody.
LEMMA LegMoves ==
    ASSUME PlanInv, LedgerInv, PushLeg
    PROVE  /\ bal' \in Ledgers
           /\ legs[next].venue \in Listable
           /\ \A t \in Tokens, a \in Accounts :
                 t # TokenIn \/ a # Router => bal'[t][a] >= bal[t][a]
           /\ bal'[TokenIn][Router] + legs[next].amountIn = bal[TokenIn][Router]
<1> DEFINE leg == legs[next]
<1>1. /\ pc = "legs" /\ next <= Len(legs)
      /\ leg.venue # fb /\ CanPush(leg)
      /\ bal' = Transfer(bal, TokenIn, Router, leg.venue, leg.amountIn)
  BY DEF PushLeg, Running
<1>2. leg.venue \in Listable /\ leg.amountIn \in Nat
  BY <1>1, LegFacts
<1>3. /\ bal \in Ledgers /\ TokenIn \in Tokens /\ Router \in Accounts
      /\ leg.venue \in Accounts /\ leg.venue # Router
      /\ bal[TokenIn][Router] \in Nat
  BY <1>1, <1>2, Context
<1>4. leg.amountIn <= bal[TokenIn][Router]
  BY <1>1, <1>2, <1>3 DEF CanPush
<1> HIDE DEF leg
<1>5. /\ Moved(bal, bal', TokenIn, Router, leg.amountIn,
               TokenIn, leg.venue, Credited(TokenIn, leg.amountIn))
      /\ Credited(TokenIn, leg.amountIn) \in Nat
  BY <1>1, <1>2, <1>3, <1>4, TransferEffect
<1>6. bal'[TokenIn][Router] + leg.amountIn = bal[TokenIn][Router]
  BY <1>2, <1>3, <1>4, <1>5 DEF Moved
<1> QED BY <1>2, <1>3, <1>5, <1>6 DEF Moved, leg
\* A venue pays out of its own.
LEMMA VenueMoves ==
    ASSUME PlanInv, LedgerInv, NEW t \in Tokens, NEW to \in Market[call].payees,
           NEW x \in Market[call].pays, VenuePays(t, to, x)
    PROVE  /\ bal' \in Ledgers
           /\ \A s \in Tokens, a \in Users \cup {Router} :
                 bal'[s][a] >= bal[s][a]
           /\ \A s \in Tokens, a \in Accounts \ {venue} :
                 bal'[s][a] >= bal[s][a]
<1>1. /\ pc = "venue" /\ venue \in Makers /\ x <= bal[t][venue]
      /\ bal' = Transfer(bal, t, venue, to, x)
  BY DEF VenuePays
<1>2. to \in Accounts /\ x \in Nat
  <2>1. call \in Calls
    BY <1>1, Context
  <2>2. Market[call] \in MarketType
    BY <2>1, CallFacts
  <2> QED BY <2>2 DEF MarketType
<1>3. bal \in Ledgers /\ venue \in Accounts
      /\ Users \cup {Router} \subseteq Accounts /\ venue \notin Users \cup {Router}
  BY <1>1, Context DEF Listable
<1>4. /\ Moved(bal, bal', t, venue, x, t, to, Credited(t, x))
      /\ Credited(t, x) \in Nat
  BY <1>1, <1>2, <1>3, TransferEffect
<1> QED BY <1>2, <1>3, <1>4 DEF Moved

\* Uniswap pulls input from the router, and pays the receiver out of its own.
LEMMA UniswapMoves ==
    ASSUME PlanInv, LedgerInv, NEW used \in Nat, NEW out \in Nat,
           Uniswap(used, out)
    PROVE  /\ bal' \in Ledgers
           /\ \A s \in Tokens, a \in Users \cup {Router} :
                 s # TokenIn => bal'[s][a] >= bal[s][a]
           /\ bal'[TokenIn][Router] + used = bal[TokenIn][Router]
           /\ \A s \in Tokens, a \in Accounts \ {fb, Router} :
                 bal'[s][a] >= bal[s][a]
<1> DEFINE mid == Transfer(bal, TokenIn, Router, fb, used)
<1>1. /\ pc = "uniswap"
      /\ used <= bal[TokenIn][Router] /\ out <= bal[TokenOut][fb]
      /\ bal' = Transfer(mid, TokenOut, fb, Receiver, out)
  BY DEF Uniswap
<1>2. /\ bal \in Ledgers /\ TokenIn \in Tokens /\ TokenOut \in Tokens
      /\ Router \in Accounts /\ fb \in Accounts /\ Receiver \in Accounts
      /\ fb \notin Users \cup {Router} /\ Users \cup {Router} \subseteq Accounts
      /\ TokenIn # TokenOut
  BY <1>1, Context, OutputIsNotInput
<1>3. /\ Moved(bal, mid, TokenIn, Router, used, TokenIn, fb,
               Credited(TokenIn, used))
      /\ Credited(TokenIn, used) \in Nat
  BY <1>1, <1>2, TransferEffect
<1> HIDE DEF mid
<1>4. mid \in Ledgers /\ out <= mid[TokenOut][fb]
  BY <1>1, <1>2, <1>3 DEF Moved
<1>5. /\ Moved(mid, bal', TokenOut, fb, out, TokenOut, Receiver,
               Credited(TokenOut, out))
      /\ Credited(TokenOut, out) \in Nat
  BY <1>1, <1>2, <1>4, TransferEffect
<1>6. bal'[TokenIn][Router] + used = bal[TokenIn][Router]
  BY <1>2, <1>3, <1>5 DEF Moved
<1>7. ASSUME NEW s \in Tokens, NEW a \in Users \cup {Router}, s # TokenIn
      PROVE  bal'[s][a] >= bal[s][a]
  BY <1>2, <1>3, <1>5, <1>7 DEF Moved
<1>8. ASSUME NEW s \in Tokens, NEW a \in Accounts \ {fb, Router}
      PROVE  bal'[s][a] >= bal[s][a]
  BY <1>2, <1>3, <1>5, <1>8 DEF Moved
<1> QED BY <1>5, <1>6, <1>7, <1>8 DEF Moved

\* Measuring the output again collects what came since the last measure.
LEMMA Collected ==
    ASSUME PlanInv, LedgerInv, pc \in {"venue", "uniReturn"}, Delta >= 0
    PROVE  /\ got + Delta \in Nat
           /\ bal[TokenOut][Receiver]
                 >= committed.bal[TokenOut][Receiver] + (got + Delta)
<1>1. /\ bal[TokenOut][Receiver] \in Nat
      /\ committed.bal[TokenOut][Receiver] \in Nat
      /\ prev \in Nat /\ got \in Nat
  BY Context
<1>2. prev >= committed.bal[TokenOut][Receiver] + got
  BY DEF LedgerInv, OutputKept
<1> QED BY <1>1, <1>2 DEF Delta

\* The floor of the fallback is no negative number.
LEMMA FloorsNat ==
    ASSUME PlanInv, LedgerInv, pc \notin {"idle", "enter"}
    PROVE  MinOut \in Nat /\ UniMin \in Nat
<1>1. MinOut \in Nat
  <2>1. call.withFee => call.bps \in Bps
    BY Context, FeeConstants
       DEF Arguments, LedgerInv, Checked, ValidFee, Bps
  <2> QED BY <2>1, Context, GrossUpType DEF MinOut
<1>2. got \in Nat
  BY Context
<1> QED BY <1>1, <1>2 DEF UniMin
(***************************************************************************)
(* Every step keeps what was there                                         *)
(***************************************************************************)
\* Steps that touch no ledger, up to the adoption of the plan and beyond a leg
\* that is not run.
LEMMA LedgerUntouched ==
    ASSUME LedgerInv,
           UNCHANGED <<bal, allow, call, venue, prev, got, fee, committed,
                       frame, receipt, calls, snap>>,
           pc \in {"probe", "place", "bracket", "legs"},
           pc' \in {"place", "bracket", "legs"}, pc = "legs" => pc' = "legs"
    PROVE  LedgerInv'
<1>1. LedgerTypeOK'
  BY DEF LedgerInv, LedgerTypeOK
<1>2. Checked'
  BY DEF LedgerInv, Checked, TokenIn, TokenOut, ValidFee
<1>3. OutputKept'
  BY DEF LedgerInv, OutputKept, Keeps, TokenIn, TokenOut, Receiver
<1> QED BY <1>1, <1>2, <1>3 DEF LedgerInv

LEMMA LedgerProbes == ASSUME PlanInv, LedgerInv, ProbeVenue PROVE LedgerInv'
<1>1. /\ pc = "probe" /\ pc' = pc
      /\ UNCHANGED <<allow, venues, fb, call, venue, prev, got, fee, committed,
                     frame, receipt, calls, snap>>
  BY DEF ProbeVenue, swapVars
<1>2. LedgerTypeOK'
  BY <1>1, ProbeMoves DEF LedgerInv, LedgerTypeOK
<1>3. Checked'
  BY <1>1 DEF LedgerInv, Checked, TokenIn, TokenOut, ValidFee
<1>4. Keeps(bal', TokenOut, Receiver)
  <2>1. Keeps(bal, TokenOut, Receiver) /\ bal \in Ledgers /\ bal' \in Ledgers
    BY <1>1, ProbeMoves DEF LedgerInv, LedgerTypeOK, OutputKept
  <2>2. Users \cup {Router} \subseteq Accounts
    BY DEF Accounts
  <2> QED BY <1>1, <2>1, <2>2, ProbeMoves, KeepsRaised
<1>5. OutputKept'
  BY <1>1, <1>4 DEF OutputKept, Keeps, TokenIn, TokenOut, Receiver
<1> QED BY <1>2, <1>3, <1>5 DEF LedgerInv

LEMMA LedgerPushes == ASSUME PlanInv, LedgerInv, PushLeg PROVE LedgerInv'
<1>1. /\ pc = "legs" /\ pc' = "venue"
      /\ prev' = bal[TokenOut][Receiver] /\ frame' = World
      /\ venue' = legs[next].venue
      /\ UNCHANGED <<allow, venues, fb, call, got, fee, committed, receipt,
                     calls, snap>>
  BY DEF PushLeg, Running, planVars
<1>2. Keeps(bal, TokenOut, Receiver)
  BY <1>1 DEF LedgerInv, OutputKept
<1>3. prev' \in Nat /\ prev' >= committed.bal[TokenOut][Receiver] + got
  <2>1. bal[TokenOut][Receiver] \in Nat
    BY <1>1, Context
  <2>2. bal[TokenOut][Receiver] >= committed.bal[TokenOut][Receiver] + got
    BY <1>1, <1>2, Context, OutputIsNotInput DEF Keeps
  <2> QED BY <1>1, <2>1, <2>2
<1>4. LedgerTypeOK'
  <2>1. frame' \in [bal : Ledgers, allow : Approvals]
    BY <1>1 DEF LedgerInv, LedgerTypeOK, World
  <2> QED BY <1>1, <1>3, <2>1, LegMoves DEF LedgerInv, LedgerTypeOK
<1>5. Checked'
  BY <1>1 DEF LedgerInv, Checked, TokenIn, TokenOut, ValidFee
<1>6. Keeps(bal', TokenOut, Receiver)
  <2>1. bal \in Ledgers /\ bal' \in Ledgers /\ Users \cup {Router} \subseteq Accounts
    BY LegMoves DEF LedgerInv, LedgerTypeOK, Accounts
  <2> QED BY <1>1, <1>2, <2>1, LegMoves, KeepsRaised
<1>7. OutputKept'
  BY <1>1, <1>2, <1>3, <1>6
     DEF OutputKept, Keeps, TokenIn, TokenOut, Receiver, World
<1> QED BY <1>4, <1>5, <1>7 DEF LedgerInv

LEMMA LedgerPaid ==
    ASSUME PlanInv, LedgerInv, NEW t \in Tokens, NEW to \in Market[call].payees,
           NEW x \in Market[call].pays, VenuePays(t, to, x)
    PROVE  LedgerInv'
<1>1. /\ pc = "venue" /\ pc' = pc
      /\ UNCHANGED <<allow, call, venue, prev, got, fee, committed, frame,
                     receipt, calls, snap>>
  BY DEF VenuePays, swapVars, planVars
<1>2. LedgerTypeOK'
  BY <1>1, VenueMoves DEF LedgerInv, LedgerTypeOK
<1>3. Checked'
  BY <1>1 DEF LedgerInv, Checked, TokenIn, TokenOut, ValidFee
<1>4. Keeps(bal', TokenOut, Receiver)
  <2>1. Keeps(bal, TokenOut, Receiver) /\ bal \in Ledgers /\ bal' \in Ledgers
    BY <1>1, VenueMoves DEF LedgerInv, LedgerTypeOK, OutputKept
  <2> QED BY <1>1, <2>1, VenueMoves, KeepsRaised
<1>5. OutputKept'
  BY <1>1, <1>4 DEF LedgerInv, OutputKept, Keeps, TokenIn, TokenOut, Receiver
<1> QED BY <1>2, <1>3, <1>5 DEF LedgerInv

LEMMA LedgerFills == ASSUME PlanInv, LedgerInv, LegFills PROVE LedgerInv'
<1>1. /\ pc = "venue" /\ pc' = "legs" /\ got' = got + Delta
      /\ Delta >= legs[next].minOut
      /\ UNCHANGED <<bal, allow, call, venue, prev, fee, committed, frame,
                     receipt, calls, snap>>
  BY DEF LegFills, stateVars
<1>2. Delta >= 0
  <2>1. legs[next].minOut \in Nat
    BY <1>1, LegFacts DEF PlanInv, LegsIntact
  <2>2. bal[TokenOut][Receiver] \in Nat /\ prev \in Nat
    BY <1>1, Context
  <2> QED BY <1>1, <2>1, <2>2 DEF Delta
<1>3. LedgerTypeOK'
  BY <1>1, <1>2, Collected DEF LedgerInv, LedgerTypeOK
<1>4. Checked'
  BY <1>1 DEF LedgerInv, Checked, TokenIn, TokenOut, ValidFee
<1>5. Keeps(bal, TokenOut, Receiver)'
  <2> SUFFICES ASSUME NEW s \in Tokens, NEW a \in Users \cup {Router},
                      s # TokenIn, ~(s = call.tokenIn /\ a = call.sender)
               PROVE  bal[s][a] >= committed.bal[s][a]
                         + (IF s = TokenOut /\ a = Receiver THEN got' ELSE 0)
    BY <1>1 DEF Keeps, TokenIn, TokenOut, Receiver
  <2>1. CASE s = TokenOut /\ a = Receiver
    BY <1>1, <1>2, <2>1, Collected
  <2>2. CASE ~(s = TokenOut /\ a = Receiver)
    BY <1>1, <2>2 DEF LedgerInv, OutputKept, Keeps
  <2> QED BY <2>1, <2>2
<1> QED BY <1>1, <1>3, <1>4, <1>5 DEF LedgerInv, OutputKept
\* A failed leg is undone: its frame kept what was there.
LEMMA LedgerUndone == ASSUME PlanInv, LedgerInv, LegFails PROVE LedgerInv'
<1>1. /\ pc = "venue" /\ pc' = "legs"
      /\ bal' = frame.bal /\ allow' = frame.allow
      /\ UNCHANGED <<call, venue, prev, got, fee, committed, frame, receipt,
                     calls, snap>>
  BY DEF LegFails, Absorb
<1>2. LedgerTypeOK'
  BY <1>1 DEF LedgerInv, LedgerTypeOK
<1>3. Checked'
  BY <1>1 DEF LedgerInv, Checked, TokenIn, TokenOut, ValidFee
<1>4. OutputKept'
  BY <1>1 DEF LedgerInv, OutputKept, Keeps, TokenIn, TokenOut, Receiver
<1> QED BY <1>2, <1>3, <1>4 DEF LedgerInv

LEMMA LedgerApproves ==
    ASSUME PlanInv, LedgerInv, StartUniswap
    PROVE  LedgerInv'
<1>1. /\ pc = "legs" /\ pc' = "uniswap"
      /\ prev' = bal[TokenOut][Receiver]
      /\ allow' = Approve(TokenIn, fb, failed)
      /\ UNCHANGED <<bal, call, venue, got, fee, committed, frame, receipt,
                     calls, snap>>
  BY DEF StartUniswap, LegsDone, planVars
<1>2. Keeps(bal, TokenOut, Receiver)
  BY <1>1 DEF LedgerInv, OutputKept
<1>3. prev' \in Nat /\ prev' >= committed.bal[TokenOut][Receiver] + got
  <2>1. bal[TokenOut][Receiver] \in Nat
    BY <1>1, Context
  <2>2. bal[TokenOut][Receiver] >= committed.bal[TokenOut][Receiver] + got
    BY <1>1, <1>2, Context, OutputIsNotInput DEF Keeps
  <2> QED BY <1>1, <2>1, <2>2
<1>4. allow' \in Approvals
  <2>1. failed \in Nat
    BY DEF PlanInv, PlanTypeOK
  <2> QED BY <1>1, <2>1, Context, ApproveEffect
<1>5. LedgerTypeOK'
  BY <1>1, <1>3, <1>4 DEF LedgerInv, LedgerTypeOK
<1>6. Checked'
  BY <1>1 DEF LedgerInv, Checked, TokenIn, TokenOut, ValidFee
<1>7. OutputKept'
  BY <1>1, <1>2, <1>3 DEF OutputKept, Keeps, TokenIn, TokenOut, Receiver
<1> QED BY <1>5, <1>6, <1>7 DEF LedgerInv

LEMMA LedgerSwaps ==
    ASSUME PlanInv, LedgerInv, NEW used \in Nat, NEW out \in Nat,
           Uniswap(used, out)
    PROVE  LedgerInv'
<1>1. /\ pc = "uniswap" /\ pc' = "uniReturn"
      /\ used <= allow[TokenIn][fb]
      /\ allow' = Approve(TokenIn, fb, allow[TokenIn][fb] - used)
      /\ UNCHANGED <<call, venue, prev, got, fee, committed, frame, receipt,
                     calls, snap>>
  BY DEF Uniswap, planVars
<1>2. allow' \in Approvals
  <2>1. allow[TokenIn][fb] - used \in Nat
    BY <1>1, Context DEF Approvals
  <2> QED BY <1>1, <2>1, Context, ApproveEffect
<1>3. LedgerTypeOK'
  BY <1>1, <1>2, UniswapMoves DEF LedgerInv, LedgerTypeOK
<1>4. Checked'
  BY <1>1 DEF LedgerInv, Checked, TokenIn, TokenOut, ValidFee
<1>5. Keeps(bal', TokenOut, Receiver)
  <2>1. Keeps(bal, TokenOut, Receiver) /\ bal \in Ledgers /\ bal' \in Ledgers
    BY <1>1, UniswapMoves DEF LedgerInv, LedgerTypeOK, OutputKept
  <2> QED BY <1>1, <2>1, UniswapMoves, KeepsRaised
<1>6. OutputKept'
  BY <1>1, <1>5 DEF LedgerInv, OutputKept, Keeps, TokenIn, TokenOut, Receiver
<1> QED BY <1>3, <1>4, <1>6 DEF LedgerInv

LEMMA LedgerReturns ==
    ASSUME PlanInv, LedgerInv, UniswapReturns
    PROVE  LedgerInv'
<1>1. /\ pc = "uniReturn" /\ pc' = "total" /\ got' = got + Delta
      /\ Delta >= UniMin
      /\ allow' = Approve(TokenIn, fb, 0)
      /\ UNCHANGED <<bal, call, venue, prev, fee, committed, frame, receipt,
                     calls, snap>>
  BY DEF UniswapReturns
<1>2. Delta >= 0
  <2>1. bal[TokenOut][Receiver] \in Nat /\ prev \in Nat
    BY <1>1, Context
  <2> QED BY <1>1, <2>1, FloorsNat DEF Delta
<1>3. allow' \in Approvals
  BY <1>1, Context, ApproveEffect
<1>4. LedgerTypeOK'
  BY <1>1, <1>2, <1>3, Collected DEF LedgerInv, LedgerTypeOK
<1>5. Checked'
  BY <1>1 DEF LedgerInv, Checked, TokenIn, TokenOut, ValidFee
<1>6. Keeps(bal, TokenOut, Receiver)'
  <2> SUFFICES ASSUME NEW s \in Tokens, NEW a \in Users \cup {Router},
                      s # TokenIn, ~(s = call.tokenIn /\ a = call.sender)
               PROVE  bal[s][a] >= committed.bal[s][a]
                         + (IF s = TokenOut /\ a = Receiver THEN got' ELSE 0)
    BY <1>1 DEF Keeps, TokenIn, TokenOut, Receiver
  <2>1. CASE s = TokenOut /\ a = Receiver
    BY <1>1, <1>2, <2>1, Collected
  <2>2. CASE ~(s = TokenOut /\ a = Receiver)
    BY <1>1, <2>2 DEF LedgerInv, OutputKept, Keeps
  <2> QED BY <2>1, <2>2
<1> QED BY <1>1, <1>4, <1>5, <1>6 DEF LedgerInv, OutputKept

LEMMA LedgerTotals == ASSUME PlanInv, LedgerInv, Total PROVE LedgerInv'
<1>1. /\ pc \in {"legs", "total"} /\ pc' = "deliver" /\ got >= MinOut
      /\ UNCHANGED <<bal, allow, call, venue, prev, got, fee, committed, frame,
                     receipt, calls, snap>>
  BY DEF Total, AllRun, LegsDone, stateVars, planVars
<1>2. LedgerTypeOK'
  BY <1>1 DEF LedgerInv, LedgerTypeOK
<1>3. Checked'
  BY <1>1 DEF LedgerInv, Checked, TokenIn, TokenOut, ValidFee, MinOut
<1>4. OutputKept'
  BY <1>1 DEF LedgerInv, OutputKept, Keeps, TokenIn, TokenOut, Receiver
<1> QED BY <1>2, <1>3, <1>4 DEF LedgerInv
\* What was collected is on the router when it is unwrapped or shared out.
LEMMA Covered ==
    ASSUME PlanInv, LedgerInv, pc \in {"deliver", "disburse"}
    PROVE  /\ pc = "disburse" => got <= bal[call.tokenOut][Router]
           /\ pc = "deliver" /\ call.tokenOut = ETH => got <= bal[WETH][Router]
<1>1. \A t \in Tokens : /\ bal[t][Router] \in Nat
                        /\ committed.bal[t][Router] \in Nat
                        /\ got \in Nat
  BY Context
<1>2. /\ TokenOut \in Tokens /\ call.tokenOut \in Tokens
      /\ TokenOut # TokenIn /\ call.tokenOut # TokenIn
      /\ call.sender # Router
      /\ call.tokenOut = ETH => TokenOut = WETH /\ Receiver = Router
  BY Context, OutputIsNotInput DEF Receiver
<1>3. CASE pc = "disburse"
  <2>1. bal[call.tokenOut][Router] >= committed.bal[call.tokenOut][Router] + got
    BY <1>2, <1>3 DEF LedgerInv, OutputKept, Keeps
  <2> QED BY <1>1, <1>2, <1>3, <2>1
<1>4. CASE pc = "deliver" /\ call.tokenOut = ETH
  <2>1. bal[WETH][Router] >= committed.bal[WETH][Router] + got
    BY <1>2, <1>4 DEF LedgerInv, OutputKept, Keeps
  <2> QED BY <1>1, <1>2, <1>4, <2>1
<1> QED BY <1>3, <1>4

LEMMA LedgerDelivers == ASSUME PlanInv, LedgerInv, Deliver, UNCHANGED planVars
                        PROVE  LedgerInv'
<1>1. /\ pc = "deliver"
      /\ pc' = IF call.withFee THEN "disburse" ELSE "done"
      /\ UNCHANGED <<allow, call, venue, prev, got, fee, committed, frame,
                     receipt, calls, snap>>
  BY DEF Deliver, planVars
<1>2. /\ bal' \in Ledgers
      /\ UnwrapTo \in Users \cup {Router}
      /\ \A s \in Tokens, a \in Accounts :
            /\ bal[s][a] \in Nat /\ bal'[s][a] \in Nat
            /\ bal'[s][a] = bal[s][a]
                  - (IF call.tokenOut = ETH /\ s = WETH /\ a = Router
                     THEN got ELSE 0)
                  + (IF call.tokenOut = ETH /\ s = ETH /\ a = UnwrapTo
                     THEN got ELSE 0)
  <2>1. Arguments /\ bal \in Ledgers /\ got \in Nat
    BY <1>1, Context
  <2> QED BY <1>1, <2>1, Covered, DeliverMoves
<1>3. LedgerTypeOK'
  BY <1>1, <1>2 DEF LedgerInv, LedgerTypeOK
<1>4. Checked'
  BY <1>1
     DEF LedgerInv, Checked, TokenIn, TokenOut, ValidFee, MinOut
<1> DEFINE o == IF call.withFee THEN Router ELSE call.recipient
<1>5. Keeps(bal', call.tokenOut, o)
  <2> SUFFICES ASSUME NEW s \in Tokens, NEW a \in Users \cup {Router},
                      s # TokenIn, ~(s = call.tokenIn /\ a = call.sender)
               PROVE  bal'[s][a] >= committed.bal[s][a]
                         + (IF s = call.tokenOut /\ a = o THEN got ELSE 0)
    BY DEF Keeps
  <2>1. /\ a \in Accounts /\ got \in Nat
        /\ bal[s][a] \in Nat /\ bal'[s][a] \in Nat
        /\ committed.bal[s][a] \in Nat
    BY <1>1, <1>2, Context DEF Accounts
  <2>2. bal[s][a] >= committed.bal[s][a]
                        + (IF s = TokenOut /\ a = Receiver THEN got ELSE 0)
    BY <1>1 DEF LedgerInv, OutputKept, Keeps
  <2>3. CASE call.tokenOut # ETH
    <3>1. TokenOut = call.tokenOut /\ Receiver = o
      BY <1>1, <2>3, Context DEF Receiver
    <3>2. bal'[s][a] = bal[s][a]
      BY <1>2, <2>1, <2>3
    <3> QED BY <2>2, <3>1, <3>2
  <2>4. CASE call.tokenOut = ETH
    <3>1. TokenOut = WETH /\ WETH # ETH /\ Receiver = Router /\ UnwrapTo = o
      BY <1>1, <2>4, Context DEF Receiver, UnwrapTo
    <3>2. bal'[s][a] = bal[s][a] - (IF s = WETH /\ a = Router THEN got ELSE 0)
                                 + (IF s = ETH /\ a = o THEN got ELSE 0)
      BY <1>2, <2>1, <2>4, <3>1
    <3>3. bal[s][a] >= committed.bal[s][a]
                          + (IF s = WETH /\ a = Router THEN got ELSE 0)
      BY <2>2, <3>1
    <3> HIDE DEF o
    <3> QED BY <2>1, <2>4, <3>1, <3>2, <3>3
  <2> QED BY <2>3, <2>4
<1>6. OutputKept'
  <2>1. CASE call.withFee
    BY <1>1, <1>5, <2>1 DEF OutputKept, Keeps, TokenIn
  <2>2. CASE ~call.withFee
    BY <1>1, <1>5, <2>2 DEF OutputKept, Keeps, TokenIn
  <2> QED BY <2>1, <2>2
<1> QED BY <1>3, <1>4, <1>6 DEF LedgerInv

LEMMA LedgerDisburses ==
    ASSUME PlanInv, LedgerInv, Disburse, UNCHANGED planVars
    PROVE  LedgerInv'
<1> DEFINE out == call.tokenOut
           r == call.recipient
<1>1. /\ pc = "disburse" /\ pc' = "done"
      /\ got' = Received /\ fee' = FeeDue /\ Received >= call.amountOutMin
      /\ UNCHANGED <<allow, call, venue, prev, committed, frame, receipt, calls,
                     snap>>
      /\ call.withFee /\ ValidFee
  BY DEF Disburse, Disbursable, planVars, LedgerInv, Checked
<1>2. /\ bal' \in Ledgers
      /\ FeeDue \in Nat /\ Received \in Nat
      /\ \A s \in Tokens, a \in Accounts :
            /\ bal[s][a] \in Nat /\ bal'[s][a] \in Nat
            /\ a # Router \/ s # out => bal'[s][a] >= bal[s][a]
      /\ bal'[out][Router] >= bal[out][Router] - got
      /\ bal'[out][r] >= bal[out][r] + Received
                            - (IF r = Router THEN got ELSE 0)
  <2>1. Arguments /\ bal \in Ledgers /\ got \in Nat
    BY <1>1, Context
  <2> QED BY <1>1, <2>1, Covered, DisburseMoves
<1>3. LedgerTypeOK'
  BY <1>1, <1>2 DEF LedgerInv, LedgerTypeOK
<1>4. Checked'
  BY <1>1
     DEF LedgerInv, Checked, TokenIn, TokenOut, ValidFee, MinOut
<1>5. Keeps(bal, out, r)'
  <2> SUFFICES ASSUME NEW s \in Tokens, NEW a \in Users \cup {Router},
                      s # TokenIn, ~(s = call.tokenIn /\ a = call.sender)
               PROVE  bal'[s][a] >= committed.bal[s][a]
                         + (IF s = out /\ a = r THEN Received ELSE 0)
    BY <1>1 DEF Keeps, TokenIn
  <2>1. /\ a \in Accounts /\ got \in Nat /\ Received \in Nat
        /\ bal[s][a] \in Nat /\ bal'[s][a] \in Nat
        /\ committed.bal[s][a] \in Nat
    BY <1>1, <1>2, Context DEF Accounts
  <2>2. bal[s][a] >= committed.bal[s][a]
                        + (IF s = out /\ a = Router THEN got ELSE 0)
    BY <1>1 DEF LedgerInv, OutputKept, Keeps
  <2> HIDE DEF out, r
  <2>3. CASE s = out /\ a = r
    BY <1>2, <2>1, <2>2, <2>3
  <2>4. CASE s = out /\ a = Router /\ a # r
    BY <1>2, <2>1, <2>2, <2>4
  <2>5. CASE s # out \/ (a # Router /\ a # r)
    BY <1>2, <2>1, <2>2, <2>5
  <2> QED BY <2>3, <2>4, <2>5
<1>6. OutputKept'
  BY <1>1, <1>5 DEF OutputKept
<1> QED BY <1>3, <1>4, <1>6 DEF LedgerInv

\* Pausing and stuttering.
LEMMA LedgerStands ==
    ASSUME LedgerInv, UNCHANGED <<bal, allow, swapVars, snap>>
    PROVE  LedgerInv'
<1> USE DEF swapVars
<1>1. LedgerTypeOK'
  BY DEF LedgerInv, LedgerTypeOK
<1>2. Checked'
  BY DEF LedgerInv, Checked, TokenIn, TokenOut, ValidFee, MinOut, World
<1>3. OutputKept'
  BY DEF LedgerInv, OutputKept, Keeps, TokenIn, TokenOut, Receiver
<1> QED BY <1>1, <1>2, <1>3 DEF LedgerInv

LEMMA LedgerNext == PlanInv /\ LedgerInv /\ [Next]_vars => LedgerInv'
<1> SUFFICES ASSUME PlanInv, LedgerInv, [Next]_vars PROVE LedgerInv'
  OBVIOUS
<1>1. ASSUME NEW c \in Calls, Begin(c) PROVE LedgerInv'
  BY <1>1, LedgerBegins
<1>2. CASE Administer \/ UNCHANGED vars
  BY <1>2, LedgerStands
     DEF Administer, Pause, Unpause, planVars, vars, stateVars
<1>3. CASE Pull \/ ProbeVenue \/ StartUniswap \/ UniswapReturns \/ Total
  BY <1>3, LedgerPulls, LedgerProbes, LedgerApproves, LedgerReturns,
     LedgerTotals
<1>4. CASE Rank \/ Planning \/ Adopt
  BY <1>4, LedgerUntouched
     DEF Rank, Planning, Place, Refine, EndPlan, Adopt, Placing, stateVars,
         swapVars, planVars
<1>5. CASE SkipFallbackLeg \/ PushLegFails
  BY <1>5, LedgerUntouched
     DEF SkipFallbackLeg, PushLegFails, Running, Absorb, stateVars, swapVars
<1>6. CASE PushLeg \/ LegFills \/ LegFails
  BY <1>6, LedgerPushes, LedgerFills, LedgerUndone
<1>7. CASE (Deliver \/ Disburse) /\ UNCHANGED planVars
  BY <1>7, LedgerDelivers, LedgerDisburses
<1>8. CASE Fails \/ ((DeliverFails \/ DisburseFails) /\ Drop)
  BY <1>8, LedgerReverts DEF Fails, DeliverFails, DisburseFails
<1>9. CASE Commit
  BY <1>9, LedgerSettles
<1>10. ASSUME NEW t \in Tokens, NEW to \in Market[call].payees,
              NEW x \in Market[call].pays, VenuePays(t, to, x)
       PROVE  LedgerInv'
  BY <1>10, LedgerPaid
<1>11. ASSUME pc = "uniswap", NEW used \in Market[call].pays,
              NEW out \in Market[call].pays, Uniswap(used, out)
       PROVE  LedgerInv'
  <2>1. call \in Calls
    BY <1>11, Context
  <2>2. Market[call].pays \subseteq Nat
    BY <2>1, CallFacts DEF MarketType
  <2> QED BY <1>11, <2>2, LedgerSwaps
<1> QED
  BY <1>1, <1>2, <1>3, <1>4, <1>5, <1>6, <1>7, <1>8, <1>9, <1>10, <1>11
     DEF Next, CallStep, Finish
(***************************************************************************)
(* The input token                                                         *)
(***************************************************************************)
\* What the router holds of the input token on top of what it held when the call
\* began, but for what the token withheld on its way in.
InputHeld ==
    pc \notin {"idle", "enter"} =>
       LET held == committed.bal[TokenIn][Router]
           has  == bal[TokenIn][Router] + TransferTax[TokenIn]
       IN  /\ pc \in {"probe", "place", "bracket"} =>
                 snap + TransferTax[TokenIn] >= held + call.amountIn
           /\ pc = "legs" => has >= held + Unspent
           /\ pc = "venue" =>
                 /\ frame.bal[TokenIn][Router] + TransferTax[TokenIn] >= held + Unspent
                 /\ has + legs[next].amountIn >= held + Unspent
           /\ pc = "uniswap" => has >= held + allow[TokenIn][fb]
           /\ pc \in {"uniReturn", "total", "deliver", "disburse", "done"} =>
                 has >= held

\* What InputHeld says of the input from the adoption of the plan on.
LEMMA Handed ==
    ASSUME PlanInv, LedgerInv, pc \in {"legs", "venue"}
    PROVE  /\ Unspent \in Nat
           /\ next <= Len(legs) =>
                 /\ Unspent >= legs[next].amountIn
                 /\ Unspent = legs[next].amountIn
                                + InputOf(failed, SubSeq(legs, next + 1, Len(legs)))
                 /\ Unspent = InputOf(failed + legs[next].amountIn,
                                      SubSeq(legs, next + 1, Len(legs)))
           /\ next > Len(legs) => Unspent = failed
<1>1. /\ legs \in Seq(Legs) /\ failed \in Nat /\ Len(legs) \in Nat
      /\ next \in 1 .. Len(legs) + 1
  BY DEF PlanInv, PlanTypeOK, LegsIntact
<1>2. CASE next <= Len(legs)
  <2>1. next \in 1 .. Len(legs)
    BY <1>1, <1>2
  <2>2. legs[next].amountIn \in Nat
    BY <1>2, LegFacts
  <2>3. /\ InputOf(failed, SubSeq(legs, next + 1, Len(legs))) \in Nat
        /\ Unspent = legs[next].amountIn
                       + InputOf(failed, SubSeq(legs, next + 1, Len(legs)))
        /\ Unspent = InputOf(failed + legs[next].amountIn,
                             SubSeq(legs, next + 1, Len(legs)))
    BY <1>1, <2>1, InputOfRest DEF Unspent
  <2>4. Unspent \in Nat /\ Unspent >= legs[next].amountIn
    BY <2>2, <2>3
  <2> QED BY <1>1, <1>2, <2>3, <2>4
<1>3. CASE next > Len(legs)
  <2>1. next = Len(legs) + 1
    BY <1>1, <1>3
  <2>2. Unspent = failed
    BY <1>1, <2>1, InputOfRest DEF Unspent
  <2> QED BY <1>1, <1>3, <2>2
<1> QED BY <1>1, <1>2, <1>3

\* The whole input is on the router when it is pulled.
LEMMA HeldPulled == ASSUME PlanInv, LedgerInv, Pull PROVE InputHeld'
<1>1. /\ pc = "enter" /\ pc' = "probe" /\ Admissible
      /\ snap' = Pulled[TokenIn][Router]
      /\ UNCHANGED <<call, committed>>
      /\ committed = World
  BY DEF Pull, LedgerInv, Checked
<1>2. call.amountIn \in Nat /\ call.amountIn <= bal[call.tokenIn][call.sender]
  <2>1. bal[call.tokenIn][call.sender] >= call.amountIn
    BY <1>1 DEF Admissible
  <2> QED BY <1>1, <2>1, Context
<1>3. SUFFICES Pulled[TokenIn][Router] + TransferTax[TokenIn]
                  >= bal[TokenIn][Router] + call.amountIn
  BY <1>1 DEF InputHeld, TokenIn, World
<1>4. CASE call.tokenIn = ETH
  <2>1. Moved(bal, Pulled, ETH, call.sender, call.amountIn,
              WETH, Router, call.amountIn)
    BY <1>1, <1>2, <1>4, Context, MoveEffect DEF Pulled, Wrap
  <2> QED BY <1>1, <1>2, <1>4, <2>1, Context, TaxedTokens DEF Moved
<1>5. CASE call.tokenIn # ETH
  <2> DEFINE in == Credited(TokenIn, call.amountIn)
  <2>1. in \in Nat /\ in + TransferTax[TokenIn] >= call.amountIn
        /\ TransferTax[TokenIn] \in Nat
    <3>1. TokenIn \in Tokens
      BY <1>1, Context
    <3> HIDE DEF in
    <3>2. TransferTax[TokenIn] \in Nat
      BY <3>1, TaxedTokens
    <3>3. in \in 0 .. call.amountIn /\ in + TransferTax[TokenIn] >= call.amountIn
      BY <1>2, <3>1, CreditedBounds DEF in
    <3> QED BY <1>2, <3>2, <3>3
  <2>2. Moved(bal, Pulled, TokenIn, call.sender, call.amountIn, TokenIn, Router, in)
    BY <1>1, <1>2, <1>5, <2>1, Context, TransferEffect DEF Pulled
  <2>3. call.sender # Router
    BY <1>1, Context
  <2> HIDE DEF in
  <2>4. Pulled[TokenIn][Router] = bal[TokenIn][Router] + in
    BY <1>1, <1>2, <2>1, <2>2, <2>3, Context DEF Moved
  <2> QED BY <1>1, <1>2, <2>1, <2>4, Context
<1> QED BY <1>4, <1>5

\* Adopting the plan requires that no quote consumed any of it.
LEMMA HeldAdopted ==
    ASSUME PlanInv, LedgerInv, InputHeld, Adopt
    PROVE  InputHeld'
<1>1. /\ pc = "bracket" /\ pc' = "legs" /\ Sound
      /\ UNCHANGED <<bal, call, committed, planVars>>
  BY DEF Adopt, stateVars
<1>2. /\ legs \in Seq(Legs) /\ next = 1 /\ failed = 0
  BY <1>1 DEF PlanInv, PlanTypeOK, LegsIntact
<1>3. Unspent = call.amountIn
  <2>1. Unspent = 0 + InputOf(0, legs) /\ InputOf(0, legs) \in Nat
    BY <1>2, InputOfRest DEF Unspent
  <2> QED BY <1>1, <2>1 DEF Sound, Allocated
<1>4. Unspent' = Unspent
  BY <1>1 DEF Unspent, planVars
<1>5. SUFFICES bal[TokenIn][Router] + TransferTax[TokenIn]
                  >= committed.bal[TokenIn][Router] + call.amountIn
  BY <1>1, <1>3, <1>4 DEF InputHeld, TokenIn
<1>6. snap + TransferTax[TokenIn] >= committed.bal[TokenIn][Router] + call.amountIn
  BY <1>1 DEF InputHeld
<1>7. /\ bal[TokenIn][Router] \in Nat /\ snap \in Nat
      /\ committed.bal[TokenIn][Router] \in Nat /\ call.amountIn \in Nat
      /\ TransferTax[TokenIn] \in Nat
  BY <1>1, Context, TaxedTokens DEF LedgerInv, LedgerTypeOK
<1> QED BY <1>1, <1>6, <1>7 DEF Sound
\* The steps of the legs hand out the input of the leg they run, or keep it.
LEMMA HeldByLegs ==
    ASSUME PlanInv, LedgerInv, InputHeld,
           \/ SkipFallbackLeg \/ PushLeg \/ PushLegFails \/ LegFills \/ LegFails
    PROVE  InputHeld'
<1> DEFINE in == legs[next].amountIn
           later == InputOf(failed, SubSeq(legs, next + 1, Len(legs)))
<1>1. /\ pc \in {"legs", "venue"} /\ pc' \in {"legs", "venue"}
      /\ next <= Len(legs)
      /\ UNCHANGED <<call, committed, legs>>
  <2>1. pc = "venue" => next <= Len(legs)
    BY DEF PlanInv, LegsIntact
  <2>2. CASE SkipFallbackLeg
    BY <2>2 DEF SkipFallbackLeg, Running, Absorb, stateVars, swapVars
  <2>3. CASE PushLeg
    BY <2>3 DEF PushLeg, Running, planVars
  <2>4. CASE PushLegFails
    BY <2>4 DEF PushLegFails, Running, Absorb, stateVars, swapVars
  <2>5. CASE LegFills
    BY <2>1, <2>5 DEF LegFills, stateVars
  <2>6. CASE LegFails
    BY <2>1, <2>6 DEF LegFails, Absorb
  <2> QED BY <2>2, <2>3, <2>4, <2>5, <2>6
<1>2. /\ in \in Nat /\ Unspent \in Nat
      /\ Unspent = in + later
      /\ Unspent = InputOf(failed + in, SubSeq(legs, next + 1, Len(legs)))
  BY <1>1, LegFacts, Handed
<1>3. /\ next' = next /\ failed' = failed => Unspent' = Unspent
      /\ next' = next + 1 /\ failed' = failed => Unspent' = later
      /\ next' = next + 1 /\ failed' = failed + in => Unspent' = Unspent
  BY <1>1, <1>2 DEF Unspent
<1>4. /\ bal[TokenIn][Router] \in Nat /\ committed.bal[TokenIn][Router] \in Nat
      /\ TokenIn \in Tokens /\ Router \in Accounts
      /\ TransferTax[TokenIn] \in Nat
  BY <1>1, Context, TaxedTokens
<1>5. SUFFICES LET held == committed.bal[TokenIn][Router]
                   tax  == TransferTax[TokenIn]
                   has  == bal'[TokenIn][Router] + tax
               IN  /\ pc' = "legs" => has >= held + Unspent'
                   /\ pc' = "venue" =>
                         /\ frame'.bal[TokenIn][Router] + tax >= held + Unspent'
                         /\ has + legs'[next'].amountIn >= held + Unspent'
  BY <1>1 DEF InputHeld, TokenIn
<1>6. /\ pc = "legs" => bal[TokenIn][Router] + TransferTax[TokenIn]
                           >= committed.bal[TokenIn][Router] + Unspent
      /\ pc = "venue" =>
            /\ frame.bal[TokenIn][Router] + TransferTax[TokenIn]
                  >= committed.bal[TokenIn][Router] + Unspent
            /\ bal[TokenIn][Router] + TransferTax[TokenIn] + in
                  >= committed.bal[TokenIn][Router] + Unspent
  BY <1>1 DEF InputHeld
<1>7. CASE SkipFallbackLeg
  <2>1. /\ pc = "legs" /\ pc' = "legs" /\ bal' = bal
        /\ failed' = failed + in /\ next' = next + 1
    BY <1>7 DEF SkipFallbackLeg, Running, Absorb, stateVars, swapVars
  <2> QED BY <1>3, <1>6, <2>1
<1>8. CASE PushLegFails
  <2>1. /\ pc = "legs" /\ pc' = "legs" /\ bal' = bal
        /\ failed' = failed + in /\ next' = next + 1
    BY <1>8 DEF PushLegFails, Running, Absorb, stateVars, swapVars
  <2> QED BY <1>3, <1>6, <2>1
<1>9. CASE PushLeg
  <2>1. /\ pc = "legs" /\ pc' = "venue" /\ frame' = World
        /\ failed' = failed /\ next' = next
    BY <1>9 DEF PushLeg, Running, planVars
  <2>2. bal'[TokenIn][Router] + in = bal[TokenIn][Router]
    BY <1>9, LegMoves
  <2>3. /\ World.bal[TokenIn][Router] = bal[TokenIn][Router]
        /\ bal'[TokenIn][Router] + TransferTax[TokenIn] + in
              = bal[TokenIn][Router] + TransferTax[TokenIn]
    <3>1. bal'[TokenIn][Router] \in Nat
      BY <1>4, <1>9, LegMoves, BalanceNat
    <3> HIDE DEF in
    <3> QED BY <1>2, <1>4, <2>2, <3>1 DEF World
  <2> QED BY <1>1, <1>3, <1>6, <2>1, <2>3
<1>10. CASE LegFills
  <2>1. /\ pc = "venue" /\ pc' = "legs" /\ bal' = bal
        /\ failed' = failed /\ next' = next + 1
    BY <1>10 DEF LegFills, stateVars
  <2>2. Unspent' = later /\ later \in Nat
    <3>1. later \in Nat
      BY <1>1, LegFacts, InputOfRest DEF PlanInv, PlanTypeOK
    <3> QED BY <1>3, <2>1, <3>1
  <2> HIDE DEF in, later
  <2>3. bal[TokenIn][Router] + TransferTax[TokenIn]
           >= committed.bal[TokenIn][Router] + later
    <3>1. bal[TokenIn][Router] + TransferTax[TokenIn] + in
             >= committed.bal[TokenIn][Router] + Unspent
      BY <1>6, <2>1
    <3>2. Unspent = in + later /\ in \in Nat /\ later \in Nat
      BY <1>2, <2>2
    <3> QED BY <1>4, <3>1, <3>2
  <2> QED BY <2>1, <2>2, <2>3
<1>11. CASE LegFails
  <2>1. /\ pc = "venue" /\ pc' = "legs" /\ bal' = frame.bal
        /\ failed' = failed + in /\ next' = next + 1
    BY <1>11 DEF LegFails, Absorb
  <2> QED BY <1>3, <1>6, <2>1
<1> QED BY <1>7, <1>8, <1>9, <1>10, <1>11

\* The fallback is let at what the legs left and no more.
LEMMA HeldByUniswap ==
    ASSUME PlanInv, LedgerInv, InputHeld,
           \/ StartUniswap \/ UniswapReturns \/ Total
           \/ \E used, out \in Nat : Uniswap(used, out)
    PROVE  InputHeld'
<1>1. /\ pc \notin {"idle", "enter"} /\ call' = call /\ committed' = committed
  BY DEF StartUniswap, UniswapReturns, Total, AllRun, LegsDone, Uniswap
<1>2. /\ bal[TokenIn][Router] \in Nat /\ committed.bal[TokenIn][Router] \in Nat
      /\ TokenIn \in Tokens /\ Router \in Accounts /\ fb \in Fallbacks
      /\ allow \in Approvals /\ allow[TokenIn][fb] \in Nat
      /\ TransferTax[TokenIn] \in Nat
  BY <1>1, Context, TaxedTokens DEF Approvals
<1>3. CASE StartUniswap
  <2>1. /\ pc = "legs" /\ next > Len(legs) /\ pc' = "uniswap"
        /\ bal' = bal /\ fb' = fb /\ allow' = Approve(TokenIn, fb, failed)
    BY <1>3 DEF StartUniswap, LegsDone
  <2>2. Unspent = failed
    BY <2>1, Handed
  <2>3. allow'[TokenIn][fb] = failed
    BY <1>2, <2>1 DEF Approve
  <2> QED BY <1>1, <2>1, <2>2, <2>3 DEF InputHeld, TokenIn
<1>4. ASSUME NEW used \in Nat, NEW out \in Nat, Uniswap(used, out)
      PROVE  InputHeld'
  <2>1. /\ pc = "uniswap" /\ pc' = "uniReturn" /\ used <= allow[TokenIn][fb]
    BY <1>4 DEF Uniswap
  <2>2. bal'[TokenIn][Router] + used = bal[TokenIn][Router]
        /\ bal' \in Ledgers
    BY <1>4, UniswapMoves
  <2>3. bal'[TokenIn][Router] \in Nat
    BY <1>2, <2>2, BalanceNat
  <2>4. bal'[TokenIn][Router] + TransferTax[TokenIn]
           >= committed.bal[TokenIn][Router]
    <3>1. bal[TokenIn][Router] + TransferTax[TokenIn]
             >= committed.bal[TokenIn][Router] + allow[TokenIn][fb]
      BY <2>1 DEF InputHeld
    <3> QED BY <1>2, <2>1, <2>2, <2>3, <3>1
  <2> QED BY <1>1, <2>1, <2>4 DEF InputHeld, TokenIn
<1>5. CASE UniswapReturns
  BY <1>1, <1>5 DEF UniswapReturns, InputHeld, TokenIn
<1>6. CASE Total
  <2>1. /\ pc' = "deliver" /\ bal' = bal
        /\ pc = "total" \/ (pc = "legs" /\ Unspent \in Nat)
    BY <1>6, Handed DEF Total, AllRun, LegsDone, stateVars
  <2>2. bal[TokenIn][Router] + TransferTax[TokenIn]
           >= committed.bal[TokenIn][Router]
    <3>1. CASE pc = "total"
      BY <3>1 DEF InputHeld
    <3>2. CASE pc = "legs" /\ Unspent \in Nat
      <4>1. bal[TokenIn][Router] + TransferTax[TokenIn]
               >= committed.bal[TokenIn][Router] + Unspent
        BY <3>2 DEF InputHeld
      <4> QED BY <1>2, <3>2, <4>1
    <3> QED BY <2>1, <3>1, <3>2
  <2> QED BY <1>1, <2>1, <2>2 DEF InputHeld, TokenIn
<1> QED BY <1>3, <1>4, <1>5, <1>6

\* Nothing that ends the call well takes input.
LEMMA HeldAtTheEnd ==
    ASSUME PlanInv, LedgerInv, InputHeld,
           (Deliver \/ Disburse) /\ UNCHANGED planVars
    PROVE  InputHeld'
<1>1. /\ pc \in {"deliver", "disburse"} /\ pc' \in {"disburse", "done"}
      /\ call' = call /\ committed' = committed
  BY DEF Deliver, Disburse
<1>2. /\ TokenIn \in Tokens /\ Router \in Accounts
      /\ TokenIn # ETH /\ TokenIn # call.tokenOut
      /\ call.tokenOut = ETH => TokenIn # WETH
      /\ Arguments /\ bal \in Ledgers /\ got \in Nat
      /\ committed.bal[TokenIn][Router] \in Nat
  BY <1>1, Context, OutputIsNotInput
<1>3. bal'[TokenIn][Router] >= bal[TokenIn][Router]
      /\ bal[TokenIn][Router] \in Nat /\ bal'[TokenIn][Router] \in Nat
  <2>1. CASE Deliver
    <3>1. \A s \in Tokens, a \in Accounts :
             /\ bal[s][a] \in Nat /\ bal'[s][a] \in Nat
             /\ bal'[s][a] = bal[s][a]
                   - (IF call.tokenOut = ETH /\ s = WETH /\ a = Router
                      THEN got ELSE 0)
                   + (IF call.tokenOut = ETH /\ s = ETH /\ a = UnwrapTo
                      THEN got ELSE 0)
      <4>1. call.tokenOut = ETH => got <= bal[WETH][Router]
        BY <2>1, Covered DEF Deliver
      <4> QED BY <1>2, <2>1, <4>1, DeliverMoves
    <3> QED BY <1>2, <3>1
  <2>2. CASE Disburse
    <3>1. got <= bal[call.tokenOut][Router] /\ ValidFee
      BY <1>1, <2>2, Covered DEF Disburse, LedgerInv, Checked
    <3> QED BY <1>2, <2>2, <3>1, DisburseMoves
  <2> QED BY <2>1, <2>2
<1>4. bal'[TokenIn][Router] + TransferTax[TokenIn]
         >= committed.bal[TokenIn][Router]
  <2>1. bal[TokenIn][Router] + TransferTax[TokenIn]
           >= committed.bal[TokenIn][Router]
    BY <1>1 DEF InputHeld
  <2>2. TransferTax[TokenIn] \in Nat
    BY <1>2, TaxedTokens
  <2> QED BY <1>2, <1>3, <2>1, <2>2
<1> QED BY <1>1, <1>4 DEF InputHeld, TokenIn
\* Steps that touch neither ledger nor snapshot before the plan is adopted,
\* steps outside a call, and its end.
LEMMA HeldElsewhere ==
    ASSUME PlanInv, LedgerInv, InputHeld,
           \/ pc' \in {"idle", "enter"}
           \/ /\ pc \in {"probe", "place", "bracket"}
              /\ pc' \in {"probe", "place", "bracket"}
              /\ UNCHANGED <<call, committed, snap>>
           \/ UNCHANGED vars
    PROVE  InputHeld'
<1>1. CASE pc' \in {"idle", "enter"}
  BY <1>1 DEF InputHeld
<1>2. CASE /\ pc \in {"probe", "place", "bracket"}
           /\ pc' \in {"probe", "place", "bracket"}
           /\ UNCHANGED <<call, committed, snap>>
  BY <1>2 DEF InputHeld, TokenIn
<1>3. CASE UNCHANGED vars
  BY <1>3
     DEF vars, stateVars, swapVars, planVars, InputHeld, TokenIn, Unspent
<1> QED BY <1>1, <1>2, <1>3

\* A venue cannot take any of it back.
LEMMA HeldPaid ==
    ASSUME PlanInv, LedgerInv, InputHeld, NEW t \in Tokens,
           NEW to \in Market[call].payees, NEW x \in Market[call].pays,
           VenuePays(t, to, x)
    PROVE  InputHeld'
<1>1. /\ pc = "venue" /\ pc' = "venue" /\ next <= Len(legs)
      /\ UNCHANGED <<call, committed, frame, next, legs, failed>>
  BY DEF VenuePays, swapVars, planVars, PlanInv, LegsIntact
<1>2. /\ bal'[TokenIn][Router] >= bal[TokenIn][Router]
      /\ bal' \in Ledgers
  BY <1>1, VenueMoves, Context
<1>3. /\ bal[TokenIn][Router] \in Nat /\ bal'[TokenIn][Router] \in Nat
      /\ committed.bal[TokenIn][Router] \in Nat /\ TransferTax[TokenIn] \in Nat
      /\ legs[next].amountIn \in Nat /\ Unspent \in Nat
  BY <1>1, <1>2, Context, BalanceNat, LegFacts, Handed, TaxedTokens
<1>4. Unspent' = Unspent
  BY <1>1 DEF Unspent
<1>5. SUFFICES
         /\ frame.bal[TokenIn][Router] + TransferTax[TokenIn]
               >= committed.bal[TokenIn][Router] + Unspent
         /\ bal'[TokenIn][Router] + TransferTax[TokenIn] + legs[next].amountIn
               >= committed.bal[TokenIn][Router] + Unspent
  BY <1>1, <1>4 DEF InputHeld, TokenIn
<1>6. /\ frame.bal[TokenIn][Router] + TransferTax[TokenIn]
            >= committed.bal[TokenIn][Router] + Unspent
      /\ bal[TokenIn][Router] + TransferTax[TokenIn] + legs[next].amountIn
            >= committed.bal[TokenIn][Router] + Unspent
  BY <1>1 DEF InputHeld
<1>7. bal'[TokenIn][Router] + TransferTax[TokenIn] + legs[next].amountIn
         >= committed.bal[TokenIn][Router] + Unspent
  BY <1>2, <1>3, <1>6
<1> QED BY <1>6, <1>7

LEMMA HeldNext == PlanInv /\ LedgerInv /\ InputHeld /\ [Next]_vars => InputHeld'
<1> SUFFICES ASSUME PlanInv, LedgerInv, InputHeld, [Next]_vars
             PROVE  InputHeld'
  OBVIOUS
<1>1. ASSUME NEW c \in Calls, Begin(c) PROVE InputHeld'
  BY <1>1, HeldElsewhere DEF Begin, Call
<1>2. CASE Administer \/ UNCHANGED vars
  BY <1>2, HeldElsewhere DEF Administer, swapVars
<1>3. CASE Pull
  BY <1>3, HeldPulled
<1>4. CASE ProbeVenue \/ Rank \/ Planning
  BY <1>4, HeldElsewhere
     DEF ProbeVenue, Rank, Planning, Place, Refine, EndPlan, Placing, stateVars,
         swapVars, planVars
<1>5. CASE Adopt
  BY <1>5, HeldAdopted
<1>6. CASE SkipFallbackLeg \/ PushLeg \/ PushLegFails \/ LegFills \/ LegFails
  BY <1>6, HeldByLegs
<1>7. CASE StartUniswap \/ UniswapReturns \/ Total
  BY <1>7, HeldByUniswap
<1>8. CASE (Deliver \/ Disburse) /\ UNCHANGED planVars
  BY <1>8, HeldAtTheEnd
<1>9. CASE Fails \/ ((DeliverFails \/ DisburseFails) /\ Drop) \/ Commit
  BY <1>9, HeldElsewhere
     DEF Fails, DeliverFails, DisburseFails, Revert, Commit, Settle, Forget
<1>10. ASSUME NEW t \in Tokens, NEW to \in Market[call].payees,
              NEW x \in Market[call].pays, VenuePays(t, to, x)
       PROVE  InputHeld'
  BY <1>10, HeldPaid
<1>11. ASSUME pc = "uniswap", NEW used \in Market[call].pays,
              NEW out \in Market[call].pays, Uniswap(used, out)
       PROVE  InputHeld'
  <2>1. call \in Calls
    BY <1>11, Context
  <2>2. Market[call].pays \subseteq Nat
    BY <2>1, CallFacts DEF MarketType
  <2> QED BY <1>11, <2>2, HeldByUniswap
<1> QED
  BY <1>1, <1>2, <1>3, <1>4, <1>5, <1>6, <1>7, <1>8, <1>9, <1>10, <1>11
     DEF Next, CallStep, Finish

(***************************************************************************)
(* Approvals                                                               *)
(***************************************************************************)
\* The approval of the running Uniswap call is the only one ever.
ApprovalsIntact ==
    /\ NoStandingApproval
    /\ committed.allow = NoAllowance
    /\ pc = "venue" => frame.allow = NoAllowance
    /\ pc \in {"uniswap", "uniReturn"} =>
          \A s \in Tokens, g \in Fallbacks :
             ~(s = TokenIn /\ g = fb) => allow[s][g] = 0

LEMMA ApprovalsNext ==
    PlanInv /\ LedgerInv /\ ApprovalsIntact /\ [Next]_vars => ApprovalsIntact'
<1> SUFFICES ASSUME PlanInv, LedgerInv, ApprovalsIntact, [Next]_vars
             PROVE  ApprovalsIntact'
  OBVIOUS
<1> USE DEF ApprovalsIntact, NoStandingApproval
<1>1. ASSUME NEW c \in Calls, Begin(c) PROVE ApprovalsIntact'
  BY <1>1 DEF Begin, Call, stateVars
<1>2. CASE Administer \/ UNCHANGED vars
  BY <1>2
     DEF Administer, Pause, Unpause, vars, stateVars, swapVars, TokenIn
<1>3. CASE Pull \/ ProbeVenue \/ Rank \/ Planning \/ Adopt
  BY <1>3
     DEF Pull, ProbeVenue, Rank, Planning, Place, Refine, EndPlan, Placing,
         Adopt, stateVars, swapVars
<1>4. CASE SkipFallbackLeg \/ PushLeg \/ PushLegFails
  BY <1>4
     DEF SkipFallbackLeg, PushLeg, PushLegFails, Running, World, stateVars,
         swapVars
<1>5. CASE LegFills \/ LegFails \/ Total
  BY <1>5 DEF LegFills, LegFails, Total, AllRun, LegsDone, stateVars
<1>6. CASE StartUniswap
  <2>1. /\ pc = "legs" /\ pc' = "uniswap" /\ UNCHANGED <<call, fb, committed>>
        /\ allow' = Approve(TokenIn, fb, failed)
    BY <1>6 DEF StartUniswap, LegsDone
  <2>2. \A s \in Tokens, g \in Fallbacks :
           ~(s = TokenIn /\ g = fb) => allow'[s][g] = 0
    BY <2>1 DEF Approve, NoAllowance
  <2> QED BY <2>1, <2>2 DEF TokenIn
<1>7. ASSUME NEW used, NEW out, Uniswap(used, out) PROVE ApprovalsIntact'
  <2>1. /\ pc = "uniswap" /\ pc' = "uniReturn"
        /\ UNCHANGED <<call, fb, committed>>
        /\ allow' = Approve(TokenIn, fb, allow[TokenIn][fb] - used)
    BY <1>7 DEF Uniswap
  <2>2. \A s \in Tokens, g \in Fallbacks :
           ~(s = TokenIn /\ g = fb) => allow'[s][g] = 0
    BY <2>1 DEF Approve
  <2> QED BY <2>1, <2>2 DEF TokenIn
<1>8. CASE UniswapReturns
  <2>1. /\ pc = "uniReturn" /\ pc' = "total" /\ committed' = committed
        /\ allow' = Approve(TokenIn, fb, 0)
    BY <1>8 DEF UniswapReturns
  <2>2. allow' = NoAllowance
    BY <2>1 DEF Approve, NoAllowance
  <2> QED BY <2>1, <2>2
<1>9. CASE (Deliver \/ Disburse) /\ UNCHANGED planVars
  BY <1>9 DEF Deliver, Disburse
<1>10. CASE Fails \/ ((DeliverFails \/ DisburseFails) /\ Drop)
  BY <1>10 DEF Fails, DeliverFails, DisburseFails, Revert, Forget
<1>11. CASE Commit
  BY <1>11 DEF Commit, Settle, Forget, World
<1>12. ASSUME NEW t, NEW to, NEW x, VenuePays(t, to, x)
       PROVE  ApprovalsIntact'
  BY <1>12 DEF VenuePays, swapVars
<1> QED
  BY <1>1, <1>2, <1>3, <1>4, <1>5, <1>6, <1>7, <1>8, <1>9, <1>10, <1>11,
     <1>12
     DEF Next, CallStep, Finish
(***************************************************************************)
(* What the interface promises                                             *)
(***************************************************************************)
\* The input the sender has parted with.
Paid(t, a) ==
    IF pc # "enter" /\ t = call.tokenIn /\ a = call.sender THEN call.amountIn ELSE 0

\* A contract that has a part in the call and is not a maker yet.
AtWork(a) == (pc = "venue" /\ a = venue) \/ (pc = "uniReturn" /\ a = fb)

\* Nobody outside the router but a venue that filled, or is at work, has less than
\* when the call began, the sender's input excepted; the undoing of a failed leg
\* included.
OthersKept ==
    pc # "idle" =>
       \A t \in Tokens, a \in (Users \cup Listable) \ makers :
          /\ AtWork(a) \/ bal[t][a] + Paid(t, a) >= committed.bal[t][a]
          /\ pc = "venue" => frame.bal[t][a] + Paid(t, a) >= committed.bal[t][a]

\* Steps that take nothing from anybody who is not at work.
LEMMA OthersSpared ==
    ASSUME PlanInv, LedgerInv, LedgerInv', OthersKept,
           pc \notin {"idle", "enter"}, pc' \notin {"idle", "enter"},
           UNCHANGED <<call, committed, fb>>, makers \subseteq makers',
           \A t \in Tokens, a \in (Users \cup Listable) \ makers' :
              AtWork(a)' \/ (~AtWork(a) /\ bal'[t][a] >= bal[t][a]),
           \/ pc' # "venue"
           \/ pc = "venue" /\ frame' = frame
           \/ pc \notin {"venue", "uniReturn"} /\ frame'.bal = bal
    PROVE  OthersKept'
<1> SUFFICES ASSUME NEW t \in Tokens, NEW a \in (Users \cup Listable) \ makers'
             PROVE  /\ AtWork(a)' \/ bal'[t][a] + Paid(t, a)' >= committed.bal[t][a]
                    /\ pc' = "venue" =>
                          frame'.bal[t][a] + Paid(t, a)' >= committed.bal[t][a]
  BY DEF OthersKept
<1>1. /\ a \in Accounts /\ Paid(t, a)' = Paid(t, a) /\ Paid(t, a) \in Nat
      /\ bal[t][a] \in Nat /\ committed.bal[t][a] \in Nat
  BY Context DEF Paid, Accounts
<1>2. bal'[t][a] \in Nat
  BY <1>1, BalanceNat DEF LedgerInv, LedgerTypeOK
<1>3. /\ AtWork(a) \/ bal[t][a] + Paid(t, a) >= committed.bal[t][a]
      /\ pc = "venue" => frame.bal[t][a] + Paid(t, a) >= committed.bal[t][a]
  BY DEF OthersKept
<1>4. AtWork(a)' \/ bal'[t][a] + Paid(t, a)' >= committed.bal[t][a]
  BY <1>1, <1>2, <1>3
<1>5. CASE pc' = "venue"
  BY <1>1, <1>3, <1>4, <1>5 DEF AtWork
<1> QED BY <1>4, <1>5

\* A call begins, and the sender parts with the input.
LEMMA OthersBegin ==
    ASSUME PlanInv, LedgerInv, PlanInv', LedgerInv', OthersKept,
           (\E c \in Calls : Begin(c)) \/ Pull
    PROVE  OthersKept'
<1> SUFFICES ASSUME NEW t \in Tokens, NEW a \in (Users \cup Listable) \ makers'
             PROVE  bal'[t][a] + Paid(t, a)' >= committed'.bal[t][a] /\ pc' # "venue"
  BY DEF OthersKept
<1>1. a \in Accounts /\ a # Router
  BY DistinctNames DEF Accounts, Listable
<1>2. CASE \E c \in Calls : Begin(c)
  <2>1. /\ pc' = "enter" /\ bal' = bal /\ committed' = committed /\ committed.bal = bal
    BY <1>2 DEF Begin, Call, stateVars, LedgerInv, Checked, World
  <2>2. bal[t][a] \in Nat /\ Paid(t, a)' = 0
    BY <1>1, <2>1, BalanceNat DEF LedgerInv, LedgerTypeOK, Paid
  <2> QED BY <2>1, <2>2
<1>3. CASE Pull
  <2>1. /\ pc = "enter" /\ pc' = "probe" /\ Admissible
        /\ bal' = Pulled /\ UNCHANGED <<call, committed>> /\ committed.bal = bal
    BY <1>3 DEF Pull, LedgerInv, Checked, World
  <2>2. /\ call.amountIn \in Nat /\ call.amountIn <= bal[call.tokenIn][call.sender]
        /\ bal[t][a] \in Nat
        /\ Paid(t, a)' = IF t = call.tokenIn /\ a = call.sender THEN call.amountIn ELSE 0
    <3>1. bal[call.tokenIn][call.sender] >= call.amountIn
      BY <2>1 DEF Admissible
    <3> QED BY <1>1, <2>1, <3>1, Context DEF Paid
  <2>3. CASE call.tokenIn = ETH
    <3>1. Moved(bal, bal', ETH, call.sender, call.amountIn, WETH, Router, call.amountIn)
      BY <2>1, <2>2, <2>3, Context, MoveEffect DEF Pulled, Wrap
    <3>2. bal'[t][a] = bal[t][a] - Paid(t, a)'
      BY <1>1, <2>2, <2>3, <3>1 DEF Moved
    <3> QED BY <2>1, <2>2, <3>2
  <2>4. CASE call.tokenIn # ETH
    <3>1. /\ Moved(bal, bal', TokenIn, call.sender, call.amountIn,
                   TokenIn, Router, Credited(TokenIn, call.amountIn))
          /\ TokenIn = call.tokenIn
      BY <2>1, <2>2, <2>4, Context, TransferEffect DEF Pulled
    <3>2. bal'[t][a] = bal[t][a] - Paid(t, a)'
      BY <1>1, <2>2, <2>4, <3>1 DEF Moved
    <3> QED BY <2>1, <2>2, <3>2
  <2> QED BY <2>3, <2>4
<1> QED BY <1>2, <1>3

\* The ends of a call take nothing from anybody but the router.
LEMMA OthersEnd ==
    ASSUME PlanInv, LedgerInv, LedgerInv', OthersKept,
           Deliver \/ Disburse, UNCHANGED planVars
    PROVE  OthersKept'
<1>1. /\ pc \in {"deliver", "disburse"} /\ pc' \in {"disburse", "done"}
      /\ UNCHANGED <<call, committed, fb, makers>>
  BY DEF Deliver, Disburse, planVars
<1>2. ASSUME NEW t \in Tokens, NEW a \in Accounts, a # Router
      PROVE  bal'[t][a] >= bal[t][a]
  <2>1. Arguments /\ bal \in Ledgers /\ got \in Nat
    BY <1>1, Context
  <2>2. CASE Deliver
    <3>1. /\ call.tokenOut = ETH => got <= bal[WETH][Router]
          /\ pc = "deliver"
      BY <2>2, Covered DEF Deliver
    <3>2. bal'[t][a] = bal[t][a]
              - (IF call.tokenOut = ETH /\ t = WETH /\ a = Router THEN got ELSE 0)
              + (IF call.tokenOut = ETH /\ t = ETH /\ a = UnwrapTo THEN got ELSE 0)
          /\ bal[t][a] \in Nat
      BY <2>1, <2>2, <3>1, DeliverMoves
    <3> QED BY <1>2, <2>1, <3>2
  <2>3. CASE Disburse
    <3>1. pc = "disburse" /\ ValidFee
      BY <2>3 DEF Disburse, LedgerInv, Checked
    <3> QED BY <1>2, <2>1, <2>3, <3>1, Covered, DisburseMoves
  <2> QED BY <2>2, <2>3
<1>3. \A t \in Tokens, a \in (Users \cup Listable) \ makers' :
         AtWork(a)' \/ (~AtWork(a) /\ bal'[t][a] >= bal[t][a])
  BY <1>1, <1>2, DistinctNames DEF AtWork, Accounts, Listable
<1> QED BY <1>1, <1>3, OthersSpared

LEMMA OthersNext ==
    PlanInv /\ LedgerInv /\ PlanInv' /\ LedgerInv' /\ OthersKept /\ [Next]_vars
       => OthersKept'
<1> SUFFICES ASSUME PlanInv, LedgerInv, PlanInv', LedgerInv', OthersKept, [Next]_vars
             PROVE  OthersKept'
  OBVIOUS
<1>1. (Users \cup Listable) \subseteq Accounts \ {Router}
  BY DistinctNames DEF Accounts, Listable
<1>2. CASE (\E c \in Calls : Begin(c)) \/ Pull
  BY <1>2, OthersBegin
<1>3. CASE (Deliver \/ Disburse) /\ UNCHANGED planVars
  BY <1>3, OthersEnd
<1>4. CASE Administer \/ UNCHANGED vars
  BY <1>4 DEF Administer, Pause, Unpause, vars, stateVars, swapVars, planVars,
              OthersKept, AtWork, Paid
<1>5. CASE Fails \/ ((DeliverFails \/ DisburseFails) /\ Drop) \/ Commit
  BY <1>5 DEF Fails, DeliverFails, DisburseFails, Commit, Settle, Revert, Forget,
              OthersKept
<1>6. ASSUME pc \in {"probe", "place", "bracket", "legs", "total"},
             pc' \in {"probe", "place", "bracket", "legs", "uniswap", "total", "deliver"},
             UNCHANGED <<bal, call, committed, fb, makers>>
      PROVE  OthersKept'
  <2>1. ASSUME NEW t \in Tokens, NEW a \in (Users \cup Listable) \ makers'
        PROVE  ~AtWork(a) /\ bal'[t][a] >= bal[t][a]
    BY <1>1, <1>6, Context DEF AtWork
  <2> QED BY <1>6, <2>1, OthersSpared
<1>7. CASE ProbeVenue
  <2>1. /\ pc = "probe" /\ pc' = "probe" /\ UNCHANGED <<call, committed, fb, makers>>
    BY <1>7 DEF ProbeVenue, swapVars
  <2>2. \A t \in Tokens, a \in (Users \cup Listable) \ makers' :
           ~AtWork(a) /\ bal'[t][a] >= bal[t][a]
    BY <1>1, <1>7, <2>1, ProbeMoves DEF AtWork
  <2> QED BY <2>1, <2>2, OthersSpared
<1>8. CASE Rank \/ Planning \/ Adopt \/ SkipFallbackLeg \/ PushLegFails
              \/ StartUniswap \/ Total
  BY <1>6, <1>8
     DEF Rank, Planning, Place, Refine, EndPlan, Placing, Adopt, SkipFallbackLeg,
         PushLegFails, Running, Absorb, StartUniswap, LegsDone, Total, AllRun,
         stateVars, swapVars, planVars
<1>9. CASE PushLeg
  <2>1. /\ pc = "legs" /\ pc' = "venue" /\ frame'.bal = bal
        /\ UNCHANGED <<call, committed, fb, makers>>
    BY <1>9 DEF PushLeg, Running, World, planVars
  <2>2. \A t \in Tokens, a \in (Users \cup Listable) \ makers' :
           ~AtWork(a) /\ bal'[t][a] >= bal[t][a]
    BY <1>1, <1>9, <2>1, LegMoves DEF AtWork
  <2> QED BY <2>1, <2>2, OthersSpared
<1>10. CASE LegFills
  <2>1. /\ pc = "venue" /\ pc' = "legs" /\ makers' = makers \cup {venue}
        /\ UNCHANGED <<bal, call, committed, fb>>
    BY <1>10 DEF LegFills, stateVars
  <2>2. ASSUME NEW t \in Tokens, NEW a \in (Users \cup Listable) \ makers'
        PROVE  ~AtWork(a) /\ bal'[t][a] >= bal[t][a]
    BY <1>1, <2>1, Context DEF AtWork
  <2> QED BY <2>1, <2>2, OthersSpared
<1>11. CASE LegFails
  <2>1. /\ pc = "venue" /\ pc' = "legs" /\ bal' = frame.bal
        /\ UNCHANGED <<call, committed, makers>>
    BY <1>11 DEF LegFails, Absorb
  <2> QED BY <2>1 DEF OthersKept, Paid
<1>12. ASSUME NEW t \in Tokens, NEW to \in Market[call].payees,
              NEW x \in Market[call].pays, VenuePays(t, to, x)
       PROVE  OthersKept'
  <2>1. /\ pc = "venue" /\ pc' = "venue" /\ frame' = frame
        /\ UNCHANGED <<call, committed, fb, makers, venue>>
    BY <1>12 DEF VenuePays, swapVars, planVars
  <2>2. \A s \in Tokens, a \in (Users \cup Listable) \ makers' :
           AtWork(a)' \/ (~AtWork(a) /\ bal'[s][a] >= bal[s][a])
    BY <1>1, <1>12, <2>1, VenueMoves DEF AtWork
  <2> QED BY <2>1, <2>2, OthersSpared
<1>13. ASSUME pc = "uniswap", NEW used \in Market[call].pays,
              NEW out \in Market[call].pays, Uniswap(used, out)
       PROVE  OthersKept'
  <2>1. /\ pc' = "uniReturn" /\ UNCHANGED <<call, committed, fb, makers>>
    BY <1>13 DEF Uniswap, planVars
  <2>2. used \in Nat /\ out \in Nat
    BY <1>13, Context, CallFacts DEF MarketType
  <2>3. \A s \in Tokens, a \in (Users \cup Listable) \ makers' :
           AtWork(a)' \/ (~AtWork(a) /\ bal'[s][a] >= bal[s][a])
    BY <1>1, <1>13, <2>1, <2>2, UniswapMoves DEF AtWork
  <2> QED BY <1>13, <2>1, <2>3, OthersSpared
<1>14. CASE UniswapReturns
  <2>1. /\ pc = "uniReturn" /\ pc' = "total" /\ makers' = makers \cup {fb}
        /\ UNCHANGED <<bal, call, committed, fb>>
    BY <1>14 DEF UniswapReturns
  <2>2. ASSUME NEW t \in Tokens, NEW a \in (Users \cup Listable) \ makers'
        PROVE  ~AtWork(a) /\ bal'[t][a] >= bal[t][a]
    BY <1>1, <2>1, Context DEF AtWork
  <2> QED BY <2>1, <2>2, OthersSpared
<1> QED
  BY <1>2, <1>3, <1>4, <1>5, <1>7, <1>8, <1>9, <1>10, <1>11, <1>12, <1>13, <1>14
     DEF Next, CallStep, Finish

\* The receipt is blank while a call runs, and the fee is what was disbursed.
FeeInv ==
    /\ pc # "idle" => receipt = NoReceipt
    /\ pc # "done" \/ ~call.withFee => fee = 0
    /\ pc = "done" /\ call.withFee /\ call.feeTo # call.recipient =>
          bal[call.tokenOut][call.feeTo] + TransferTax[call.tokenOut]
             >= committed.bal[call.tokenOut][call.feeTo] + fee

LEMMA FeeStep == PlanInv /\ LedgerInv /\ FeeInv /\ [Next]_vars => FeeInv'
<1> SUFFICES ASSUME PlanInv, LedgerInv, FeeInv, [Next]_vars PROVE FeeInv'
  OBVIOUS
<1>1. CASE Disburse
  <2>1. /\ pc = "disburse" /\ pc' = "done" /\ fee' = FeeDue /\ call.withFee /\ ValidFee
        /\ UNCHANGED <<call, committed, receipt>> /\ receipt = NoReceipt
    BY <1>1 DEF Disburse, LedgerInv, Checked, FeeInv
  <2>2. /\ Arguments /\ bal \in Ledgers /\ got \in Nat
        /\ call.feeTo \in Users \cup {Router} /\ call.feeTo \in Accounts
        /\ call.tokenOut \in Tokens /\ TransferTax[call.tokenOut] \in Nat
        /\ \A a \in Accounts : committed.bal[call.tokenOut][a] \in Nat
    BY <2>1, Context, TaxedTokens DEF Arguments, ValidFee, Accounts
  <2>3. bal[call.tokenOut][call.feeTo] >= committed.bal[call.tokenOut][call.feeTo]
           + (IF call.feeTo = Router THEN got ELSE 0)
    BY <2>1, <2>2, OutputIsNotInput DEF LedgerInv, OutputKept, Keeps
  <2>4. /\ FeeDue \in Nat
        /\ bal[call.tokenOut][call.feeTo] \in Nat
        /\ bal'[call.tokenOut][call.feeTo] \in Nat
        /\ call.feeTo # call.recipient =>
              bal'[call.tokenOut][call.feeTo] + TransferTax[call.tokenOut]
                 >= bal[call.tokenOut][call.feeTo] + FeeDue
                       - (IF call.feeTo = Router THEN got ELSE 0)
    BY <1>1, <2>1, <2>2, Covered, DisburseMoves
  <2>5. call.feeTo # call.recipient =>
           bal'[call.tokenOut][call.feeTo] + TransferTax[call.tokenOut]
              >= committed.bal[call.tokenOut][call.feeTo] + FeeDue
    BY <2>2, <2>3, <2>4
  <2> QED BY <2>1, <2>5 DEF FeeInv
<1>2. CASE Deliver
  BY <1>2 DEF Deliver, FeeInv
<1>3. CASE Fails \/ DeliverFails \/ DisburseFails \/ Commit
  BY <1>3 DEF Fails, DeliverFails, DisburseFails, Commit, Settle, Revert, Forget, FeeInv
<1>4. CASE \E c \in Calls : Begin(c)
  BY <1>4 DEF Begin, Call, FeeInv
<1>5. CASE \/ Pull \/ ProbeVenue \/ Rank \/ Planning \/ Adopt
           \/ SkipFallbackLeg \/ PushLeg \/ PushLegFails \/ LegFills \/ LegFails
           \/ StartUniswap \/ UniswapReturns \/ Total
  BY <1>5 DEF Pull, ProbeVenue, Rank, Planning, Place, Refine, EndPlan, Placing, Adopt,
              SkipFallbackLeg, PushLeg, PushLegFails, Running, LegFills, LegFails,
              StartUniswap, LegsDone, UniswapReturns, Total, AllRun, stateVars,
              swapVars, FeeInv
<1>6. CASE \/ /\ pc = "venue"
              /\ \E t \in Tokens \ {ETH}, to \in Market[call].payees,
                    x \in Market[call].pays : VenuePays(t, to, x)
           \/ pc = "uniswap" /\ \E used, out \in Market[call].pays : Uniswap(used, out)
  BY <1>6 DEF VenuePays, Uniswap, swapVars, FeeInv
<1>7. CASE Administer \/ UNCHANGED vars
  BY <1>7 DEF Administer, Pause, Unpause, swapVars, stateVars, vars, FeeInv
<1> QED
  BY <1>1, <1>2, <1>3, <1>4, <1>5, <1>6, <1>7 DEF Next, CallStep, Finish

\* A settled call is a swap of the promise.
LEMMA CommitIsASwap ==
    ASSUME PlanInv, LedgerInv, InputHeld, OthersKept, FeeInv, Commit
    PROVE  Promise!Swap
<1>1. /\ pc = "done" /\ call \in Calls /\ makers \in SUBSET Listable
      /\ receipt' = [call |-> call, amountOut |-> got, fee |-> fee, makers |-> makers]
      /\ committed'.bal = bal
      /\ got \in Nat /\ fee \in Nat /\ receipt = NoReceipt
  BY Context DEF Commit, Settle, PlanInv, PlanTypeOK, LedgerInv, LedgerTypeOK, World,
                 FeeInv
<1>2. /\ receipt' \in Receipts /\ receipt'.call = call /\ receipt'.amountOut = got
      /\ receipt'.fee = fee /\ receipt'.makers = makers
  BY <1>1 DEF Receipts
<1>3. /\ got >= call.amountOutMin
      /\ bal[call.tokenOut][call.recipient]
            >= committed.bal[call.tokenOut][call.recipient] + got
  <2>1. Keeps(bal, call.tokenOut, call.recipient) /\ got >= call.amountOutMin
    BY <1>1 DEF LedgerInv, OutputKept, Checked
  <2> QED BY <1>1, <2>1, Context, OutputIsNotInput DEF Keeps
<1>4. ASSUME NEW t \in Tokens, NEW a \in Accounts \ makers
      PROVE  bal[t][a] + Promise!Spends(call, a, t) >= committed.bal[t][a]
  <2>1. /\ bal[t][a] \in Nat /\ committed.bal[t][a] \in Nat
        /\ call.amountIn \in Nat /\ call.sender # Router
        /\ Promise!Spends(call, Router, t)
              = IF t = call.tokenIn THEN TransferTax[t] ELSE 0
        /\ Promise!Spends(call, Router, t) \in Nat
    <3>1. Promise!Spends(call, Router, t)
             = IF t = call.tokenIn THEN TransferTax[t] ELSE 0
      BY <1>1, Context DEF Promise!Spends
    <3> QED BY <1>1, <3>1, Context, TaxedTokens
  <2>2. CASE a = Router /\ t = TokenIn
    <3>1. bal[t][Router] + TransferTax[t] >= committed.bal[t][Router]
      BY <1>1, <2>2 DEF InputHeld
    <3>2. TransferTax[t] <= Promise!Spends(call, Router, t)
      BY <2>1, <2>2, TaxedTokens DEF TokenIn, Resolve
    <3>3. TransferTax[t] \in Nat
      BY TaxedTokens
    <3> QED BY <2>1, <2>2, <3>1, <3>2, <3>3
  <2>3. CASE a = Router /\ t # TokenIn
    <3>1. bal[t][Router]
             >= committed.bal[t][Router]
                   + (IF t = call.tokenOut /\ Router = call.recipient THEN got ELSE 0)
      BY <1>1, <2>1, <2>3 DEF LedgerInv, OutputKept, Keeps
    <3> QED BY <1>1, <2>1, <2>3, <3>1
  <2>4. CASE a # Router
    <3>1. a \in (Users \cup Listable) \ makers
      BY <2>4 DEF Accounts, Listable
    <3>2. Promise!Spends(call, a, t)
             = IF t = call.tokenIn /\ a = call.sender THEN call.amountIn ELSE 0
      BY <2>4 DEF Promise!Spends
    <3>3. bal[t][a] + (IF t = call.tokenIn /\ a = call.sender
                       THEN call.amountIn ELSE 0)
             >= committed.bal[t][a]
      BY <1>1, <3>1 DEF OthersKept, AtWork, Paid
    <3> QED BY <3>2, <3>3
  <2> QED BY <2>2, <2>3, <2>4
<1>5. /\ call.withFee /\ call.feeTo # call.recipient =>
            bal[call.tokenOut][call.feeTo] + TransferTax[call.tokenOut]
               >= committed.bal[call.tokenOut][call.feeTo] + fee
      /\ ~call.withFee => fee = 0
  BY <1>1 DEF FeeInv
<1> QED BY <1>1, <1>2, <1>3, <1>4, <1>5 DEF Promise!Swap

\* Every step but the last of a call that ends well goes unseen.
LEMMA StepsArePromised ==
    PlanInv /\ LedgerInv /\ InputHeld /\ OthersKept /\ FeeInv /\ [Next]_vars
       => [Promise!Next]_<<committed.bal, receipt>>
<1> SUFFICES ASSUME PlanInv, LedgerInv, InputHeld, OthersKept, FeeInv, [Next]_vars
             PROVE  [Promise!Next]_<<committed.bal, receipt>>
  OBVIOUS
<1>1. CASE Commit
  BY <1>1, CommitIsASwap DEF Promise!Next
<1>2. CASE \E c \in Calls : Begin(c)
  BY <1>2 DEF Begin, Call, Promise!Begin, Promise!Next
<1>3. CASE UNCHANGED <<committed, receipt>>
  BY <1>3
<1>4. CASE \/ Pull \/ ProbeVenue \/ Rank \/ Planning \/ Adopt
           \/ SkipFallbackLeg \/ PushLeg \/ PushLegFails \/ LegFills \/ LegFails
           \/ StartUniswap \/ UniswapReturns \/ Total
  BY <1>3, <1>4
     DEF Pull, ProbeVenue, Rank, Planning, Place, Refine, EndPlan, Placing, Adopt,
         SkipFallbackLeg, PushLeg, PushLegFails, Running, LegFills, LegFails,
         StartUniswap, LegsDone, UniswapReturns, Total, AllRun, stateVars, swapVars
<1>5. CASE Fails \/ Finish
  BY <1>3, <1>5 DEF Fails, Finish, Deliver, DeliverFails, Disburse, DisburseFails, Revert
<1>6. CASE \/ /\ pc = "venue"
              /\ \E t \in Tokens \ {ETH}, to \in Market[call].payees,
                    x \in Market[call].pays : VenuePays(t, to, x)
           \/ pc = "uniswap" /\ \E used, out \in Market[call].pays : Uniswap(used, out)
           \/ Administer \/ UNCHANGED vars
  BY <1>3, <1>6 DEF VenuePays, Uniswap, Administer, swapVars, vars
<1> QED BY <1>1, <1>2, <1>4, <1>5, <1>6 DEF Next, CallStep

(***************************************************************************)
(* A call comes to an end                                                  *)
(***************************************************************************)
\* More than the steps a running call has left, whatever its quotes answered and
\* however its legs turn out; the payments of a venue that runs are not counted.
StepsLeft ==
    CASE pc = "enter"     -> 14 + 4 * MAX_LEGS + Len(venues)
      [] pc = "probe"     -> 13 + 4 * MAX_LEGS + (Len(venues) - probed)
      [] pc = "place"     -> 11 + 4 * MAX_LEGS - 2 * Len(legs)
                                + (IF refined THEN 0 ELSE 1)
      [] pc = "bracket"   -> 8 + 2 * Len(legs)
      [] pc = "legs"      -> 7 + 2 * (Len(legs) + 1 - next)
      [] pc = "venue"     -> 6 + 2 * (Len(legs) + 1 - next)
      [] pc = "uniswap"   -> 6
      [] pc = "uniReturn" -> 5
      [] pc = "total"     -> 4
      [] pc = "deliver"   -> 3
      [] pc = "disburse"  -> 2
      [] pc = "done"      -> 1
      [] OTHER            -> 0

\* Every step of a call brings its end nearer; a venue that runs may pay as often as
\* its gas lets it, and takes it no further away.
RunsDown ==
    pc # "idle" => IF pc = "venue" /\ pc' = "venue" THEN StepsLeft' = StepsLeft
                   ELSE StepsLeft' < StepsLeft

\* How many they are, phase by phase.
LeftInPhase ==
    /\ pc = "enter" => StepsLeft = 14 + 4 * MAX_LEGS + Len(venues)
    /\ pc = "probe" => StepsLeft = 13 + 4 * MAX_LEGS + (Len(venues) - probed)
    /\ pc = "place" => StepsLeft = 11 + 4 * MAX_LEGS - 2 * Len(legs)
                                      + (IF refined THEN 0 ELSE 1)
    /\ pc = "bracket" => StepsLeft = 8 + 2 * Len(legs)
    /\ pc = "legs" => StepsLeft = 7 + 2 * (Len(legs) + 1 - next)
    /\ pc = "venue" => StepsLeft = 6 + 2 * (Len(legs) + 1 - next)
    /\ pc = "uniswap" => StepsLeft = 6
    /\ pc = "uniReturn" => StepsLeft = 5
    /\ pc = "total" => StepsLeft = 4
    /\ pc = "deliver" => StepsLeft = 3
    /\ pc = "disburse" => StepsLeft = 2
    /\ pc = "done" => StepsLeft = 1
    /\ pc = "idle" => StepsLeft = 0

LEMMA LeftByPhase == LeftInPhase
  BY DEF LeftInPhase, StepsLeft

\* What the plan's invariant says of the numbers that are counted.
LEMMA Counted ==
    ASSUME PlanInv
    PROVE  /\ MAX_LEGS \in Nat /\ Len(venues) \in Nat /\ Len(legs) \in Nat
           /\ probed \in 0 .. Len(venues) /\ next \in Nat
           /\ pc \in {"enter", "probe"} => probed \in Nat /\ Len(legs) = 0
           /\ pc = "enter" => probed = 0
           /\ pc = "place" => Len(legs) <= MAX_LEGS
           /\ pc = "bracket" => next = 1
           /\ pc \in {"legs", "venue"} => next <= Len(legs) + 1
           /\ pc = "venue" => next <= Len(legs)
<1>1. PlanTypeOK /\ MAX_LEGS \in Nat
  BY SplitConstants DEF PlanInv
<1>2. Len(venues) \in Nat /\ legs \in Seq(Legs)
  BY <1>1, ListFacts DEF PlanTypeOK
<1>3. pc \in {"enter", "probe"} => legs = <<>>
  BY DEF PlanInv, Unplanned, NoPlan
<1>4. pc = "enter" => probed = 0
  BY DEF PlanInv, Unplanned, NoPlan
<1> QED BY <1>1, <1>2, <1>3, <1>4 DEF PlanTypeOK, PlanInv, WaterfallIntact, LegsIntact

\* It is never done before it is over.
LEMMA LeftIsNatural ==
    ASSUME PlanInv
    PROVE  StepsLeft \in Nat /\ (StepsLeft = 0 => pc = "idle")
<1>1. pc \in Phases
  BY DEF PlanInv, PlanTypeOK
<1>2. CASE pc \in {"enter", "probe", "place", "bracket"}
  <2>1. CASE pc = "enter"
    BY <2>1, LeftByPhase, Counted DEF LeftInPhase
  <2>2. CASE pc = "probe"
    BY <2>2, LeftByPhase, Counted DEF LeftInPhase
  <2>3. CASE pc = "place"
    BY <2>3, LeftByPhase, Counted DEF LeftInPhase
  <2>4. CASE pc = "bracket"
    BY <2>4, LeftByPhase, Counted DEF LeftInPhase
  <2> QED BY <1>2, <2>1, <2>2, <2>3, <2>4
<1>3. CASE pc \in {"legs", "venue"}
  BY <1>3, LeftByPhase, Counted DEF LeftInPhase
<1>4. CASE pc \in {"uniswap", "uniReturn", "total", "deliver", "disburse", "done", "idle"}
  BY <1>4, LeftByPhase DEF LeftInPhase
<1> QED BY <1>1, <1>2, <1>3, <1>4 DEF Phases

\* Planning takes no step back: a venue is priced, a leg is placed, the one
\* refinement is used up, or the plan is done.
LEMMA PlanRunsDown ==
    ASSUME PlanInv, Pull \/ ProbeVenue \/ Rank \/ Planning \/ Adopt
    PROVE  RunsDown
<1>1. LeftInPhase /\ LeftInPhase'
  BY LeftByPhase, PTL
<1>2. CASE Pull
  <2>1. /\ pc = "enter" /\ pc' = "probe"
        /\ UNCHANGED <<venues, probed>>
    BY <1>2 DEF Pull
  <2> QED BY <1>1, <2>1, Counted DEF LeftInPhase, RunsDown
<1>3. CASE ProbeVenue
  <2>1. /\ pc = "probe" /\ pc' = "probe" /\ probed' = probed + 1
        /\ UNCHANGED venues
    BY <1>3 DEF ProbeVenue, swapVars
  <2> QED BY <1>1, <2>1, Counted DEF LeftInPhase, RunsDown
<1>4. CASE Rank
  <2>1. /\ pc = "probe" /\ pc' = "place" /\ legs' = legs
    BY <1>4 DEF Rank
  <2> QED BY <1>1, <2>1, Counted DEF LeftInPhase, RunsDown
<1>5. CASE Place
  <2>1. /\ pc = "place" /\ pc' = "place" /\ refined' = refined
        /\ Len(legs') = Len(legs) + 1
    BY <1>5 DEF Place, Placing, swapVars, PlanInv, PlanTypeOK
  <2> QED BY <1>1, <2>1, Counted DEF LeftInPhase, RunsDown
<1>6. CASE Refine
  <2>1. /\ pc = "place" /\ pc' = "place" /\ ~refined /\ refined' = TRUE
        /\ legs' = legs
    BY <1>6 DEF Refine, Placing, swapVars
  <2> QED BY <1>1, <2>1, Counted DEF LeftInPhase, RunsDown
<1>7. CASE EndPlan
  <2>1. /\ pc = "place" /\ pc' = "bracket"
        /\ Len(legs') \in {Len(legs), Len(legs) + 1}
    BY <1>7 DEF EndPlan, PlanInv, PlanTypeOK
  <2> QED BY <1>1, <2>1, Counted DEF LeftInPhase, RunsDown
<1>8. CASE Adopt
  <2>1. /\ pc = "bracket" /\ pc' = "legs"
        /\ UNCHANGED <<legs, next>>
    BY <1>8 DEF Adopt, planVars
  <2> QED BY <1>1, <2>1, Counted DEF LeftInPhase, RunsDown
<1> QED BY <1>2, <1>3, <1>4, <1>5, <1>6, <1>7, <1>8 DEF Planning

\* Nor does the execution: no leg is run twice.
LEMMA LegsRunDown ==
    ASSUME PlanInv,
           \/ SkipFallbackLeg \/ PushLeg \/ PushLegFails \/ LegFills \/ LegFails
           \/ StartUniswap \/ UniswapReturns \/ Total
    PROVE  RunsDown
<1>1. LeftInPhase /\ LeftInPhase'
  BY LeftByPhase, PTL
<1>2. CASE SkipFallbackLeg \/ PushLegFails
  <2>1. /\ pc = "legs" /\ pc' = "legs" /\ next' = next + 1 /\ legs' = legs
    BY <1>2 DEF SkipFallbackLeg, PushLegFails, Running, Absorb, swapVars
  <2>2. /\ StepsLeft = 7 + 2 * (Len(legs) + 1 - next)
        /\ StepsLeft' = 7 + 2 * (Len(legs) + 1 - (next + 1))
    BY <1>1, <2>1 DEF LeftInPhase
  <2>3. Len(legs) \in Nat /\ next \in Nat
    BY Counted
  <2>4. StepsLeft' < StepsLeft
    BY <2>2, <2>3
  <2> QED BY <2>1, <2>4 DEF RunsDown
<1>3. CASE PushLeg
  <2>1. /\ pc = "legs" /\ pc' = "venue" /\ UNCHANGED <<next, legs>>
    BY <1>3 DEF PushLeg, Running, planVars
  <2> QED BY <1>1, <2>1, Counted DEF LeftInPhase, RunsDown
<1>4. CASE LegFills \/ LegFails
  <2>1. /\ pc = "venue" /\ pc' = "legs" /\ next' = next + 1 /\ legs' = legs
    BY <1>4 DEF LegFills, LegFails, Absorb
  <2>2. /\ StepsLeft = 6 + 2 * (Len(legs) + 1 - next)
        /\ StepsLeft' = 7 + 2 * (Len(legs) + 1 - (next + 1))
    BY <1>1, <2>1 DEF LeftInPhase
  <2>3. Len(legs) \in Nat /\ next \in Nat
    BY Counted
  <2>4. StepsLeft' < StepsLeft
    BY <2>2, <2>3
  <2> QED BY <2>1, <2>4 DEF RunsDown
<1>5. CASE StartUniswap
  <2>1. /\ pc = "legs" /\ pc' = "uniswap"
    BY <1>5 DEF StartUniswap, LegsDone
  <2> QED BY <1>1, <2>1, Counted DEF LeftInPhase, RunsDown
<1>6. CASE UniswapReturns
  <2>1. /\ pc = "uniReturn" /\ pc' = "total"
    BY <1>6 DEF UniswapReturns
  <2> QED BY <1>1, <2>1 DEF LeftInPhase, RunsDown
<1>7. CASE Total
  <2>1. /\ pc \in {"legs", "total"} /\ pc' = "deliver"
    BY <1>7 DEF Total, AllRun, LegsDone
  <2> QED BY <1>1, <2>1, Counted DEF LeftInPhase, RunsDown
<1> QED BY <1>2, <1>3, <1>4, <1>5, <1>6, <1>7

\* A step that ends the call leaves nothing to do.
LEMMA EndsRunDown ==
    ASSUME PlanInv, pc # "idle", pc' = "idle"
    PROVE  RunsDown
<1>1. LeftInPhase'
  BY LeftByPhase, PTL
<1>2. StepsLeft' = 0
  BY <1>1 DEF LeftInPhase
<1> QED BY <1>2, LeftIsNatural DEF RunsDown

LEMMA CallRunsDown == PlanInv /\ [Next]_vars => RunsDown \/ UNCHANGED vars
<1> SUFFICES ASSUME PlanInv, Next PROVE RunsDown
  OBVIOUS
<1>1. LeftInPhase /\ LeftInPhase'
  BY LeftByPhase, PTL
<1>2. CASE (\E c \in Calls : Begin(c)) \/ Administer
  BY <1>2 DEF Begin, Call, Administer, RunsDown
<1>3. CASE Pull \/ ProbeVenue \/ Rank \/ Planning \/ Adopt
  BY <1>3, PlanRunsDown
<1>4. CASE \/ SkipFallbackLeg \/ PushLeg \/ PushLegFails \/ LegFills \/ LegFails
           \/ StartUniswap \/ UniswapReturns \/ Total
  BY <1>4, LegsRunDown
<1>5. CASE Fails \/ DeliverFails \/ DisburseFails \/ Commit
  <2>1. pc # "idle" /\ pc' = "idle"
    BY <1>5 DEF Fails, AllRun, LegsDone, DeliverFails, DisburseFails, Commit, Settle,
                Revert, Forget
  <2> QED BY <2>1, EndsRunDown
<1>6. CASE Deliver \/ Disburse
  <2>1. \/ pc = "deliver" /\ pc' \in {"disburse", "done"}
        \/ pc = "disburse" /\ pc' = "done"
    BY <1>6 DEF Deliver, Disburse
  <2> QED BY <1>1, <2>1 DEF LeftInPhase, RunsDown
<1>7. ASSUME pc = "venue", NEW t, NEW to, NEW x, VenuePays(t, to, x)
      PROVE  RunsDown
  <2>1. pc' = "venue" /\ UNCHANGED <<next, legs>>
    BY <1>7 DEF VenuePays, swapVars, planVars
  <2> QED BY <1>1, <1>7, <2>1, Counted DEF LeftInPhase, RunsDown
<1>8. ASSUME NEW used, NEW out, Uniswap(used, out)
      PROVE  RunsDown
  <2>1. pc = "uniswap" /\ pc' = "uniReturn"
    BY <1>8 DEF Uniswap
  <2> QED BY <1>1, <2>1 DEF LeftInPhase, RunsDown
<1> QED
  BY <1>2, <1>3, <1>4, <1>5, <1>6, <1>7, <1>8 DEF Next, CallStep, Finish

(***************************************************************************)
(* Theorems                                                                *)
(***************************************************************************)
IInv == PlanInv /\ LedgerInv /\ InputHeld /\ ApprovalsIntact

\* The inductive invariant: the plan follows the ranked quotes and adds up, the
\* ledgers keep what was there and what was collected, the input that is not
\* handed out yet is on the router, and approvals are those of one swap.
THEOREM Invariance == Spec => []IInv
<1>1. Init => InputHeld /\ ApprovalsIntact
  BY DEF Init, InputHeld, ApprovalsIntact, NoStandingApproval, World
<1> QED
  BY <1>1, PlanInit, LedgerInit, PlanNext, LedgerNext, HeldNext, ApprovalsNext,
     PTL DEF Spec, IInv

\* Types: the plan's and the ledgers'; no balance ever goes below zero.
THEOREM TypeCorrect == Spec => [](PlanTypeOK /\ LedgerTypeOK)
<1>1. IInv => PlanTypeOK /\ LedgerTypeOK
  BY DEF IInv, PlanInv, LedgerInv
<1> QED BY <1>1, Invariance, PTL

\* _planSplit gives away amountIn exactly once whatever the venues and the
\* quoter answer: SplitAllocationMismatch can never be the reason of a revert.
THEOREM PlansCoverTheInput == Spec => []PlanCoversInput
<1>1. IInv => PlanCoversInput
  BY DEF IInv, PlanInv
<1> QED BY <1>1, Invariance, PTL

\* The sort and the waterfall of _planSplit honour the quotes: no leg beyond
\* its quote, its floor the exact share of it, no better venue passed over.
THEOREM PlansHonourTheQuotes == Spec => []PlanHonoursQuotes
<1>1. IInv => PlanHonoursQuotes
  BY DEF IInv, PlanInv
<1> QED BY <1>1, Invariance, PTL

\* _executeLegs never runs out of the input it has yet to hand out, and a split
\* swap spends nothing the router held before it, but for what the input token
\* withheld of the transfer that pulled it.
THEOREM CustodyIsKept == Spec => []CustodyKept
<1>1. IInv => CustodyKept
  <2> SUFFICES ASSUME IInv PROVE CustodyKept
    OBVIOUS
  <2>1. pc = "legs" => bal[TokenIn][Router] + Withheld(TokenIn)
                          >= committed.bal[TokenIn][Router] + Unspent
    BY DEF IInv, InputHeld, Withheld
  <2>2. ASSUME pc = "done", NEW t \in Tokens
        PROVE  bal[t][Router] + Withheld(t) >= committed.bal[t][Router]
    <3>1. CASE t = TokenIn
      BY <2>2, <3>1 DEF IInv, InputHeld, Withheld
    <3>2. CASE t # TokenIn
      <4>1. /\ bal[t][Router] \in Nat /\ committed.bal[t][Router] \in Nat
            /\ got \in Nat /\ call.sender # Router
        BY <2>2, Context DEF IInv
      <4>2. bal[t][Router]
               >= committed.bal[t][Router]
                     + (IF t = call.tokenOut /\ Router = call.recipient
                        THEN got ELSE 0)
        BY <2>2, <3>2, <4>1 DEF IInv, LedgerInv, OutputKept, Keeps
      <4>3. Withheld(t) = 0
        BY <3>2 DEF Withheld
      <4> QED BY <4>1, <4>2, <4>3
    <3> QED BY <3>1, <3>2
  <2> QED BY <2>1, <2>2 DEF CustodyKept
<1> QED BY <1>1, Invariance, PTL

\* No loop of a split call runs for ever, whatever the quotes answer and however the
\* legs turn out: StepsLeft is a number that every step of the call decreases, the
\* payments of a running venue excepted, and that is zero when no call runs.
THEOREM SplitsComeToAnEnd ==
    Spec => /\ [](StepsLeft \in Nat /\ (StepsLeft = 0 => pc = "idle"))
            /\ [][RunsDown]_vars
<1>1. IInv => PlanInv /\ StepsLeft \in Nat /\ (StepsLeft = 0 => pc = "idle")
  BY LeftIsNatural DEF IInv
<1>2. PlanInv /\ [Next]_vars => [RunsDown]_vars
  BY CallRunsDown
<1> QED BY <1>1, <1>2, Invariance, PTL DEF Spec

\* Slippage for split swaps: however the legs and the fallback turn out, the
\* recipient of a call about to end well has the minimum, and what Swapped will
\* report, on top of what he had.
THEOREM MinimumIsDelivered == Spec => []MinimumDelivered
<1>1. IInv => MinimumDelivered
  <2> SUFFICES ASSUME IInv, pc = "done"
               PROVE  /\ got >= call.amountOutMin
                      /\ bal[call.tokenOut][call.recipient]
                            >= committed.bal[call.tokenOut][call.recipient] + got
    BY DEF MinimumDelivered
  <2>1. Keeps(bal, call.tokenOut, call.recipient) /\ got >= call.amountOutMin
    BY DEF IInv, LedgerInv, OutputKept, Checked
  <2>2. /\ call.tokenOut \in Tokens /\ call.recipient \in Users \cup {Router}
        /\ call.tokenOut # TokenIn /\ call.tokenOut # call.tokenIn
    BY Context, OutputIsNotInput DEF IInv
  <2> QED BY <2>1, <2>2 DEF Keeps
<1> QED BY <1>1, Invariance, PTL

\* _uniSwap resets its approval, whatever Uniswap pulled and however it ends.
THEOREM ApprovalsAreReset == Spec => []NoStandingApproval
<1>1. IInv => NoStandingApproval
  BY DEF IInv, ApprovalsIntact
<1> QED BY <1>1, Invariance, PTL

\* Seen between calls, the split entrypoints do what IPropAMMRouter.sol says of a
\* swap: whole or not at all, for the minimum at least, and at nobody's expense but
\* the sender's input, the tax of it and the venues that are named, failed legs
\* included.
THEOREM SplitsKeepTheirPromise == Spec => Promised
<1>1. Init => Promise!Init /\ OthersKept /\ FeeInv
  BY DEF Init, Promise!Init, OthersKept, FeeInv
<1>2. IInv => PlanInv /\ LedgerInv /\ InputHeld
  BY DEF IInv
<1>3. PlanInv /\ LedgerInv /\ InputHeld /\ OthersKept /\ FeeInv /\ [Next]_vars
         => [Promise!Next]_<<committed.bal, receipt>>
  BY StepsArePromised
<1> QED
  BY <1>1, <1>2, <1>3, FeeStep, OthersNext, Invariance, PTL
     DEF Spec, Promised, Promise!Spec
=============================================================================
