-------------------------- MODULE GovernanceProofs --------------------------
(***************************************************************************)
(* Theorems about RouterGovernance, for every set of officers, every list  *)
(* of calls they may make and every positive delay.                        *)
(***************************************************************************)
EXTENDS RouterGovernance, WellFoundedInduction, TLAPS

(***************************************************************************)
(* Fees                                                                    *)
(***************************************************************************)
Fees == 0 .. FEE_LIMIT - 1
Entries == Tokens \X Tokens \X Nat

\* What is true of 0, and of n + 1 whenever it is of n, is true of every number.
LEMMA NatSetInduction ==
    ASSUME NEW T, 0 \in T, \A n \in Nat : n \in T => n + 1 \in T
    PROVE  Nat \subseteq T
<1> DEFINE Bad == {n \in Nat : n \notin T}
<1> SUFFICES ASSUME Bad # {} PROVE FALSE
  OBVIOUS
<1>1. PICK n \in Bad : \A y \in Bad : ~(<<y, n>> \in OpToRel(<, Nat))
  <2>1. Bad \subseteq Nat
    OBVIOUS
  <2> HIDE DEF Bad
  <2> QED BY <2>1, WFMin, NatLessThanWellFounded
<1>2. n # 0 /\ n - 1 \in Nat /\ n - 1 < n
  OBVIOUS
<1>3. <<n - 1, n>> \in OpToRel(<, Nat)
  BY <1>2 DEF OpToRel
<1>4. n - 1 \notin Bad
  BY <1>1, <1>3
<1> QED BY <1>2, <1>4

\* g is the function FoldLeft recurs over when it folds the first n of entries
\* into fees.
IsFold(g, fees, entries, n) ==
    g = [S \in SUBSET (1 .. n) |->
            IF S = {} THEN fees
            ELSE SetPairFee(g[S \ {Max(S)}], entries[Max(S)])]

LEMMA MaxIsLast ==
    ASSUME NEW n \in Nat, NEW S \in SUBSET (1 .. n + 1), n + 1 \in S
    PROVE  Max(S) = n + 1
<1>1. \A y \in S : n + 1 >= y
  OBVIOUS
<1>2. \A x \in S : (\A y \in S : x >= y) => x = n + 1
  OBVIOUS
<1> QED BY <1>1, <1>2 DEF Max

\* There is such a function for every n.
LEMMA FoldExists ==
    ASSUME NEW fees, NEW entries, NEW n \in Nat
    PROVE  \E g : IsFold(g, fees, entries, n)
<1> DEFINE T == {k \in Nat : \E g : IsFold(g, fees, entries, k)}
<1>1. 0 \in T
  <2> DEFINE g == [S \in SUBSET (1 .. 0) |-> fees]
  <2>1. IsFold(g, fees, entries, 0)
    BY DEF IsFold
  <2> QED BY <2>1
<1>2. ASSUME NEW k \in Nat, k \in T PROVE k + 1 \in T
  <2>1. PICK f : IsFold(f, fees, entries, k)
    BY <1>2
  <2> DEFINE g == [S \in SUBSET (1 .. k + 1) |->
                      IF k + 1 \in S THEN SetPairFee(f[S \ {k + 1}], entries[k + 1])
                                     ELSE f[S]]
  <2>2. ASSUME NEW S \in SUBSET (1 .. k + 1)
        PROVE  g[S] = IF S = {} THEN fees
                      ELSE SetPairFee(g[S \ {Max(S)}], entries[Max(S)])
    <3>1. CASE k + 1 \in S
      <4>1. Max(S) = k + 1
        BY <3>1, MaxIsLast
      <4>2. S \ {k + 1} \in SUBSET (1 .. k) /\ S \ {k + 1} \in SUBSET (1 .. k + 1)
        OBVIOUS
      <4>3. g[S \ {k + 1}] = f[S \ {k + 1}]
        BY <4>2
      <4> QED BY <3>1, <4>1, <4>3
    <3>2. CASE k + 1 \notin S
      <4>1. S \in SUBSET (1 .. k) /\ S \ {Max(S)} \in SUBSET (1 .. k)
            /\ S \ {Max(S)} \in SUBSET (1 .. k + 1)
            /\ k + 1 \notin S \ {Max(S)}
        <5>1. \A x \in S : x \in 1 .. k
          BY <3>2
        <5> QED BY <3>2, <5>1
      <4>2. g[S] = f[S] /\ g[S \ {Max(S)}] = f[S \ {Max(S)}]
        BY <3>2, <4>1
      <4>3. f[S] = IF S = {} THEN fees
                   ELSE SetPairFee(f[S \ {Max(S)}], entries[Max(S)])
        BY <2>1, <4>1 DEF IsFold
      <4> QED BY <4>2, <4>3
    <3> QED BY <3>1, <3>2
  <2>3. IsFold(g, fees, entries, k + 1)
    <3>1. g = [S \in SUBSET (1 .. k + 1) |-> g[S]]
      OBVIOUS
    <3> HIDE DEF g
    <3> QED BY <2>2, <3>1 DEF IsFold
  <2> HIDE DEF g
  <2> QED BY <2>3
<1>3. Nat \subseteq T
  <2> HIDE DEF T
  <2> QED BY <1>1, <1>2, NatSetInduction
<1> QED BY <1>3

\* One override leaves a fee below the limit for every pair.
LEMMA PairFeeTyped ==
    ASSUME NEW fees \in [Pairs -> Fees], NEW entry \in Entries,
           entry[3] < FEE_LIMIT
    PROVE  SetPairFee(fees, entry) \in [Pairs -> Fees]
<1>1. entry[3] \in Fees
  BY Durations DEF Entries, Fees
<1> QED BY <1>1 DEF SetPairFee

\* And so do several, one after the other.
LEMMA PairFeesTyped ==
    ASSUME NEW fees \in [Pairs -> Fees], NEW entries \in Seq(Entries),
           \A i \in DOMAIN entries : entries[i][3] < FEE_LIMIT
    PROVE  FoldLeft(SetPairFee, fees, entries) \in [Pairs -> Fees]
<1> DEFINE n == Len(entries)
           g == CHOOSE h : IsFold(h, fees, entries, n)
           T == {k \in Nat : k <= n => g[1 .. k] \in [Pairs -> Fees]}
<1>1. n \in Nat /\ DOMAIN entries = 1 .. n
  OBVIOUS
<1>2. FoldLeft(SetPairFee, fees, entries) = g[1 .. n]
  BY <1>1 DEF FoldLeft, MapThenFoldSet, IsFold
<1>3. IsFold(g, fees, entries, n)
  BY <1>1, FoldExists
<1> HIDE DEF g
<1>4. 0 \in T
  <2>1. 1 .. 0 = {} /\ {} \in SUBSET (1 .. n)
    OBVIOUS
  <2>2. g[{}] = fees
    BY <1>3, <2>1 DEF IsFold
  <2> QED BY <2>1, <2>2
<1>5. ASSUME NEW k \in Nat, k \in T PROVE k + 1 \in T
  <2> SUFFICES ASSUME k + 1 <= n PROVE g[1 .. k + 1] \in [Pairs -> Fees]
    OBVIOUS
  <2>1. /\ 1 .. k + 1 \in SUBSET (1 .. n) /\ 1 .. k + 1 # {}
        /\ Max(1 .. k + 1) = k + 1
        /\ (1 .. k + 1) \ {k + 1} = 1 .. k
    BY <1>1, MaxIsLast
  <2>2. g[1 .. k + 1] = SetPairFee(g[1 .. k], entries[k + 1])
    BY <1>3, <2>1 DEF IsFold
  <2>3. g[1 .. k] \in [Pairs -> Fees]
    BY <1>1, <1>5
  <2>4. entries[k + 1] \in Entries /\ entries[k + 1][3] < FEE_LIMIT
    BY <1>1
  <2> QED BY <2>2, <2>3, <2>4, PairFeeTyped
<1>6. Nat \subseteq T
  <2> HIDE DEF T
  <2> QED BY <1>4, <1>5, NatSetInduction
<1> QED BY <1>1, <1>2, <1>6

(***************************************************************************)
(* The inductive invariant                                                 *)
(***************************************************************************)
Terms == [was : Nat, is : Nat, from : Nat]

PolicyTypeOK ==
    /\ now \in Nat
    /\ fallbackFee \in 1 .. FEE_LIMIT - 1
    /\ pairFee \in [Pairs -> Fees]
    /\ members \in [Roles -> SUBSET Officers]
    /\ terms \in [Roles -> [Officers -> Terms]]
    /\ roleAdmin \in [Roles -> Roles]
    /\ fnRole \in [RouterFns -> Roles]
    /\ closed \in BOOLEAN /\ inCharge \in BOOLEAN
    /\ adminDelay \in Terms
    /\ configuredAt \in Nat \cup {None}
    /\ resetAt \in Nat \cup {None}
    /\ readyAt \in [Requests -> Nat \cup {None}]
    /\ queuedAt \in [Requests -> Nat]
    /\ amended \in SUBSET {"roles", "gates"}

\* Until governance amends the roles their holders are bound by the delays of
\* the deployment; only the bootstrap admin has none.
RolesIntact ==
    "roles" \notin amended =>
       /\ \A role \in Roles : roleAdmin[role] = ADMIN_ROLE
       /\ \A o \in members[ADMIN_ROLE] :
             \/ o = Bootstrap /\ terms[ADMIN_ROLE][o] = Agreed(0)
             \/ o = Governance /\ terms[ADMIN_ROLE][o] = Agreed(ADMIN_EXEC_DELAY)
       /\ \A o \in members[UPGRADER_ROLE] :
             terms[UPGRADER_ROLE][o] = Agreed(UPGRADE_DELAY)
       /\ \A o \in members[RESUMER_ROLE] :
             terms[RESUMER_ROLE][o] = Agreed(RESUME_DELAY)
       /\ \A o \in members[LISTING_ROLE] :
             terms[LISTING_ROLE][o] = Agreed(LISTING_DELAY)

\* Until governance amends anything the functions are mapped as configured.
GatesIntact ==
    amended = {} =>
       fnRole = IF configuredAt = None THEN [fn \in RouterFns |-> ADMIN_ROLE]
                                       ELSE Wiring

\* Nobody reset the target admin delay while it was phasing in.
Undisturbed ==
    /\ configuredAt # None
    /\ resetAt = None \/ resetAt >= configuredAt + MIN_SETBACK

\* The target admin delay is ADMIN_DELAY once it has phased in.  Afterwards it can be
\* lowered, but a call that waits for it now or later is never due earlier
\* than ADMIN_DELAY after the first change of it.
DelayIntact ==
    /\ configuredAt = None => resetAt = None
    /\ configuredAt # None /\ resetAt = None =>
          /\ adminDelay.is = ADMIN_DELAY
          /\ \/ adminDelay.from <= configuredAt + MIN_SETBACK
             \/ adminDelay.was >= ADMIN_DELAY
    /\ Undisturbed /\ resetAt # None =>
          /\ adminDelay.from + adminDelay.is >= resetAt + ADMIN_DELAY
          /\ now < adminDelay.from =>
                now + adminDelay.was >= resetAt + ADMIN_DELAY

\* The notice a call to a function of the router has to give.
NoticeOf(fn) ==
    IF fn \in SlowFns THEN UPGRADE_DELAY
    ELSE IF fn \in ListingFns THEN LISTING_DELAY
    ELSE IF fn = "unpause" THEN RESUME_DELAY ELSE 0

\* Governance, which could queue calls to the router before configureRouter,
\* is granted with a delay no shorter than those configureRouter brings.
HandoffCovers ==
    \A d \in {UPGRADE_DELAY, RESUME_DELAY, LISTING_DELAY} :
       d <= ADMIN_EXEC_DELAY

\* What is in the queue was given its notice when it was put there.
QueueIntact ==
    \A op \in Requests :
       readyAt[op] # None =>
          /\ queuedAt[op] <= now
          /\ /\ "roles" \notin amended
             /\ op.fn \in ManagerFns /\ op.by # Bootstrap
             => queuedAt[op] + ADMIN_EXEC_DELAY <= readyAt[op]
          /\ /\ Undisturbed /\ op.fn \in RegatingFns
             /\ queuedAt[op] >= configuredAt + MIN_SETBACK
             => \/ queuedAt[op] + ADMIN_DELAY <= readyAt[op]
                \/ resetAt # None /\ resetAt + ADMIN_DELAY <= readyAt[op]
          /\ HandoffCovers /\ amended = {} /\ op.fn \in RouterFns
             => queuedAt[op] + NoticeOf(op.fn) <= readyAt[op]

IInv ==
    PolicyTypeOK /\ RolesIntact /\ GatesIntact /\ DelayIntact /\ QueueIntact

(***************************************************************************)
(* Roles, functions and delays                                             *)
(***************************************************************************)
LEMMA Fns ==
    /\ ADMIN_ROLE \in Roles /\ UPGRADER_ROLE \in Roles /\ GUARDIAN_ROLE \in Roles
    /\ RESUMER_ROLE \in Roles /\ LISTING_ROLE \in Roles
    /\ SlowFns \subseteq RouterFns /\ ListingFns \subseteq RouterFns
    /\ "unpause" \in RouterFns /\ "pause" \in RouterFns
    /\ RouterFns \cap ManagerFns = {} /\ RegatingFns \subseteq ManagerFns
    /\ {"configureRouter", "setTargetAdminDelay", "setRoleAdmin", "grantRole",
        "revokeRole"} \subseteq ManagerFns \ RegatingFns
    /\ SlowFns \cap ListingFns = {}
    /\ {"pause", "unpause"} \cap (SlowFns \cup ListingFns) = {}
  BY DEF Roles, ADMIN_ROLE, UPGRADER_ROLE, GUARDIAN_ROLE, RESUMER_ROLE,
         LISTING_ROLE, SlowFns, ListingFns, RouterFns, ManagerFns, RegatingFns

LEMMA WiringFacts ==
    /\ Wiring \in [RouterFns -> Roles]
    /\ \A fn \in SlowFns : Wiring[fn] = UPGRADER_ROLE
    /\ \A fn \in ListingFns : Wiring[fn] = LISTING_ROLE
    /\ Wiring["unpause"] = RESUMER_ROLE
<1>1. \A fn \in RouterFns :
         /\ fn \in SlowFns => Wiring[fn] = UPGRADER_ROLE
         /\ fn = "pause" => Wiring[fn] = GUARDIAN_ROLE
         /\ fn = "unpause" => Wiring[fn] = RESUMER_ROLE
         /\ fn \in ListingFns => Wiring[fn] = LISTING_ROLE
  BY DEF Wiring, RouterFns, SlowFns, ListingFns
<1>2. \A fn \in RouterFns : Wiring[fn] \in Roles
  BY <1>1, Fns DEF RouterFns
<1>3. Wiring = [fn \in RouterFns |-> Wiring[fn]]
  <2> DEFINE role(fn) == CASE fn \in SlowFns    -> UPGRADER_ROLE
                           [] fn = "pause"      -> GUARDIAN_ROLE
                           [] fn = "unpause"    -> RESUMER_ROLE
                           [] fn \in ListingFns -> LISTING_ROLE
  <2>1. Wiring = [fn \in RouterFns |-> role(fn)]
    BY DEF Wiring
  <2> HIDE DEF role
  <2> QED BY <2>1
<1> QED BY <1>1, <1>2, <1>3, Fns

\* A holder whose delay is agreed on has that delay.
LEMMA AgreedDelay ==
    ASSUME PolicyTypeOK, NEW role \in Roles, NEW o \in Officers, NEW d \in Nat,
           terms[role][o] = Agreed(d)
    PROVE  DelayOf(role, o) = d
  BY DEF DelayOf, InForce, Agreed, PolicyTypeOK

\* Delays are natural numbers.
LEMMA InForceNat ==
    ASSUME now \in Nat, NEW delay \in Terms PROVE InForce(delay) \in Nat
  BY DEF InForce, Terms

LEMMA DelayNat ==
    ASSUME PolicyTypeOK, NEW role \in Roles, NEW o \in Officers
    PROVE  DelayOf(role, o) \in Nat
  BY InForceNat DEF DelayOf, PolicyTypeOK

\* What a delay is changed to takes its place, and what it was stays in force
\* until then.
LEMMA UpdatedDelay ==
    ASSUME now \in Nat, NEW delay \in Terms, NEW d \in Nat, NEW least \in Nat
    PROVE  LET new == Updated(delay, d, least) IN
           /\ new \in Terms
           /\ new.is = d
           /\ least = 0 /\ d >= InForce(delay) => new = Agreed(d)
           /\ least > 0 =>
                 /\ new.was = InForce(delay)
                 /\ new.from >= now + least
                 /\ new.from + d >= now + InForce(delay)
                 /\ InForce(delay) <= d => new.from = now + least
<1> DEFINE present == InForce(delay)
           setback == IF d < present /\ least < present - d THEN present - d ELSE least
<1>1. present \in Nat
  BY InForceNat
<1>2. Updated(delay, d, least) =
         IF setback = 0 THEN Agreed(d)
                        ELSE [was |-> present, is |-> d, from |-> now + setback]
  BY DEF Updated
<1> HIDE DEF present
<1>3. /\ setback \in Nat /\ setback >= least /\ setback + d >= present
      /\ present <= d => setback = least
  BY <1>1
<1> HIDE DEF setback
<1>4. Agreed(d) \in Terms /\ Agreed(d).is = d
  BY DEF Agreed, Terms
<1>5. ASSUME setback # 0
      PROVE  [was |-> present, is |-> d, from |-> now + setback] \in Terms
  BY <1>1, <1>3 DEF Terms
<1> QED BY <1>1, <1>2, <1>3, <1>4, <1>5 DEF present

LEMMA SetbackFacts ==
    ASSUME PolicyTypeOK, NEW op \in Requests
    PROVE  /\ op.by \in Officers
           /\ RoleOf(op) \in Roles
           /\ op.fn \in ManagerFns /\ RolesIntact /\ "roles" \notin amended =>
                 RoleOf(op) = ADMIN_ROLE
           /\ op.fn \in RegatingFns => RoleOf(op) = ADMIN_ROLE
           /\ op.fn \in RouterFns => RoleOf(op) = fnRole[op.fn]
           /\ Setback(op) \in Nat
           /\ Setback(op) >= DelayOf(RoleOf(op), op.by)
           /\ op.fn \notin RegatingFns => Setback(op) = DelayOf(RoleOf(op), op.by)
           /\ op.fn \in RegatingFns => Setback(op) >= InForce(adminDelay)
<1>1. op.by \in Officers /\ op.fn \in RouterFns \cup ManagerFns
  BY CallsOfOfficers
<1>2. op.fn \in {"grantRole", "revokeRole"} => op.args[1] \in Roles
  <2>1. ASSUME op.fn = "grantRole" PROVE op.args[1] \in Roles
    <3>1. op.args \in Roles \X Officers \X Nat
      BY <2>1, ArgumentsOfCalls
    <3> QED BY <3>1
  <2>2. ASSUME op.fn = "revokeRole" PROVE op.args[1] \in Roles
    <3>1. op.args \in Roles \X Officers
      BY <2>2, ArgumentsOfCalls
    <3> QED BY <3>1
  <2> QED BY <2>1, <2>2
<1>3. /\ RoleOf(op) \in Roles
      /\ op.fn \in ManagerFns /\ RolesIntact /\ "roles" \notin amended =>
            RoleOf(op) = ADMIN_ROLE
      /\ op.fn \in RegatingFns => RoleOf(op) = ADMIN_ROLE
      /\ op.fn \in RouterFns => RoleOf(op) = fnRole[op.fn]
  <2>1. CASE op.fn \in RouterFns
    <3>1. RoleOf(op) = fnRole[op.fn]
      BY <2>1, Fns DEF RoleOf
    <3> QED BY <2>1, <3>1, Fns DEF PolicyTypeOK
  <2>2. CASE op.fn \in {"grantRole", "revokeRole"}
    <3>1. RoleOf(op) = roleAdmin[op.args[1]] /\ op.fn \notin RouterFns
      BY <2>2, Fns DEF RoleOf
    <3> QED BY <1>2, <2>2, <3>1, Fns DEF PolicyTypeOK, RolesIntact
  <2>3. CASE op.fn \notin RouterFns \cup {"grantRole", "revokeRole"}
    <3>1. RoleOf(op) = ADMIN_ROLE
      BY <2>3 DEF RoleOf
    <3> QED BY <2>3, <3>1, Fns
  <2> QED BY <2>1, <2>2, <2>3
<1>4. DelayOf(RoleOf(op), op.by) \in Nat
  BY <1>1, <1>3, DelayNat
<1>5. InForce(adminDelay) \in Nat
  BY InForceNat DEF PolicyTypeOK
<1> QED BY <1>1, <1>3, <1>4, <1>5 DEF Setback

\* What an entitled caller of the policy as deployed has to wait.
LEMMA RouterSetback ==
    ASSUME IInv, AsDeployed, NEW op \in Requests, Entitled(op),
           op.fn \in SlowFns \cup ListingFns \cup {"unpause"}
    PROVE  Setback(op) = NoticeOf(op.fn) /\ NoticeOf(op.fn) > 0
<1>1. /\ amended = {} /\ configuredAt # None /\ fnRole = Wiring
      /\ op.fn \in RouterFns /\ op.fn \notin RegatingFns
  BY Fns DEF IInv, GatesIntact, AsDeployed
<1>2. /\ op.by \in members[fnRole[op.fn]] /\ op.by \in Officers
      /\ Setback(op) = DelayOf(fnRole[op.fn], op.by)
  BY <1>1, SetbackFacts DEF IInv, Entitled
<1>3. NoticeOf(op.fn) \in Nat /\ NoticeOf(op.fn) > 0
  BY Durations, DelaysArePositive DEF NoticeOf
<1>4. terms[fnRole[op.fn]][op.by] = Agreed(NoticeOf(op.fn))
  <2>1. CASE op.fn \in SlowFns
    BY <1>1, <1>2, <2>1, WiringFacts DEF NoticeOf, IInv, RolesIntact
  <2>2. CASE op.fn \in ListingFns
    BY <1>1, <1>2, <2>2, WiringFacts, Fns DEF NoticeOf, IInv, RolesIntact
  <2>3. CASE op.fn = "unpause"
    BY <1>1, <1>2, <2>3, WiringFacts, Fns DEF NoticeOf, IInv, RolesIntact
  <2> QED BY <2>1, <2>2, <2>3
<1>5. fnRole[op.fn] \in Roles
  BY <1>1, SetbackFacts DEF IInv
<1> QED BY <1>2, <1>3, <1>4, <1>5, AgreedDelay DEF IInv

\* What an entitled caller of the manager itself has to wait while the roles
\* are intact: governance its delay or more.
LEMMA AdminSetback ==
    ASSUME IInv, "roles" \notin amended, NEW op \in Requests,
           RoleOf(op) = ADMIN_ROLE, Entitled(op)
    PROVE  /\ op.by \in {Bootstrap, Governance}
           /\ op.by # Bootstrap => Setback(op) >= ADMIN_EXEC_DELAY
           /\ Setback(op) > 0 /\ op.fn \notin RegatingFns =>
                 Setback(op) >= ADMIN_EXEC_DELAY
<1>1. op.by \in members[ADMIN_ROLE] /\ op.by \in Officers
  BY SetbackFacts DEF Entitled, IInv
<1>2. ADMIN_EXEC_DELAY \in Nat /\ ADMIN_ROLE \in Roles
  BY Durations, Fns
<1>3. \/ op.by = Bootstrap /\ DelayOf(ADMIN_ROLE, op.by) = 0
      \/ op.by = Governance /\ DelayOf(ADMIN_ROLE, op.by) = ADMIN_EXEC_DELAY
  BY <1>1, <1>2, AgreedDelay DEF IInv, RolesIntact
<1>4. /\ Setback(op) \in Nat
      /\ Setback(op) >= DelayOf(ADMIN_ROLE, op.by)
      /\ op.fn \notin RegatingFns => Setback(op) = DelayOf(ADMIN_ROLE, op.by)
  BY SetbackFacts DEF IInv
<1> QED BY <1>2, <1>3, <1>4

\* What any caller of the gates has to wait once ADMIN_DELAY has phased in.
LEMMA RegatingSetback ==
    ASSUME IInv, Undisturbed, now >= configuredAt + MIN_SETBACK,
           NEW op \in Requests, op.fn \in RegatingFns
    PROVE  \/ Setback(op) >= ADMIN_DELAY
           \/ resetAt # None /\ now + Setback(op) >= resetAt + ADMIN_DELAY
<1>1. /\ Setback(op) \in Nat /\ InForce(adminDelay) \in Nat
      /\ Setback(op) >= InForce(adminDelay)
  BY SetbackFacts, InForceNat DEF IInv, PolicyTypeOK
<1>2. /\ now \in Nat /\ configuredAt \in Nat /\ resetAt \in Nat \cup {None}
      /\ ADMIN_DELAY \in Nat /\ MIN_SETBACK \in Nat
      /\ adminDelay.was \in Nat /\ adminDelay.is \in Nat /\ adminDelay.from \in Nat
  BY Durations DEF IInv, PolicyTypeOK, Undisturbed, Terms
<1>3. CASE resetAt = None
  <2>1. InForce(adminDelay) >= ADMIN_DELAY
    BY <1>2, <1>3 DEF IInv, DelayIntact, Undisturbed, InForce
  <2> QED BY <1>1, <1>2, <2>1
<1>4. CASE resetAt # None
  <2>1. now + InForce(adminDelay) >= resetAt + ADMIN_DELAY
    BY <1>2, <1>4 DEF IInv, DelayIntact, InForce
  <2> QED BY <1>1, <1>2, <1>4, <2>1
<1> QED BY <1>3, <1>4

(***************************************************************************)
(* What calls do                                                           *)
(***************************************************************************)
\* The policy and the configuration after a call, whoever makes it.
Settled ==
    /\ fallbackFee' \in 1 .. FEE_LIMIT - 1
    /\ pairFee' \in [Pairs -> Fees]
    /\ members' \in [Roles -> SUBSET Officers]
    /\ terms' \in [Roles -> [Officers -> Terms]]
    /\ roleAdmin' \in [Roles -> Roles]
    /\ fnRole' \in [RouterFns -> Roles]
    /\ closed' \in BOOLEAN /\ inCharge' \in BOOLEAN
    /\ adminDelay' \in Terms
    /\ configuredAt' \in Nat \cup {None}
    /\ resetAt' \in Nat \cup {None}
    /\ amended' \in SUBSET {"roles", "gates"} /\ amended \subseteq amended'
    /\ RolesIntact' /\ GatesIntact' /\ DelayIntact'
    /\ \/ UNCHANGED <<configuredAt, resetAt>>
       \/ configuredAt = None /\ configuredAt' = now /\ resetAt' = resetAt
       \/ configuredAt' = configuredAt /\ resetAt = None /\ resetAt' = now

LEMMA AgreedType == \A d \in Nat : Agreed(d) \in Terms
  BY DEF Agreed, Terms

LEMMA ConfigurationSettled ==
    ASSUME IInv, now' = now, NEW op \in Requests,
           OnRouterState(op) \/ OnConfiguration(op)
    PROVE  Settled
<1>1. UNCHANGED policyVars
  BY DEF OnRouterState, OnConfiguration
<1>2. fallbackFee' \in 1 .. FEE_LIMIT - 1 /\ pairFee' \in [Pairs -> Fees]
  <2>1. CASE UNCHANGED <<fallbackFee, pairFee>>
    BY <2>1 DEF IInv, PolicyTypeOK
  <2>2. CASE /\ op.fn = "setFallbackFee" /\ ValidFallbackFee(op.args[1])
             /\ fallbackFee' = op.args[1] /\ pairFee' = pairFee
    <3>1. op.args[1] \in Nat
      BY <2>2, ArgumentsOfCalls
    <3> QED BY <2>2, <3>1, Durations DEF IInv, PolicyTypeOK, ValidFallbackFee
  <2>3. CASE /\ op.fn = "setPairFee" /\ op.args[3] < FEE_LIMIT
             /\ pairFee' = SetPairFee(pairFee, op.args)
             /\ fallbackFee' = fallbackFee
    <3>1. op.args \in Entries
      BY <2>3, ArgumentsOfCalls DEF Entries
    <3> QED BY <2>3, <3>1, PairFeeTyped DEF IInv, PolicyTypeOK
  <2>4. CASE /\ op.fn = "setPairFees"
             /\ \A i \in DOMAIN op.args : op.args[i][3] < FEE_LIMIT
             /\ pairFee' = FoldLeft(SetPairFee, pairFee, op.args)
             /\ fallbackFee' = fallbackFee
    <3>1. op.args \in Seq(Entries)
      BY <2>4, ArgumentsOfCalls DEF Entries
    <3> QED BY <2>4, <3>1, PairFeesTyped DEF IInv, PolicyTypeOK
  <2> QED
    BY <2>1, <2>2, <2>3, <2>4 DEF OnRouterState, OnConfiguration, configVars
<1> QED
  BY <1>1, <1>2
     DEF Settled, policyVars, roleVars, gateVars, delayVars, IInv, PolicyTypeOK,
         RolesIntact, GatesIntact, DelayIntact, Undisturbed

\* A grant gives its holder a delay.
LEMMA GrantSettled ==
    ASSUME IInv, NEW role \in Roles, NEW o \in Officers, NEW d \in Nat,
           GrantRole(role, o, d)
    PROVE  /\ members' = [members EXCEPT ![role] = @ \cup {o}]
           /\ members' \in [Roles -> SUBSET Officers]
           /\ terms' \in [Roles -> [Officers -> Terms]]
           /\ \A r \in Roles, p \in Officers :
                 ~(r = role /\ p = o) => terms'[r][p] = terms[r][p]
           /\ ~(o \in members[role] /\ d < DelayOf(role, o)) =>
                 terms'[role][o] = Agreed(d)
<1> DEFINE term == IF o \in members[role] THEN Updated(terms[role][o], d, 0)
                                          ELSE Agreed(d)
<1>1. /\ members' = [members EXCEPT ![role] = @ \cup {o}]
      /\ terms' = [terms EXCEPT ![role][o] = term]
  BY DEF GrantRole
<1>2. /\ members \in [Roles -> SUBSET Officers]
      /\ terms \in [Roles -> [Officers -> Terms]]
      /\ now \in Nat
  BY DEF IInv, PolicyTypeOK
<1>3. /\ term \in Terms
      /\ ~(o \in members[role] /\ d < DelayOf(role, o)) => term = Agreed(d)
  <2>1. /\ Updated(terms[role][o], d, 0) \in Terms
        /\ d >= DelayOf(role, o) => Updated(terms[role][o], d, 0) = Agreed(d)
    BY <1>2, UpdatedDelay DEF DelayOf
  <2>2. DelayOf(role, o) \in Nat
    BY DelayNat DEF IInv
  <2> QED BY <2>1, <2>2, AgreedType
<1> HIDE DEF term
<1>4. members' \in [Roles -> SUBSET Officers]
  BY <1>1, <1>2
<1>5. terms' \in [Roles -> [Officers -> Terms]]
  BY <1>1, <1>2, <1>3
<1>6. /\ terms'[role][o] = term
      /\ \A r \in Roles, p \in Officers :
            ~(r = role /\ p = o) => terms'[r][p] = terms[r][p]
  BY <1>1, <1>2
<1> QED BY <1>1, <1>3, <1>4, <1>5, <1>6

\* The handoff makes governance an admin with the delay of the script.
LEMMA HandoffSettled ==
    ASSUME IInv, "roles" \notin amended, NEW op \in Requests,
           GrantRole(op.args[1], op.args[2], op.args[3]), IsHandoff(op),
           roleAdmin' = roleAdmin
    PROVE  RolesIntact'
<1>1. op.args[1] = ADMIN_ROLE /\ op.args[2] = Governance
      /\ op.args[3] = ADMIN_EXEC_DELAY
  BY DEF IsHandoff
<1>2. /\ ADMIN_ROLE \in Roles /\ Governance \in Officers
      /\ ADMIN_EXEC_DELAY \in Nat
  BY Fns, Holders, Durations
<1>3. ~(/\ Governance \in members[ADMIN_ROLE]
        /\ ADMIN_EXEC_DELAY < DelayOf(ADMIN_ROLE, Governance))
  <2> SUFFICES ASSUME Governance \in members[ADMIN_ROLE]
               PROVE  DelayOf(ADMIN_ROLE, Governance) \in {0, ADMIN_EXEC_DELAY}
    BY <1>2
  <2> QED BY <1>2, AgreedDelay DEF IInv, RolesIntact
<1>4. /\ members' = [members EXCEPT ![ADMIN_ROLE] = @ \cup {Governance}]
      /\ \A r \in Roles, p \in Officers :
            ~(r = ADMIN_ROLE /\ p = Governance) => terms'[r][p] = terms[r][p]
      /\ terms'[ADMIN_ROLE][Governance] = Agreed(ADMIN_EXEC_DELAY)
  BY <1>1, <1>2, <1>3, GrantSettled
<1>5. members \in [Roles -> SUBSET Officers]
  BY DEF IInv, PolicyTypeOK
<1>6. /\ members'[ADMIN_ROLE] = members[ADMIN_ROLE] \cup {Governance}
      /\ \A r \in Roles \ {ADMIN_ROLE} : members'[r] = members[r]
  BY <1>2, <1>4, <1>5
<1>7. \A o \in members'[ADMIN_ROLE] :
         \/ o = Bootstrap /\ terms'[ADMIN_ROLE][o] = Agreed(0)
         \/ o = Governance /\ terms'[ADMIN_ROLE][o] = Agreed(ADMIN_EXEC_DELAY)
  BY <1>2, <1>4, <1>5, <1>6 DEF IInv, RolesIntact
<1>8. /\ UPGRADER_ROLE \in Roles \ {ADMIN_ROLE}
      /\ RESUMER_ROLE \in Roles \ {ADMIN_ROLE}
      /\ LISTING_ROLE \in Roles \ {ADMIN_ROLE}
  BY DEF Roles, ADMIN_ROLE, UPGRADER_ROLE, RESUMER_ROLE, LISTING_ROLE
<1> QED BY <1>4, <1>5, <1>6, <1>7, <1>8 DEF IInv, RolesIntact

\* Leaving a role takes nothing but the holder from it.
LEMMA LeavingSettled ==
    ASSUME IInv, NEW role \in Roles, NEW o \in Officers,
           members' = [members EXCEPT ![role] = @ \ {o}],
           terms' = [terms EXCEPT ![role][o] = Agreed(0)],
           amended' = amended, roleAdmin' = roleAdmin
    PROVE  /\ members' \in [Roles -> SUBSET Officers]
           /\ terms' \in [Roles -> [Officers -> Terms]]
           /\ \A r \in Roles : members'[r] \subseteq members[r]
           /\ RolesIntact'
<1>1. /\ members \in [Roles -> SUBSET Officers]
      /\ terms \in [Roles -> [Officers -> Terms]]
      /\ Agreed(0) \in Terms
  BY AgreedType DEF IInv, PolicyTypeOK
<1>2. /\ members' \in [Roles -> SUBSET Officers]
      /\ terms' \in [Roles -> [Officers -> Terms]]
  BY <1>1
<1>3. \A r \in Roles : \A p \in members'[r] :
         p \in members[r] /\ terms'[r][p] = terms[r][p]
  BY <1>1
<1> QED BY <1>2, <1>3, Fns DEF IInv, RolesIntact

\* A change of who holds a role or who grants it.
LEMMA RolesSettled ==
    ASSUME IInv, now' = now, UNCHANGED <<fallbackFee, pairFee>>,
           NEW op \in Requests, OnRoles(op)
    PROVE  Settled
<1>1. /\ UNCHANGED <<gateVars, delayVars>>
      /\ amended' \in SUBSET {"roles", "gates"} /\ amended \subseteq amended'
      /\ ~IsHandoff(op) => "roles" \in amended'
  BY DEF OnRoles, IInv, PolicyTypeOK
<1>2. /\ members' \in [Roles -> SUBSET Officers]
      /\ terms' \in [Roles -> [Officers -> Terms]]
      /\ roleAdmin' \in [Roles -> Roles]
      /\ RolesIntact'
  <2>1. CASE /\ op.fn = "grantRole"
             /\ GrantRole(op.args[1], op.args[2], op.args[3])
             /\ UNCHANGED roleAdmin
    <3>1. op.args[1] \in Roles /\ op.args[2] \in Officers /\ op.args[3] \in Nat
      <4>1. op.args \in Roles \X Officers \X Nat
        BY <2>1, ArgumentsOfCalls
      <4> QED BY <4>1
    <3>2. /\ members' \in [Roles -> SUBSET Officers]
          /\ terms' \in [Roles -> [Officers -> Terms]]
      BY <2>1, <3>1, GrantSettled
    <3>3. RolesIntact'
      <4>1. CASE "roles" \notin amended'
        BY <1>1, <2>1, <4>1, HandoffSettled
      <4> QED BY <4>1 DEF RolesIntact
    <3> QED BY <2>1, <3>2, <3>3 DEF IInv, PolicyTypeOK
  <2>2. CASE /\ op.fn = "revokeRole"
             /\ RevokeRole(op.args[1], op.args[2])
             /\ UNCHANGED roleAdmin
    <3>1. op.args[1] \in Roles /\ op.args[2] \in Officers
      <4>1. op.args \in Roles \X Officers
        BY <2>2, ArgumentsOfCalls
      <4> QED BY <4>1
    <3>2. /\ members' = [members EXCEPT ![op.args[1]] = @ \ {op.args[2]}]
          /\ terms' = [terms EXCEPT ![op.args[1]][op.args[2]] = Agreed(0)]
      BY <2>2 DEF RevokeRole
    <3>3. /\ members' \in [Roles -> SUBSET Officers]
          /\ terms' \in [Roles -> [Officers -> Terms]]
      BY <3>1, <3>2, AgreedType DEF IInv, PolicyTypeOK
    <3>4. "roles" \in amended'
      BY <1>1, <2>2 DEF IsHandoff
    <3> QED BY <2>2, <3>3, <3>4 DEF IInv, PolicyTypeOK, RolesIntact
  <2>3. CASE /\ op.fn = "setRoleAdmin"
             /\ roleAdmin' = [roleAdmin EXCEPT ![op.args[1]] = op.args[2]]
             /\ UNCHANGED <<members, terms>>
    <3>1. op.args[1] \in Roles /\ op.args[2] \in Roles
      <4>1. op.args \in (Roles \ {ADMIN_ROLE}) \X Roles
        BY <2>3, ArgumentsOfCalls
      <4> QED BY <4>1
    <3>2. roleAdmin' \in [Roles -> Roles]
      BY <2>3, <3>1 DEF IInv, PolicyTypeOK
    <3>3. "roles" \in amended'
      BY <1>1, <2>3 DEF IsHandoff
    <3> QED BY <2>3, <3>2, <3>3 DEF IInv, PolicyTypeOK, RolesIntact
  <2> QED BY <2>1, <2>2, <2>3 DEF OnRoles
<1>3. GatesIntact' /\ DelayIntact'
  BY <1>1 DEF gateVars, delayVars, IInv, GatesIntact, DelayIntact, Undisturbed
<1> QED
  BY <1>1, <1>2, <1>3 DEF Settled, gateVars, delayVars, IInv, PolicyTypeOK

\* A change of the gates.
LEMMA GatesSettled ==
    ASSUME IInv, now' = now, UNCHANGED <<fallbackFee, pairFee>>,
           NEW op \in Requests, OnGates(op)
    PROVE  Settled
<1>1. /\ UNCHANGED <<roleVars, delayVars>>
      /\ amended' \in SUBSET {"roles", "gates"} /\ amended \subseteq amended'
      /\ "gates" \in amended'
      /\ "roles" \in amended' => "roles" \in amended
  BY DEF OnGates, IInv, PolicyTypeOK
<1>2. /\ fnRole' \in [RouterFns -> Roles]
      /\ closed' \in BOOLEAN /\ inCharge' \in BOOLEAN
  <2>1. CASE /\ op.fn = "setTargetFunctionRole"
             /\ fnRole' = [fnRole EXCEPT ![op.args[2]] = op.args[1]]
             /\ UNCHANGED <<closed, inCharge>>
    <3>1. op.args[1] \in Roles /\ op.args[2] \in RouterFns
      <4>1. op.args \in Roles \X RouterFns
        BY <2>1, ArgumentsOfCalls
      <4> QED BY <4>1
    <3> QED BY <2>1, <3>1 DEF IInv, PolicyTypeOK
  <2>2. CASE /\ op.fn = "setTargetClosed"
             /\ closed' = op.args[1]
             /\ UNCHANGED <<fnRole, inCharge>>
    BY <2>2, ArgumentsOfCalls DEF IInv, PolicyTypeOK
  <2>3. CASE inCharge' = FALSE /\ UNCHANGED <<fnRole, closed>>
    BY <2>3 DEF IInv, PolicyTypeOK
  <2> QED BY <2>1, <2>2, <2>3 DEF OnGates
<1>3. RolesIntact' /\ GatesIntact' /\ DelayIntact'
  BY <1>1 DEF roleVars, delayVars, IInv, RolesIntact, GatesIntact, DelayIntact,
              Undisturbed
<1> QED
  BY <1>1, <1>2, <1>3 DEF Settled, roleVars, delayVars, IInv, PolicyTypeOK

\* A change of the target admin delay waits for the least setback, and a lower
\* delay for the difference too.
LEMMA DelayChanged ==
    ASSUME IInv, NEW d \in Nat, adminDelay' = Updated(adminDelay, d, MIN_SETBACK)
    PROVE  /\ adminDelay' \in Terms
           /\ InForce(adminDelay) \in Nat
           /\ adminDelay'.is = d
           /\ adminDelay'.was = InForce(adminDelay)
           /\ adminDelay'.from >= now + MIN_SETBACK
           /\ adminDelay'.from + d >= now + InForce(adminDelay)
           /\ InForce(adminDelay) <= d => adminDelay'.from = now + MIN_SETBACK
<1>1. /\ now \in Nat /\ adminDelay \in Terms
      /\ MIN_SETBACK \in Nat /\ MIN_SETBACK > 0
  BY Durations, DelaysArePositive DEF IInv, PolicyTypeOK
<1> QED BY <1>1, UpdatedDelay, InForceNat

LEMMA PolicySettled ==
    ASSUME IInv, now' = now, NEW op \in Requests, OnPolicy(op)
    PROVE  Settled
<1>1. UNCHANGED <<fallbackFee, pairFee>>
  BY DEF OnPolicy, configVars
<1>2. /\ ADMIN_DELAY \in Nat /\ MIN_SETBACK \in Nat
      /\ now \in Nat /\ resetAt \in Nat \cup {None}
      /\ configuredAt \in Nat \cup {None}
  BY Durations DEF IInv, PolicyTypeOK
<1>3. CASE op.fn = "configureRouter" /\ Configure
  <2>1. /\ configuredAt = None /\ configuredAt' = now /\ fnRole' = Wiring
        /\ adminDelay' = Updated(adminDelay, ADMIN_DELAY, MIN_SETBACK)
        /\ UNCHANGED <<members, terms, roleAdmin, closed, inCharge, resetAt, amended>>
    BY <1>3 DEF Configure, roleVars
  <2>2. configuredAt' # None /\ configuredAt' \in Nat
    BY <1>2, <2>1, NoneIsNoTime
  <2>3. /\ adminDelay' \in Terms
        /\ DelayIntact'
    <3>1. /\ adminDelay' \in Terms /\ adminDelay'.is = ADMIN_DELAY
          /\ \/ adminDelay'.from <= now + MIN_SETBACK
             \/ adminDelay'.was >= ADMIN_DELAY
      BY <1>2, <2>1, DelayChanged
    <3>2. resetAt' = None
      BY <2>1 DEF IInv, DelayIntact
    <3> QED BY <2>1, <2>2, <3>1, <3>2 DEF DelayIntact
  <2> QED
    BY <1>1, <2>1, <2>2, <2>3, WiringFacts
       DEF Settled, IInv, PolicyTypeOK, RolesIntact, GatesIntact
<1>4. CASE op.fn = "setTargetAdminDelay" /\ SetTargetAdminDelay(op.args[1])
  <2> DEFINE d == op.args[1]
  <2>1. /\ d \in Nat
        /\ adminDelay' = Updated(adminDelay, d, MIN_SETBACK)
        /\ resetAt' = IF configuredAt # None /\ resetAt = None THEN now ELSE resetAt
        /\ UNCHANGED <<members, terms, roleAdmin, fnRole, closed, inCharge,
                       configuredAt, amended>>
    BY <1>4, ArgumentsOfCalls DEF SetTargetAdminDelay, roleVars, gateVars
  <2> HIDE DEF d
  <2>2. /\ adminDelay' \in Terms
        /\ InForce(adminDelay) \in Nat
        /\ adminDelay'.is = d
        /\ adminDelay'.was = InForce(adminDelay)
        /\ adminDelay'.from \in Nat
        /\ adminDelay'.from + d >= now + InForce(adminDelay)
    BY <2>1, DelayChanged DEF Terms
  <2>3. DelayIntact'
    <3>1. configuredAt' = None => resetAt' = None
      BY <2>1 DEF IInv, DelayIntact
    <3>2. ~(configuredAt' # None /\ resetAt' = None)
      BY <1>2, <2>1, NoneIsNoTime
    <3>3. ASSUME Undisturbed', resetAt' # None
          PROVE  now + InForce(adminDelay) >= resetAt' + ADMIN_DELAY
      <4>1. /\ configuredAt \in Nat
            /\ adminDelay.was \in Nat /\ adminDelay.is \in Nat
            /\ adminDelay.from \in Nat
        BY <1>2, <2>1, <3>3 DEF Undisturbed, IInv, PolicyTypeOK, Terms
      <4>2. CASE resetAt = None
        <5>1. /\ resetAt' = now /\ now >= configuredAt + MIN_SETBACK
              /\ configuredAt # None
          BY <1>2, <2>1, <3>3, <4>2, NoneIsNoTime DEF Undisturbed
        <5>2. InForce(adminDelay) >= ADMIN_DELAY
          BY <1>2, <4>1, <4>2, <5>1 DEF IInv, DelayIntact, InForce
        <5> QED BY <1>2, <2>2, <5>1, <5>2
      <4>3. CASE resetAt # None
        <5>1. Undisturbed /\ resetAt' = resetAt
          BY <2>1, <3>3, <4>3 DEF Undisturbed
        <5> QED BY <1>2, <4>1, <4>3, <5>1 DEF IInv, DelayIntact, InForce
      <4> QED BY <4>2, <4>3
    <3>4. ASSUME Undisturbed', resetAt' # None
          PROVE  /\ adminDelay'.from + adminDelay'.is >= resetAt' + ADMIN_DELAY
                 /\ now' + adminDelay'.was >= resetAt' + ADMIN_DELAY
      <4>1. resetAt' \in Nat
        BY <1>2, <2>1, <3>4
      <4>2. now + InForce(adminDelay) >= resetAt' + ADMIN_DELAY
        BY <3>3, <3>4
      <4> QED BY <1>2, <2>1, <2>2, <4>1, <4>2
    <3> QED BY <3>1, <3>2, <3>4 DEF DelayIntact
  <2>4. resetAt' \in Nat \cup {None}
    BY <1>2, <2>1
  <2> QED
    BY <1>1, <2>1, <2>2, <2>3, <2>4
       DEF Settled, IInv, PolicyTypeOK, RolesIntact, GatesIntact
<1>5. CASE OnRoles(op)
  BY <1>1, <1>5, RolesSettled
<1>6. CASE OnGates(op)
  BY <1>1, <1>6, GatesSettled
<1> QED BY <1>3, <1>4, <1>5, <1>6 DEF OnPolicy

LEMMA EffectSettled ==
    ASSUME IInv, now' = now, NEW op \in Requests, Effect(op)
    PROVE  Settled
  BY ConfigurationSettled, PolicySettled DEF Effect

(***************************************************************************)
(* The invariant is kept                                                   *)
(***************************************************************************)
LEMMA InitIInv == Init => IInv
<1> SUFFICES ASSUME Init PROVE IInv
  OBVIOUS
<1>1. Granted \in [Roles -> SUBSET Officers]
  <2>1. \A role \in Roles : Granted[role] \in SUBSET Officers
    BY Holders DEF Granted, Roles, ADMIN_ROLE, UPGRADER_ROLE, GUARDIAN_ROLE,
                   RESUMER_ROLE, LISTING_ROLE
  <2>2. Granted = [role \in Roles |-> Granted[role]]
    <3> DEFINE to(role) ==
                CASE role = ADMIN_ROLE    -> {Bootstrap}
                  [] role = UPGRADER_ROLE -> {Upgrader}
                  [] role = GUARDIAN_ROLE -> {Guardian}
                  [] role = RESUMER_ROLE  -> {Resumer}
                  [] role = LISTING_ROLE  -> {Lister}
    <3>1. Granted = [role \in Roles |-> to(role)]
      BY DEF Granted
    <3> HIDE DEF to
    <3> QED BY <3>1
  <2> QED BY <2>1, <2>2
<1>2. \A role \in Roles, o \in Officers :
         /\ GrantedTerms[role][o] \in Terms
         /\ role = ADMIN_ROLE => GrantedTerms[role][o] = Agreed(0)
         /\ role = UPGRADER_ROLE /\ o = Upgrader =>
               GrantedTerms[role][o] = Agreed(UPGRADE_DELAY)
         /\ role = RESUMER_ROLE /\ o = Resumer =>
               GrantedTerms[role][o] = Agreed(RESUME_DELAY)
         /\ role = LISTING_ROLE /\ o = Lister =>
               GrantedTerms[role][o] = Agreed(LISTING_DELAY)
  <2>1. /\ Agreed(0) \in Terms /\ Agreed(UPGRADE_DELAY) \in Terms
        /\ Agreed(RESUME_DELAY) \in Terms /\ Agreed(LISTING_DELAY) \in Terms
    BY AgreedType, Durations
  <2> QED
    BY <2>1 DEF GrantedTerms, ADMIN_ROLE, UPGRADER_ROLE, RESUMER_ROLE,
                LISTING_ROLE
<1>3. GrantedTerms \in [Roles -> [Officers -> Terms]]
  <2> DEFINE with(role, o) ==
              CASE role = UPGRADER_ROLE /\ o = Upgrader -> Agreed(UPGRADE_DELAY)
                [] role = RESUMER_ROLE /\ o = Resumer   -> Agreed(RESUME_DELAY)
                [] role = LISTING_ROLE /\ o = Lister    -> Agreed(LISTING_DELAY)
                [] OTHER -> Agreed(0)
  <2>1. GrantedTerms = [role \in Roles |-> [o \in Officers |-> with(role, o)]]
    BY DEF GrantedTerms
  <2> HIDE DEF with
  <2>2. \A role \in Roles, o \in Officers : with(role, o) \in Terms
    BY <1>2, <2>1
  <2> QED BY <2>1, <2>2
<1>4. PolicyTypeOK
  BY <1>1, <1>3, Fns, FeesOfInitialize, NoneIsNoTime, AgreedType
     DEF Init, PolicyTypeOK, Fees
<1>5. /\ Granted[ADMIN_ROLE] = {Bootstrap} /\ Granted[UPGRADER_ROLE] = {Upgrader}
      /\ Granted[RESUMER_ROLE] = {Resumer} /\ Granted[LISTING_ROLE] = {Lister}
  BY DEF Granted, Roles, ADMIN_ROLE, UPGRADER_ROLE, GUARDIAN_ROLE,
         RESUMER_ROLE, LISTING_ROLE
<1>6. RolesIntact
  BY <1>2, <1>5, Fns, Holders DEF Init, RolesIntact
<1>7. GatesIntact /\ DelayIntact /\ QueueIntact
  BY DEF Init, GatesIntact, DelayIntact, Undisturbed, QueueIntact
<1> QED BY <1>4, <1>6, <1>7 DEF IInv

\* Where configureRouter and setTargetAdminDelay have been called in the meantime,
\* what is in the queue still has its notice.
LEMMA QueueKept ==
    ASSUME IInv, now' = now, amended \subseteq amended',
           \/ UNCHANGED <<configuredAt, resetAt>>
           \/ configuredAt = None /\ configuredAt' = now /\ resetAt' = resetAt
           \/ configuredAt' = configuredAt /\ resetAt = None /\ resetAt' = now,
           \A op \in Requests : readyAt'[op] # None =>
              readyAt'[op] = readyAt[op] /\ queuedAt'[op] = queuedAt[op]
    PROVE  QueueIntact'
<1> SUFFICES ASSUME NEW op \in Requests, readyAt[op] # None,
                    readyAt'[op] = readyAt[op], queuedAt'[op] = queuedAt[op],
                    Undisturbed', op.fn \in RegatingFns,
                    queuedAt[op] >= configuredAt' + MIN_SETBACK
             PROVE  \/ queuedAt[op] + ADMIN_DELAY <= readyAt[op]
                    \/ resetAt' # None /\ resetAt' + ADMIN_DELAY <= readyAt[op]
  BY DEF IInv, QueueIntact
<1>1. /\ queuedAt[op] <= now
      /\ queuedAt[op] \in Nat /\ now \in Nat
      /\ MIN_SETBACK \in Nat /\ MIN_SETBACK > 0
  BY Durations, DelaysArePositive DEF IInv, PolicyTypeOK, QueueIntact
<1>2. ~(configuredAt = None /\ configuredAt' = now)
  BY <1>1
<1>3. /\ configuredAt' = configuredAt
      /\ resetAt' = resetAt \/ resetAt = None
  BY <1>2
<1>4. Undisturbed
  BY <1>3 DEF Undisturbed
<1> QED BY <1>3, <1>4 DEF IInv, QueueIntact

\* Taking a call from the queue leaves the others as they were.
LEMMA DequeueKeeps ==
    ASSUME IInv, NEW op \in Requests, Dequeue(op)
    PROVE  /\ readyAt' \in [Requests -> Nat \cup {None}]
           /\ queuedAt' \in [Requests -> Nat]
           /\ \A o \in Requests : readyAt'[o] # None =>
                 readyAt'[o] = readyAt[o] /\ queuedAt'[o] = queuedAt[o]
<1>1. /\ readyAt \in [Requests -> Nat \cup {None}]
      /\ queuedAt \in [Requests -> Nat]
      /\ readyAt' = [readyAt EXCEPT ![op] = None]
      /\ queuedAt' = [queuedAt EXCEPT ![op] = 0]
  BY DEF IInv, PolicyTypeOK, Dequeue
<1> QED BY <1>1

LEMMA CallNowPreserves ==
    ASSUME IInv, NEW op \in Requests, CallNow(op) PROVE IInv'
<1>1. Settled /\ UNCHANGED <<now, readyAt, queuedAt>>
  BY EffectSettled DEF CallNow, queueVars
<1>2. QueueIntact'
  BY <1>1, QueueKept DEF Settled
<1> QED BY <1>1, <1>2 DEF Settled, IInv, PolicyTypeOK

LEMMA ExecutePreserves ==
    ASSUME IInv, NEW op \in Requests, Execute(op) PROVE IInv'
<1>1. Settled /\ now' = now /\ Dequeue(op)
  BY EffectSettled DEF Execute
<1>2. /\ readyAt' \in [Requests -> Nat \cup {None}]
      /\ queuedAt' \in [Requests -> Nat]
      /\ QueueIntact'
  BY <1>1, DequeueKeeps, QueueKept DEF Settled
<1> QED BY <1>1, <1>2 DEF Settled, IInv, PolicyTypeOK

LEMMA CancelPreserves ==
    ASSUME IInv, NEW op \in Requests, NEW by \in Officers, Cancel(op, by)
    PROVE  IInv'
<1>1. /\ Dequeue(op)
      /\ UNCHANGED <<now, fallbackFee, pairFee, members, terms, roleAdmin, fnRole,
                     closed, inCharge, adminDelay, configuredAt, resetAt, amended>>
  BY DEF Cancel, configVars, policyVars, roleVars, gateVars, delayVars
<1>2. /\ readyAt' \in [Requests -> Nat \cup {None}]
      /\ queuedAt' \in [Requests -> Nat]
      /\ QueueIntact'
  BY <1>1, DequeueKeeps, QueueKept
<1> QED
  BY <1>1, <1>2
     DEF IInv, PolicyTypeOK, RolesIntact, GatesIntact, DelayIntact, Undisturbed

\* A call enters the queue with its notice.
LEMMA SchedulePreserves ==
    ASSUME IInv, NEW op \in Requests, NEW later \in Slack, Schedule(op, later)
    PROVE  IInv'
<1> DEFINE wait == Setback(op)
<1>1. /\ Entitled(op) /\ wait > 0
      /\ readyAt' = [readyAt EXCEPT ![op] = now + wait + later]
      /\ queuedAt' = [queuedAt EXCEPT ![op] = now]
      /\ UNCHANGED <<now, fallbackFee, pairFee, members, terms, roleAdmin, fnRole,
                     closed, inCharge, adminDelay, configuredAt, resetAt, amended>>
  BY DEF Schedule, configVars, policyVars, roleVars, gateVars, delayVars
<1>2. wait \in Nat /\ later \in Nat /\ now \in Nat
  BY SetbackFacts, StepsOfTime DEF IInv, PolicyTypeOK
<1>3. "roles" \notin amended /\ op.fn \in ManagerFns /\ op.by # Bootstrap =>
         ADMIN_EXEC_DELAY <= wait
  BY <1>1, <1>2, AdminSetback, SetbackFacts, Durations DEF IInv
<1>4. Undisturbed /\ op.fn \in RegatingFns /\ now >= configuredAt + MIN_SETBACK =>
         \/ ADMIN_DELAY <= wait
         \/ resetAt # None /\ resetAt + ADMIN_DELAY <= now + wait
  <2> SUFFICES ASSUME Undisturbed, op.fn \in RegatingFns,
                      now >= configuredAt + MIN_SETBACK
               PROVE  \/ ADMIN_DELAY <= wait
                      \/ resetAt # None /\ resetAt + ADMIN_DELAY <= now + wait
    OBVIOUS
  <2>1. \/ wait >= ADMIN_DELAY
        \/ resetAt # None /\ now + wait >= resetAt + ADMIN_DELAY
    BY RegatingSetback
  <2>2. resetAt \in Nat \cup {None} /\ ADMIN_DELAY \in Nat
    BY Durations DEF IInv, PolicyTypeOK
  <2> QED BY <1>2, <2>1, <2>2
<1>5. HandoffCovers /\ amended = {} /\ op.fn \in RouterFns =>
         NoticeOf(op.fn) <= wait
  <2> SUFFICES ASSUME HandoffCovers, amended = {}, op.fn \in RouterFns
               PROVE  NoticeOf(op.fn) <= wait
    OBVIOUS
  <2>1. NoticeOf(op.fn) \in Nat /\ NoticeOf(op.fn) <= ADMIN_EXEC_DELAY
    BY Durations DEF NoticeOf, HandoffCovers
  <2>2. CASE configuredAt = None
    <3>1. RoleOf(op) = ADMIN_ROLE /\ op.fn \notin RegatingFns
      BY <2>2, SetbackFacts, Fns DEF IInv, GatesIntact
    <3>2. wait >= ADMIN_EXEC_DELAY
      BY <1>1, <3>1, AdminSetback
    <3> QED BY <1>2, <2>1, <3>2, Durations
  <2>3. CASE configuredAt # None
    <3>1. CASE op.fn \in SlowFns \cup ListingFns \cup {"unpause"}
      BY <1>1, <2>1, <2>3, <3>1, RouterSetback DEF AsDeployed
    <3>2. CASE op.fn \notin SlowFns \cup ListingFns \cup {"unpause"}
      BY <1>2, <3>2 DEF NoticeOf
    <3> QED BY <3>1, <3>2
  <2> QED BY <2>2, <2>3
<1> HIDE DEF wait
<1>6. /\ readyAt' \in [Requests -> Nat \cup {None}]
      /\ queuedAt' \in [Requests -> Nat]
  BY <1>1, <1>2 DEF IInv, PolicyTypeOK
<1>7. QueueIntact'
  <2> SUFFICES ASSUME NEW o \in Requests, readyAt'[o] # None
               PROVE  /\ queuedAt'[o] <= now
                      /\ /\ "roles" \notin amended
                         /\ o.fn \in ManagerFns /\ o.by # Bootstrap
                         => queuedAt'[o] + ADMIN_EXEC_DELAY <= readyAt'[o]
                      /\ /\ Undisturbed /\ o.fn \in RegatingFns
                         /\ queuedAt'[o] >= configuredAt + MIN_SETBACK
                         => \/ queuedAt'[o] + ADMIN_DELAY <= readyAt'[o]
                            \/ /\ resetAt # None
                               /\ resetAt + ADMIN_DELAY <= readyAt'[o]
                      /\ HandoffCovers /\ amended = {} /\ o.fn \in RouterFns
                         => queuedAt'[o] + NoticeOf(o.fn) <= readyAt'[o]
    BY <1>1 DEF QueueIntact, Undisturbed
  <2>1. CASE o = op
    <3>1. queuedAt'[o] = now /\ readyAt'[o] = now + wait + later
      BY <1>1, <2>1 DEF IInv, PolicyTypeOK
    <3>2. NoticeOf(o.fn) \in Nat /\ resetAt \in Nat \cup {None}
      BY Durations DEF NoticeOf, IInv, PolicyTypeOK
    <3> QED BY <1>2, <1>3, <1>4, <1>5, <2>1, <3>1, <3>2, Durations
  <2>2. CASE o # op
    <3>1. queuedAt'[o] = queuedAt[o] /\ readyAt'[o] = readyAt[o]
      BY <1>1, <2>2 DEF IInv, PolicyTypeOK
    <3> QED BY <3>1 DEF IInv, QueueIntact
  <2> QED BY <2>1, <2>2
<1> QED
  BY <1>1, <1>6, <1>7
     DEF IInv, PolicyTypeOK, RolesIntact, GatesIntact, DelayIntact, Undisturbed

LEMMA RenouncePreserves ==
    ASSUME IInv, NEW role \in Roles, NEW o \in Officers, Renounce(role, o)
    PROVE  IInv'
<1>1. /\ members' = [members EXCEPT ![role] = @ \ {o}]
      /\ terms' = [terms EXCEPT ![role][o] = Agreed(0)]
      /\ UNCHANGED <<now, fallbackFee, pairFee, roleAdmin, fnRole, closed, inCharge,
                     adminDelay, configuredAt, resetAt, amended, readyAt, queuedAt>>
  BY DEF Renounce, configVars, gateVars, delayVars, queueVars
<1>2. /\ members' \in [Roles -> SUBSET Officers]
      /\ terms' \in [Roles -> [Officers -> Terms]]
      /\ RolesIntact'
  BY <1>1, LeavingSettled
<1> QED
  BY <1>1, <1>2 DEF IInv, PolicyTypeOK, GatesIntact, DelayIntact, Undisturbed,
                    QueueIntact

LEMMA NextPreserves == IInv /\ [Next]_vars => IInv'
<1> SUFFICES ASSUME IInv, [Next]_vars PROVE IInv'
  OBVIOUS
<1>1. CASE \E op \in Requests : CallNow(op)
  BY <1>1, CallNowPreserves
<1>2. CASE \E op \in Requests, later \in Slack : Schedule(op, later)
  BY <1>2, SchedulePreserves
<1>3. CASE \E op \in Requests : Execute(op)
  BY <1>3, ExecutePreserves
<1>4. CASE \E op \in Requests, by \in Officers : Cancel(op, by)
  BY <1>4, CancelPreserves
<1>5. CASE \E held \in Renounceable : Renounce(held[1], held[2])
  BY <1>5, RenouncePreserves, RenouncedByHolders
<1>6. CASE \E d \in Advances : AdvanceTime(d)
  <2>1. /\ now' \in Nat /\ now \in Nat /\ now' >= now
        /\ UNCHANGED <<fallbackFee, pairFee, members, terms, roleAdmin, fnRole,
                       closed, inCharge, adminDelay, configuredAt, resetAt, amended,
                       readyAt, queuedAt>>
    BY <1>6, StepsOfTime
       DEF AdvanceTime, configVars, policyVars, roleVars, gateVars, delayVars,
           queueVars, IInv, PolicyTypeOK
  <2>2. DelayIntact'
    <3>1. /\ adminDelay.was \in Nat /\ adminDelay.from \in Nat
          /\ resetAt \in Nat \cup {None} /\ ADMIN_DELAY \in Nat
      BY Durations DEF IInv, PolicyTypeOK, Terms
    <3> QED BY <2>1, <3>1 DEF IInv, DelayIntact, Undisturbed
  <2>3. QueueIntact'
    <3>1. \A op \in Requests : queuedAt[op] \in Nat
      BY DEF IInv, PolicyTypeOK
    <3> QED BY <2>1, <3>1 DEF IInv, QueueIntact, Undisturbed
  <2> QED
    BY <2>1, <2>2, <2>3 DEF IInv, PolicyTypeOK, RolesIntact, GatesIntact
<1>7. CASE UNCHANGED vars
  BY <1>7 DEF vars, configVars, policyVars, roleVars, gateVars, delayVars,
              queueVars, IInv, PolicyTypeOK, RolesIntact, GatesIntact, DelayIntact,
              Undisturbed, QueueIntact
<1> QED BY <1>1, <1>2, <1>3, <1>4, <1>5, <1>6, <1>7 DEF Next

(***************************************************************************)
(* What a step may not do                                                  *)
(***************************************************************************)
\* Which functions change what.
LEMMA EffectTargets ==
    ASSUME NEW op \in Requests, Effect(op)
    PROVE  /\ <<bal, fb, configVars>>' # <<bal, fb, configVars>> =>
                 op.fn \in SlowFns
           /\ venues' # venues => op.fn \in ListingFns
           /\ paused /\ ~paused' => op.fn = "unpause"
           /\ gateVars' # gateVars =>
                 \/ op.fn \in RegatingFns
                 \/ op.fn = "configureRouter" /\ configuredAt = None
           /\ <<members, adminDelay, roleAdmin>>' # <<members, adminDelay, roleAdmin>> =>
                 op.fn \in ManagerFns
<1>1. CASE OnRouterState(op)
  BY <1>1 DEF OnRouterState, configVars, policyVars, roleVars, gateVars,
              delayVars, Pause, Unpause, AddVenue, RemoveVenue,
              SetFallbackSwapRouter, RescueTokens, SlowFns, ListingFns
<1>2. CASE OnConfiguration(op)
  BY <1>2 DEF OnConfiguration, configVars, policyVars, roleVars, gateVars,
              delayVars, stateVars, SlowFns
<1>3. CASE OnPolicy(op)
  <2>1. UNCHANGED <<stateVars, configVars>>
    BY <1>3 DEF OnPolicy
  <2>2. CASE op.fn = "configureRouter" /\ Configure
    <3>1. configuredAt = None /\ op.fn \in ManagerFns
      BY <2>2, Fns DEF Configure
    <3> QED BY <2>1, <2>2, <3>1 DEF configVars, stateVars
  <2>3. CASE op.fn = "setTargetAdminDelay" /\ SetTargetAdminDelay(op.args[1])
    BY <2>1, <2>3, Fns DEF SetTargetAdminDelay, configVars, stateVars
  <2>4. CASE OnRoles(op)
    BY <2>1, <2>4, Fns DEF OnRoles, configVars, stateVars
  <2>5. CASE OnGates(op)
    BY <2>1, <2>5, Fns DEF OnGates, configVars, stateVars, roleVars, delayVars,
                           RegatingFns
  <2> QED BY <1>3, <2>2, <2>3, <2>4, <2>5 DEF OnPolicy
<1> QED BY <1>1, <1>2, <1>3 DEF Effect

\* A step that is not a call changes nothing but the clock, the queue and who
\* is left in a role.
LEMMA OtherSteps ==
    ASSUME [Next]_vars, ~ \E op \in Requests : CallNow(op) \/ Execute(op)
    PROVE  /\ UNCHANGED <<stateVars, configVars, gateVars, adminDelay, roleAdmin>>
           /\ members' # members =>
                 \E role \in Roles, o \in Officers :
                    members' = [members EXCEPT ![role] = @ \ {o}]
<1>1. CASE \E op \in Requests, later \in Slack : Schedule(op, later)
  BY <1>1 DEF Schedule, policyVars, roleVars, delayVars
<1>2. CASE \E op \in Requests, by \in Officers : Cancel(op, by)
  BY <1>2 DEF Cancel, policyVars, roleVars, delayVars
<1>3. CASE \E held \in Renounceable : Renounce(held[1], held[2])
  BY <1>3, RenouncedByHolders DEF Renounce, delayVars
<1>4. CASE \E d \in Advances : AdvanceTime(d)
  BY <1>4 DEF AdvanceTime, policyVars, roleVars, delayVars
<1>5. CASE UNCHANGED vars
  BY <1>5 DEF vars, policyVars, roleVars, delayVars
<1> QED BY <1>1, <1>2, <1>3, <1>4, <1>5 DEF Next

LEMMA NoticeStep ==
    ASSUME HandoffCovers, IInv, [Next]_vars, AsDeployed
    PROVE  /\ <<bal, fb, configVars>>' # <<bal, fb, configVars>> =>
                 Announced(SlowFns, UPGRADE_DELAY)
           /\ venues' # venues => Announced(ListingFns, LISTING_DELAY)
           /\ paused /\ ~paused' => Announced({"unpause"}, RESUME_DELAY)
<1>1. ASSUME NEW op \in Requests, CallNow(op)
      PROVE  op.fn \notin SlowFns \cup ListingFns \cup {"unpause"}
  BY <1>1, RouterSetback DEF CallNow
<1>2. ASSUME NEW op \in Requests, Execute(op), op.fn \in RouterFns
      PROVE  /\ readyAt[op] # None /\ readyAt'[op] = None
             /\ queuedAt[op] + NoticeOf(op.fn) <= now
  <2>1. /\ readyAt[op] # None /\ readyAt[op] <= now
        /\ readyAt' = [readyAt EXCEPT ![op] = None]
    BY <1>2 DEF Execute, Dequeue
  <2>2. readyAt[op] \in Nat /\ queuedAt[op] \in Nat /\ now \in Nat
    BY <2>1 DEF IInv, PolicyTypeOK
  <2>3. queuedAt[op] + NoticeOf(op.fn) <= readyAt[op]
    BY <1>2, <2>1 DEF IInv, QueueIntact, AsDeployed
  <2>4. NoticeOf(op.fn) \in Nat
    BY Durations DEF NoticeOf
  <2> QED BY <2>1, <2>2, <2>3, <2>4 DEF IInv, PolicyTypeOK
<1>3. CASE \E op \in Requests : CallNow(op)
  <2>1. PICK op \in Requests : CallNow(op)
    BY <1>3
  <2>2. Effect(op) /\ op.fn \notin SlowFns \cup ListingFns \cup {"unpause"}
    BY <1>1, <2>1 DEF CallNow
  <2> QED BY <2>2, EffectTargets
<1>4. CASE \E op \in Requests : Execute(op)
  <2>1. PICK op \in Requests : Execute(op)
    BY <1>4
  <2>2. Effect(op)
    BY <2>1 DEF Execute
  <2>3. ASSUME op.fn \in SlowFns PROVE Announced(SlowFns, UPGRADE_DELAY)
    BY <1>2, <2>1, <2>3, Fns DEF Announced, NoticeOf
  <2>4. ASSUME op.fn \in ListingFns PROVE Announced(ListingFns, LISTING_DELAY)
    BY <1>2, <2>1, <2>4, Fns DEF Announced, NoticeOf
  <2>5. ASSUME op.fn = "unpause" PROVE Announced({"unpause"}, RESUME_DELAY)
    BY <1>2, <2>1, <2>5, Fns DEF Announced, NoticeOf
  <2> QED BY <2>2, <2>3, <2>4, <2>5, EffectTargets
<1>5. CASE ~ \E op \in Requests : CallNow(op) \/ Execute(op)
  BY <1>5, OtherSteps DEF stateVars
<1> QED BY <1>3, <1>4, <1>5

LEMMA RegatingStep ==
    ASSUME IInv, [Next]_vars, PhasedIn, gateVars' # gateVars
    PROVE  \/ Announced(RegatingFns, ADMIN_DELAY)
           \/ \E op \in Requests :
                 /\ op.fn \in RegatingFns
                 /\ readyAt[op] # None /\ readyAt'[op] = None
                 /\ queuedAt[op] < configuredAt + MIN_SETBACK
           \/ resetAt # None /\ resetAt + ADMIN_DELAY <= now
<1>1. Undisturbed /\ now >= configuredAt + MIN_SETBACK /\ configuredAt # None
  BY DEF PhasedIn, Undisturbed
<1>2. /\ now \in Nat /\ configuredAt \in Nat /\ resetAt \in Nat \cup {None}
      /\ ADMIN_DELAY \in Nat /\ ADMIN_DELAY > 0 /\ MIN_SETBACK \in Nat
  BY <1>1, Durations, DelaysArePositive DEF IInv, PolicyTypeOK
<1>3. ASSUME NEW op \in Requests, CallNow(op)
      PROVE  resetAt # None /\ resetAt + ADMIN_DELAY <= now
  <2>1. op.fn \in RegatingFns /\ Setback(op) = 0
    BY <1>1, <1>3, EffectTargets DEF CallNow
  <2>2. \/ Setback(op) >= ADMIN_DELAY
        \/ resetAt # None /\ now + Setback(op) >= resetAt + ADMIN_DELAY
    BY <1>1, <2>1, RegatingSetback
  <2> QED BY <1>2, <2>1, <2>2
<1>4. ASSUME NEW op \in Requests, Execute(op),
             queuedAt[op] >= configuredAt + MIN_SETBACK
      PROVE  \/ Announced(RegatingFns, ADMIN_DELAY)
             \/ resetAt # None /\ resetAt + ADMIN_DELAY <= now
  <2>1. /\ op.fn \in RegatingFns
        /\ readyAt[op] # None /\ readyAt[op] <= now
        /\ readyAt' = [readyAt EXCEPT ![op] = None]
    BY <1>1, <1>4, EffectTargets DEF Execute, Dequeue
  <2>2. readyAt[op] \in Nat /\ queuedAt[op] \in Nat /\ readyAt'[op] = None
    BY <2>1 DEF IInv, PolicyTypeOK
  <2>3. \/ queuedAt[op] + ADMIN_DELAY <= readyAt[op]
        \/ resetAt # None /\ resetAt + ADMIN_DELAY <= readyAt[op]
    BY <1>1, <1>4, <2>1 DEF IInv, QueueIntact
  <2>4. CASE queuedAt[op] + ADMIN_DELAY <= readyAt[op]
    <3>1. queuedAt[op] + ADMIN_DELAY <= now
      BY <1>2, <2>1, <2>2, <2>4
    <3> QED BY <2>1, <2>2, <3>1 DEF Announced
  <2>5. CASE resetAt # None /\ resetAt + ADMIN_DELAY <= readyAt[op]
    BY <1>2, <2>1, <2>2, <2>5
  <2> QED BY <2>3, <2>4, <2>5
<1>5. ASSUME NEW op \in Requests, Execute(op),
             ~(queuedAt[op] >= configuredAt + MIN_SETBACK)
      PROVE  /\ op.fn \in RegatingFns
             /\ readyAt[op] # None /\ readyAt'[op] = None
             /\ queuedAt[op] < configuredAt + MIN_SETBACK
  <2>1. /\ op.fn \in RegatingFns /\ readyAt[op] # None
        /\ readyAt' = [readyAt EXCEPT ![op] = None]
    BY <1>1, <1>5, EffectTargets DEF Execute, Dequeue
  <2>2. queuedAt[op] \in Nat /\ readyAt'[op] = None
    BY <2>1 DEF IInv, PolicyTypeOK
  <2> QED BY <1>2, <1>5, <2>1, <2>2
<1>6. CASE ~ \E op \in Requests : CallNow(op) \/ Execute(op)
  BY <1>6, OtherSteps
<1> QED BY <1>3, <1>4, <1>5, <1>6

LEMMA PowerStep ==
    ASSUME ADMIN_EXEC_DELAY > 0, IInv, [Next]_vars,
           Bootstrap \notin members[ADMIN_ROLE], AsDeployed,
           \/ <<gateVars, adminDelay, roleAdmin>>' # <<gateVars, adminDelay, roleAdmin>>
           \/ \E role \in Roles : ~(members'[role] \subseteq members[role])
    PROVE  Announced(ManagerFns, ADMIN_EXEC_DELAY)
<1>1. "roles" \notin amended /\ configuredAt # None
  BY DEF AsDeployed
<1>2. ASSUME NEW op \in Requests, Entitled(op), Effect(op)
      PROVE  /\ op.fn \in ManagerFns /\ op.by # Bootstrap
             /\ Setback(op) > 0
  <2>1. op.fn \in ManagerFns
    <3>1. \/ gateVars' # gateVars
          \/ <<members, adminDelay, roleAdmin>>' # <<members, adminDelay, roleAdmin>>
      OBVIOUS
    <3> QED BY <1>1, <1>2, <3>1, EffectTargets, Fns
  <2>2. RoleOf(op) = ADMIN_ROLE
    BY <1>1, <2>1, SetbackFacts DEF IInv
  <2>3. op.by # Bootstrap
    BY <1>2, <2>2 DEF Entitled
  <2>4. Setback(op) >= ADMIN_EXEC_DELAY /\ Setback(op) \in Nat
    BY <1>1, <1>2, <2>2, <2>3, AdminSetback, SetbackFacts DEF IInv
  <2> QED BY <2>1, <2>3, <2>4, Durations
<1>3. ASSUME NEW op \in Requests, CallNow(op) PROVE FALSE
  BY <1>2, <1>3 DEF CallNow
<1>4. ASSUME NEW op \in Requests, Execute(op)
      PROVE  Announced(ManagerFns, ADMIN_EXEC_DELAY)
  <2>1. /\ op.fn \in ManagerFns /\ op.by # Bootstrap
        /\ readyAt[op] # None /\ readyAt[op] <= now
        /\ readyAt' = [readyAt EXCEPT ![op] = None]
    BY <1>2, <1>4 DEF Execute, Dequeue
  <2>2. readyAt[op] \in Nat /\ queuedAt[op] \in Nat /\ now \in Nat
    BY <2>1 DEF IInv, PolicyTypeOK
  <2>3. queuedAt[op] + ADMIN_EXEC_DELAY <= readyAt[op]
    BY <1>1, <2>1 DEF IInv, QueueIntact
  <2>4. queuedAt[op] + ADMIN_EXEC_DELAY <= now /\ readyAt'[op] = None
    BY <2>1, <2>2, <2>3, Durations DEF IInv, PolicyTypeOK
  <2> QED BY <2>1, <2>4 DEF Announced
<1>5. CASE ~ \E op \in Requests : CallNow(op) \/ Execute(op)
  <2>1. /\ UNCHANGED <<gateVars, adminDelay, roleAdmin>>
        /\ members' # members =>
              \E role \in Roles, o \in Officers :
                 members' = [members EXCEPT ![role] = @ \ {o}]
    BY <1>5, OtherSteps
  <2>2. \A role \in Roles : members'[role] \subseteq members[role]
    BY <2>1 DEF IInv, PolicyTypeOK
  <2> QED BY <2>1, <2>2
<1> QED BY <1>3, <1>4, <1>5

(***************************************************************************)
(* The theorems                                                            *)
(***************************************************************************)
\* The inductive invariant holds throughout every behaviour.
THEOREM Invariance == Spec => []IInv
  BY InitIInv, NextPreserves, PTL DEF Spec

\* Roles, delays, fees and the queue of the manager have their types, whatever
\* officers call.
THEOREM TypeCorrect == Spec => []PolicyTypeOK
<1>1. IInv => PolicyTypeOK
  BY DEF IInv
<1> QED BY <1>1, Invariance, PTL

\* setFallbackFee, setPairFee and setPairFees never leave a pair without a pool
\* tier: zero clears an override and the fallback fee is never zero.
THEOREM FallbackIsPriced == Spec => []FallbackAlwaysPriced
<1>1. IInv => FallbackAlwaysPriced
  <2> SUFFICES ASSUME IInv, NEW a \in Tokens, NEW b \in Tokens
               PROVE  ResolvedFee(a, b) \in 1 .. FEE_LIMIT - 1
    BY DEF FallbackAlwaysPriced
  <2>1. PairKey(a, b) \in Pairs
    BY DEF Pairs
  <2>2. /\ pairFee[PairKey(a, b)] \in Fees
        /\ fallbackFee \in 1 .. FEE_LIMIT - 1
    BY <2>1 DEF IInv, PolicyTypeOK
  <2> QED BY <2>2, Durations DEF ResolvedFee, Fees
<1> QED BY <1>1, Invariance, PTL

\* The delays of RouterAccessManager are kept: nothing about the router changes
\* without the notice of its role, whatever was scheduled before configureRouter
\* and whoever holds several roles, when governance is granted with a delay no
\* shorter than theirs (7 days in the deployment script).
THEOREM NoticeIsGiven == ASSUME HandoffCovers PROVE Spec => NoticeGiven
<1>1. IInv /\ [Next]_vars =>
         (AsDeployed =>
            /\ <<bal, fb, configVars>>' # <<bal, fb, configVars>> =>
                  Announced(SlowFns, UPGRADE_DELAY)
            /\ venues' # venues => Announced(ListingFns, LISTING_DELAY)
            /\ paused /\ ~paused' => Announced({"unpause"}, RESUME_DELAY))
  BY NoticeStep
<1> QED BY <1>1, Invariance, PTL DEF Spec, NoticeGiven

\* configureRouter's one-shot guard and the target admin delay hold together:
\* once that delay has phased in nothing about the gates of the router is sudden,
\* whatever delays governance was granted with and however setTargetAdminDelay
\* is used afterwards.
THEOREM RegatingIsAnnounced == Spec => RegatingAnnounced
<1>1. IInv /\ [Next]_vars =>
         (PhasedIn /\ gateVars' # gateVars
          => \/ Announced(RegatingFns, ADMIN_DELAY)
             \/ \E op \in Requests :
                   /\ op.fn \in RegatingFns
                   /\ readyAt[op] # None /\ readyAt'[op] = None
                   /\ queuedAt[op] < configuredAt + MIN_SETBACK
             \/ resetAt # None /\ resetAt + ADMIN_DELAY <= now)
  BY RegatingStep
<1> QED BY <1>1, Invariance, PTL DEF Spec, RegatingAnnounced

\* After the handoff of Deploy.s.sol and the bootstrap admin's renunciation all
\* power over the policy is governance's, and it uses it in the open.
THEOREM PowerIsAnnounced ==
    ASSUME ADMIN_EXEC_DELAY > 0 PROVE Spec => PowerAnnounced
<1>1. IInv /\ [Next]_vars =>
         (/\ Bootstrap \notin members[ADMIN_ROLE]
          /\ AsDeployed
          /\ \/ <<gateVars, adminDelay, roleAdmin>>' # <<gateVars, adminDelay, roleAdmin>>
             \/ \E role \in Roles : ~(members'[role] \subseteq members[role])
          => Announced(ManagerFns, ADMIN_EXEC_DELAY))
  BY PowerStep
<1> QED BY <1>1, Invariance, PTL DEF Spec, PowerAnnounced
=============================================================================
