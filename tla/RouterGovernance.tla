-------------------------- MODULE RouterGovernance --------------------------
(***************************************************************************)
(* Who may administer the router and how soon: the policy codified in      *)
(* src/src/RouterAccessManager.sol, the handoff of src/scripts/            *)
(* Deploy.s.sol, and every restricted entrypoint of src/src/               *)
(* PropAMMRouter.sol.                                                      *)
(*                                                                         *)
(* The OpenZeppelin AccessManager underneath is modelled from how the      *)
(* repository uses it.  A call is identified by the caller, the function   *)
(* and its arguments; a caller whose delay is not zero schedules it and    *)
(* makes it later, within a window.  Of what an admin may call on the      *)
(* manager, labelRole, setRoleGuardian and setGrantDelay are left out, and *)
(* so are calls aimed at the manager itself as a target.                   *)
(***************************************************************************)
EXTENDS RouterState, SequencesExt

CONSTANTS
    Officers,       \* the accounts that may hold a role
    Bootstrap, Governance, Upgrader, Guardian, Resumer, Lister,
    UPGRADE_DELAY, RESUME_DELAY, LISTING_DELAY, ADMIN_DELAY,
    ADMIN_EXEC_DELAY,   \* the delay the script grants Governance with
    EXPIRATION,         \* how long a ready call can be made
    MIN_SETBACK,        \* how long a target admin delay takes to phase in
    FEE_LIMIT,          \* 1_000_000 in the code
    DefaultFee,         \* the fallbackFee of initialize
    SeededFees,         \* the pair fees of initialize
    Deployment,         \* the implementation the proxy starts with
    Upgrades,           \* the implementations it may be upgraded to
    Quoters,            \* fallbackQuoter addresses
    Opening,            \* the balances to start with
    Requests,           \* the calls officers may make
    Renounceable,       \* the roles that holders may renounce, <<role, holder>>
    Slack,              \* how much later than allowed a call is scheduled for
    Advances, MaxTime   \* the steps the clock takes, and its bound

ADMIN_ROLE == 0
UPGRADER_ROLE == 1
GUARDIAN_ROLE == 2
RESUMER_ROLE == 3
LISTING_ROLE == 4
Roles == 0 .. 4

SlowFns == {"upgradeToAndCall", "setFallbackSwapRouter", "setFallbackQuoter",
            "setFallbackFee", "setPairFee", "setPairFees", "rescueTokens"}
ListingFns == {"addVenue", "removeVenue"}
RouterFns == SlowFns \cup ListingFns \cup {"pause", "unpause"}
\* Of an admin, after the target admin delay of the router.
RegatingFns == {"setTargetFunctionRole", "setTargetClosed", "updateAuthority"}
\* Of an admin, or of whoever administers the role granted and revoked.
ManagerFns == RegatingFns \cup {"configureRouter", "setTargetAdminDelay",
                                "setRoleAdmin", "grantRole", "revokeRole"}

\* A pair of tokens, in either order.
PairKey(a, b) == {a, b}
Pairs == {PairKey(a, b) : a, b \in Tokens}

ASSUME Durations ==
    {UPGRADE_DELAY, RESUME_DELAY, LISTING_DELAY, ADMIN_DELAY, ADMIN_EXEC_DELAY,
     EXPIRATION, MIN_SETBACK, FEE_LIMIT, MaxTime} \subseteq Nat
ASSUME DelaysArePositive ==
    \A d \in {UPGRADE_DELAY, RESUME_DELAY, LISTING_DELAY, ADMIN_DELAY,
             MIN_SETBACK} : d > 0
ASSUME StepsOfTime == Slack \subseteq Nat /\ Advances \subseteq Nat \ {0}
ASSUME Holders ==
    {Bootstrap, Governance, Upgrader, Guardian, Resumer, Lister} \subseteq Officers
ASSUME CallsOfOfficers ==
    \A op \in Requests : op.by \in Officers /\ op.fn \in RouterFns \cup ManagerFns
ASSUME ArgumentsOfCalls ==
    \A op \in Requests :
       /\ op.fn = "setFallbackFee" => op.args[1] \in Nat
       /\ op.fn = "setPairFee" => op.args \in Tokens \X Tokens \X Nat
       /\ op.fn = "setPairFees" => op.args \in Seq(Tokens \X Tokens \X Nat)
       /\ op.fn = "grantRole" => op.args \in Roles \X Officers \X Nat
       /\ op.fn = "revokeRole" => op.args \in Roles \X Officers
       /\ op.fn = "setTargetFunctionRole" => op.args \in Roles \X RouterFns
       /\ op.fn = "setTargetClosed" => op.args[1] \in BOOLEAN
       /\ op.fn = "setTargetAdminDelay" => op.args[1] \in Nat
       /\ op.fn = "setRoleAdmin" => op.args \in (Roles \ {ADMIN_ROLE}) \X Roles
ASSUME RenouncedByHolders == Renounceable \subseteq Roles \X Officers
ASSUME NoneIsNoTime == None \notin Nat
ASSUME FeesOfInitialize ==
    /\ DefaultFee \in 1 .. FEE_LIMIT - 1
    /\ SeededFees \in [Pairs -> 0 .. FEE_LIMIT - 1]

VARIABLES
    now,            \* block.timestamp
    quoter,         \* fallbackQuoter
    fallbackFee,
    pairFee,        \* _pairFee: zero is unset
    impl,           \* the implementation behind the proxy
    members,        \* the holders of each role
    terms,          \* the execution delay of each holder, present and to come
    roleAdmin,      \* the role whose holders grant and revoke each role
    fnRole,         \* the role each function of the router is mapped to
    closed,         \* the router takes no restricted call at all
    inCharge,       \* the router's authority is this manager
    adminDelay,     \* the target admin delay of the router
    configuredAt,   \* when configureRouter ran
    readyAt,        \* when each scheduled call may be made; None: not scheduled
    queuedAt,       \* when it was scheduled
    \* History, which no action reads.
    resetAt,        \* when setTargetAdminDelay was first called after that
    amended         \* what was changed of the policy deployed

configVars == <<quoter, fallbackFee, pairFee, impl>>
roleVars == <<members, terms, roleAdmin>>
gateVars == <<fnRole, closed, inCharge>>
delayVars == <<adminDelay, configuredAt, resetAt>>
policyVars == <<roleVars, gateVars, delayVars, amended>>
queueVars == <<readyAt, queuedAt>>
vars == <<stateVars, now, configVars, policyVars, queueVars>>

\* A delay that is changed later on: OpenZeppelin's Time.Delay.
Agreed(d) == [was |-> d, is |-> d, from |-> 0]
InForce(delay) == IF now < delay.from THEN delay.was ELSE delay.is

\* A change takes the least setback, and a lower delay the difference too.
Updated(delay, d, least) ==
    LET present == InForce(delay)
        setback == IF d < present /\ least < present - d THEN present - d ELSE least
    IN  IF setback = 0 THEN Agreed(d)
                       ELSE [was |-> present, is |-> d, from |-> now + setback]

(***************************************************************************)
(* The policy                                                              *)
(***************************************************************************)
\* Mutant of Wiring: rescues are the lister's, and resuming the guardian's.
SlackWiring == [fn \in RouterFns |->
    CASE fn = "rescueTokens" -> LISTING_ROLE
      [] fn \in SlowFns \ {"rescueTokens"} -> UPGRADER_ROLE
      [] fn \in {"pause", "unpause"} -> GUARDIAN_ROLE
      [] fn \in ListingFns -> LISTING_ROLE]

\* What configureRouter maps each function to.
Wiring == [fn \in RouterFns |->
    CASE fn \in SlowFns    -> UPGRADER_ROLE
      [] fn = "pause"      -> GUARDIAN_ROLE
      [] fn = "unpause"    -> RESUMER_ROLE
      [] fn \in ListingFns -> LISTING_ROLE]

\* Before configureRouter a function of the router is the admin's.
RoleOf(op) ==
    CASE op.fn \in RouterFns -> fnRole[op.fn]
      [] op.fn \in {"grantRole", "revokeRole"} -> roleAdmin[op.args[1]]
      [] OTHER -> ADMIN_ROLE

DelayOf(role, o) == InForce(terms[role][o])

Entitled(op) ==
    /\ op.by \in members[RoleOf(op)]
    /\ op.fn \in RouterFns => ~closed

\* Mutant of Setback: the manager's own functions are not delayed.
SetbackOnRouter(op) ==
    IF op.fn \in RouterFns THEN DelayOf(RoleOf(op), op.by) ELSE 0

\* What an entitled caller has to wait.  The target admin delay of the router is
\* for changes of its gates, and not for setTargetAdminDelay.
Setback(op) ==
    LET own == DelayOf(RoleOf(op), op.by)
    IN  IF op.fn \in RegatingFns /\ InForce(adminDelay) > own
        THEN InForce(adminDelay) ELSE own

(***************************************************************************)
(* What each call does.  A call whose checks fail reverts: no step.        *)
(***************************************************************************)
OnRouterState(op) ==
    /\ UNCHANGED <<configVars, policyVars>>
    /\ \/ op.fn = "pause" /\ Pause
       \/ op.fn = "unpause" /\ Unpause
       \/ op.fn = "addVenue" /\ AddVenue(op.args[1])
       \/ op.fn = "removeVenue" /\ RemoveVenue(op.args[1])
       \/ op.fn = "setFallbackSwapRouter" /\ SetFallbackSwapRouter(op.args[1])
       \/ /\ op.fn = "rescueTokens"
          /\ RescueTokens(op.args[1], op.args[2], op.args[3])

\* Mutant of ValidFallbackFee: a fee of zero is taken for "unset".
FeeBelowLimit(fee) == fee < FEE_LIMIT

ValidFallbackFee(fee) == fee # 0 /\ fee < FEE_LIMIT

\* One entry <<tokenA, tokenB, fee>> of setPairFees; zero clears the override.
SetPairFee(fees, entry) == [fees EXCEPT ![PairKey(entry[1], entry[2])] = entry[3]]

\* resolvedFee: the Uniswap pool tier the fallback uses for a pair.
ResolvedFee(a, b) ==
    IF pairFee[PairKey(a, b)] = 0 THEN fallbackFee ELSE pairFee[PairKey(a, b)]

OnConfiguration(op) ==
    /\ UNCHANGED <<stateVars, policyVars>>
    /\ \/ /\ op.fn = "setFallbackQuoter"
          /\ quoter' = op.args[1]
          /\ UNCHANGED <<fallbackFee, pairFee, impl>>
       \/ /\ op.fn = "setFallbackFee"
          /\ ValidFallbackFee(op.args[1])
          /\ fallbackFee' = op.args[1]
          /\ UNCHANGED <<quoter, pairFee, impl>>
       \/ /\ op.fn = "setPairFee"
          /\ op.args[3] < FEE_LIMIT
          /\ pairFee' = SetPairFee(pairFee, op.args)
          /\ UNCHANGED <<quoter, fallbackFee, impl>>
       \/ /\ op.fn = "setPairFees"
          /\ \A i \in DOMAIN op.args : op.args[i][3] < FEE_LIMIT
          /\ pairFee' = FoldLeft(SetPairFee, pairFee, op.args)
          /\ UNCHANGED <<quoter, fallbackFee, impl>>
       \/ /\ op.fn = "upgradeToAndCall"
          /\ impl' = op.args[1]
          /\ UNCHANGED <<quoter, fallbackFee, pairFee>>

\* Mutant of Configure: nothing keeps it from running again.
ConfigureAgain ==
    /\ fnRole' = Wiring
    /\ adminDelay' = Updated(adminDelay, ADMIN_DELAY, MIN_SETBACK)
    /\ configuredAt' = now
    /\ UNCHANGED <<roleVars, closed, inCharge, resetAt, amended>>

Configure ==
    /\ configuredAt = None
    /\ fnRole' = Wiring
    /\ adminDelay' = Updated(adminDelay, ADMIN_DELAY, MIN_SETBACK)
    /\ configuredAt' = now
    /\ UNCHANGED <<roleVars, closed, inCharge, resetAt, amended>>

\* A new holder is bound by the delay at once; a present one sees it lowered
\* only after the difference has passed.
GrantRole(role, o, d) ==
    /\ members' = [members EXCEPT ![role] = @ \cup {o}]
    /\ terms' = [terms EXCEPT ![role][o] =
                    IF o \in members[role] THEN Updated(@, d, 0) ELSE Agreed(d)]

\* _handoff: governance becomes an admin.
IsHandoff(op) ==
    op.fn = "grantRole" /\ op.args = <<ADMIN_ROLE, Governance, ADMIN_EXEC_DELAY>>

RevokeRole(role, o) ==
    /\ o \in members[role]
    /\ members' = [members EXCEPT ![role] = @ \ {o}]
    /\ terms' = [terms EXCEPT ![role][o] = Agreed(0)]

OnRoles(op) ==
    /\ UNCHANGED <<gateVars, delayVars>>
    /\ amended' = IF IsHandoff(op) THEN amended ELSE amended \cup {"roles"}
    /\ \/ /\ op.fn = "grantRole"
          /\ GrantRole(op.args[1], op.args[2], op.args[3])
          /\ UNCHANGED roleAdmin
       \/ /\ op.fn = "revokeRole"
          /\ RevokeRole(op.args[1], op.args[2])
          /\ UNCHANGED roleAdmin
       \/ /\ op.fn = "setRoleAdmin"
          /\ roleAdmin' = [roleAdmin EXCEPT ![op.args[1]] = op.args[2]]
          /\ UNCHANGED <<members, terms>>

\* A closed router refuses every restricted call, and one that has another
\* authority answers to that.
OnGates(op) ==
    /\ UNCHANGED <<roleVars, delayVars>>
    /\ amended' = amended \cup {"gates"}
    /\ \/ /\ op.fn = "setTargetFunctionRole"
          /\ fnRole' = [fnRole EXCEPT ![op.args[2]] = op.args[1]]
          /\ UNCHANGED <<closed, inCharge>>
       \/ /\ op.fn = "setTargetClosed"
          /\ closed' = op.args[1]
          /\ UNCHANGED <<fnRole, inCharge>>
       \/ /\ op.fn = "updateAuthority"
          /\ inCharge
          /\ inCharge' = FALSE
          /\ UNCHANGED <<fnRole, closed>>

SetTargetAdminDelay(d) ==
    /\ adminDelay' = Updated(adminDelay, d, MIN_SETBACK)
    /\ resetAt' = IF configuredAt # None /\ resetAt = None THEN now ELSE resetAt
    /\ UNCHANGED <<roleVars, gateVars, configuredAt, amended>>

OnPolicy(op) ==
    /\ UNCHANGED <<stateVars, configVars>>
    /\ \/ op.fn = "configureRouter" /\ Configure
       \/ op.fn = "setTargetAdminDelay" /\ SetTargetAdminDelay(op.args[1])
       \/ OnRoles(op)
       \/ OnGates(op)

\* Calls of the router are made on one that this manager is the authority of.
Effect(op) ==
    \/ inCharge /\ (OnRouterState(op) \/ OnConfiguration(op))
    \/ OnPolicy(op)

(***************************************************************************)
(* Making calls                                                            *)
(***************************************************************************)
Expired(op) == readyAt[op] # None /\ readyAt[op] + EXPIRATION <= now

Dequeue(op) ==
    /\ readyAt' = [readyAt EXCEPT ![op] = None]
    /\ queuedAt' = [queuedAt EXCEPT ![op] = 0]

\* A caller without a delay calls directly.
CallNow(op) ==
    /\ Entitled(op)
    /\ Setback(op) = 0
    /\ Effect(op)
    /\ UNCHANGED <<now, queueVars>>

\* Any other schedules, once at a time.
Schedule(op, later) ==
    /\ Entitled(op)
    /\ Setback(op) > 0
    /\ readyAt[op] = None \/ Expired(op)
    /\ readyAt' = [readyAt EXCEPT ![op] = now + Setback(op) + later]
    /\ queuedAt' = [queuedAt EXCEPT ![op] = now]
    /\ UNCHANGED <<stateVars, now, configVars, policyVars>>

\* A scheduled call is made when it is ready and not expired; the caller must
\* still be entitled.  It has to be scheduled again for another time.
Execute(op) ==
    /\ Entitled(op)
    /\ readyAt[op] # None
    /\ readyAt[op] <= now
    /\ ~Expired(op)
    /\ Effect(op)
    /\ Dequeue(op)
    /\ UNCHANGED now

\* The caller or an admin cancels.
Cancel(op, by) ==
    /\ readyAt[op] # None
    /\ by = op.by \/ by \in members[ADMIN_ROLE]
    /\ Dequeue(op)
    /\ UNCHANGED <<stateVars, now, configVars, policyVars>>

Renounce(role, o) ==
    /\ o \in members[role]
    /\ members' = [members EXCEPT ![role] = @ \ {o}]
    /\ terms' = [terms EXCEPT ![role][o] = Agreed(0)]
    /\ UNCHANGED <<stateVars, now, configVars, roleAdmin, gateVars, delayVars,
                   amended, queueVars>>

AdvanceTime(d) ==
    /\ now + d <= MaxTime
    /\ now' = now + d
    /\ UNCHANGED <<stateVars, configVars, policyVars, queueVars>>

(***************************************************************************)
(* Specification                                                           *)
(***************************************************************************)
\* What the constructor grants.
Granted == [role \in Roles |->
    CASE role = ADMIN_ROLE    -> {Bootstrap}
      [] role = UPGRADER_ROLE -> {Upgrader}
      [] role = GUARDIAN_ROLE -> {Guardian}
      [] role = RESUMER_ROLE  -> {Resumer}
      [] role = LISTING_ROLE  -> {Lister}]

GrantedTerms == [role \in Roles |-> [o \in Officers |->
    CASE role = UPGRADER_ROLE /\ o = Upgrader -> Agreed(UPGRADE_DELAY)
      [] role = RESUMER_ROLE /\ o = Resumer   -> Agreed(RESUME_DELAY)
      [] role = LISTING_ROLE /\ o = Lister    -> Agreed(LISTING_DELAY)
      [] OTHER -> Agreed(0)]]

Init ==
    /\ bal = Opening
    /\ allow = NoAllowance
    /\ venues = <<>>
    /\ fb \in Fallbacks
    /\ paused = FALSE
    /\ now = 0
    /\ quoter \in Quoters
    /\ fallbackFee = DefaultFee
    /\ pairFee = SeededFees
    /\ impl = Deployment
    /\ members = Granted
    /\ terms = GrantedTerms
    /\ roleAdmin = [role \in Roles |-> ADMIN_ROLE]
    /\ fnRole = [fn \in RouterFns |-> ADMIN_ROLE]
    /\ closed = FALSE
    /\ inCharge = TRUE
    /\ adminDelay = Agreed(0)
    /\ configuredAt = None
    /\ resetAt = None
    /\ readyAt = [op \in Requests |-> None]
    /\ queuedAt = [op \in Requests |-> 0]
    /\ amended = {}

Next ==
    \/ \E op \in Requests : CallNow(op)
    \/ \E op \in Requests, later \in Slack : Schedule(op, later)
    \/ \E op \in Requests : Execute(op)
    \/ \E op \in Requests, by \in Officers : Cancel(op, by)
    \/ \E held \in Renounceable : Renounce(held[1], held[2])
    \/ \E d \in Advances : AdvanceTime(d)

Spec == Init /\ [][Next]_vars

(***************************************************************************)
(* Properties                                                              *)
(***************************************************************************)
\* The step makes a call to one of fns that has stood in the queue, for all to
\* see, for the notice or longer.
Announced(fns, notice) ==
    \E op \in Requests :
       /\ op.fn \in fns
       /\ readyAt[op] # None /\ readyAt'[op] = None
       /\ queuedAt[op] + notice <= now

\* The policy is the one the deployment script leaves behind.
AsDeployed == configuredAt # None /\ amended = {}

\* Nothing about the router changes unannounced: upgrades, fallback, fees and
\* rescues take UPGRADE_DELAY, listings LISTING_DELAY and resuming
\* RESUME_DELAY, even when officers hold several roles, cancel and schedule
\* again, and even while the bootstrap admin is still around.
NoticeGiven ==
    [][AsDeployed =>
         /\ <<bal, fb, configVars>>' # <<bal, fb, configVars>> =>
               Announced(SlowFns, UPGRADE_DELAY)
         /\ venues' # venues => Announced(ListingFns, LISTING_DELAY)
         /\ paused /\ ~paused' => Announced({"unpause"}, RESUME_DELAY)]_vars

\* ADMIN_DELAY has phased in, and nobody reset it while it did.
PhasedIn ==
    /\ configuredAt # None /\ now >= configuredAt + MIN_SETBACK
    /\ resetAt = None \/ resetAt >= configuredAt + MIN_SETBACK

\* Once ADMIN_DELAY has phased in nobody remaps a function of the router, closes
\* it or hands it to another authority, the bootstrap admin with no delay
\* included, unless there was a sign of it on the chain: that very call was put
\* in the queue ADMIN_DELAY before, or while the delay was still phasing in, or
\* setTargetAdminDelay was called ADMIN_DELAY before.  Neither configureRouter
\* nor lowering the delay, in whatever steps, gets around it any sooner.
RegatingAnnounced ==
    [][PhasedIn /\ gateVars' # gateVars
       => \/ Announced(RegatingFns, ADMIN_DELAY)
          \/ \E op \in Requests :
                /\ op.fn \in RegatingFns
                /\ readyAt[op] # None /\ readyAt'[op] = None
                /\ queuedAt[op] < configuredAt + MIN_SETBACK
          \/ resetAt # None /\ resetAt + ADMIN_DELAY <= now]_vars

\* What src/docs/access-manager.md says of setTargetAdminDelay, that it goes
\* through the target admin delay as setTargetFunctionRole does.  It does not:
\* an admin without a delay of its own calls it at once.
AdminDelayGated ==
    [][PhasedIn /\ adminDelay' # adminDelay
       => Announced({"setTargetAdminDelay"}, ADMIN_DELAY)]_vars

\* Once the bootstrap admin has renounced nobody gains a role or the right to
\* grant one, no gate of the router changes and no delay of the gates, without
\* governance announcing it.
PowerAnnounced ==
    [][/\ Bootstrap \notin members[ADMIN_ROLE]
       /\ AsDeployed
       /\ \/ <<gateVars, adminDelay, roleAdmin>>' # <<gateVars, adminDelay, roleAdmin>>
          \/ \E role \in Roles : ~(members'[role] \subseteq members[role])
       => Announced(ManagerFns, ADMIN_EXEC_DELAY)]_vars

\* The fallback has a pool tier for every pair, whatever overrides are set and
\* cleared.
FallbackAlwaysPriced ==
    \A a, b \in Tokens : ResolvedFee(a, b) \in 1 .. FEE_LIMIT - 1
=============================================================================
