------------------------- MODULE MCRouterGovernance -------------------------
(***************************************************************************)
(* Instances of RouterGovernance for TLC.  The officers are those of the   *)
(* deployment script's defaults: the upgrader resumes and lists, too.      *)
(* Time runs in days.                                                      *)
(***************************************************************************)
EXTENDS RouterGovernance

CONSTANTS A, u1, m1, m2, f1, f2, q1, q2, v1, v2, boot, gov, upg, guard,
    Agendas     \* what the officers are about, and the clock they do it by

Stock == [t \in Tokens |-> [a \in Accounts |-> IF a = Router THEN 1 ELSE 0]]
NoTax == [t \in Tokens |-> 0]
Seeded == [p \in Pairs |-> IF p = PairKey(A, WETH) THEN 1 ELSE 0]

Op(by, fn, args) == [by |-> by, fn |-> fn, args |-> args]

Configuring == Op(boot, "configureRouter", <<>>)
HandingOff == Op(boot, "grantRole", <<ADMIN_ROLE, gov, ADMIN_EXEC_DELAY>>)

(***************************************************************************)
(* Agendas.  Officers stay with one.                                       *)
(***************************************************************************)
\* Day-to-day administration, and officers who try what is not theirs.
NoticeRequests ==
    {Configuring, Op(guard, "pause", <<>>), Op(guard, "unpause", <<>>),
     Op(upg, "unpause", <<>>), Op(upg, "addVenue", <<m1>>),
     Op(upg, "rescueTokens", <<A, u1, 1>>)}

\* The handoff, and what governance and the bootstrap admin do to the policy.
PolicyRequests ==
    {Configuring, HandingOff,
     Op(boot, "setTargetFunctionRole", <<GUARDIAN_ROLE, "unpause">>),
     Op(gov, "setTargetFunctionRole", <<GUARDIAN_ROLE, "unpause">>),
     Op(gov, "grantRole", <<UPGRADER_ROLE, gov, 0>>),
     Op(gov, "revokeRole", <<GUARDIAN_ROLE, guard>>)}

\* The bootstrap admin, who has no delay, against the one that phases in.
ResetRequests ==
    {Configuring, Op(boot, "setTargetAdminDelay", <<0>>),
     Op(boot, "setTargetAdminDelay", <<3>>),
     Op(boot, "setTargetFunctionRole", <<GUARDIAN_ROLE, "unpause">>)}

\* What governance alone can still do, and an upgrader it lets grant a role.
ReignRequests ==
    {Configuring, HandingOff, Op(gov, "setTargetAdminDelay", <<0>>),
     Op(gov, "setTargetClosed", <<TRUE>>), Op(gov, "updateAuthority", <<>>),
     Op(gov, "setRoleAdmin", <<LISTING_ROLE, UPGRADER_ROLE>>),
     Op(upg, "grantRole", <<LISTING_ROLE, gov, 0>>)}

\* Every call of the router there is, made by the bootstrap admin before
\* configureRouter.
ConfigRequests ==
    {Op(boot, fn, <<>>) : fn \in {"pause", "unpause"}}
  \cup {Op(boot, fn, <<m>>) : fn \in {"addVenue", "removeVenue"}, m \in {m1, m2}}
  \cup {Op(boot, "setFallbackSwapRouter", <<f2>>),
        Op(boot, "setFallbackQuoter", <<q2>>),
        Op(boot, "upgradeToAndCall", <<v2>>),
        Op(boot, "rescueTokens", <<A, u1, 1>>)}
  \cup {Op(boot, "setFallbackFee", <<x>>) : x \in {0, 2, 3}}
  \cup {Op(boot, "setPairFee", <<WETH, A, x>>) : x \in {0, 1, 3}}
  \cup {Op(boot, "setPairFees", <<<<A, WETH, 2>>, <<ETH, A, x>>>>) : x \in {0, 3}}

Leaving == {<<ADMIN_ROLE, boot>>, <<GUARDIAN_ROLE, guard>>}
Nobody == {}

EveryRequest == NoticeRequests \cup PolicyRequests \cup ResetRequests
                   \cup ReignRequests \cup ConfigRequests

Resetting ==
    [ops |-> ResetRequests, leaving |-> Nobody, steps |-> {1, 3, 5}, until |-> 14]

DailyAgendas ==
    {[ops |-> NoticeRequests, leaving |-> Nobody, steps |-> {1, 6}, until |-> 9],
     [ops |-> PolicyRequests, leaving |-> Leaving, steps |-> {5, 7}, until |-> 17],
     Resetting,
     [ops |-> ReignRequests, leaving |-> {<<ADMIN_ROLE, boot>>}, steps |-> {7},
      until |-> 14],
     [ops |-> ConfigRequests, leaving |-> Nobody, steps |-> {}, until |-> 0]}

ResetAgendas == {Resetting}

VARIABLE agenda

AgendaInit ==
    /\ Init
    /\ fb = f1 /\ quoter = q1
    /\ agenda \in Agendas

AgendaNext ==
    /\ \/ \E op \in agenda.ops : CallNow(op)
       \/ \E op \in agenda.ops, later \in Slack : Schedule(op, later)
       \/ \E op \in agenda.ops : Execute(op)
       \/ \E op \in agenda.ops, by \in Officers : Cancel(op, by)
       \/ \E <<role, o>> \in agenda.leaving : Renounce(role, o)
       \/ \E d \in agenda.steps : now + d <= agenda.until /\ AdvanceTime(d)
    /\ UNCHANGED agenda

\* Spec, with officers who stay with an agenda.
AgendaSpec == AgendaInit /\ [][AgendaNext]_<<vars, agenda>>
=============================================================================
