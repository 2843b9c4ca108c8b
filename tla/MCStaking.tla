----------------------------- MODULE MCStaking -----------------------------
(***************************************************************************)
(* Staking for TLC.  Each scenario has its genesis and the calls that bear *)
(* on one subject; sessions go on in all of them.                          *)
(***************************************************************************)
EXTENDS Staking

CONSTANT Scenarios
VARIABLE scenario

Solo(a) == [bond |-> 4, targets |-> {a}]
Votes(b) == [bond |-> 4, targets |-> {b}]

In(S) == scenario \in S

Stakers == CASE In({"bonds", "slashes", "offenders"}) -> (1 :> Solo(1) @@ 2 :> Votes(1))
             [] In({"roles", "payouts"}) -> (1 :> Solo(1) @@ 2 :> Solo(2))
             [] OTHER -> (1 :> Solo(1))
Legacy == IF In({"legacy"}) THEN (1 :> 3) ELSE << >>
Team == IF In({"forcing"}) THEN <<>> ELSE None
Actors == CASE In({"bonds"}) -> {2}
            [] In({"payouts"}) -> {1}
            [] In({"forcing"}) -> {3}
            [] In({"roles"}) -> {1, 2}
            [] OTHER -> {1, 3}
LastSession == CASE In({"bonds"}) -> 8
                 [] In({"roles"}) -> 1
                 [] In({"legacy"}) -> 1
                 [] In({"offenders"}) -> 3
                 [] In({"forcing"}) -> 5
                 [] In({"payouts"}) -> 4
                 [] In({"releases"}) -> 6
                 [] In({"slashes"}) -> 6
                 [] OTHER -> MaxSession

MCInit ==
    /\ scenario \in Scenarios
    /\ Init(Stakers, Legacy, Team, 6)

MCNext ==
    /\ UNCHANGED scenario
    /\ \/ \E a \in Actors :
             \/ In({"bonds", "legacy"}) /\ (a # 3 \/ st.session = 0) /\ BondsChange(a, 2)
             \/ In({"bonds", "legacy", "payouts", "slashes"}) /\ BondsEnd(a)
             \/ In({"payouts"}) /\ Unstake(a)
             \/ In({"payouts"}) /\ bond(a, 5, Staked)
             \/ In({"legacy"}) /\ st.session = 1 /\ Unlock(a)
             \/ In({"legacy"}) /\ set_controller(a)
             \/ In({"legacy"}) /\ st.session = 0 /\ Transfers(1, 2)
             \/ In({"payouts"}) /\ st.session = 0 /\ \E payee \in Payees : set_payee(a, payee)
             \/ In({"roles"}) /\ RolesChange(a)
             \/ In({"roles"}) /\ RolesTaken(a)
             \/ In({"forcing"}) /\ TeamSet(a, 2)
             \/ In({"releases"}) /\ ReleasesSet(a, 2)
       \/ In({"roles"}) /\ st.session = 0 /\ Configure(5, 500000)
       \/ In({"roles"}) /\ DisableAccounts
       \/ In({"forcing"}) /\ ForceEras
       \/ In({"payouts"}) /\ st.session = 0 /\ set_phase_reward(0, 5)
       \/ In({"issuance"}) /\ \E phase \in 0 .. 2 : set_phase_reward(phase, 5)
       \/ In({"releases"}) /\ set_reward_start_height(1)
       \/ st.session < LastSession /\ Sessions(In({"forcing", "releases"}))
       \/ In({"bonds"}) /\ take_snapshot
       \/ In({"payouts"}) /\ Authors
       \/ In({"payouts"}) /\ Payouts
       \/ In({"slashes"}) /\ \E f \in Fractions \ {0} : Offences(f, "WhenSlashed", <<3>>)
       \/ In({"offenders"}) /\ \E f \in Fractions, disable \in {"Never", "Always"} : Offences(f, disable, <<>>)
       \/ In({"slashes"}) /\ SlashesCancelled
       \/ In({"offenders"}) /\ SetInvulnerable

MCSpec == MCInit /\ [][MCNext]_<<vars, scenario>>

(* The lists and the amounts that calls could make grow without end.        *)
Bounds ==
    /\ st.CommitteeTeamRewardPerYear # None => Len(st.CommitteeTeamRewardPerYear) <= 1
    /\ \A a \in Accounts : st.free[a] <= 30
=============================================================================
