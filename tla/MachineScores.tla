--------------------------- MODULE MachineScores ---------------------------
(***************************************************************************)
(* The scores and the daily rewards of online-profile: the snapshots of    *)
(* the points of an era, which the calls that take machines on and off     *)
(* line and in and out of rent keep up to date, and the distribution of an *)
(* era's reward by the points of the snapshot.                             *)
(*                                                                         *)
(* The operators work on a record x of the storage:                        *)
(*   era     CurrentEra                                                    *)
(*   points  ErasStashPoints and ErasMachinePoints of the era before, the  *)
(*           current and the next one: no code reads any other             *)
(*   reward  EraReward of the era before and the current one               *)
(*   online  online_machine of StashMachines                               *)
(*   stash   the counters of StashMachines, with ErasStashReward of the    *)
(*           era that is paid out                                          *)
(*   sys     SysInfo, RentFeeDestroyPercent and the start of the galaxy    *)
(*           competition                                                   *)
(*   recent  MachineRecentReward                                           *)
(*   snap    AllMachineIdSnap                                              *)
(*   due     what the committee pallet is told to pay (external)           *)
(***************************************************************************)
EXTENDS Integers, FiniteSets, Sequences, SequencesExt

CONSTANTS
    Machines,               \* ids; numbers, because lists of ids are sorted
    Stashes, None,
    EraLength,              \* ONE_DAY, as the length of an era in blocks
    EraOffset, SnapOffset, FirstPayOffset, LastPayOffset,   \* blocks of a day: 1, 2, 3, 62
    ReleaseParts,           \* 200: a reward is released in parts
    CalcPoint,              \* of one gpu, from the committee's upload
    PhaseRewards,           \* the rewards of an era, by phase
    FirstPhase, SecondPhase, GalaxyDays, RewardStart,
    GalaxyGpus, DestroyGpus \* 5000 and 10000 gpus

(* A quarter of a reward is released at once and the rest over 150 days.    *)
RecentDays == (3 * ReleaseParts) \div 4

(* Perbill arithmetic rounds to the nearest, a half down.                   *)
PartOf(n, d, amount) == (2 * n * amount + d - 1) \div (2 * d)
PercentOf(p, amount) == PartOf(p, 100, amount)
ShareOf(n, amount) == PartOf(1, n, amount)

Less(a, x) == IF a >= x THEN a - x ELSE 0
Lower(a, x) == IF a <= x THEN a ELSE x
Upper(a, x) == IF a >= x THEN a ELSE x
Change(a, x, add) == IF add THEN a + x ELSE Less(a, x)
Sorted(S) == SetToSortSeq(S, <)

(* The fields of a machine that count here.                                 *)
calc_point(i) == CalcPoint * i.gpu

-----------------------------------------------------------------------------
(* Points.  The inflation of a stash grows with its gpus, up to a tenth.    *)
NoPoints == [gpu |-> 0, calc |-> 0, rent |-> 0]
EmptyEra == [total |-> 0, stash |-> [s \in Stashes |-> None],
             machine |-> [m \in Machines |-> None]]

inflated(gpu, points) == PartOf(Lower(gpu, 1000), 10000, points)
rent_extra(basic) == PercentOf(30, basic)

total_grades(st) == inflated(st.gpu, st.calc) + st.calc + st.rent

machine_actual_grade(grade, gpu) ==
    grade.basic + (IF grade.rented THEN rent_extra(grade.basic) ELSE 0) + inflated(gpu, grade.basic)

StashPoints(e, s) == IF e.stash[s] = None THEN NoPoints ELSE e.stash[s]

WithPoints(e, s, old, new) ==
    [e EXCEPT !.total = Less(@ + total_grades(new), total_grades(old)),
              !.stash[s] = IF new.gpu = 0 THEN None ELSE new]

on_online_changed(e, s, i, is_online) ==
    WithPoints(e, s, StashPoints(e, s),
               [gpu |-> Change(StashPoints(e, s).gpu, i.gpu, is_online),
                calc |-> Change(StashPoints(e, s).calc, calc_point(i), is_online),
                rent |-> StashPoints(e, s).rent])

on_rent_changed(e, s, i, is_rented) ==
    [e EXCEPT !.total = Change(@, rent_extra(calc_point(i)), is_rented),
              !.stash[s] = [StashPoints(e, s) EXCEPT
                                !.rent = Change(@, rent_extra(calc_point(i)), is_rented)]]

Grade(i, is_rented) == [basic |-> calc_point(i), rented |-> is_rented]

get_stash_grades(e, s) == IF e.stash[s] = None THEN 0 ELSE total_grades(e.stash[s])

(* The totals of the stash and of the system follow the next era.           *)
count_grades(x, s, before) ==
    [x EXCEPT !.stash[s].points = Less(@ + get_stash_grades(x.points.next, s), before),
              !.sys.points = Less(@ + get_stash_grades(x.points.next, s), before)]

adjust_rent_fee_destroy_percent(x) ==
    [x EXCEPT !.sys.galaxy = IF x.sys.gpu = GalaxyGpus /\ @ = 0 THEN x.era ELSE @,
              !.sys.percent = Upper(@, IF x.sys.gpu < GalaxyGpus THEN 30
                                       ELSE IF x.sys.gpu < DestroyGpus THEN 70 ELSE 100)]

count_stakers(x, s, is_online) ==
    [x EXCEPT !.sys.staker =
        IF is_online /\ Cardinality(x.online[s]) = 1 THEN @ + 1
        ELSE IF ~ is_online /\ x.online[s] = {} THEN Less(@, 1) ELSE @]

count_online(x, m, i, is_online) ==
    [x EXCEPT !.sys.gpu = Change(@, i.gpu, is_online),
              !.stash[i.stash].gpu = Change(@, i.gpu, is_online),
              !.online[i.stash] = IF is_online THEN @ \cup {m} ELSE @ \ {m}]

(* A machine counts from the next era on, and loses the current one when it *)
(* goes; one that was not yet in the current era stays in the next one's    *)
(* list of machines.                                                        *)
snap_online_points(p, m, i, is_online) ==
    LET next == on_online_changed(p.next, i.stash, i, is_online) IN
    IF is_online
    THEN [p EXCEPT !.next = [next EXCEPT !.machine[m] = Grade(i, FALSE)]]
    ELSE IF p.cur.machine[m] = None THEN [p EXCEPT !.next = next]
    ELSE [p EXCEPT !.next = [next EXCEPT !.machine[m] = None],
                   !.cur = [on_online_changed(@, i.stash, i, FALSE) EXCEPT !.machine[m] = None]]

update_snap_on_online_changed(x, m, i, is_online) ==
    count_stakers(adjust_rent_fee_destroy_percent(count_grades(count_online(
        [x EXCEPT !.points = snap_online_points(@, m, i, is_online)], m, i, is_online),
        i.stash, get_stash_grades(x.points.next, i.stash))), i.stash, is_online)

snap_rent_points(p, m, i, is_rented) ==
    LET next == [on_rent_changed(p.next, i.stash, i, is_rented) EXCEPT
                     !.machine[m] = Grade(i, is_rented)]
        was_rented == p.cur.machine[m] # None /\ p.cur.machine[m].rented
        cur == IF was_rented THEN on_rent_changed(p.cur, i.stash, i, FALSE) ELSE p.cur
    IN IF is_rented THEN [p EXCEPT !.next = next]
       ELSE [p EXCEPT !.next = next, !.cur = [cur EXCEPT !.machine[m] = Grade(i, FALSE)]]

update_snap_on_rent_changed(x, m, i, is_rented) ==
    count_grades([x EXCEPT !.points = snap_rent_points(@, m, i, is_rented),
                           !.sys.rented = Change(@, i.gpu, is_rented),
                           !.stash[i.stash].rented = Change(@, i.gpu, is_rented)],
                 i.stash, get_stash_grades(x.points.next, i.stash))

-----------------------------------------------------------------------------
(* The hook, by the block of the day.                                       *)
current_era_reward(era, galaxy) ==
    LET past == era - RewardStart
        base == IF past < FirstPhase THEN PhaseRewards[1]
                ELSE IF past < FirstPhase + SecondPhase THEN PhaseRewards[2]
                ELSE PhaseRewards[3]
    IN IF past < 0 THEN 0
       ELSE IF galaxy # 0 /\ era < galaxy + GalaxyDays THEN 2 * base ELSE base

(* The first era empties all three snapshots.                               *)
update_snap_for_new_era(x) ==
    LET era == x.era + 1 IN
    [x EXCEPT !.era = era,
              !.reward = [prev |-> @.cur, cur |-> current_era_reward(era, x.sys.galaxy)],
              !.stash = [s \in Stashes |-> [@[s] EXCEPT !.era_reward = 0]],
              !.points = IF era = 1 THEN [prev |-> EmptyEra, cur |-> EmptyEra, next |-> EmptyEra]
                         ELSE [prev |-> @.cur, cur |-> @.next, next |-> @.next]]

(* total is total_machine: machines that left stay listed.                  *)
backup(x, total) ==
    LET all == FoldLeft(LAMBDA list, s : list \o Sorted(total[s]), <<>>, SetToSeq(Stashes))
    IN [x EXCEPT !.snap = [ids |-> all, len |-> Len(all)]]

calc_machine_total_reward(x, m) ==
    LET e == x.points.prev
        s == x.recent[m].stash
        grade == IF e.machine[m] = None \/ e.stash[s] = None THEN 0
                 ELSE machine_actual_grade(e.machine[m], e.stash[s].gpu)
    IN IF e.total = 0 THEN 0 ELSE PartOf(Lower(grade, e.total), e.total, x.reward.prev)

add_new_reward(r, amount) ==
    [r EXCEPT !.days = Append(IF Len(@) = RecentDays THEN Tail(@) ELSE @, amount),
              !.sum = Less(@ + amount, IF Len(r.days) = RecentDays THEN Head(r.days) ELSE 0)]

(* What the stash keeps of a reward depends on the days the committee still *)
(* has a part in its release.                                               *)
actual_total_reward(total, era, deadline) ==
    IF era > deadline THEN total
    ELSE IF era > Less(deadline, RecentDays)
    THEN total - PercentOf(1, PartOf(1, ReleaseParts, total)) * (deadline - era)
    ELSE PercentOf(99, total)

(* 49/200 of the latest and 1/200 of all.                                   *)
released_reward(r) ==
    PartOf(ReleaseParts \div 4 - 1, ReleaseParts, Last(r.days)) + PartOf(1, ReleaseParts, r.sum)

record_reward(x, m, r, to_stash, to_committee, actual) ==
    [x EXCEPT !.recent[m] = r,
              !.due = [c \in DOMAIN @ |-> @[c] + Cardinality({k \in 1..Len(r.committee) : r.committee[k] = c})
                                                 * ShareOf(Upper(1, Len(r.committee)), to_committee)],
              !.stash[r.stash].can_claim = @ + to_stash,
              !.stash[r.stash].earned = @ + actual,
              !.stash[r.stash].era_reward = @ + actual]

release_reward(x, m, r, total, released, to_stash) ==
    record_reward(x, m, r, to_stash, released - to_stash,
                  actual_total_reward(total, Less(x.era, 1), r.deadline))

distribute_new_reward(x, m, r, total) ==
    IF r.sum = 0 THEN [x EXCEPT !.recent[m] = r]
    ELSE release_reward(x, m, r, total, released_reward(r),
                        IF Less(x.era, 1) > r.deadline THEN released_reward(r)
                        ELSE PercentOf(99, released_reward(r)))

distribute_reward_to_machine(x, m) ==
    IF x.recent[m] = None THEN x
    ELSE distribute_new_reward(x, m, add_new_reward(x.recent[m], calc_machine_total_reward(x, m)),
                               calc_machine_total_reward(x, m))

PayBlocks == LastPayOffset - FirstPayOffset + 1

(* Mistake: a block takes the quotient and not one more.                    *)
release_num_floor(x) == x.snap.len \div PayBlocks

(* How many machines a block pays: 0..=release_num.                         *)
release_num(x) == x.snap.len \div PayBlocks + 1

distribute(x) ==
    LET n == Lower(release_num(x), Len(x.snap.ids)) IN
    FoldLeft(distribute_reward_to_machine,
             [x EXCEPT !.snap.ids = SubSeq(@, n + 1, Len(@))], SubSeq(x.snap.ids, 1, n))

backup_and_reward(x, total, t) ==
    LET offset == t % EraLength IN
    IF offset = SnapOffset THEN backup(x, total)
    ELSE IF offset \in FirstPayOffset..LastPayOffset THEN distribute(x)
    ELSE x

(* The part of on_initialize that is about rewards.                         *)
start_block(x, total, t) ==
    IF t % EraLength = EraOffset THEN update_snap_for_new_era(backup_and_reward(x, total, t))
    ELSE backup_and_reward(x, total, t)

(* MachineRecentReward of a machine that comes online.                      *)
start_rewards(x, m, stash, deadline, committee) ==
    [x EXCEPT !.recent[m] = [stash |-> stash, days |-> <<>>, sum |-> 0,
                             deadline |-> deadline, committee |-> committee]]

(* Mistake: what was claimed can be claimed again.                          *)
claim_reward_again(x, s) == [x EXCEPT !.stash[s].claimed = @ + x.stash[s].can_claim]

claim_reward(x, s) ==
    [x EXCEPT !.stash[s].claimed = @ + x.stash[s].can_claim, !.stash[s].can_claim = 0]
=============================================================================
