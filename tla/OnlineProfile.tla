--------------------------- MODULE OnlineProfile ---------------------------
(***************************************************************************)
(* The online-profile pallet: machines from bonding to exit, the stake of  *)
(* their owners, and the slashes that wait for execution.  What the review *)
(* committee, the maintenance committee and the renting pallet do to a     *)
(* machine (OCOps, MTOps, RTOps) is here; RentMachine adds the orders.     *)
(* MachineScores has the scores and the rewards.                           *)
(*                                                                         *)
(* The operators that follow a storage-changing function of the code take  *)
(* the part of the storage it works on as a record and return the record   *)
(* it leaves; an action stores the final record.                           *)
(***************************************************************************)
EXTENDS MachineScores

CONSTANTS
    Accounts, Controllers, Treasury,
    GpuNums,                \* what a committee may find in a machine
    StakePerGpuV2, StakePrices, \* stake_per_gpu_v2, and the values of stake_per_gpu
    FixedTxFee, ReonlineStake, ReviewStake,
    Verifiers,              \* the committee of a verification, as a sequence
    Faults,                 \* fault types of the maintenance committee
    SEVEN_MINUTES, FOUR_HOURS, ONE_DAY, TWO_DAYS, FIVE_DAYS, TEN_DAYS, YEAR,
    REWARD_DURATION,        \* in days
    ReporterBaseline, StakePerReport, ReporterMinFree,  \* ReporterStakeParams
    Endowment,
    Starts, StartEra,       \* the machines that are online at the beginning, and its day
    MaxBlock, MaxSlashes    \* bounds

ASSUME ProfileParams ==
    /\ Machines \subseteq Nat
    /\ Stashes \subseteq Accounts /\ Controllers \subseteq Accounts /\ Treasury \in Accounts
    /\ \A i \in 1..Len(Verifiers) : Verifiers[i] \in Accounts
    /\ StakePrices \subseteq Nat /\ GpuNums \subseteq Nat \ {0}

VARIABLES
    now,
    StashController,        \* ControllerStash is its inverse
    MachinesInfo, LiveMachines,
    total_machine,          \* of StashMachines
    Scores,                 \* the record of MachineScores
    MachineRentedGPU, RentedFinished,
    OfflineMachine2renters,
    UserMutHardwareStake,   \* by stash and machine
    StashStake, total_stake,            \* total_stake of SysInfo
    NextSlashId, PendingSlash, PendingSlashReview,
    MaxSlashExeced,
    stake_per_gpu,          \* external: follows the price of DBC
    report,                 \* external: the maintenance committee's report of a machine
    ReporterStake,          \* of the maintenance committee's pallet, as [staked, used]
    oc_slash,               \* external: slashes for refusals that online-committee holds
    free, reserved

machine_vars == <<MachinesInfo, LiveMachines, MachineRentedGPU, RentedFinished, Scores>>
owner_vars == <<StashController, total_machine>>
money_vars == <<StashStake, total_stake, free, reserved>>
slash_vars == <<NextSlashId, PendingSlash, PendingSlashReview, MaxSlashExeced>>
report_vars == <<OfflineMachine2renters, report, ReporterStake>>
profile_vars == <<machine_vars, owner_vars, money_vars, slash_vars, report_vars,
                  UserMutHardwareStake, oc_slash, stake_per_gpu>>

Lists == {"bonding", "confirmed", "booked", "online", "fulfilling", "refused", "rented", "offline"}
SlashIds == 0..(MaxSlashes - 1)

(* MachineStatus is a stack: an offline status holds the one it replaced.   *)
Status(kind) == [kind |-> kind, time |-> 0, reason |-> None]
OfflineKinds == {"StakerReportOffline", "ReporterReportOffline"}
Kinds == {"AddingCustomizeInfo", "DistributingOrder", "CommitteeVerifying", "WaitingFulfill",
          "Online", "Rented"} \cup OfflineKinds
Kind(m) == Head(MachinesInfo[m].status).kind
Bonded == {m \in Machines : MachinesInfo[m] # None}

current_era == Scores.era
ControllerStash(c) == {s \in Stashes : StashController[s] = c}
Controls(c, m) == m \in Bonded /\ StashController[MachinesInfo[m].stash] = c

(* Before any machine is online.                                            *)
NoScores(era) ==
    [era |-> era,
     points |-> [prev |-> EmptyEra, cur |-> EmptyEra, next |-> EmptyEra],
     reward |-> [prev |-> 0, cur |-> 0],
     online |-> [x \in Stashes |-> {}],
     stash |-> [x \in Stashes |-> [gpu |-> 0, rented |-> 0, points |-> 0, earned |-> 0,
                                   claimed |-> 0, can_claim |-> 0, era_reward |-> 0]],
     sys |-> [gpu |-> 0, rented |-> 0, points |-> 0, staker |-> 0, percent |-> 30, galaxy |-> 0],
     recent |-> [m \in Machines |-> None],
     snap |-> [ids |-> <<>>, len |-> 0],
     due |-> [k \in {Verifiers[n] : n \in 1..Len(Verifiers)} |-> 0]]

(* When the machines of listed, owned by s, have just come online, if any.  *)
StartScores(listed, s, i) ==
    LET up(x, m) == start_rewards(update_snap_on_online_changed(x, m, i, TRUE),
                                  m, s, StartEra + REWARD_DURATION, Verifiers)
    IN FoldLeft(up, NoScores(IF listed = {} THEN 0 ELSE StartEra), Sorted(listed))

(* Nothing is rented, offline, changed, reported or slashed.                *)
SlashInit ==
    /\ MachineRentedGPU = [m \in Machines |-> 0]
    /\ RentedFinished = {}
    /\ OfflineMachine2renters = [m \in Machines |-> {}]
    /\ UserMutHardwareStake = [s \in Stashes |-> [m \in Machines |-> None]]
    /\ NextSlashId = 0
    /\ PendingSlash = [id \in SlashIds |-> None]
    /\ PendingSlashReview = [id \in SlashIds |-> None]
    /\ MaxSlashExeced = [m \in Machines |-> 0]
    /\ oc_slash = [s \in Stashes |-> 0]
    /\ stake_per_gpu \in StakePrices
    /\ report = [m \in Machines |-> None]
    /\ ReporterStake = [a \in Accounts |-> [staked |-> 0, used |-> 0]]

(* The chain's genesis, or a moment when the machines of listed, with the   *)
(* most gpus and owned by s, have just come online.  Block 0 then stands    *)
(* for the last block of a day.                                             *)
ProfileInit ==
    /\ now = 0
    /\ \E listed \in Starts, s \in Stashes, c \in Controllers :
          LET gpus == CHOOSE g \in GpuNums : \A h \in GpuNums : g >= h
              stake == StakePerGpuV2 * gpus
              held == stake * Cardinality(listed)
              machine == [stash |-> s, status |-> <<Status("Online")>>, stake |-> stake,
                          per_gpu |-> StakePerGpuV2, gpu |-> gpus, renters |-> {}, online |-> 0,
                          deadline |-> StartEra + REWARD_DURATION, last_online |-> 0,
                          restake |-> 0, committee |-> Verifiers]
          IN /\ StashController = [x \in Stashes |-> IF listed # {} /\ x = s THEN c ELSE None]
             /\ MachinesInfo = [m \in Machines |-> IF m \in listed THEN machine ELSE None]
             /\ LiveMachines = [l \in Lists |-> IF l = "online" THEN listed ELSE {}]
             /\ total_machine = [x \in Stashes |-> IF x = s THEN listed ELSE {}]
             /\ Scores = StartScores(listed, s, machine)
             /\ StashStake = [x \in Stashes |-> IF x = s THEN held ELSE 0]
             /\ total_stake = held
             /\ free = [a \in Accounts |-> IF a = s THEN Endowment - held ELSE Endowment]
             /\ reserved = [a \in Accounts |-> IF a = s THEN held ELSE 0]
    /\ SlashInit

-----------------------------------------------------------------------------
(* Balances: b is [free, reserved, stake, total].                           *)
balances == [free |-> free, reserved |-> reserved, stake |-> StashStake, total |-> total_stake]

SetBalances(b) ==
    /\ free' = b.free /\ reserved' = b.reserved
    /\ StashStake' = b.stake /\ total_stake' = b.total

transfer(b, from, to, amount) ==
    [b EXCEPT !.free = [a \in Accounts |-> @[a] + (IF a = to THEN amount ELSE 0)
                                                - (IF a = from THEN amount ELSE 0)]]

(* change_stake: the caller tests can_add, or can_sub where that can fail.  *)
can_add(b, s, amount) == b.free[s] >= amount
can_sub(b, s, amount) == b.stake[s] >= amount

add_stake(b, s, amount) ==
    [b EXCEPT !.free[s] = @ - amount, !.reserved[s] = @ + amount,
              !.stake[s] = @ + amount, !.total = @ + amount]

sub_stake(b, s, amount) ==
    LET moved == Lower(amount, b.reserved[s]) IN
    [b EXCEPT !.free[s] = @ + moved, !.reserved[s] = @ - moved,
              !.stake[s] = @ - amount, !.total = Less(@, amount)]

slash_reserved(b, who, amount) ==
    LET taken == Lower(amount, b.reserved[who]) IN
    [b EXCEPT !.reserved[who] = @ - taken, !.free[Treasury] = @ + taken]

(* GNOps::slash_and_reward: in equal shares to reward_to, the rest to the   *)
(* treasury; with no one to reward, only if the reserve covers it all.      *)
gn_slash_and_reward(b, who, amount, reward_to) ==
    LET n == Len(reward_to)
        each == IF n = 0 THEN 0 ELSE ShareOf(n, amount)
        pay(r, to) ==
            LET part == Lower(each, r.left) IN
            IF r.b.reserved[who] < r.left THEN r
            ELSE [left |-> r.left - part,
                  b |-> [r.b EXCEPT !.reserved[who] = @ - part, !.free[to] = @ + part]]
        paid == FoldLeft(pay, [b |-> b, left |-> amount], reward_to)
    IN IF n = 0 /\ b.reserved[who] < amount THEN b
       ELSE slash_reserved(paid.b, who, paid.left)


slash_and_reward(b, who, amount, reward_to) ==
    [gn_slash_and_reward(b, who, amount, reward_to) EXCEPT
        !.stake[who] = Less(@, amount), !.total = Less(@, amount)]

-----------------------------------------------------------------------------
(* Machines: p is [info, live, rented, finished, scores].                   *)
profile == [info |-> MachinesInfo, live |-> LiveMachines,
            rented |-> MachineRentedGPU, finished |-> RentedFinished, scores |-> Scores]

SetProfile(p) ==
    /\ MachinesInfo' = p.info /\ LiveMachines' = p.live
    /\ MachineRentedGPU' = p.rented /\ RentedFinished' = p.finished
    /\ Scores' = p.scores

Move(live, m, from, to) ==
    [l \in Lists |-> IF l \in to THEN live[l] \cup {m}
                     ELSE IF l \in from THEN live[l] \ {m} ELSE live[l]]

SetStatus(p, m, kind) == [p EXCEPT !.info[m].status = <<Status(kind)>>]

snap_online(p, m, is_online) ==
    [p EXCEPT !.scores = update_snap_on_online_changed(@, m, p.info[m], is_online)]
snap_rent(p, m, is_rented) ==
    [p EXCEPT !.scores = update_snap_on_rent_changed(@, m, p.info[m], is_rented)]

machine_offline(p, m, status) ==
    LET q == IF Head(p.info[m].status).kind = "Rented" THEN snap_rent(p, m, FALSE) ELSE p IN
    [snap_online(q, m, FALSE) EXCEPT
        !.info[m].status = <<status>> \o @,
        !.live = Move(@, m, {"online", "rented"}, {"offline"})]

(* Rent received or reward claimed tops up the stake of the owner's         *)
(* machines, in the order of their ids.                                     *)
fulfill_machine_stake(info, b, s, amount) ==
    LET top_up(r, m) ==
            LET extra == stake_per_gpu * r.info[m].gpu - r.info[m].stake
                part == Lower(extra, r.left)
            IN IF r.info[m] = None \/ extra <= 0 THEN r
               ELSE [info |-> [r.info EXCEPT ![m].stake = @ + part],
                     b |-> add_stake(r.b, r.info[m].stash, part),
                     left |-> r.left - part]
    IN FoldLeft(top_up, [info |-> info, b |-> b, left |-> amount], Sorted(Scores.online[s]))

(* The owner's part of a fee tops up the machines; what the machine, the    *)
(* owner and the system got in fees is counted for display and left out.    *)
change_machine_rent_fee(b, s, fee_to_stash) ==
    fulfill_machine_stake(MachinesInfo, b, s, fee_to_stash)

-----------------------------------------------------------------------------
(* RTOps.                                                                   *)
change_machine_status_on_rent_start(p, m, gpus) ==
    [SetStatus(p, m, "Rented") EXCEPT !.rented[m] = @ + gpus]

change_machine_status_on_confirmed(p, m, renter) ==
    LET q == [p EXCEPT !.info[m].renters = @ \cup {renter}] IN
    IF m \in p.live["rented"] THEN q
    ELSE [snap_rent(q, m, TRUE) EXCEPT !.live = Move(@, m, {"online"}, {"rented"})]

(* No change at all when the machine is gone, or bonded anew and not verified. *)
change_machine_status_on_rent_end(p, m, gpus, machine_last, renter_last, renter) ==
    LET kind == Head(p.info[m].status).kind
        q == [p EXCEPT !.rented[m] = Less(@, gpus),
                       !.info[m].renters = IF renter_last THEN @ \ {renter} ELSE @]
    IN IF p.info[m] = None \/ p.info[m].gpu = 0 THEN p
       ELSE IF kind \in OfflineKinds THEN [q EXCEPT !.finished = @ \cup {m}]
       ELSE IF kind = "Rented" /\ machine_last
            THEN [SetStatus(snap_rent(q, m, FALSE), m, "Online") EXCEPT !.info[m].last_online = now,
                      !.live = Move(@, m, {"rented"}, {"online"})]
       ELSE q

(* Mistake: the count falls only with the last order.                       *)
change_machine_status_on_confirm_expired_last(p, m, gpus) ==
    LET left == Less(p.rented[m], gpus) IN
    IF left # 0 THEN [ok |-> TRUE, p |-> p]
    ELSE IF p.info[m] = None THEN [ok |-> FALSE, p |-> p]
    ELSE [ok |-> TRUE, p |-> [SetStatus(p, m, "Online") EXCEPT !.rented[m] = 0]]

(* The result may be an error, and then p is as it was.                     *)
change_machine_status_on_confirm_expired(p, m, gpus) ==
    LET left == Less(p.rented[m], gpus) IN
    IF left # 0 THEN [ok |-> TRUE, p |-> [p EXCEPT !.rented[m] = left]]
    ELSE IF p.info[m] = None THEN [ok |-> FALSE, p |-> p]
    ELSE [ok |-> TRUE, p |-> [SetStatus(p, m, "Online") EXCEPT !.rented[m] = 0]]

-----------------------------------------------------------------------------
(* Slashes.                                                                 *)
slash_percent(reason, duration) ==
    LET steps(a, b, c, d) ==    \* a report of a reachable fault, by its duration
            IF duration < SEVEN_MINUTES THEN a ELSE IF duration < TWO_DAYS THEN b
            ELSE IF duration < c THEN d[1] ELSE d[2]
        hardware(a) ==
            IF duration < FOUR_HOURS THEN a ELSE IF duration < ONE_DAY THEN 2 * a
            ELSE IF duration < TWO_DAYS THEN (8 * a) \div 3
            ELSE IF duration < FIVE_DAYS THEN 60 ELSE 100
    IN CASE reason = "RentedReportOffline" -> steps(2, 4, FIVE_DAYS, <<30, 50>>)
         [] reason = "OnlineReportOffline" -> steps(2, 4, TEN_DAYS, <<30, 80>>)
         [] reason = "RentedInaccessible" -> steps(4, 8, FIVE_DAYS, <<60, 100>>)
         [] reason = "RentedHardwareCounterfeit" -> hardware(12)
         [] OTHER -> hardware(6)

(* For the faults the maintenance committee may report.                     *)
reach_max_slash(duration) == duration > FIVE_DAYS

new_slash_when_offline(m, reason, renters, committee, duration) ==
    [who |-> MachinesInfo[m].stash, machine |-> m,
     amount |-> PercentOf(slash_percent(reason, duration), MachinesInfo[m].stake),
     exec_time |-> now + TWO_DAYS,
     renters |-> IF reason = "OnlineReportOffline" THEN {} ELSE renters,
     committee |-> IF reason \in {"OnlineReportOffline", "RentedReportOffline"} THEN <<>>
                   ELSE committee]

add_slash(slash) ==
    /\ NextSlashId \in SlashIds
    /\ PendingSlash' = [PendingSlash EXCEPT ![NextSlashId] = slash]
    /\ NextSlashId' = NextSlashId + 1

(* 10% to the renters, 20% to the committee, the rest to the treasury; if   *)
(* the machine is gone or its owner's reserve too small, nothing.           *)
do_slash_deposit(b, slash) ==
    LET renters == IF slash.renters = {} THEN 0 ELSE PercentOf(10, slash.amount)
        committee == IF slash.committee = <<>> THEN 0 ELSE PercentOf(20, slash.amount)
        b1 == slash_and_reward(b, slash.who, renters, SetToSeq(slash.renters))
        b2 == slash_and_reward(b1, slash.who, committee, slash.committee)
    IN IF MachinesInfo[slash.machine] = None THEN b
       ELSE IF b.reserved[MachinesInfo[slash.machine].stash] < slash.amount THEN b
       ELSE slash_and_reward(b2, slash.who, slash.amount - renters - committee, <<>>)

exec_pending_slash(b0, t) ==
    FoldLeft(LAMBDA b, id : do_slash_deposit(b, PendingSlash[id]), b0,
             Sorted({id \in SlashIds : PendingSlash[id] # None /\ PendingSlash[id].exec_time = t}))

(* An applicant that is no one's controller any more ends the loop.         *)
check_pending_slash(b0, t) ==
    LET settle(r, id) ==
            LET review == PendingSlashReview[id]
                stash == ControllerStash(review.applicant)
            IN IF ~ r.ok \/ stash = {} THEN [r EXCEPT !.ok = FALSE]
               ELSE [ok |-> TRUE, done |-> r.done \cup {id},
                     b |-> slash_and_reward(r.b, CHOOSE s \in stash : TRUE, review.staked, <<>>)]
    IN FoldLeft(settle, [b |-> b0, done |-> {}, ok |-> TRUE],
                Sorted({id \in SlashIds : PendingSlashReview[id] # None
                                        /\ PendingSlashReview[id].expire = t}))

(* The hook of block t, on what the block before left of p and b.           *)
on_initialize(p, b, t) ==
    LET settled == check_pending_slash(exec_pending_slash(b, t), t) IN
    /\ SetProfile([p EXCEPT !.scores = start_block(@, total_machine, t)])
    /\ SetBalances(settled.b)
    /\ PendingSlash' = [id \in SlashIds |->
           IF PendingSlash[id] # None /\ PendingSlash[id].exec_time = t THEN None
           ELSE PendingSlash[id]]
    /\ PendingSlashReview' = [id \in SlashIds |->
           IF id \in settled.done THEN None ELSE PendingSlashReview[id]]
    /\ UNCHANGED <<NextSlashId, MaxSlashExeced>>

-----------------------------------------------------------------------------
(* Calls of owners and controllers.  The controller of a machine is the     *)
(* controller of its stash: stash_reset_controller rewrites all machines.   *)
set_controller(s, c) ==
    /\ ControllerStash(c) = {} /\ StashController[s] = None
    /\ StashController' = [StashController EXCEPT ![s] = c]
    /\ UNCHANGED <<machine_vars, total_machine, money_vars, slash_vars,
                   report_vars, UserMutHardwareStake, oc_slash, stake_per_gpu>>

stash_reset_controller(s, c) ==
    /\ ControllerStash(c) = {} /\ StashController[s] # None
    /\ StashController' = [StashController EXCEPT ![s] = c]
    /\ UNCHANGED <<machine_vars, total_machine, money_vars, slash_vars,
                   report_vars, UserMutHardwareStake, oc_slash, stake_per_gpu>>

new_bonding(s) ==
    [stash |-> s, status |-> <<Status("AddingCustomizeInfo")>>, stake |-> StakePerGpuV2,
     per_gpu |-> StakePerGpuV2, gpu |-> 0, renters |-> {}, online |-> 0, deadline |-> 0,
     last_online |-> 0, restake |-> 0, committee |-> <<>>]

bond_machine(s, m) ==
    LET c == StashController[s]
        paid == transfer(balances, c, Treasury, FixedTxFee)
    IN /\ c # None
       /\ m \notin Bonded /\ m \notin total_machine[s]
       /\ free[c] >= FixedTxFee /\ can_add(paid, s, StakePerGpuV2)
       /\ SetBalances(add_stake(paid, s, StakePerGpuV2))
       /\ total_machine' = [total_machine EXCEPT ![s] = @ \cup {m}]
       /\ SetProfile([profile EXCEPT
              !.live = Move(@, m, {}, {"bonding"}), !.info[m] = new_bonding(s)])
       /\ UNCHANGED <<StashController, slash_vars, report_vars, UserMutHardwareStake, oc_slash,
                      stake_per_gpu>>

can_add_server_room(m) ==
    Kind(m) \in {"AddingCustomizeInfo", "DistributingOrder", "CommitteeVerifying",
                 "WaitingFulfill", "StakerReportOffline"}

add_server_room_info(p, m) ==
    IF Kind(m) = "AddingCustomizeInfo" THEN SetStatus(p, m, "DistributingOrder") ELSE p

(* The re-verification fee is due again when the last one has been paid out. *)
add_machine_info(m) ==
    LET s == MachinesInfo[m].stash
        hardware == UserMutHardwareStake[s][m]
        due == IF hardware # None /\ hardware.verify_fee = 0 THEN ReonlineStake ELSE 0
    IN /\ m \in Bonded /\ can_add_server_room(m)
       /\ can_add(balances, s, due)
       /\ SetBalances(add_stake(balances, s, due))
       /\ UserMutHardwareStake' =
              IF due = 0 THEN UserMutHardwareStake
              ELSE [UserMutHardwareStake EXCEPT ![s][m].verify_fee = due]
       /\ SetProfile([add_server_room_info(profile, m) EXCEPT
              !.live = IF m \in @["bonding"] THEN Move(@, m, {"bonding"}, {"confirmed"}) ELSE @])
       /\ UNCHANGED <<owner_vars, slash_vars, report_vars, oc_slash, stake_per_gpu>>

offline_machine_change_hardware_info(m) ==
    LET i == MachinesInfo[m]
        offline_slash == PercentOf(4, i.stake)
        due == ReonlineStake + offline_slash
    IN /\ m \in Bonded /\ Kind(m) = "Online"
       /\ can_add(balances, i.stash, due)
       /\ SetBalances(add_stake(balances, i.stash, due))
       /\ UserMutHardwareStake' = [UserMutHardwareStake EXCEPT ![i.stash][m] =
              [verify_fee |-> ReonlineStake, offline_slash |-> offline_slash]]
       /\ SetProfile([snap_online(profile, m, FALSE) EXCEPT
              !.live = Move(@, m, {"online"}, {"bonding"}),
              !.info[m].status = <<[Status("StakerReportOffline") EXCEPT !.time = now],
                                   Status("Online")>>])
       /\ UNCHANGED <<StashController, total_machine, slash_vars, report_vars, oc_slash,
                      stake_per_gpu>>

fulfill_machine(m) ==
    LET i == MachinesInfo[m]
        need == Upper(i.per_gpu * i.gpu, i.stake)
    IN /\ m \in Bonded /\ m \in LiveMachines["fulfilling"]
       /\ can_add(balances, i.stash, need - i.stake)
       /\ SetBalances(add_stake(balances, i.stash, need - i.stake))
       /\ UserMutHardwareStake' = [UserMutHardwareStake EXCEPT ![i.stash][m] = None]
       /\ SetProfile([snap_online(SetStatus(profile, m, "Online"), m, TRUE) EXCEPT
              !.live = Move(@, m, {"fulfilling"}, {"online"}),
              !.scores = start_rewards(@, m, i.stash, current_era + REWARD_DURATION, i.committee),
              !.info[m].stake = need, !.info[m].online = now,
              !.info[m].deadline = current_era + REWARD_DURATION,
              !.info[m].last_online = now, !.info[m].restake = now])
       /\ UNCHANGED <<StashController, total_machine, slash_vars, report_vars, oc_slash,
                      stake_per_gpu>>

controller_report_offline(m) ==
    /\ m \in Bonded /\ Kind(m) \in {"Online", "Rented"}
    /\ SetProfile(machine_offline(profile, m, [Status("StakerReportOffline") EXCEPT !.time = now]))
    /\ UNCHANGED <<StashController, total_machine, money_vars, slash_vars, report_vars,
                   UserMutHardwareStake, oc_slash, stake_per_gpu>>

(* What was released goes to the stash and tops up its machines.            *)
claim_rewards(s) ==
    LET amount == Scores.stash[s].can_claim
        paid == [balances EXCEPT !.free[s] = @ + amount]
        filled == fulfill_machine_stake(MachinesInfo, paid, s, amount)
    IN /\ StashController[s] # None
       /\ SetBalances(filled.b)
       /\ SetProfile([profile EXCEPT !.info = filled.info, !.scores = claim_reward(@, s)])
       /\ UNCHANGED <<owner_vars, slash_vars, report_vars, UserMutHardwareStake, oc_slash,
                      stake_per_gpu>>

(* The slash of a machine that has been offline since its status says.      *)
offline_slash(m) ==
    LET i == MachinesInfo[m]
        top == Head(i.status)
        duration == now - top.time
    IN IF top.kind = "ReporterReportOffline"
       THEN new_slash_when_offline(m, top.reason, OfflineMachine2renters[m], Verifiers, duration)
       ELSE IF i.status[2].kind = "Online"
       THEN new_slash_when_offline(m, "OnlineReportOffline", {}, <<>>, duration)
       ELSE new_slash_when_offline(m, "RentedReportOffline", i.renters, <<>>, duration)

ever_slashed(m, since) == MaxSlashExeced[m] > since /\ MaxSlashExeced[m] < now

(* No slash if the largest was already taken, or for an owner who takes an  *)
(* idle machine of more than a year down.                                   *)
forgiven(m) ==
    LET i == MachinesInfo[m]
        top == Head(i.status)
    IN \/ /\ top.kind = "ReporterReportOffline"
          /\ reach_max_slash(now - top.time) /\ ever_slashed(m, top.time)
       \/ /\ top.kind = "StakerReportOffline"
          /\ now - i.online > YEAR
          /\ top.time - i.last_online >= TEN_DAYS

status_on_report_online(m) ==
    IF m \in RentedFinished THEN <<Status("Online")>> ELSE Tail(MachinesInfo[m].status)

(* The slash is reserved when the machine returns and executed two days     *)
(* later.                                                                   *)
controller_report_online(m) ==
    LET i == MachinesInfo[m]
        slash == offline_slash(m)
        due == IF forgiven(m) THEN 0 ELSE slash.amount
        status == status_on_report_online(m)
        list == IF Head(status).kind = "Rented" THEN "rented" ELSE "online"
    IN /\ m \in Bonded /\ Kind(m) \in OfflineKinds
       /\ can_add(balances, i.stash, due)
       /\ SetBalances(add_stake(balances, i.stash, due))
       /\ IF due = 0 THEN UNCHANGED <<NextSlashId, PendingSlash>> ELSE add_slash(slash)
       /\ SetProfile([(IF list = "rented" THEN snap_rent(snap_online(profile, m, TRUE), m, TRUE)
                       ELSE snap_online(profile, m, TRUE)) EXCEPT
              !.live = Move(@, m, {"offline"}, {list}),
              !.info[m].status = status, !.info[m].last_online = now,
              !.finished = @ \ {m}])
       /\ UNCHANGED <<StashController, total_machine, PendingSlashReview, MaxSlashExeced,
                      report_vars, UserMutHardwareStake, oc_slash, stake_per_gpu>>

do_machine_exit(m) ==
    LET i == MachinesInfo[m] IN
    /\ can_sub(balances, i.stash, i.stake)
    /\ SetBalances(sub_stake(balances, i.stash, i.stake))
    /\ SetProfile([snap_online(profile, m, FALSE) EXCEPT
           !.info[m] = None, !.live = Move(@, m, {"online"}, {})])
    /\ UNCHANGED <<StashController, total_machine, slash_vars, report_vars,
                   UserMutHardwareStake, oc_slash, stake_per_gpu>>

machine_exit(m) ==
    /\ m \in Bonded /\ Kind(m) = "Online"
    /\ MachinesInfo[m].deadline <= current_era + REWARD_DURATION \div 2
    /\ now - MachinesInfo[m].last_online >= TEN_DAYS
    /\ do_machine_exit(m)

(* By one of the accounts authorised for it, whatever the machine's status. *)
force_machine_exit(m) == m \in Bonded /\ do_machine_exit(m)

restake_online_machine(m) ==
    LET i == MachinesInfo[m]
        need == stake_per_gpu * i.gpu
    IN /\ m \in Bonded
       /\ now - i.restake >= YEAR
       /\ i.stake > need
       /\ can_sub(balances, i.stash, i.stake - need)
       /\ SetBalances(sub_stake(balances, i.stash, i.stake - need))
       /\ SetProfile([profile EXCEPT !.info[m].stake = need, !.info[m].restake = now,
                                     !.info[m].per_gpu = stake_per_gpu])
       /\ UNCHANGED <<owner_vars, slash_vars, report_vars, UserMutHardwareStake, oc_slash,
                      stake_per_gpu>>

apply_slash_review(id) ==
    LET slash == PendingSlash[id]
        s == MachinesInfo[slash.machine].stash
    IN /\ slash # None /\ slash.machine \in Bonded
       /\ slash.exec_time > now
       /\ can_add(balances, s, ReviewStake)
       /\ SetBalances(add_stake(balances, s, ReviewStake))
       /\ PendingSlashReview' = [PendingSlashReview EXCEPT ![id] =
              [applicant |-> StashController[s], staked |-> ReviewStake,
               expire |-> slash.exec_time]]
       /\ UNCHANGED <<machine_vars, owner_vars, NextSlashId, PendingSlash, MaxSlashExeced,
                      report_vars, UserMutHardwareStake, oc_slash, stake_per_gpu>>

cancel_slash(id) ==
    LET slash == PendingSlash[id]
        due == slash.amount + PendingSlashReview[id].staked
    IN /\ slash # None /\ PendingSlashReview[id] # None
       /\ can_sub(balances, slash.who, due)
       /\ SetBalances(sub_stake(balances, slash.who, due))
       /\ PendingSlash' = [PendingSlash EXCEPT ![id] = None]
       /\ PendingSlashReview' = [PendingSlashReview EXCEPT ![id] = None]
       /\ UNCHANGED <<machine_vars, owner_vars, NextSlashId, MaxSlashExeced, report_vars,
                      UserMutHardwareStake, oc_slash, stake_per_gpu>>

(* Anyone may have the largest slash taken while the machine stays offline. *)
exec_slash(m) ==
    LET top == Head(MachinesInfo[m].status)
        slash == offline_slash(m)
    IN /\ m \in Bonded /\ Kind(m) = "ReporterReportOffline"
       /\ reach_max_slash(now - top.time) /\ ~ ever_slashed(m, top.time)
       /\ IF slash.amount = 0 THEN UNCHANGED <<NextSlashId, PendingSlash>> ELSE add_slash(slash)
       /\ MaxSlashExeced' = [MaxSlashExeced EXCEPT ![m] = now]
       /\ UNCHANGED <<machine_vars, owner_vars, money_vars, PendingSlashReview, report_vars,
                      UserMutHardwareStake, oc_slash, stake_per_gpu>>

-----------------------------------------------------------------------------
(* OCOps: the review committee, whose votes are external.                   *)
booked_machine(m) ==
    /\ m \in Bonded /\ m \in LiveMachines["confirmed"]
    /\ SetProfile([SetStatus(profile, m, "CommitteeVerifying") EXCEPT
           !.live = Move(@, m, {"confirmed"}, {"booked"})])
    /\ UNCHANGED <<owner_vars, money_vars, slash_vars, report_vars, UserMutHardwareStake,
                   oc_slash, stake_per_gpu>>

revert_booked_machine(m) ==
    /\ m \in Bonded /\ m \in LiveMachines["booked"]
    /\ SetProfile([SetStatus(profile, m, "DistributingOrder") EXCEPT
           !.live = Move(@, m, {"booked"}, {"confirmed"})])
    /\ UNCHANGED <<owner_vars, money_vars, slash_vars, report_vars, UserMutHardwareStake,
                   oc_slash, stake_per_gpu>>

(* A verified machine is online if its owner can pay the stake of all its   *)
(* gpus, and waits for the rest of the stake if not.                        *)
confirm_machine(m, gpu) ==
    LET i == MachinesInfo[m]
        s == i.stash
        hardware == UserMutHardwareStake[s][m]
        reonline == hardware # None
        paid == IF ~ reonline THEN balances
                ELSE slash_and_reward(
                       slash_and_reward(balances, s, hardware.verify_fee, Verifiers),
                       s, hardware.offline_slash, <<>>)
        need == i.per_gpu * gpu
        extra == Less(need, i.stake)
        known == [profile EXCEPT !.info[m].gpu = gpu,
                                 !.info[m].committee = IF reonline THEN @ ELSE Verifiers]
        rewarded == IF reonline THEN known
                    ELSE [known EXCEPT !.scores = start_rewards(@, m, s,
                              current_era + REWARD_DURATION, Verifiers)]
    IN /\ m \in Bonded /\ m \in LiveMachines["booked"]
       /\ \/ /\ can_add(paid, s, extra)
             /\ SetBalances(add_stake(paid, s, extra))
             /\ UserMutHardwareStake' = [UserMutHardwareStake EXCEPT ![s][m] = None]
             /\ SetProfile([SetStatus(snap_online(rewarded, m, TRUE), m, "Online") EXCEPT
                    !.live = Move(@, m, {"booked"}, {"online"}),
                    !.info[m].stake = need, !.info[m].last_online = now,
                    !.info[m].restake = now,
                    !.info[m].online = IF reonline THEN @ ELSE now,
                    !.info[m].deadline = IF reonline THEN @ ELSE current_era + REWARD_DURATION])
          \/ /\ ~ can_add(paid, s, extra)
             /\ SetBalances(paid)
             /\ UserMutHardwareStake' = [UserMutHardwareStake EXCEPT ![s][m] =
                    [verify_fee |-> 0, offline_slash |-> 0]]
             /\ SetProfile([SetStatus(known, m, "WaitingFulfill") EXCEPT
                    !.live = Move(@, m, {"booked"}, {"fulfilling"})])
       /\ UNCHANGED <<StashController, total_machine, slash_vars, report_vars, oc_slash,
                      stake_per_gpu>>

(* A refused change of hardware costs the fee and keeps the machine; a      *)
(* refused newcomer leaves, and 5% of its stake waits for the committee's   *)
(* slash.                                                                   *)
refuse_machine(m) ==
    LET i == MachinesInfo[m]
        s == i.stash
        hardware == UserMutHardwareStake[s][m]
        slash == PercentOf(5, i.stake)
        left == i.stake - slash
    IN /\ m \in Bonded /\ m \in LiveMachines["booked"]
       /\ \/ /\ hardware # None
             /\ SetBalances(slash_and_reward(balances, s, hardware.verify_fee, Verifiers))
             /\ UserMutHardwareStake' = [UserMutHardwareStake EXCEPT ![s][m].verify_fee = 0]
             /\ SetProfile([profile EXCEPT !.live = Move(@, m, {"booked"}, {"bonding"})])
             /\ UNCHANGED <<total_machine, oc_slash>>
          \/ /\ hardware = None
             /\ SetBalances(IF can_sub(balances, s, left) THEN sub_stake(balances, s, left)
                            ELSE balances)
             /\ total_machine' = [total_machine EXCEPT ![s] = @ \ {m}]
             /\ oc_slash' = [oc_slash EXCEPT ![s] = @ + slash]
             /\ SetProfile([profile EXCEPT !.live = Move(@, m, {"booked"}, {"refused"}),
                                           !.info[m] = None])
             /\ UNCHANGED UserMutHardwareStake
       /\ UNCHANGED <<StashController, slash_vars, report_vars, stake_per_gpu>>

(* OCOps::exec_slash, with the payment by online-committee that follows it. *)
oc_exec_slash(s) ==
    LET amount == oc_slash[s]
        paid == gn_slash_and_reward(balances, s, amount, Verifiers)
    IN /\ amount > 0
       /\ StashStake[s] >= amount /\ total_stake >= amount
       /\ SetBalances([paid EXCEPT !.stake[s] = @ - amount, !.total = @ - amount])
       /\ oc_slash' = [oc_slash EXCEPT ![s] = 0]
       /\ UNCHANGED <<machine_vars, owner_vars, slash_vars, report_vars,
                      UserMutHardwareStake, stake_per_gpu>>

-----------------------------------------------------------------------------
(* MTOps: the maintenance committee, whose verdict is external.  The first   *)
(* report of an account reserves its whole stake, a later one needs enough   *)
(* of it to be free; the coins are those that b leaves.                     *)
pay_stake_when_report(b, who) ==
    LET s == ReporterStake[who]
        used == s.used + StakePerReport
    IN \/ /\ s.staked = 0 /\ b.free[who] >= ReporterBaseline
          /\ SetBalances([b EXCEPT !.free[who] = @ - ReporterBaseline,
                                   !.reserved[who] = @ + ReporterBaseline])
          /\ ReporterStake' = [ReporterStake EXCEPT ![who] =
                 [staked |-> ReporterBaseline, used |-> StakePerReport]]
       \/ /\ s.staked # 0 /\ Less(s.staked, used) >= PercentOf(ReporterMinFree, s.staked)
          /\ SetBalances(b)
          /\ ReporterStake' = [ReporterStake EXCEPT ![who].used = used]

(* A report of an unreachable machine is a renter's, costs a fee and notes   *)
(* who rents it.  One report of a machine at a time is followed.             *)
report_machine_fault(who, m, reason) ==
    LET unreachable == reason = "RentedInaccessible" IN
    /\ report[m] = None
    /\ report' = [report EXCEPT ![m] = [who |-> who, time |-> now, reason |-> reason]]
    /\ OfflineMachine2renters' =
           IF unreachable /\ m \in Bonded /\ Kind(m) = "Rented"
           THEN [OfflineMachine2renters EXCEPT ![m] = MachinesInfo[m].renters]
           ELSE OfflineMachine2renters
    /\ unreachable => free[who] >= FixedTxFee
    /\ pay_stake_when_report(
           IF unreachable THEN transfer(balances, who, Treasury, FixedTxFee) ELSE balances, who)
    /\ UNCHANGED <<machine_vars, owner_vars, slash_vars, UserMutHardwareStake, oc_slash,
                   stake_per_gpu>>

mt_machine_offline(m) ==
    /\ m \in Bonded /\ report[m] # None
    /\ SetProfile(machine_offline(profile, m,
           [kind |-> "ReporterReportOffline", time |-> report[m].time,
            reason |-> report[m].reason]))
    /\ report' = [report EXCEPT ![m] = None]
    /\ UNCHANGED <<StashController, total_machine, money_vars, slash_vars,
                   OfflineMachine2renters, ReporterStake, UserMutHardwareStake, oc_slash,
                   stake_per_gpu>>

(* A verdict that leaves the machine alone.                                 *)
drop_report(m) ==
    /\ report[m] # None
    /\ report' = [report EXCEPT ![m] = None]
    /\ UNCHANGED <<machine_vars, owner_vars, money_vars, slash_vars, OfflineMachine2renters,
                   ReporterStake, UserMutHardwareStake, oc_slash, stake_per_gpu>>

(* Some time after the verdict the stake of a report is free again, or goes *)
(* to the committee if the report was refused.                              *)
change_reporter_stake_on_report_close(who, refused) ==
    LET open == {m \in Machines : report[m] # None /\ report[m].who = who} IN
    /\ ReporterStake[who].used > StakePerReport * Cardinality(open)
    /\ ReporterStake' = [ReporterStake EXCEPT
           ![who].used = Less(@, StakePerReport),
           ![who].staked = IF refused THEN Less(@, StakePerReport) ELSE @]
    /\ SetBalances(IF refused THEN gn_slash_and_reward(balances, who, StakePerReport, Verifiers)
                   ELSE balances)
    /\ UNCHANGED <<machine_vars, owner_vars, slash_vars, OfflineMachine2renters, report,
                   UserMutHardwareStake, oc_slash, stake_per_gpu>>

(* stake_per_gpu follows the price of DBC.                                  *)
change_price(x) ==
    /\ x # stake_per_gpu
    /\ stake_per_gpu' = x
    /\ UNCHANGED <<machine_vars, owner_vars, money_vars, slash_vars, report_vars,
                   UserMutHardwareStake, oc_slash>>

-----------------------------------------------------------------------------
OwnerCall ==
    \/ \E s \in Stashes, c \in Controllers : set_controller(s, c) \/ stash_reset_controller(s, c)
    \/ \E s \in Stashes, m \in Machines : bond_machine(s, m)
    \/ \E m \in Machines :
          \/ add_machine_info(m) \/ offline_machine_change_hardware_info(m)
          \/ fulfill_machine(m) \/ controller_report_offline(m) \/ controller_report_online(m)
          \/ machine_exit(m) \/ restake_online_machine(m)
    \/ \E s \in Stashes : claim_rewards(s)
    \/ \E id \in SlashIds : apply_slash_review(id)

OtherCall ==
    \/ \E m \in Machines :
          \/ exec_slash(m) \/ force_machine_exit(m)
          \/ booked_machine(m) \/ revert_booked_machine(m) \/ refuse_machine(m)
          \/ \E gpu \in GpuNums : confirm_machine(m, gpu)
          \/ mt_machine_offline(m) \/ drop_report(m)
    \/ \E id \in SlashIds : cancel_slash(id)
    \/ \E s \in Stashes : oc_exec_slash(s)
    \/ \E x \in StakePrices : change_price(x)

ProfileCall == (OwnerCall \/ OtherCall) /\ UNCHANGED now
=============================================================================
