------------------------- MODULE TerminatingRental -------------------------
(***************************************************************************)
(* The terminating-rental pallet: machines that can be rented by the half  *)
(* hour and taken away from the renter.  A machine is bonded, verified by  *)
(* three members (OnlineVerify), rented, taken offline and back, withdrawn *)
(* after a year, and may be reported (FaultReports); all of it over the    *)
(* stake of the committee (CommitteeStakes) and the reserves of the        *)
(* owner, the renters and the reporters.                                   *)
(*                                                                         *)
(* A block is the calls between two steps of next_block, which runs        *)
(* on_finalize of the block and on_initialize of the next one.  The        *)
(* parameters that root sets are constants.                                *)
(***************************************************************************)
EXTENDS FaultReports, FiniteSetsExt

CONSTANTS
    Machine,                \* the pallet handles machines one by one; the model has one
    Renters, Reporters,     \* numbers, like members: lists of accounts are sorted
    Stash, Controller,      \* who owns the machine, and who manages it
    Pot,                    \* RentFeePot
    Infos, Oppose,          \* what a member may find
    GpuNum,                 \* the gpus of the machine, in every description
    OnlineDeposit, StakePerGPU, GpuValue,   \* GpuValue: 800 dollars
    GpuPrice, GpuPoint, CalcPoint,  \* StandardGPUPointPrice, and the points of the machine
    OneDbc, DbcPrice,
    SUBMIT_RAW_START, SUBMIT_RAW_END,
    WAITING_CONFIRMING_DELAY, MIN_RELET, ONE_DAY, TEN_DAYS, SIXTY_DAYS, ONE_YEAR, MAX_RENTAL,
    MemberStake, Wealth,    \* Wealth: the free balance of an account in the beginning
    Durations, Amounts,
    MaxBlock, MaxOrders, MaxReports     \* bounds

ASSUME RentalTimes ==
    /\ WAITING_CONFIRMING_DELAY <= HALF_HOUR /\ MIN_RELET <= HALF_HOUR
    /\ ONE_DAY <= TEN_DAYS /\ TEN_DAYS <= SIXTY_DAYS /\ SIXTY_DAYS <= ONE_YEAR

Verify == INSTANCE OnlineVerify

VARIABLES
    now,
    StashController, StashServerRooms, StashMachines, StashStake,
    LiveMachines,                   \* the lists the machine is in
    MachinesInfo,                   \* None, or what is known of the machine
    OfflineMachines,                \* the blocks that will look for it
    CommitteeMachine, MachineCommittee, MachineSubmitedHash, CommitteeOnlineOps,
    PendingOnlineSlash, UnhandledOnlineSlash,   \* the id of a slash is its place
    MachineRentedGPU, MachineRentOrder, UserRented, NextRentId, RentOrder,
    PendingConfirming, PendingRentEnding,       \* pairs of a block and an order
    RenterTotalStake, RentedFinished,
    NextReportId, ReportInfo, LiveReport, ReporterReport, ReporterStake,
    CommitteeReportOrder, CommitteeReportOps, ReportResult, UnhandledReportResult,
    staked_amount, used_stake, normal, fulfilling_list, free, reserved

owner_vars == <<StashController, StashServerRooms, StashMachines, StashStake>>
machine_vars == <<LiveMachines, MachinesInfo, OfflineMachines>>
verify_vars == <<CommitteeMachine, MachineCommittee, MachineSubmitedHash, CommitteeOnlineOps,
                 PendingOnlineSlash, UnhandledOnlineSlash>>
rent_vars == <<MachineRentedGPU, MachineRentOrder, UserRented, NextRentId, RentOrder,
               PendingConfirming, PendingRentEnding, RenterTotalStake, RentedFinished>>
report_vars == <<NextReportId, ReportInfo, LiveReport, ReporterReport, ReporterStake,
                 CommitteeReportOrder, CommitteeReportOps, ReportResult, UnhandledReportResult>>
stake_vars == <<staked_amount, used_stake, normal, fulfilling_list, free, reserved>>
vars == <<now, owner_vars, machine_vars, verify_vars, rent_vars, report_vars, stake_vars>>

Accounts == Members \cup Renters \cup Reporters \cup {Stash, Controller, Pot, Treasury}
Votes == Infos \cup {Oppose}
NoOrdersOfMachine == [orders |-> {}, used |-> {}]

Init ==
    /\ now = 1
    /\ StashController = None /\ StashServerRooms = {} /\ StashStake = 0
    /\ StashMachines = [total |-> {}, online |-> {}, gpus |-> 0, rented |-> 0]
    /\ LiveMachines = {} /\ MachinesInfo = None /\ OfflineMachines = {}
    /\ CommitteeMachine = [c \in Members |-> Verify!NoJobs]
    /\ MachineCommittee = Verify!NoCommittee /\ MachineSubmitedHash = {}
    /\ CommitteeOnlineOps = [c \in Members |-> Verify!NoOps]
    /\ PendingOnlineSlash = <<>> /\ UnhandledOnlineSlash = {}
    /\ MachineRentedGPU = 0 /\ MachineRentOrder = NoOrdersOfMachine
    /\ UserRented = [r \in Renters |-> {}] /\ NextRentId = 0 /\ RentOrder = <<>>
    /\ PendingConfirming = {} /\ PendingRentEnding = {}
    /\ RenterTotalStake = [r \in Renters |-> 0] /\ RentedFinished = None
    /\ NextReportId = 0 /\ ReportInfo = <<>> /\ LiveReport = NoLive
    /\ ReporterReport = [r \in Reporters |-> NoReports]
    /\ ReporterStake = [r \in Reporters |-> [staked |-> 0, used |-> 0]]
    /\ CommitteeReportOrder = [c \in Members |-> NoOrders]
    /\ CommitteeReportOps = [c \in Members |-> <<>>]
    /\ ReportResult = <<>> /\ UnhandledReportResult = {}
    /\ staked_amount = [a \in Accounts |-> IF a \in Members THEN MemberStake ELSE 0]
    /\ used_stake = [a \in Accounts |-> 0]
    /\ normal = Members /\ fulfilling_list = {}
    /\ free = [a \in Accounts |-> IF a \in Members \cup {Treasury, Pot} THEN 0 ELSE Wealth]
    /\ reserved = staked_amount

(* The storage the calls and hooks work on, as one record.                  *)
storage ==
    [now |-> now, rooms |-> StashServerRooms, stash |-> StashMachines, stash_stake |-> StashStake,
     lists |-> LiveMachines, machine |-> MachinesInfo, offline |-> OfflineMachines,
     jobs |-> CommitteeMachine, mc |-> MachineCommittee, hashes |-> MachineSubmitedHash,
     found |-> CommitteeOnlineOps, slash |-> PendingOnlineSlash, due |-> UnhandledOnlineSlash,
     gpus |-> MachineRentedGPU, of_machine |-> MachineRentOrder, of_user |-> UserRented,
     next_rent |-> NextRentId, rent |-> RentOrder, confirming |-> PendingConfirming,
     ending |-> PendingRentEnding, renter_stake |-> RenterTotalStake, finished |-> RentedFinished,
     next_id |-> NextReportId, info |-> ReportInfo, live |-> LiveReport,
     reports |-> ReporterReport, rstake |-> ReporterStake, orders |-> CommitteeReportOrder,
     ops |-> CommitteeReportOps, result |-> ReportResult, unhandled |-> UnhandledReportResult,
     staked |-> staked_amount, used |-> used_stake, normal |-> normal,
     fulfilling |-> fulfilling_list, free |-> free, reserved |-> reserved, ok |-> TRUE]

Store(s) ==
    /\ StashServerRooms' = s.rooms /\ StashMachines' = s.stash /\ StashStake' = s.stash_stake
    /\ LiveMachines' = s.lists /\ MachinesInfo' = s.machine /\ OfflineMachines' = s.offline
    /\ CommitteeMachine' = s.jobs /\ MachineCommittee' = s.mc /\ MachineSubmitedHash' = s.hashes
    /\ CommitteeOnlineOps' = s.found /\ PendingOnlineSlash' = s.slash /\ UnhandledOnlineSlash' = s.due
    /\ MachineRentedGPU' = s.gpus /\ MachineRentOrder' = s.of_machine /\ UserRented' = s.of_user
    /\ NextRentId' = s.next_rent /\ RentOrder' = s.rent /\ PendingConfirming' = s.confirming
    /\ PendingRentEnding' = s.ending /\ RenterTotalStake' = s.renter_stake /\ RentedFinished' = s.finished
    /\ NextReportId' = s.next_id /\ ReportInfo' = s.info /\ LiveReport' = s.live
    /\ ReporterReport' = s.reports /\ ReporterStake' = s.rstake /\ CommitteeReportOrder' = s.orders
    /\ CommitteeReportOps' = s.ops /\ ReportResult' = s.result /\ UnhandledReportResult' = s.unhandled
    /\ staked_amount' = s.staked /\ used_stake' = s.used /\ normal' = s.normal
    /\ fulfilling_list' = s.fulfilling /\ free' = s.free /\ reserved' = s.reserved

(* An extrinsic: what it wrote is kept only if it returned Ok.              *)
Dispatch(s) == s.ok /\ Store(s) /\ UNCHANGED <<now, StashController>>

Owned == MachinesInfo # None /\ StashController = Controller
Join(s, list) == [s EXCEPT !.lists = @ \cup {list}]
Move(s, from, to) == [s EXCEPT !.lists = (@ \ from) \cup {to}]

(* Perbill::from_rational(n, d) * amount                                    *)
RatioOf(n, d, amount) == IF n >= d THEN amount ELSE (2 * n * amount + d - 1) \div (2 * d)
get_dbc_amount_by_value(value) == (value * OneDbc) \div DbcPrice

-----------------------------------------------------------------------------
(* StashMachine: the owner's machines, and what they count up to.           *)
stash_bond(stash) == [stash EXCEPT !.total = @ \cup {Machine}]
stash_refuse(stash) == [stash EXCEPT !.total = @ \ {Machine}]
stash_online(stash) == [stash EXCEPT !.online = @ \cup {Machine}, !.gpus = @ + GpuNum]
stash_exit(stash, gpus) ==
    [stash EXCEPT !.total = @ \ {Machine}, !.online = @ \ {Machine}, !.gpus = Less(@, gpus)]

(* MachineInfo: the committee found it to be as described, the owner took   *)
(* it down.                                                                 *)
online_info(machine, time) ==
    [machine EXCEPT !.stake = 0, !.status = "Online", !.last_online = time,
                    !.online_height = time, !.gpus = GpuNum]
offline_info(machine, time) ==
    [machine EXCEPT !.status = "StakerReportOffline", !.offline_at = time]
can_rent(machine) == machine.status \in {"Online", "Rented"}

-----------------------------------------------------------------------------
(* Bonding a machine.                                                       *)
change_stash_total_stake(s, amount, is_add) ==
    LET r == reserve(s, Stash, amount) IN
    IF is_add THEN IF r.ok THEN [r EXCEPT !.stash_stake = @ + amount] ELSE Fail(s)
    ELSE IF s.stash_stake < amount THEN Fail(s)
    ELSE Ok([unreserve(s, Stash, amount) EXCEPT !.stash_stake = @ - amount])

set_controller ==
    /\ StashController = None
    /\ StashController' = Controller
    /\ UNCHANGED <<now, StashServerRooms, StashMachines, StashStake, machine_vars, verify_vars,
                   rent_vars, report_vars, stake_vars>>

(* The id is a random hash: here, how many there were before.               *)
gen_server_room ==
    /\ StashController = Controller /\ StashServerRooms = {}
    /\ LET s == pay_fixed_tx_fee(storage, Controller) IN
       Dispatch([s EXCEPT !.rooms = @ \cup {Cardinality(@)}])

NewMachine == [status |-> "AddingCustomizeInfo", offline_at |-> 0, stake |-> OnlineDeposit,
               renters |-> {}, online_height |-> 0, last_online |-> 0, reward |-> {}, gpus |-> 0]

bond_machine ==
    /\ StashController = Controller /\ MachinesInfo = None
    /\ LET s == change_stash_total_stake(storage, OnlineDeposit, TRUE) IN
       Dispatch([Join(s, "bonding") EXCEPT !.stash = stash_bond(@), !.machine = NewMachine])

can_add_customize_info(machine) ==
    machine.status \in {"AddingCustomizeInfo", "CommitteeVerifying", "StakerReportOffline"}

add_machine_info(room) ==
    /\ Owned /\ room \in StashServerRooms /\ can_add_customize_info(MachinesInfo)
    /\ Dispatch([Move(storage, {"bonding"}, "confirmed") EXCEPT !.machine.status = "DistributingOrder"])

-----------------------------------------------------------------------------
(* Verifying it.  A hash contains a random string, so that equal hashes     *)
(* come from one member.                                                    *)
submit_confirm_hash(c, v) ==
    /\ <<c, v>> \notin MachineSubmitedHash
    /\ Verify!can_hash(MachineCommittee, c)
    /\ Dispatch([storage EXCEPT
           !.hashes = @ \cup {<<c, v>>}, !.mc = Verify!hashed_by(@, c),
           !.jobs[c] = Verify!MoveJob(@, Machine, "booked", "hashed"), !.found[c].confirm_hash = v])

submit_confirm_raw(c, v) ==
    /\ v = CommitteeOnlineOps[c].confirm_hash
    /\ Verify!can_reveal(MachineCommittee, CommitteeMachine[c], c, Machine, now)
    /\ Dispatch([storage EXCEPT
           !.mc = Verify!revealed_by(@, c),
           !.jobs[c] = Verify!MoveJob(@, Machine, "hashed", "confirmed"), !.found[c].machine_info = v])

release(s, members) ==
    Always(LAMBDA acc, c : change_used_stake(acc, c, StakePerOrder, FALSE), s, Sorted(members))

(* The deposit is returned; a machine that is verified again has its stake  *)
(* outside of StashStake, and is not brought online.                        *)
confirm_machine(s, valid) ==
    LET t == change_stash_total_stake(s, s.machine.stake, FALSE) IN
    IF s.machine = None THEN s
    ELSE IF ~t.ok THEN s
    ELSE [Move(t, {"booked"}, "online") EXCEPT
             !.machine = [online_info(@, s.now) EXCEPT !.reward = valid],
             !.stash = stash_online(@)]

refuse_machine(s) ==
    IF s.machine = None THEN s
    ELSE [Move(s, {"booked"}, "refused") EXCEPT !.machine = None, !.stash = stash_refuse(@)]

forget_jobs(s, members) ==
    [s EXCEPT !.jobs = [c \in Members |-> IF c \in members THEN Verify!forget_job(@[c], Machine) ELSE @[c]],
              !.found = [c \in Members |-> IF c \in members THEN Verify!NoOps ELSE @[c]]]

revert_book(s) == [forget_jobs(s, s.mc.booked) EXCEPT !.mc = Verify!NoCommittee]

revert_booked_machine(s) ==
    LET t == Move(s, {"booked"}, "confirmed") IN
    IF t.machine = None THEN Fail(t) ELSE Ok([t EXCEPT !.machine.status = "DistributingOrder"])

add_summary_slash(s, owner, amount, summary) ==
    [s EXCEPT !.due = @ \cup {Len(s.slash) + 1},
              !.slash = Append(@, [machine_stash |-> owner, stash_slash_amount |-> amount,
                  inconsistent |-> summary.invalid, unruly |-> summary.unruly, reward |-> summary.valid,
                  committee_stake |-> StakePerOrder, slash_exec_time |-> s.now + TWO_DAYS,
                  slash_result |-> "Pending"])]

decide(s) ==
    LET summary == Verify!summary_confirmation(s.mc, [c \in Members |-> s.found[c].machine_info])
        refused == summary.result = "Refused" /\ s.machine # None
        done == CASE summary.result = "Confirmed" ->
                       [confirm_machine(s, summary.valid) EXCEPT !.jobs = [c \in Members |->
                           IF c \in summary.valid THEN [@[c] EXCEPT !.online = @ \cup {Machine}] ELSE @[c]]]
                  [] summary.result = "Refused" -> refuse_machine(s)
                  [] OTHER -> LET t == revert_booked_machine(revert_book(s)) IN
                              IF t.ok THEN release(t, summary.invalid) ELSE t
        settled == IF refused \/ Verify!should_slash_committee(summary)
                   THEN add_summary_slash(done, IF refused THEN Stash ELSE None,
                                          IF refused THEN s.machine.stake ELSE 0, summary)
                   ELSE release(done, summary.valid)
        closed == [settled EXCEPT !.mc = Verify!after_summary(@, summary),
                                  !.hashes = IF s.mc.booked = {} THEN @ ELSE {}]
    IN IF done.ok THEN forget_jobs(closed, s.mc.booked) ELSE done

summary_raw(s) ==
    IF Verify!can_submit_raw(s.mc, s.now) THEN [s EXCEPT !.mc.status = "SubmittingRaw"]
    ELSE IF Verify!can_summary(s.mc, s.now) THEN decide(s) ELSE s

statistic_online_verify(s) == IF "booked" \in s.lists THEN Ok(summary_raw(s)) ELSE s

book_one(s, c) ==
    [change_used_stake(s, c, StakePerOrder, TRUE) EXCEPT
        !.mc.booked = @ \cup {c}, !.mc.book_time = s.now, !.jobs[c].booked = @ \cup {Machine}]

book_machine(s) ==
    LET t == Move(s, {"confirmed"}, "booked") IN
    IF t.machine = None THEN t ELSE [t EXCEPT !.machine.status = "CommitteeVerifying"]

(* The three members that get_work_index draws: fewer may be available.     *)
Teams(s) == LET teams == {team \in SUBSET s.normal : Cardinality(team) = 3} IN
            IF teams = {} THEN {{}} ELSE teams

distribute_machines(s, team) ==
    LET cleared == [s EXCEPT !.mc = Verify!NoCommittee] IN
    IF "confirmed" \notin s.lists THEN s
    ELSE IF team = {} THEN cleared
    ELSE book_machine(Always(book_one, cleared, Sorted(team)))

do_a_slash(s, id) ==
    LET x == s.slash[id]
        owner_paid == IF x.machine_stash = None \/ x.stash_slash_amount = 0 THEN Ok(s)
                      ELSE IF s.stash_stake < x.stash_slash_amount THEN Fail(s)
                      ELSE slash_and_reward([s EXCEPT !.stash_stake = @ - x.stash_slash_amount],
                                            <<Stash>>, x.stash_slash_amount, <<>>)
        slashed == Sorted(x.inconsistent) \o Sorted(x.unruly)
        lowered == change_committee_stake(owner_paid, slashed, x.committee_stake, TRUE)
        freed == change_committee_stake(lowered, Sorted(x.reward), x.committee_stake, FALSE)
    IN IF s.now < x.slash_exec_time THEN s
       ELSE IF ~owner_paid.ok THEN owner_paid
       ELSE IF ~lowered.ok THEN lowered
       ELSE IF ~freed.ok THEN freed
       ELSE [slash_and_reward(freed, slashed, x.committee_stake, <<>>) EXCEPT
                !.slash[id].slash_result = "Executed", !.due = @ \ {id}]

check_and_exec_pending_slash(s) == Always(do_a_slash, s, Sorted(s.due))

-----------------------------------------------------------------------------
(* Renting.                                                                 *)
get_machine_price(need_gpu) ==
    ((((GpuPrice * CalcPoint * 10000) \div GpuPoint) * need_gpu) \div GpuNum) \div 10000
rent_fee_of(gpus, duration) == get_dbc_amount_by_value((get_machine_price(gpus) * duration) \div ONE_DAY)

stake_per_gpu_limit == Lower(StakePerGPU, get_dbc_amount_by_value(GpuValue))

change_renter_total_stake(s, r, amount) ==
    LET t == reserve(s, r, amount) IN
    IF ~s.ok \/ ~t.ok THEN Fail(s) ELSE [t EXCEPT !.renter_stake[r] = @ + amount]

(* The first gpus that no order uses.                                       *)
gen_rentable_gpu(used, need) ==
    LET idle == Sorted((0..(GpuNum - 1)) \ used) IN Range(SubSeq(idle, 1, Lower(need, Len(idle))))

NewOrder(r, start, end, fee, gpus, index) ==
    [renter |-> r, rent_start |-> start, rent_end |-> end, stake_amount |-> fee,
     rent_status |-> "WaitingVerifying", gpu_num |-> gpus, gpu_index |-> index]

(* Mistake: the gpus of an order are not counted.                           *)
rent_start_uncounted(s, gpus) == [s EXCEPT !.machine.status = "Rented"]

change_machine_status_on_rent_start(s, gpus) ==
    [s EXCEPT !.machine.status = "Rented", !.gpus = @ + gpus]

(* The number after this one is free: the code would look for it forever.   *)
get_new_rent_id(s) == [s EXCEPT !.next_rent = @ + 1]

rent_machine(r, gpus, wanted) ==
    LET duration == Lower(wanted, MAX_RENTAL)
        fee == rent_fee_of(gpus, duration)
        s == change_renter_total_stake(pay_fixed_tx_fee(storage, r), r, fee)
        id == NextRentId
        index == gen_rentable_gpu(MachineRentOrder.used, gpus)
    IN /\ MachinesInfo # None /\ id < MaxOrders
       /\ MachinesInfo.gpus # 0 /\ wanted # 0
       /\ gpus + MachineRentedGPU <= MachinesInfo.gpus
       /\ wanted % HALF_HOUR = 0
       /\ can_rent(MachinesInfo)
       /\ id + 1 \notin DOMAIN RentOrder
       /\ Dispatch([change_machine_status_on_rent_start(get_new_rent_id(s), gpus) EXCEPT
              !.of_machine = [orders |-> @.orders \cup {id}, used |-> @.used \cup index],
              !.rent = Put(@, id, NewOrder(r, now, now + duration, fee, gpus, index)),
              !.of_user[r] = @ \cup {id}, !.ending = @ \cup {<<now + duration, id>>},
              !.confirming = @ \cup {<<now + WAITING_CONFIRMING_DELAY, id>>}])

change_machine_status_on_confirmed(s, r) ==
    [Move(s, {"online"}, "rented") EXCEPT !.machine.renters = @ \cup {r}, !.stash.rented = @ + s.machine.gpus]

confirm_rent(r, id) ==
    LET order == RentOrder[id] IN
    /\ id \in DOMAIN RentOrder /\ order.renter = r /\ order.rent_status = "WaitingVerifying"
    /\ now - order.rent_start <= WAITING_CONFIRMING_DELAY
    /\ MachinesInfo # None /\ MachinesInfo.status = "Rented"
    /\ Dispatch([change_machine_status_on_confirmed(storage, r) EXCEPT
           !.rent[id].rent_status = "Renting",
           !.confirming = @ \ {<<order.rent_start + WAITING_CONFIRMING_DELAY, id>>}])

(* An order that would last too long is extended by sixty days.             *)
relet_machine(r, id, duration) ==
    LET order == RentOrder[id]
        added == IF now + SIXTY_DAYS >= order.rent_end + duration THEN duration ELSE SIXTY_DAYS
        fee == rent_fee_of(order.gpu_num, added)
        end == order.rent_end + added
    IN /\ id \in DOMAIN RentOrder /\ order.renter = r /\ order.rent_status = "Renting"
       /\ duration >= MIN_RELET /\ MachinesInfo # None
       /\ fee < free[r]
       /\ Dispatch([change_renter_total_stake(storage, r, fee) EXCEPT
              !.rent[id].rent_end = end, !.rent[id].stake_amount = @ + fee,
              !.ending = (@ \ {<<order.rent_end, id>>}) \cup {<<end, id>>}])

(* The rent of an order: five percent to the pot, one percent to the        *)
(* members that verified the machine, the rest to the owner, who stakes it  *)
(* until the stake of the machine is complete.  What the renter does not    *)
(* owe is returned.  The renter has what it pays: it was reserved.          *)
Pay(s, from, to, amount) ==
    IF s.free[from] < amount THEN s ELSE [s EXCEPT !.free[from] = @ - amount, !.free[to] = @ + amount]


stake_rent(s, amount) ==
    LET room == Less(stake_per_gpu_limit * s.machine.gpus, s.machine.stake)
        t == reserve(s, Stash, Lower(amount, room))
    IN IF room = 0 THEN Ok(s)
       ELSE IF t.ok THEN [t EXCEPT !.machine.stake = @ + Lower(amount, room)] ELSE t

pay_rent_fee(s, order, fee) ==
    LET r == order.renter
        burned == PercentOf(5, fee)
        each == ShareOf(Cardinality(s.machine.reward), fee - PercentOf(99, fee))
        rest == Less(Less(fee, burned), each * Cardinality(s.machine.reward))
        shared == Always(LAMBDA acc, c : Pay(acc, r, c, each),
                         Pay(unreserve(s, r, order.stake_amount), r, Pot, burned),
                         Sorted(s.machine.reward))
    IN IF s.machine = None THEN Fail(s) ELSE stake_rent(Pay(shared, r, Stash, rest), rest)

clean_expired_order(of_machine, id, order) ==
    [orders |-> of_machine.orders \ {id}, used |-> of_machine.used \ order.gpu_index]

(* The renter stays listed if the remaining orders begin with one of its    *)
(* own, or if there are none.                                               *)
terminate_rent(r, id) ==
    LET order == RentOrder[id]
        fee == RatioOf(now - order.rent_start, order.rent_end - order.rent_start, order.stake_amount)
        left == clean_expired_order(MachineRentOrder, id, order)
        first == CHOOSE i \in left.orders : \A j \in left.orders : i <= j
        stays == left.orders = {} \/ RentOrder[first].renter = r
        s == [storage EXCEPT !.of_machine = left,
                             !.machine.renters = IF stays THEN @ ELSE @ \ {r}]
    IN /\ id \in DOMAIN RentOrder /\ order.renter = r /\ MachinesInfo # None
       /\ left.orders \subseteq DOMAIN RentOrder
       /\ Dispatch([pay_rent_fee(s, order, fee) EXCEPT !.rent = Without(@, id)])

(* All orders of the machine are paid for the whole hours they lasted.      *)
end_all_orders(s) ==
    LET close(acc, id) ==
            LET order == acc.rent[id]
                hours == ((acc.now - order.rent_start) \div ONE_HOUR) * ONE_HOUR
                fee == RatioOf(hours, order.rent_end - order.rent_start, order.stake_amount)
            IN IF id \notin DOMAIN acc.rent THEN Fail(acc)
               ELSE [pay_rent_fee(acc, order, fee) EXCEPT !.rent = Without(@, id)]
    IN [WhileOk(close, s, Sorted(s.of_machine.orders)) EXCEPT !.of_machine = NoOrdersOfMachine]

machine_offline ==
    /\ Owned /\ MachinesInfo.last_online + ONE_DAY <= now
    /\ LET s == [storage EXCEPT !.machine = [offline_info(@, now) EXCEPT !.renters = {}]]
       IN Dispatch([end_all_orders(s) EXCEPT !.offline = @ \cup {now + TEN_DAYS}])

(* The entry that is looked up is the one of the block it went offline.     *)
machine_online ==
    /\ Owned /\ MachinesInfo.status = "StakerReportOffline"
    /\ Dispatch([storage EXCEPT !.offline = @ \ {MachinesInfo.offline_at},
                                !.machine = [@ EXCEPT !.status = "Online", !.last_online = now]])

machine_exit ==
    /\ Owned /\ now - MachinesInfo.online_height >= ONE_YEAR
    /\ LET s == end_all_orders(storage)
           t == unreserve(s, Stash, MachinesInfo.stake)
       IN Dispatch([t EXCEPT !.machine = None, !.lists = @ \ {"online", "rented"},
              !.stash = stash_exit(@, MachinesInfo.gpus)])

-----------------------------------------------------------------------------
(* What the end of a block does to orders and to machines that are offline. *)
is_last_rent(s) ==
    Cardinality({id \in s.of_machine.orders : s.rent[id].rent_status = "Renting"}) < 2

change_machine_status_on_rent_end(s, order, last) ==
    LET t == [s EXCEPT !.machine.renters = @ \ {order.renter}, !.gpus = Less(@, order.gpu_num)]
        back == [Move(t, {"rented"}, "online") EXCEPT
                    !.machine.status = "Online", !.stash.rented = Less(@, s.machine.gpus)]
    IN IF s.machine = None THEN s
       ELSE IF s.machine.gpus = 0 THEN s
       ELSE IF s.machine.status \in {"ReporterReportOffline", "StakerReportOffline"}
       THEN [t EXCEPT !.finished = order.renter]
       ELSE IF s.machine.status = "Rented" /\ last THEN back ELSE t

clean_order(s, id) ==
    LET order == s.rent[id] IN
    [s EXCEPT !.ending = @ \ {<<order.rent_end, id>>},
              !.confirming = @ \ {<<order.rent_start + WAITING_CONFIRMING_DELAY, id>>},
              !.of_machine = clean_expired_order(@, id, order),
              !.of_user[order.renter] = @ \ {id}, !.rent = Without(@, id)]


(* One order that is gone, or a machine one of whose orders is, ends the    *)
(* work on all orders of the block.                                         *)
finish(s, id) ==
    LET order == s.rent[id]
        paid == pay_rent_fee(s, order, order.stake_amount)
    IN IF id \notin DOMAIN s.rent THEN Fail(s)
       ELSE IF ~(s.of_machine.orders \subseteq DOMAIN s.rent) THEN Fail(paid)
       ELSE Ok(clean_order(change_machine_status_on_rent_end(paid, order, is_last_rent(paid)), id))

(* Mistake: the orders of a block are closed in the next one.               *)
EndingBefore(s, block) == {id \in 0..s.next_rent : <<block - 1, id>> \in s.ending}

EndingAt(s, block) == {id \in 0..s.next_rent : <<block, id>> \in s.ending}
check_if_rent_finished(s) == Ok(WhileOk(finish, s, Sorted(EndingAt(s, s.now))))

check_if_offline_timeout(s) ==
    LET slashed == IF s.machine.status = "StakerReportOffline"
                   THEN slash_and_reward(s, <<Stash>>, s.machine.stake, <<>>) ELSE s
    IN IF s.now \notin s.offline \/ s.machine = None THEN s
       ELSE [slashed EXCEPT !.machine.stake = 0, !.offline = @ \ {s.now}]

-----------------------------------------------------------------------------
(* Reports, of one kind of fault: the pallet has its own copy of the code   *)
(* that FaultReports describes.                                             *)
stake_report(s, r) == pay_stake_when_report(s, r)
file_report(s, r) == do_report_machine_fault(s, r, "counterfeit", s.now)
change_stake_of_reporter(s, r, amount, is_add) == change_reporter_stake(s, r, amount, is_add)
book_fault_report(s, c, id) == book_report(s, c, id)
after_submit_raw(s, id) == summary_after_submit_raw(s, id)

report_machine_fault(r) ==
    /\ NextReportId < MaxReports
    /\ Dispatch(file_report(stake_report(storage, r), r))

reporter_add_stake(r, amount) == Dispatch(change_stake_of_reporter(storage, r, amount, TRUE))

reporter_reduce_stake(r, amount) == Dispatch(change_stake_of_reporter(storage, r, amount, FALSE))

reporter_cancel_report(r, id) == Dispatch(cancel_report(storage, r, id))

committee_book_report(c, id) ==
    /\ c \in normal /\ can_book(ReportInfo[id], c)
    /\ Dispatch(book_fault_report(change_used_stake(storage, c, StakePerOrder, TRUE), c, id))

reporter_add_encrypted_error_info(r, id, c, genuine) == Dispatch(add_encrypted(storage, r, id, c, genuine))

committee_submit_verify_hash(c, id, support) == Dispatch(submit_hash(storage, c, id, support))

committee_submit_verify_raw(c, id, support) == Dispatch(submit_raw(storage, c, id, support))

report_verifying(s, id) ==
    IF id \notin DOMAIN s.info THEN s
    ELSE IF ~can_summary_fault(s.info[id]) THEN s
    ELSE IF s.now - s.info[id].first_book_time < THREE_HOURS THEN summary_before_submit_raw(s, id)
    ELSE after_submit_raw(s, id)

(* A report that is upheld takes the machine offline.                       *)
offline_by_report(s) ==
    IF s.machine = None THEN Fail(s)
    ELSE Ok([Move(s, {"online", "rented"}, "offline") EXCEPT !.machine.status = "ReporterReportOffline"])

report_submitting_raw(s, id) == summary_submitting_raw(s, id, offline_by_report(s))

summary_fault_report_hook(s) ==
    LET verified == Always(report_verifying, s, Sorted(s.live.verifying) \o Sorted(s.live.bookable)) IN
    Always(report_submitting_raw, verified, Sorted(s.live.waiting_raw))

exec_report_slash(s) == exec_slash(s, s.now)

-----------------------------------------------------------------------------
on_finalize(s, team) ==
    exec_report_slash(check_if_offline_timeout(check_if_rent_finished(distribute_machines(s, team))))

on_initialize(s) == summary_fault_report_hook(check_and_exec_pending_slash(s))

next_block ==
    LET verified == statistic_online_verify(storage) IN
    /\ now < MaxBlock
    /\ now' = now + 1
    /\ \E team \in Teams(verified) :
          Store(on_initialize([on_finalize(verified, team) EXCEPT !.now = now + 1]))
    /\ UNCHANGED StashController

Owner ==
    \/ set_controller \/ gen_server_room \/ bond_machine
    \/ \E room \in StashServerRooms : add_machine_info(room)
    \/ machine_offline \/ machine_online \/ machine_exit
Renter ==
    \E r \in Renters :
        \/ \E gpus \in 1..GpuNum, d \in Durations : rent_machine(r, gpus, d)
        \/ \E id \in DOMAIN RentOrder :
              \/ confirm_rent(r, id) \/ terminate_rent(r, id)
              \/ \E d \in Durations : relet_machine(r, id, d)
Member ==
    \E c \in Members :
        \/ \E v \in Votes : submit_confirm_hash(c, v) \/ submit_confirm_raw(c, v)
        \/ \E id \in DOMAIN ReportInfo :
              \/ committee_book_report(c, id)
              \/ \E support \in BOOLEAN :
                    committee_submit_verify_hash(c, id, support) \/ committee_submit_verify_raw(c, id, support)
Reporter ==
    \E r \in Reporters :
        \/ report_machine_fault(r)
        \/ \E amount \in Amounts : reporter_add_stake(r, amount) \/ reporter_reduce_stake(r, amount)
        \/ \E id \in DOMAIN ReportInfo :
              \/ reporter_cancel_report(r, id)
              \/ \E c \in Members, genuine \in BOOLEAN : reporter_add_encrypted_error_info(r, id, c, genuine)

Next == Owner \/ Renter \/ Member \/ Reporter \/ next_block
Spec == Init /\ [][Next]_vars

-----------------------------------------------------------------------------
(* Properties.                                                              *)
OrdersOf(r) == {id \in DOMAIN RentOrder : RentOrder[id].renter = r}
SumOver(ids, value(_)) == MapThenSumSet(value, ids)
NotYetDue == {id \in UnhandledOnlineSlash : PendingOnlineSlash[id].slash_exec_time > now}


(* The open orders are those the machine lists; no two use a gpu, and the   *)
(* counter that rent_machine compares covers them all.                      *)
GpusCounted ==
    /\ DOMAIN RentOrder = MachineRentOrder.orders
    /\ MachineRentOrder.used = UNION {RentOrder[id].gpu_index : id \in DOMAIN RentOrder}
    /\ MachineRentedGPU >= SumOver(DOMAIN RentOrder, LAMBDA id : RentOrder[id].gpu_num)
    /\ Cardinality(MachineRentOrder.used) = SumOver(DOMAIN RentOrder, LAMBDA id : RentOrder[id].gpu_num)


(* An order is closed in the block it ends in, unless an order that was     *)
(* terminated, or stopped by the owner, is still listed for that block or   *)
(* for the one the order was to end in before it was extended: it ends the  *)
(* work of check_if_rent_finished.                                          *)
ClosedOnTime ==
    \A id \in DOMAIN RentOrder : RentOrder[id].rent_end < now =>
        \E entry \in PendingRentEnding :
            entry[1] <= RentOrder[id].rent_end /\ entry[2] \notin DOMAIN RentOrder

=============================================================================
