---------------------------- MODULE RentMachine ----------------------------
(***************************************************************************)
(* The rent-machine pallet on top of online-profile: orders for some of a  *)
(* machine's gpus, which their renters confirm, extend and let run out.    *)
(* The two pallets keep their own count of the gpus in use, by order here  *)
(* (used_gpu) and by machine there (MachineRentedGPU).                     *)
(***************************************************************************)
EXTENDS GenericFunc, FiniteSetsExt

CONSTANTS
    Renters, rent_fee_pot,
    Durations, ReletDurations,  \* what a renter may ask for
    GpuPrice, GpuPoint,     \* StandardGPUPointPrice
    OneDbc, DbcPrice,
    WAITING_CONFIRMING_DELAY, MaximumRental, MaximumRelet,
    MaxOrders               \* bound

ASSUME RentParams ==
    /\ Renters \subseteq Accounts /\ rent_fee_pot \in Accounts
    /\ Renters \cap (Stashes \cup {Treasury, rent_fee_pot}) = {}
    /\ Durations \subseteq Nat \ {0} /\ ReletDurations \subseteq Nat \ {0}
    /\ WAITING_CONFIRMING_DELAY \in Nat \ {0}

VARIABLES
    RentInfo, NextRentId, UserOrder, UserTotalStake,
    rent_order, used_gpu,               \* MachineRentOrder
    ConfirmingOrder, RentEnding         \* by block

order_vars == <<RentInfo, NextRentId, UserOrder, UserTotalStake, rent_order, used_gpu,
                ConfirmingOrder, RentEnding>>
vars == <<now, profile_vars, generic_vars, order_vars>>

OrderIds == 0..(MaxOrders - 1)
Blocks == 0..MaxBlock
Orders == {id \in OrderIds : RentInfo[id] # None}

Init ==
    /\ ProfileInit /\ GenericInit
    /\ RentInfo = [id \in OrderIds |-> None]
    /\ NextRentId = 0
    /\ UserOrder = [r \in Renters |-> {}]
    /\ UserTotalStake = [r \in Renters |-> 0]
    /\ rent_order = [m \in Machines |-> {}]
    /\ used_gpu = [m \in Machines |-> {}]
    /\ ConfirmingOrder = [t \in Blocks |-> {}]
    /\ RentEnding = [t \in Blocks |-> {}]

-----------------------------------------------------------------------------

(* The first need of the gpus 0 .. total-1 that are not in use; fewer if    *)
(* there are not so many.                                                   *)
gen_rentable_gpu(used, need, total) ==
    LET idle == (0..(total - 1)) \ used IN
    {i \in idle : Cardinality({j \in idle : j < i}) < need}

fits(m, gpus) == gpus + MachineRentedGPU[m] <= MachinesInfo[m].gpu

reserve(b, who, amount) ==
    [b EXCEPT !.free[who] = @ - amount, !.reserved[who] = @ + amount]

unreserve(b, who, amount) ==
    LET moved == Lower(amount, b.reserved[who]) IN
    [b EXCEPT !.free[who] = @ + moved, !.reserved[who] = @ - moved]

get_machine_price(need_gpu, total_gpu) ==
    ((((GpuPrice * CalcPoint * 10000) \div GpuPoint) * need_gpu) \div total_gpu) \div 10000

get_dbc_amount_by_value(value) == (value * OneDbc) \div DbcPrice

rent_fee_of(m, gpus, duration) ==
    get_dbc_amount_by_value((get_machine_price(gpus, MachinesInfo[m].gpu) * duration) \div ONE_DAY)

(* Ids do not wrap within the bound and come one by one, so that the next   *)
(* one is free when it is looked for.                                       *)
get_new_rent_id == NextRentId' = NextRentId + 1

RentOrder(m, r, duration, fee, gpus, index) ==
    [machine |-> m, renter |-> r, start |-> now, end |-> now + duration,
     stake |-> fee, status |-> "WaitingVerifying", gpu_num |-> gpus, gpu_index |-> index]

(* A renter asks for gpus of a machine that is free or rented in part.      *)
rent_machine(r, m, gpus, wanted) ==
    LET duration == Lower(wanted, MaximumRental)
        fee == rent_fee_of(m, gpus, duration)
        paid == pay_fixed_tx_fee(balances, r)
        index == gen_rentable_gpu(used_gpu[m], gpus, MachinesInfo[m].gpu)
        id == NextRentId
    IN /\ m \in Bonded /\ MachinesInfo[m].gpu # 0
       /\ fits(m, gpus)
       /\ Kind(m) \in {"Online", "Rented"}
       /\ free[r] >= FixedTxFee /\ paid.free[r] >= fee
       /\ id \in OrderIds
       /\ now + duration \in Blocks /\ now + WAITING_CONFIRMING_DELAY \in Blocks
       /\ SetBalances(reserve(paid, r, fee))
       /\ UserTotalStake' = [UserTotalStake EXCEPT ![r] = @ + fee]
       /\ get_new_rent_id
       /\ SetProfile(change_machine_status_on_rent_start(profile, m, gpus))
       /\ RentInfo' = [RentInfo EXCEPT ![id] = RentOrder(m, r, duration, fee, gpus, index)]
       /\ UserOrder' = [UserOrder EXCEPT ![r] = @ \cup {id}]
       /\ rent_order' = [rent_order EXCEPT ![m] = @ \cup {id}]
       /\ used_gpu' = [used_gpu EXCEPT ![m] = @ \cup index]
       /\ RentEnding' = [RentEnding EXCEPT ![now + duration] = @ \cup {id}]
       /\ ConfirmingOrder' =
              [ConfirmingOrder EXCEPT ![now + WAITING_CONFIRMING_DELAY] = @ \cup {id}]
       /\ UNCHANGED <<now, owner_vars, slash_vars, report_vars, UserMutHardwareStake, oc_slash,
                      stake_per_gpu, generic_vars>>

(* The fee is split between the owner, whose machines it tops up, and the   *)
(* pot; the result is [info, b].                                            *)
pay_rent_fee(b, r, s, fee) ==
    LET destroyed == PercentOf(Scores.sys.percent, fee)
        kept == fee - destroyed
    IN change_machine_rent_fee(
           transfer(transfer(b, r, s, kept), r, rent_fee_pot, destroyed), s, kept)

confirm_rent(id) ==
    LET o == RentInfo[id]
        m == o.machine
        paid == pay_rent_fee(unreserve(balances, o.renter, o.stake), o.renter,
                             MachinesInfo[m].stash, o.stake)
        due == o.start + WAITING_CONFIRMING_DELAY
    IN /\ id \in Orders /\ o.status = "WaitingVerifying"
       /\ now - o.start <= WAITING_CONFIRMING_DELAY
       /\ m \in Bonded /\ Kind(m) = "Rented"
       /\ UserTotalStake[o.renter] >= o.stake
       /\ UserTotalStake' = [UserTotalStake EXCEPT ![o.renter] = @ - o.stake]
       /\ SetBalances(paid.b)
       /\ SetProfile(change_machine_status_on_confirmed([profile EXCEPT !.info = paid.info],
                                                        m, o.renter))
       /\ ConfirmingOrder' = [ConfirmingOrder EXCEPT ![due] = @ \ {id}]
       /\ RentInfo' = [RentInfo EXCEPT ![id].status = "Renting", ![id].stake = 0]
       /\ UNCHANGED <<now, NextRentId, UserOrder, rent_order, used_gpu, RentEnding, owner_vars,
                      slash_vars, report_vars, UserMutHardwareStake, oc_slash, stake_per_gpu,
                      generic_vars>>

(* Mistake: the order stays in the list of its former end.                  *)
move_ending_copy(ending, id, old, new) == [ending EXCEPT ![new] = @ \cup {id}]

move_ending(ending, id, old, new) ==
    [ending EXCEPT ![old] = @ \ {id}, ![new] = @ \cup {id}]

relet_machine(id, wanted) ==
    LET o == RentInfo[id]
        m == o.machine
        added == Less(Lower(o.end + wanted, now + MaximumRelet), o.end)
        fee == rent_fee_of(m, o.gpu_num, added)
        paid == pay_rent_fee(balances, o.renter, MachinesInfo[m].stash, fee)
    IN /\ id \in Orders /\ o.status = "Renting"
       /\ m \in Bonded /\ MachinesInfo[m].gpu # 0
       /\ added > 0
       /\ fee < free[o.renter]
       /\ o.end + added \in Blocks
       /\ SetBalances(paid.b)
       /\ SetProfile([profile EXCEPT !.info = paid.info])
       /\ RentInfo' = [RentInfo EXCEPT ![id].end = @ + added]
       /\ RentEnding' = move_ending(RentEnding, id, o.end, o.end + added)
       /\ UNCHANGED <<now, NextRentId, UserOrder, UserTotalStake, rent_order, used_gpu,
                      ConfirmingOrder, owner_vars, slash_vars, report_vars,
                      UserMutHardwareStake, oc_slash, stake_per_gpu, generic_vars>>

-----------------------------------------------------------------------------
(* on_finalize.  The state of the hooks is x, with ok false once a loop was *)
(* left early.                                                              *)
hook_state == [ok |-> TRUE, p |-> profile, b |-> balances, info |-> RentInfo,
               user |-> UserOrder, total |-> UserTotalStake, orders |-> rent_order,
               used |-> used_gpu, confirming |-> ConfirmingOrder, ending |-> RentEnding]

(* change_renter_total_stake of the hooks, whose error is ignored.          *)
return_stake(x, r, amount) ==
    IF x.total[r] < amount THEN x
    ELSE [x EXCEPT !.b = unreserve(@, r, amount), !.total[r] = @ - amount]

(* Return the stake, if any, and forget the order.                          *)
remove_order(x, id) ==
    LET o == x.info[id] IN
    [return_stake(x, o.renter, o.stake) EXCEPT
              !.user[o.renter] = @ \ {id},
              !.ending[o.end] = @ \ {id},
              !.orders[o.machine] = @ \ {id},
              !.used[o.machine] = @ \ o.gpu_index,
              !.info[id] = None]

check_machine_starting_status(x0) ==
    LET expire(x, id) ==
            LET o == x.info[id]
                removed == remove_order(x, id)
                r == change_machine_status_on_confirm_expired(x.p, o.machine, o.gpu_num)
            IN IF ~ x.ok THEN x
               ELSE [removed EXCEPT !.ok = r.ok, !.p = r.p, !.confirming[now] = @ \ {id}]
    IN FoldLeft(expire, x0, Sorted(ConfirmingOrder[now]))

(* Whether id is the last order in use of its machine, and its renter's     *)
(* last.                                                                    *)
machine_last(x, m) ==
    Cardinality({i \in x.orders[m] : x.info[i].status = "Renting"}) < 2
renter_last(x, m, r) ==
    Cardinality({i \in x.orders[m] : x.info[i].renter = r}) < 2

check_if_rent_finished(x0) ==
    LET finish(x, id) ==
            LET o == x.info[id] IN
            [remove_order(x, id) EXCEPT !.p =
                change_machine_status_on_rent_end(x.p, o.machine, o.gpu_num,
                    machine_last(x, o.machine), renter_last(x, o.machine, o.renter), o.renter)]
    IN FoldLeft(finish, x0, Sorted(x0.ending[now]))

(* The end of the block, and the start of the next.                         *)
next_block ==
    LET x == check_if_rent_finished(check_machine_starting_status(hook_state))
        destroy == destroy_on_initialize(x.b, now + 1)
    IN
    /\ now < MaxBlock
    /\ now' = now + 1
    /\ RentInfo' = x.info /\ UserOrder' = x.user /\ UserTotalStake' = x.total
    /\ rent_order' = x.orders /\ used_gpu' = x.used
    /\ ConfirmingOrder' = x.confirming /\ RentEnding' = x.ending
    /\ TotalDestroy' = destroy.destroyed
    /\ on_initialize(x.p, destroy.b, now + 1)
    /\ UNCHANGED <<NextRentId, DestroyHook, owner_vars, report_vars, UserMutHardwareStake, oc_slash,
                   stake_per_gpu>>

RenterCall ==
    \/ \E r \in Renters, m \in Machines, gpus \in {0} \cup GpuNums, d \in Durations :
          rent_machine(r, m, gpus, d)
    \/ \E id \in OrderIds : confirm_rent(id) \/ \E d \in ReletDurations : relet_machine(id, d)

(* Only the renter of an order may report its machine as inaccessible.      *)
Report(r, m, reason) ==
    /\ reason = "RentedInaccessible" =>
          \E id \in Orders : RentInfo[id].machine = m /\ RentInfo[id].renter = r
    /\ report_machine_fault(r, m, reason)
    /\ UNCHANGED <<now, order_vars, generic_vars>>

CloseReport(r, refused) ==
    /\ change_reporter_stake_on_report_close(r, refused)
    /\ UNCHANGED <<now, order_vars, generic_vars>>

RentNext ==
    \/ RenterCall
    \/ ProfileCall /\ UNCHANGED <<order_vars, generic_vars>>
    \/ \E r \in Renters :
          \/ \E m \in Machines, reason \in Faults : Report(r, m, reason)
          \/ \E refused \in BOOLEAN : CloseReport(r, refused)
    \/ next_block

Next == RentNext \/ (GenericCall /\ UNCHANGED order_vars)

Spec == Init /\ [][Next]_vars

-----------------------------------------------------------------------------
OrdersOf(m) == {id \in Orders : RentInfo[id].machine = m}
SumOver(S, f(_)) == FoldSet(LAMBDA x, acc : acc + f(x), 0, S)

(* Every storage item has its type; an order is of a renter for a machine   *)
(* and its stake is gone once it is confirmed (RentOrderDetail, MachineInfo). *)
TypeOK ==
    /\ \A m \in Bonded :
          LET i == MachinesInfo[m] IN
          /\ i.stash \in Stashes /\ i.gpu \in {0} \cup GpuNums /\ i.stake \in Nat
          /\ i.renters \subseteq Renters /\ i.last_online \in 0..now
          /\ \A k \in 1..Len(i.status) : i.status[k].kind \in Kinds
    /\ \A id \in Orders :
          LET o == RentInfo[id] IN
          /\ o.machine \in Machines /\ o.renter \in Renters
          /\ o.start \in 0..now /\ o.end \in Blocks
          /\ o.status \in {"WaitingVerifying", "Renting"}
          /\ o.status = "Renting" => o.stake = 0
    /\ \A a \in Accounts : free[a] \in Nat /\ reserved[a] \in Nat
    /\ \A m \in Machines : MachineRentedGPU[m] \in Nat

(* Every order holds as many gpus as it pays for, no two orders of a        *)
(* machine share one, and used_gpu is what the orders hold                  *)
(* (gen_rentable_gpu, clean_expired_order).                                 *)
GpusDisjoint ==
    \A m \in Machines :
       /\ used_gpu[m] = UNION {RentInfo[id].gpu_index : id \in OrdersOf(m)}
       /\ \A id \in OrdersOf(m) :
             /\ Cardinality(RentInfo[id].gpu_index) = RentInfo[id].gpu_num
             /\ \A other \in OrdersOf(m) \ {id} :
                   RentInfo[id].gpu_index \cap RentInfo[other].gpu_index = {}

(* online-profile's count of the gpus in use never falls below what the     *)
(* orders hold, and is exact as long as the machine was never refused and   *)
(* has had one owner: to leave with orders open leaves a count behind       *)
(* (MachineRentedGPU).                                                      *)
CountCoversOrders ==
    \A m \in Machines :
       LET held == SumOver(OrdersOf(m), LAMBDA id : RentInfo[id].gpu_num) IN
       /\ MachineRentedGPU[m] >= held
       /\ (/\ m \in Bonded \ LiveMachines["refused"]
           /\ \E s \in Stashes : \A x \in Stashes : m \in total_machine[x] <=> x = s)
             => MachineRentedGPU[m] = held

(* What is reserved of a renter is the stake of the orders that await       *)
(* confirmation, which UserTotalStake says, and what the renter staked as a *)
(* reporter: the two pallets share one reserve and neither takes from the   *)
(* other's part (change_renter_total_stake, pay_stake_when_report).         *)
StakeOfOrders ==
    \A r \in Renters :
       /\ UserTotalStake[r] = SumOver({id \in Orders : RentInfo[id].renter = r},
                                      LAMBDA id : RentInfo[id].stake)
       /\ reserved[r] = UserTotalStake[r] + ReporterStake[r].staked

(* The indexes UserOrder, MachineRentOrder and RentEnding list exactly the  *)
(* open orders, each under its own end even after a relet, so no order      *)
(* outlives its end, not even when the hook gives up on the confirmations   *)
(* of a block (check_machine_starting_status, check_if_rent_finished).      *)
OrdersIndexed ==
    /\ \A r \in Renters : UserOrder[r] = {id \in Orders : RentInfo[id].renter = r}
    /\ \A m \in Machines : rent_order[m] = OrdersOf(m)
    /\ \A t \in Blocks : RentEnding[t] = {id \in Orders : RentInfo[id].end = t}
    /\ \A id \in Orders : RentInfo[id].end >= now

(* Fees, slashes and returned stakes move coins and neither make nor lose   *)
(* any, rounding of shares included; only claimed rewards add some, and     *)
(* what is destroyed is on record (GNOps::slash_and_reward, pay_rent_fee,   *)
(* claim_rewards, do_destroy_dbc).                                          *)
IssuanceKept ==
    SumOver(Accounts, LAMBDA a : free[a] + reserved[a] + TotalDestroy[a]) =
        Endowment * Cardinality(Accounts) + SumOver(Stashes, LAMBDA s : Scores.stash[s].claimed)

(* StashStake never promises more than the reserve holds, and total_stake   *)
(* of SysInfo is at most the sum over the owners.  It is less once a slash  *)
(* met an owner with too small a stake, which happens when a controller     *)
(* moves to another owner while its review is pending: the owner's record   *)
(* stops at zero and the total falls by all of it (change_stake,            *)
(* slash_and_reward, check_pending_slash).                                  *)
StakeBacked ==
    /\ \A s \in Stashes : reserved[s] >= StashStake[s]
    /\ total_stake <= SumOver(Stashes, LAMBDA s : StashStake[s])

(* No gpu is rented twice: the orders' own indexes are disjoint and the     *)
(* count that admits the next order covers them (rent_machine_by_block,     *)
(* clean_expired_order).                                                    *)
GpusCounted == GpusDisjoint /\ CountCoversOrders


(* Every day pays out its whole list of machines, and a machine that only   *)
(* one owner ever listed gets exactly one reward a day from the day after it came     *)
(* online, whether it is online or not (backup_and_reward, add_new_reward). *)
DailyReward ==
    LET offset == (now - EraOffset) % EraLength
        settled == offset >= LastPayOffset - EraOffset
    IN /\ settled \/ offset < SnapOffset - EraOffset => Scores.snap.ids = <<>>
       /\ \A m \in Machines :
             LET r == Scores.recent[m]
                 days == current_era - (r.deadline - REWARD_DURATION) - (IF settled THEN 0 ELSE 1)
             IN (/\ r # None
                 /\ m \notin LiveMachines["refused"]
                 /\ \A s \in Stashes : m \in total_machine[s] <=> s = r.stash
                 /\ settled \/ offset < SnapOffset - EraOffset)
                => Len(r.days) \in {Lower(Upper(0, days), RecentDays), Lower(days + 1, RecentDays)}

(* What an owner has claimed and can claim never exceeds the owner's part   *)
(* of the rewards so far, but for the rounding of each share: the release   *)
(* of a reward over the days ends before the whole of it                    *)
(* (distribute_reward_to_machine, claim_rewards).                           *)
ReleasedWithinEarned ==
    \A s \in Stashes :
       LET a == Scores.stash[s] IN
       a.claimed + a.can_claim <= a.earned + 2 * Cardinality(Machines) * current_era

(* A machine with an order that runs is not Online: what                    *)
(* controller_report_online restores depends on the state of the orders.    *)
OnlineIsIdle ==
    \A id \in Orders :
       LET o == RentInfo[id] IN
       o.status = "Renting" /\ o.machine \in Bonded => Kind(o.machine) # "Online"

=============================================================================
