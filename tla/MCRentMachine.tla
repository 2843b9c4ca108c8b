--------------------------- MODULE MCRentMachine ---------------------------
(***************************************************************************)
(* Instance of RentMachine for TLC: two machines of at most two gpus, two  *)
(* owners, two renters.  A behaviour belongs to one of the slices, each   *)
(* of which follows one kind of trouble and keeps the others out.          *)
(***************************************************************************)
EXTENDS RentMachine

CONSTANTS SliceNames
VARIABLE slice

MCStarts == {{}, {1}, {1, 2}}
MCListed == {{1}}
MCVerifiers == <<"v", "w">>
MCPhaseRewards == <<1000, 400, 200>>

NoHardware == \A s \in Stashes, m \in Machines : UserMutHardwareStake[s][m] = None
Unreported == \A m \in Machines : report[m] = None
SamePrice == stake_per_gpu = StakePerGpuV2
Depth(m) == IF m \in Bonded THEN Len(MachinesInfo[m].status) ELSE 0
OnlyOwner == total_machine["t"] = {} /\ StashController["t"] = None
OneMachine == 2 \notin Bonded /\ \A s \in Stashes : 2 \notin total_machine[s]
FirstController == StashController["s"] \in {None, "c"}

(* Two orders of a machine that stays up.                                   *)
SliceOrders ==
    /\ OnlyOwner /\ FirstController /\ SamePrice /\ Unreported /\ NoHardware
    /\ NextSlashId = 0 /\ now <= 4
    /\ 0 \in Orders => RentInfo[0].renter = "r" /\ RentInfo[0].gpu_num # 0
    /\ Depth(1) = 1

(* An order of a machine that goes down and comes back with its slash,      *)
(* while the owner may change the controller, which another owner may take. *)
MovedController ==
    /\ total_machine["t"] = {} /\ StashController = [s |-> "d", t |-> "c"]
    /\ NextSlashId = 1

SliceOffline ==
    /\ OnlyOwner \/ MovedController
    /\ SamePrice /\ NoHardware /\ now <= 4
    /\ NextRentId = 1 \/ (now = 0 /\ Unreported)
    /\ ReporterStake["r"].staked \in {0, ReporterBaseline}
    /\ ReporterStake["r"].used = IF ReporterStake["r"].staked = 0 THEN 0 ELSE StakePerReport
    /\ FirstController \/ MovedController
       \/ (now = 3 /\ \E id \in SlashIds : PendingSlashReview[id] # None)
    /\ \A id \in Orders :
          /\ RentInfo[id].gpu_num = 2 /\ RentInfo[id].renter = "r"
          /\ RentInfo[id].end <= 2
    /\ Depth(1) \in 1..(IF NextSlashId = 0 \/ MaxSlashExeced[1] > 0 THEN 2 ELSE 1)

(* Reports of a rented machine, which the committee drops or refuses.       *)
SliceReport ==
    /\ OnlyOwner /\ FirstController /\ SamePrice /\ NoHardware /\ now <= 2
    /\ NextRentId = 1 \/ (now = 0 /\ Unreported)
    /\ \A id \in Orders : RentInfo[id].gpu_num = 2 /\ RentInfo[id].end <= 2
    /\ NextSlashId = 0 /\ Depth(1) = 1
    /\ free[Treasury] <= Endowment + 3 * FixedTxFee        \* two reports

(* An order of a machine that is forced out and bonded by another owner.    *)
SliceExit ==
    /\ SamePrice /\ Unreported /\ NextSlashId = 0 /\ NextRentId <= 1 /\ now <= 3
    /\ FirstController /\ StashController["t"] \in {None, "d"}
    /\ UserMutHardwareStake["s"][1] = None
    /\ free["d"] >= Endowment - FixedTxFee
    /\ \A id \in Orders : RentInfo[id].renter = "r" /\ RentInfo[id].start = 0
    /\ NextRentId = 1 \/ (now = 0 /\ 1 \in Bonded /\ OnlyOwner)
    /\ \A m \in Machines : Depth(m) <= 1

(* Two machines rented in the same block, of which the first is forced out  *)
(* before its order is confirmed: the hook stops at that order.             *)
SliceAbort ==
    /\ OnlyOwner /\ SamePrice /\ Unreported /\ NoHardware /\ NextSlashId = 0
    /\ total_machine["s"] = {1, 2} /\ StashController["s"] = "c" /\ 2 \in Bonded
    /\ NextRentId = 2 \/ (now = 0 /\ 1 \in Bonded)
    /\ now <= 4 /\ Depth(1) <= 1 /\ Depth(2) = 1
    /\ \A id \in Orders :
          LET o == RentInfo[id] IN
          /\ o.machine = id + 1 /\ o.renter = "r" /\ o.gpu_num = 2 /\ o.start = 0
          /\ o.machine = 1 => o.status = "WaitingVerifying"

(* No orders: bonding, verification, changes of hardware, stake, exit.      *)
SliceOwner ==
    /\ OnlyOwner /\ FirstController /\ Unreported
    /\ NextRentId = 0 /\ NextSlashId = 0
    /\ SamePrice \/ NoHardware
    /\ \A m \in Machines : Depth(m) > 1 => ~ NoHardware    \* down for a change only
    /\ free["c"] >= Endowment - FixedTxFee      \* bonds once
    /\ Bonded # {} => free["v"] <= Endowment + 1   \* one re-verification, two changes
    /\ \A m \in Bonded : reserved["s"] <= MachinesInfo[m].stake + 2 * (ReonlineStake + 1)
    /\ now <= IF 1 \in Scores.online["s"] /\ Scores.era >= StartEra THEN 4 ELSE 2

(* Two orders of a machine that the owner takes down and brings back.       *)
SliceReturn ==
    /\ OneMachine /\ OnlyOwner /\ FirstController /\ SamePrice /\ Unreported /\ NoHardware
    /\ \A id \in Orders : RentInfo[id].gpu_num = 1
    /\ now <= 6

(* Rewards over six days: two machines of an owner, of which one is taken   *)
(* down, rented or leaves.                                                  *)
SliceRewards ==
    /\ OnlyOwner /\ SamePrice /\ Unreported /\ NoHardware
    /\ total_machine["s"] = {1, 2} /\ StashController["s"] = "c"
    /\ NextRentId <= 1
    /\ \A id \in Orders : RentInfo[id].machine = 1 /\ RentInfo[id].renter = "r"
                           /\ RentInfo[id].gpu_num = 2
    /\ \A id \in SlashIds : PendingSlashReview[id] = None
    /\ 2 \in Bonded /\ Kind(2) = "Online"

(* An owner who takes one machine down for new hardware and so lacks the    *)
(* stake for all gpus of a second one, until the first one is let go.       *)
SliceFulfil ==
    /\ OnlyOwner /\ FirstController /\ Unreported /\ SamePrice
    /\ Scores.era = StartEra /\ now = 0 /\ free["c"] >= Endowment - FixedTxFee
    /\ NextRentId = 0 /\ NextSlashId = 0
    /\ 1 \notin LiveMachines["confirmed"] \cup LiveMachines["offline"]
    /\ 2 \in Bonded => Depth(2) = 1 /\ MachinesInfo[2].gpu # 1

(* An order of a machine while coins are destroyed and donated, at most     *)
(* one call of each kind, by the renter, the owner or for the pot.          *)
SliceDestroy ==
    /\ OnlyOwner /\ FirstController /\ SamePrice /\ Unreported /\ NoHardware
    /\ NextSlashId = 0 /\ NextRentId <= 1 /\ now <= 4 /\ Depth(1) = 1
    /\ \A id \in Orders : RentInfo[id].renter = "r" /\ RentInfo[id].gpu_num = 2 /\ RentInfo[id].end <= 4
    /\ \A a \in Accounts \ {"r", "s", "pot"} :
          TotalDestroy[a] = 0 /\ free[a] >= Endowment - FixedTxFee
    /\ TotalDestroy["r"] + TotalDestroy["s"] <= Max(DestroyAmounts)
    /\ free[Treasury] <= Endowment + Max(DestroyAmounts) + 2 * FixedTxFee

RewardBlocks == {1, 6, 13}
(* The report of the slice on offline machines is accepted.                 *)
MCReportStep ==
    slice = "offline" => report' = report \/ report[1] = None \/ Depth(1)' > Depth(1)

MCRewardStep == slice = "rewards" => now' # now \/ now \in RewardBlocks

Slices ==
    CASE slice = "rewards" -> SliceRewards
      [] slice = "fulfil" -> SliceFulfil
      [] slice = "orders" -> OneMachine /\ SliceOrders
      [] slice = "offline" -> OneMachine /\ SliceOffline
      [] slice = "report" -> OneMachine /\ SliceReport
      [] slice = "exit" -> OneMachine /\ SliceExit
      [] slice = "abort" -> SliceAbort
      [] slice = "owner" -> OneMachine /\ SliceOwner
      [] slice = "destroy" -> OneMachine /\ SliceDestroy
      [] slice = "return" -> SliceReturn

MCInit == Init /\ slice \in SliceNames /\ Slices
MCNext ==
    /\ IF slice = "destroy" THEN Next ELSE RentNext
    /\ MCRewardStep /\ MCReportStep /\ UNCHANGED slice /\ Slices'
MCSpec == MCInit /\ [][MCNext]_<<vars, slice>>
=============================================================================
