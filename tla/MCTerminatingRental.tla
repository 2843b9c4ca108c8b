------------------------ MODULE MCTerminatingRental ------------------------
(* Instance of TerminatingRental for TLC: one machine of two gpus, three   *)
(* members who act in one order, two renters.                              *)
EXTENDS TerminatingRental, TLC

Committed == {CommitteeOnlineOps[c].confirm_hash : c \in Members} \ {None}
Started == now >= 2 => LiveMachines # {} /\ LiveMachines # {"bonding"}
InOrder == \A c \in {2, 3} :
              /\ c \in MachineCommittee.hashed => c - 1 \in MachineCommittee.hashed
              /\ c \in MachineCommittee.confirmed => c - 1 \in MachineCommittee.confirmed
              /\ \A id \in DOMAIN ReportInfo :
                    c \in ReportInfo[id].booked => c - 1 \in ReportInfo[id].booked
Accepted == /\ now >= 3 => CommitteeMachine[1].online # {}
            /\ PendingOnlineSlash = <<>> /\ Committed \subseteq Infos
            /\ (MachineCommittee.confirmed # {} => MachineCommittee.hashed = Members)
Unreported == NextReportId = 0 /\ \A r \in Reporters : ReporterStake[r].staked = 0
Unrented == NextRentId = 0
InService == OfflineMachines = {} /\ (now >= 3 => MachinesInfo # None)
NewestRenter(r) == 0 \in DOMAIN RentOrder => RentOrder[0].renter = r

NotAgain == now >= 3 => LiveMachines \cap {"bonding", "confirmed", "booked"} = {}

(* Every way to verify the machine; two orders; one order, and what the     *)
(* owner may do to it; an accepted machine that is verified again, and      *)
(* refused; a report, verified by up to two members.                        *)
Verifying == /\ Unreported /\ Unrented /\ OfflineMachines = {} /\ now <= 8
             /\ Len(PendingOnlineSlash) <= 1 /\ ("refused" \in LiveMachines => MachinesInfo = None)
             /\ ({"confirmed", "booked"} \subseteq LiveMachines => now <= 2)
             /\ StashStake <= OnlineDeposit
Renting == /\ Unreported /\ Accepted /\ InService /\ now <= 7 /\ NewestRenter(5)
           /\ (now >= 5 => NextRentId > 0)
Leaving == /\ Unreported /\ Accepted /\ NextRentId <= 1 /\ NewestRenter(5) /\ NotAgain
           /\ Cardinality(OfflineMachines) <= 2 /\ now <= 9
Again == /\ Unreported /\ (now <= 2 => Accepted) /\ (now >= 3 => CommitteeMachine[1].online # {})
         /\ Cardinality(Committed) <= 1 /\ (Committed # {} /\ now > 2 => Committed = {Oppose})
         /\ (MachineCommittee.confirmed # {} => MachineCommittee.hashed = Members)
         /\ NextRentId <= 1 /\ NewestRenter(5) /\ (now >= 3 => StashStake = 0)
         /\ Cardinality(OfflineMachines) <= 1 /\ now <= 5
Reporting == /\ Accepted /\ InService /\ NotAgain /\ Unrented
             /\ (now >= 4 => NextReportId = 1)
             /\ \A r \in Reporters : ReporterStake[r].staked # 0 => CommitteeMachine[1].online # {}
             /\ \A id \in DOMAIN ReportInfo : /\ Cardinality(ReportInfo[id].booked) <= 2
                                              /\ ReportInfo[id].first_book_time <= 4
             /\ \A c \in Members : \A id \in DOMAIN CommitteeReportOps[c] :
                    CommitteeReportOps[c][id].encrypted # FALSE

(* A behaviour keeps to one of the five.                                    *)
VARIABLE scenario
MCInit == Init /\ scenario \in {"Verifying", "Renting", "Leaving", "Again", "Reporting"}
Slices ==
    /\ Started /\ InOrder
    /\ CASE scenario = "Verifying" -> Verifying
         [] scenario = "Renting" -> Renting
         [] scenario = "Leaving" -> Leaving
         [] scenario = "Again" -> Again
         [] scenario = "Reporting" -> Reporting

MCSpec == MCInit /\ [][Next /\ UNCHANGED scenario /\ Slices']_<<vars, scenario>>
=============================================================================
