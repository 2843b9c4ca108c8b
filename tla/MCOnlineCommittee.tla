------------------------- MODULE MCOnlineCommittee -------------------------
(* Instance of OnlineCommittee for TLC: three members, so that a machine   *)
(* needs all of them; two machines, which together need more stake than a  *)
(* member may use.                                                         *)
EXTENDS OnlineCommittee, TLC

MCControllers == (1 :> 91) @@ (9 :> Stash)
MCSymmetry == Permutations(Infos)

Committed(m) == {CommitteeOps[c][m].confirm_hash : c \in Members} \ {None}
Changed == {m \in Machines : UserMutHardwareStake[m] # None}
Reviewed == {id \in DOMAIN PendingSlash : PendingSlash[id].slash_result = "Canceled"}

(* The members commit in one order, and reveal in any.                      *)
InOrder == \A c \in {2, 3}, m \in Machines :
              c \in MachineCommittee[m].hashed => c - 1 \in MachineCommittee[m].hashed

(* One machine, every way to verify it and to review the result; or a       *)
(* machine that comes back with other hardware after it was accepted by     *)
(* all; or two machines at a time, one of them verified alike by all.       *)
OneMachine == /\ Cardinality(Listed("new")) = 1 /\ Changed = {} /\ now <= 4 /\ InOrder
              /\ LiveMachines[11] \in {"online", "refused"} => Committed(11) = {}
              /\ \A id \in DOMAIN PendingSlash :
                    /\ PendingSlash[id].book_result = "Refused" => LiveMachines[11] = "refused"
                    /\ PendingSlash[id].slash_result # "Pending" => id \notin DOMAIN PendingSlashReview
NoReview == PendingSlashReview = <<>> /\ Reviewed = {}
Back == /\ Cardinality(Listed("new")) = 1 /\ NoReview
        /\ InOrder
        /\ Changed = {} => PendingSlash = <<>> /\ Cardinality(Committed(11)) <= 1
Both == /\ NoReview /\ Changed = {} /\ now <= 3
        /\ Cardinality(Committed(12)) <= 1 /\ InOrder
        /\ MachineCommittee[12].hashed # {} =>
              MachineCommittee[11].confirmed = Members \/ LiveMachines[11] # "booked"
Slices == OneMachine \/ Back \/ Both

MCSpec == Init /\ [][Next /\ Slices']_vars
=============================================================================
