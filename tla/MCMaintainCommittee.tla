------------------------ MODULE MCMaintainCommittee ------------------------
(* Instance of MaintainCommittee for TLC: one reporter, who is the renter,  *)
(* and three members, who book in one order.  A report without a verdict    *)
(* comes back under a second id.                                            *)
EXTENDS MaintainCommittee, TLC

Dropped(id) == IF id \in DOMAIN ReportResult THEN ReportResult[id].unruly ELSE {}
InOrder == \A id \in DOMAIN ReportInfo, c \in {2, 3} :
              c \in ReportInfo[id].booked => c - 1 \in ReportInfo[id].booked \cup Dropped(id)
FirstReview == \A id \in DOMAIN PendingSlashReview : ReportResult[id].slash_result # "Canceled"
Unchanged == \A r \in Reporters : ReporterStake[r].staked % 10 = 0
NoReview == PendingSlashReview = <<>> /\ \A id \in DOMAIN ReportResult : ReportResult[id].slash_result # "Canceled"
Genuine == \A c \in Members : \A id \in DOMAIN CommitteeOps[c] : CommitteeOps[c][id].encrypted # FALSE
Present == machine_status \in {"rented", "offline"}
Kind(f) == \A id \in DOMAIN ReportInfo : ReportInfo[id].fault = f
Voters(n) == \A id \in DOMAIN ReportInfo : Cardinality(ReportInfo[id].booked) <= n
Swift == \A c \in Members : \A id \in DOMAIN CommitteeOps[c] : CommitteeOps[c][id].booked_time = 1
One == NextReportId <= 1
Prompt == \A id \in DOMAIN ReportInfo : ReportInfo[id].first_book_time <= 1

(* Every way to verify; reviews of what two members decided; a changing     *)
(* stake; a report that comes back; a machine that leaves.                  *)
Verify == NoReview /\ Unchanged /\ Present /\ One
          /\ (Kind("inaccessible") \/ Voters(2) \/ (Prompt /\ Genuine))
Review == FirstReview /\ Prompt /\ Swift /\ Voters(2) /\ Genuine /\ Present /\ One /\ Unchanged
Again == Voters(1) /\ NextReportId <= 2 /\ Unchanged /\ NoReview /\ Present
Change == Voters(1) /\ One /\ NoReview /\ Present /\ Genuine /\ Kind("ordinary")
          /\ \A r \in Reporters : ReporterStake[r].staked \in {0} \cup 45..75
Leave == Voters(1) /\ One /\ NoReview /\ Unchanged

(* A behaviour keeps to one of the five.                                    *)
VARIABLE scenario
MCInit == Init /\ scenario \in {"Verify", "Review", "Again", "Change", "Leave"}
Slices ==
    /\ InOrder
    /\ CASE scenario = "Verify" -> Verify
         [] scenario = "Review" -> Review
         [] scenario = "Again" -> Again
         [] scenario = "Change" -> Change
         [] scenario = "Leave" -> Leave

MCSpec == MCInit /\ [][Next /\ UNCHANGED scenario /\ Slices']_<<vars, scenario>>
=============================================================================
