------------------------- MODULE MaintainCommittee -------------------------
(***************************************************************************)
(* The maintain-committee pallet: a reporter stakes and reports a fault of *)
(* a machine; up to three members book the report, commit to a verdict,    *)
(* reveal it; the hooks decide the report, take the machine offline, and   *)
(* two days later release, slash and reward; composed with the stake of    *)
(* the committee (CommitteeStakes) and with what online-profile does for   *)
(* the pallet (trait MTOps).                                               *)
(*                                                                         *)
(* What it shares with terminating-rental is in FaultReports; here are the *)
(* calls, the reports of a machine that cannot be reached, and reviews.    *)
(*                                                                         *)
(* One machine is reported.  The three ordinary fault types are treated    *)
(* alike by the code and are one here.  A block is the calls between two   *)
(* steps of next_block.                                                    *)
(***************************************************************************)
EXTENDS FaultReports

CONSTANTS
    Reporters,              \* numbers, as Members: lists of them are sorted
    Stash,                  \* the owner of the machine
    Renter,                 \* who holds the rent order of the machine
    FIVE_MINUTES, TEN_MINUTES,
    MemberStake, MemberFree, ReporterFree, StashFree, Amounts,
    MaxBlock, LastReport, MaxReports    \* bounds

ASSUME MaintainWork ==
    /\ Members \cup Reporters \subseteq Nat /\ Members \cap Reporters = {}
    /\ FIVE_MINUTES < TEN_MINUTES

VARIABLES
    now,
    machine_status, OfflineMachine2renters, StashStake,     \* of online-profile
    NextReportId, ReportInfo, LiveReport, ReporterReport, ReporterStake,
    CommitteeOrder, CommitteeOps,
    ReportResult,
    UnhandledReportResult,      \* pairs of a block and a report
    PendingSlashReview,
    staked_amount, used_stake, normal, fulfilling_list, free, reserved

report_vars == <<NextReportId, ReportInfo, LiveReport, ReporterReport, ReporterStake>>
work_vars == <<CommitteeOrder, CommitteeOps>>
result_vars == <<ReportResult, UnhandledReportResult, PendingSlashReview>>
profile_vars == <<machine_status, OfflineMachine2renters, StashStake>>
stake_vars == <<staked_amount, used_stake, normal, fulfilling_list, free, reserved>>
vars == <<now, report_vars, work_vars, result_vars, profile_vars, stake_vars>>

Accounts == Members \cup Reporters \cup {Stash, Treasury}
Faults == {"inaccessible", "ordinary"}

Init ==
    /\ now = 1
    /\ machine_status = "rented" /\ OfflineMachine2renters = {} /\ StashStake = 0
    /\ NextReportId = 0 /\ ReportInfo = <<>>
    /\ LiveReport = NoLive
    /\ ReporterReport = [r \in Reporters |-> NoReports]
    /\ ReporterStake = [r \in Reporters |-> [staked |-> 0, used |-> 0]]
    /\ CommitteeOrder = [c \in Members |-> NoOrders]
    /\ CommitteeOps = [c \in Members |-> <<>>]
    /\ ReportResult = <<>> /\ UnhandledReportResult = {} /\ PendingSlashReview = <<>>
    /\ staked_amount = [a \in Accounts |-> IF a \in Members THEN MemberStake ELSE 0]
    /\ used_stake = [a \in Accounts |-> 0]
    /\ normal = Members /\ fulfilling_list = {}
    /\ free = [a \in Accounts |-> IF a \in Members THEN MemberFree
                                  ELSE IF a \in Reporters THEN ReporterFree
                                  ELSE IF a = Stash THEN StashFree ELSE 0]
    /\ reserved = staked_amount

(* The storage the calls and hooks work on, as one record.                  *)
storage ==
    [now |-> now, machine |-> machine_status, renters |-> OfflineMachine2renters, stash_stake |-> StashStake,
     next_id |-> NextReportId, info |-> ReportInfo, live |-> LiveReport,
     reports |-> ReporterReport, rstake |-> ReporterStake,
     orders |-> CommitteeOrder, ops |-> CommitteeOps, result |-> ReportResult,
     unhandled |-> UnhandledReportResult, review |-> PendingSlashReview,
     staked |-> staked_amount, used |-> used_stake, normal |-> normal,
     fulfilling |-> fulfilling_list, free |-> free, reserved |-> reserved, ok |-> TRUE]

Store(s) ==
    /\ machine_status' = s.machine /\ OfflineMachine2renters' = s.renters /\ StashStake' = s.stash_stake
    /\ NextReportId' = s.next_id /\ ReportInfo' = s.info /\ LiveReport' = s.live
    /\ ReporterReport' = s.reports /\ ReporterStake' = s.rstake
    /\ CommitteeOrder' = s.orders /\ CommitteeOps' = s.ops /\ ReportResult' = s.result
    /\ UnhandledReportResult' = s.unhandled /\ PendingSlashReview' = s.review
    /\ staked_amount' = s.staked /\ used_stake' = s.used /\ normal' = s.normal
    /\ fulfilling_list' = s.fulfilling /\ free' = s.free /\ reserved' = s.reserved

(* An extrinsic: what it wrote is kept only if it returned Ok.              *)
Dispatch(s) == s.ok /\ Store(s) /\ UNCHANGED now

-----------------------------------------------------------------------------
(* MTOps and the owner's side in online-profile.                            *)
mt_machine_offline(s) ==
    IF s.machine = "exited" THEN Fail(s) ELSE Ok([s EXCEPT !.machine = "offline"])

mt_change_staked_balance(s, amount) ==
    LET t == reserve(s, Stash, amount) IN
    IF t.ok THEN [t EXCEPT !.stash_stake = @ + amount] ELSE Fail(s)

mt_return_staked_balance(s, amount) ==
    IF s.stash_stake < amount THEN Fail(s)
    ELSE [unreserve(s, Stash, amount) EXCEPT !.stash_stake = @ - amount]

mt_rm_stash_total_stake(s, amount) ==
    IF s.stash_stake < amount THEN s ELSE [s EXCEPT !.stash_stake = @ - amount]

(* The rent ends, the owner withdraws the machine, or brings it back after  *)
(* a report; the state before the report is taken to be rented.             *)
machine_changes ==
    /\ \/ machine_status = "rented" /\ machine_status' = "online"
       \/ machine_status = "online" /\ machine_status' = "exited"
       \/ machine_status = "offline" /\ machine_status' = "rented"
    /\ UNCHANGED <<now, report_vars, work_vars, result_vars, OfflineMachine2renters, StashStake, stake_vars>>

-----------------------------------------------------------------------------
(* Calls.                                                                   *)
report_machine_fault(r, fault) ==
    LET listed == IF machine_status = "rented"
                  THEN [storage EXCEPT !.renters = {Renter}] ELSE storage
        paid == IF fault = "inaccessible" THEN pay_fixed_tx_fee(listed, r) ELSE storage
    IN /\ now <= LastReport /\ NextReportId < MaxReports
       /\ fault = "inaccessible" => r = Renter
       /\ Dispatch(do_report_machine_fault(pay_stake_when_report(paid, r), r, fault, now))

reporter_add_stake(r, amount) == Dispatch(change_reporter_stake(storage, r, amount, TRUE))

reporter_reduce_stake(r, amount) == Dispatch(change_reporter_stake(storage, r, amount, FALSE))

reporter_cancel_report(r, id) ==
    id \in DOMAIN ReportInfo /\ Dispatch(cancel_report(storage, r, id))

committee_book_report(c, id) ==
    /\ id \in DOMAIN ReportInfo
    /\ c \in normal /\ can_book(ReportInfo[id], c)
    /\ LET s == IF IsInaccessible(ReportInfo[id]) THEN pay_fixed_tx_fee(storage, c)
                ELSE change_used_stake(storage, c, StakePerOrder, TRUE)
       IN Dispatch(book_report(s, c, id))

reporter_add_encrypted_error_info(r, id, c, genuine) ==
    id \in DOMAIN ReportInfo /\ Dispatch(add_encrypted(storage, r, id, c, genuine))

committee_submit_verify_hash(c, id, support) ==
    id \in DOMAIN ReportInfo /\ Dispatch(submit_hash(storage, c, id, support))

committee_submit_verify_raw(c, id, support) ==
    id \in DOMAIN ReportInfo /\ Dispatch(submit_raw(storage, c, id, support))

committee_submit_inaccessible_raw(c, id, support) ==
    /\ id \in DOMAIN ReportInfo
    /\ can_submit_raw(ReportInfo[id], c) /\ IsInaccessible(ReportInfo[id])
    /\ reveals_commitment(storage, c, id, support)
    /\ Dispatch(add_raw(storage, c, id, support))

-----------------------------------------------------------------------------
(* Deciding.                                                                *)
clean_when_summary(orders, id, is_confirmed) ==
    IF is_confirmed
    THEN [orders EXCEPT !.hashed = @ \ {id}, !.confirmed = @ \ {id}, !.finished = @ \cup {id}]
    ELSE [orders EXCEPT !.hashed = @ \ {id}, !.booked = @ \ {id}]

(* Reports of a machine that cannot be reached: verdicts are revealed five  *)
(* minutes after the first booking and counted ten minutes after it.        *)
can_summary_inaccessible(info) ==
    /\ info.first_book_time # 0 /\ IsInaccessible(info)
    /\ info.status \notin {"Reported", "CommitteeConfirmed"}
    /\ info.status = "SubmittingRaw" /\ now - info.first_book_time < TEN_MINUTES =>
          info.hashed # {} /\ info.confirmed = info.hashed

decide_inaccessible(s, id) ==
    LET info == s.info[id]
        r == info.reporter
        absent == info.booked \ info.confirmed
        t == [s EXCEPT !.live.waiting_raw = @ \ {id},
                !.orders = [c \in Members |-> IF c \in info.booked
                              THEN clean_when_summary(@[c], id, c \in info.confirmed) ELSE @[c]],
                !.ops = [c \in Members |-> IF c \in absent THEN Without(@[c], id) ELSE @[c]]]
        result == [NewResult(s, id, 0) EXCEPT !.machine_stash = Stash, !.unruly = absent]
        off == mt_machine_offline(t)
        agree == IF IsSupported(info) THEN info.support ELSE info.against
        done(u, type, list) ==
            PutResult([u EXCEPT !.reports[r] = list, !.info[id].status = "CommitteeConfirmed",
                                !.live = [clean_unfinished_report(@, id) EXCEPT !.finished = @ \cup {id}]],
                      id, [result EXCEPT !.report_result = type, !.reward = agree,
                                         !.inconsistent = info.confirmed \ agree])
        mine == [s.reports[r] EXCEPT !.processing = @ \ {id}]
        again == [do_report_machine_fault(t, r, info.fault, info.report_time) EXCEPT
                     !.reports[r] = [@ EXCEPT !.processing = @ \ {id}, !.failed = @ \cup {id}]]
        none == [result EXCEPT !.report_result = "NoConsensus", !.reporter_stake = 0]
    IN  IF s.machine = "exited" THEN s
        ELSE IF info.confirmed = {}
        THEN IF absent = {} THEN again ELSE PutResult(again, id, none)
        ELSE IF IsSupported(info)
        THEN done(off, "ReportSucceed", [mine EXCEPT !.succeed = @ \cup {id}])
        ELSE done(t, "ReportRefused", [mine EXCEPT !.failed = @ \cup {id}])

summary_inaccessible_report(s, id) ==
    LET info == s.info[id] IN
    IF id \notin DOMAIN s.info THEN s
    ELSE IF ~can_summary_inaccessible(info) THEN s
    ELSE IF info.status \in {"WaitingBook", "Verifying"}
    THEN IF now - info.first_book_time >= FIVE_MINUTES \/ Cardinality(info.hashed) = 3
         THEN [s EXCEPT !.info[id].status = "SubmittingRaw",
                        !.live = [clean_unfinished_report(@, id) EXCEPT !.waiting_raw = @ \cup {id}]]
         ELSE s
    ELSE decide_inaccessible(s, id)

summary_inaccessible_hook(s) ==
    Always(summary_inaccessible_report, s,
           Sorted(s.live.verifying) \o Sorted(s.live.bookable) \o Sorted(s.live.waiting_raw))

summary_fault_hook(s) ==
    LET verified == Always(summary_verifying_report, s,
                           Sorted(s.live.verifying) \o Sorted(s.live.bookable))
        summary(t, id) == summary_submitting_raw(t, id, mt_machine_offline(t))
    IN  Always(summary, verified, Sorted(s.live.waiting_raw))

on_finalize(s) == summary_inaccessible_hook(summary_fault_hook(s))

-----------------------------------------------------------------------------
(* Slashes and reviews.                                                     *)
is_slashed_reporter(result, who) == ReporterSlashed(result) /\ result.reporter = who
is_slashed_committee(result, who) == who \in result.inconsistent \cup result.unruly
is_slashed_stash(result, who) == result.report_result = "ReportSucceed" /\ result.machine_stash = who

(* A review that has not expired is decided against the applicant.          *)
exec_a_review(s, id, n) ==
    LET review == s.review[id]
        who == review.applicant
        result == s.result[id]
        lowered == IF is_slashed_reporter(result, who)
                   THEN change_stake_on_report_close(s, who, review.staked, TRUE)
                   ELSE IF is_slashed_committee(result, who)
                   THEN change_committee_stake(s, <<who>>, review.staked, TRUE)
                   ELSE IF is_slashed_stash(result, who) THEN mt_rm_stash_total_stake(s, review.staked)
                   ELSE s
    IN  IF review.expire_time < n THEN s
        ELSE [slash_and_reward(lowered, <<who>>, review.staked, <<>>) EXCEPT !.review = Without(@, id)]

exec_review(s, n) == Always(LAMBDA acc, id : exec_a_review(acc, id, n), s, Sorted(DOMAIN s.review))

on_initialize(s, n) == exec_slash(exec_review(s, n), n)

next_block ==
    /\ now < MaxBlock
    /\ now' = now + 1
    /\ Store(on_initialize(on_finalize(storage), now + 1))

apply_slash_review(who, id) ==
    /\ id \in DOMAIN ReportResult
    /\ LET result == ReportResult[id]
           added == change_total_stake(storage, who, StakePerReport, TRUE, TRUE)
           s == IF is_slashed_reporter(result, who)
                THEN pay_stake_when_report(change_reporter_stake(storage, who, StakePerReport, TRUE), who)
                ELSE IF is_slashed_committee(result, who)
                THEN IF added.ok THEN change_used_stake(added, who, StakePerReport, TRUE) ELSE added
                ELSE mt_change_staked_balance(storage, StakePerReport)
       IN /\ id \notin DOMAIN PendingSlashReview
          /\ \/ is_slashed_reporter(result, who) \/ is_slashed_committee(result, who)
             \/ is_slashed_stash(result, who)
          /\ now < result.exec_time /\ free[who] >= StakePerReport
          /\ Dispatch([s EXCEPT !.review = Put(@, id,
                [applicant |-> who, staked |-> StakePerReport, expire_time |-> result.exec_time])])

(* The slash is undone: who was to be rewarded pays who was to be slashed.  *)
cancel_reporter_slash(id) ==
    /\ id \in DOMAIN ReportResult /\ id \in DOMAIN PendingSlashReview
    /\ LET result == ReportResult[id]
           review == PendingSlashReview[id]
           who == review.applicant
           returned == IF is_slashed_reporter(result, who)
                       THEN change_reporter_stake(storage, who, review.staked, FALSE)
                       ELSE IF is_slashed_stash(result, who) THEN mt_return_staked_balance(storage, review.staked)
                       ELSE change_committee_stake(storage, <<who>>, review.staked, FALSE)
           r == result.reporter
           closed == change_stake_on_report_close(returned, r, result.reporter_stake, ~ReporterSlashed(result))
           rewarded == Sorted(result.inconsistent \cup (IF ReporterSlashed(result) THEN {r} ELSE {}))
           charged == IF ReporterSlashed(result) THEN closed
                      ELSE slash_and_reward(closed, <<r>>, result.reporter_stake, rewarded)
           paid == slash_and_reward(charged, Sorted(result.reward \cup result.unruly),
                                    result.committee_stake, rewarded)
       IN /\ review.expire_time > now /\ returned.ok
          /\ Dispatch([paid EXCEPT !.unhandled = @ \ {<<result.exec_time, id>>},
                                   !.result[id].slash_result = "Canceled",
                                   !.review = Without(@, id)])

-----------------------------------------------------------------------------
Ids == 0..(NextReportId - 1)

Next ==
    \/ next_block
    \/ machine_changes
    \/ \E r \in Reporters :
         \/ \E fault \in Faults : report_machine_fault(r, fault)
         \/ \E amount \in Amounts : reporter_add_stake(r, amount) \/ reporter_reduce_stake(r, amount)
         \/ \E id \in Ids : reporter_cancel_report(r, id)
         \/ \E id \in Ids, c \in Members, genuine \in BOOLEAN :
               reporter_add_encrypted_error_info(r, id, c, genuine)
    \/ \E c \in Members, id \in Ids :
         \/ committee_book_report(c, id)
         \/ \E support \in BOOLEAN :
              \/ committee_submit_verify_hash(c, id, support)
              \/ committee_submit_verify_raw(c, id, support)
              \/ committee_submit_inaccessible_raw(c, id, support)
    \/ \E who \in Accounts \ {Treasury}, id \in Ids : apply_slash_review(who, id)
    \/ \E id \in Ids : cancel_reporter_slash(id)

Spec == Init /\ [][Next]_vars

-----------------------------------------------------------------------------

LiveReports == LiveReport.bookable \cup LiveReport.verifying \cup LiveReport.waiting_raw

(* A report that waits for verdicts is decided when the time to reveal them *)
(* is over: ten minutes after the first booking if the machine cannot be    *)
(* reached, four hours after it otherwise (summary_inaccessible_hook,       *)
(* summary_fault_hook), unless the machine has left.                        *)
DecidedInTime ==
    \A id \in LiveReports :
        LET info == ReportInfo[id] IN
        info.first_book_time # 0 /\ machine_status # "exited" =>
            now - info.first_book_time <= (IF IsInaccessible(info) THEN TEN_MINUTES ELSE FOUR_HOURS)

(* A report takes the machine offline only when somebody revealed a verdict *)
(* and those for the report are at least as many as those against it, each  *)
(* of them the verdict the member committed to before any was revealed.     *)
OfflineByVerdict ==
    [][machine_status # "offline" /\ machine_status' = "offline" =>
        \E id \in DOMAIN ReportInfo :
            LET For == {c \in ReportInfo[id].confirmed : CommitteeOps[c][id].confirm_hash = TRUE} IN
            /\ For # {} /\ 2 * Cardinality(For) >= Cardinality(ReportInfo[id].confirmed)
            /\ ReportResult'[id].report_result = "ReportSucceed"]_vars

=============================================================================
