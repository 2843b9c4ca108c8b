---------------------------- MODULE FaultReports ----------------------------
(***************************************************************************)
(* Fault reports, as the maintain-committee and the terminating-rental     *)
(* pallets both handle them: a reporter stakes and reports, up to three    *)
(* members book the report, commit to a verdict and reveal it, and hooks   *)
(* decide the report, release, slash and reward.  The operators work on a  *)
(* record s of the storage: next_id, info, live, reports, rstake, orders,  *)
(* ops, result and unhandled of the pallet, the fields of CommitteeStakes, *)
(* and now.                                                                *)
(***************************************************************************)
EXTENDS CommitteeStakes

CONSTANTS
    ReporterBaseline, StakePerReport, ReporterMinFree,  \* ReporterStakeParams
    HALF_HOUR, ONE_HOUR, THREE_HOURS, FOUR_HOURS

ASSUME ReportTimes ==
    /\ HALF_HOUR < ONE_HOUR /\ ONE_HOUR < THREE_HOURS /\ THREE_HOURS < FOUR_HOURS
    /\ FOUR_HOURS < TWO_DAYS

NoOrders == [booked |-> {}, hashed |-> {}, confirmed |-> {}, finished |-> {}]
NoOps == [booked_time |-> 0, encrypted |-> None, confirm_hash |-> None, staked |-> 0,
          order_status |-> "Verifying"]
NoReports == [processing |-> {}, canceled |-> {}, succeed |-> {}, failed |-> {}]
NoLive == [bookable |-> {}, verifying |-> {}, waiting_raw |-> {}, finished |-> {}]

(* Storage maps: insert, remove, and the ValueQuery getter of CommitteeOps. *)
Put(f, key, value) == [x \in DOMAIN f \cup {key} |-> IF x = key THEN value ELSE f[x]]
Without(f, key) == [x \in DOMAIN f \ {key} |-> f[x]]
committee_ops(s, c, id) == IF id \in DOMAIN s.ops[c] THEN s.ops[c][id] ELSE NoOps

IsInaccessible(info) == info.fault = "inaccessible"

-----------------------------------------------------------------------------

change_stake_on_report_close(s, r, amount, is_slashed) ==
    [s EXCEPT !.rstake[r] = [used |-> Less(@.used, amount),
                             staked |-> IF is_slashed THEN Less(@.staked, amount) ELSE @.staked]]

change_reporter_stake(s, r, amount, is_add) ==
    LET staked == IF is_add THEN s.rstake[r].staked + amount ELSE Less(s.rstake[r].staked, amount)
        used == s.rstake[r].used
        enough == staked >= used /\ staked - used >= PercentOf(ReporterMinFree, staked)
        t == IF is_add THEN reserve(s, r, amount) ELSE unreserve(s, r, amount)
    IN  IF ~s.ok \/ ((is_add \/ used > 0) /\ ~enough) \/ ~t.ok THEN Fail(s)
        ELSE [t EXCEPT !.rstake[r].staked = staked]

pay_stake_when_report(s, r) ==
    LET had == s.rstake[r]
        t == reserve(s, r, ReporterBaseline)
        used == had.used + StakePerReport
    IN  IF ~s.ok THEN s
        ELSE IF had.staked = 0
        THEN IF t.ok THEN [t EXCEPT !.rstake[r] = [staked |-> ReporterBaseline, used |-> StakePerReport]]
             ELSE Fail(s)
        ELSE IF Less(had.staked, used) >= PercentOf(ReporterMinFree, had.staked)
        THEN [s EXCEPT !.rstake[r].used = used] ELSE Fail(s)

-----------------------------------------------------------------------------
(* Reporting.                                                               *)
NewReport(r, fault, time, stake) ==
    [reporter |-> r, report_time |-> time, reporter_stake |-> stake, first_book_time |-> 0,
     verifying |-> None, booked |-> {}, encrypted |-> {}, hashed |-> {}, confirmed |-> {},
     support |-> {}, against |-> {}, status |-> "Reported", fault |-> fault]

do_report_machine_fault(s, r, fault, time) ==
    LET id == s.next_id IN
    [s EXCEPT !.next_id = id + 1, !.live.bookable = @ \cup {id},
              !.reports[r].processing = @ \cup {id},
              !.info = Put(@, id, NewReport(r, fault, time, StakePerReport))]

cancel_report(s, r, id) ==
    LET info == s.info[id]
        t == change_stake_on_report_close(s, r, info.reporter_stake, FALSE)
    IN  IF info.reporter # r \/ info.status # "Reported" THEN Fail(s)
        ELSE [t EXCEPT !.live.bookable = @ \ {id},
                       !.reports[r].processing = @ \ {id}, !.reports[r].canceled = @ \cup {id},
                       !.info = Without(@, id)]

-----------------------------------------------------------------------------
(* Verifying.  A hash stands for the verdict the member committed to.       *)
can_book(info, c) ==
    /\ info.report_time # 0 /\ info.status \in {"Reported", "WaitingBook"}
    /\ Cardinality(info.booked) < 3 /\ c \notin info.booked

book_info(info, c, time) ==
    LET booked == info.booked \cup {c} IN
    [info EXCEPT !.booked = booked,
                 !.first_book_time = IF info.status = "Reported" THEN time ELSE @,
                 !.verifying = IF IsInaccessible(info) THEN @ ELSE c,
                 !.status = IF IsInaccessible(info) /\ Cardinality(booked) < 3
                            THEN "WaitingBook" ELSE "Verifying"]

book_report(s, c, id) ==
    LET info == book_info(s.info[id], c, s.now)
        had == committee_ops(s, c, id)
        taken == info.status = "Verifying"
    IN  [s EXCEPT !.info[id] = info, !.orders[c].booked = @ \cup {id},
                  !.ops[c] = Put(@, id, [had EXCEPT
                      !.booked_time = s.now,
                      !.staked = IF IsInaccessible(info) THEN @ ELSE StakePerOrder,
                      !.order_status = IF IsInaccessible(info) THEN "Verifying" ELSE "WaitingEncrypt"]),
                  !.live.bookable = IF taken THEN @ \ {id} ELSE @,
                  !.live.verifying = IF taken THEN @ \cup {id} ELSE @]

can_submit_encrypted_info(info, r, c) ==
    /\ ~IsInaccessible(info) /\ info.reporter = r
    /\ info.status = "Verifying" /\ c \in info.booked

(* The reporter may encrypt something that does not hash to the report.     *)
add_encrypted(s, r, id, c, genuine) ==
    LET had == committee_ops(s, c, id)
    IN  IF ~can_submit_encrypted_info(s.info[id], r, c) \/ had.order_status # "WaitingEncrypt" THEN Fail(s)
        ELSE [s EXCEPT !.info[id].encrypted = @ \cup {c},
                       !.ops[c] = Put(@, id, [had EXCEPT !.encrypted = genuine, !.order_status = "Verifying"])]

add_hash(info, c) ==
    LET hashed == info.hashed \cup {c} IN
    [info EXCEPT !.hashed = hashed, !.verifying = None,
                 !.status = IF Cardinality(hashed) = 3 THEN "SubmittingRaw"
                            ELSE IF IsInaccessible(info) THEN @ ELSE "WaitingBook"]

can_submit_hash(info) ==
    \/ info.status = "Verifying"
    \/ IsInaccessible(info) /\ info.status = "WaitingBook"

submit_hash(s, c, id, support) ==
    LET info == add_hash(s.info[id], c)
        had == committee_ops(s, c, id)
        all == Cardinality(info.hashed) = 3
        more == ~all /\ ~IsInaccessible(info)
    IN  IF id \notin s.orders[c].booked \/ had.order_status # "Verifying" \/ ~can_submit_hash(s.info[id])
        THEN Fail(s)
        ELSE [s EXCEPT
                !.info[id] = info,
                !.ops[c] = Put(@, id, [had EXCEPT !.confirm_hash = support, !.order_status = "WaitingRaw"]),
                !.orders[c].booked = @ \ {id}, !.orders[c].hashed = @ \cup {id},
                !.live.verifying = IF all \/ more THEN @ \ {id} ELSE @,
                !.live.waiting_raw = IF all THEN @ \cup {id} ELSE @,
                !.live.bookable = IF more THEN @ \cup {id} ELSE @]

(* Mistake: what the member committed to is not compared.                   *)
reveal_any(s, c, id, support) == TRUE

reveals_commitment(s, c, id, support) == committee_ops(s, c, id).confirm_hash = support

add_raw(s, c, id, support) ==
    [s EXCEPT
        !.info[id].confirmed = @ \cup {c},
        !.info[id].support = IF support THEN @ \cup {c} ELSE @,
        !.info[id].against = IF support THEN @ ELSE @ \cup {c},
        !.ops[c] = Put(@, id, [committee_ops(s, c, id) EXCEPT !.order_status = "Finished"]),
        !.orders[c].hashed = @ \ {id}, !.orders[c].confirmed = @ \cup {id}]

can_submit_raw(info, c) == info.status = "SubmittingRaw" /\ c \in info.hashed

submit_raw(s, c, id, support) ==
    IF can_submit_raw(s.info[id], c) /\ ~IsInaccessible(s.info[id])
       /\ committee_ops(s, c, id).encrypted = TRUE /\ reveals_commitment(s, c, id, support)
    THEN add_raw(s, c, id, support) ELSE Fail(s)

-----------------------------------------------------------------------------
(* Deciding.                                                                *)
NewResult(s, id, stake) ==
    [reporter |-> s.info[id].reporter, reporter_stake |-> s.info[id].reporter_stake,
     inconsistent |-> {}, unruly |-> {}, reward |-> {}, committee_stake |-> stake,
     machine_stash |-> None, exec_time |-> s.now + TWO_DAYS,
     report_result |-> "ReportRefused", slash_result |-> "Pending"]

update_unhandled_report(s, id, time) == [s EXCEPT !.unhandled = @ \cup {<<time, id>>}]
PutResult(s, id, result) ==
    [update_unhandled_report(s, id, result.exec_time) EXCEPT !.result = Put(@, id, result)]

clean_unfinished_order(orders, id) ==
    [orders EXCEPT !.booked = @ \ {id}, !.hashed = @ \ {id}, !.confirmed = @ \ {id}]

clean_unfinished_report(live, id) ==
    [live EXCEPT !.bookable = @ \ {id}, !.verifying = @ \ {id}, !.waiting_raw = @ \ {id}]

IsSupported(info) == Cardinality(info.support) >= Cardinality(info.against)

(* Reports of an ordinary fault: members verify one after the other; a      *)
(* reporter or a member that is late is dropped.                            *)
release_order(s, c, id) ==
    LET t == change_used_stake(s, c, committee_ops(s, c, id).staked, FALSE) IN
    [t EXCEPT !.ops[c] = Without(@, id), !.orders[c] = clean_unfinished_order(@, id)]

clean_not_submit_hash_committee(info, c) ==
    LET booked == info.booked \ {c} IN
    [info EXCEPT !.verifying = None, !.booked = booked, !.encrypted = @ \ {c},
                 !.first_book_time = IF booked = {} THEN 0 ELSE @,
                 !.status = IF booked = {} THEN "Reported" ELSE "WaitingBook"]

clean_not_submit_raw_committee(info, c) ==
    [info EXCEPT !.verifying = None, !.booked = @ \ {c}, !.encrypted = @ \ {c}]

summary_before_submit_raw(s, id) ==
    LET info == s.info[id]
        c == info.verifying
        r == info.reporter
        had == committee_ops(s, c, id)
        result == NewResult(s, id, StakePerOrder)
        silent == Always(LAMBDA acc, x : release_order(acc, x, id),
                         [s EXCEPT !.reports[r] = [@ EXCEPT !.processing = @ \ {id}, !.failed = @ \cup {id}]],
                         Sorted(info.booked))
        late == [s EXCEPT !.info[id] = clean_not_submit_hash_committee(info, c),
                          !.live.verifying = @ \ {id}, !.live.bookable = @ \cup {id},
                          !.orders[c].booked = @ \ {id}, !.ops[c] = Without(@, id)]
    IN  IF info.status # "Verifying" \/ c = None THEN s
        ELSE IF s.now - had.booked_time >= HALF_HOUR /\ had.encrypted = None
        THEN PutResult([silent EXCEPT !.live.verifying = @ \ {id}], id,
                       [result EXCEPT !.report_result = "ReporterNotSubmitEncryptedInfo"])
        ELSE IF s.now - had.booked_time >= ONE_HOUR
        THEN PutResult(late, id, [result EXCEPT !.unruly = {c}])
        ELSE s

(* When the time to reveal has come, the status of a report that is still   *)
(* being verified is left as it was.                                        *)
summary_after_submit_raw(s, id) ==
    LET info == s.info[id]
        c == info.verifying
        t == [s EXCEPT !.live = [clean_unfinished_report(@, id) EXCEPT !.waiting_raw = @ \cup {id}]]
    IN  IF info.status = "WaitingBook" THEN [t EXCEPT !.info[id].status = "SubmittingRaw"]
        ELSE IF c = None \/ s.now - committee_ops(s, c, id).booked_time >= ONE_HOUR THEN t
        ELSE [release_order(t, c, id) EXCEPT !.info[id] = clean_not_submit_raw_committee(@, c)]

can_summary_fault(info) == info.first_book_time # 0 /\ ~IsInaccessible(info)

summary_verifying_report(s, id) ==
    IF id \notin DOMAIN s.info THEN s
    ELSE IF ~can_summary_fault(s.info[id]) THEN s
    ELSE IF s.now - s.info[id].first_book_time < THREE_HOURS THEN summary_before_submit_raw(s, id)
    ELSE summary_after_submit_raw(s, id)

(* Mistake: no deadline.                                                    *)
can_summary_complete(info, time) ==
    /\ info.first_book_time # 0 /\ ~IsInaccessible(info)
    /\ Cardinality(info.hashed) = Cardinality(info.confirmed)

can_summary(info, time) ==
    /\ info.first_book_time # 0 /\ ~IsInaccessible(info)
    /\ time - info.first_book_time >= FOUR_HOURS \/ Cardinality(info.hashed) = Cardinality(info.confirmed)

(* The result adds to what is recorded of members that were dropped.        *)
get_verify_result(s, id) ==
    LET info == s.info[id]
        had == IF id \in DOMAIN s.result THEN s.result[id] ELSE NewResult(s, id, StakePerOrder)
        out == [had EXCEPT !.slash_result = "Pending", !.exec_time = s.now + TWO_DAYS,
                           !.reporter = info.reporter, !.committee_stake = StakePerOrder]
        agree == IF IsSupported(info) THEN info.support ELSE info.against
    IN  IF info.confirmed = {}
        THEN [out EXCEPT !.report_result = "NoConsensus", !.unruly = @ \cup info.booked, !.reporter_stake = 0]
        ELSE [out EXCEPT !.report_result = IF IsSupported(info) THEN "ReportSucceed" ELSE "ReportRefused",
                         !.reporter_stake = info.reporter_stake,
                         !.inconsistent = @ \cup (info.confirmed \ agree), !.reward = @ \cup agree]

(* `off' is what the call that takes the machine offline makes of s; only a *)
(* report that is upheld makes it.                                          *)
summary_submitting_raw(s, id, off) ==
    LET info == s.info[id]
        listed(u) == [u EXCEPT !.live.waiting_raw = @ \ {id},
                               !.live.finished = IF info.confirmed = {} THEN @ ELSE @ \cup {id}]
        finish(u, who) == [u EXCEPT !.orders = [c \in Members |-> IF c \in who
            THEN [@[c] EXCEPT !.confirmed = @ \ {id}, !.finished = @ \cup {id}] ELSE @[c]]]
        dropped == [listed(Ok(s)) EXCEPT
            !.ops = [c \in Members |-> IF c \in info.booked THEN Without(@[c], id) ELSE @[c]],
            !.orders = [c \in Members |-> IF c \in info.booked
                THEN [@[c] EXCEPT !.booked = @ \ {id}, !.hashed = @ \ {id}] ELSE @[c]]]
        acted == IF info.confirmed = {}
                 THEN do_report_machine_fault(dropped, info.reporter, info.fault, info.report_time)
                 ELSE IF IsSupported(info) THEN finish(listed(off), info.support)
                 ELSE finish(listed(Ok(s)), info.confirmed)
    IN  IF id \notin DOMAIN s.info THEN s
        ELSE IF ~can_summary(info, s.now) THEN s
        ELSE IF ~acted.ok THEN acted
        ELSE [PutResult(acted, id, get_verify_result(s, id)) EXCEPT
                 !.info[id].status = IF @ = "Reported" THEN @ ELSE "CommitteeConfirmed"]

-----------------------------------------------------------------------------
(* Slashes.                                                                 *)
ReporterSlashed(result) == result.report_result \in {"ReportRefused", "ReporterNotSubmitEncryptedInfo"}

change_reporter_stake_on_report_close(s, result) ==
    IF result.report_result = "NoConsensus" THEN s
    ELSE change_stake_on_report_close(s, result.reporter, result.reporter_stake, ReporterSlashed(result))

exec_a_slash(s, id) ==
    LET result == s.result[id]
        slashed == Sorted(result.unruly) \o Sorted(result.inconsistent)
        rewarded == IF result.report_result = "ReportSucceed"
                    THEN Append(Sorted(result.reward), result.reporter) ELSE <<>>
        closed == change_reporter_stake_on_report_close(s, result)
        charged == IF ReporterSlashed(result)
                   THEN slash_and_reward(closed, <<result.reporter>>, result.reporter_stake, Sorted(result.reward))
                   ELSE closed
        released == change_committee_stake(charged, Sorted(result.reward), result.committee_stake, FALSE)
        lowered == change_committee_stake(released, slashed, result.committee_stake, TRUE)
    IN  [slash_and_reward(lowered, slashed, result.committee_stake, rewarded)
            EXCEPT !.result[id].slash_result = "Executed"]

exec_slash(s, n) ==
    LET due == {id \in DOMAIN s.result : <<n, id>> \in s.unhandled} IN
    [Always(exec_a_slash, s, Sorted(due)) EXCEPT !.unhandled = {u \in @ : u[1] # n}]
=============================================================================
