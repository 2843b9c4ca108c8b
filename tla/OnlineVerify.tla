---------------------------- MODULE OnlineVerify ----------------------------
(***************************************************************************)
(* The verification of one machine by three members, as the               *)
(* online-committee and the terminating-rental pallets both run it: the    *)
(* records of the support crate (verify_online.rs) and what the votes say. *)
(* mc is the record of the machine, jobs that of a member, vote what each  *)
(* member revealed.                                                        *)
(***************************************************************************)
EXTENDS CommitteeStakes

CONSTANTS
    Oppose,                 \* a member's finding with is_support = false
    SUBMIT_RAW_START, SUBMIT_RAW_END

NoJobs == [booked |-> {}, hashed |-> {}, confirmed |-> {}, online |-> {}]
NoCommittee == [book_time |-> 0, booked |-> {}, hashed |-> {}, confirmed |-> {},
                onlined |-> {}, status |-> "SubmittingHash"]
NoOps == [confirm_hash |-> None, machine_info |-> None]

(* A hash is accepted at any time from a member that has not hashed yet;    *)
(* when all have, the members may reveal.                                   *)
can_hash(mc, c) == c \in mc.booked \ mc.hashed
hashed_by(mc, c) ==
    [mc EXCEPT !.hashed = @ \cup {c},
               !.status = IF mc.booked = mc.hashed \cup {c} THEN "SubmittingRaw" ELSE @]

can_reveal(mc, jobs, c, m, time) ==
    /\ m \in jobs.hashed \ jobs.confirmed
    /\ mc.status # "SubmittingRaw" => time \in (mc.book_time + SUBMIT_RAW_START)..(mc.book_time + SUBMIT_RAW_END)
    /\ c \in mc.hashed
revealed_by(mc, c) ==
    [mc EXCEPT !.confirmed = @ \cup {c},
               !.status = IF mc.hashed = mc.confirmed \cup {c} THEN "Summarizing" ELSE @]

(* The lists of a member after m moved from one to the next, or was dropped.*)
MoveJob(jobs, m, from, to) == [jobs EXCEPT ![from] = @ \ {m}, ![to] = @ \cup {m}]
forget_job(jobs, m) == [jobs EXCEPT !.booked = @ \ {m}, !.hashed = @ \ {m}, !.confirmed = @ \ {m}]

summary_unruly(mc) == mc.booked \ mc.confirmed

Summary(result, info, valid, mc) ==
    [result |-> result, info |-> info, valid |-> valid,
     invalid |-> mc.confirmed \ valid, unruly |-> summary_unruly(mc)]

(* Mistake: a description anyone revealed wins over the opposition of two.  *)
summary_first_info(mc, vote) ==
    LET found == {vote[c] : c \in mc.confirmed} \ {Oppose}
        v == CHOOSE x \in found : TRUE IN
    IF found # {} THEN Summary("Confirmed", v, {c \in mc.confirmed : vote[c] = v}, mc)
    ELSE Summary(IF mc.confirmed = {} THEN "NoConsensus" ELSE "Refused", None, mc.confirmed, mc)

(* Who revealed what two or all of the members revealed is in the right.    *)
summary_confirmation(mc, vote) ==
    LET found == {vote[c] : c \in mc.confirmed}
        Agree(v) == {c \in mc.confirmed : vote[c] = v}
        Outcome(v) == Summary(IF v = Oppose THEN "Refused" ELSE "Confirmed",
                              IF v = Oppose THEN None ELSE v, Agree(v), mc)
    IN IF Cardinality(found) = 1 THEN Outcome(CHOOSE v \in found : TRUE)
       ELSE IF Cardinality(found) = Cardinality(mc.confirmed)
       THEN Summary("NoConsensus", None, {}, mc)
       ELSE Outcome(CHOOSE v \in found : Cardinality(Agree(v)) = 2)

should_slash_committee(summary) ==
    summary.unruly # {} \/ (summary.result # "NoConsensus" /\ summary.invalid # {})

can_submit_raw(mc, time) == mc.status = "SubmittingHash" /\ time >= mc.book_time + SUBMIT_RAW_START
can_summary(mc, time) == mc.status = "Summarizing"
                   \/ (mc.status = "SubmittingRaw" /\ time >= mc.book_time + SUBMIT_RAW_END)

after_summary(mc, summary) ==
    IF summary.result = "NoConsensus" THEN mc
    ELSE [mc EXCEPT !.status = "Finished",
                    !.onlined = IF summary.result = "Confirmed" THEN summary.valid ELSE @]
=============================================================================
