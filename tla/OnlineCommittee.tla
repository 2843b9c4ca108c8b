-------------------------- MODULE OnlineCommittee --------------------------
(***************************************************************************)
(* The online-committee pallet: a machine whose owner has described it is  *)
(* given to three members, who commit to what they found, reveal it, and   *)
(* are paid, released or slashed for it; composed with the stake of the    *)
(* committee (CommitteeStakes) and with what online-profile does to the    *)
(* machine on their behalf (trait OCOps).                                  *)
(*                                                                         *)
(* A block is the calls between two steps of next_block.  next_block runs  *)
(* on_finalize of the block and on_initialize of the next one.             *)
(***************************************************************************)
EXTENDS CommitteeStakes, OnlineVerify

CONSTANTS
    Machines,               \* numbers, as Members: lists of them are sorted
    Stash,                  \* the owner of the machines
    ControllerStash,        \* who controls which stash; a member may control one
    Infos,                  \* what a member may find: a description, or Oppose
    MemberStake, MemberFree, StashFree,
    BondStake, ExtraStake,  \* the stake for one gpu, and for the other gpus of a machine
    ReonlineFee, OfflineSlash,  \* due when a machine comes back with other hardware
    MaxBlock, LastArrival   \* bounds

ASSUME CommitteeWork ==
    /\ Members \subseteq Nat /\ Machines \subseteq Nat /\ Oppose \notin Infos
    /\ Stash \notin Members /\ Treasury \notin Members \cup {Stash}
    /\ 0 < SUBMIT_RAW_START /\ SUBMIT_RAW_START < SUBMIT_RAW_END

VARIABLES
    now,
    LiveMachines,           \* the list a machine is in
    UserMutHardwareStake,   \* [verify_fee, offline_slash] of a machine that comes back changed
    StashStake,
    CommitteeMachine, MachineCommittee, MachineSubmitedHash, CommitteeOps,
    PendingSlash,           \* the id of a slash is its place
    UnhandledSlash, PendingSlashReview,
    staked_amount, used_stake, normal, fulfilling_list, free, reserved

machine_vars == <<LiveMachines, UserMutHardwareStake>>
work_vars == <<CommitteeMachine, MachineCommittee, MachineSubmitedHash, CommitteeOps>>
slash_vars == <<PendingSlash, UnhandledSlash, PendingSlashReview>>
stake_vars == <<StashStake, staked_amount, used_stake, normal, fulfilling_list, free, reserved>>
vars == <<now, machine_vars, work_vars, slash_vars, stake_vars>>

Accounts == Members \cup {Stash, Treasury}
Votes == Infos \cup {Oppose}
Lists == {"new", "bonding", "confirmed", "booked", "online", "fulfilling", "refused"}

Init ==
    /\ now = 0
    /\ LiveMachines = [m \in Machines |-> "new"]
    /\ UserMutHardwareStake = [m \in Machines |-> None]
    /\ StashStake = 0
    /\ CommitteeMachine = [c \in Members |-> NoJobs]
    /\ MachineCommittee = [m \in Machines |-> NoCommittee]
    /\ MachineSubmitedHash = [m \in Machines |-> {}]
    /\ CommitteeOps = [c \in Members |-> [m \in Machines |-> NoOps]]
    /\ PendingSlash = <<>> /\ UnhandledSlash = {} /\ PendingSlashReview = <<>>
    /\ staked_amount = [a \in Accounts |-> IF a \in Members THEN MemberStake ELSE 0]
    /\ used_stake = [a \in Accounts |-> 0]
    /\ normal = Members /\ fulfilling_list = {}
    /\ free = [a \in Accounts |-> IF a \in Members THEN MemberFree
                                  ELSE IF a = Stash THEN StashFree ELSE 0]
    /\ reserved = staked_amount

(* The storage the hooks work on, as one record.                            *)
storage ==
    [live |-> LiveMachines, reonline |-> UserMutHardwareStake, stash_stake |-> StashStake,
     jobs |-> CommitteeMachine, mc |-> MachineCommittee, hashes |-> MachineSubmitedHash,
     ops |-> CommitteeOps, slash |-> PendingSlash, unhandled |-> UnhandledSlash,
     review |-> PendingSlashReview, staked |-> staked_amount, used |-> used_stake,
     normal |-> normal, fulfilling |-> fulfilling_list, free |-> free, reserved |-> reserved,
     ok |-> TRUE]

Store(s) ==
    /\ LiveMachines' = s.live /\ UserMutHardwareStake' = s.reonline /\ StashStake' = s.stash_stake
    /\ CommitteeMachine' = s.jobs /\ MachineCommittee' = s.mc
    /\ MachineSubmitedHash' = s.hashes /\ CommitteeOps' = s.ops
    /\ PendingSlash' = s.slash /\ UnhandledSlash' = s.unhandled /\ PendingSlashReview' = s.review
    /\ staked_amount' = s.staked /\ used_stake' = s.used
    /\ normal' = s.normal /\ fulfilling_list' = s.fulfilling
    /\ free' = s.free /\ reserved' = s.reserved

Listed(l) == {m \in Machines : LiveMachines[m] = l}

-----------------------------------------------------------------------------
(* online-profile: the owner's calls that bring a machine to the committee. *)
change_stake(s, amount, is_add) ==
    IF is_add
    THEN LET r == reserve(s, Stash, amount) IN
         IF r.ok THEN [r EXCEPT !.stash_stake = @ + amount] ELSE Fail(s)
    ELSE IF s.stash_stake < amount THEN Fail(s)
    ELSE Ok([unreserve(s, Stash, amount) EXCEPT !.stash_stake = @ - amount])

bond_machine(m) ==
    LET s == change_stake(storage, BondStake, TRUE) IN
    /\ now <= LastArrival
    /\ LiveMachines[m] \in {"new", "refused"} /\ s.ok
    /\ Store([s EXCEPT !.live[m] = "bonding"])
    /\ UNCHANGED now

offline_machine_change_hardware_info(m) ==
    LET s == change_stake(storage, ReonlineFee + OfflineSlash, TRUE) IN
    /\ now <= LastArrival
    /\ LiveMachines[m] = "online" /\ s.ok
    /\ Store([s EXCEPT !.live[m] = "bonding",
                       !.reonline[m] = [verify_fee |-> ReonlineFee, offline_slash |-> OfflineSlash]])
    /\ UNCHANGED now

(* The fee is due again when the last one has been paid out.                *)
add_machine_info(m) ==
    LET hardware == UserMutHardwareStake[m]
        due == IF hardware # None /\ hardware.verify_fee = 0 THEN ReonlineFee ELSE 0
        s == change_stake(storage, due, TRUE)
    IN /\ now <= LastArrival
       /\ LiveMachines[m] = "bonding" /\ s.ok
       /\ Store([s EXCEPT !.live[m] = "confirmed",
                          !.reonline[m] = IF due = 0 THEN @ ELSE [@ EXCEPT !.verify_fee = due]])
       /\ UNCHANGED now

-----------------------------------------------------------------------------
(* OCOps                                                                    *)
profile_slash_and_reward(s, amount, reward_to) ==
    [slash_and_reward(s, <<Stash>>, amount, reward_to) EXCEPT !.stash_stake = Less(@, amount)]

(* The members' fee and the owner's penalty are paid when a changed machine *)
(* returns.  The stake for the other gpus of a new machine is due now; an   *)
(* owner who lacks it has to supply it before the machine is online.        *)
confirm_machine(s, valid, m) ==
    LET hardware == s.reonline[m]
        paid == IF hardware = None THEN s
                ELSE profile_slash_and_reward(profile_slash_and_reward(s, hardware.verify_fee, valid),
                                              hardware.offline_slash, <<>>)
        staked == IF hardware = None THEN change_stake(paid, ExtraStake, TRUE) ELSE Ok(paid)
    IN IF staked.ok THEN [staked EXCEPT !.live[m] = "online", !.reonline[m] = None]
       ELSE Ok([staked EXCEPT !.live[m] = "fulfilling",
                              !.reonline[m] = [verify_fee |-> 0, offline_slash |-> 0]])

(* What the owner of a refused machine loses, later: 5% of its stake.       *)
stash_slash(s, m) == IF s.reonline[m] = None THEN PercentOf(5, BondStake) ELSE 0

refuse_machine(s, valid, m) ==
    IF s.reonline[m] # None
    THEN [profile_slash_and_reward(s, s.reonline[m].verify_fee, valid) EXCEPT
             !.live[m] = "bonding", !.reonline[m].verify_fee = 0]
    ELSE [change_stake(s, BondStake - stash_slash(s, m), FALSE) EXCEPT !.live[m] = "refused"]

exec_slash(s, amount) ==
    IF s.stash_stake < amount THEN Fail(s) ELSE Ok([s EXCEPT !.stash_stake = @ - amount])

-----------------------------------------------------------------------------
(* Members' calls.  A hash commits its sender to what it will reveal; it    *)
(* contains a random string, so equal hashes come from the same sender.     *)

submit_confirm_hash(c, m, v) ==
    /\ <<c, v>> \notin MachineSubmitedHash[m]
    /\ can_hash(MachineCommittee[m], c)
    /\ MachineSubmitedHash' = [MachineSubmitedHash EXCEPT ![m] = @ \cup {<<c, v>>}]
    /\ MachineCommittee' = [MachineCommittee EXCEPT ![m] = hashed_by(@, c)]
    /\ CommitteeMachine' = [CommitteeMachine EXCEPT ![c] = MoveJob(@, m, "booked", "hashed")]
    /\ CommitteeOps' = [CommitteeOps EXCEPT ![c][m].confirm_hash = v]
    /\ UNCHANGED <<now, machine_vars, slash_vars, stake_vars>>

submit_confirm_raw(c, m, v) ==
    /\ v = CommitteeOps[c][m].confirm_hash
    /\ can_reveal(MachineCommittee[m], CommitteeMachine[c], c, m, now)
    /\ MachineCommittee' = [MachineCommittee EXCEPT ![m] = revealed_by(@, c)]
    /\ CommitteeMachine' = [CommitteeMachine EXCEPT ![c] = MoveJob(@, m, "hashed", "confirmed")]
    /\ CommitteeOps' = [CommitteeOps EXCEPT ![c][m].machine_info = v]
    /\ UNCHANGED <<now, machine_vars, MachineSubmitedHash, slash_vars, stake_vars>>

-----------------------------------------------------------------------------
(* The hooks.                                                               *)
release(s, members) ==
    Always(LAMBDA acc, c : change_used_stake(acc, c, StakePerOrder, FALSE), s, Sorted(members))

add_summary_slash(s, m, owner, amount, summary) ==
    [s EXCEPT !.slash = Append(@,
        [machine_id |-> m, machine_stash |-> owner, stash_slash_amount |-> amount,
         inconsistent |-> summary.invalid, unruly |-> summary.unruly, reward |-> summary.valid,
         committee_stake |-> StakePerOrder, slash_exec_time |-> now + TWO_DAYS,
         book_result |-> summary.result, slash_result |-> "Pending"]),
              !.unhandled = @ \cup {Len(s.slash) + 1}]

forget_jobs(s, members, m) ==
    [s EXCEPT !.jobs = [c \in Members |-> IF c \in members
        THEN forget_job(@[c], m) ELSE @[c]],
              !.ops = [c \in Members |-> IF c \in members THEN [@[c] EXCEPT ![m] = NoOps] ELSE @[c]]]

(* A machine without consensus goes back to be distributed again.           *)
revert_book(s, m) ==
    [forget_jobs(s, s.mc[m].booked, m) EXCEPT !.mc[m] = NoCommittee, !.live[m] = "confirmed"]

decide(s, m) ==
    LET mc == s.mc[m]
        summary == summary_confirmation(mc, [c \in Members |-> s.ops[c][m].machine_info])
        valid == Sorted(summary.valid)
        owner == IF summary.result = "Refused" /\ s.reonline[m] = None THEN Stash ELSE None
        amount == IF owner = None THEN 0 ELSE stash_slash(s, m)
        done == CASE summary.result = "Confirmed" ->
                      [confirm_machine(s, valid, m) EXCEPT !.jobs = [c \in Members |->
                          IF c \in summary.valid THEN [@[c] EXCEPT !.online = @ \cup {m}] ELSE @[c]]]
                  [] summary.result = "Refused" -> refuse_machine(s, valid, m)
                  [] OTHER -> release(revert_book(s, m), summary.invalid)
        settled == IF owner # None \/ should_slash_committee(summary)
                   THEN add_summary_slash(done, m, owner, amount, summary)
                   ELSE release(done, summary.valid)
        closed == [settled EXCEPT !.mc[m] = after_summary(@, summary),
                                  !.hashes[m] = IF mc.booked = {} THEN @ ELSE {}]
    IN Ok(forget_jobs(closed, mc.booked, m))

summary_raw(s, m) ==
    IF can_submit_raw(s.mc[m], now) THEN [s EXCEPT !.mc[m].status = "SubmittingRaw"]
    ELSE IF can_summary(s.mc[m], now) THEN decide(s, m) ELSE s

statistic_result(s) == Always(summary_raw, s, Sorted({m \in Machines : s.live[m] = "booked"}))

(* Three available members are drawn for a machine, whose work is recorded  *)
(* and whose stake is put to use.                                           *)
book_one(s, m, c) ==
    [change_used_stake(s, c, StakePerOrder, TRUE) EXCEPT
        !.mc[m].booked = @ \cup {c}, !.mc[m].book_time = now, !.jobs[c].booked = @ \cup {m}]

distribute(s, m, team) ==
    LET cleared == [s EXCEPT !.mc[m] = NoCommittee] IN
    IF Cardinality(s.normal) < 3 THEN cleared
    ELSE IF ~(team \subseteq s.normal) THEN Fail(s)
    ELSE [Always(LAMBDA acc, c : book_one(acc, m, c), cleared, Sorted(team)) EXCEPT !.live[m] = "booked"]

distribute_machines(s, teams) ==
    WhileOk(LAMBDA acc, m : distribute(acc, m, teams[m]), s,
            Sorted({m \in Machines : s.live[m] = "confirmed"}))

Drop(f, x) == [y \in DOMAIN f \ {x} |-> f[y]]

(* A review whose time is over is left where it is; any other is decided    *)
(* against the applicant.                                                   *)
do_a_pending_review(s, id, t) ==
    LET r == s.review[id]
        x == s.slash[id]
        owner_pays == LET e == exec_slash(s, r.staked_amount) IN
                      IF e.ok THEN slash_and_reward(e, <<Stash>>, x.stash_slash_amount, Sorted(x.reward))
                      ELSE e
        charged == IF x.machine_stash = None
                   THEN change_committee_stake(s, <<r.applicant>>, r.staked_amount, TRUE)
                   ELSE IF x.book_result = "Refused" /\ x.machine_stash = r.applicant THEN owner_pays
                   ELSE Ok(s)
    IN IF r.expire_time < t THEN s
       ELSE IF ~charged.ok THEN charged
       ELSE [slash_and_reward(charged, <<r.applicant>>, r.staked_amount, <<>>) EXCEPT
                !.review = Drop(@, id)]

check_and_exec_pending_review(s, t) ==
    Always(LAMBDA acc, id : do_a_pending_review(acc, id, t), s, Sorted(DOMAIN s.review))

(* Mistake: who voted with the majority is not told from who did not.       *)
slashed_of_all(x) == Sorted(x.unruly) \o Sorted(x.inconsistent) \o Sorted(x.reward)

slashed_of(x) ==
    IF x.stash_slash_amount = 0 /\ x.reward = {} THEN Sorted(x.unruly)
    ELSE Sorted(x.unruly) \o Sorted(x.inconsistent)

(* Mistake: the stake that was just slashed is released as well.            *)
released_of_all(x) == Sorted(x.reward \cup x.inconsistent)

released_of(x) ==
    Sorted(IF x.stash_slash_amount = 0 /\ x.reward = {} THEN x.inconsistent ELSE x.reward)

(* What was done before a failure stays done, and the slash is tried again  *)
(* in the next block.                                                       *)
do_a_slash(s, id, t) ==
    LET x == s.slash[id]
        owner_paid == IF x.machine_stash = None \/ x.stash_slash_amount = 0 THEN Ok(s)
                      ELSE LET e == exec_slash(s, x.stash_slash_amount) IN
                           IF e.ok THEN slash_and_reward(e, <<Stash>>, x.stash_slash_amount, Sorted(x.reward))
                           ELSE e
        lowered == change_committee_stake(owner_paid, slashed_of(x), x.committee_stake, TRUE)
        freed == change_committee_stake(lowered, released_of(x), x.committee_stake, FALSE)
    IN IF t < x.slash_exec_time THEN s
       ELSE IF ~owner_paid.ok THEN owner_paid
       ELSE IF ~lowered.ok THEN lowered
       ELSE IF ~freed.ok THEN freed
       ELSE [slash_and_reward(freed, slashed_of(x), x.committee_stake, <<>>) EXCEPT
                !.slash[id].slash_result = "Executed", !.unhandled = @ \ {id}]

check_and_exec_pending_slash(s, t) ==
    Always(LAMBDA acc, id : do_a_slash(acc, id, t), s, Sorted(s.unhandled))

on_initialize(s, t) == check_and_exec_pending_slash(check_and_exec_pending_review(s, t), t)

(* get_work_index draws any three members that are available.               *)
Teams == {team \in SUBSET Members : Cardinality(team) = 3}

next_block ==
    /\ now < MaxBlock
    /\ now' = now + 1
    /\ \E teams \in [Machines -> Teams] :
          LET s == distribute_machines(statistic_result(storage), teams) IN
          s.ok /\ Store(on_initialize(s, now + 1))

-----------------------------------------------------------------------------
(* Reviews.                                                                 *)

(* The owner asks through its controller; a member, if it controls a stash. *)
apply_slash_review(a, id) ==
    LET x == PendingSlash[id]
        is_slashed_stash == x.book_result = "Refused" /\ x.machine_stash = ControllerStash[a]
        slashed == IF is_slashed_stash THEN Stash ELSE a
        total == change_total_stake(storage, a, StakePerOrder, TRUE, TRUE)
        s == IF is_slashed_stash THEN change_stake(storage, StakePerOrder, TRUE)
             ELSE IF total.ok THEN change_used_stake(total, a, StakePerOrder, TRUE) ELSE total
    IN /\ id \notin DOMAIN PendingSlashReview
       /\ x.slash_exec_time > now
       /\ is_slashed_stash \/ a \in x.inconsistent
       /\ free[slashed] >= StakePerOrder /\ s.ok
       /\ Store([s EXCEPT !.review =
              (id :> [applicant |-> slashed, staked_amount |-> StakePerOrder,
                      expire_time |-> x.slash_exec_time]) @@ @])
       /\ UNCHANGED now

(* The majority was wrong: it pays those it outvoted, and the owner.        *)
do_cancel_slash(s, id) ==
    LET x == s.slash[id]
        r == s.review[id]
        is_owner == x.book_result = "Refused" /\ x.machine_stash = r.applicant
        unstaked == IF is_owner THEN change_stake(s, StakePerOrder, FALSE)
                    ELSE change_used_stake(
                            change_total_stake(unreserve(s, r.applicant, r.staked_amount),
                                               r.applicant, StakePerOrder, FALSE, TRUE),
                            r.applicant, StakePerOrder, FALSE)
        should_slash == Sorted(x.reward \cup x.unruly)
        owner == IF x.book_result = "Refused" /\ x.machine_stash # None THEN {x.machine_stash} ELSE {}
        should_reward == Sorted(x.inconsistent \cup owner)
        paid == slash_and_reward(unstaked, should_slash, StakePerOrder, should_reward)
        returned == IF is_owner THEN change_stake(paid, x.stash_slash_amount, FALSE) ELSE paid
        lowered == Always(LAMBDA acc, c :
                       change_used_stake(change_total_stake(acc, c, StakePerOrder, FALSE, FALSE),
                                         c, StakePerOrder, FALSE), returned, should_slash)
        freed == release(lowered, x.inconsistent \cup owner)
    IN [freed EXCEPT !.slash[id].slash_result = "Canceled", !.unhandled = @ \ {id},
                     !.review = Drop(@, id)]

cancel_slash(id) ==
    /\ PendingSlashReview[id].expire_time > now
    /\ Store(do_cancel_slash(storage, id))
    /\ UNCHANGED now

-----------------------------------------------------------------------------
Next ==
    \/ next_block
    \/ \E m \in Machines :
          \/ bond_machine(m) \/ offline_machine_change_hardware_info(m) \/ add_machine_info(m)
          \/ \E c \in Members, v \in Votes : submit_confirm_hash(c, m, v) \/ submit_confirm_raw(c, m, v)
    \/ \E id \in DOMAIN PendingSlash, a \in DOMAIN ControllerStash : apply_slash_review(a, id)
    \/ \E id \in DOMAIN PendingSlashReview : cancel_slash(id)

Spec == Init /\ [][Next]_vars

-----------------------------------------------------------------------------

Orders(c) == {m \in Listed("booked") : c \in MachineCommittee[m].booked}
Named(x) == x.inconsistent \cup x.unruly \cup x.reward
Waiting(c) == {id \in UnhandledSlash : c \in Named(PendingSlash[id])}

(* The stake of a member in use covers every machine it is verifying and    *)
(* every slash that waits with its name on it: summary_raw and do_a_slash   *)
(* release each once.  A verification without consensus releases the        *)
(* members it is going to slash at once, and is left out.                   *)
OrdersCovered ==
    (\A id \in DOMAIN PendingSlash : PendingSlash[id].book_result # "NoConsensus")
        => \A c \in Members :
              used_stake[c] >= StakePerOrder * (Cardinality(Orders(c)) + Cardinality(Waiting(c)))

(* A machine comes online only with a description that more of its members  *)
(* revealed than revealed anything else.                                    *)
ConfirmedByMajority ==
    [][\A m \in Machines :
         LiveMachines[m] = "booked" /\ LiveMachines'[m] \in {"online", "fulfilling"} =>
            LET Agree(v) == {c \in MachineCommittee[m].confirmed : CommitteeOps[c][m].machine_info = v}
            IN \E v \in Infos : \A w \in Votes \ {v} : Cardinality(Agree(v)) > Cardinality(Agree(w))]_vars

(* A member loses stake only for a machine it did not verify in time, or    *)
(* verified unlike the others, or for a review that went against it.        *)
OnlyFaultySlashed ==
    [][\A c \in Members : staked_amount'[c] < staked_amount[c] =>
         \E id \in DOMAIN PendingSlash :
            LET x == PendingSlash[id] IN
            \/ id \in UnhandledSlash /\ now' >= x.slash_exec_time
               /\ c \in x.unruly \cup (IF x.book_result = "NoConsensus" THEN {} ELSE x.inconsistent)
            \/ id \in DOMAIN PendingSlashReview
               /\ \/ c = PendingSlashReview[id].applicant
                  \/ PendingSlash'[id].slash_result = "Canceled" /\ c \in x.reward \cup x.unruly]_vars

=============================================================================
