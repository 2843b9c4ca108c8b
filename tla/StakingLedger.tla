--------------------------- MODULE StakingLedger ---------------------------
(***************************************************************************)
(* The values of the staking pallet and what is computed on them: the      *)
(* ledger of a stash (lib.rs, StakingLedger) and its slashing spans        *)
(* (slashing.rs, SlashingSpans).  A ledger is                              *)
(*   [stash, total, active, unlocking, claimed_rewards]                    *)
(* with unlocking a sequence of [value, era] and claimed_rewards the set   *)
(* of eras of the sorted vector.                                           *)
(***************************************************************************)
EXTENDS Integers, Sequences, SequencesExt, FiniteSets

CONSTANTS
    None,
    ED,                     \* T::Currency::minimum_balance()
    BondingDuration

Less(a, x) == IF a >= x THEN a - x ELSE 0
Lower(a, x) == IF a <= x THEN a ELSE x
Higher(a, x) == IF a >= x THEN a ELSE x
Total(list) == FoldLeft(LAMBDA acc, x : acc + x, 0, list)
ValueOf(chunks) == FoldLeft(LAMBDA acc, c : acc + c.value, 0, chunks)

-----------------------------------------------------------------------------
(* Perbill and Perquintill are whole numbers of parts; a part stands for    *)
(* 10^-9 and 10^-18 in the code.                                            *)
Accuracy == 1000000
DivUp(a, b) == (a + b - 1) \div b

(* from_rational rounds down, and so the product can fall below a half.     *)
from_rational(p, q) == (Lower(p, Higher(q, 1)) * Accuracy) \div Higher(q, 1)

(* Perbill * amount: to the nearest, a half down.                           *)
Portion(parts, amount) == (2 * parts * amount + Accuracy - 1) \div (2 * Accuracy)

(* from_rational_with_rounding(.., Up), or one when it fails, and mul_ceil. *)
RatioUp(p, q) == IF q = 0 \/ p > q THEN Accuracy ELSE DivUp(p * Accuracy, q)
mul_ceil(parts, amount) == DivUp(parts * amount, Accuracy)

-----------------------------------------------------------------------------
(* The ledger.                                                              *)
new_ledger(stash, value, claimed) ==
    [stash |-> stash, total |-> value, active |-> value, unlocking |-> <<>>, claimed_rewards |-> claimed]

consolidate_unlocked(l, current_era) ==
    LET due == SelectSeq(l.unlocking, LAMBDA c : c.era <= current_era) IN
    [l EXCEPT !.unlocking = SelectSeq(@, LAMBDA c : c.era > current_era),
              !.total = Less(@, ValueOf(due))]

(* From the last chunk backwards, until value is back in the active part.   *)
rebond(l, value) ==
    LET step(acc, c) ==
            LET back == Lower(c.value, value - acc.sum) IN
            [sum |-> acc.sum + back,
             kept |-> IF back = c.value THEN acc.kept
                      ELSE <<[c EXCEPT !.value = @ - back]>> \o acc.kept]
        end == FoldLeft(step, [sum |-> 0, kept |-> <<>>], Reverse(l.unlocking))
    IN  [l EXCEPT !.active = @ + end.sum, !.unlocking = end.kept]

(* The first chunk that was still bonded in the era of the offence; 0 when  *)
(* there is none.                                                           *)
first_slashable_index(l, slash_era) ==
    LET late == {i \in DOMAIN l.unlocking : l.unlocking[i].era >= slash_era + BondingDuration} IN
    IF late = {} THEN 0 ELSE CHOOSE i \in late : \A j \in late : i <= j

(* The active part first, then the chunks by priority; in proportion when   *)
(* some chunk was bonded in the era of the offence.  What would be left as  *)
(* dust goes too.                                                           *)
slash(l, slash_amount, slash_era) ==
    LET n == Len(l.unlocking)
        first == first_slashable_index(l, slash_era)
        affected == l.active + ValueOf(SubSeq(l.unlocking, first, n))
        ratio == RatioUp(slash_amount, affected)
        priority == IF first = 0 THEN Reverse([i \in 1 .. n |-> i])
                    ELSE [i \in 1 .. n - first + 1 |-> first + i - 1] \o Reverse([i \in 1 .. first - 1 |-> i])
        slash_out_of(target, remaining) ==
            LET part == Lower(Lower(IF first = 0 THEN remaining ELSE mul_ceil(ratio, target), target), remaining)
            IN  IF target - part < ED THEN target ELSE part
        own == slash_out_of(l.active, slash_amount)
        step(acc, i) ==
            LET taken == IF acc.remaining = 0 THEN 0
                         ELSE slash_out_of(acc.chunks[i].value, acc.remaining) IN
            [remaining |-> Less(acc.remaining, taken), chunks |-> [acc.chunks EXCEPT ![i].value = @ - taken]]
        end == FoldLeft(step, [remaining |-> Less(slash_amount, own), chunks |-> l.unlocking], priority)
        taken == own + ValueOf(l.unlocking) - ValueOf(end.chunks)
    IN  IF slash_amount = 0 THEN l
        ELSE [l EXCEPT !.active = @ - own, !.total = Less(@, taken),
                       !.unlocking = SelectSeq(end.chunks, LAMBDA c : c.value # 0)]

-----------------------------------------------------------------------------
(* The slashing spans of a stash, the most recent first.                    *)
new_spans(window_start) ==
    [span_index |-> 0, last_start |-> window_start, last_nonzero_slash |-> 0, prior |-> <<>>]

end_span(spans, now) ==
    IF now + 1 <= spans.last_start THEN spans
    ELSE [spans EXCEPT !.prior = <<now + 1 - spans.last_start>> \o @, !.last_start = now + 1,
                       !.span_index = @ + 1]

spans_iter(spans) ==
    [k \in 1 .. Len(spans.prior) + 1 |->
        [index  |-> spans.span_index - k + 1,
         start  |-> spans.last_start - Total(SubSeq(spans.prior, 1, k - 1)),
         length |-> IF k = 1 THEN None ELSE spans.prior[k - 1]]]

contains_era(span, era) ==
    span.start <= era /\ (span.length # None => span.start + span.length > era)

era_span(spans, era) ==
    LET iter == spans_iter(spans)
        with == {k \in DOMAIN iter : contains_era(iter[k], era)}
    IN  IF with = {} THEN None ELSE iter[CHOOSE k \in with : \A j \in with : k <= j]

(* How many prior spans are kept: those that end after the window starts.   *)
kept_prior(spans, window_start) ==
    LET iter == spans_iter(spans)
        old == {k \in 2 .. Len(iter) : iter[k].start + iter[k].length <= window_start}
    IN  IF old = {} THEN Len(spans.prior) ELSE (CHOOSE k \in old : \A j \in old : k <= j) - 2

prune(spans, window_start) ==
    [spans EXCEPT !.prior = SubSeq(@, 1, kept_prior(spans, window_start)),
                  !.last_start = Higher(@, window_start)]

(* The indices of the spans whose records prune drops.                      *)
pruned(spans, window_start) ==
    spans.span_index - Len(spans.prior) .. spans.span_index - kept_prior(spans, window_start) - 1
=============================================================================
