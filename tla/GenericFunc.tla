---------------------------- MODULE GenericFunc ----------------------------
(***************************************************************************)
(* The generic-func pallet: coins are donated to the treasury, or          *)
(* destroyed, by their owner, by root, or by a hook that empties one       *)
(* account every so many blocks.  That account is the pot that rent-machine *)
(* pays part of every rent into.  The fee of a transaction, which a        *)
(* destruction leaves to the account, is the constant FixedTxFee.          *)
(***************************************************************************)
EXTENDS OnlineProfile

CONSTANTS
    Destroyers, Frequencies,    \* set_auto_destroy
    DestroyAmounts              \* what a call may ask to donate or destroy

ASSUME DestroyParams ==
    Destroyers \subseteq Accounts /\ 0 \in Frequencies /\ DestroyAmounts \subseteq Nat

VARIABLES DestroyHook, TotalDestroy

generic_vars == <<DestroyHook, TotalDestroy>>

GenericInit == DestroyHook = None /\ TotalDestroy = [a \in Accounts |-> 0]

pay_fixed_tx_fee(b, who) == transfer(b, who, Treasury, FixedTxFee)

(* The coins x.b and the record x.destroyed.  make_free_balance_be lowers   *)
(* the issuance by what is gone; that burn lowers it again is undone when   *)
(* its imbalance is dropped.                                                *)
do_destroy_dbc(x, who, amount) ==
    LET burned == Lower(amount, Less(x.b.free[who], FixedTxFee)) IN
    [x EXCEPT !.b.free[who] = @ - burned, !.destroyed[who] = @ + burned]

auto_destroy(x, who) == do_destroy_dbc(x, who, x.b.free[who])

(* The hook of block t, before that of online-profile.                      *)
destroy_on_initialize(b, t) ==
    LET x == [b |-> b, destroyed |-> TotalDestroy] IN
    IF DestroyHook = None THEN x
    ELSE IF t % DestroyHook.frequency # 0 THEN x
    ELSE auto_destroy(x, DestroyHook.who)

set_auto_destroy(who, frequency) ==
    /\ DestroyHook' = IF frequency = 0 THEN None ELSE [who |-> who, frequency |-> frequency]
    /\ UNCHANGED <<TotalDestroy, profile_vars>>

Destroy(who, amount) ==
    LET x == do_destroy_dbc([b |-> balances, destroyed |-> TotalDestroy], who, amount) IN
    /\ SetBalances(x.b) /\ TotalDestroy' = x.destroyed
    /\ UNCHANGED <<DestroyHook, machine_vars, owner_vars, slash_vars, report_vars,
                   UserMutHardwareStake, oc_slash, stake_per_gpu>>

destroy_free_dbc(who, amount) == Destroy(who, amount)

force_destroy_free_dbc(who, amount) == Destroy(who, amount)

deposit_into_treasury(who, amount) ==
    /\ free[who] >= amount
    /\ SetBalances(transfer(balances, who, Treasury, amount))
    /\ UNCHANGED <<generic_vars, machine_vars, owner_vars, slash_vars, report_vars,
                   UserMutHardwareStake, oc_slash, stake_per_gpu>>

GenericCall ==
    /\ \/ \E who \in Destroyers, frequency \in Frequencies : set_auto_destroy(who, frequency)
       \/ \E who \in Accounts, amount \in DestroyAmounts :
             \/ destroy_free_dbc(who, amount) \/ force_destroy_free_dbc(who, amount)
             \/ deposit_into_treasury(who, amount)
    /\ UNCHANGED now
=============================================================================
