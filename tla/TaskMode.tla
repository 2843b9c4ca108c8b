------------------------------ MODULE TaskMode ------------------------------
(***************************************************************************)
(* The task-mode pallet (pallets/task-mode), composed with the price       *)
(* oracle it charges at: admins define tasks, a customer orders one from a *)
(* miner against the whole price in reserve, the miner marks it completed, *)
(* one of the parties settles it, and anyone cancels it after the timeout. *)
(* The share of an order that is "burned" is paid to the treasury.         *)
(***************************************************************************)
EXTENDS Reserves

CONSTANTS
    Prices, URLs, Frequencies, NoPrice, MAX_LEN, MaxUrls, OneDbc,   \* see PriceOcw
    Treasury,
    Definitions,            \* records [input_price, output_price, max_tokens]
    TokenCounts,            \* numbers of tokens an order may ask for
    BurnPercentage, MinerPayoutPercentage, TaskModeRewardPercentage,
    EraDuration, OrderTimeout,
    EraRewards,             \* total_era_rewards, where shares are asked for
    MaxTaskIds, MaxOrders   \* bounds: ids ever handed out

ASSUME TaskModeParams ==
    /\ Treasury \in Accounts
    /\ \A p \in {BurnPercentage, MinerPayoutPercentage, TaskModeRewardPercentage} : p \in 0..100
    /\ EraDuration \in Nat /\ OrderTimeout \in Nat
    /\ Prices \subseteq Nat /\ NoPrice \notin Nat /\ Frequencies \subseteq Nat
    /\ MAX_LEN \in Nat \ {0} /\ OneDbc \in Nat
    /\ IsFiniteSet(Accounts) /\ TokenCounts \subseteq Nat /\ Definitions # {}
    /\ Definitions \subseteq [input_price : Nat, output_price : Nat, max_tokens : Nat]
    /\ EraRewards \in Nat /\ MaxTaskIds \in Nat /\ MaxOrders \in Nat

VARIABLES
    PriceURL, PriceUpdateFrequency, price_tx, samples, AvgPrice,     \* see PriceOcw
    NextTaskId,
    admin, definition, is_active,   \* TaskDefinitions, by task id
    NextOrderId,
    order,                          \* TaskOrders: [task, customer, miner, charged, burned, payout,
                                    \* created_at], by order id
    order_status,                   \* TaskOrders: status ("None": no such order)
    EraStats,                       \* by era: total_charged, total_burned, total_miner_payout,
                                    \* completed_orders
    MinerTaskStats                  \* by era and miner: payout and count

P == INSTANCE PriceOcw WITH block <- now, Blocks <- MaxBlock

oracle == <<PriceURL, PriceUpdateFrequency, price_tx, samples, AvgPrice>>
tasks == <<NextTaskId, admin, definition, is_active>>
orders == <<NextOrderId, order, order_status>>
stats == <<EraStats, MinerTaskStats>>
taskvars == <<oracle, tasks, orders, stats>>

TaskIds == 0..MaxTaskIds - 1
OrderIds == 0..MaxOrders - 1
OrderStatuses == {"None", "InProgress", "Completed", "Settled"}

-----------------------------------------------------------------------------
block_to_era(b) == IF EraDuration = 0 THEN 0 ELSE b \div EraDuration

Eras == {block_to_era(b) : b \in 0..MaxBlock}

NoOrder == [task |-> 0, customer |-> Treasury, miner |-> Treasury, charged |-> 0, burned |-> 0,
            payout |-> 0, created_at |-> 0]

TaskInit ==
    /\ P!Init
    /\ NextTaskId = 0
    /\ admin = [t \in TaskIds |-> Treasury]
    /\ definition = [t \in TaskIds |-> CHOOSE d \in Definitions : TRUE]
    /\ is_active = [t \in TaskIds |-> FALSE]
    /\ NextOrderId = 0
    /\ order = [o \in OrderIds |-> NoOrder]
    /\ order_status = [o \in OrderIds |-> "None"]
    /\ EraStats = [e \in Eras |-> [charged |-> 0, burned |-> 0, payout |-> 0, completed |-> 0]]
    /\ MinerTaskStats = [e \in Eras |-> [a \in Accounts |-> [payout |-> 0, count |-> 0]]]
    /\ free = [a \in Accounts |-> Endowment]
    /\ reserved = [a \in Accounts |-> 0]

create_task_definition(who, def) ==
    /\ NextTaskId \in TaskIds
    /\ NextTaskId' = NextTaskId + 1
    /\ admin' = [admin EXCEPT ![NextTaskId] = who]
    /\ definition' = [definition EXCEPT ![NextTaskId] = def]
    /\ is_active' = [is_active EXCEPT ![NextTaskId] = TRUE]
    /\ UNCHANGED <<now, oracle, orders, stats, balances>>

(* By its admin; each of the fields may stay as it is. *)
update_task_definition(task, def, active) ==
    /\ task < NextTaskId
    /\ definition' = [definition EXCEPT ![task] = def]
    /\ is_active' = [is_active EXCEPT ![task] = active]
    /\ UNCHANGED <<now, oracle, NextTaskId, admin, orders, stats, balances>>

calculate_order_usd_value(input_tokens, output_tokens, def) ==
    ((input_tokens * def.input_price) \div 1000) + ((output_tokens * def.output_price) \div 1000)

(* The test that the two rounded parts fit into the total. *)
split_fits(total) ==
    PercentOf(BurnPercentage, total) + PercentOf(MinerPayoutPercentage, total) <= total

payout_part(total) == total - PercentOf(BurnPercentage, total)

calculate_revenue_split(total) ==
    [burned |-> PercentOf(BurnPercentage, total), payout |-> payout_part(total)]

create_task_order(customer, task, miner, input_tokens, output_tokens) ==
    LET def == definition[task]
        total == P!get_dbc_amount_by_value(
                     calculate_order_usd_value(input_tokens, output_tokens, def))
        split == calculate_revenue_split(total)
    IN
    /\ NextOrderId \in OrderIds
    /\ task < NextTaskId
    /\ is_active[task]
    /\ input_tokens + output_tokens <= def.max_tokens
    /\ total # NoPrice
    /\ split_fits(total)
    /\ reserve(customer, total)
    /\ NextOrderId' = NextOrderId + 1
    /\ order' = [order EXCEPT ![NextOrderId] =
                    [task |-> task, customer |-> customer, miner |-> miner, charged |-> total,
                     burned |-> split.burned, payout |-> split.payout, created_at |-> now]]
    /\ order_status' = [order_status EXCEPT ![NextOrderId] = "InProgress"]
    /\ UNCHANGED <<now, oracle, tasks, stats>>

(* By the miner of the order. *)
mark_order_completed(id) ==
    /\ order_status[id] = "InProgress"
    /\ order_status' = [order_status EXCEPT ![id] = "Completed"]
    /\ UNCHANGED <<now, oracle, tasks, NextOrderId, order, stats, balances>>

(* Two repatriate_reserved calls; what the reserve lacks is not reported. *)
pay_out(o) ==
    LET burned == Available(o.customer, o.burned)
        rest == reserved[o.customer] - burned
        payout == IF o.payout <= rest THEN o.payout ELSE rest
        credited == [free EXCEPT ![Treasury] = @ + burned]
    IN /\ reserved' = [reserved EXCEPT ![o.customer] = @ - burned - payout]
       /\ free' = [credited EXCEPT ![o.miner] = @ + payout]

era_of(o) == block_to_era(o.created_at)

(* Mistake: only the era as a whole is counted. *)
count_era_only(o) ==
    /\ EraStats' = [EraStats EXCEPT ![era_of(o)].payout = @ + o.payout]
    /\ UNCHANGED MinerTaskStats

count(o) ==
    /\ EraStats' = [EraStats EXCEPT ![era_of(o)] =
                       [charged |-> @.charged + o.charged, burned |-> @.burned + o.burned,
                        payout |-> @.payout + o.payout, completed |-> @.completed + 1]]
    /\ MinerTaskStats' = [MinerTaskStats EXCEPT ![era_of(o)][o.miner] =
                             [payout |-> @.payout + o.payout, count |-> @.count + 1]]

can_settle(id) == order_status[id] = "Completed"

(* By the customer, the miner or the admin of the task. *)
settle_task_order(id) ==
    /\ can_settle(id)
    /\ pay_out(order[id])
    /\ order_status' = [order_status EXCEPT ![id] = "Settled"]
    /\ count(order[id])
    /\ UNCHANGED <<now, oracle, tasks, NextOrderId, order>>

(* Mistake: an order can be cancelled again. *)
can_cancel_again(id) == order_status[id] # "None"

can_cancel(id) == order_status[id] = "InProgress"

(* By anyone. *)
cancel_expired_order(id) ==
    /\ can_cancel(id)
    /\ now > order[id].created_at + OrderTimeout
    /\ unreserve(order[id].customer, order[id].charged)
    /\ order_status' = [order_status EXCEPT ![id] = "Settled"]
    /\ UNCHANGED <<now, oracle, tasks, NextOrderId, order, stats>>

(* The runtime query over the statistics; 0 stands for None. *)
miner_reward_share(era, who, total_era_rewards) ==
    LET pool == PercentOf(TaskModeRewardPercentage, total_era_rewards)
    IN IF EraStats[era].payout = 0 THEN 0
       ELSE (pool * MinerTaskStats[era][who].payout) \div EraStats[era].payout

-----------------------------------------------------------------------------
TaskCall ==
    \/ \E who \in Accounts \ {Treasury}, def \in Definitions : create_task_definition(who, def)
    \/ \E task \in TaskIds, def \in Definitions, active \in BOOLEAN :
          update_task_definition(task, def, active)
    \/ \E customer, miner \in Accounts \ {Treasury}, task \in TaskIds, i, o \in TokenCounts :
          create_task_order(customer, task, miner, i, o)
    \/ \E id \in OrderIds :
          \/ mark_order_completed(id)
          \/ settle_task_order(id)
          \/ cancel_expired_order(id)

OracleStep == P!OracleStep /\ UNCHANGED <<tasks, orders, stats, balances>>

(* Neither pallet has a hook that changes its state. *)
task_next_block == P!next_price_block /\ UNCHANGED <<tasks, orders, stats, balances>>

TaskNext == TaskCall \/ OracleStep \/ task_next_block

TaskSpec == TaskInit /\ [][TaskNext]_<<now, taskvars, balances>>

-----------------------------------------------------------------------------
(* Every variable of the two pallets keeps its type. *)
TaskTypeOK ==
    /\ P!TypeOK
    /\ NextTaskId \in 0..MaxTaskIds
    /\ admin \in [TaskIds -> Accounts]
    /\ definition \in [TaskIds -> Definitions]
    /\ is_active \in [TaskIds -> BOOLEAN]
    /\ NextOrderId \in 0..MaxOrders
    /\ order \in [OrderIds -> [task : Nat, customer : Accounts, miner : Accounts, charged : Nat,
                               burned : Nat, payout : Nat, created_at : 0..MaxBlock]]
    /\ order_status \in [OrderIds -> OrderStatuses]
    /\ EraStats \in [Eras -> [charged : Nat, burned : Nat, payout : Nat, completed : Nat]]
    /\ MinerTaskStats \in [Eras -> [Accounts -> [payout : Nat, count : Nat]]]
    /\ free \in [Accounts -> Nat]
    /\ reserved \in [Accounts -> Nat]

(* What the customer a has in reserve for the order id. *)
ChargedFor(a, id) ==
    IF order_status[id] \in {"InProgress", "Completed"} /\ order[id].customer = a
    THEN order[id].charged ELSE 0

Charged(a) == SumOver([id \in OrderIds |-> ChargedFor(a, id)], OrderIds)

(* A customer's reserve is the sum of what the open orders were charged, at *)
(* the price of the moment each was made: settling or cancelling never pays *)
(* an order out of another one's money, and leaves no rest behind, whatever *)
(* the oracle or the admin has done meanwhile.                              *)
ReserveIsCharged == \A a \in Accounts : reserved[a] = Charged(a)

(* How an order ends is decided once and by its miner: one marked completed *)
(* can only be settled by paying it, in the statistics of its era, and      *)
(* cannot be lost to the timeout; one still in progress can only be         *)
(* refunded, after the timeout, and pays nobody.                            *)
EndsOnce ==
    [][\A id \in OrderIds :
          LET era == block_to_era(order[id].created_at)
              paid == EraStats'[era].completed = EraStats[era].completed + 1
          IN /\ order_status[id] = "Settled" => order_status'[id] = "Settled"
             /\ order_status[id] = "Completed" /\ order_status'[id] = "Settled" => paid
             /\ order_status[id] = "InProgress" /\ order_status'[id] = "Settled" =>
                    ~paid /\ now > order[id].created_at + OrderTimeout]_<<now, taskvars, balances>>

(* What an era has charged is what it has burned and paid, to the unit, and *)
(* its statistics are the totals over its miners, so that the shares of the *)
(* era's reward never add up to more than the pool.                         *)
SharesWithinPool ==
    \A e \in Eras :
        /\ EraStats[e].charged = EraStats[e].burned + EraStats[e].payout
        /\ EraStats[e].payout = SumOver([a \in Accounts |-> MinerTaskStats[e][a].payout], Accounts)
        /\ SumOver([a \in Accounts |-> miner_reward_share(e, a, EraRewards)], Accounts)
             <= PercentOf(TaskModeRewardPercentage, EraRewards)
=============================================================================
