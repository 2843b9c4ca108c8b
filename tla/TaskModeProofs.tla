--------------------------- MODULE TaskModeProofs ---------------------------
(***************************************************************************)
(* Proofs about the task-mode pallet and the price oracle it charges at,   *)
(* for any accounts, prices, percentages, eras and bounds.  The lemmas on  *)
(* single steps ask of the reserves only that they cover the open orders,  *)
(* so that they hold as well where other pallets use the same reserve.     *)
(***************************************************************************)
EXTENDS TaskMode, SumTheorems, Sequences

(* Ids that are not handed out are unused, every order is split without a   *)
(* rest, and the statistics of an era add up.                               *)
OrderFresh == \A id \in OrderIds : id >= NextOrderId => order_status[id] = "None"

OrderSplit == \A id \in OrderIds : order[id].charged = order[id].burned + order[id].payout

PayoutsOf(e) == [a \in Accounts |-> MinerTaskStats[e][a].payout]

StatsAddUp ==
    \A e \in Eras :
        /\ EraStats[e].charged = EraStats[e].burned + EraStats[e].payout
        /\ EraStats[e].payout = SumOver(PayoutsOf(e), Accounts)

TInv == TaskTypeOK /\ OrderFresh /\ OrderSplit /\ StatsAddUp

(* The reserve of every account covers its open orders. *)
ChargesCovered == \A a \in Accounts : Charged(a) <= reserved[a]

ChargesFollow == \A a \in Accounts : reserved'[a] + Charged(a) = reserved[a] + Charged(a)'

-----------------------------------------------------------------------------
(* A leaf goes to the SMT solver, to Zenon and, with more time, to the     *)
(* SMT solver again, unless it says otherwise.                             *)
USE SMTT(30), ZenonT(30), SMTT(40)

(* A percentage of an amount, rounded, is no more than the amount.          *)
LEMMA PercentType ==
    ASSUME NEW p \in 0..100, NEW n \in Nat
    PROVE  PercentOf(p, n) \in 0..n
<1>1. PICK m \in Nat : m = p * n
    OBVIOUS
<1>2. m <= 100 * n
    BY <1>1
<1>3. 2 * p * n = 2 * m
    BY <1>1
<1>4. (2 * m + 99) \div 200 \in 0..n
    BY <1>2
<1> QED BY <1>3, <1>4 DEF PercentOf

(* The parts an order is split into are naturals and make up the total.     *)
LEMMA SplitType ==
    ASSUME NEW total \in Nat
    PROVE  /\ PercentOf(BurnPercentage, total) \in Nat /\ payout_part(total) \in Nat
           /\ total = PercentOf(BurnPercentage, total) + payout_part(total)
<1>1. PercentOf(BurnPercentage, total) \in 0..total
    BY PercentType, TaskModeParams, ZenonT(30)
<1> QED BY <1>1 DEF payout_part

(* A quotient of naturals is a natural.                                     *)
LEMMA QuotientType ==
    ASSUME NEW n \in Nat, NEW d \in Nat \ {0}
    PROVE  n \div d \in Nat
OBVIOUS

(* The price of an order is a natural, if the oracle has one.               *)
LEMMA PriceType ==
    ASSUME AvgPrice \in Nat \cup {NoPrice}, NEW d \in Definitions,
           NEW i \in TokenCounts, NEW o \in TokenCounts
    PROVE  P!get_dbc_amount_by_value(calculate_order_usd_value(i, o, d)) \in Nat \cup {NoPrice}
<1>1. i \in Nat /\ o \in Nat /\ d.input_price \in Nat /\ d.output_price \in Nat /\ OneDbc \in Nat
    BY TaskModeParams
<1>2. \A m, n \in Nat : m * n \in Nat
    OBVIOUS
<1>3. (i * d.input_price) \div 1000 \in Nat /\ (o * d.output_price) \div 1000 \in Nat
    BY <1>1, <1>2, QuotientType
<1>4. PICK v \in Nat : v = calculate_order_usd_value(i, o, d)
    BY <1>3 DEF calculate_order_usd_value
<1>5. v * OneDbc \in Nat
    BY <1>1, <1>2
<1>6. P!get_dbc_amount_by_value(v) \in Nat \cup {NoPrice}
    BY <1>5, QuotientType DEF P!get_dbc_amount_by_value
<1> QED BY <1>4, <1>6 DEF P!get_dbc_amount_by_value

(* The average of a window of prices is a natural.                          *)
LEMMA AverageType ==
    ASSUME NEW s \in Seq(Prices), Len(s) # 0
    PROVE  P!Total(s) \div Len(s) \in Nat
<1>1. DOMAIN s = 1..Len(s) /\ Len(s) \in Nat /\ s \in [DOMAIN s -> Nat]
  <2>1. DOMAIN s = 1..Len(s) /\ Len(s) \in Nat /\ \A i \in 1..Len(s) : s[i] \in Prices
      OBVIOUS
  <2>2. \A i \in 1..Len(s) : s[i] \in Nat
      BY <2>1, TaskModeParams, ZenonT(30)
  <2>3. s = [i \in DOMAIN s |-> s[i]]
      OBVIOUS
  <2>4. s \in [1..Len(s) -> Nat]
      BY <2>1, <2>2, <2>3, ZenonT(30)
  <2> QED BY <2>1, <2>4, ZenonT(30)
<1>2. IsFiniteSet(DOMAIN s)
  <2>1. \A n \in Nat : IsFiniteSet(1..n)
      BY FS_Interval
  <2> QED BY <1>1, <2>1, ZenonT(30)
<1>3. SumOver(s, DOMAIN s) \in Nat
    BY <1>1, <1>2, SumType
<1>4. P!Total(s) = SumOver(s, DOMAIN s)
    BY DEF P!Total, P!SumOver, SumOver
<1> QED BY <1>1, <1>3, <1>4, QuotientType

(* The era of an order is one of the eras there are statistics for.         *)
LEMMA EraOfOrder ==
    ASSUME TaskTypeOK, NEW id \in OrderIds
    PROVE  era_of(order[id]) \in Eras
<1>1. order[id].created_at \in 0..MaxBlock
    BY DEF TaskTypeOK
<1> QED BY <1>1 DEF Eras, era_of

(* There are finitely many orders.                                          *)
LEMMA OrderIdsFinite ==
    IsFiniteSet(OrderIds) /\ OrderIds \subseteq Nat
BY FS_Interval, TaskModeParams DEF OrderIds

-----------------------------------------------------------------------------
(* What the open orders of an account were charged. *)
ChargesOf(a) == [id \in OrderIds |-> ChargedFor(a, id)]

(* The charges are naturals, and so is their sum.                           *)
LEMMA ChargedType ==
    ASSUME TaskTypeOK, NEW a \in Accounts
    PROVE  /\ ChargesOf(a) \in [OrderIds -> Nat] /\ Charged(a) \in Nat
           /\ Charged(a) = SumOver(ChargesOf(a), OrderIds)
<1>1. ChargesOf(a) \in [OrderIds -> Nat]
    BY DEF ChargesOf, ChargedFor, TaskTypeOK
<1>2. SumOver(ChargesOf(a), OrderIds) \in Nat
    BY <1>1, SumType, OrderIdsFinite, ZenonT(30)
<1> QED BY <1>1, <1>2 DEF Charged, ChargesOf

(* The same in the next state.                                              *)
LEMMA ChargedTypeNext ==
    ASSUME TaskTypeOK', NEW a \in Accounts
    PROVE  /\ ChargesOf(a)' \in [OrderIds -> Nat] /\ Charged(a)' \in Nat
           /\ Charged(a)' = SumOver(ChargesOf(a)', OrderIds)
<1>1. ChargesOf(a)' \in [OrderIds -> Nat]
    BY DEF ChargesOf, ChargedFor, TaskTypeOK
<1>2. SumOver(ChargesOf(a)', OrderIds) \in Nat
    BY <1>1, SumType, OrderIdsFinite, ZenonT(30)
<1> QED BY <1>1, <1>2 DEF Charged, ChargesOf

(* Where only the order i changes, the sum changes by what i does.          *)
LEMMA ChargedStep ==
    ASSUME TaskTypeOK, TaskTypeOK', NEW i \in OrderIds, NEW a \in Accounts,
           \A id \in OrderIds \ {i} : order_status'[id] = order_status[id] /\ order'[id] = order[id]
    PROVE  /\ Charged(a)' + ChargedFor(a, i) = Charged(a) + ChargedFor(a, i)'
           /\ Charged(a) \in Nat /\ Charged(a)' \in Nat
<1>1. /\ ChargesOf(a) \in [OrderIds -> Nat] /\ Charged(a) = SumOver(ChargesOf(a), OrderIds)
      /\ Charged(a) \in Nat
    BY ChargedType
<1>2. /\ ChargesOf(a)' \in [OrderIds -> Nat] /\ Charged(a)' = SumOver(ChargesOf(a)', OrderIds)
      /\ Charged(a)' \in Nat
    BY ChargedTypeNext
<1>3. \A id \in OrderIds \ {i} : ChargesOf(a)'[id] = ChargesOf(a)[id]
    BY DEF ChargesOf, ChargedFor
<1>4. ChargesOf(a)[i] = ChargedFor(a, i) /\ ChargesOf(a)'[i] = ChargedFor(a, i)'
    BY DEF ChargesOf
<1>5. SumOver(ChargesOf(a)', OrderIds) + ChargesOf(a)[i] = SumOver(ChargesOf(a), OrderIds) + ChargesOf(a)'[i]
    BY <1>1, <1>2, <1>3, SumUpdate, OrderIdsFinite, ZenonT(30)
<1> QED BY <1>1, <1>2, <1>4, <1>5

(* A single open order is covered by the sum.                               *)
LEMMA ChargedMember ==
    ASSUME TaskTypeOK, NEW i \in OrderIds, order_status[i] \in {"InProgress", "Completed"}
    PROVE  order[i].customer \in Accounts /\ order[i].charged <= Charged(order[i].customer)
<1>1. PICK c \in Accounts : c = order[i].customer
    BY DEF TaskTypeOK
<1>2. ChargesOf(c)[i] = order[i].charged
    BY <1>1 DEF ChargesOf, ChargedFor
<1>3. ChargesOf(c)[i] <= Charged(c)
    BY ChargedType, SumMember, OrderIdsFinite, ZenonT(30)
<1> QED BY <1>1, <1>2, <1>3

(* Where no order changes, neither do the charges.                          *)
LEMMA ChargedUnchanged ==
    ASSUME order' = order, order_status' = order_status
    PROVE  \A a \in Accounts : Charged(a)' = Charged(a)
<1> SUFFICES ASSUME NEW a \in Accounts PROVE Charged(a)' = Charged(a)
    OBVIOUS
<1>1. [id \in OrderIds |-> ChargedFor(a, id)]' = [id \in OrderIds |-> ChargedFor(a, id)]
    BY DEF ChargedFor
<1> QED BY <1>1 DEF Charged

-----------------------------------------------------------------------------
(* Calls that change the definitions only leave the orders alone.           *)
LEMMA DefinitionStep ==
    ASSUME TInv, NEW who \in Accounts, NEW task \in TaskIds, NEW def \in Definitions,
           NEW active \in BOOLEAN,
           create_task_definition(who, def) \/ update_task_definition(task, def, active)
    PROVE  TInv' /\ ChargesFollow
<1>1. UNCHANGED <<now, oracle, orders, stats, balances>>
    BY DEF create_task_definition, update_task_definition
<1>2. TaskTypeOK'
  <2> USE <1>1, TaskModeParams DEF TInv, TaskTypeOK, orders, stats, balances, oracle
  <2>1. P!TypeOK'
      BY DEF P!TypeOK
  <2>2. CASE create_task_definition(who, def)
    <3>1. NextTaskId' \in 0..MaxTaskIds
        BY <2>2 DEF create_task_definition, TaskIds
    <3> QED BY <2>1, <2>2, <3>1 DEF create_task_definition
  <2>3. CASE update_task_definition(task, def, active)
      BY <2>1, <2>3 DEF update_task_definition
  <2> QED BY <2>2, <2>3
<1>3. OrderFresh' /\ OrderSplit' /\ StatsAddUp'
    BY <1>1 DEF TInv, OrderFresh, OrderSplit, StatsAddUp, PayoutsOf, orders, stats
<1>4. ChargesFollow
    BY <1>1, ChargedUnchanged DEF ChargesFollow, orders, balances
<1> QED BY <1>2, <1>3, <1>4 DEF TInv

(* create_task_order: a fresh id, the price of the moment in reserve, and   *)
(* its two parts on record.                                                 *)
LEMMA OrderStep ==
    ASSUME TInv, NEW customer \in Accounts, NEW miner \in Accounts,
           NEW task \in TaskIds, NEW i \in TokenCounts, NEW o \in TokenCounts,
           create_task_order(customer, task, miner, i, o)
    PROVE  TInv' /\ ChargesFollow
<1> USE DEF TInv
<1>1. PICK n \in OrderIds : n = NextOrderId /\ n \in Nat /\ order_status[n] = "None"
    BY OrderIdsFinite DEF create_task_order, OrderFresh, TaskTypeOK
<1>2. PICK total \in Nat :
        total = P!get_dbc_amount_by_value(calculate_order_usd_value(i, o, definition[task]))
  <2>1. PICK d \in Definitions : d = definition[task]
      BY DEF TaskTypeOK
  <2>2. P!get_dbc_amount_by_value(calculate_order_usd_value(i, o, d)) \in Nat \cup {NoPrice}
      BY PriceType DEF TaskTypeOK, P!TypeOK
  <2>3. P!get_dbc_amount_by_value(calculate_order_usd_value(i, o, definition[task])) # NoPrice
      BY DEF create_task_order
  <2> QED BY <2>1, <2>2, <2>3
<1> DEFINE new == [task |-> task, customer |-> customer, miner |-> miner, charged |-> total,
                   burned |-> PercentOf(BurnPercentage, total), payout |-> payout_part(total),
                   created_at |-> now]
<1>3. /\ order' = [order EXCEPT ![n] = new]
      /\ order_status' = [order_status EXCEPT ![n] = "InProgress"]
      /\ NextOrderId' = n + 1
      /\ free[customer] >= total
      /\ free' = [free EXCEPT ![customer] = @ - total]
      /\ reserved' = [reserved EXCEPT ![customer] = @ + total]
      /\ UNCHANGED <<now, oracle, tasks, stats>>
    BY <1>1, <1>2 DEF create_task_order, calculate_revenue_split, reserve
<1>4. /\ new \in [task : Nat, customer : Accounts, miner : Accounts, charged : Nat,
                   burned : Nat, payout : Nat, created_at : 0..MaxBlock]
      /\ new.charged = new.burned + new.payout /\ new.customer = customer /\ new.charged = total
  <2>1. task \in Nat
      BY TaskModeParams DEF TaskIds
  <2>2. now \in 0..MaxBlock
      BY DEF TaskTypeOK, P!TypeOK
  <2>3. /\ PercentOf(BurnPercentage, total) \in Nat /\ payout_part(total) \in Nat
        /\ total = PercentOf(BurnPercentage, total) + payout_part(total)
      BY SplitType
  <2> QED BY <2>1, <2>2, <2>3
<1> HIDE DEF new
<1>5. TaskTypeOK'
  <2> USE <1>1, <1>3, <1>4 DEF TaskTypeOK
  <2>1. P!TypeOK' /\ NextTaskId' \in 0..MaxTaskIds /\ admin' \in [TaskIds -> Accounts]
        /\ definition' \in [TaskIds -> Definitions] /\ is_active' \in [TaskIds -> BOOLEAN]
      BY ZenonT(30) DEF P!TypeOK, oracle, tasks
  <2>2. NextOrderId' \in 0..MaxOrders
      BY TaskModeParams DEF OrderIds
  <2>3. order' \in [OrderIds -> [task : Nat, customer : Accounts, miner : Accounts, charged : Nat,
                                 burned : Nat, payout : Nat, created_at : 0..MaxBlock]]
      OBVIOUS
  <2>4. order_status' \in [OrderIds -> OrderStatuses]
      BY DEF OrderStatuses
  <2>5. free' \in [Accounts -> Nat] /\ reserved' \in [Accounts -> Nat]
      OBVIOUS
  <2> QED BY <2>1, <2>2, <2>3, <2>4, <2>5 DEF stats
<1>6. /\ \A id \in OrderIds \ {n} : order_status'[id] = order_status[id] /\ order'[id] = order[id]
      /\ order_status'[n] = "InProgress" /\ order'[n] = new
    BY <1>1, <1>3 DEF TaskTypeOK
<1>7. OrderFresh' /\ OrderSplit'
  <2>1. OrderFresh'
      BY <1>1, <1>3, <1>6, OrderIdsFinite DEF OrderFresh
  <2>2. OrderSplit'
      BY <1>4, <1>6 DEF OrderSplit
  <2> QED BY <2>1, <2>2
<1>8. StatsAddUp'
    BY <1>3 DEF StatsAddUp, PayoutsOf, stats
<1>9. ASSUME NEW a \in Accounts PROVE reserved'[a] + Charged(a) = reserved[a] + Charged(a)'
  <2>1. /\ Charged(a)' + ChargedFor(a, n) = Charged(a) + ChargedFor(a, n)'
        /\ Charged(a) \in Nat /\ Charged(a)' \in Nat
      BY <1>5, <1>6, ChargedStep
  <2>2. ChargedFor(a, n) = 0
      BY <1>1 DEF ChargedFor
  <2>3. ChargedFor(a, n)' = IF customer = a THEN total ELSE 0
      BY <1>4, <1>6 DEF ChargedFor
  <2>4. reserved'[a] = reserved[a] + (IF customer = a THEN total ELSE 0) /\ reserved[a] \in Nat
      BY <1>3 DEF TaskTypeOK
  <2> QED BY <2>1, <2>2, <2>3, <2>4
<1> QED BY <1>5, <1>7, <1>8, <1>9 DEF ChargesFollow

(* mark_order_completed: the order stays open.                              *)
LEMMA MarkStep ==
    ASSUME TInv, NEW id \in OrderIds, mark_order_completed(id)
    PROVE  TInv' /\ ChargesFollow
<1> USE DEF TInv, mark_order_completed
<1>1. TaskTypeOK'
  <2> USE DEF TaskTypeOK
  <2>1. P!TypeOK'
      BY DEF P!TypeOK, oracle
  <2>2. order_status' \in [OrderIds -> OrderStatuses]
      BY DEF OrderStatuses
  <2> QED BY <2>1, <2>2 DEF tasks, stats, balances
<1>2. OrderFresh' /\ OrderSplit' /\ StatsAddUp'
    BY DEF OrderFresh, OrderSplit, StatsAddUp, PayoutsOf, TaskTypeOK, stats
<1>3. \A a \in Accounts : Charged(a)' = Charged(a)
  <2> SUFFICES ASSUME NEW a \in Accounts PROVE Charged(a)' = Charged(a)
      OBVIOUS
  <2>1. \A k \in OrderIds : ChargedFor(a, k)' = ChargedFor(a, k)
      BY DEF ChargedFor, TaskTypeOK
  <2>2. [k \in OrderIds |-> ChargedFor(a, k)]' = [k \in OrderIds |-> ChargedFor(a, k)]
      BY <2>1
  <2> QED BY <2>2 DEF Charged
<1> QED BY <1>1, <1>2, <1>3 DEF ChargesFollow, balances

(* An order is closed: what it was charged leaves the customer's reserve,   *)
(* as settle_task_order and cancel_expired_order do it.                     *)
LEMMA CloseOrder ==
    ASSUME TaskTypeOK, TaskTypeOK', NEW id \in OrderIds,
           order_status[id] \in {"InProgress", "Completed"},
           order_status' = [order_status EXCEPT ![id] = "Settled"], order' = order,
           reserved' = [reserved EXCEPT ![order[id].customer] = @ - order[id].charged]
    PROVE  ChargesFollow
<1>1. order[id].customer \in Accounts /\ order[id].charged \in Nat
    BY DEF TaskTypeOK
<1>2. ASSUME NEW a \in Accounts PROVE reserved'[a] + Charged(a) = reserved[a] + Charged(a)'
  <2>1. /\ Charged(a)' + ChargedFor(a, id) = Charged(a) + ChargedFor(a, id)'
        /\ Charged(a) \in Nat /\ Charged(a)' \in Nat
    <3>1. \A k \in OrderIds \ {id} : order_status'[k] = order_status[k] /\ order'[k] = order[k]
        BY DEF TaskTypeOK
    <3> QED BY <3>1, ChargedStep
  <2>2. ChargedFor(a, id) = IF order[id].customer = a THEN order[id].charged ELSE 0
      BY DEF ChargedFor
  <2>3. ChargedFor(a, id)' = 0
      BY DEF ChargedFor, TaskTypeOK
  <2>4. /\ reserved'[a] = reserved[a] - (IF order[id].customer = a THEN order[id].charged ELSE 0)
        /\ reserved[a] \in Nat
      BY <1>1 DEF TaskTypeOK
  <2> QED BY <1>1, <2>1, <2>2, <2>3, <2>4
<1> QED BY <1>2 DEF ChargesFollow

(* The reserve of the customer has what an open order was charged.          *)
LEMMA OrderThere ==
    ASSUME TaskTypeOK, ChargesCovered, NEW id \in OrderIds,
           order_status[id] \in {"InProgress", "Completed"}
    PROVE  /\ order[id].customer \in Accounts /\ order[id].miner \in Accounts
           /\ order[id].charged \in Nat /\ order[id].burned \in Nat /\ order[id].payout \in Nat
           /\ reserved[order[id].customer] \in Nat
           /\ order[id].charged <= reserved[order[id].customer]
<1>1. /\ order[id].customer \in Accounts /\ order[id].miner \in Accounts
      /\ order[id].charged \in Nat /\ order[id].burned \in Nat /\ order[id].payout \in Nat
      /\ reserved[order[id].customer] \in Nat
    BY DEF TaskTypeOK
<1>2. PICK c \in Accounts : c = order[id].customer
    BY <1>1
<1>3. order[id].charged <= Charged(c) /\ Charged(c) \in Nat
    BY <1>2, ChargedMember, ChargedType
<1> QED BY <1>1, <1>2, <1>3 DEF ChargesCovered

(* The statistics still add up when one more order of an era is counted.    *)
LEMMA CountStep ==
    ASSUME TInv, NEW id \in OrderIds, count(order[id])
    PROVE  /\ StatsAddUp'
           /\ EraStats' \in [Eras -> [charged : Nat, burned : Nat, payout : Nat, completed : Nat]]
           /\ MinerTaskStats' \in [Eras -> [Accounts -> [payout : Nat, count : Nat]]]
<1> USE DEF TInv
<1>1. PICK era \in Eras : era = era_of(order[id])
    BY EraOfOrder
<1>2. PICK m \in Accounts : m = order[id].miner
    BY DEF TaskTypeOK
<1>3. PICK c, b, n \in Nat : /\ c = order[id].charged /\ b = order[id].burned /\ n = order[id].payout
                             /\ c = b + n
    BY DEF TaskTypeOK, OrderSplit
<1> DEFINE era_new == [charged |-> EraStats[era].charged + c, burned |-> EraStats[era].burned + b,
                       payout |-> EraStats[era].payout + n, completed |-> EraStats[era].completed + 1]
           miner_new == [payout |-> MinerTaskStats[era][m].payout + n,
                         count |-> MinerTaskStats[era][m].count + 1]
<1>4. /\ EraStats' = [EraStats EXCEPT ![era] = era_new]
      /\ MinerTaskStats' = [MinerTaskStats EXCEPT ![era][m] = miner_new]
    BY <1>1, <1>2, <1>3 DEF count
<1>5. /\ EraStats[era] \in [charged : Nat, burned : Nat, payout : Nat, completed : Nat]
      /\ MinerTaskStats[era] \in [Accounts -> [payout : Nat, count : Nat]]
    BY DEF TaskTypeOK
<1>6. /\ era_new \in [charged : Nat, burned : Nat, payout : Nat, completed : Nat]
      /\ miner_new \in [payout : Nat, count : Nat]
      /\ era_new.charged = EraStats[era].charged + c /\ era_new.burned = EraStats[era].burned + b
      /\ era_new.payout = EraStats[era].payout + n
      /\ miner_new.payout = MinerTaskStats[era][m].payout + n
    BY <1>5
<1> HIDE DEF era_new, miner_new
<1>7. /\ EraStats' \in [Eras -> [charged : Nat, burned : Nat, payout : Nat, completed : Nat]]
      /\ MinerTaskStats' \in [Eras -> [Accounts -> [payout : Nat, count : Nat]]]
      /\ EraStats'[era] = era_new /\ MinerTaskStats'[era] = [MinerTaskStats[era] EXCEPT ![m] = miner_new]
      /\ \A e \in Eras \ {era} : EraStats'[e] = EraStats[e] /\ MinerTaskStats'[e] = MinerTaskStats[e]
    BY <1>4, <1>5, <1>6 DEF TaskTypeOK
<1>8. ASSUME NEW e \in Eras
      PROVE  /\ EraStats'[e].charged = EraStats'[e].burned + EraStats'[e].payout
             /\ EraStats'[e].payout = SumOver(PayoutsOf(e)', Accounts)
  <2>1. CASE e # era
    <3>1. PayoutsOf(e)' = PayoutsOf(e) /\ EraStats'[e] = EraStats[e]
        BY <1>7, <2>1 DEF PayoutsOf
    <3> QED BY <3>1 DEF StatsAddUp
  <2>2. CASE e = era
    <3>1. PayoutsOf(e) \in [Accounts -> Nat] /\ PayoutsOf(e)' \in [Accounts -> Nat]
        BY <1>5, <1>7, <2>2, ZenonT(30) DEF PayoutsOf
    <3>2. PayoutsOf(e)[m] \in Nat /\ PayoutsOf(e)'[m] = PayoutsOf(e)[m] + n
        BY <1>5, <1>6, <1>7, <2>2 DEF PayoutsOf
    <3>3. \A a \in Accounts \ {m} : PayoutsOf(e)'[a] = PayoutsOf(e)[a]
        BY <1>5, <1>7, <2>2 DEF PayoutsOf
    <3>4. IsFiniteSet(Accounts)
        BY TaskModeParams
    <3>5. SumOver(PayoutsOf(e)', Accounts) + PayoutsOf(e)[m] = SumOver(PayoutsOf(e), Accounts) + PayoutsOf(e)'[m]
        BY <3>1, <3>3, <3>4, SumUpdate
    <3>6. SumOver(PayoutsOf(e), Accounts) \in Nat /\ SumOver(PayoutsOf(e)', Accounts) \in Nat
        BY <3>1, <3>4, SumType
    <3>7. SumOver(PayoutsOf(e)', Accounts) = SumOver(PayoutsOf(e), Accounts) + n
        BY <3>2, <3>5, <3>6
    <3>8. /\ EraStats[e].charged = EraStats[e].burned + EraStats[e].payout
          /\ EraStats[e].payout = SumOver(PayoutsOf(e), Accounts)
        BY DEF StatsAddUp
    <3>9. /\ EraStats'[e].charged = EraStats[e].charged + c /\ EraStats'[e].burned = EraStats[e].burned + b
          /\ EraStats'[e].payout = EraStats[e].payout + n
        BY <1>6, <1>7, <2>2
    <3>10. EraStats[e].charged \in Nat /\ EraStats[e].burned \in Nat /\ EraStats[e].payout \in Nat
        BY <1>5, <2>2
    <3>11. EraStats'[e].payout = SumOver(PayoutsOf(e)', Accounts)
        BY <3>7, <3>8, <3>9
    <3> QED BY <1>3, <3>8, <3>9, <3>10, <3>11
  <2> QED BY <2>1, <2>2
<1> QED BY <1>7, <1>8 DEF StatsAddUp

(* settle_task_order: the treasury and the miner get the two parts, which   *)
(* are all of what the order has in reserve.                                *)
LEMMA SettleStep ==
    ASSUME TInv, ChargesCovered, NEW id \in OrderIds, settle_task_order(id)
    PROVE  TInv' /\ ChargesFollow
<1> USE DEF TInv, settle_task_order
<1>1. order_status[id] = "Completed"
    BY DEF can_settle
<1>2. /\ order[id].customer \in Accounts /\ order[id].miner \in Accounts
      /\ order[id].charged \in Nat /\ order[id].burned \in Nat /\ order[id].payout \in Nat
      /\ reserved[order[id].customer] \in Nat /\ order[id].charged <= reserved[order[id].customer]
      /\ order[id].charged = order[id].burned + order[id].payout
    BY <1>1, OrderThere DEF OrderSplit
<1>3. PICK c, m \in Accounts : c = order[id].customer /\ m = order[id].miner
    BY <1>2
<1>4. PICK b, n \in Nat : b = order[id].burned /\ n = order[id].payout
    BY <1>2
<1>5. reserved[c] \in Nat /\ b + n <= reserved[c] /\ reserved[c] - b - n \in Nat
      /\ b <= reserved[c] /\ n <= reserved[c] - b
    BY <1>2, <1>3, <1>4
<1>6. /\ reserved' = [reserved EXCEPT ![c] = @ - b - n]
      /\ free' = [[free EXCEPT ![Treasury] = @ + b] EXCEPT ![m] = @ + n]
  <2>1. Available(c, b) = b
      BY <1>5 DEF Available
  <2> QED BY <1>3, <1>4, <1>5, <2>1 DEF pay_out
<1>7. reserved' = [reserved EXCEPT ![order[id].customer] = @ - order[id].charged]
  <2>1. reserved[c] - b - n = reserved[c] - order[id].charged
      BY <1>2, <1>4, <1>5
  <2> QED BY <1>3, <1>6, <2>1, ZenonT(30)
<1>8. /\ StatsAddUp'
      /\ EraStats' \in [Eras -> [charged : Nat, burned : Nat, payout : Nat, completed : Nat]]
      /\ MinerTaskStats' \in [Eras -> [Accounts -> [payout : Nat, count : Nat]]]
    BY CountStep
<1>9. TaskTypeOK'
  <2> USE DEF TaskTypeOK
  <2>1. P!TypeOK'
      BY DEF P!TypeOK, oracle
  <2>2. order_status' \in [OrderIds -> OrderStatuses]
      BY DEF OrderStatuses
  <2>3. reserved' \in [Accounts -> Nat]
      BY <1>5, <1>6
  <2>4. free' \in [Accounts -> Nat]
    <3>1. [free EXCEPT ![Treasury] = @ + b] \in [Accounts -> Nat]
        BY TaskModeParams
    <3> QED BY <1>6, <3>1
  <2> QED BY <1>8, <2>1, <2>2, <2>3, <2>4, ZenonT(30) DEF tasks
<1>10. OrderFresh' /\ OrderSplit'
    BY <1>1 DEF OrderFresh, OrderSplit, TaskTypeOK
<1>11. ChargesFollow
    BY <1>1, <1>7, <1>9, CloseOrder, ZenonT(30)
<1> QED BY <1>8, <1>9, <1>10, <1>11

(* cancel_expired_order: the customer gets back what was charged.           *)
LEMMA CancelStep ==
    ASSUME TInv, ChargesCovered, NEW id \in OrderIds, cancel_expired_order(id)
    PROVE  TInv' /\ ChargesFollow
<1> USE DEF TInv, cancel_expired_order
<1>1. order_status[id] = "InProgress"
    BY DEF can_cancel
<1>2. /\ order[id].customer \in Accounts /\ order[id].charged \in Nat
      /\ reserved[order[id].customer] \in Nat /\ order[id].charged <= reserved[order[id].customer]
    BY <1>1, OrderThere
<1>3. /\ reserved' = [reserved EXCEPT ![order[id].customer] = @ - order[id].charged]
      /\ free' = [free EXCEPT ![order[id].customer] = @ + order[id].charged]
    BY <1>2 DEF unreserve, Available
<1>4. TaskTypeOK'
  <2> USE DEF TaskTypeOK
  <2>1. P!TypeOK'
      BY DEF P!TypeOK, oracle
  <2>2. order_status' \in [OrderIds -> OrderStatuses]
      BY DEF OrderStatuses
  <2>3. reserved' \in [Accounts -> Nat] /\ free' \in [Accounts -> Nat]
      BY <1>2, <1>3
  <2> QED BY <2>1, <2>2, <2>3, ZenonT(30) DEF tasks, stats
<1>5. OrderFresh' /\ OrderSplit' /\ StatsAddUp'
    BY <1>1 DEF OrderFresh, OrderSplit, StatsAddUp, PayoutsOf, TaskTypeOK, stats
<1>6. ChargesFollow
    BY <1>1, <1>3, <1>4, CloseOrder, ZenonT(30)
<1> QED BY <1>4, <1>5, <1>6

(* Every call to the pallet, in a state where the reserves cover the open   *)
(* orders, whoever else reserves.                                           *)
LEMMA TaskStep ==
    ASSUME TInv, ChargesCovered, TaskCall
    PROVE  TInv' /\ ChargesFollow
<1>1. ASSUME NEW who \in Accounts, NEW def \in Definitions, create_task_definition(who, def)
      PROVE  TInv' /\ ChargesFollow
  <2>1. PICK task \in TaskIds : task = NextTaskId
      BY <1>1 DEF create_task_definition
  <2> QED BY <1>1, DefinitionStep, ZenonT(30)
<1>2. ASSUME NEW task \in TaskIds, NEW def \in Definitions, NEW active \in BOOLEAN,
             update_task_definition(task, def, active)
      PROVE  TInv' /\ ChargesFollow
  <2>1. Treasury \in Accounts
      BY TaskModeParams
  <2> QED BY <1>2, <2>1, DefinitionStep
<1>3. ASSUME NEW customer \in Accounts, NEW miner \in Accounts, NEW task \in TaskIds,
             NEW i \in TokenCounts, NEW o \in TokenCounts,
             create_task_order(customer, task, miner, i, o)
      PROVE  TInv' /\ ChargesFollow
    BY <1>3, OrderStep
<1>4. ASSUME NEW id \in OrderIds,
             mark_order_completed(id) \/ settle_task_order(id) \/ cancel_expired_order(id)
      PROVE  TInv' /\ ChargesFollow
    BY <1>4, MarkStep, SettleStep, CancelStep
<1> QED BY <1>1, <1>2, <1>3, <1>4 DEF TaskCall

-----------------------------------------------------------------------------
(* A price that is submitted goes into the window, and its average is the   *)
(* average of naturals.                                                     *)
LEMMA SubmitType ==
    ASSUME P!TypeOK, NEW price \in Prices, P!submit(price)
    PROVE  samples' \in Seq(Prices) /\ Len(samples') <= MAX_LEN /\ AvgPrice' \in Nat \cup {NoPrice}
<1> USE DEF P!TypeOK
<1>1. PICK kept \in Seq(Prices) :
        /\ kept = (IF Len(samples) >= MAX_LEN THEN Tail(samples) ELSE samples)
        /\ Len(kept) < MAX_LEN
  <2>1. MAX_LEN \in Nat \ {0}
      BY TaskModeParams
  <2>2. samples \in Seq(Prices) /\ Len(samples) \in Nat /\ Len(samples) <= MAX_LEN
      OBVIOUS
  <2>3. CASE Len(samples) >= MAX_LEN
    <3>1. samples # << >>
        BY <2>1, <2>3
    <3>2. Tail(samples) \in Seq(Prices) /\ Len(Tail(samples)) = Len(samples) - 1
        BY <2>2, <3>1
    <3>3. Len(Tail(samples)) < MAX_LEN
        BY <2>1, <2>2, <3>2
    <3> QED BY <2>3, <3>2, <3>3, ZenonT(30)
  <2>4. CASE ~ (Len(samples) >= MAX_LEN)
      BY <2>1, <2>2, <2>4
  <2> QED BY <2>3, <2>4
<1>2. PICK new \in Seq(Prices) : new = Append(kept, price) /\ Len(new) <= MAX_LEN
  <2>1. Append(kept, price) \in Seq(Prices) /\ Len(Append(kept, price)) = Len(kept) + 1 /\ Len(kept) \in Nat
      OBVIOUS
  <2>2. MAX_LEN \in Nat
      BY TaskModeParams
  <2>3. Len(Append(kept, price)) <= MAX_LEN
      BY <1>1, <2>1, <2>2
  <2> QED BY <2>1, <2>3, ZenonT(30)
<1>3. samples' = new /\ AvgPrice' = P!add_avg_price(new)
    BY <1>1, <1>2 DEF P!submit, P!add_price
<1>4. P!add_avg_price(new) \in Nat \cup {NoPrice}
    BY AverageType, TaskModeParams DEF P!add_avg_price
<1> QED BY <1>2, <1>3, <1>4

(* Every step of the oracle keeps its variables in their types.             *)
LEMMA OracleType ==
    ASSUME P!TypeOK, P!OracleStep
    PROVE  P!TypeOK'
<1> USE DEF P!TypeOK
<1>1. CASE P!submit_price_unsigned
  <2>1. PICK price \in Prices : price = price_tx
      BY <1>1 DEF P!submit_price_unsigned
  <2>2. P!submit(price)
      BY <1>1, <2>1 DEF P!submit_price_unsigned, P!submit
  <2> QED BY <1>1, <2>2, SubmitType DEF P!submit_price_unsigned
<1>2. ASSUME NEW price \in Prices, P!submit_price_by_root(price) PROVE P!TypeOK'
    BY <1>2, SubmitType DEF P!submit_price_by_root
<1>3. ASSUME NEW price \in Prices, P!offchain_worker(price) PROVE P!TypeOK'
    BY <1>3 DEF P!offchain_worker
<1>4. ASSUME NEW url \in URLs, P!add_price_url(url) PROVE P!TypeOK'
    BY <1>4 DEF P!add_price_url
<1>5. ASSUME NEW index \in 1..MaxUrls, P!rm_price_url_by_index(index) PROVE P!TypeOK'
  <2>1. index \in 1..Len(PriceURL)
      BY <1>5 DEF P!rm_price_url_by_index
  <2>2. /\ SubSeq(PriceURL, 1, index - 1) \in Seq(URLs)
        /\ SubSeq(PriceURL, index + 1, Len(PriceURL)) \in Seq(URLs)
      BY <2>1
  <2>3. PriceURL' \in Seq(URLs)
      BY <1>5, <2>2 DEF P!rm_price_url_by_index
  <2> QED BY <1>5, <2>3 DEF P!rm_price_url_by_index
<1>6. ASSUME NEW f \in Frequencies, P!set_price_update_frequency(f) PROVE P!TypeOK'
    BY <1>6, TaskModeParams DEF P!set_price_update_frequency
<1>7. CASE P!expire_tx
    BY <1>7 DEF P!expire_tx
<1> QED BY <1>1, <1>2, <1>3, <1>4, <1>5, <1>6, <1>7 DEF P!OracleStep

(* Only a new block moves the clock.                                        *)
LEMMA SameBlock ==
    ASSUME TaskCall \/ OracleStep
    PROVE  now' = now
<1>1. CASE TaskCall
  <2>1. ASSUME NEW who, NEW def, create_task_definition(who, def) PROVE now' = now
      BY <2>1 DEF create_task_definition
  <2>2. ASSUME NEW task, NEW def, NEW active, update_task_definition(task, def, active)
        PROVE  now' = now
      BY <2>2 DEF update_task_definition
  <2>3. ASSUME NEW customer, NEW task, NEW miner, NEW i, NEW o,
               create_task_order(customer, task, miner, i, o)
        PROVE  now' = now
      BY <2>3 DEF create_task_order
  <2>4. ASSUME NEW id, mark_order_completed(id) \/ settle_task_order(id) \/ cancel_expired_order(id)
        PROVE  now' = now
      BY <2>4 DEF mark_order_completed, settle_task_order, cancel_expired_order
  <2> QED BY <1>1, <2>1, <2>2, <2>3, <2>4 DEF TaskCall
<1>2. CASE OracleStep
    BY <1>2, ZenonT(30) DEF OracleStep, P!OracleStep, P!submit_price_unsigned, P!submit_price_by_root,
                P!offchain_worker, P!add_price_url, P!rm_price_url_by_index,
                P!set_price_update_frequency, P!expire_tx
<1> QED BY <1>1, <1>2

(* A step that leaves the tasks, the orders and the statistics alone.       *)
LEMMA TaskKept ==
    ASSUME TInv, P!TypeOK', UNCHANGED <<tasks, orders, stats>>,
           free' \in [Accounts -> Nat], reserved' \in [Accounts -> Nat]
    PROVE  TInv' /\ \A a \in Accounts : Charged(a)' = Charged(a)
<1>1. TaskTypeOK'
    BY DEF TInv, TaskTypeOK, tasks, orders, stats
<1>2. OrderFresh' /\ OrderSplit' /\ StatsAddUp'
    BY DEF TInv, OrderFresh, OrderSplit, StatsAddUp, PayoutsOf, orders, stats
<1>3. \A a \in Accounts : Charged(a)' = Charged(a)
    BY ChargedUnchanged DEF orders
<1> QED BY <1>1, <1>2, <1>3 DEF TInv

(* Steps of the oracle, and new blocks.                                     *)
LEMMA OracleKept ==
    ASSUME TInv, OracleStep \/ task_next_block
    PROVE  TInv' /\ \A a \in Accounts : Charged(a)' = Charged(a)
<1>1. P!TypeOK'
  <2>1. P!TypeOK
      BY DEF TInv, TaskTypeOK
  <2>2. CASE OracleStep
      BY <2>1, <2>2, OracleType DEF OracleStep
  <2>3. CASE task_next_block
      BY <2>1, <2>3, ReserveParams DEF task_next_block, P!next_price_block, P!oracle, P!TypeOK
  <2> QED BY <2>2, <2>3
<1>2. UNCHANGED <<tasks, orders, stats, balances>>
    BY DEF OracleStep, task_next_block
<1>3. free' \in [Accounts -> Nat] /\ reserved' \in [Accounts -> Nat]
    BY <1>2 DEF balances, TInv, TaskTypeOK
<1> QED BY <1>1, <1>2, <1>3, TaskKept

(* Genesis: no order, nothing charged.                                      *)
LEMMA InitTInv ==
    ASSUME TaskInit
    PROVE  TInv /\ \A a \in Accounts : Charged(a) = 0
<1> USE DEF TaskInit
<1>1. TaskTypeOK
  <2>1. P!TypeOK
      BY ReserveParams, TaskModeParams DEF P!Init, P!TypeOK
  <2>2. /\ NoOrder \in [task : Nat, customer : Accounts, miner : Accounts, charged : Nat,
                         burned : Nat, payout : Nat, created_at : 0..MaxBlock]
        /\ Treasury \in Accounts /\ (CHOOSE d \in Definitions : TRUE) \in Definitions
      BY ReserveParams, TaskModeParams DEF NoOrder
  <2> QED BY <2>1, <2>2, ReserveParams, TaskModeParams DEF TaskTypeOK, OrderStatuses
<1>2. OrderFresh /\ OrderSplit
    BY DEF OrderFresh, OrderSplit, NoOrder
<1>3. StatsAddUp
  <2>1. \A e \in Eras : PayoutsOf(e) = [a \in Accounts |-> 0]
      BY DEF PayoutsOf
  <2>2. SumOver([a \in Accounts |-> 0], Accounts) = 0
      BY SumZero, TaskModeParams
  <2> QED BY <2>1, <2>2 DEF StatsAddUp
<1>4. ASSUME NEW a \in Accounts PROVE Charged(a) = 0
  <2>1. [id \in OrderIds |-> ChargedFor(a, id)] = [id \in OrderIds |-> 0]
      BY DEF ChargedFor
  <2> QED BY <2>1, SumZero, OrderIdsFinite, ZenonT(30) DEF Charged
<1> QED BY <1>1, <1>2, <1>3, <1>4 DEF TInv

-----------------------------------------------------------------------------
(* What is left of a product when a common factor is taken off.             *)
LEMMA FactorOff ==
    ASSUME NEW n \in Nat \ {0}, NEW s \in Nat, NEW k \in Nat, n * s <= k * n
    PROVE  s <= k
<1> SUFFICES ASSUME s > k PROVE FALSE
    OBVIOUS
<1>1. PICK d \in Nat : s = k + d + 1
  <2>1. s - k - 1 \in Nat /\ s = k + (s - k - 1) + 1
      OBVIOUS
  <2> QED BY <2>1
<1>2. n * s = n * k + n * d + n
  <2>1. n * (k + d + 1) = n * k + n * d + n
      OBVIOUS
  <2> QED BY <1>1, <2>1
<1>3. n * d \in Nat /\ n * k \in Nat /\ k * n = n * k
    OBVIOUS
<1> QED BY <1>2, <1>3

(* A share, rounded down.                                                   *)
LEMMA ShareRounded ==
    ASSUME NEW n \in Nat \ {0}, NEW m \in Nat
    PROVE  m \div n \in Nat /\ n * (m \div n) <= m
OBVIOUS

(* The shares that miner_reward_share grants add up to the pool at most.    *)
LEMMA SharesFit == TInv => SharesWithinPool
<1> SUFFICES ASSUME TInv, NEW e \in Eras
             PROVE  /\ EraStats[e].charged = EraStats[e].burned + EraStats[e].payout
                    /\ EraStats[e].payout = SumOver([a \in Accounts |-> MinerTaskStats[e][a].payout], Accounts)
                    /\ SumOver([a \in Accounts |-> miner_reward_share(e, a, EraRewards)], Accounts)
                         <= PercentOf(TaskModeRewardPercentage, EraRewards)
    BY DEF SharesWithinPool
<1> USE DEF TInv
<1>1. PICK n \in Nat : n = EraStats[e].payout
    BY DEF TaskTypeOK
<1>2. PICK w \in [Accounts -> Nat] : w = PayoutsOf(e)
    BY ZenonT(30) DEF TaskTypeOK, PayoutsOf
<1>3. EraStats[e].charged = EraStats[e].burned + EraStats[e].payout /\ n = SumOver(w, Accounts)
    BY <1>1, <1>2 DEF StatsAddUp
<1>4. PICK pool \in Nat : pool = PercentOf(TaskModeRewardPercentage, EraRewards)
  <2>1. TaskModeRewardPercentage \in 0..100 /\ EraRewards \in Nat
      BY TaskModeParams
  <2>2. PercentOf(TaskModeRewardPercentage, EraRewards) \in 0..EraRewards
      BY <2>1, PercentType, ZenonT(30)
  <2> QED BY <2>1, <2>2
<1>5. IsFiniteSet(Accounts)
    BY TaskModeParams
<1> DEFINE v == [a \in Accounts |-> miner_reward_share(e, a, EraRewards)]
<1>6. SumOver(v, Accounts) <= pool
  <2>1. CASE n = 0
    <3>1. v = [a \in Accounts |-> 0]
        BY <1>1, <2>1 DEF miner_reward_share
    <3>2. SumOver([a \in Accounts |-> 0], Accounts) = 0
        BY <1>5, SumZero
    <3> HIDE DEF v
    <3> QED BY <3>1, <3>2
  <2>2. CASE n # 0
    <3>1. v = [a \in Accounts |-> (pool * w[a]) \div n]
        BY <1>1, <1>2, <1>4, <2>2 DEF miner_reward_share, PayoutsOf
    <3>2. ASSUME NEW a \in Accounts
          PROVE  (pool * w[a]) \div n \in Nat /\ n * ((pool * w[a]) \div n) <= pool * w[a]
      <4>1. w[a] \in Nat
          OBVIOUS
      <4>2. PICK m \in Nat : m = pool * w[a]
          BY <4>1
      <4>3. m \div n \in Nat /\ n * (m \div n) <= m
          BY <2>2, ShareRounded
      <4> QED BY <4>2, <4>3
    <3> HIDE DEF v
    <3>3. v \in [Accounts -> Nat] /\ \A a \in Accounts : n * v[a] <= pool * w[a]
        BY <3>1, <3>2, ZenonT(30)
    <3>4. n * SumOver(v, Accounts) <= pool * SumOver(w, Accounts)
        BY <1>5, <3>3, SumScaled
    <3>5. SumOver(v, Accounts) \in Nat
        BY <1>5, <3>3, SumType
    <3> QED BY <1>3, <2>2, <3>4, <3>5, FactorOff
  <2> QED BY <2>1, <2>2
<1> QED BY <1>1, <1>2, <1>3, <1>4, <1>6 DEF PayoutsOf

(* The end of an order, step by step.                                       *)
LEMMA EndStep ==
    ASSUME TInv, TaskCall, NEW id \in OrderIds
    PROVE  LET era == block_to_era(order[id].created_at)
               paid == EraStats'[era].completed = EraStats[era].completed + 1
           IN /\ order_status[id] = "Settled" => order_status'[id] = "Settled"
              /\ order_status[id] = "Completed" /\ order_status'[id] = "Settled" => paid
              /\ order_status[id] = "InProgress" /\ order_status'[id] = "Settled" =>
                     ~paid /\ now > order[id].created_at + OrderTimeout
<1> DEFINE era == block_to_era(order[id].created_at)
           paid == EraStats'[era].completed = EraStats[era].completed + 1
           Ends == /\ order_status[id] = "Settled" => order_status'[id] = "Settled"
                   /\ order_status[id] = "Completed" /\ order_status'[id] = "Settled" => paid
                   /\ order_status[id] = "InProgress" /\ order_status'[id] = "Settled" =>
                          ~paid /\ now > order[id].created_at + OrderTimeout
<1> USE DEF TInv
<1>1. era \in Eras /\ EraStats[era].completed \in Nat
    BY EraOfOrder DEF TaskTypeOK, era_of
<1>2. ASSUME order_status' = order_status PROVE Ends
    BY <1>2, ZenonT(30)
<1>3. ASSUME NEW who, NEW def, create_task_definition(who, def) PROVE Ends
    BY <1>2, <1>3 DEF create_task_definition, orders
<1>4. ASSUME NEW task, NEW def, NEW active, update_task_definition(task, def, active) PROVE Ends
    BY <1>2, <1>4 DEF update_task_definition, orders
<1>5. ASSUME NEW customer, NEW task, NEW miner, NEW i, NEW o,
             create_task_order(customer, task, miner, i, o)
      PROVE  Ends
  <2>1. /\ NextOrderId \in OrderIds /\ order_status[NextOrderId] = "None"
        /\ order_status' = [order_status EXCEPT ![NextOrderId] = "InProgress"]
    <3>1. /\ NextOrderId \in OrderIds
          /\ order_status' = [order_status EXCEPT ![NextOrderId] = "InProgress"]
        BY <1>5, ZenonT(30) DEF create_task_order
    <3> QED BY <3>1, OrderIdsFinite DEF OrderFresh, TaskTypeOK
  <2> QED BY <2>1 DEF TaskTypeOK
<1>6. ASSUME NEW k \in OrderIds, mark_order_completed(k) PROVE Ends
    BY <1>6 DEF mark_order_completed, TaskTypeOK
<1>7. ASSUME NEW k \in OrderIds, settle_task_order(k) PROVE Ends
  <2>1. order_status[k] = "Completed" /\ order_status' = [order_status EXCEPT ![k] = "Settled"]
      BY <1>7 DEF settle_task_order, can_settle
  <2>2. k = id => paid
      BY <1>1, <1>7, ZenonT(30) DEF settle_task_order, count, era_of, TaskTypeOK
  <2> HIDE DEF paid
  <2> QED BY <2>1, <2>2 DEF TaskTypeOK
<1>8. ASSUME NEW k \in OrderIds, cancel_expired_order(k) PROVE Ends
  <2>1. /\ order_status[k] = "InProgress" /\ order_status' = [order_status EXCEPT ![k] = "Settled"]
        /\ EraStats' = EraStats /\ now > order[k].created_at + OrderTimeout
      BY <1>8 DEF cancel_expired_order, can_cancel, stats
  <2>2. \A n \in Nat : n # n + 1
      OBVIOUS
  <2>3. ~paid
      BY <1>1, <2>1, <2>2, ZenonT(30)
  <2> HIDE DEF paid
  <2> QED BY <2>1, <2>3 DEF TaskTypeOK
<1> QED BY <1>3, <1>4, <1>5, <1>6, <1>7, <1>8, ZenonT(30) DEF TaskCall

(* The inductive invariant of the pallet where no other one reserves. *)
PInv == TInv /\ ReserveIsCharged

(* Every step of the pallet and the oracle preserves it.                    *)
LEMMA NextPInv == PInv /\ [TaskNext]_<<now, taskvars, balances>> => PInv'
<1> SUFFICES ASSUME PInv, [TaskNext]_<<now, taskvars, balances>> PROVE PInv'
    OBVIOUS
<1>1. \A a \in Accounts : Charged(a) \in Nat /\ reserved[a] = Charged(a)
    BY ChargedType DEF PInv, TInv, ReserveIsCharged
<1>2. CASE TaskCall
  <2>1. TInv' /\ ChargesFollow
      BY <1>1, <1>2, TaskStep DEF PInv, ChargesCovered
  <2>2. \A a \in Accounts : Charged(a)' \in Nat /\ reserved'[a] \in Nat
      BY <2>1, ChargedTypeNext DEF TInv, TaskTypeOK
  <2> QED BY <1>1, <2>1, <2>2 DEF PInv, ReserveIsCharged, ChargesFollow
<1>3. CASE OracleStep \/ task_next_block
  <2>1. TInv' /\ \A a \in Accounts : Charged(a)' = Charged(a)
      BY <1>3, OracleKept DEF PInv
  <2>2. reserved' = reserved
      BY <1>3 DEF OracleStep, task_next_block, balances
  <2> QED BY <1>1, <2>1, <2>2 DEF PInv, ReserveIsCharged
<1>4. CASE UNCHANGED <<now, taskvars, balances>>
  <2>1. P!TypeOK'
      BY <1>4 DEF PInv, TInv, TaskTypeOK, P!TypeOK, taskvars, oracle
  <2>2. TInv' /\ \A a \in Accounts : Charged(a)' = Charged(a)
      BY <1>4, <2>1, TaskKept DEF PInv, TInv, TaskTypeOK, taskvars, balances
  <2> QED BY <1>1, <1>4, <2>2 DEF PInv, ReserveIsCharged, taskvars, balances
<1> QED BY <1>2, <1>3, <1>4 DEF TaskNext

(* Genesis satisfies the invariant.                                         *)
LEMMA InitPInv == TaskInit => PInv
BY InitTInv DEF PInv, ReserveIsCharged, TaskInit

(* create_task_order, settle_task_order and cancel_expired_order keep the   *)
(* reserve of a customer equal to what its open orders were charged.        *)
THEOREM ReserveMatchesOrders ==
    TaskSpec => []ReserveIsCharged
<1>1. PInv => ReserveIsCharged  BY DEF PInv
<1>2. TaskInit => PInv  BY InitPInv
<1>3. PInv /\ [TaskNext]_<<now, taskvars, balances>> => PInv'  BY NextPInv
<1> QED BY <1>1, <1>2, <1>3, PTL DEF TaskSpec

(* An order that its miner has marked completed can only be paid, and one   *)
(* still in progress only be refunded, after the timeout.                   *)
THEOREM OrdersEndOnce ==
    TaskSpec => EndsOnce
<1>1. ASSUME PInv, [TaskNext]_<<now, taskvars, balances>>
      PROVE  [\A id \in OrderIds :
                LET era == block_to_era(order[id].created_at)
                    paid == EraStats'[era].completed = EraStats[era].completed + 1
                IN /\ order_status[id] = "Settled" => order_status'[id] = "Settled"
                   /\ order_status[id] = "Completed" /\ order_status'[id] = "Settled" => paid
                   /\ order_status[id] = "InProgress" /\ order_status'[id] = "Settled" =>
                          ~paid /\ now > order[id].created_at + OrderTimeout]_<<now, taskvars, balances>>
  <2>1. CASE TaskCall
      BY <1>1, <2>1, EndStep, ZenonT(30) DEF PInv
  <2>2. CASE OracleStep \/ task_next_block
    <3>1. order_status' = order_status
        BY <2>2 DEF OracleStep, task_next_block, orders
    <3> QED BY <3>1, ZenonT(30)
  <2>3. CASE UNCHANGED <<now, taskvars, balances>>
      BY <2>3
  <2> QED BY <1>1, <2>1, <2>2, <2>3, ZenonT(30) DEF TaskNext
<1>2. TaskInit => PInv  BY InitPInv
<1>3. PInv /\ [TaskNext]_<<now, taskvars, balances>> => PInv'  BY NextPInv
<1> QED BY <1>1, <1>2, <1>3, PTL DEF TaskSpec, EndsOnce
=============================================================================
