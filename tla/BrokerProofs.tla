---------------------------- MODULE BrokerProofs ----------------------------
(***************************************************************************)
(* What the operations of the account preserve, for the proofs about the   *)
(* books that use it.                                                      *)
(***************************************************************************)
EXTENDS Broker, TLAPS

USE BrokerAssumption

LEMMA WithStatusTyped ==
    ASSUME NEW o \in Order, NEW status \in Statuses
    PROVE  WithStatus(o, status) \in Order
BY DEF WithStatus, Order

LEMMA AccountInitTyped == AccountInit => AccountTypeOK
<1>1. ASSUME AccountInit PROVE AccountTypeOK
  <2>1. UnusedOrder \in Order
    BY DEF UnusedOrder, Order, Kinds, Statuses
  <2>2. QED BY <1>1, <2>1 DEF AccountInit, AccountTypeOK, OrderIds
<1>2. QED BY <1>1

LEMMA SubmitTyped ==
    ASSUME AccountTypeOK,
           NEW kind \in Kinds, NEW owner \in Owners, NEW contract \in Contracts,
           NEW delta \in Int,
           Submit(kind, owner, contract, delta)
    PROVE  /\ orders' \in [OrderIds -> Order]
           /\ lastOrder' \in 0 .. MaxOrders
           /\ NextId \in OrderIds
<1>1. NextId \in OrderIds
  BY DEF Submit, NextId, OrderIds, AccountTypeOK
<1>2. [kind |-> kind, owner |-> owner, contract |-> contract, delta |-> delta,
       status |-> "new"] \in Order
  BY DEF Order, Statuses
<1>3. QED BY <1>1, <1>2 DEF Submit, AccountTypeOK, NextId, OrderIds

LEMMA SubmitRaisesTyped ==
    ASSUME AccountTypeOK,
           NEW kind \in Kinds, NEW owner \in Owners, NEW contract \in Contracts,
           NEW delta \in Int,
           SubmitRaises(kind, owner, contract, delta)
    PROVE  /\ orders' \in [OrderIds -> Order]
           /\ lastOrder' \in 0 .. MaxOrders
<1>1. CASE UNCHANGED <<orders, lastOrder>> BY <1>1 DEF AccountTypeOK
<1>2. CASE Submit(kind, owner, contract, delta) BY <1>2, SubmitTyped
<1>3. QED BY <1>1, <1>2 DEF SubmitRaises

LEMMA CancelTyped ==
    ASSUME AccountTypeOK, NEW i, CancelRequested(i)
    PROVE  orders' \in [OrderIds -> Order]
BY WithStatusTyped DEF AccountTypeOK, CancelRequested, Live, Statuses

LEMMA ReplaceTyped ==
    ASSUME AccountTypeOK, NEW i, Replace(i)
    PROVE  /\ orders' \in [OrderIds -> Order]
           /\ lastOrder' \in 0 .. MaxOrders
           /\ NextId \in OrderIds
<1>1. i \in OrderIds /\ NextId \in OrderIds
  BY DEF Replace, NextId, OrderIds, AccountTypeOK
<1>2. orders[i] \in Order /\ WithStatus(orders[i], "dead") \in Order
  BY <1>1, WithStatusTyped DEF AccountTypeOK, Statuses
<1>3. QED BY <1>1, <1>2 DEF Replace, AccountTypeOK, NextId, OrderIds

LEMMA CancelAllTyped ==
    ASSUME AccountTypeOK, CancelAllRequested
    PROVE  /\ orders' \in [OrderIds -> Order]
           /\ liquidation' \in [Contracts -> Int]
BY WithStatusTyped DEF AccountTypeOK, CancelAllRequested, Statuses

LEMMA CloseAllTyped ==
    ASSUME AccountTypeOK, CloseAllRequested
    PROVE  /\ orders' \in [OrderIds -> Order]
           /\ liquidation' \in [Contracts -> Int]
BY WithStatusTyped DEF AccountTypeOK, CloseAllRequested, Statuses

LEMMA AccountMoveTyped ==
    ASSUME AccountTypeOK,
           \/ \E i \in OrderIds : Fill(i) \/ CancelSettles(i) \/ ExchangeRejects(i)
           \/ \E c \in Contracts : LiquidationFills(c) \/ ClosedByHand(c)
           \/ OrdersExpire
    PROVE  AccountTypeOK'
<1>1. ASSUME NEW i \in OrderIds, Fill(i) PROVE AccountTypeOK'
  BY <1>1, WithStatusTyped DEF Fill, Live, AccountTypeOK, Order, Statuses
<1>2. ASSUME NEW i \in OrderIds, CancelSettles(i) PROVE AccountTypeOK'
  BY <1>2, WithStatusTyped DEF CancelSettles, AccountTypeOK, Statuses
<1>3. ASSUME NEW i \in OrderIds, ExchangeRejects(i) PROVE AccountTypeOK'
  BY <1>3, WithStatusTyped DEF ExchangeRejects, AccountTypeOK, Statuses
<1>4. ASSUME NEW c \in Contracts, LiquidationFills(c) PROVE AccountTypeOK'
  BY <1>4 DEF LiquidationFills, AccountTypeOK
<1>5. ASSUME NEW c \in Contracts, ClosedByHand(c) PROVE AccountTypeOK'
  BY <1>5, WithStatusTyped DEF ClosedByHand, AccountTypeOK, Statuses
<1>6. CASE OrdersExpire
  BY <1>6, WithStatusTyped DEF OrdersExpire, AccountTypeOK, Statuses
<1>7. QED BY <1>1, <1>2, <1>3, <1>4, <1>5, <1>6

-----------------------------------------------------------------------------
(* Orders keep what they are: the operations only move their status and hand *)
(* out new ones.                                                             *)

SameOrder(i) ==
    /\ orders'[i].kind = orders[i].kind
    /\ orders'[i].owner = orders[i].owner
    /\ orders'[i].contract = orders[i].contract
    /\ orders[i].status = "unused" => orders'[i].status = "unused"

Kept == lastOrder' = lastOrder /\ \A i \in OrderIds : SameOrder(i)

Handed(kind, owner, contract) ==
    /\ lastOrder' = NextId /\ NextId \in OrderIds
    /\ \A i \in OrderIds \ {NextId} : SameOrder(i)
    /\ orders'[NextId].kind = kind /\ orders'[NextId].owner = owner
    /\ orders'[NextId].contract = contract /\ orders'[NextId].status = "new"

LEMMA WithStatusSame ==
    ASSUME NEW o, NEW status
    PROVE  /\ WithStatus(o, status).kind = o.kind /\ WithStatus(o, status).owner = o.owner
           /\ WithStatus(o, status).contract = o.contract
           /\ WithStatus(o, status).status = status
BY DEF WithStatus

LEMMA UnchangedKept == ASSUME UNCHANGED <<orders, lastOrder>> PROVE Kept
BY DEF Kept, SameOrder

LEMMA CancelKept ==
    ASSUME AccountTypeOK, NEW i, CancelRequested(i), UNCHANGED lastOrder
    PROVE  Kept
<1>1. CASE ~Live(i) /\ UNCHANGED orders
  BY <1>1, UnchangedKept
<1>2. CASE Live(i) /\ \E st \in {"dead", "pending_cancel"} :
                          orders' = [orders EXCEPT ![i] = WithStatus(@, st)]
  BY <1>2, WithStatusSame DEF Kept, SameOrder, Live, LiveStatuses, AccountTypeOK
<1>3. QED BY <1>1, <1>2 DEF CancelRequested

LEMMA AllKept ==
    ASSUME AccountTypeOK, CancelAllRequested \/ CloseAllRequested, UNCHANGED lastOrder
    PROVE  Kept
BY WithStatusSame
DEF CancelAllRequested, CloseAllRequested, Kept, SameOrder, Live, LiveStatuses, AccountTypeOK

LEMMA MovesKept ==
    ASSUME AccountTypeOK,
           \/ \E i \in OrderIds : Fill(i) \/ CancelSettles(i) \/ ExchangeRejects(i)
           \/ \E c \in Contracts : LiquidationFills(c) \/ ClosedByHand(c)
           \/ OrdersExpire
    PROVE  Kept
<1> USE DEF Kept, SameOrder, Live, LiveStatuses, AccountTypeOK
<1>1. ASSUME NEW i \in OrderIds, Fill(i) \/ CancelSettles(i) \/ ExchangeRejects(i) PROVE Kept
  <2>1. /\ orders[i].status # "unused" /\ lastOrder' = lastOrder
        /\ \E st : orders' = [orders EXCEPT ![i] = WithStatus(@, st)]
    BY <1>1 DEF Fill, CancelSettles, ExchangeRejects
  <2>2. QED BY <2>1, WithStatusSame
<1>2. ASSUME NEW c \in Contracts, LiquidationFills(c) PROVE Kept
  BY <1>2 DEF LiquidationFills
<1>3. ASSUME NEW c \in Contracts, ClosedByHand(c) PROVE Kept
  BY <1>3, WithStatusSame DEF ClosedByHand
<1>4. CASE OrdersExpire
  BY <1>4, WithStatusSame DEF OrdersExpire
<1>5. QED BY <1>1, <1>2, <1>3, <1>4

LEMMA SubmitHanded ==
    ASSUME AccountTypeOK, NEW kind, NEW owner, NEW contract, NEW delta,
           Submit(kind, owner, contract, delta)
    PROVE  /\ Handed(kind, owner, contract)
           /\ \A i \in OrderIds \ {NextId} : orders'[i] = orders[i]
<1>1. NextId \in OrderIds
  BY DEF Submit, NextId, OrderIds, AccountTypeOK
<1>2. QED BY <1>1 DEF Submit, Handed, SameOrder, AccountTypeOK
=============================================================================
