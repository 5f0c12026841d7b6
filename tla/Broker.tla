------------------------------- MODULE Broker -------------------------------
(***************************************************************************)
(* The Alpaca paper account as the executor uses it.  It is not part of    *)
(* the repository: this module says what the code in                       *)
(* x_alpaca_trading_bot/executor.py may rely on and what it may not.       *)
(*                                                                         *)
(*   - an accepted order is live until it fills, is cancelled, is rejected *)
(*     by the exchange or expires with the session (every order the        *)
(*     executor sends has time_in_force DAY);                              *)
(*   - a cancel request is asynchronous: the order may be cancelled at     *)
(*     once, or stay "pending_cancel" for a while and still fill;          *)
(*   - an order that reduces a position fills whether or not the position  *)
(*     is still there, so the account can end on the other side of zero;   *)
(*   - close_all_positions creates liquidation orders that fill later.     *)
(*                                                                         *)
(* Quantities are whole entry lots: an entry buys (or sells) one lot.      *)
(***************************************************************************)
EXTENDS Integers

CONSTANTS
    Contracts,      \* the symbols that can be traded
    Owners,         \* who an order is for: the signals or the tickers
    MaxOrders       \* bound: the orders the account accepts in a behaviour

ASSUME BrokerAssumption ==
    /\ MaxOrders \in Nat \ {0}
    /\ Contracts # {}
    /\ Owners # {}

VARIABLES
    orders,         \* order id -> order; ids are handed out in sequence
    lastOrder,      \* the last id handed out
    net,            \* contract -> signed position, in lots
    liquidation     \* contract -> what a pending liquidation order will add

account == <<orders, lastOrder, net, liquidation>>

OrderIds == 1 .. MaxOrders
NoOrder == 0
OrderRefs == OrderIds \union {NoOrder}      \* what the bot stores for "str | None"

Kinds == {"entry", "stop", "exit", "manual"}
\* The code tells a filled order from every other terminal one and no further:
\* "dead" stands for canceled, replaced, rejected and expired.
Statuses == {"unused", "new", "pending_cancel", "filled", "dead"}
LiveStatuses == {"new", "pending_cancel"}

Order == [kind : Kinds, owner : Owners, contract : Contracts,
          delta : Int, status : Statuses]

AccountTypeOK ==
    /\ orders \in [OrderIds -> Order]
    /\ lastOrder \in 0 .. MaxOrders
    /\ net \in [Contracts -> Int]
    /\ liquidation \in [Contracts -> Int]

UnusedOrder == [kind |-> "entry", owner |-> CHOOSE o \in Owners : TRUE,
                contract |-> CHOOSE c \in Contracts : TRUE,
                delta |-> 0, status |-> "unused"]

AccountInit ==
    /\ orders = [i \in OrderIds |-> UnusedOrder]
    /\ lastOrder = 0
    /\ net = [c \in Contracts |-> 0]
    /\ liquidation = [c \in Contracts |-> 0]

-----------------------------------------------------------------------------
(* What the bot reads. *)

Live(i) == i \in OrderIds /\ orders[i].status \in LiveStatuses
Filled(i) == i \in OrderIds /\ orders[i].status = "filled"
LiveOrders == {i \in OrderIds : Live(i)}

WithStatus(o, status) ==
    [kind |-> o.kind, owner |-> o.owner, contract |-> o.contract,
     delta |-> o.delta, status |-> status]

-----------------------------------------------------------------------------
(* What the bot asks for. *)

NextId == lastOrder + 1

Submit(kind, owner, contract, delta) ==
    /\ lastOrder < MaxOrders
    /\ lastOrder' = NextId
    /\ orders' = [orders EXCEPT ![NextId] =
                    [kind |-> kind, owner |-> owner, contract |-> contract,
                     delta |-> delta, status |-> "new"]]

\* The submission raised in the caller.  The request may have been refused, or
\* accepted with the answer lost on the way back.
SubmitRaises(kind, owner, contract, delta) ==
    \/ UNCHANGED <<orders, lastOrder>>
    \/ Submit(kind, owner, contract, delta)

\* cancel_order_by_id: an error for an order that is no longer live, which
\* Executor.cancel_order swallows.
CancelRequested(i) ==
    \/ ~Live(i) /\ UNCHANGED orders
    \/ Live(i) /\ \E st \in {"dead", "pending_cancel"} :
                      orders' = [orders EXCEPT ![i] = WithStatus(@, st)]

\* replace_order_by_id: atomic, and only for an order that is plainly live.
Replace(i) ==
    /\ i \in OrderIds
    /\ orders[i].status = "new"
    /\ lastOrder < MaxOrders
    /\ lastOrder' = NextId
    /\ orders' = [orders EXCEPT ![i] = WithStatus(@, "dead"), ![NextId] = orders[i]]

\* Executor.flatten_all, first half: a cancel request for every open order.
\* The liquidation orders of an earlier flatten are open orders too.
CancelAllRequested ==
    /\ \E slow \in SUBSET LiveOrders :
           orders' = [i \in OrderIds |->
                        IF Live(i)
                        THEN WithStatus(orders[i],
                                        IF i \in slow THEN "pending_cancel" ELSE "dead")
                        ELSE orders[i]]
    /\ liquidation' = [c \in Contracts |-> 0]

\* Executor.flatten_all, second half: close_all_positions(cancel_orders=True).
\* The account drops what is still open before it sizes the liquidation.
CloseAllRequested ==
    /\ orders' = [i \in OrderIds |->
                    IF Live(i) THEN WithStatus(orders[i], "dead") ELSE orders[i]]
    /\ liquidation' = [c \in Contracts |-> -net[c]]

-----------------------------------------------------------------------------
(* What the account does on its own. *)

Fill(i) ==
    /\ Live(i)
    /\ orders' = [orders EXCEPT ![i] = WithStatus(@, "filled")]
    /\ net' = [net EXCEPT ![orders[i].contract] = @ + orders[i].delta]
    /\ UNCHANGED <<lastOrder, liquidation>>

CancelSettles(i) ==
    /\ i \in OrderIds
    /\ orders[i].status = "pending_cancel"
    /\ orders' = [orders EXCEPT ![i] = WithStatus(@, "dead")]
    /\ UNCHANGED <<lastOrder, net, liquidation>>

LiquidationFills(c) ==
    /\ liquidation[c] # 0
    /\ net' = [net EXCEPT ![c] = @ + liquidation[c]]
    /\ liquidation' = [liquidation EXCEPT ![c] = 0]
    /\ UNCHANGED <<orders, lastOrder>>

\* An accepted order is rejected or cancelled by the exchange.
ExchangeRejects(i) ==
    /\ Live(i)
    /\ orders' = [orders EXCEPT ![i] = WithStatus(@, "dead")]
    /\ UNCHANGED <<lastOrder, net, liquidation>>

\* Somebody closes a position outside the bot (the broker's own web page, an
\* account-level liquidation); open orders on the contract go with it.
ClosedByHand(c) ==
    /\ net[c] # 0
    /\ net' = [net EXCEPT ![c] = 0]
    /\ orders' = [i \in OrderIds |->
                    IF Live(i) /\ orders[i].contract = c
                    THEN WithStatus(orders[i], "dead")
                    ELSE orders[i]]
    /\ UNCHANGED <<lastOrder, liquidation>>

\* Every order is a DAY order.
OrdersExpire ==
    /\ orders' = [i \in OrderIds |->
                    IF Live(i) THEN WithStatus(orders[i], "dead")
                    ELSE orders[i]]
    /\ liquidation' = [c \in Contracts |-> 0]
    /\ UNCHANGED <<lastOrder, net>>
=============================================================================
