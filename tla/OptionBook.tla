----------------------------- MODULE OptionBook -----------------------------
(***************************************************************************)
(* The option book of the orchestrator (x_alpaca_trading_bot/main.py): the *)
(* life of a PositionRecord from the post that opens it to the trades row  *)
(* that closes it.                                                         *)
(*                                                                         *)
(* One thread runs tick(); pc is where it is.  Between two of its broker   *)
(* or database calls the account moves, the API thread flags positions for *)
(* "Sell now", the stream thread delivers posts, the clock passes 15:55,   *)
(* and the process may die.  A call that raises costs one unit of the      *)
(* disturbance budget and takes the except path of the code.               *)
(*                                                                         *)
(* Prices are abstract: strategy.evaluate is a choice between holding,     *)
(* raising the stop and exiting (module TrailingStop models its rules).    *)
(* The parse, validation and risk gates are a choice between taking and    *)
(* rejecting a post.                                                       *)
(***************************************************************************)
EXTENDS Broker, Sequences, FiniteSets

CONSTANTS
    NumSignals,     \* bound: the posts that arrive, each a new signals row
    ContractOf,     \* the contract a signal names
    MaxConcurrent,  \* Config.max_concurrent_positions
    Budgets,        \* bound: what may happen together in one behaviour
    MaxDays         \* bound: trading sessions after the first

Signals == 1 .. NumSignals

ASSUME BookAssumption ==
    /\ NumSignals \in Nat
    /\ ContractOf \in [Signals -> Contracts]
    /\ Signals \subseteq Owners
    /\ {MaxConcurrent, MaxDays} \subseteq Nat
    /\ Budgets \subseteq [posts : Nat, open : Nat, disturbed : Nat, crashes : Nat,
                    stopMoves : Nat, sellNow : BOOLEAN]

VARIABLES
    pc,             \* where the orchestrator thread is in tick()
    cur,            \* the signal the current handler works on, 0 for none
    oid,            \* the entry order _handle_post waits for
    todo,           \* what is left of the loop the thread is in
    flattening,     \* _close_position was called by _flatten_at_close
    open,           \* the keys of _open_positions
    rec,            \* signal -> the mutable part of its PositionRecord
    arrived,        \* posts put on _post_queue by the stream thread
    handled,        \* posts taken off it
    manualQueue,    \* _manual_close_queue
    taken,          \* signals.taken
    trades,         \* signal -> the exit_reason of each of its trades rows
    late,           \* it is 15:55 ET or later
    disturbed, crashes, stopMoves, days     \* what the bounds count

thread == <<pc, cur, oid, todo, flattening>>
memory == <<open, rec, arrived, handled, manualQueue>>
journal == <<taken, trades>>
counters == <<disturbed, crashes, stopMoves, days>>
vars == <<account, thread, memory, journal, late, counters>>

EntryPoints == {"entryWait", "entryCancel", "entryStop", "entryTrack", "entryTaken"}
AdvancePoints == {"evaluate", "replaceStop", "resubmitStop", "evaluated"}
ClosePoints == {"closeCancel", "closeSell", "closeBook"}
PCs == {"down", "idle", "posts", "manual", "manualSell", "poll", "clock",
        "advance", "flatten", "cancelAll", "closeAll", "reconcile", "ghosts"}
       \union EntryPoints \union AdvancePoints \union ClosePoints

Reasons == {"strategy_exit", "time_stop_1555", "stop_loss", "manual_close",
            "external_close"}

Record == [stop : OrderRefs, manual : OrderRefs, closing : BOOLEAN, qty : Nat]
NoRecord == [stop |-> NoOrder, manual |-> NoOrder, closing |-> FALSE, qty |-> 0]

TypeOK ==
    /\ AccountTypeOK
    /\ pc \in PCs
    /\ cur \in Signals \union {0}
    /\ oid \in OrderRefs
    /\ todo \in SUBSET Signals
    /\ flattening \in BOOLEAN
    /\ open \in SUBSET Signals
    /\ rec \in [Signals -> Record]
    /\ arrived \in 0 .. NumSignals
    /\ handled \in 0 .. arrived
    /\ manualQueue \in Seq(Signals)
    /\ taken \in [Signals -> BOOLEAN]
    /\ trades \in [Signals -> Seq(Reasons)]
    /\ late \in BOOLEAN
    /\ disturbed \in Nat /\ crashes \in Nat /\ stopMoves \in Nat /\ days \in Nat

Init ==
    /\ AccountInit
    /\ pc = "idle" /\ cur = 0 /\ oid = NoOrder /\ todo = {} /\ flattening = FALSE
    /\ open = {} /\ rec = [s \in Signals |-> NoRecord]
    /\ arrived = 0 /\ handled = 0 /\ manualQueue = <<>>
    /\ taken = [s \in Signals |-> FALSE]
    /\ trades = [s \in Signals |-> <<>>]
    /\ late = FALSE
    /\ disturbed = 0 /\ crashes = 0 /\ stopMoves = 0 /\ days = 0

-----------------------------------------------------------------------------
(* Shared steps. *)

Goto(here, there) ==
    /\ pc = here /\ pc' = there
    /\ UNCHANGED <<account, cur, oid, todo, flattening, memory, journal, late, counters>>

StartLoop(here, there, signals) ==
    /\ pc = here /\ pc' = there
    /\ todo' = signals
    /\ UNCHANGED <<account, cur, oid, flattening, memory, journal, late, counters>>

\* The budgets that pay for so many posts, failing calls (or rejected orders, or hand
\* closes), deaths of the process and ratchets, and for what is open or worked on.
Paying(posts, failures, deaths, moves) ==
    {b \in Budgets : /\ posts <= b.posts /\ failures <= b.disturbed
                     /\ deaths <= b.crashes /\ moves <= b.stopMoves
                     /\ Cardinality((open \union {cur}) \ {0}) <= b.open}

Affordable(posts, failures, deaths, moves) == Paying(posts, failures, deaths, moves) # {}

Disturb ==
    /\ Affordable(arrived, disturbed + 1, crashes, stopMoves)
    /\ disturbed' = disturbed + 1
    /\ UNCHANGED <<crashes, stopMoves, days>>

\* Executor.cancel_order: whatever goes wrong is logged and swallowed.
CancelOrder(i) ==
    \/ CancelRequested(i) /\ UNCHANGED counters
    \/ Disturb /\ UNCHANGED orders

Forget(s) ==
    /\ open' = open \ {s}
    /\ rec' = [rec EXCEPT ![s] = NoRecord]

AppendTrade(s, reason) == trades' = [trades EXCEPT ![s] = Append(@, reason)]

\* _record_external_close: the row is written once, and the record goes away
\* whether or not the row could be written.
RecordExternalClose(s, reason) ==
    /\ Forget(s)
    /\ \/ /\ UNCHANGED counters
          /\ IF trades[s] = <<>> THEN AppendTrade(s, reason) ELSE UNCHANGED trades
       \/ Disturb /\ UNCHANGED trades   \* the check or close_trade raised
    /\ UNCHANGED <<taken, arrived, handled, manualQueue>>

-----------------------------------------------------------------------------
(* Stage 1: _drain_post_queue and _handle_post. *)

StartTick == Goto("idle", "posts")

\* A gate rejects the post, or the concurrent-positions cap does.
RejectPost ==
    /\ pc = "posts" /\ handled < arrived
    /\ handled' = handled + 1
    /\ UNCHANGED <<account, thread, open, rec, arrived, manualQueue, journal, late, counters>>

SubmitEntry ==
    /\ pc = "posts" /\ handled < arrived
    /\ Cardinality(open) < MaxConcurrent
    /\ handled' = handled + 1
    /\ cur' = handled + 1
    /\ Submit("entry", handled + 1, ContractOf[handled + 1], 1)
    /\ oid' = NextId
    /\ pc' = "entryWait"
    /\ UNCHANGED <<net, liquidation, todo, flattening, open, rec, arrived, manualQueue,
                   journal, late, counters>>

\* submit_limit_buy raised: logged as post_handler_crash, as below.
SubmitEntryRaises ==
    /\ pc = "posts" /\ handled < arrived
    /\ Cardinality(open) < MaxConcurrent
    /\ Disturb
    /\ handled' = handled + 1
    /\ SubmitRaises("entry", handled + 1, ContractOf[handled + 1], 1)
    /\ pc' \in {"posts", "manual"}
    /\ UNCHANGED <<net, liquidation, cur, oid, todo, flattening, open, rec, arrived,
                   manualQueue, journal, late>>

\* wait_for_fill returned a fill, and insert_fill journalled it.
EntryFilled == Filled(oid) /\ Goto("entryWait", "entryStop")

\* wait_for_fill timed out, or saw a terminal order.
EntryNotFilled == ~Filled(oid) /\ Goto("entryWait", "entryCancel")

\* The order may have filled since wait_for_fill looked: the cancel is then an
\* error that cancel_order swallows, and the signal is rejected all the same.
CancelEntry ==
    /\ pc = "entryCancel"
    /\ CancelOrder(oid)
    /\ pc' = "posts" /\ cur' = 0 /\ oid' = NoOrder
    /\ UNCHANGED <<lastOrder, net, liquidation, todo, flattening, memory, journal, late>>

PlaceStop ==
    /\ pc = "entryStop"
    /\ Submit("stop", cur, ContractOf[cur], -1)
    /\ oid' = NextId
    /\ pc' = "entryTrack"
    /\ UNCHANGED <<net, liquidation, cur, todo, flattening, memory, journal, late, counters>>

\* _open_positions[signal_id] = record.
TrackPosition ==
    /\ pc = "entryTrack"
    /\ open' = open \union {cur}
    /\ rec' = [rec EXCEPT ![cur] = [stop |-> oid, manual |-> NoOrder,
                                    closing |-> FALSE, qty |-> 1]]
    /\ pc' = "entryTaken"
    /\ UNCHANGED <<account, cur, oid, todo, flattening, arrived, handled, manualQueue,
                   journal, late, counters>>

\* The entry snapshot, then UPDATE signals SET taken = TRUE.
MarkTaken ==
    /\ pc = "entryTaken"
    /\ taken' = [taken EXCEPT ![cur] = TRUE]
    /\ pc' = "posts" /\ cur' = 0 /\ oid' = NoOrder
    /\ UNCHANGED <<account, todo, flattening, memory, trades, late, counters>>

\* Any other call of _handle_post raises: the exception is logged as
\* post_handler_crash and the drain goes on, unless writing that event raises
\* too, which ends the drain for this tick.
PostHandlerCrash ==
    /\ pc \in EntryPoints \ {"entryCancel"}
    /\ Disturb
    /\ IF pc = "entryStop"
       THEN SubmitRaises("stop", cur, ContractOf[cur], -1)
       ELSE UNCHANGED <<orders, lastOrder>>
    /\ pc' \in {"posts", "manual"} /\ cur' = 0 /\ oid' = NoOrder
    /\ UNCHANGED <<net, liquidation, todo, flattening, memory, journal, late>>

PostsDrained == handled = arrived /\ Goto("posts", "manual")

HandlePosts ==
    \/ RejectPost \/ SubmitEntry \/ SubmitEntryRaises
    \/ EntryFilled \/ EntryNotFilled \/ CancelEntry
    \/ PlaceStop \/ TrackPosition \/ MarkTaken \/ PostHandlerCrash \/ PostsDrained

-----------------------------------------------------------------------------
(* "Sell now": request_manual_close on the API thread, then stages 1b and 1c. *)

RequestManualClose(s) ==
    /\ pc # "down"
    /\ s \in open /\ ~rec[s].closing
    /\ \E b \in Paying(arrived, disturbed, crashes, stopMoves) : b.sellNow
    /\ rec' = [rec EXCEPT ![s].closing = TRUE]
    /\ manualQueue' = Append(manualQueue, s)
    /\ UNCHANGED <<account, thread, open, arrived, handled, journal, late, counters>>

\* _handle_manual_close finds the position gone.
DropManualClose ==
    /\ pc = "manual" /\ manualQueue # <<>>
    /\ Head(manualQueue) \notin open
    /\ manualQueue' = Tail(manualQueue)
    /\ UNCHANGED <<account, thread, open, rec, arrived, handled, journal, late, counters>>

CancelStopForManualClose ==
    /\ pc = "manual" /\ manualQueue # <<>>
    /\ Head(manualQueue) \in open
    /\ cur' = Head(manualQueue)
    /\ manualQueue' = Tail(manualQueue)
    /\ CancelOrder(rec[Head(manualQueue)].stop)
    /\ rec' = [rec EXCEPT ![Head(manualQueue)].stop = NoOrder]
    /\ pc' = "manualSell"
    /\ UNCHANGED <<lastOrder, net, liquidation, oid, todo, flattening, open, arrived,
                   handled, journal, late>>

SubmitManualSell ==
    /\ pc = "manualSell"
    /\ Submit("manual", cur, ContractOf[cur], -rec[cur].qty)
    /\ rec' = [rec EXCEPT ![cur].manual = NextId]
    /\ pc' = "manual" /\ cur' = 0
    /\ UNCHANGED <<net, liquidation, oid, todo, flattening, open, arrived, handled,
                   manualQueue, journal, late, counters>>

\* The submission raised, or the manual_close_submitted event after it did: the
\* flag and the order id are rolled back so that the user can retry.  Writing
\* the error event may raise in turn and end the drain for this tick.
ManualCloseFails ==
    /\ pc = "manualSell"
    /\ Disturb
    /\ SubmitRaises("manual", cur, ContractOf[cur], -rec[cur].qty)
    /\ rec' = [rec EXCEPT ![cur].closing = FALSE, ![cur].manual = NoOrder]
    /\ pc' \in {"manual", "poll"} /\ cur' = 0
    /\ todo' = IF pc' = "poll" THEN {s \in open : rec'[s].manual # NoOrder} ELSE todo
    /\ UNCHANGED <<net, liquidation, oid, flattening, open, arrived, handled,
                   manualQueue, journal, late>>

\* Faulty variant: the pending sells are never polled.
ManualQueueDrainedNoPoll ==
    /\ manualQueue = <<>>
    /\ StartLoop("manual", "poll", {})

ManualQueueDrained ==
    /\ manualQueue = <<>>
    /\ StartLoop("manual", "poll", {s \in open : rec[s].closing /\ rec[s].manual # NoOrder})

\* _check_manual_close_fills.
BookManualFill(s) ==
    /\ pc = "poll" /\ s \in todo
    /\ Filled(rec[s].manual)
    /\ RecordExternalClose(s, "manual_close")
    /\ todo' = todo \ {s}
    /\ UNCHANGED <<account, pc, cur, oid, flattening, late>>

ManualFillPending(s) ==
    /\ pc = "poll" /\ s \in todo
    /\ IF Filled(rec[s].manual) THEN Disturb ELSE UNCHANGED counters
    /\ todo' = todo \ {s}
    /\ UNCHANGED <<account, pc, cur, oid, flattening, memory, journal, late>>

PollDone == todo = {} /\ Goto("poll", "clock")

HandleManualCloses ==
    \/ DropManualClose \/ CancelStopForManualClose \/ SubmitManualSell
    \/ ManualCloseFails \/ ManualQueueDrained \/ PollDone
    \/ \E s \in Signals : BookManualFill(s) \/ ManualFillPending(s)

-----------------------------------------------------------------------------
(* Stage 2: the 15:55 flatten. *)

BeforeClose == ~late /\ StartLoop("clock", "advance", open)

SomethingToFlatten ==
    open # {} \/ LiveOrders # {} \/ \E c \in Contracts : liquidation[c] # 0

\* _flatten_at_close returns early when the bot tracks nothing and the account
\* has no open order; it does not look at the account's positions.
NothingToFlatten == late /\ ~SomethingToFlatten /\ Goto("clock", "idle")

StartFlatten == late /\ SomethingToFlatten /\ StartLoop("clock", "flatten", open)

\* Faulty variant: the flatten leaves positions that are being sold by hand alone.
FlattenOneSkipsClosing(s) ==
    /\ pc = "flatten" /\ s \in todo
    /\ todo' = todo \ {s}
    /\ IF rec[s].closing THEN UNCHANGED <<pc, cur, flattening>>
       ELSE pc' = "closeCancel" /\ cur' = s /\ flattening' = TRUE
    /\ UNCHANGED <<account, oid, memory, journal, late, counters>>

FlattenOne(s) ==
    /\ pc = "flatten" /\ s \in todo
    /\ pc' = "closeCancel" /\ cur' = s /\ todo' = todo \ {s} /\ flattening' = TRUE
    /\ UNCHANGED <<account, oid, memory, journal, late, counters>>

AllFlattened == todo = {} /\ Goto("flatten", "cancelAll")

CancelAll ==
    /\ pc = "cancelAll"
    /\ CancelAllRequested
    /\ pc' = "closeAll"
    /\ UNCHANGED <<lastOrder, net, cur, oid, todo, flattening, memory, journal, late, counters>>

\* Faulty variant: flatten_all cancels the orders and closes nothing.
CloseAllOnlyCancels ==
    /\ pc = "closeAll"
    /\ pc' = "idle"
    /\ UNCHANGED <<account, cur, oid, todo, flattening, memory, journal, late, counters>>

\* The tick ends here: no advance, no risk pulse after the flatten.
CloseAll ==
    /\ pc = "closeAll"
    /\ CloseAllRequested
    /\ pc' = "idle"
    /\ UNCHANGED <<lastOrder, net, cur, oid, todo, flattening, memory, journal, late, counters>>

\* list_open_orders or flatten_all raised: tick() logs "close-time check failed;
\* continuing" and goes on with stage 3.
FlattenFails ==
    /\ pc \in {"clock", "cancelAll", "closeAll"} /\ late
    /\ Disturb
    /\ pc' = "advance" /\ todo' = open
    /\ UNCHANGED <<account, cur, oid, flattening, memory, journal, late>>

FlattenAtClose ==
    \/ BeforeClose \/ NothingToFlatten \/ StartFlatten \/ AllFlattened
    \/ CancelAll \/ CloseAll \/ FlattenFails
    \/ \E s \in Signals : FlattenOne(s)

-----------------------------------------------------------------------------
(* Stage 3: _advance_position for every open position. *)

SkipClosing(s) ==
    /\ pc = "advance" /\ s \in todo
    /\ rec[s].closing
    /\ todo' = todo \ {s}
    /\ UNCHANGED <<account, pc, cur, oid, flattening, memory, journal, late, counters>>

\* Faulty variant: a filled stop drops the record without a trades row.
BookStopFillNoRow(s) ==
    /\ pc = "advance" /\ s \in todo
    /\ ~rec[s].closing /\ Filled(rec[s].stop)
    /\ Forget(s)
    /\ todo' = todo \ {s}
    /\ UNCHANGED <<account, pc, cur, oid, flattening, arrived, handled, manualQueue, journal,
                   late, counters>>

\* The fast path: the stop has filled at the broker.
BookStopFill(s) ==
    /\ pc = "advance" /\ s \in todo
    /\ ~rec[s].closing /\ Filled(rec[s].stop)
    /\ RecordExternalClose(s, "stop_loss")
    /\ todo' = todo \ {s}
    /\ UNCHANGED <<account, pc, cur, oid, flattening, late>>

\* Faulty variant: closing_in_progress is not checked.
LookAtPositionIgnoresFlag(s) ==
    /\ pc = "advance" /\ s \in todo
    /\ IF Filled(rec[s].stop) THEN Disturb ELSE UNCHANGED counters
    /\ pc' = "evaluate" /\ cur' = s /\ todo' = todo \ {s}
    /\ UNCHANGED <<account, oid, flattening, memory, journal, late>>

\* The stop has not filled, or get_order raised.
LookAtPosition(s) ==
    /\ pc = "advance" /\ s \in todo
    /\ ~rec[s].closing
    /\ IF Filled(rec[s].stop) THEN Disturb ELSE UNCHANGED counters
    /\ pc' = "evaluate" /\ cur' = s /\ todo' = todo \ {s}
    /\ UNCHANGED <<account, oid, flattening, memory, journal, late>>

\* No quote, no exit, or a failed call that leaves the position for next tick.
Hold ==
    /\ pc \in {"evaluate", "evaluated"}
    /\ pc' = "advance" /\ cur' = 0
    /\ UNCHANGED <<account, oid, todo, flattening, memory, journal, late, counters>>

\* The strategy lifted the stop by at least the minimum bump and it is below
\* the market.  With no stop order there is no "prior stop on book" to lift.
RaiseStop ==
    /\ pc = "evaluate"
    /\ rec[cur].stop # NoOrder
    /\ Affordable(arrived, disturbed, crashes, stopMoves + 1)
    /\ stopMoves' = stopMoves + 1
    /\ pc' = "replaceStop"
    /\ UNCHANGED <<account, cur, oid, todo, flattening, memory, journal, late, disturbed,
                   crashes, days>>

\* Faulty variant: the record keeps the id of the replaced order.
ReplaceStopKeepsOldId ==
    /\ pc = "replaceStop"
    /\ Replace(rec[cur].stop)
    /\ pc' = "evaluated"
    /\ UNCHANGED <<net, liquidation, cur, oid, todo, flattening, memory, journal, late, counters>>

\* modify_stop, path A.
ReplaceStop ==
    /\ pc = "replaceStop"
    /\ Replace(rec[cur].stop)
    /\ rec' = [rec EXCEPT ![cur].stop = NextId]
    /\ pc' = "evaluated"
    /\ UNCHANGED <<net, liquidation, cur, oid, todo, flattening, open, arrived, handled,
                   manualQueue, journal, late, counters>>

\* modify_stop, path B: the replace was refused because the stop is not plainly
\* live (it may have filled a moment ago), or it raised although it was done.
\* Then cancel and wait, whatever the stop turned into.
ReplaceRefused ==
    /\ pc = "replaceStop"
    /\ \/ /\ orders[rec[cur].stop].status # "new"
          /\ CancelOrder(rec[cur].stop) /\ UNCHANGED lastOrder
       \/ /\ Disturb
          /\ \/ CancelRequested(rec[cur].stop) /\ UNCHANGED lastOrder
             \/ Replace(rec[cur].stop)
    /\ pc' = "resubmitStop"
    /\ UNCHANGED <<net, liquidation, cur, oid, todo, flattening, memory, journal, late>>

ResubmitStop ==
    /\ pc = "resubmitStop"
    /\ Submit("stop", cur, ContractOf[cur], -rec[cur].qty)
    /\ rec' = [rec EXCEPT ![cur].stop = NextId]
    /\ pc' = "evaluated"
    /\ UNCHANGED <<net, liquidation, cur, oid, todo, flattening, open, arrived, handled,
                   manualQueue, journal, late, counters>>

\* modify_stop raised: the record keeps the id of the order it cancelled.
ResubmitStopRaises ==
    /\ pc = "resubmitStop"
    /\ Disturb
    /\ SubmitRaises("stop", cur, ContractOf[cur], -rec[cur].qty)
    /\ pc' = "evaluated"
    /\ UNCHANGED <<net, liquidation, cur, oid, todo, flattening, memory, journal, late>>

ExitPosition == Goto("evaluate", "closeCancel") \/ Goto("evaluated", "closeCancel")

AdvanceDone == todo = {} /\ Goto("advance", "reconcile")

AdvancePositions ==
    \/ Hold \/ RaiseStop \/ ReplaceStop \/ ReplaceRefused \/ ResubmitStop
    \/ ResubmitStopRaises \/ ExitPosition \/ AdvanceDone
    \/ \E s \in Signals : SkipClosing(s) \/ BookStopFill(s) \/ LookAtPosition(s)

-----------------------------------------------------------------------------
(* _close_position, called by stage 3 and by the flatten. *)

CancelStopForClose ==
    /\ pc = "closeCancel"
    /\ CancelOrder(rec[cur].stop)
    /\ pc' = "closeSell"
    /\ UNCHANGED <<lastOrder, net, liquidation, cur, oid, todo, flattening, memory, journal,
                   late>>

SubmitClose ==
    /\ pc = "closeSell"
    /\ Submit("exit", cur, ContractOf[cur], -rec[cur].qty)
    /\ pc' = "closeBook"
    /\ UNCHANGED <<net, liquidation, cur, oid, todo, flattening, memory, journal, late,
                   counters>>

\* wait_for_fill came back, with a fill or without one: the trade is booked and
\* the record dropped either way.
BookClose ==
    /\ pc = "closeBook"
    /\ AppendTrade(cur, IF flattening THEN "time_stop_1555" ELSE "strategy_exit")
    /\ Forget(cur)
    /\ pc' = IF flattening THEN "flatten" ELSE "advance"
    /\ cur' = 0 /\ flattening' = FALSE
    /\ UNCHANGED <<account, oid, todo, arrived, handled, manualQueue, taken, late, counters>>

\* A call raised.  Stage 3 goes on with the next position; the flatten is
\* abandoned as a whole and the tick goes on with stage 3.
CloseRaises ==
    /\ pc \in {"closeSell", "closeBook"}
    /\ Disturb
    /\ IF pc = "closeSell"
       THEN SubmitRaises("exit", cur, ContractOf[cur], -rec[cur].qty)
       ELSE UNCHANGED <<orders, lastOrder>>
    /\ pc' = "advance" /\ cur' = 0 /\ flattening' = FALSE
    /\ todo' = IF flattening THEN open ELSE todo
    /\ UNCHANGED <<net, liquidation, oid, memory, journal, late>>

ClosePosition ==
    CancelStopForClose \/ SubmitClose \/ BookClose \/ CloseRaises

-----------------------------------------------------------------------------
(* Stage 6: _reconcile_positions. *)

\* Five ticks out of six, or get_all_positions raised.
SkipReconcile == Goto("reconcile", "idle")

FindGhosts == StartLoop("reconcile", "ghosts", {s \in open : net[ContractOf[s]] = 0})

\* Faulty variant: the reconciliation does not know about manual closes.
ManualInFlightUnknown(s) == FALSE

ManualInFlight(s) == rec[s].closing /\ rec[s].manual # NoOrder

DeferGhost(s) ==
    /\ pc = "ghosts" /\ s \in todo
    /\ ManualInFlight(s)
    /\ IF Filled(rec[s].manual) THEN Disturb ELSE UNCHANGED counters
    /\ todo' = todo \ {s}
    /\ UNCHANGED <<account, pc, cur, oid, flattening, memory, journal, late>>

BookManualGhost(s) ==
    /\ pc = "ghosts" /\ s \in todo
    /\ ManualInFlight(s) /\ Filled(rec[s].manual)
    /\ RecordExternalClose(s, "manual_close")
    /\ todo' = todo \ {s}
    /\ UNCHANGED <<account, pc, cur, oid, flattening, late>>

\* "external_close" is booked at the entry price.
BookGhost(s) ==
    /\ pc = "ghosts" /\ s \in todo
    /\ ~ManualInFlight(s)
    /\ RecordExternalClose(s, IF Filled(rec[s].stop) THEN "stop_loss" ELSE "external_close")
    /\ todo' = todo \ {s}
    /\ UNCHANGED <<account, pc, cur, oid, flattening, late>>

\* get_order raised for a stop that has filled.
BookGhostBlind(s) ==
    /\ pc = "ghosts" /\ s \in todo
    /\ ~ManualInFlight(s) /\ Filled(rec[s].stop)
    /\ Disturb
    /\ IF trades[s] = <<>> THEN AppendTrade(s, "external_close") ELSE UNCHANGED trades
    /\ Forget(s)
    /\ todo' = todo \ {s}
    /\ UNCHANGED <<account, pc, cur, oid, flattening, arrived, handled, manualQueue, taken, late>>

GhostsDone == todo = {} /\ Goto("ghosts", "idle")

ReconcilePositions ==
    \/ SkipReconcile \/ FindGhosts \/ GhostsDone
    \/ \E s \in Signals : \/ DeferGhost(s) \/ BookManualGhost(s)
                          \/ BookGhost(s) \/ BookGhostBlind(s)

-----------------------------------------------------------------------------
(* Death of the process and _reconcile_on_startup. *)

Crash ==
    /\ pc # "down"
    /\ Affordable(arrived, disturbed, crashes + 1, stopMoves)
    /\ crashes' = crashes + 1
    /\ pc' = "down" /\ cur' = 0 /\ oid' = NoOrder /\ todo' = {} /\ flattening' = FALSE
    /\ open' = {} /\ rec' = [s \in Signals |-> NoRecord]
    /\ handled' = arrived /\ manualQueue' = <<>>
    /\ UNCHANGED <<account, arrived, journal, late, disturbed, stopMoves, days>>

\* Faulty variant: the query does not exclude signals that have a trades row.
UnclosedOrNot(s) == taken[s]

\* _adopt_position: the most recent taken signal for the contract of an open
\* position that has no trades row.
Unclosed(s) == taken[s] /\ trades[s] = <<>>

LiveStops(c) == {i \in LiveOrders : orders[i].kind = "stop" /\ orders[i].contract = c}

\* Faulty variant: only a position with its stop still on the book is adopted.
AdoptableWithStop == {s \in Signals :
                        /\ net[ContractOf[s]] # 0
                        /\ Unclosed(s)
                        /\ LiveStops(ContractOf[s]) # {}}

Adoptable == {s \in Signals :
                /\ net[ContractOf[s]] # 0
                /\ Unclosed(s)
                /\ \A t \in Signals :
                       Unclosed(t) /\ ContractOf[t] = ContractOf[s] => t <= s}

AbsInt(n) == IF n < 0 THEN -n ELSE n

\* Of several live stops on one contract the last one listed wins.  A query
\* that raises leaves its position orphaned.
Restart ==
    /\ pc = "down"
    /\ pc' = "idle"
    /\ \/ open' = Adoptable /\ UNCHANGED counters
       \/ Disturb /\ \E missed \in Adoptable : open' = Adoptable \ {missed}
    /\ \E stopOf \in [Contracts -> OrderRefs] :
           /\ \A c \in Contracts : IF LiveStops(c) = {} THEN stopOf[c] = NoOrder
                                   ELSE stopOf[c] \in LiveStops(c)
           /\ rec' = [s \in Signals |->
                        IF s \in open'
                        THEN [stop |-> stopOf[ContractOf[s]], manual |-> NoOrder,
                              closing |-> FALSE, qty |-> AbsInt(net[ContractOf[s]])]
                        ELSE NoRecord]
    /\ UNCHANGED <<account, cur, oid, todo, flattening, arrived, handled, manualQueue,
                   journal, late>>

-----------------------------------------------------------------------------
(* What moves on its own. *)

PostArrives ==
    /\ pc # "down" /\ arrived < NumSignals
    /\ Affordable(arrived + 1, disturbed, crashes, stopMoves)
    /\ arrived' = arrived + 1
    /\ UNCHANGED <<account, thread, open, rec, handled, manualQueue, journal, late, counters>>

AccountMoves ==
    /\ \/ /\ UNCHANGED counters
          /\ \/ \E i \in OrderIds : Fill(i) \/ CancelSettles(i)
             \/ \E c \in Contracts : LiquidationFills(c)
       \/ /\ Disturb
          /\ \/ \E i \in OrderIds : ExchangeRejects(i)
             \/ \E c \in Contracts : ClosedByHand(c)
    /\ UNCHANGED <<thread, memory, journal, late>>

CloseApproaches ==
    /\ ~late
    /\ late' = TRUE
    /\ UNCHANGED <<account, thread, memory, journal, counters>>

\* The hours between 15:55 and midnight hold thousands of ticks: the bot is
\* between two of them, or down, when the date changes.
NextSession ==
    /\ late /\ pc \in {"idle", "down"}
    /\ days < MaxDays
    /\ days' = days + 1
    /\ late' = FALSE
    /\ OrdersExpire
    /\ UNCHANGED <<thread, memory, journal, disturbed, crashes, stopMoves>>

Tick ==
    \/ StartTick \/ HandlePosts \/ HandleManualCloses \/ FlattenAtClose
    \/ AdvancePositions \/ ClosePosition \/ ReconcilePositions

Next ==
    \/ Tick
    \/ \E s \in Signals : RequestManualClose(s)
    \/ Crash \/ Restart
    \/ PostArrives \/ AccountMoves \/ CloseApproaches \/ NextSession

Spec == Init /\ [][Next]_vars

\* The orchestrator thread keeps running (run() loops until shutdown and tick()
\* swallows what its stages raise), and a market order the exchange does not
\* reject fills in the end.  Nothing is assumed of stops, limit orders, users,
\* posts, the clock or restarts.
MarketOrderFills(i) ==
    /\ orders[i].kind \in {"exit", "manual"}
    /\ Fill(i)
    /\ UNCHANGED <<thread, memory, journal, late, counters>>

LiquidationOrderFills(c) ==
    /\ LiquidationFills(c)
    /\ UNCHANGED <<thread, memory, journal, late, counters>>

Fairness ==
    /\ WF_vars(Tick)
    /\ \A i \in OrderIds : WF_vars(MarketOrderFills(i))
    /\ \A c \in Contracts : WF_vars(LiquidationOrderFills(c))

FairSpec == Spec /\ Fairness

-----------------------------------------------------------------------------
(* Safety. *)

\* No call failed, nothing was rejected or closed by hand, the process lived.
Undisturbed == disturbed = 0 /\ crashes = 0

\* A signal never gets a second trades row, however closes by the strategy, the
\* flatten, "Sell now" and the reconciliation interleave with failing calls and
\* restarts.  The trades table has no unique key on signal_id: only the order
\* in which the row is written and the record dropped protects it.
OneTradeRow == \A s \in Signals : Len(trades[s]) <= 1

\* The signals whose entry order has filled.
Bought == {s \in Signals : \E i \in OrderIds :
                Filled(i) /\ orders[i].kind = "entry" /\ orders[i].owner = s}

Ledger == INSTANCE TradeLedger WITH bought <- Bought

\* The journal keeps its promise, whatever fails, dies or is adopted again in between:
\* the account buys a signal once, the flag is written for a bought signal that is not
\* booked yet, and a trades row is written once, for a signal that was bought.
Implements == Ledger!Spec

\* Between two ticks of a session a tracked position that is not being sold by hand
\* has its protective stop on the book, or the stop has filled and waits to be booked:
\* no path through modify_stop leaves the record with a dead stop unless a call
\* failed or the process died.  (Stops are DAY orders.)
ProtectedBetweenTicks ==
    pc = "idle" /\ Undisturbed /\ days = 0 => \A s \in open :
        ~rec[s].closing => Live(rec[s].stop) \/ Filled(rec[s].stop)

\* Unless a call fails or the process dies, a trade the user closed with "Sell
\* now" is never booked as an external close at the entry price: the
\* reconciliation defers to the sell in flight.
ManualNeverExternal ==
    Undisturbed => \A s \in Signals : \A k \in 1 .. Len(trades[s]) :
        trades[s][k] = "external_close" =>
            \A i \in OrderIds : ~(orders[i].kind = "manual" /\ orders[i].owner = s
                                  /\ orders[i].status # "unused")

\* Every entry on the contract that filled has its trades row.
AllBooked(c) ==
    \A i \in OrderIds :
        Filled(i) /\ orders[i].kind = "entry" /\ orders[i].contract = c
            => trades[orders[i].owner] # <<>>

\* Between two ticks of a session, and unless a call failed or the process died,
\* contracts that are held although every trade on them is booked are on their way
\* out: some sell order for them is live, or the flatten is liquidating them.  A booked
\* close is forgotten by the bot, so nothing else would ever sell them.
BookedMeansLeaving ==
    pc = "idle" /\ Undisturbed /\ days = 0 => \A c \in Contracts :
        AllBooked(c) /\ net[c] > 0 =>
            \/ \E i \in LiveOrders : orders[i].contract = c /\ orders[i].delta < 0
            \/ liquidation[c] < 0

\* No order on the signal's contract is for another signal.
HasContractAlone(s) ==
    \A i \in OrderIds :
        orders[i].status # "unused" /\ orders[i].contract = ContractOf[s]
            => orders[i].owner = s

\* Unless a call fails, what is held for a taken signal without a trades row is
\* tracked once the process is up again, in whatever tick or session it died, if no
\* other signal shares the contract.
AdoptedAfterRestart ==
    disturbed = 0 /\ pc \notin {"down"} \union EntryPoints => \A s \in Signals :
        Unclosed(s) /\ HasContractAlone(s) /\ net[ContractOf[s]] > 0 => s \in open

\* While the market sell of a manual close is pending, no step but the 15:55
\* flatten sends another order for the position: neither the ratchet (a stop
\* behind a sell would short the contract) nor the strategy's exit.
ManualSellLeftAlone ==
    [][\A s \in Signals :
         rec[s].manual # NoOrder /\ lastOrder' # lastOrder /\ orders'[lastOrder'].owner = s
            => flattening]_vars

-----------------------------------------------------------------------------
(* Liveness. *)

\* A position flagged by "Sell now" leaves the book or gets its flag back, unless the
\* exchange rejects the sell or lets it expire: the poll waits for a fill and for
\* nothing else, so a dead sell leaves the position to the flatten.
ManualDead(s) == rec[s].manual # NoOrder /\ orders[rec[s].manual].status = "dead"
ManualCloseResolved ==
    \A s \in Signals :
        (s \in open /\ rec[s].closing)
            ~> (s \notin open \/ ~rec[s].closing \/ ManualDead(s))

\* After 15:55 the book empties, even if calls fail on the way.
BookEmptiesAtClose == late ~> (open = {} \/ ~late)

\* If 15:55 comes every day, and unless a call fails or the process dies, every taken
\* signal gets its trades row, whoever closes it: the strategy, the flatten, the
\* user, the stop or the reconciliation.
TakenGetsBooked ==
    WF_vars(CloseApproaches) =>
        \A s \in Signals :
            taken[s] ~> (trades[s] # <<>> \/ disturbed > 0 \/ crashes > 0)

-----------------------------------------------------------------------------
(* What the repository says and the code does not do. *)

\* executor.py, OpenPosition.qty: "positive long, negative short (we are
\* long-only)".
LongOnly == \A c \in Contracts : net[c] >= 0
=============================================================================
