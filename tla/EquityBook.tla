----------------------------- MODULE EquityBook -----------------------------
(***************************************************************************)
(* The scanner's equity book (x_alpaca_trading_bot/main.py): the life of   *)
(* an EquityPositionRecord from the event on _scanner_signal_queue to the  *)
(* scanner_trades row that closes it, with the startup reconciliation.     *)
(*                                                                         *)
(* The stages of tick() that do not touch the book are left out.  A price  *)
(* is abstract: the local stop backup is a choice, the 60 minutes of the   *)
(* hold elapse at any time.  An event of the scanner reaches the queue     *)
(* once (scanner_events has the same unique key as scanner_trades), so     *)
(* insert_scanner_trade never meets its own key.                           *)
(***************************************************************************)
EXTENDS Broker, FiniteSets

CONSTANTS
    NumEvents,      \* bound: the scanner events that arrive
    TickerOf,       \* the ticker an event names
    MaxShorts,      \* Config.scanner_max_concurrent
    Budgets         \* bound: what may happen together in one behaviour

Events == 1 .. NumEvents

ASSUME EquityAssumption ==
    /\ NumEvents \in Nat
    /\ TickerOf \in [Events -> Contracts]
    /\ Events \subseteq Owners
    /\ MaxShorts \in Nat
    /\ Budgets \subseteq [events : Nat, disturbed : Nat, crashes : Nat, days : Nat]

VARIABLES
    pc,             \* where the orchestrator thread is
    cur,            \* the event the current handler works on, 0 for none
    oid,            \* the order it waits for, or the stop it has placed
    todo,           \* what is left of the loop the thread is in
    loop,           \* which loop called _close_equity_position
    tracked,        \* the events of _equity_positions
    rec,            \* event -> the mutable part of its EquityPositionRecord
    due,            \* the events whose 60 minutes are over
    arrived,        \* events the scanner thread put on the queue
    handled,        \* events taken off it
    seenShort,      \* alpaca_short_qty, as the startup read it
    row,            \* event -> its scanner_trades row
    rowStop,        \* event -> the row's stop_order_id
    deferred,       \* the startup gave up before it looked at the rows
    late,           \* it is 15:55 ET or later
    disturbed, crashes, days    \* what the bounds count

thread == <<pc, cur, oid, todo, loop>>
memory == <<tracked, rec, due, arrived, handled, seenShort>>
journal == <<row, rowStop, deferred>>
counters == <<disturbed, crashes, days>>
vars == <<account, thread, memory, journal, late, counters>>

EntryPoints == {"entryWait", "entryCancel", "entryStop", "entryInsert"}
ClosePoints == {"closeCancel", "closeBuy", "closeWait"}
RestartPoints == {"restartCover", "restartWait", "restartOrphan"}
PCs == {"down", "startup", "reconcile", "idle", "signals", "clock", "advance",
        "flatten", "flattenAll", "cancelAll", "closeAll"}
       \union EntryPoints \union ClosePoints \union RestartPoints

Record == [stop : OrderRefs, exit : OrderRefs]
NoRecord == [stop |-> NoOrder, exit |-> NoOrder]

Ledger == INSTANCE ShortLedger WITH Events <- Events, row <- row

TypeOK ==
    /\ AccountTypeOK
    /\ pc \in PCs
    /\ cur \in Events \union {0}
    /\ oid \in OrderRefs
    /\ todo \in SUBSET Events
    /\ loop \in {"advance", "flatten"}
    /\ tracked \in SUBSET Events
    /\ rec \in [Events -> Record]
    /\ due \in SUBSET Events
    /\ arrived \in 0 .. NumEvents
    /\ handled \in 0 .. arrived
    /\ seenShort \in SUBSET Contracts
    /\ Ledger!TypeOK
    /\ rowStop \in [Events -> OrderRefs]
    /\ deferred \in BOOLEAN /\ late \in BOOLEAN
    /\ disturbed \in Nat /\ crashes \in Nat /\ days \in Nat

Init ==
    /\ AccountInit
    /\ pc = "idle" /\ cur = 0 /\ oid = NoOrder /\ todo = {} /\ loop = "advance"
    /\ tracked = {} /\ rec = [e \in Events |-> NoRecord] /\ due = {}
    /\ arrived = 0 /\ handled = 0 /\ seenShort = {}
    /\ row = [e \in Events |-> "none"]
    /\ rowStop = [e \in Events |-> NoOrder]
    /\ deferred = FALSE /\ late = FALSE
    /\ disturbed = 0 /\ crashes = 0 /\ days = 0

-----------------------------------------------------------------------------
(* Shared steps. *)

Goto(here, there) ==
    /\ pc = here /\ pc' = there
    /\ UNCHANGED <<account, cur, oid, todo, loop, memory, journal, late, counters>>

StartLoop(here, there, events) ==
    /\ pc = here /\ pc' = there
    /\ todo' = events
    /\ UNCHANGED <<account, cur, oid, loop, memory, journal, late, counters>>

\* Some budget pays for so many events, failing calls (or rejected orders, or hand
\* closes), deaths of the process and sessions that reach their close.
Affordable(events, failures, deaths, closes) ==
    \E b \in Budgets : /\ events <= b.events /\ failures <= b.disturbed
                       /\ deaths <= b.crashes /\ closes <= b.days

\* The session that has reached its close counts.
Closes == IF late THEN days + 1 ELSE days

Disturb ==
    /\ Affordable(arrived, disturbed + 1, crashes, Closes)
    /\ disturbed' = disturbed + 1
    /\ UNCHANGED <<crashes, days>>

\* Executor.cancel_order: whatever goes wrong is logged and swallowed.
CancelOrder(i) ==
    \/ CancelRequested(i) /\ UNCHANGED counters
    \/ Disturb /\ UNCHANGED orders

\* The loop goes on with its next event.
NextInLoop(there) == pc' = there /\ cur' = 0

-----------------------------------------------------------------------------
(* Stage 1d: _drain_scanner_signal_queue and _handle_scanner_signal. *)

StartTick == Goto("idle", "signals")

\* The switch is off, evaluate_entry or a kill switch rejects the event, there
\* is no price, or a share is dearer than the notional.
RejectSignal ==
    /\ pc = "signals" /\ handled < arrived
    /\ handled' = handled + 1
    /\ UNCHANGED <<account, thread, tracked, rec, due, arrived, seenShort, journal, late,
                   counters>>

\* What evaluate_entry asks of the book and of the clock: an event is traded until ten
\* minutes after its failure, which lies before 10:30 ET.
RoomFor(e) ==
    /\ ~late
    /\ \A t \in tracked : TickerOf[t] # TickerOf[e]
    /\ Cardinality(tracked) < MaxShorts

SellShort ==
    /\ pc = "signals" /\ handled < arrived
    /\ RoomFor(handled + 1)
    /\ handled' = handled + 1
    /\ cur' = handled + 1
    /\ Submit("entry", handled + 1, TickerOf[handled + 1], -1)
    /\ oid' = NextId
    /\ pc' = "entryWait"
    /\ UNCHANGED <<net, liquidation, todo, loop, tracked, rec, due, arrived, seenShort,
                   journal, late, counters>>

\* submit_market_sell raised: "entry rejected by broker", never retried.
SellShortRaises ==
    /\ pc = "signals" /\ handled < arrived
    /\ RoomFor(handled + 1)
    /\ Disturb
    /\ handled' = handled + 1
    /\ SubmitRaises("entry", handled + 1, TickerOf[handled + 1], -1)
    /\ UNCHANGED <<net, liquidation, thread, tracked, rec, due, arrived, seenShort,
                   journal, late>>

EntryFilled == Filled(oid) /\ Goto("entryWait", "entryStop")

EntryNotFilled == ~Filled(oid) /\ Goto("entryWait", "entryCancel")

\* "entry unfilled; canceled": it may have filled since wait_for_fill looked.
CancelEntry ==
    /\ pc = "entryCancel"
    /\ CancelOrder(oid)
    /\ pc' = "signals" /\ cur' = 0 /\ oid' = NoOrder
    /\ UNCHANGED <<lastOrder, net, liquidation, todo, loop, memory, journal, late>>

PlaceStop ==
    /\ pc = "entryStop"
    /\ Submit("stop", cur, TickerOf[cur], 1)
    /\ oid' = NextId
    /\ pc' = "entryInsert"
    /\ UNCHANGED <<net, liquidation, cur, todo, loop, memory, journal, late, counters>>

\* submit_stop_buy raised: the position relies on the local stop backup.
PlaceStopRaises ==
    /\ pc = "entryStop"
    /\ Disturb
    /\ SubmitRaises("stop", cur, TickerOf[cur], 1)
    /\ oid' = NoOrder
    /\ pc' = "entryInsert"
    /\ UNCHANGED <<net, liquidation, cur, todo, loop, memory, journal, late>>

\* insert_scanner_trade, then _equity_positions[ticker] = record.
TrackShort ==
    /\ pc = "entryInsert"
    /\ row' = [row EXCEPT ![cur] = "open"]
    /\ rowStop' = [rowStop EXCEPT ![cur] = oid]
    /\ tracked' = tracked \union {cur}
    /\ rec' = [rec EXCEPT ![cur] = [stop |-> oid, exit |-> NoOrder]]
    /\ pc' = "signals" /\ cur' = 0 /\ oid' = NoOrder
    /\ UNCHANGED <<account, todo, loop, due, arrived, handled, seenShort, deferred, late,
                   counters>>

\* wait_for_fill or the insert raised: "scanner signal handling failed".  The
\* short, if there is one, is neither tracked nor journalled.
SignalHandlingFails ==
    /\ pc \in {"entryWait", "entryInsert"}
    /\ Disturb
    /\ pc' = "signals" /\ cur' = 0 /\ oid' = NoOrder
    /\ UNCHANGED <<account, todo, loop, memory, journal, late>>

SignalsDrained == handled = arrived /\ Goto("signals", "clock")

HandleSignals ==
    \/ RejectSignal \/ SellShort \/ SellShortRaises
    \/ EntryFilled \/ EntryNotFilled \/ CancelEntry
    \/ PlaceStop \/ PlaceStopRaises \/ TrackShort \/ SignalHandlingFails
    \/ SignalsDrained

-----------------------------------------------------------------------------
(* Stage 2: the 15:55 flatten. *)

\* Faulty variant: a record with a cover in flight is done with.
BeforeCloseSkipsParked ==
    ~late /\ StartLoop("clock", "advance", {e \in tracked : rec[e].exit = NoOrder})

BeforeClose == ~late /\ StartLoop("clock", "advance", tracked)

StartFlatten == late /\ StartLoop("clock", "flatten", tracked)

\* A cover is in flight already.
FlattenSkips(e) ==
    /\ pc = "flatten" /\ e \in todo
    /\ rec[e].exit # NoOrder
    /\ todo' = todo \ {e}
    /\ UNCHANGED <<account, pc, cur, oid, loop, memory, journal, late, counters>>

FlattenOne(e) ==
    /\ pc = "flatten" /\ e \in todo
    /\ rec[e].exit = NoOrder
    /\ pc' = "closeCancel" /\ cur' = e /\ todo' = todo \ {e} /\ loop' = "flatten"
    /\ UNCHANGED <<account, oid, memory, journal, late, counters>>

AllFlattened == todo = {} /\ Goto("flatten", "flattenAll")

\* _flatten_at_close returns early when the option book is empty and the account
\* has no open order.
NothingToFlatten ==
    /\ LiveOrders = {} /\ \A c \in Contracts : liquidation[c] = 0
    /\ Goto("flattenAll", "idle")

\* An order is open, or the option book is not empty.
FlattenAll == Goto("flattenAll", "cancelAll")

CancelAll ==
    /\ pc = "cancelAll"
    /\ CancelAllRequested
    /\ pc' = "closeAll"
    /\ UNCHANGED <<lastOrder, net, cur, oid, todo, loop, memory, journal, late, counters>>

CloseAll ==
    /\ pc = "closeAll"
    /\ CloseAllRequested
    /\ pc' = "idle"
    /\ UNCHANGED <<lastOrder, net, cur, oid, todo, loop, memory, journal, late, counters>>

\* tick() logs "close-time check failed; continuing" and goes on with stage 3.
FlattenFails ==
    /\ pc \in {"flattenAll", "cancelAll", "closeAll"}
    /\ Disturb
    /\ pc' = "advance" /\ todo' = tracked
    /\ UNCHANGED <<account, cur, oid, loop, memory, journal, late>>

FlattenAtClose ==
    \/ BeforeClose \/ StartFlatten \/ AllFlattened \/ NothingToFlatten \/ FlattenAll
    \/ CancelAll \/ CloseAll \/ FlattenFails
    \/ \E e \in Events : FlattenSkips(e) \/ FlattenOne(e)

-----------------------------------------------------------------------------
(* Stage 3b: _advance_equity_position for every tracked short. *)

\* _book_equity_close: the row first, the record after it.
Book(e, closed) ==
    /\ row' = [row EXCEPT ![e] = closed]
    /\ tracked' = tracked \ {e}
    /\ rec' = [rec EXCEPT ![e] = NoRecord]
    /\ due' = due \ {e}
    /\ UNCHANGED <<rowStop, deferred, arrived, handled, seenShort>>

\* The event is done with for this tick.
PassOver(e) ==
    /\ pc = "advance" /\ e \in todo
    /\ todo' = todo \ {e}
    /\ UNCHANGED <<account, pc, cur, oid, loop, late>>

\* Whatever order the record names as its way out has filled.
WayOut(e) == IF rec[e].exit # NoOrder THEN rec[e].exit ELSE rec[e].stop

\* The parked cover, or the protective stop, has filled.
BookFill(e) ==
    /\ PassOver(e)
    /\ Filled(WayOut(e))
    /\ Book(e, "priced")
    /\ UNCHANGED counters

\* Faulty variant: a failing UPDATE drops the record all the same.
LookFailsForgets(e) ==
    /\ PassOver(e)
    /\ WayOut(e) # NoOrder
    /\ Disturb
    /\ tracked' = tracked \ {e}
    /\ rec' = [rec EXCEPT ![e] = NoRecord]
    /\ UNCHANGED <<due, arrived, handled, seenShort, journal>>

\* get_order or close_scanner_trade raised: the record stays for the next tick.
LookFails(e) ==
    /\ PassOver(e)
    /\ WayOut(e) # NoOrder
    /\ Disturb
    /\ UNCHANGED <<memory, journal>>

\* A parked cover is polled for its fill and for nothing else.
CoverPending(e) ==
    /\ rec[e].exit # NoOrder /\ ~Filled(rec[e].exit)
    /\ PassOver(e)
    /\ UNCHANGED <<memory, journal, counters>>

Hold(e) ==
    /\ rec[e].exit = NoOrder /\ ~Filled(rec[e].stop)
    /\ e \notin due /\ ~late
    /\ PassOver(e)
    /\ UNCHANGED <<memory, journal, counters>>

\* eod_failsafe, time_exit, or stop_backup when no stop is resting.
StartCover(e) ==
    /\ pc = "advance" /\ e \in todo
    /\ rec[e].exit = NoOrder /\ ~Filled(rec[e].stop)
    /\ late \/ e \in due \/ rec[e].stop = NoOrder
    /\ pc' = "closeCancel" /\ cur' = e /\ todo' = todo \ {e} /\ loop' = "advance"
    /\ UNCHANGED <<account, oid, memory, journal, late, counters>>

AdvanceDone == todo = {} /\ Goto("advance", "idle")

AdvanceShorts ==
    \/ AdvanceDone
    \/ \E e \in Events : \/ BookFill(e) \/ LookFails(e) \/ CoverPending(e)
                         \/ Hold(e) \/ StartCover(e)

-----------------------------------------------------------------------------
(* _close_equity_position, called by stage 3b and by the flatten. *)

CancelStopForCover ==
    /\ pc = "closeCancel"
    /\ CancelOrder(rec[cur].stop)
    /\ rec' = [rec EXCEPT ![cur].stop = NoOrder]
    /\ pc' = "closeBuy"
    /\ UNCHANGED <<lastOrder, net, liquidation, cur, oid, todo, loop, tracked, due, arrived,
                   handled, seenShort, journal, late>>

\* Faulty variant: exit_order_id is set when the fill is seen.
SubmitCoverNotNoted ==
    /\ pc = "closeBuy"
    /\ Submit("exit", cur, TickerOf[cur], 1)
    /\ NextInLoop(loop)
    /\ UNCHANGED <<net, liquidation, oid, todo, loop, memory, journal, late, counters>>

SubmitCover ==
    /\ pc = "closeBuy"
    /\ Submit("exit", cur, TickerOf[cur], 1)
    /\ rec' = [rec EXCEPT ![cur].exit = NextId]
    /\ pc' = "closeWait"
    /\ UNCHANGED <<net, liquidation, cur, oid, todo, loop, tracked, due, arrived, handled,
                   seenShort, journal, late, counters>>

\* Nothing is noted, so the next tick submits again.
SubmitCoverRaises ==
    /\ pc = "closeBuy"
    /\ Disturb
    /\ SubmitRaises("exit", cur, TickerOf[cur], 1)
    /\ NextInLoop(loop)
    /\ UNCHANGED <<net, liquidation, oid, todo, loop, memory, journal, late>>

BookCover ==
    /\ pc = "closeWait"
    /\ Filled(rec[cur].exit)
    /\ Book(cur, "priced")
    /\ NextInLoop(loop)
    /\ UNCHANGED <<account, oid, todo, loop, late, counters>>

\* Faulty variant: a slow cover is forgotten so that the next tick tries again.
ParkCoverForgets ==
    /\ pc = "closeWait"
    /\ IF Filled(rec[cur].exit) THEN Disturb ELSE UNCHANGED counters
    /\ rec' = [rec EXCEPT ![cur].exit = NoOrder]
    /\ NextInLoop(loop)
    /\ UNCHANGED <<account, oid, todo, loop, tracked, due, arrived, handled, seenShort,
                   journal, late>>

\* "cover slow to fill": parked for the next tick, as it is when wait_for_fill or
\* the UPDATE raises.
ParkCover ==
    /\ pc = "closeWait"
    /\ IF Filled(rec[cur].exit) THEN Disturb ELSE UNCHANGED counters
    /\ NextInLoop(loop)
    /\ UNCHANGED <<account, oid, todo, loop, memory, journal, late>>

CloseShort ==
    \/ CancelStopForCover \/ SubmitCover \/ SubmitCoverRaises \/ BookCover \/ ParkCover

-----------------------------------------------------------------------------
(* Death of the process and _reconcile_scanner_trades_on_startup. *)

Crash ==
    /\ pc # "down"
    /\ Affordable(arrived, disturbed, crashes + 1, Closes)
    /\ crashes' = crashes + 1
    /\ pc' = "down" /\ cur' = 0 /\ oid' = NoOrder /\ todo' = {} /\ loop' = "advance"
    /\ tracked' = {} /\ rec' = [e \in Events |-> NoRecord] /\ due' = {}
    /\ handled' = arrived /\ seenShort' = {} /\ deferred' = FALSE
    /\ UNCHANGED <<account, arrived, row, rowStop, late, disturbed, days>>

Restart == Goto("down", "startup")

\* Faulty variant: the query does not ask for closed_at IS NULL.
RowsOpenOrNot == {e \in Events : row[e] # "none"}

\* open_scanner_trades.
OpenRows == {e \in Events : row[e] = "open"}

\* Faulty variant: the sign of qty is taken the wrong way round.
LongContracts == {c \in Contracts : net[c] > 0}

\* alpaca_short_qty.
ShortContracts == {c \in Contracts : net[c] < 0}

ReadOpenRows ==
    /\ pc = "startup" /\ pc' = "reconcile"
    /\ todo' = OpenRows
    /\ seenShort' = ShortContracts
    /\ UNCHANGED <<account, cur, oid, loop, tracked, rec, due, arrived, handled, journal,
                   late, counters>>

\* The query or list_open_positions raised: "deferring scanner reconcile".
DeferReconcile ==
    /\ pc = "startup" /\ pc' = "idle"
    /\ Disturb
    /\ deferred' = TRUE
    /\ UNCHANGED <<account, cur, oid, todo, loop, memory, row, rowStop, late>>

CancelRowStop(e) ==
    /\ pc = "reconcile" /\ e \in todo
    /\ CancelOrder(rowStop[e])
    /\ pc' = IF TickerOf[e] \in seenShort THEN "restartCover" ELSE "restartOrphan"
    /\ cur' = e /\ todo' = todo \ {e}
    /\ UNCHANGED <<lastOrder, net, liquidation, oid, loop, memory, journal, late>>

CoverOnRestart ==
    /\ pc = "restartCover"
    /\ Submit("exit", cur, TickerOf[cur], 1)
    /\ oid' = NextId
    /\ pc' = "restartWait"
    /\ UNCHANGED <<net, liquidation, cur, todo, loop, memory, journal, late, counters>>

\* restart_close with the price of the fill, or without one when the wait timed
\* out; orphan_on_restart without one.
CloseRow ==
    /\ pc \in {"restartWait", "restartOrphan"}
    /\ \E closed \in {"priced", "unpriced"} :
           /\ closed = "priced" => pc = "restartWait" /\ Filled(oid)
           /\ row' = [row EXCEPT ![cur] = closed]
    /\ oid' = NoOrder
    /\ NextInLoop("reconcile")
    /\ UNCHANGED <<account, todo, loop, memory, rowStop, deferred, late, counters>>

\* Nothing catches what the cover, the wait or the UPDATE raises: the orchestrator's
\* thread ends, and the process goes on as an API without it until someone restarts it.
StartupCrashes ==
    /\ pc \in RestartPoints
    /\ Disturb
    /\ IF pc = "restartCover"
       THEN SubmitRaises("exit", cur, TickerOf[cur], 1)
       ELSE UNCHANGED <<orders, lastOrder>>
    /\ pc' = "down" /\ cur' = 0 /\ oid' = NoOrder /\ todo' = {} /\ seenShort' = {}
    /\ UNCHANGED <<net, liquidation, loop, tracked, rec, due, arrived, handled, journal, late>>

ReconcileDone == todo = {} /\ Goto("reconcile", "idle")

ReconcileOnStartup ==
    \/ ReadOpenRows \/ DeferReconcile \/ CoverOnRestart \/ CloseRow \/ StartupCrashes
    \/ ReconcileDone
    \/ \E e \in Events : CancelRowStop(e)

-----------------------------------------------------------------------------
(* What moves on its own. *)

Reconciling == pc \in {"down", "startup", "reconcile"} \union RestartPoints

\* The scanner thread starts once the startup is over.
EventArrives ==
    /\ ~Reconciling
    /\ arrived < NumEvents /\ Affordable(arrived + 1, disturbed, crashes, Closes)
    /\ arrived' = arrived + 1
    /\ UNCHANGED <<account, thread, tracked, rec, due, handled, seenShort, journal, late,
                   counters>>

HoldElapses ==
    /\ \E e \in tracked \ due : due' = due \union {e}
    /\ UNCHANGED <<account, thread, tracked, rec, arrived, handled, seenShort, journal, late,
                   counters>>

AccountMoves ==
    /\ \/ /\ UNCHANGED counters
          /\ \/ \E i \in OrderIds : Fill(i) \/ CancelSettles(i)
             \/ \E c \in Contracts : LiquidationFills(c)
       \/ /\ Disturb
          /\ \/ \E i \in OrderIds : ExchangeRejects(i)
             \/ \E c \in Contracts : ClosedByHand(c)
    /\ UNCHANGED <<thread, memory, journal, late>>

\* The last session of the bound stays open: thousands of ticks follow it.  The hold
\* of an entry made in the morning is over long before 15:55.
CloseApproaches ==
    /\ ~late /\ Affordable(arrived, disturbed, crashes, days + 1)
    /\ tracked \subseteq due
    /\ late' = TRUE
    /\ UNCHANGED <<account, thread, memory, journal, counters>>

NextSession ==
    /\ late /\ pc \in {"idle", "down"}
    /\ days' = days + 1
    /\ late' = FALSE
    /\ OrdersExpire
    /\ UNCHANGED <<thread, memory, journal, disturbed, crashes>>

Tick == StartTick \/ HandleSignals \/ FlattenAtClose \/ AdvanceShorts \/ CloseShort

Next ==
    \/ Tick \/ ReconcileOnStartup
    \/ Crash \/ Restart
    \/ EventArrives \/ HoldElapses \/ AccountMoves \/ CloseApproaches \/ NextSession

Spec == Init /\ [][Next]_vars

\* The thread keeps running, market orders fill unless they are cancelled or
\* rejected, and 60 minutes, 15:55 and midnight pass.  Nothing is assumed of restarts:
\* systemd does not see a thread that ended.
MarketOrderFills(i) ==
    /\ orders[i].kind = "exit"
    /\ Fill(i)
    /\ UNCHANGED <<thread, memory, journal, late, counters>>

LiquidationOrderFills(c) ==
    /\ LiquidationFills(c)
    /\ UNCHANGED <<thread, memory, journal, late, counters>>

Fairness ==
    /\ WF_vars(Tick \/ ReconcileOnStartup)
    /\ \A i \in OrderIds : WF_vars(MarketOrderFills(i))
    /\ \A c \in Contracts : WF_vars(LiquidationOrderFills(c))
    /\ WF_vars(HoldElapses) /\ WF_vars(CloseApproaches) /\ SF_vars(NextSession)

OperatedSpec == Spec /\ Fairness

-----------------------------------------------------------------------------
(* Safety. *)

\* The table keeps its promise: a row is opened once, closed once, and never
\* written again, whatever raises or dies between the fill and the UPDATE.
Implements == Ledger!Spec

\* The book and the journal never disagree: while the process runs, the open
\* rows are the tracked shorts, or what the startup still has to close; a call
\* that raises half-way through a close leaves both or neither.  Only a startup
\* that gave up before reading leaves rows nobody tracks.
RowsTracked == ~Reconciling /\ ~deferred => OpenRows = tracked

\* While no call fails, a tracked short has a stop that works or has filled, or a
\* cover on its way, whenever the thread is between two ticks of the session.
ShortsProtected ==
    pc = "idle" /\ disturbed = 0 /\ days = 0 => \A e \in tracked :
        rec[e].exit # NoOrder \/ Live(rec[e].stop) \/ Filled(rec[e].stop)

\* While no call fails and the process does not die, a short is covered by one
\* market order at most, however slowly it fills: the parked cover is polled by
\* later ticks, and the flatten leaves it alone.
CoveredOnce ==
    disturbed = 0 /\ crashes = 0 => \A i, j \in OrderIds :
        /\ orders[i].kind = "exit" /\ orders[i].status # "unused"
        /\ orders[j].kind = "exit" /\ orders[j].status # "unused"
        /\ orders[i].owner = orders[j].owner
        => i = j

\* While no call fails, a ticker whose rows are all closed is, between two ticks of
\* the session, not short any more, or a buy order for it is on its way: also when
\* the startup closed the row without waiting for the fill.  (After 15:55 that takes
\* that the process has died once at most: the flatten cancels the cover of a row that
\* is closed, and a second death before it has closed the positions leaves the account
\* without an order and the next startup without a row.)
ClosedIsCovered ==
    pc = "idle" /\ disturbed = 0 /\ days = 0 /\ (crashes <= 1 \/ ~late) => \A e \in Events :
        row[e] \in {"priced", "unpriced"} /\ net[TickerOf[e]] < 0 =>
            \/ liquidation[TickerOf[e]] > 0
            \/ \E t \in Events : TickerOf[t] = TickerOf[e] /\ row[t] \in {"none", "open"}
            \/ \E i \in LiveOrders : orders[i].contract = TickerOf[e] /\ orders[i].delta > 0

\* Liveness: a tracked short leaves the book, at the latest in the session after
\* (no fill is polled from 15:55 on), or its cover is dead: one that was cancelled
\* or rejected is the one thing the book never recovers from.
CoverDead(e) == rec[e].exit # NoOrder /\ orders[rec[e].exit].status = "dead"
ShortLeavesBook ==
    \A e \in Events :
        e \in tracked ~> (e \notin tracked \/ CoverDead(e))

-----------------------------------------------------------------------------
(* What the repository says and the code does not do. *)

\* tick(): equity shorts get their own bookkeeping before the flatten, "which
\* would close the shorts on Alpaca's side and leave their journal rows dangling
\* open": an open row is closed in the end.
NoDanglingRow ==
    \A e \in Events : row[e] = "open" ~> row[e] # "open"
=============================================================================
