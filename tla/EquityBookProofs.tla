-------------------------- MODULE EquityBookProofs --------------------------
(***************************************************************************)
(* Theorems about EquityBook, for every number of events, tickers, orders, *)
(* failing calls, crashes and sessions.                                    *)
(***************************************************************************)
EXTENDS EquityBook, BrokerProofs, FiniteSetTheorems

(* The inductive invariant.  RowsTracked alone is not inductive: a close    *)
(* writes to the row of whatever the loop hands it, so the proof must know *)
(* that the loop only holds tracked shorts, or, on startup, open rows.     *)

\* An event that has not been taken off the queue has no trace.
FreshEvents ==
    \A e \in Events : e > handled => e \notin tracked /\ row[e] = "none"

\* The event a handler works on: untouched, tracked, or an open row.
CurrentEvent ==
    /\ pc \in EntryPoints =>
         cur \in Events /\ cur <= handled /\ cur \notin tracked /\ row[cur] = "none"
    /\ pc \in ClosePoints => cur \in tracked
    /\ pc \in RestartPoints => cur \in OpenRows

\* What is left of a loop is still there to be closed.
LoopOverShorts ==
    /\ pc \in {"advance", "flatten"} => todo \subseteq tracked
    /\ pc \in ClosePoints => todo \subseteq tracked \ {cur}
    /\ pc = "reconcile" => todo = OpenRows
    /\ pc \in RestartPoints => todo = OpenRows \ {cur}

TrackedAreOpen ==
    /\ tracked \subseteq OpenRows
    /\ Reconciling => tracked = {}

Rows ==
    /\ FreshEvents
    /\ CurrentEvent
    /\ LoopOverShorts
    /\ TrackedAreOpen
    /\ RowsTracked

IInv == TypeOK /\ Rows

-----------------------------------------------------------------------------
(* Types.  Only the account lemmas look inside an order. *)

LEMMA NextEvent ==
    ASSUME TypeOK, handled < arrived
    PROVE  handled + 1 \in Events /\ handled + 1 \in 0 .. arrived
BY EquityAssumption DEF TypeOK, Events

LEMMA GotoTyped ==
    ASSUME TypeOK, NEW here, NEW there \in PCs, Goto(here, there)
    PROVE  TypeOK'
BY DEF TypeOK, Ledger!TypeOK, AccountTypeOK, Goto, account, memory, journal, counters

LEMMA StartLoopTyped ==
    ASSUME TypeOK, NEW here, NEW there \in PCs, NEW events \in SUBSET Events,
           StartLoop(here, there, events)
    PROVE  TypeOK'
BY DEF TypeOK, Ledger!TypeOK, AccountTypeOK, StartLoop, account, memory, journal, counters

LEMMA SubmitForEvent ==
    ASSUME AccountTypeOK, NEW kind \in Kinds, NEW e \in Events, NEW delta \in Int,
           Submit(kind, e, TickerOf[e], delta), UNCHANGED <<net, liquidation>>
    PROVE  AccountTypeOK' /\ NextId \in OrderIds
<1>1. e \in Owners /\ TickerOf[e] \in Contracts
  BY EquityAssumption
<1>2. orders' \in [OrderIds -> Order] /\ lastOrder' \in 0 .. MaxOrders /\ NextId \in OrderIds
  BY <1>1, SubmitTyped
<1>3. QED BY <1>2 DEF AccountTypeOK

LEMMA SubmitForEventRaises ==
    ASSUME AccountTypeOK, NEW kind \in Kinds, NEW e \in Events, NEW delta \in Int,
           SubmitRaises(kind, e, TickerOf[e], delta), UNCHANGED <<net, liquidation>>
    PROVE  AccountTypeOK'
<1>1. e \in Owners /\ TickerOf[e] \in Contracts
  BY EquityAssumption
<1>2. orders' \in [OrderIds -> Order] /\ lastOrder' \in 0 .. MaxOrders
  BY <1>1, SubmitRaisesTyped
<1>3. QED BY <1>2 DEF AccountTypeOK

LEMMA CancelOrderTyped ==
    ASSUME TypeOK, NEW i, CancelOrder(i), UNCHANGED <<lastOrder, net, liquidation>>
    PROVE  /\ AccountTypeOK'
           /\ disturbed' \in Nat /\ crashes' \in Nat /\ days' \in Nat
<1>1. AccountTypeOK'
  BY CancelTyped DEF CancelOrder, AccountTypeOK, TypeOK
<1>2. disturbed' \in Nat /\ crashes' \in Nat /\ days' \in Nat
  BY DEF CancelOrder, Disturb, counters, TypeOK
<1>3. QED BY <1>1, <1>2

LEMMA DisturbTyped ==
    ASSUME TypeOK, Disturb
    PROVE  disturbed' \in Nat /\ crashes' \in Nat /\ days' \in Nat
BY DEF TypeOK, Disturb

LEMMA BookTyped ==
    ASSUME TypeOK, NEW e \in Events, Book(e, "priced")
    PROVE  /\ Ledger!TypeOK'
           /\ tracked' \in SUBSET Events
           /\ rec' \in [Events -> Record]
           /\ due' \in SUBSET Events
           /\ UNCHANGED <<rowStop, deferred, arrived, handled, seenShort>>
<1>1. NoRecord \in Record
  BY DEF NoRecord, Record, OrderRefs
<1>2. QED BY <1>1 DEF Book, TypeOK, Ledger!TypeOK, Ledger!Statuses

LEMMA HandleSignalsTyped == ASSUME IInv, HandleSignals PROVE TypeOK'
<1> USE EquityAssumption
<1> USE DEF IInv, Rows, TypeOK, Ledger!TypeOK, account, thread, memory, journal, counters
<1>1. CASE RejectSignal
  <2>1. handled' \in 0 .. arrived'
    BY <1>1, NextEvent DEF RejectSignal
  <2>2. QED BY <1>1, <2>1 DEF RejectSignal, AccountTypeOK
<1>2. CASE SellShort
  <2>1. handled + 1 \in Events /\ handled' \in 0 .. arrived'
    BY <1>2, NextEvent DEF SellShort
  <2>2. AccountTypeOK' /\ NextId \in OrderIds
    BY <1>2, <2>1, SubmitForEvent DEF SellShort, Kinds
  <2>3. QED BY <1>2, <2>1, <2>2 DEF SellShort, PCs, EntryPoints, OrderRefs
<1>3. CASE SellShortRaises
  <2>1. handled + 1 \in Events /\ handled' \in 0 .. arrived'
    BY <1>3, NextEvent DEF SellShortRaises
  <2>2. AccountTypeOK'
    BY <1>3, <2>1, SubmitForEventRaises DEF SellShortRaises, Kinds
  <2>3. disturbed' \in Nat /\ crashes' \in Nat /\ days' \in Nat
    BY <1>3, DisturbTyped DEF SellShortRaises
  <2>4. QED BY <1>3, <2>1, <2>2, <2>3 DEF SellShortRaises
<1>4. CASE EntryFilled
  BY <1>4, GotoTyped DEF EntryFilled, PCs, EntryPoints
<1>5. CASE EntryNotFilled
  BY <1>5, GotoTyped DEF EntryNotFilled, PCs, EntryPoints
<1>6. CASE CancelEntry
  BY <1>6, CancelOrderTyped DEF CancelEntry, PCs, OrderRefs
<1>7. CASE PlaceStop
  <2>1. cur \in Events
    BY <1>7 DEF PlaceStop, CurrentEvent, EntryPoints
  <2>2. AccountTypeOK' /\ NextId \in OrderIds
    BY <1>7, <2>1, SubmitForEvent DEF PlaceStop, Kinds
  <2>3. QED BY <1>7, <2>1, <2>2 DEF PlaceStop, PCs, EntryPoints, OrderRefs
<1>8. CASE PlaceStopRaises
  <2>1. cur \in Events
    BY <1>8 DEF PlaceStopRaises, CurrentEvent, EntryPoints
  <2>2. AccountTypeOK'
    BY <1>8, <2>1, SubmitForEventRaises DEF PlaceStopRaises, Kinds
  <2>3. disturbed' \in Nat /\ crashes' \in Nat /\ days' \in Nat
    BY <1>8, DisturbTyped DEF PlaceStopRaises
  <2>4. QED BY <1>8, <2>2, <2>3 DEF PlaceStopRaises, PCs, EntryPoints, OrderRefs
<1>9. CASE TrackShort
  <2>1. cur \in Events
    BY <1>9 DEF TrackShort, CurrentEvent, EntryPoints
  <2>2. rec' \in [Events -> Record]
    BY <1>9 DEF TrackShort, Record, OrderRefs
  <2>3. row' \in [Events -> Ledger!Statuses] /\ rowStop' \in [Events -> OrderRefs]
    BY <1>9 DEF TrackShort, Ledger!Statuses
  <2>4. QED BY <1>9, <2>1, <2>2, <2>3 DEF TrackShort, PCs, OrderRefs, AccountTypeOK
<1>10. CASE SignalHandlingFails
  BY <1>10, DisturbTyped DEF SignalHandlingFails, PCs, OrderRefs, AccountTypeOK
<1>11. CASE SignalsDrained
  BY <1>11, GotoTyped DEF SignalsDrained, PCs
<1>12. QED
  BY <1>1, <1>2, <1>3, <1>4, <1>5, <1>6, <1>7, <1>8, <1>9, <1>10, <1>11 DEF HandleSignals

LEMMA FlattenAtCloseTyped == ASSUME IInv, FlattenAtClose PROVE TypeOK'
<1> USE DEF IInv, Rows, TypeOK, Ledger!TypeOK, account, thread, memory, journal, counters
<1>1. CASE BeforeClose
  BY <1>1, StartLoopTyped DEF BeforeClose, PCs
<1>2. CASE StartFlatten
  BY <1>2, StartLoopTyped DEF StartFlatten, PCs
<1>3. CASE AllFlattened
  BY <1>3, GotoTyped DEF AllFlattened, PCs
<1>4. CASE NothingToFlatten
  BY <1>4, GotoTyped DEF NothingToFlatten, PCs
<1>5. CASE FlattenAll
  BY <1>5, GotoTyped DEF FlattenAll, PCs
<1>6. CASE CancelAll
  <2>1. AccountTypeOK'
    BY <1>6, CancelAllTyped DEF CancelAll, AccountTypeOK
  <2>2. QED BY <1>6, <2>1 DEF CancelAll, PCs
<1>7. CASE CloseAll
  <2>1. AccountTypeOK'
    BY <1>7, CloseAllTyped DEF CloseAll, AccountTypeOK
  <2>2. QED BY <1>7, <2>1 DEF CloseAll, PCs
<1>8. CASE FlattenFails
  BY <1>8, DisturbTyped DEF FlattenFails, PCs, AccountTypeOK
<1>9. ASSUME NEW e \in Events, FlattenSkips(e) PROVE TypeOK'
  BY <1>9 DEF FlattenSkips, AccountTypeOK
<1>10. ASSUME NEW e \in Events, FlattenOne(e) PROVE TypeOK'
  BY <1>10 DEF FlattenOne, PCs, ClosePoints, AccountTypeOK
<1>11. QED
  BY <1>1, <1>2, <1>3, <1>4, <1>5, <1>6, <1>7, <1>8, <1>9, <1>10 DEF FlattenAtClose

LEMMA AdvanceShortsTyped == ASSUME IInv, AdvanceShorts PROVE TypeOK'
<1> USE DEF IInv, Rows, TypeOK, Ledger!TypeOK, account, thread, memory, journal, counters
<1>1. CASE AdvanceDone
  BY <1>1, GotoTyped DEF AdvanceDone, PCs
<1>2. ASSUME NEW e \in Events, BookFill(e) PROVE TypeOK'
  BY <1>2, BookTyped DEF BookFill, PassOver, AccountTypeOK
<1>3. ASSUME NEW e \in Events, LookFails(e) PROVE TypeOK'
  BY <1>3, DisturbTyped DEF LookFails, PassOver, AccountTypeOK
<1>4. ASSUME NEW e \in Events, CoverPending(e) PROVE TypeOK'
  BY <1>4 DEF CoverPending, PassOver, AccountTypeOK
<1>5. ASSUME NEW e \in Events, Hold(e) PROVE TypeOK'
  BY <1>5 DEF Hold, PassOver, AccountTypeOK
<1>6. ASSUME NEW e \in Events, StartCover(e) PROVE TypeOK'
  BY <1>6 DEF StartCover, PCs, ClosePoints, AccountTypeOK
<1>7. QED
  BY <1>1, <1>2, <1>3, <1>4, <1>5, <1>6 DEF AdvanceShorts

LEMMA CloseShortTyped == ASSUME IInv, CloseShort PROVE TypeOK'
<1> USE DEF IInv, Rows, TypeOK, Ledger!TypeOK, account, thread, memory, journal, counters
<1>1. ASSUME pc \in ClosePoints PROVE cur \in Events /\ loop \in PCs
  BY <1>1 DEF CurrentEvent, PCs
<1>2. CASE CancelStopForCover
  <2>1. rec' \in [Events -> Record]
    BY <1>2 DEF CancelStopForCover, Record, OrderRefs
  <2>2. QED BY <1>2, <2>1, CancelOrderTyped DEF CancelStopForCover, PCs, ClosePoints
<1>3. CASE SubmitCover
  <2>1. cur \in Events
    BY <1>1, <1>3 DEF SubmitCover, ClosePoints
  <2>2. AccountTypeOK' /\ NextId \in OrderIds
    BY <1>3, <2>1, SubmitForEvent DEF SubmitCover, Kinds
  <2>3. rec' \in [Events -> Record]
    BY <1>3, <2>2 DEF SubmitCover, Record, OrderRefs
  <2>4. QED BY <1>3, <2>2, <2>3 DEF SubmitCover, PCs, ClosePoints
<1>4. CASE SubmitCoverRaises
  <2>1. AccountTypeOK'
    BY <1>1, <1>4, SubmitForEventRaises DEF SubmitCoverRaises, Kinds, ClosePoints
  <2>2. QED
    BY <1>1, <1>4, <2>1, DisturbTyped DEF SubmitCoverRaises, NextInLoop, ClosePoints
<1>5. CASE BookCover
  <2>1. cur \in Events /\ loop \in PCs
    BY <1>1, <1>5 DEF BookCover, ClosePoints
  <2>2. QED BY <1>5, <2>1, BookTyped DEF BookCover, NextInLoop, AccountTypeOK
<1>6. CASE ParkCover
  <2>1. disturbed' \in Nat /\ crashes' \in Nat /\ days' \in Nat
    BY <1>6, DisturbTyped DEF ParkCover
  <2>2. QED BY <1>1, <1>6, <2>1 DEF ParkCover, NextInLoop, ClosePoints, AccountTypeOK
<1>7. QED
  BY <1>2, <1>3, <1>4, <1>5, <1>6 DEF CloseShort

LEMMA ReconcileOnStartupTyped == ASSUME IInv, ReconcileOnStartup PROVE TypeOK'
<1> USE DEF IInv, Rows, TypeOK, Ledger!TypeOK, account, thread, memory, journal, counters
<1>1. ASSUME pc \in RestartPoints PROVE cur \in Events
  BY <1>1 DEF CurrentEvent, OpenRows
<1>2. CASE ReadOpenRows
  <2>1. todo' \in SUBSET Events /\ seenShort' \in SUBSET Contracts
    BY <1>2 DEF ReadOpenRows, OpenRows, ShortContracts
  <2>2. QED BY <1>2, <2>1 DEF ReadOpenRows, PCs, AccountTypeOK
<1>3. CASE DeferReconcile
  <2>1. deferred' \in BOOLEAN
    BY <1>3, Zenon DEF DeferReconcile
  <2>2. QED BY <1>3, <2>1, DisturbTyped DEF DeferReconcile, PCs, AccountTypeOK
<1>4. CASE CoverOnRestart
  <2>1. AccountTypeOK' /\ NextId \in OrderIds
    BY <1>1, <1>4, SubmitForEvent DEF CoverOnRestart, Kinds, RestartPoints
  <2>2. QED BY <1>4, <2>1 DEF CoverOnRestart, PCs, RestartPoints, OrderRefs
<1>5. CASE CloseRow
  <2>1. cur \in Events
    BY <1>1, <1>5 DEF CloseRow, RestartPoints
  <2>2. row' \in [Events -> Ledger!Statuses]
    BY <1>5, <2>1 DEF CloseRow, Ledger!Statuses
  <2>3. QED BY <1>5, <2>2 DEF CloseRow, NextInLoop, PCs, OrderRefs, AccountTypeOK
<1>6. CASE StartupCrashes
  <2>1. AccountTypeOK'
    <3>1. CASE pc = "restartCover"
      BY <1>1, <1>6, <3>1, SubmitForEventRaises DEF StartupCrashes, Kinds
    <3>2. CASE pc # "restartCover"
      BY <1>6, <3>2 DEF StartupCrashes, AccountTypeOK
    <3>3. QED BY <3>1, <3>2
  <2>2. QED BY <1>6, <2>1, DisturbTyped DEF StartupCrashes, PCs, OrderRefs
<1>7. CASE ReconcileDone
  BY <1>7, GotoTyped DEF ReconcileDone, PCs
<1>8. ASSUME NEW e \in Events, CancelRowStop(e) PROVE TypeOK'
  BY <1>8, CancelOrderTyped DEF CancelRowStop, PCs, RestartPoints
<1>9. QED
  BY <1>2, <1>3, <1>4, <1>5, <1>6, <1>7, <1>8 DEF ReconcileOnStartup

LEMMA SurroundingsTyped ==
    ASSUME IInv,
           Crash \/ Restart \/ EventArrives \/ HoldElapses \/ AccountMoves
             \/ CloseApproaches \/ NextSession
    PROVE  TypeOK'
<1> USE EquityAssumption
<1> USE DEF IInv, TypeOK, Ledger!TypeOK, account, thread, memory, journal, counters
<1>1. CASE Crash
  <2>1. NoRecord \in Record
    BY DEF NoRecord, Record, OrderRefs
  <2>2. deferred' \in BOOLEAN
    BY <1>1, Zenon DEF Crash
  <2>3. handled' \in 0 .. arrived'
    BY <1>1 DEF Crash
  <2>4. QED BY <1>1, <2>1, <2>2, <2>3 DEF Crash, PCs, OrderRefs, AccountTypeOK
<1>2. CASE Restart
  BY <1>2, GotoTyped DEF Restart, PCs
<1>3. CASE EventArrives
  BY <1>3 DEF EventArrives, AccountTypeOK
<1>4. CASE HoldElapses
  BY <1>4 DEF HoldElapses, AccountTypeOK
<1>5. CASE AccountMoves
  <2>1. AccountTypeOK'
    BY <1>5, AccountMoveTyped DEF AccountMoves
  <2>2. QED BY <1>5, <2>1, DisturbTyped DEF AccountMoves
<1>6. CASE CloseApproaches
  <2>1. late' \in BOOLEAN
    BY <1>6, Zenon DEF CloseApproaches
  <2>2. QED BY <1>6, <2>1 DEF CloseApproaches, AccountTypeOK
<1>7. CASE NextSession
  <2>1. late' \in BOOLEAN
    BY <1>7, Zenon DEF NextSession
  <2>2. AccountTypeOK'
    BY <1>7, AccountMoveTyped DEF NextSession
  <2>3. QED BY <1>7, <2>1, <2>2 DEF NextSession
<1>8. QED BY <1>1, <1>2, <1>3, <1>4, <1>5, <1>6, <1>7

LEMMA TypePreserved == ASSUME IInv, [Next]_vars PROVE TypeOK'
<1>1. CASE StartTick
  BY <1>1, GotoTyped DEF StartTick, PCs, IInv
<1>2. CASE UNCHANGED vars
  BY <1>2 DEF vars, IInv, TypeOK, Ledger!TypeOK, AccountTypeOK, account, thread, memory,
              journal, counters
<1>3. QED
  BY <1>1, <1>2, HandleSignalsTyped, FlattenAtCloseTyped, AdvanceShortsTyped,
     CloseShortTyped, ReconcileOnStartupTyped, SurroundingsTyped
  DEF Next, Tick

-----------------------------------------------------------------------------
(* The book and the rows. *)

\* Most steps leave the book and the rows alone: only their own place in the code
\* and their loop change.
LEMMA SameBook ==
    ASSUME Rows, UNCHANGED <<tracked, row, handled, deferred>>,
           Reconciling' = Reconciling
    PROVE  FreshEvents' /\ TrackedAreOpen' /\ RowsTracked' /\ OpenRows' = OpenRows
<1>1. OpenRows' = OpenRows
  BY DEF OpenRows
<1>2. FreshEvents' /\ TrackedAreOpen' /\ RowsTracked'
  BY <1>1 DEF Rows, FreshEvents, TrackedAreOpen, RowsTracked
<1>3. QED BY <1>1, <1>2

\* The row of a tracked event is closed and its record dropped.
LEMMA BookedRows ==
    ASSUME IInv, NEW e \in tracked, Book(e, "priced"), ~Reconciling, ~Reconciling'
    PROVE  /\ FreshEvents' /\ TrackedAreOpen' /\ RowsTracked'
           /\ tracked' = tracked \ {e}
<1>1. e \in Events /\ row' = [row EXCEPT ![e] = "priced"] /\ tracked' = tracked \ {e}
  BY DEF IInv, TypeOK, Book
<1>2. OpenRows' = OpenRows \ {e}
  BY <1>1 DEF OpenRows, IInv, TypeOK, Ledger!TypeOK
<1>3. FreshEvents'
  BY <1>1 DEF Book, IInv, Rows, FreshEvents, TypeOK, Ledger!TypeOK
<1>4. TrackedAreOpen' /\ RowsTracked'
  BY <1>1, <1>2 DEF Book, IInv, Rows, TrackedAreOpen, RowsTracked
<1>5. QED BY <1>1, <1>3, <1>4

LEMMA HandleSignalsRows == ASSUME IInv, HandleSignals PROVE Rows'
<1> USE DEF IInv, Rows, thread, memory, journal, EntryPoints, ClosePoints, RestartPoints,
            Reconciling
<1>1. CASE RejectSignal
  <2>1. FreshEvents'
    BY <1>1, EquityAssumption DEF RejectSignal, FreshEvents, Events, TypeOK
  <2>2. QED
    BY <1>1, <2>1 DEF RejectSignal, CurrentEvent, LoopOverShorts, TrackedAreOpen,
                      RowsTracked, OpenRows
<1>2. CASE SellShort
  <2>1. handled + 1 \in Events /\ handled + 1 \notin tracked /\ row[handled + 1] = "none"
    BY <1>2, NextEvent DEF SellShort, FreshEvents, TypeOK
  <2>2. FreshEvents'
    BY <1>2, EquityAssumption DEF SellShort, FreshEvents, Events, TypeOK
  <2>3. QED
    BY <1>2, <2>1, <2>2 DEF SellShort, CurrentEvent, LoopOverShorts, TrackedAreOpen,
                            RowsTracked, OpenRows, TypeOK
<1>3. CASE SellShortRaises
  <2>1. FreshEvents'
    BY <1>3, EquityAssumption DEF SellShortRaises, FreshEvents, Events, TypeOK
  <2>2. QED
    BY <1>3, <2>1 DEF SellShortRaises, CurrentEvent, LoopOverShorts, TrackedAreOpen,
                      RowsTracked, OpenRows
<1>4. CASE TrackShort
  <2>1. cur \in Events /\ cur <= handled
    BY <1>4 DEF TrackShort, CurrentEvent
  <2>2. OpenRows' = OpenRows \union {cur} /\ tracked' = tracked \union {cur}
    BY <1>4, <2>1 DEF TrackShort, OpenRows, TypeOK, Ledger!TypeOK
  <2>3. FreshEvents'
    <3>1. /\ handled' = handled /\ row \in [Events -> Ledger!Statuses]
          /\ \A e \in Events \ {cur} : row'[e] = row[e]
      BY <1>4, <2>1 DEF TrackShort, TypeOK, Ledger!TypeOK
    <3>2. handled \in Nat
      BY <1>4 DEF TypeOK
    <3>3. ASSUME NEW e \in Events, e > handled' PROVE e \notin tracked' /\ row'[e] = "none"
      <4>1. e > handled /\ e # cur
        BY <2>1, <3>1, <3>2, <3>3 DEF Events
      <4>2. QED BY <2>2, <3>1, <4>1 DEF FreshEvents
    <3>4. QED BY <3>3 DEF FreshEvents
  <2>4. QED
    BY <1>4, <2>2, <2>3 DEF TrackShort, CurrentEvent, LoopOverShorts, TrackedAreOpen,
                            RowsTracked
<1>5. CASE EntryFilled \/ EntryNotFilled \/ CancelEntry \/ PlaceStop \/ PlaceStopRaises
             \/ SignalHandlingFails \/ SignalsDrained
  <2>1. UNCHANGED <<tracked, row, handled, deferred>> /\ Reconciling' = Reconciling
    BY <1>5 DEF EntryFilled, EntryNotFilled, CancelEntry, PlaceStop, PlaceStopRaises,
                SignalHandlingFails, SignalsDrained, Goto
  <2>2. CurrentEvent' /\ LoopOverShorts'
    BY <1>5, <2>1 DEF EntryFilled, EntryNotFilled, CancelEntry, PlaceStop, PlaceStopRaises,
                SignalHandlingFails, SignalsDrained, Goto, CurrentEvent, LoopOverShorts
  <2>3. QED BY <2>1, <2>2, SameBook
<1>6. QED
  BY <1>1, <1>2, <1>3, <1>4, <1>5 DEF HandleSignals

LEMMA FlattenAtCloseRows == ASSUME IInv, FlattenAtClose PROVE Rows'
<1> USE DEF IInv, Rows, thread, memory, journal, EntryPoints, ClosePoints, RestartPoints,
            Reconciling
<1>1. ASSUME NEW e \in Events, FlattenSkips(e) \/ FlattenOne(e) PROVE Rows'
  <2>1. UNCHANGED <<tracked, row, handled, deferred>> /\ Reconciling' = Reconciling
    BY <1>1 DEF FlattenSkips, FlattenOne
  <2>2. CurrentEvent' /\ LoopOverShorts'
    BY <1>1 DEF FlattenSkips, FlattenOne, CurrentEvent, LoopOverShorts
  <2>3. QED BY <2>1, <2>2, SameBook
<1>2. ASSUME \/ BeforeClose \/ StartFlatten \/ AllFlattened \/ NothingToFlatten
             \/ FlattenAll \/ CancelAll \/ CloseAll \/ FlattenFails
      PROVE  Rows'
  <2>1. UNCHANGED <<tracked, row, handled, deferred>> /\ Reconciling' = Reconciling
    BY <1>2 DEF BeforeClose, StartFlatten, AllFlattened, NothingToFlatten, FlattenAll,
                CancelAll, CloseAll, FlattenFails, Goto, StartLoop
  <2>2. CurrentEvent' /\ LoopOverShorts'
    BY <1>2 DEF BeforeClose, StartFlatten, AllFlattened, NothingToFlatten, FlattenAll,
                CancelAll, CloseAll, FlattenFails, Goto, StartLoop,
                CurrentEvent, LoopOverShorts
  <2>3. QED BY <2>1, <2>2, SameBook
<1>3. QED BY <1>1, <1>2 DEF FlattenAtClose

LEMMA AdvanceShortsRows == ASSUME IInv, AdvanceShorts PROVE Rows'
<1> USE DEF IInv, Rows, thread, memory, journal, EntryPoints, ClosePoints, RestartPoints,
            Reconciling
<1>1. CASE AdvanceDone
  <2>1. UNCHANGED <<tracked, row, handled, deferred>> /\ Reconciling' = Reconciling
    BY <1>1 DEF AdvanceDone, Goto
  <2>2. CurrentEvent' /\ LoopOverShorts'
    BY <1>1 DEF AdvanceDone, Goto, CurrentEvent, LoopOverShorts
  <2>3. QED BY <2>1, <2>2, SameBook
<1>2. ASSUME NEW e \in Events, BookFill(e) PROVE Rows'
  <2>1. /\ e \in tracked /\ Book(e, "priced")
        /\ pc = "advance" /\ pc' = "advance" /\ todo' = todo \ {e}
    BY <1>2 DEF BookFill, PassOver, LoopOverShorts
  <2>2. /\ FreshEvents' /\ TrackedAreOpen' /\ RowsTracked'
        /\ tracked' = tracked \ {e}
    BY <2>1, BookedRows
  <2>3. CurrentEvent' /\ LoopOverShorts'
    BY <2>1, <2>2 DEF CurrentEvent, LoopOverShorts
  <2>4. QED BY <2>2, <2>3
<1>3. ASSUME NEW e \in Events,
             LookFails(e) \/ CoverPending(e) \/ Hold(e) \/ StartCover(e)
      PROVE  Rows'
  <2>1. UNCHANGED <<tracked, row, handled, deferred>> /\ Reconciling' = Reconciling
    BY <1>3 DEF LookFails, CoverPending, Hold, StartCover, PassOver
  <2>2. CurrentEvent' /\ LoopOverShorts'
    BY <1>3 DEF LookFails, CoverPending, Hold, StartCover, PassOver,
                CurrentEvent, LoopOverShorts
  <2>3. QED BY <2>1, <2>2, SameBook
<1>4. QED BY <1>1, <1>2, <1>3 DEF AdvanceShorts

LEMMA CloseShortRows == ASSUME IInv, CloseShort PROVE Rows'
<1> USE DEF IInv, Rows, thread, memory, journal, EntryPoints, ClosePoints, RestartPoints,
            Reconciling
<1>1. loop \in {"advance", "flatten"}
  BY DEF TypeOK
<1>2. CASE CancelStopForCover \/ SubmitCover \/ SubmitCoverRaises \/ ParkCover
  <2>1. UNCHANGED <<tracked, row, handled, deferred>> /\ Reconciling' = Reconciling
    BY <1>1, <1>2 DEF CancelStopForCover, SubmitCover, SubmitCoverRaises, ParkCover, NextInLoop
  <2>2. CurrentEvent' /\ LoopOverShorts'
    BY <1>1, <1>2 DEF CancelStopForCover, SubmitCover, SubmitCoverRaises, ParkCover,
                      NextInLoop, CurrentEvent, LoopOverShorts
  <2>3. QED BY <2>1, <2>2, SameBook
<1>3. CASE BookCover
  <2>1. /\ cur \in tracked /\ Book(cur, "priced")
        /\ pc = "closeWait" /\ pc' = loop /\ todo' = todo /\ todo \subseteq tracked \ {cur}
    BY <1>3 DEF BookCover, NextInLoop, CurrentEvent, LoopOverShorts
  <2>2. ~Reconciling /\ ~Reconciling'
    BY <1>1, <2>1
  <2>3. /\ FreshEvents' /\ TrackedAreOpen' /\ RowsTracked'
        /\ tracked' = tracked \ {cur}
    BY <2>1, <2>2, BookedRows
  <2>4. CurrentEvent' /\ LoopOverShorts'
    BY <1>1, <2>1, <2>3 DEF CurrentEvent, LoopOverShorts
  <2>5. QED BY <2>3, <2>4
<1>4. QED BY <1>2, <1>3 DEF CloseShort

LEMMA ReconcileOnStartupRows == ASSUME IInv, ReconcileOnStartup PROVE Rows'
<1> USE DEF IInv, Rows, thread, memory, journal, EntryPoints, ClosePoints, RestartPoints,
            Reconciling
<1>1. CASE ReadOpenRows \/ CoverOnRestart \/ StartupCrashes
  <2>1. UNCHANGED <<tracked, row, handled, deferred>> /\ Reconciling' = Reconciling
    BY <1>1 DEF ReadOpenRows, CoverOnRestart, StartupCrashes
  <2>2. OpenRows' = OpenRows
    BY <2>1, SameBook
  <2>3. CurrentEvent' /\ LoopOverShorts'
    BY <1>1, <2>2 DEF ReadOpenRows, CoverOnRestart, StartupCrashes, CurrentEvent,
                      LoopOverShorts
  <2>4. QED BY <2>1, <2>3, SameBook
<1>2. CASE DeferReconcile
  BY <1>2 DEF DeferReconcile, FreshEvents, CurrentEvent, LoopOverShorts, TrackedAreOpen,
              RowsTracked, OpenRows
<1>3. CASE CloseRow
  <2>1. cur \in Events /\ row[cur] = "open"
    BY <1>3 DEF CloseRow, CurrentEvent, OpenRows
  <2>2. PICK closed \in {"priced", "unpriced"} : row' = [row EXCEPT ![cur] = closed]
    BY <1>3 DEF CloseRow
  <2>3. OpenRows' = OpenRows \ {cur}
    BY <2>1, <2>2 DEF OpenRows, TypeOK, Ledger!TypeOK
  <2>4. FreshEvents'
    BY <1>3, <2>1, <2>2 DEF CloseRow, NextInLoop, FreshEvents, TypeOK, Ledger!TypeOK
  <2>5. TrackedAreOpen' /\ RowsTracked' /\ CurrentEvent' /\ LoopOverShorts'
    BY <1>3, <2>3 DEF CloseRow, NextInLoop, TrackedAreOpen, RowsTracked, CurrentEvent,
                      LoopOverShorts
  <2>6. QED BY <2>4, <2>5
<1>4. CASE ReconcileDone
  <2>1. OpenRows' = {} /\ tracked' = {}
    BY <1>4 DEF ReconcileDone, Goto, LoopOverShorts, TrackedAreOpen, OpenRows
  <2>2. FreshEvents'
    BY <1>4 DEF ReconcileDone, Goto, FreshEvents
  <2>3. QED
    BY <1>4, <2>1, <2>2 DEF ReconcileDone, Goto, CurrentEvent, LoopOverShorts,
                            TrackedAreOpen, RowsTracked
<1>5. ASSUME NEW e \in Events, CancelRowStop(e) PROVE Rows'
  <2>1. UNCHANGED <<tracked, row, handled, deferred>> /\ Reconciling' = Reconciling
    BY <1>5 DEF CancelRowStop
  <2>2. OpenRows' = OpenRows
    BY <2>1, SameBook
  <2>3. CurrentEvent' /\ LoopOverShorts'
    BY <1>5, <2>2 DEF CancelRowStop, CurrentEvent, LoopOverShorts
  <2>4. QED BY <2>1, <2>3, SameBook
<1>6. QED BY <1>1, <1>2, <1>3, <1>4, <1>5 DEF ReconcileOnStartup

LEMMA SurroundingsRows ==
    ASSUME IInv,
           Crash \/ Restart \/ EventArrives \/ HoldElapses \/ AccountMoves
             \/ CloseApproaches \/ NextSession
    PROVE  Rows'
<1> USE DEF IInv, Rows, thread, memory, journal, EntryPoints, ClosePoints, RestartPoints,
            Reconciling
<1>1. CASE Crash
  <2>1. handled' = arrived /\ handled <= arrived /\ handled \in Int /\ arrived \in Int
    BY <1>1, EquityAssumption DEF Crash, TypeOK
  <2>2. FreshEvents'
    BY <1>1, <2>1 DEF Crash, FreshEvents, Events
  <2>3. QED
    BY <1>1, <2>2 DEF Crash, CurrentEvent, LoopOverShorts, TrackedAreOpen, RowsTracked,
                      OpenRows
<1>2. CASE \/ Restart \/ EventArrives \/ HoldElapses \/ AccountMoves
           \/ CloseApproaches \/ NextSession
  <2>1. UNCHANGED <<tracked, row, handled, deferred>> /\ Reconciling' = Reconciling
    BY <1>2 DEF Restart, Goto, EventArrives, HoldElapses, AccountMoves, CloseApproaches,
                NextSession
  <2>2. OpenRows' = OpenRows
    BY <2>1, SameBook
  <2>3. CurrentEvent' /\ LoopOverShorts'
    BY <1>2, <2>1, <2>2 DEF Restart, Goto, EventArrives, HoldElapses, AccountMoves,
                            CloseApproaches, NextSession, CurrentEvent, LoopOverShorts
  <2>4. QED BY <2>1, <2>3, SameBook
<1>3. QED BY <1>1, <1>2

LEMMA RowsPreserved == ASSUME IInv, [Next]_vars PROVE Rows'
<1>1. CASE StartTick \/ UNCHANGED vars
  <2>1. UNCHANGED <<tracked, row, handled, deferred>> /\ Reconciling' = Reconciling
    BY <1>1 DEF StartTick, Goto, vars, memory, journal, thread, Reconciling, RestartPoints
  <2>2. OpenRows' = OpenRows
    BY <2>1, SameBook DEF IInv
  <2>3. CurrentEvent' /\ LoopOverShorts'
    BY <1>1, <2>1, <2>2 DEF StartTick, Goto, vars, memory, journal, thread, IInv, Rows,
           CurrentEvent, LoopOverShorts, EntryPoints, ClosePoints, RestartPoints
  <2>4. QED BY <2>1, <2>3, SameBook DEF IInv, Rows
<1>2. QED
  BY <1>1, HandleSignalsRows, FlattenAtCloseRows, AdvanceShortsRows, CloseShortRows,
     ReconcileOnStartupRows, SurroundingsRows
  DEF Next, Tick

-----------------------------------------------------------------------------
(* The theorems. *)

LEMMA InitIInv == Init => IInv
<1> SUFFICES ASSUME Init PROVE IInv
  OBVIOUS
<1>1. AccountTypeOK
  BY AccountInitTyped DEF Init
<1>2. /\ rec \in [Events -> Record]
      /\ row \in [Events -> Ledger!Statuses]
      /\ rowStop \in [Events -> OrderRefs]
  BY DEF Init, NoRecord, Record, OrderRefs, Ledger!Statuses
<1>3. deferred \in BOOLEAN /\ late \in BOOLEAN
  BY Zenon DEF Init
<1>4. TypeOK
  BY <1>1, <1>2, <1>3, EquityAssumption
  DEF Init, TypeOK, Ledger!TypeOK, PCs, OrderRefs
<1>5. Rows
  BY DEF Init, Rows, FreshEvents, CurrentEvent, LoopOverShorts, TrackedAreOpen, RowsTracked,
         OpenRows, Reconciling, EntryPoints, ClosePoints, RestartPoints
<1>6. QED BY <1>4, <1>5 DEF IInv

THEOREM Inductive == Spec => []IInv
<1>1. IInv /\ [Next]_vars => IInv'
  BY TypePreserved, RowsPreserved DEF IInv
<1>2. QED BY <1>1, InitIInv, PTL DEF Spec

\* Every variable keeps its type: in particular every order id the book or a row
\* stores is one the account handed out.
THEOREM TypeCorrect == Spec => []TypeOK
BY Inductive, PTL DEF IInv

\* However calls fail half-way through an entry, a close or the startup, and
\* wherever the process dies, the open rows are the tracked shorts.
THEOREM BookMatchesJournal == Spec => []RowsTracked
BY Inductive, PTL DEF IInv, Rows

-----------------------------------------------------------------------------
(* The ledger.  Four steps write to a row; every other step stutters.       *)

LEMMA TrackOpens == ASSUME IInv, TrackShort PROVE Ledger!Next
<1>1. cur \in Events /\ row[cur] = "none"
  BY DEF TrackShort, IInv, Rows, CurrentEvent, EntryPoints
<1>2. Ledger!Open(cur)
  BY <1>1 DEF TrackShort, Ledger!Open
<1>3. QED BY <1>1, <1>2 DEF Ledger!Next

LEMMA BookCloses ==
    ASSUME IInv, NEW e \in tracked, Book(e, "priced"), ~Reconciling
    PROVE  Ledger!Next
<1>1. e \in Events /\ row[e] = "open"
  BY DEF IInv, Rows, TrackedAreOpen, OpenRows
<1>2. Ledger!Close(e)
  BY <1>1 DEF Book, Ledger!Close
<1>3. QED BY <1>1, <1>2 DEF Ledger!Next

LEMMA RestartCloses == ASSUME IInv, CloseRow PROVE Ledger!Next
<1>1. cur \in Events /\ row[cur] = "open"
  BY DEF CloseRow, IInv, Rows, CurrentEvent, OpenRows, RestartPoints
<1>2. Ledger!Close(cur)
  BY <1>1 DEF CloseRow, Ledger!Close
<1>3. QED BY <1>1, <1>2 DEF Ledger!Next

LEMMA LedgerStep == ASSUME IInv, [Next]_vars PROVE [Ledger!Next]_row
<1> USE DEF journal
<1>1. CASE HandleSignals
  BY <1>1, TrackOpens DEF HandleSignals, RejectSignal, SellShort, SellShortRaises,
     EntryFilled, EntryNotFilled, CancelEntry, PlaceStop, PlaceStopRaises,
     SignalHandlingFails, SignalsDrained, Goto
<1>2. CASE FlattenAtClose
  BY <1>2 DEF FlattenAtClose, BeforeClose, StartFlatten, AllFlattened, NothingToFlatten,
     FlattenAll, CancelAll, CloseAll, FlattenFails, FlattenSkips, FlattenOne, Goto, StartLoop
<1>3. CASE AdvanceShorts
  <2>1. ASSUME NEW e \in Events, BookFill(e) PROVE Ledger!Next
    <3>1. e \in tracked /\ ~Reconciling /\ Book(e, "priced")
      BY <2>1 DEF BookFill, PassOver, IInv, Rows, LoopOverShorts, Reconciling, RestartPoints
    <3>2. QED BY <3>1, BookCloses
  <2>2. ASSUME \/ AdvanceDone
               \/ \E e \in Events : LookFails(e) \/ CoverPending(e) \/ Hold(e) \/ StartCover(e)
        PROVE  UNCHANGED row
    BY <2>2 DEF AdvanceDone, LookFails, CoverPending, Hold, StartCover, PassOver, Goto
  <2>3. QED BY <1>3, <2>1, <2>2 DEF AdvanceShorts
<1>4. CASE CloseShort
  <2>1. CASE BookCover
    <3>1. cur \in tracked /\ ~Reconciling /\ Book(cur, "priced")
      BY <2>1 DEF BookCover, IInv, Rows, CurrentEvent, ClosePoints, Reconciling,
                  RestartPoints
    <3>2. QED BY <3>1, BookCloses
  <2>2. CASE CancelStopForCover \/ SubmitCover \/ SubmitCoverRaises \/ ParkCover
    BY <2>2 DEF CancelStopForCover, SubmitCover, SubmitCoverRaises, ParkCover
  <2>3. QED BY <1>4, <2>1, <2>2 DEF CloseShort
<1>5. CASE ReconcileOnStartup
  BY <1>5, RestartCloses DEF ReconcileOnStartup, ReadOpenRows, DeferReconcile,
     CoverOnRestart, StartupCrashes, ReconcileDone, CancelRowStop, Goto
<1>6. CASE \/ StartTick \/ Crash \/ Restart \/ EventArrives \/ HoldElapses
           \/ AccountMoves \/ CloseApproaches \/ NextSession \/ UNCHANGED vars
  BY <1>6 DEF StartTick, Crash, Restart, EventArrives, HoldElapses, AccountMoves,
     CloseApproaches, NextSession, vars, Goto
<1>7. QED BY <1>1, <1>2, <1>3, <1>4, <1>5, <1>6 DEF Next, Tick

\* The book keeps the promise of the scanner_trades table: whatever the thread, the
\* account, a failing call or a restart does, a row is opened once, closed once and
\* never written again.
THEOREM KeepsLedger == Spec => Implements
<1>1. Init => Ledger!Init
  BY DEF Init, Ledger!Init
<1>2. IInv /\ [Next]_vars => [Ledger!Next]_row
  BY LedgerStep
<1>3. QED BY <1>1, <1>2, Inductive, PTL DEF Spec, Implements, Ledger!Spec

-----------------------------------------------------------------------------
(* Whose order it is.  CoveredOnce and ShortsProtected need to know that the orders a *)
(* record names are its own, so that what is cancelled or covered for one short   *)
(* leaves the others alone.                                                       *)

\* An order that was handed out is for an event that was taken off the queue; the
\* others are unused.
OrdersHaveOwners == \A i \in OrderIds :
    /\ i <= lastOrder => orders[i].owner \in Events /\ orders[i].owner <= handled
    /\ i > lastOrder => orders[i].status = "unused"

OwnStop(e, i) == i \in 1 .. lastOrder /\ orders[i].kind = "stop" /\ orders[i].owner = e

StopsKnown ==
    /\ \A e \in tracked : rec[e].stop # NoOrder => OwnStop(e, rec[e].stop)
    /\ pc = "entryInsert" /\ oid # NoOrder => OwnStop(cur, oid)
    /\ pc \in {"entryWait", "entryCancel"} =>
           oid \in 1 .. lastOrder /\ orders[oid].kind = "entry"

\* While no call fails and the process lives, an exit order is the one its record
\* names, or its short is done with.
Uneventful == disturbed = 0 /\ crashes = 0

CoversKnown == Uneventful =>
    /\ ~Reconciling
    /\ pc \in {"closeCancel", "closeBuy"} => rec[cur].exit = NoOrder
    /\ \A i \in 1 .. lastOrder : orders[i].kind = "exit" =>
           /\ orders[i].owner \in tracked => rec[orders[i].owner].exit = i
           /\ pc \in EntryPoints => orders[i].owner # cur
    /\ \A i, j \in 1 .. lastOrder :
           orders[i].kind = "exit" /\ orders[j].kind = "exit"
             /\ orders[i].owner = orders[j].owner => i = j

Orders == OrdersHaveOwners /\ StopsKnown /\ CoversKnown

\* While no call fails, from the entry to the end of the session.
Intact(i) == i \in OrderIds /\ orders[i].status \in {"new", "filled"}
Covering(e) == rec[e].exit # NoOrder
Guarded(e) == Covering(e) \/ Intact(rec[e].stop) \/ (pc = "closeBuy" /\ cur = e)

\* What the thread has seen to by the time it is somewhere.
Places ==
    /\ pc = "entryInsert" => Intact(oid)
    /\ pc = "closeWait" => Covering(cur)
    /\ pc = "flatten" => \A e \in tracked \ todo : Covering(e)
    /\ pc \in ClosePoints /\ loop = "flatten" =>
           \A e \in tracked \ (todo \union {cur}) : Covering(e)
    /\ pc \in {"flattenAll", "cancelAll", "closeAll"} => \A e \in tracked : Covering(e)

Guards == disturbed = 0 /\ days = 0 => Places /\ \A e \in tracked : Guarded(e)

LEMMA DisturbNoted == ASSUME TypeOK, Disturb PROVE disturbed' > 0
BY DEF TypeOK, Disturb

\* executor.cancel_order.
LEMMA CancelOrderKept ==
    ASSUME TypeOK, NEW i, CancelOrder(i), UNCHANGED lastOrder
    PROVE  /\ Kept /\ crashes' = crashes /\ days' = days
           /\ disturbed' = disturbed \/ disturbed' > 0
           /\ disturbed' = 0 =>
                  disturbed = 0 /\ \A j \in OrderIds \ {i} : orders'[j] = orders[j]
<1>1. CASE CancelRequested(i) /\ UNCHANGED counters
  <2>1. Kept
    BY <1>1, CancelKept DEF TypeOK
  <2>2. \A j \in OrderIds \ {i} : orders'[j] = orders[j]
    BY <1>1 DEF CancelRequested, TypeOK, AccountTypeOK
  <2>3. QED BY <1>1, <2>1, <2>2 DEF counters
<1>2. CASE Disturb /\ UNCHANGED orders
  BY <1>2, UnchangedKept, DisturbNoted DEF Disturb
<1>3. QED BY <1>1, <1>2 DEF CancelOrder

\* A step hands out at most one order, for an event off the queue, and an exit order
\* only through SubmitCover unless something failed.
AccountStep ==
    \/ Kept
    \/ \E kind \in Kinds, e \in Events :
           /\ Handed(kind, e, TickerOf[e]) /\ e <= handled'
           /\ kind = "exit" => ~Uneventful'

LEMMA StepOwners ==
    ASSUME AccountTypeOK, handled \in Nat, handled' \in Nat, handled <= handled',
           OrdersHaveOwners,
           Kept \/ \E kind \in Kinds, e \in Events :
                       Handed(kind, e, TickerOf[e]) /\ e <= handled'
    PROVE  /\ OrdersHaveOwners'
           /\ \A i \in 1 .. lastOrder :
                  i \in OrderIds /\ i \in 1 .. lastOrder' /\ SameOrder(i)
<1>1. /\ lastOrder \in Nat /\ MaxOrders \in Nat /\ lastOrder <= MaxOrders
      /\ OrderIds = 1 .. MaxOrders
  BY BrokerAssumption DEF AccountTypeOK, OrderIds
<1>2. ASSUME NEW i \in OrderIds, SameOrder(i), i <= lastOrder
      PROVE  orders'[i].owner \in Events /\ orders'[i].owner <= handled'
  <2>1. orders[i].owner \in Events /\ orders[i].owner <= handled
    BY <1>2 DEF OrdersHaveOwners
  <2>2. orders'[i].owner = orders[i].owner
    BY <1>2 DEF SameOrder
  <2>3. orders[i].owner \in Int
    BY <2>1, EquityAssumption DEF Events
  <2>4. QED BY <2>1, <2>2, <2>3
<1>3. ASSUME NEW i \in OrderIds, SameOrder(i), i > lastOrder
      PROVE  orders'[i].status = "unused"
  BY <1>3 DEF OrdersHaveOwners, SameOrder
<1>4. CASE Kept
  <2>1. \A i \in OrderIds : SameOrder(i)
    BY <1>4 DEF Kept
  <2>2. QED BY <1>1, <1>2, <1>3, <1>4, <2>1 DEF Kept, OrdersHaveOwners
<1>5. ASSUME NEW kind \in Kinds, NEW e \in Events, Handed(kind, e, TickerOf[e]), e <= handled'
      PROVE  /\ OrdersHaveOwners'
             /\ \A i \in 1 .. lastOrder :
                    i \in OrderIds /\ i \in 1 .. lastOrder' /\ SameOrder(i)
  <2>1. /\ lastOrder' = lastOrder + 1
        /\ \A i \in OrderIds : i # lastOrder + 1 => SameOrder(i)
        /\ orders'[lastOrder + 1].owner = e
    BY <1>5 DEF Handed, NextId
  <2>2. \A i \in OrderIds : i <= lastOrder' => i <= lastOrder \/ i = lastOrder + 1
    BY <1>1, <2>1
  <2>3. ASSUME NEW i \in OrderIds, i <= lastOrder'
        PROVE  orders'[i].owner \in Events /\ orders'[i].owner <= handled'
    <3>1. CASE i = lastOrder + 1
      BY <1>5, <2>1, <3>1
    <3>2. CASE i <= lastOrder
      <4>1. SameOrder(i)
        BY <1>1, <2>1, <3>2
      <4>2. QED BY <1>2, <3>2, <4>1
    <3>3. QED BY <2>2, <2>3, <3>1, <3>2
  <2>4. ASSUME NEW i \in OrderIds, i > lastOrder' PROVE orders'[i].status = "unused"
    <3>1. i > lastOrder /\ i # lastOrder + 1
      BY <1>1, <2>1, <2>4
    <3>2. QED BY <1>3, <2>1, <3>1
  <2>5. OrdersHaveOwners'
    BY <2>3, <2>4 DEF OrdersHaveOwners
  <2>6. QED BY <1>1, <2>1, <2>5
<1>6. QED BY <1>4, <1>5

LEMMA OwnersAreEvents ==
    ASSUME AccountTypeOK, OrdersHaveOwners
    PROVE  \A i \in 1 .. lastOrder :
               i \in OrderIds /\ orders[i].owner \in Events /\ orders[i].owner <= handled
<1>1. \A i \in 1 .. lastOrder : i \in OrderIds /\ i <= lastOrder
  BY BrokerAssumption DEF AccountTypeOK, OrderIds
<1>2. QED BY <1>1 DEF OrdersHaveOwners

\* Where the thread may be with which order in hand.
HandKnown ==
    /\ pc = "entryInsert" /\ oid # NoOrder => OwnStop(cur, oid)
    /\ pc \in {"entryWait", "entryCancel"} =>
           oid \in 1 .. lastOrder /\ orders[oid].kind = "entry"
    /\ Uneventful => ~Reconciling
    /\ Uneventful /\ pc \in {"closeCancel", "closeBuy"} => rec[cur].exit = NoOrder

\* A step that tracks nothing new and notes no cover.
LEMMA Steady ==
    ASSUME IInv, IInv', Orders, AccountStep, tracked' \subseteq tracked,
           \A e \in tracked' : /\ rec'[e].stop \in {rec[e].stop, NoOrder}
                               /\ rec'[e].exit = rec[e].exit,
           handled <= handled', Uneventful' => Uneventful,
           pc' \in EntryPoints => (pc \in EntryPoints /\ cur' = cur) \/ cur' > handled,
           HandKnown'
    PROVE  Orders'
<1> USE DEF Orders
<1>1. /\ AccountTypeOK /\ handled \in Nat /\ handled' \in Nat /\ lastOrder \in Nat
      /\ tracked \in SUBSET Events /\ cur' \in Events \union {0}
  BY BrokerAssumption DEF IInv, TypeOK, AccountTypeOK
<1>2. /\ OrdersHaveOwners'
      /\ \A i \in 1 .. lastOrder :
             i \in OrderIds /\ i \in 1 .. lastOrder' /\ SameOrder(i)
  BY <1>1, StepOwners DEF AccountStep
<1>3. \A i \in 1 .. lastOrder : orders[i].owner \in Nat /\ orders[i].owner <= handled
  BY <1>1, OwnersAreEvents DEF Events
<1>4. StopsKnown'
  BY <1>2 DEF StopsKnown, HandKnown, OwnStop, SameOrder
<1>5. CoversKnown'
  <2> SUFFICES ASSUME Uneventful'
               PROVE  /\ \A i \in 1 .. lastOrder' : orders'[i].kind = "exit" =>
                             /\ orders'[i].owner \in tracked' =>
                                    rec'[orders'[i].owner].exit = i
                             /\ pc' \in EntryPoints => orders'[i].owner # cur'
                      /\ \A i, j \in 1 .. lastOrder' :
                             orders'[i].kind = "exit" /\ orders'[j].kind = "exit"
                               /\ orders'[i].owner = orders'[j].owner => i = j
    BY DEF CoversKnown, HandKnown
  <2>1. ASSUME NEW i \in 1 .. lastOrder', orders'[i].kind = "exit"
        PROVE  /\ i \in 1 .. lastOrder /\ orders[i].kind = "exit"
               /\ orders'[i].owner = orders[i].owner
    <3>1. i \in 1 .. lastOrder
      BY <1>1, <2>1 DEF AccountStep, Kept, Handed, NextId
    <3>2. QED BY <1>2, <2>1, <3>1 DEF SameOrder
  <2>2. ASSUME NEW i \in 1 .. lastOrder', orders'[i].kind = "exit"
        PROVE  /\ orders'[i].owner \in tracked' => rec'[orders'[i].owner].exit = i
               /\ pc' \in EntryPoints => orders'[i].owner # cur'
    <3>1. /\ orders[i].owner \in tracked => rec[orders[i].owner].exit = i
          /\ pc \in EntryPoints => orders[i].owner # cur
      BY <2>1, <2>2 DEF CoversKnown
    <3>2. orders[i].owner \in Nat /\ orders[i].owner <= handled
      BY <1>3, <2>1, <2>2
    <3>3. pc' \in EntryPoints => orders[i].owner # cur'
      BY <1>1, <3>1, <3>2 DEF Events
    <3>4. QED BY <2>1, <2>2, <3>1, <3>3
  <2>3. ASSUME NEW i \in 1 .. lastOrder', NEW j \in 1 .. lastOrder',
               orders'[i].kind = "exit", orders'[j].kind = "exit",
               orders'[i].owner = orders'[j].owner
        PROVE  i = j
    BY <2>1, <2>3 DEF CoversKnown
  <2>4. QED BY <2>2, <2>3
<1>6. QED BY <1>2, <1>4, <1>5

\* A step that leaves the account and the book alone.
LEMMA Quiet ==
    ASSUME IInv, IInv', Orders, UNCHANGED <<orders, lastOrder, tracked, rec>>,
           handled <= handled', Uneventful' => Uneventful,
           pc' \notin EntryPoints \/ (pc \in EntryPoints /\ cur' = cur),
           pc' = "entryInsert" => pc = "entryInsert" /\ oid' = oid,
           pc' \in {"entryWait", "entryCancel"} =>
               pc \in {"entryWait", "entryCancel"} /\ oid' = oid,
           Uneventful' => ~Reconciling',
           Uneventful' /\ pc' \in {"closeCancel", "closeBuy"} => rec[cur'].exit = NoOrder
    PROVE  Orders'
<1>1. AccountStep
  BY UnchangedKept DEF AccountStep
<1>2. HandKnown'
  BY DEF HandKnown, Orders, StopsKnown, OwnStop, EntryPoints
<1>3. QED BY <1>1, <1>2, Steady

LEMMA TrackShortOrders == ASSUME IInv, IInv', Orders, TrackShort PROVE Orders'
<1> USE DEF Orders
<1>1. /\ pc = "entryInsert" /\ pc' = "signals" /\ tracked' = tracked \union {cur}
      /\ rec' = [rec EXCEPT ![cur] = [stop |-> oid, exit |-> NoOrder]]
      /\ UNCHANGED <<orders, lastOrder, handled>> /\ UNCHANGED Uneventful
  BY DEF TrackShort, account, counters, Uneventful
<1>2. /\ cur \in Events /\ cur \notin tracked /\ tracked \in SUBSET Events
      /\ rec \in [Events -> Record]
  BY <1>1 DEF IInv, TypeOK, Rows, CurrentEvent, EntryPoints
<1>3. /\ rec'[cur].stop = oid /\ rec'[cur].exit = NoOrder
      /\ \A e \in Events \ {cur} : rec'[e] = rec[e]
  BY <1>1, <1>2
<1>4. OrdersHaveOwners'
  BY <1>1 DEF OrdersHaveOwners
<1>5. StopsKnown'
  BY <1>1, <1>2, <1>3 DEF StopsKnown, OwnStop
<1>6. CoversKnown'
  <2>1. \A i \in 1 .. lastOrder : orders[i].owner \in Events
    BY OwnersAreEvents DEF IInv, TypeOK
  <2>2. QED BY <1>1, <1>2, <1>3, <2>1
        DEF CoversKnown, EntryPoints, Reconciling, RestartPoints
<1>7. QED BY <1>4, <1>5, <1>6

\* The one place where a cover is noted.
LEMMA SubmitCoverOrders == ASSUME IInv, IInv', Orders, SubmitCover PROVE Orders'
<1> USE DEF Orders
<1>1. /\ pc = "closeBuy" /\ pc' = "closeWait"
      /\ rec' = [rec EXCEPT ![cur].exit = NextId]
      /\ UNCHANGED <<cur, tracked, handled>> /\ UNCHANGED Uneventful
  BY DEF SubmitCover, counters, Uneventful
<1>2. /\ TypeOK /\ AccountTypeOK /\ handled \in Nat
      /\ cur \in Events /\ cur \in tracked /\ tracked \in SUBSET Events
      /\ rec \in [Events -> Record]
  BY <1>1 DEF IInv, TypeOK, Rows, CurrentEvent, ClosePoints
<1>3. lastOrder \in Nat
  BY BrokerAssumption DEF IInv, TypeOK, AccountTypeOK
<1>4. cur <= handled
  BY <1>2, <1>3, EquityAssumption DEF IInv, TypeOK, Rows, FreshEvents, Events
<1>5. Handed("exit", cur, TickerOf[cur])
  BY <1>2, SubmitHanded DEF SubmitCover
<1>6. /\ OrdersHaveOwners'
      /\ \A i \in 1 .. lastOrder : /\ i \in OrderIds /\ i \in 1 .. lastOrder'
                                   /\ SameOrder(i)
  BY <1>1, <1>2, <1>4, <1>5, StepOwners DEF Kinds
<1>7. /\ rec'[cur].exit = NextId /\ rec'[cur].stop = rec[cur].stop
      /\ \A e \in Events \ {cur} : rec'[e] = rec[e]
  BY <1>1, <1>2 DEF Record
<1>8. StopsKnown'
  BY <1>1, <1>2, <1>6, <1>7 DEF StopsKnown, OwnStop, SameOrder
<1>9. CoversKnown'
  <2> SUFFICES ASSUME Uneventful
               PROVE  /\ ~Reconciling'
                      /\ \A i \in 1 .. lastOrder' : orders'[i].kind = "exit" =>
                             (orders'[i].owner \in tracked => rec'[orders'[i].owner].exit = i)
                      /\ \A i, j \in 1 .. lastOrder' :
                             orders'[i].kind = "exit" /\ orders'[j].kind = "exit"
                               /\ orders'[i].owner = orders'[j].owner => i = j
    BY <1>1 DEF CoversKnown, EntryPoints
  <2>1. rec[cur].exit = NoOrder
    BY <1>1 DEF CoversKnown
  <2>2. \A i \in 1 .. lastOrder : orders[i].kind = "exit" =>
            orders[i].owner # cur /\ orders[i].owner \in Events
    <3>1. \A i \in 1 .. lastOrder : i # NoOrder
      BY <1>3 DEF NoOrder
    <3>2. QED BY <1>2, <2>1, <3>1, OwnersAreEvents DEF CoversKnown
  <2>3. /\ \A i \in 1 .. lastOrder' : i \in 1 .. lastOrder \/ i = NextId
        /\ orders'[NextId].owner = cur
    BY <1>3, <1>5 DEF Handed, NextId
  <2>4. ~Reconciling'
    BY <1>1 DEF Reconciling, RestartPoints
  <2>5. \A i \in 1 .. lastOrder : /\ orders'[i].kind = orders[i].kind
                                  /\ orders'[i].owner = orders[i].owner
    BY <1>6 DEF SameOrder
  <2>6. \A i \in 1 .. lastOrder' : orders'[i].kind = "exit" =>
            (orders'[i].owner \in tracked => rec'[orders'[i].owner].exit = i)
    BY <1>7, <2>2, <2>3, <2>5 DEF CoversKnown
  <2>7. \A i, j \in 1 .. lastOrder' :
            orders'[i].kind = "exit" /\ orders'[j].kind = "exit"
              /\ orders'[i].owner = orders'[j].owner => i = j
    BY <2>2, <2>3, <2>5 DEF CoversKnown
  <2>8. QED BY <2>4, <2>6, <2>7
<1>10. QED BY <1>6, <1>8, <1>9

LEMMA HandleSignalsOrders == ASSUME IInv, IInv', Orders, HandleSignals PROVE Orders'
<1> USE DEF thread, memory, journal, account, counters, EntryPoints, Reconciling, RestartPoints
<1>0. TypeOK /\ AccountTypeOK /\ handled \in Nat
  BY DEF IInv, TypeOK
<1>1. CASE RejectSignal \/ EntryFilled \/ EntryNotFilled \/ SignalsDrained
  BY <1>0, <1>1, Quiet
  DEF RejectSignal, EntryFilled, EntryNotFilled, SignalsDrained, Goto, Uneventful
<1>2. CASE SellShort \/ SellShortRaises
  <2>1. /\ pc = "signals" /\ handled < arrived /\ handled' = handled + 1
        /\ handled + 1 \in Events /\ UNCHANGED <<tracked, rec>>
    BY <1>0, <1>2, NextEvent DEF SellShort, SellShortRaises
  <2>2. Kept \/ Handed("entry", handled + 1, TickerOf[handled + 1])
    BY <1>0, <1>2, SubmitHanded, UnchangedKept DEF SellShort, SellShortRaises, SubmitRaises
  <2>3. AccountStep
    BY <1>0, <2>1, <2>2 DEF AccountStep, Kinds
  <2>4. Uneventful' => Uneventful
    BY <1>0, <1>2, DisturbNoted DEF SellShort, SellShortRaises, Uneventful
  <2>5. HandKnown' /\ (pc' \in EntryPoints => cur' > handled)
    <3>1. CASE SellShort
      <4>1. /\ pc' = "entryWait" /\ cur' = handled + 1 /\ oid' = NextId
            /\ Handed("entry", handled + 1, TickerOf[handled + 1])
        BY <1>0, <3>1, SubmitHanded DEF SellShort
      <4>2. oid' \in 1 .. lastOrder' /\ orders'[oid'].kind = "entry"
        BY <1>0, <4>1, BrokerAssumption DEF Handed, NextId, OrderIds, AccountTypeOK
      <4>3. QED BY <1>0, <4>1, <4>2 DEF HandKnown
    <3>2. CASE SellShortRaises
      BY <3>2 DEF SellShortRaises, HandKnown
    <3>3. QED BY <1>2, <3>1, <3>2
  <2>6. QED BY <1>0, <2>1, <2>3, <2>4, <2>5, Steady
<1>3. CASE CancelEntry
  <2>1. Kept /\ (Uneventful' => Uneventful)
    BY <1>0, <1>3, CancelOrderKept DEF CancelEntry, Uneventful
  <2>2. QED BY <1>0, <1>3, <2>1, Steady DEF CancelEntry, AccountStep, HandKnown
<1>4. CASE PlaceStop \/ PlaceStopRaises
  <2>1. /\ pc = "entryStop" /\ pc' = "entryInsert"
        /\ UNCHANGED <<cur, handled, tracked, rec>>
    BY <1>4 DEF PlaceStop, PlaceStopRaises
  <2>2. cur \in Events /\ cur <= handled
    BY <2>1 DEF IInv, Rows, CurrentEvent
  <2>3. Kept \/ Handed("stop", cur, TickerOf[cur])
    BY <1>0, <1>4, SubmitHanded, UnchangedKept DEF PlaceStop, PlaceStopRaises, SubmitRaises
  <2>4. AccountStep
    BY <1>0, <2>1, <2>2, <2>3 DEF AccountStep, Kinds
  <2>5. Uneventful' => Uneventful
    BY <1>0, <1>4, DisturbNoted DEF PlaceStop, PlaceStopRaises, Uneventful
  <2>6. HandKnown'
    <3>1. CASE PlaceStop
      <4>1. oid' = NextId /\ Handed("stop", cur, TickerOf[cur])
        BY <1>0, <3>1, SubmitHanded DEF PlaceStop
      <4>2. oid' \in 1 .. lastOrder' /\ orders'[oid'].kind = "stop" /\ orders'[oid'].owner = cur
        BY <1>0, <4>1, BrokerAssumption DEF Handed, NextId, OrderIds, AccountTypeOK
      <4>3. QED BY <2>1, <4>2 DEF HandKnown, OwnStop
    <3>2. CASE PlaceStopRaises
      BY <2>1, <3>2 DEF PlaceStopRaises, HandKnown
    <3>3. QED BY <1>4, <3>1, <3>2
  <2>7. QED BY <1>0, <2>1, <2>4, <2>5, <2>6, Steady
<1>5. CASE TrackShort
  BY <1>5, TrackShortOrders
<1>6. CASE SignalHandlingFails
  <2>1. ~Uneventful'
    BY <1>0, <1>6, DisturbNoted DEF SignalHandlingFails, Uneventful
  <2>2. QED BY <1>0, <1>6, <2>1, Quiet DEF SignalHandlingFails
<1>7. QED BY <1>1, <1>2, <1>3, <1>4, <1>5, <1>6 DEF HandleSignals

LEMMA FlattenAtCloseOrders == ASSUME IInv, IInv', Orders, FlattenAtClose PROVE Orders'
<1> USE DEF thread, memory, journal, account, counters, EntryPoints, Reconciling, RestartPoints
<1>0. TypeOK /\ AccountTypeOK /\ handled \in Nat
  BY DEF IInv, TypeOK
<1>1. CASE BeforeClose \/ StartFlatten \/ AllFlattened \/ NothingToFlatten \/ FlattenAll
  BY <1>0, <1>1, Quiet
  DEF BeforeClose, StartFlatten, AllFlattened, NothingToFlatten, FlattenAll, Goto, StartLoop,
      Uneventful
<1>2. CASE CancelAll \/ CloseAll
  <2>1. Kept
    BY <1>0, <1>2, AllKept DEF CancelAll, CloseAll
  <2>2. QED BY <1>0, <1>2, <2>1, Steady
        DEF CancelAll, CloseAll, AccountStep, HandKnown, Uneventful
<1>3. CASE FlattenFails
  <2>1. ~Uneventful'
    BY <1>0, <1>3, DisturbNoted DEF FlattenFails, Uneventful
  <2>2. QED BY <1>0, <1>3, <2>1, Quiet DEF FlattenFails
<1>4. ASSUME NEW e \in Events, FlattenSkips(e) \/ FlattenOne(e) PROVE Orders'
  BY <1>0, <1>4, Quiet DEF FlattenSkips, FlattenOne, Uneventful
<1>5. QED BY <1>1, <1>2, <1>3, <1>4 DEF FlattenAtClose

LEMMA BookedOrders ==
    ASSUME IInv, IInv', Orders, NEW e \in Events, Book(e, "priced"),
           UNCHANGED <<orders, lastOrder, disturbed, crashes>>,
           pc' \in {"advance", "flatten"}
    PROVE  Orders'
<1>1. /\ tracked' \subseteq tracked /\ handled' = handled
      /\ \A t \in tracked' : rec'[t] = rec[t]
  BY DEF Book, IInv, TypeOK
<1>2. AccountStep
  BY UnchangedKept DEF AccountStep
<1>3. pc' \notin EntryPoints /\ HandKnown'
  BY DEF HandKnown, EntryPoints, Reconciling, RestartPoints
<1>4. QED BY <1>1, <1>2, <1>3, Steady DEF Uneventful, IInv, TypeOK

LEMMA AdvanceShortsOrders == ASSUME IInv, IInv', Orders, AdvanceShorts PROVE Orders'
<1> USE DEF thread, memory, journal, account, counters, EntryPoints, Reconciling, RestartPoints
<1>0. TypeOK /\ AccountTypeOK /\ handled \in Nat
  BY DEF IInv, TypeOK
<1>1. CASE AdvanceDone
  BY <1>0, <1>1, Quiet DEF AdvanceDone, Goto, Uneventful
<1>2. ASSUME NEW e \in Events, BookFill(e) PROVE Orders'
  BY <1>2, BookedOrders DEF BookFill, PassOver
<1>3. ASSUME NEW e \in Events, LookFails(e) PROVE Orders'
  <2>1. ~Uneventful'
    BY <1>0, <1>3, DisturbNoted DEF LookFails, Uneventful
  <2>2. QED BY <1>0, <1>3, <2>1, Quiet DEF LookFails, PassOver
<1>4. ASSUME NEW e \in Events, CoverPending(e) \/ Hold(e) \/ StartCover(e) PROVE Orders'
  BY <1>0, <1>4, Quiet DEF CoverPending, Hold, StartCover, PassOver, Uneventful
<1>5. QED BY <1>1, <1>2, <1>3, <1>4 DEF AdvanceShorts

LEMMA CloseShortOrders == ASSUME IInv, IInv', Orders, CloseShort PROVE Orders'
<1> USE DEF thread, memory, journal, account, counters, EntryPoints, Reconciling, RestartPoints
<1>0. /\ TypeOK /\ AccountTypeOK /\ handled \in Nat /\ rec \in [Events -> Record]
      /\ tracked \in SUBSET Events /\ loop \in {"advance", "flatten"}
  BY DEF IInv, TypeOK
<1>1. CASE CancelStopForCover
  <2>1. /\ pc = "closeCancel" /\ pc' = "closeBuy" /\ UNCHANGED <<cur, tracked, handled>>
        /\ rec' = [rec EXCEPT ![cur].stop = NoOrder]
    BY <1>1 DEF CancelStopForCover
  <2>2. cur \in tracked /\ cur \in Events
    BY <1>0, <2>1 DEF IInv, Rows, CurrentEvent, ClosePoints
  <2>3. \A e \in Events : /\ rec'[e].stop \in {rec[e].stop, NoOrder}
                          /\ rec'[e].exit = rec[e].exit
    BY <1>0, <2>1, <2>2 DEF Record
  <2>4. Kept /\ (Uneventful' => Uneventful)
    BY <1>0, <1>1, CancelOrderKept DEF CancelStopForCover, Uneventful
  <2>5. HandKnown'
    BY <2>1, <2>2, <2>3, <2>4 DEF HandKnown, Orders, CoversKnown
  <2>6. QED BY <1>0, <2>1, <2>3, <2>4, <2>5, Steady DEF AccountStep
<1>2. CASE SubmitCover
  BY <1>2, SubmitCoverOrders
<1>3. CASE SubmitCoverRaises
  <2>1. /\ pc = "closeBuy" /\ pc' = loop /\ UNCHANGED <<tracked, rec, handled>>
    BY <1>3 DEF SubmitCoverRaises, NextInLoop
  <2>2. cur \in tracked /\ cur \in Events
    BY <1>0, <2>1 DEF IInv, Rows, CurrentEvent, ClosePoints
  <2>3. cur <= handled
    BY <1>0, <2>2, EquityAssumption DEF IInv, Rows, FreshEvents, Events
  <2>4. ~Uneventful'
    BY <1>0, <1>3, DisturbNoted DEF SubmitCoverRaises, Uneventful
  <2>5. Kept \/ Handed("exit", cur, TickerOf[cur])
    BY <1>0, <1>3, SubmitHanded, UnchangedKept DEF SubmitCoverRaises, SubmitRaises
  <2>6. AccountStep
    BY <1>0, <2>1, <2>2, <2>3, <2>4, <2>5 DEF AccountStep, Kinds
  <2>7. HandKnown' /\ pc' \notin EntryPoints
    BY <1>0, <2>1, <2>4 DEF HandKnown
  <2>8. QED BY <1>0, <2>1, <2>4, <2>6, <2>7, Steady
<1>4. CASE BookCover
  <2>1. cur \in Events
    BY <1>4 DEF BookCover, IInv, TypeOK, Rows, CurrentEvent, ClosePoints
  <2>2. QED BY <1>0, <1>4, <2>1, BookedOrders DEF BookCover, NextInLoop
<1>5. CASE ParkCover
  <2>1. Uneventful' => Uneventful
    BY <1>0, <1>5, DisturbNoted DEF ParkCover, Uneventful
  <2>2. QED BY <1>0, <1>5, <2>1, Quiet DEF ParkCover, NextInLoop
<1>6. QED BY <1>1, <1>2, <1>3, <1>4, <1>5 DEF CloseShort

LEMMA ReconcileOnStartupOrders == ASSUME IInv, IInv', Orders, ReconcileOnStartup PROVE Orders'
<1> USE DEF thread, memory, journal, account, counters, EntryPoints, Reconciling, RestartPoints
<1>0. TypeOK /\ AccountTypeOK /\ handled \in Nat
  BY DEF IInv, TypeOK
<1>1. ~Uneventful
  BY DEF ReconcileOnStartup, ReadOpenRows, DeferReconcile, CoverOnRestart, CloseRow,
         StartupCrashes, ReconcileDone, CancelRowStop, Goto, Orders, CoversKnown
<1>2. ~Uneventful'
  BY <1>0, <1>1, DisturbNoted, CancelOrderKept
  DEF ReconcileOnStartup, ReadOpenRows, DeferReconcile, CoverOnRestart, CloseRow,
      StartupCrashes, ReconcileDone, CancelRowStop, Goto, Uneventful
<1>3. /\ UNCHANGED <<tracked, rec, handled>> /\ pc' \notin EntryPoints
  BY DEF ReconcileOnStartup, ReadOpenRows, DeferReconcile, CoverOnRestart, CloseRow,
         StartupCrashes, ReconcileDone, CancelRowStop, Goto, NextInLoop
<1>4. AccountStep
  <2>1. CASE ReadOpenRows \/ DeferReconcile \/ CloseRow \/ ReconcileDone
             \/ (StartupCrashes /\ pc # "restartCover")
    BY <2>1, UnchangedKept
    DEF ReadOpenRows, DeferReconcile, CloseRow, ReconcileDone, StartupCrashes, Goto,
        AccountStep
  <2>2. CASE CoverOnRestart \/ (StartupCrashes /\ pc = "restartCover")
    <3>1. pc = "restartCover"
      BY <2>2 DEF CoverOnRestart
    <3>2. cur \in Events
      BY <3>1 DEF IInv, Rows, CurrentEvent, OpenRows
    <3>3. row[cur] # "none"
      BY <3>1 DEF IInv, Rows, CurrentEvent, OpenRows
    <3>4. cur <= handled'
      BY <1>0, <1>3, <3>2, <3>3, EquityAssumption DEF IInv, Rows, FreshEvents, Events
    <3>5. Kept \/ Handed("exit", cur, TickerOf[cur])
      BY <1>0, <2>2, SubmitHanded, UnchangedKept
      DEF CoverOnRestart, StartupCrashes, SubmitRaises
    <3>6. QED BY <1>2, <3>2, <3>4, <3>5 DEF AccountStep, Kinds
  <2>3. ASSUME NEW e \in Events, CancelRowStop(e) PROVE AccountStep
    BY <1>0, <2>3, CancelOrderKept DEF CancelRowStop, AccountStep
  <2>4. QED BY <2>1, <2>2, <2>3 DEF ReconcileOnStartup
<1>5. HandKnown'
  BY <1>2, <1>3 DEF HandKnown
<1>6. QED BY <1>0, <1>2, <1>3, <1>4, <1>5, Steady

LEMMA SurroundingsOrders ==
    ASSUME IInv, IInv', Orders,
           Crash \/ Restart \/ EventArrives \/ HoldElapses \/ AccountMoves
             \/ CloseApproaches \/ NextSession
    PROVE  Orders'
<1> USE DEF thread, memory, journal, account, counters
<1>0. TypeOK /\ AccountTypeOK /\ handled \in Nat
  BY DEF IInv, TypeOK
<1>1. CASE Crash
  <2>1. /\ tracked' = {} /\ handled <= handled' /\ pc' = "down" /\ ~Uneventful'
        /\ UNCHANGED <<orders, lastOrder>>
    BY <1>0, <1>1 DEF Crash, Uneventful, IInv, TypeOK
  <2>2. AccountStep
    BY <2>1, UnchangedKept DEF AccountStep
  <2>3. HandKnown' /\ pc' \notin EntryPoints
    BY <2>1 DEF HandKnown, EntryPoints
  <2>4. QED BY <2>1, <2>2, <2>3, Steady
<1>2. CASE Restart
  <2>1. ~Uneventful
    BY <1>2 DEF Restart, Goto, Orders, CoversKnown, Reconciling
  <2>2. QED BY <1>0, <1>2, <2>1, Quiet DEF Restart, Goto, Uneventful, EntryPoints
<1>3. CASE EventArrives \/ HoldElapses \/ AccountMoves \/ CloseApproaches \/ NextSession
  <2>1. UNCHANGED <<thread, tracked, rec, handled>>
    BY <1>3 DEF EventArrives, HoldElapses, AccountMoves, CloseApproaches, NextSession
  <2>2. Uneventful' => Uneventful
    BY <1>0, <1>3, DisturbNoted
    DEF EventArrives, HoldElapses, AccountMoves, CloseApproaches, NextSession, Uneventful
  <2>3. Kept
    <3>1. CASE EventArrives \/ HoldElapses \/ CloseApproaches
      BY <3>1, UnchangedKept DEF EventArrives, HoldElapses, CloseApproaches
    <3>2. CASE AccountMoves \/ NextSession
      BY <1>0, <3>2, MovesKept DEF AccountMoves, NextSession
    <3>3. QED BY <1>3, <3>1, <3>2
  <2>4. HandKnown'
    <3>1. \A i \in 1 .. lastOrder : i \in OrderIds /\ i \in 1 .. lastOrder' /\ SameOrder(i)
      BY <1>0, <2>3, OwnersAreEvents DEF Orders, Kept
    <3>2. /\ pc = "entryInsert" /\ oid # NoOrder => OwnStop(cur, oid)
          /\ pc \in {"entryWait", "entryCancel"} =>
                 oid \in 1 .. lastOrder /\ orders[oid].kind = "entry"
      BY DEF Orders, StopsKnown
    <3>3. Uneventful' => /\ ~Reconciling'
                         /\ pc \in {"closeCancel", "closeBuy"} => rec[cur].exit = NoOrder
      BY <2>1, <2>2 DEF Orders, CoversKnown, Reconciling
    <3>4. QED BY <2>1, <3>1, <3>2, <3>3 DEF HandKnown, OwnStop, SameOrder
  <2>5. QED BY <1>0, <2>1, <2>2, <2>3, <2>4, Steady DEF AccountStep
<1>4. QED BY <1>1, <1>2, <1>3

LEMMA OrdersPreserved == ASSUME IInv, IInv', Orders, [Next]_vars PROVE Orders'
<1> USE DEF thread, memory, journal, account, counters
<1>0. handled \in Nat
  BY DEF IInv, TypeOK
<1>1. CASE StartTick
  BY <1>0, <1>1, Quiet
  DEF StartTick, Goto, Uneventful, EntryPoints, Reconciling, RestartPoints
<1>2. CASE UNCHANGED vars
  <2>1. Uneventful => ~Reconciling
    BY DEF Orders, CoversKnown
  <2>2. Uneventful /\ pc \in {"closeCancel", "closeBuy"} => rec[cur].exit = NoOrder
    BY DEF Orders, CoversKnown
  <2>3. QED BY <1>0, <1>2, <2>1, <2>2, Quiet DEF vars, Uneventful, Reconciling
<1>3. QED
  BY <1>1, <1>2, HandleSignalsOrders, FlattenAtCloseOrders, AdvanceShortsOrders,
     CloseShortOrders, ReconcileOnStartupOrders, SurroundingsOrders
  DEF Next, Tick

LEMMA InitOrders == Init => Orders
<1> SUFFICES ASSUME Init PROVE Orders
  OBVIOUS
<1>1. /\ pc = "idle" /\ tracked = {} /\ lastOrder = 0
      /\ \A i \in OrderIds : i > 0 /\ orders[i].status = "unused"
  <2>1. \A i \in OrderIds : i > 0
    BY BrokerAssumption DEF OrderIds
  <2>2. UnusedOrder.status = "unused"
    BY DEF UnusedOrder
  <2>3. \A i \in OrderIds : orders[i] = UnusedOrder
    BY DEF Init, AccountInit
  <2>4. QED BY <2>1, <2>2, <2>3 DEF Init, AccountInit
<1>2. OrdersHaveOwners
  BY <1>1 DEF OrdersHaveOwners, OrderIds
<1>3. QED BY <1>1, <1>2 DEF Orders, StopsKnown, CoversKnown, Reconciling, RestartPoints

LEMMA OwnersKnown == Spec => [](IInv /\ Orders)
<1>1. IInv /\ [Next]_vars => IInv'
  BY TypePreserved, RowsPreserved DEF IInv
<1>2. IInv /\ Orders /\ [Next]_vars => IInv' /\ Orders'
  BY <1>1, OrdersPreserved
<1>3. QED BY <1>2, InitIInv, InitOrders, PTL DEF Spec

\* While no call fails and the process does not die, one market order covers a short,
\* however often the loops of a tick come across its record.
THEOREM OneCover == Spec => []CoveredOnce
<1>1. ASSUME IInv, Orders PROVE CoveredOnce
  <2>1. ASSUME NEW i \in OrderIds, orders[i].status # "unused" PROVE i \in 1 .. lastOrder
    <3>1. lastOrder \in Nat /\ i \in Nat \ {0}
      BY <1>1, <2>1, BrokerAssumption DEF IInv, TypeOK, AccountTypeOK, OrderIds
    <3>2. i <= lastOrder
      BY <1>1, <2>1, <3>1 DEF Orders, OrdersHaveOwners
    <3>3. QED BY <3>1, <3>2
  <2>2. QED BY <1>1, <2>1 DEF CoveredOnce, Orders, CoversKnown, Uneventful
<1>2. QED BY <1>1, OwnersKnown, PTL

-----------------------------------------------------------------------------
(* The stops. *)

LEMMA SubmitIntact ==
    ASSUME AccountTypeOK, OrdersHaveOwners, NEW kind, NEW owner, NEW contract, NEW delta,
           Submit(kind, owner, contract, delta)
    PROVE  /\ \A i \in OrderIds : Intact(i) => Intact(i)'
           /\ Intact(lastOrder)' /\ lastOrder' = NextId
<1>1. /\ NextId \in OrderIds /\ orders'[NextId].status = "new" /\ lastOrder' = NextId
      /\ \A i \in OrderIds \ {NextId} : orders'[i] = orders[i]
  BY SubmitHanded DEF Handed
<1>2. ASSUME NEW i \in OrderIds, Intact(i) PROVE Intact(i)'
  <2>1. CASE i = NextId
    <3>1. orders'[i].status \in {"new", "filled"}
      BY <1>1, <2>1
    <3>2. QED BY <3>1 DEF Intact, OrderIds
  <2>2. CASE i # NextId
    <3>1. orders'[i] = orders[i]
      BY <1>1, <2>2
    <3>2. QED BY <1>2, <3>1 DEF Intact
  <2>3. QED BY <2>1, <2>2
<1>3. Intact(lastOrder)'
  BY <1>1 DEF Intact, OrderIds
<1>4. QED BY <1>1, <1>2, <1>3

LEMMA CancelIntact ==
    ASSUME TypeOK, NEW i, CancelOrder(i), UNCHANGED lastOrder, disturbed' = 0
    PROVE  disturbed = 0 /\ \A j \in OrderIds \ {i} : Intact(j) => Intact(j)'
BY CancelOrderKept DEF Intact

LEMMA MovesIntact ==
    ASSUME AccountTypeOK, \/ \E i \in OrderIds : Fill(i) \/ CancelSettles(i)
                          \/ \E c \in Contracts : LiquidationFills(c)
    PROVE  \A j \in OrderIds : Intact(j) => Intact(j)'
<1>1. ASSUME NEW i \in OrderIds, Fill(i) \/ CancelSettles(i)
      PROVE  \A j \in OrderIds : Intact(j) => Intact(j)'
  <2>1. CASE Fill(i)
    BY <2>1, WithStatusSame DEF Fill, Intact, AccountTypeOK
  <2>2. CASE CancelSettles(i)
    BY <2>2, WithStatusSame DEF CancelSettles, Intact, AccountTypeOK
  <2>3. QED BY <1>1, <2>1, <2>2
<1>2. ASSUME NEW c \in Contracts, LiquidationFills(c)
      PROVE  \A j \in OrderIds : Intact(j) => Intact(j)'
  BY <1>2 DEF LiquidationFills, Intact
<1>3. QED BY <1>1, <1>2

\* A step that keeps the records it does not drop, and leaves their stops alone.
LEMMA GuardsSteady ==
    ASSUME Guards, tracked' \subseteq tracked, \A e \in tracked' : rec'[e] = rec[e],
           disturbed' = 0 /\ days' = 0 =>
               /\ disturbed = 0 /\ days = 0 /\ Places'
               /\ \A e \in tracked' : /\ Intact(rec[e].stop) => Intact(rec[e].stop)'
                                      /\ pc = "closeBuy" /\ cur = e =>
                                             Covering(e)' \/ (pc' = pc /\ cur' = cur)
    PROVE  Guards'
BY DEF Guards, Guarded, Covering, Intact

LEMMA GuardsQuiet ==
    ASSUME Guards, UNCHANGED <<orders, tracked, rec>>, pc # "closeBuy",
           disturbed' = 0 /\ days' = 0 => disturbed = 0 /\ days = 0 /\ Places'
    PROVE  Guards'
<1>1. \A i : Intact(i) => Intact(i)'
  BY DEF Intact
<1>2. QED BY <1>1, GuardsSteady

LEMMA HandleSignalsGuards == ASSUME IInv, IInv', Orders, Guards, HandleSignals PROVE Guards'
<1> USE DEF account, thread, memory, journal, counters, ClosePoints
<1>0. /\ TypeOK /\ AccountTypeOK /\ tracked \in SUBSET Events /\ rec \in [Events -> Record]
  BY DEF IInv, TypeOK
<1>1. CASE RejectSignal \/ EntryFilled \/ EntryNotFilled \/ SignalsDrained
  BY <1>1, GuardsQuiet
  DEF RejectSignal, EntryFilled, EntryNotFilled, SignalsDrained, Goto, Places
<1>2. CASE SellShortRaises \/ PlaceStopRaises \/ SignalHandlingFails
  BY <1>0, <1>2, DisturbNoted DEF SellShortRaises, PlaceStopRaises, SignalHandlingFails, Guards
<1>3. CASE SellShort
  <2>1. \A e \in tracked : Intact(rec[e].stop) => Intact(rec[e].stop)'
    BY <1>0, <1>3, SubmitIntact DEF SellShort, Orders, Intact
  <2>2. QED BY <1>3, <2>1, GuardsSteady DEF SellShort, Places
<1>4. CASE CancelEntry
  <2>1. /\ pc = "entryCancel" /\ pc' = "signals" /\ CancelOrder(oid) /\ days' = days
        /\ UNCHANGED <<lastOrder, tracked, rec>>
    BY <1>0, <1>4, CancelOrderKept DEF CancelEntry
  <2>2. \A e \in tracked : Intact(rec[e].stop) => rec[e].stop # oid
    BY <2>1 DEF Orders, StopsKnown, OwnStop, Intact, NoOrder, OrderIds
  <2>3. disturbed' = 0 =>
            disturbed = 0 /\ \A e \in tracked : Intact(rec[e].stop) => Intact(rec[e].stop)'
    BY <1>0, <2>1, <2>2, CancelIntact DEF Intact
  <2>4. QED BY <2>1, <2>3, GuardsSteady DEF Places
<1>5. CASE PlaceStop
  <2>1. /\ \A i \in OrderIds : Intact(i) => Intact(i)'
        /\ Intact(lastOrder)' /\ lastOrder' = NextId
    BY <1>0, <1>5, SubmitIntact DEF PlaceStop, Orders
  <2>2. Intact(oid)'
    <3>1. oid' = lastOrder'
      BY <1>5, <2>1 DEF PlaceStop
    <3>2. QED BY <2>1, <3>1 DEF Intact
  <2>3. \A e \in tracked : Intact(rec[e].stop) => Intact(rec[e].stop)'
    <3>1. rec' = rec
      BY <1>5 DEF PlaceStop
    <3>2. QED BY <2>1, <3>1 DEF Intact
  <2>4. QED BY <1>5, <2>2, <2>3, GuardsSteady DEF PlaceStop, Places
<1>6. CASE TrackShort
  <2>1. /\ pc = "entryInsert" /\ pc' = "signals" /\ tracked' = tracked \union {cur}
        /\ rec' = [rec EXCEPT ![cur] = [stop |-> oid, exit |-> NoOrder]]
        /\ UNCHANGED <<orders, disturbed, days>>
    BY <1>6 DEF TrackShort
  <2>2. cur \in Events /\ cur \notin tracked
    BY <2>1 DEF IInv, Rows, CurrentEvent, EntryPoints
  <2>3. /\ rec'[cur].stop = oid /\ \A e \in tracked : rec'[e] = rec[e]
    BY <1>0, <2>1, <2>2
  <2>4. QED BY <2>1, <2>3 DEF Guards, Places, Guarded, Covering, Intact
<1>7. QED BY <1>1, <1>2, <1>3, <1>4, <1>5, <1>6 DEF HandleSignals

LEMMA FlattenAtCloseGuards == ASSUME IInv, IInv', Orders, Guards, FlattenAtClose PROVE Guards'
<1> USE DEF account, thread, memory, journal, counters, ClosePoints
<1>0. TypeOK /\ AccountTypeOK
  BY DEF IInv, TypeOK
<1>1. CASE BeforeClose \/ StartFlatten \/ AllFlattened \/ NothingToFlatten \/ FlattenAll
  BY <1>1, GuardsQuiet
  DEF BeforeClose, StartFlatten, AllFlattened, NothingToFlatten, FlattenAll, Goto, StartLoop,
      Guards, Places, Covering
\* The stops are cancelled with everything else, but every record has its cover.
<1>2. CASE CancelAll \/ CloseAll
  <2>1. /\ pc \in {"cancelAll", "closeAll"} /\ pc' \in {"closeAll", "idle"}
        /\ UNCHANGED <<tracked, rec, disturbed, days>>
    BY <1>2 DEF CancelAll, CloseAll
  <2>2. QED BY <2>1 DEF Guards, Places, Guarded, Covering
<1>3. CASE FlattenFails
  BY <1>0, <1>3, DisturbNoted DEF FlattenFails, Guards
<1>4. ASSUME NEW e \in Events, FlattenSkips(e) \/ FlattenOne(e) PROVE Guards'
  BY <1>4, GuardsQuiet DEF FlattenSkips, FlattenOne, Guards, Places, Covering
<1>5. QED BY <1>1, <1>2, <1>3, <1>4 DEF FlattenAtClose

LEMMA AdvanceShortsGuards == ASSUME IInv, IInv', Orders, Guards, AdvanceShorts PROVE Guards'
<1> USE DEF account, thread, memory, journal, counters, ClosePoints
<1>0. TypeOK /\ tracked \in SUBSET Events /\ rec \in [Events -> Record]
  BY DEF IInv, TypeOK
<1>1. CASE AdvanceDone
  BY <1>1, GuardsQuiet DEF AdvanceDone, Goto, Places
<1>2. ASSUME NEW e \in Events, BookFill(e) PROVE Guards'
  <2>1. /\ pc = "advance" /\ pc' = "advance" /\ UNCHANGED <<orders, disturbed, days>>
        /\ tracked' = tracked \ {e} /\ \A t \in tracked' : rec'[t] = rec[t]
    BY <1>0, <1>2 DEF BookFill, PassOver, Book
  <2>2. QED BY <2>1, GuardsSteady DEF Places, Intact
<1>3. ASSUME NEW e \in Events, LookFails(e) PROVE Guards'
  BY <1>0, <1>3, DisturbNoted DEF LookFails, PassOver, Guards
<1>4. ASSUME NEW e \in Events, CoverPending(e) \/ Hold(e) \/ StartCover(e) PROVE Guards'
  BY <1>4, GuardsQuiet DEF CoverPending, Hold, StartCover, PassOver, Places
<1>5. QED BY <1>1, <1>2, <1>3, <1>4 DEF AdvanceShorts

LEMMA CloseShortGuards == ASSUME IInv, IInv', Orders, Guards, CloseShort PROVE Guards'
<1> USE DEF account, thread, memory, journal, counters, ClosePoints
<1>0. /\ TypeOK /\ AccountTypeOK /\ rec \in [Events -> Record] /\ tracked \in SUBSET Events
      /\ loop \in {"advance", "flatten"} /\ cur \in tracked /\ cur \in Events
  BY DEF IInv, TypeOK, Rows, CurrentEvent, CloseShort, CancelStopForCover, SubmitCover,
         SubmitCoverRaises, BookCover, ParkCover
\* The stop that is cancelled is in no other record.
<1>1. CASE CancelStopForCover
  <2>1. /\ pc = "closeCancel" /\ pc' = "closeBuy" /\ CancelOrder(rec[cur].stop)
        /\ rec' = [rec EXCEPT ![cur].stop = NoOrder] /\ days' = days
        /\ UNCHANGED <<lastOrder, cur, tracked, todo, loop>>
    BY <1>0, <1>1, CancelOrderKept DEF CancelStopForCover
  <2>2. ASSUME NEW e \in tracked \ {cur}, Intact(rec[e].stop), disturbed' = 0
        PROVE  Intact(rec[e].stop)'
    <3>1. rec[e].stop # NoOrder /\ rec[e].stop \in OrderIds
      BY <2>2 DEF Intact, NoOrder, OrderIds
    <3>2. rec[cur].stop # rec[e].stop
      BY <1>0, <3>1 DEF Orders, StopsKnown, OwnStop
    <3>3. rec'[e].stop = rec[e].stop
      BY <1>0, <2>1
    <3>4. QED BY <1>0, <2>1, <2>2, <3>1, <3>2, <3>3, CancelIntact DEF Intact
  <2>3. /\ \A e \in tracked : rec'[e].exit = rec[e].exit
        /\ \A e \in tracked \ {cur} : rec'[e] = rec[e]
    BY <1>0, <2>1 DEF Record
  <2>4. disturbed' = 0 => disturbed = 0
    BY <1>0, <2>1, CancelOrderKept
  <2>5. Guards /\ disturbed' = 0 /\ days' = 0 =>
            Places' /\ \A e \in tracked : Guarded(e)'
    BY <1>0, <2>1, <2>2, <2>3, <2>4 DEF Guards, Places, Guarded, Covering
  <2>6. QED BY <2>1, <2>5 DEF Guards
<1>2. CASE SubmitCover
  <2>1. /\ pc = "closeBuy" /\ pc' = "closeWait" /\ rec' = [rec EXCEPT ![cur].exit = NextId]
        /\ UNCHANGED <<cur, tracked, todo, loop, disturbed, days>>
    BY <1>2 DEF SubmitCover
  <2>2. \A i \in OrderIds : Intact(i) => Intact(i)'
    BY <1>0, <1>2, SubmitIntact DEF SubmitCover, Orders
  <2>3. NextId # NoOrder
    BY <1>0, BrokerAssumption DEF NextId, NoOrder, AccountTypeOK
  <2>4. /\ \A e \in tracked \ {cur} : rec'[e] = rec[e]
        /\ rec'[cur].exit = NextId
    BY <1>0, <2>1 DEF Record
  <2>5. \A e \in tracked : Guarded(e) => Guarded(e)'
    BY <2>1, <2>2, <2>3, <2>4 DEF Guarded, Covering, Intact
  <2>6. QED BY <1>0, <2>1, <2>3, <2>4, <2>5 DEF Guards, Places, Covering
<1>3. CASE SubmitCoverRaises
  BY <1>0, <1>3, DisturbNoted DEF SubmitCoverRaises, Guards
<1>4. CASE BookCover
  <2>1. /\ pc = "closeWait" /\ pc' = loop
        /\ UNCHANGED <<orders, todo, disturbed, days>>
        /\ tracked' = tracked \ {cur} /\ \A t \in tracked' : rec'[t] = rec[t]
    BY <1>0, <1>4 DEF BookCover, NextInLoop, Book
  <2>2. Guards /\ disturbed = 0 /\ days = 0 => Places'
    BY <1>0, <2>1 DEF Guards, Places, Covering
  <2>3. QED BY <2>1, <2>2, GuardsSteady DEF Intact
<1>5. CASE ParkCover
  <2>0. days' = days /\ (disturbed' = 0 => disturbed = 0)
    <3>1. CASE Filled(rec[cur].exit)
      <4>1. Disturb
        BY <1>5, <3>1 DEF ParkCover
      <4>2. QED BY <1>0, <4>1, DisturbNoted DEF Disturb
    <3>2. CASE ~Filled(rec[cur].exit)
      BY <1>5, <3>2 DEF ParkCover
    <3>3. QED BY <3>1, <3>2
  <2>1. /\ pc = "closeWait" /\ pc' = loop /\ UNCHANGED <<orders, todo, tracked, rec, days>>
        /\ disturbed' = 0 => disturbed = 0
    BY <1>5, <2>0 DEF ParkCover, NextInLoop
  <2>2. Guards /\ disturbed = 0 /\ days = 0 => Places'
    BY <1>0, <2>1 DEF Guards, Places, Covering
  <2>3. QED BY <2>1, <2>2, GuardsQuiet
<1>6. QED BY <1>1, <1>2, <1>3, <1>4, <1>5 DEF CloseShort

LEMMA GuardsPreserved == ASSUME IInv, IInv', Orders, Guards, [Next]_vars PROVE Guards'
<1> USE DEF account, thread, memory, journal, counters, ClosePoints
<1>0. TypeOK /\ AccountTypeOK /\ days \in Nat
  BY DEF IInv, TypeOK
<1>1. CASE ReconcileOnStartup
  <2>1. pc \in {"startup", "reconcile"} \union RestartPoints
        /\ pc' \in {"down", "idle", "reconcile"} \union RestartPoints
        /\ tracked' = tracked
    BY <1>1 DEF ReconcileOnStartup, ReadOpenRows, DeferReconcile, CoverOnRestart, CloseRow,
       StartupCrashes, ReconcileDone, CancelRowStop, Goto, NextInLoop, RestartPoints
  <2>2. tracked' = {}
    BY <2>1 DEF IInv, Rows, TrackedAreOpen, Reconciling
  <2>3. QED BY <2>1, <2>2 DEF Guards, Places, RestartPoints
<1>2. CASE Crash \/ Restart
  <2>1. tracked' = {} /\ pc' \in {"down", "startup"}
    BY <1>2 DEF Crash, Restart, Goto, IInv, Rows, TrackedAreOpen, Reconciling
  <2>2. QED BY <2>1 DEF Guards, Places
<1>3. CASE StartTick \/ EventArrives \/ HoldElapses \/ CloseApproaches \/ UNCHANGED vars
  <2>1. /\ UNCHANGED <<orders, tracked, rec, cur, oid, todo, loop, disturbed, days>>
        /\ pc' = pc \/ pc' = "signals"
    BY <1>3 DEF StartTick, EventArrives, HoldElapses, CloseApproaches, Goto, vars
  <2>2. \A e : Guarded(e) => Guarded(e)' \/ (pc = "closeBuy" /\ pc' = "signals")
    BY <2>1 DEF Guarded, Covering, Intact
  <2>3. pc' = "signals" => pc \in {"idle", "signals"}
    BY <1>3 DEF StartTick, EventArrives, HoldElapses, CloseApproaches, Goto, vars
  <2>4. QED BY <2>1, <2>2, <2>3 DEF Guards, Places, Covering, Intact
<1>4. CASE AccountMoves
  <2>1. UNCHANGED <<tracked, rec, cur, pc, oid, todo, loop>> /\ days' = days
    BY <1>4 DEF AccountMoves, Disturb
  <2>2. disturbed' = 0 => disturbed = 0 /\ \A j \in OrderIds : Intact(j) => Intact(j)'
    BY <1>0, <1>4, MovesIntact, DisturbNoted DEF AccountMoves
  <2>3. disturbed' = 0 => \A e \in tracked : Guarded(e) => Guarded(e)'
    BY <2>1, <2>2 DEF Guarded, Covering, Intact
  <2>4. disturbed' = 0 => (Places => Places')
    BY <2>1, <2>2 DEF Places, Covering, Intact
  <2>5. QED BY <2>1, <2>2, <2>3, <2>4 DEF Guards
<1>5. CASE NextSession
  BY <1>0, <1>5 DEF NextSession, Guards
<1>6. QED
  BY <1>1, <1>2, <1>3, <1>4, <1>5, HandleSignalsGuards, FlattenAtCloseGuards,
     AdvanceShortsGuards, CloseShortGuards
  DEF Next, Tick

\* While no call fails, a tracked short has its stop, filled or resting, or a cover, at
\* every point of a session between two ticks: no cancel for one short takes the stop
\* of another, and the flatten cancels stops only when all the covers are sent.
THEOREM Protected == Spec => []ShortsProtected
<1>1. IInv /\ Orders /\ Guards /\ [Next]_vars => IInv' /\ Orders' /\ Guards'
  <2>1. IInv /\ [Next]_vars => IInv'
    BY TypePreserved, RowsPreserved DEF IInv
  <2>2. QED BY <2>1, OrdersPreserved, GuardsPreserved
<1>2. Init => Guards
  BY DEF Init, Guards, Places, ClosePoints
<1>3. Guards => ShortsProtected
  BY DEF Guards, Guarded, Covering, Intact, ShortsProtected, Live, Filled, LiveStatuses
<1>4. QED BY <1>1, <1>2, <1>3, InitIInv, InitOrders, PTL DEF Spec

-----------------------------------------------------------------------------
(* What a ticker's orders add up to.  Cover by cover nothing can be said: the      *)
(* flatten buys back whatever the account is short, and so does the startup.  So the *)
(* invariant is about the sum: a ticker is short by what its open short has sold,   *)
(* and by the covers the startup has sent and not waited for.                      *)

Calm == disturbed = 0 /\ days = 0

InHand(e) == pc \in EntryPoints /\ cur = e
Closed(e) == row[e] \in {"priced", "unpriced"}

\* Nobody will ever open the event's row: its short, if it has one, is not known of.
Lost(e) ==
    /\ row[e] = "none" /\ ~InHand(e)
    /\ \E i \in 1 .. lastOrder : orders[i].owner = e
Excused(c) == \E e \in Events : TickerOf[e] = c /\ Lost(e)

Sold(e) == \E i \in OrderIds : Filled(i) /\ orders[i].owner = e /\ orders[i].kind = "entry"
BoughtBack(e) ==
    \E i \in OrderIds : Filled(i) /\ orders[i].owner = e /\ orders[i].kind # "entry"

\* A lot that the bot knows to be short.
Exposed(e) == (row[e] = "open" \/ InHand(e)) /\ Sold(e) /\ ~BoughtBack(e)
Owed(c) == IF \E e \in Events : TickerOf[e] = c /\ Exposed(e) THEN 1 ELSE 0

\* The covers of rows that were closed without waiting for the fill.
Awaited(c) == {i \in OrderIds : /\ i <= lastOrder /\ orders[i].status = "new"
                                /\ orders[i].kind = "exit" /\ orders[i].contract = c
                                /\ Closed(orders[i].owner)}

\* A flatten has sent an order for all the ticker is short.
Liquidated(c) == liquidation[c] > 0 /\ net[c] + liquidation[c] >= 0

\* Between the two halves of a flatten nothing can be said of a ticker whose covers
\* the first half has cancelled; a second death there leaves it at that.
Foreseen == (crashes <= 1 \/ ~late) /\ pc # "closeAll"

\* The startup has seen that the ticker is not short.
SeenCovered(c) == pc \in {"reconcile"} \union RestartPoints /\ c \notin seenShort

AccountOf(c) ==
    /\ liquidation[c] < 0 => net[c] + liquidation[c] >= 0
    /\ crashes = 0 => net[c] >= -Owed(c)
    /\ Foreseen => net[c] >= -(Owed(c) + Cardinality(Awaited(c))) \/ Liquidated(c)
    /\ SeenCovered(c) => net[c] >= 0

Accounts == \A c \in Contracts : ~Excused(c) => AccountOf(c)

OwnExit(e, i) == i \in 1 .. lastOrder /\ orders[i].kind = "exit" /\ orders[i].owner = e

\* What an order does to the account is told by its kind and its owner.
Lots ==
    \A i \in 1 .. lastOrder :
        /\ orders[i].contract = TickerOf[orders[i].owner]
        /\ orders[i].delta = IF orders[i].kind = "entry" THEN -1 ELSE 1

\* An entry that may still fill is that of an event without a row.
Entries ==
    /\ \A i \in 1 .. lastOrder : orders[i].kind = "entry" /\ Live(i) =>
           /\ row[orders[i].owner] = "none"
           /\ pc \in {"entryStop", "entryInsert"} => orders[i].owner # cur
    /\ pc \in EntryPoints =>
           /\ \E i \in 1 .. lastOrder : orders[i].owner = cur
           /\ \A t \in tracked : TickerOf[t] # TickerOf[cur]
    /\ pc \in {"entryWait", "entryCancel"} =>
           \A i \in 1 .. lastOrder : orders[i].owner = cur => i = oid

WaysOut ==
    /\ \A e \in tracked : rec[e].exit # NoOrder => OwnExit(e, rec[e].exit)
    /\ \A e \in Events : rowStop[e] # NoOrder => OwnStop(e, rowStop[e])
    /\ pc = "restartWait" => OwnExit(cur, oid) /\ orders[oid].status \in {"new", "filled"}
    /\ pc = "restartOrphan" => TickerOf[cur] \notin seenShort

\* Nothing is liquidated before 15:55, and nothing is sold short after it.
Hours ==
    /\ ~deferred
    /\ pc \in {"flatten", "flattenAll", "cancelAll", "closeAll"} => late
    /\ pc \in ClosePoints /\ loop = "flatten" => late
    /\ \A c \in Contracts : liquidation[c] # 0 => late /\ pc \notin EntryPoints

Covered == Calm => Accounts /\ Lots /\ Entries /\ WaysOut /\ Hours

LEMMA OwedIs == ASSUME NEW c PROVE Owed(c) \in {0, 1}
BY DEF Owed

LEMMA AwaitedIs ==
    ASSUME NEW c
    PROVE  /\ IsFiniteSet(Awaited(c)) /\ Cardinality(Awaited(c)) \in Nat
           /\ IsFiniteSet(Awaited(c)') /\ Cardinality(Awaited(c)') \in Nat
<1>1. IsFiniteSet(OrderIds)
  BY FS_Interval, BrokerAssumption DEF OrderIds
<1>2. Awaited(c) \subseteq OrderIds /\ Awaited(c)' \subseteq OrderIds
  BY DEF Awaited
<1>3. QED BY <1>1, <1>2, FS_Subset, FS_CardinalityType

\* A step that moves neither the position nor a liquidation, and keeps what is owed and
\* what is awaited, unless it loses the short for good.
LEMMA ContractSteady ==
    ASSUME TypeOK, NEW c \in Contracts, AccountOf(c), ~Excused(c)',
           net'[c] = net[c], liquidation'[c] = liquidation[c],
           \A e \in Events : TickerOf[e] = c /\ Exposed(e) => Exposed(e)' \/ Lost(e)',
           Awaited(c) \subseteq Awaited(c)',
           crashes' = 0 => crashes = 0,
           Foreseen' => Foreseen \/ crashes = 0,
           SeenCovered(c)' => SeenCovered(c) \/ net[c] >= 0
    PROVE  AccountOf(c)'
<1>1. net[c] \in Int /\ liquidation[c] \in Int
  BY DEF TypeOK, AccountTypeOK
<1>2. Owed(c) \in {0, 1} /\ Owed(c)' \in {0, 1} /\ Owed(c) <= Owed(c)'
  <2>1. \A e \in Events : TickerOf[e] = c => ~Lost(e)'
    BY DEF Excused
  <2>2. QED BY <2>1 DEF Owed
<1>3. /\ Cardinality(Awaited(c)) \in Nat /\ Cardinality(Awaited(c)') \in Nat
      /\ Cardinality(Awaited(c)) <= Cardinality(Awaited(c)')
  BY AwaitedIs, FS_Subset
<1>4. Liquidated(c) => Liquidated(c)'
  BY DEF Liquidated
<1>5. QED BY <1>1, <1>2, <1>3, <1>4 DEF AccountOf

\* What a step may do to the orders without a lot changing hands.
NoFill == \A i \in OrderIds :
    Filled(i) \/ Filled(i)' =>
        /\ Filled(i) /\ Filled(i)'
        /\ orders'[i].kind = orders[i].kind /\ orders'[i].owner = orders[i].owner

LEMMA LotsStay ==
    ASSUME NoFill, NEW e
    PROVE  Sold(e)' = Sold(e) /\ BoughtBack(e)' = BoughtBack(e)
BY DEF NoFill, Sold, BoughtBack

\* What was lost stays lost.
LEMMA StaysLost ==
    ASSUME NEW e \in Events, Lost(e), row'[e] = row[e], ~InHand(e)',
           \A i \in 1 .. lastOrder : i \in 1 .. lastOrder' /\ SameOrder(i)
    PROVE  Lost(e)'
BY DEF Lost, SameOrder

\* The event in hand has an order, so it is lost when the handler gives up on it.
LEMMA HandLost ==
    ASSUME IInv, Entries, NEW e \in Events, InHand(e), row'[e] = row[e], ~InHand(e)',
           \A i \in 1 .. lastOrder : i \in 1 .. lastOrder' /\ SameOrder(i)
    PROVE  Lost(e)'
<1>1. row[e] = "none" /\ \E i \in 1 .. lastOrder : orders[i].owner = e
  BY DEF InHand, Entries, IInv, Rows, CurrentEvent
<1>2. QED BY <1>1 DEF Lost, SameOrder

\* A step that leaves the account and the rows alone: at most a handler that gives up.
LEMMA StillCovered ==
    ASSUME IInv, IInv', Covered, UNCHANGED <<account, row, rowStop>>,
           tracked' \subseteq tracked, \A e \in tracked' : rec'[e].exit = rec[e].exit,
           Calm' => Calm /\ Hours',
           crashes' = 0 => crashes = 0,
           Calm' /\ Foreseen' => Foreseen \/ crashes = 0,
           \A c \in Contracts : SeenCovered(c)' => SeenCovered(c) \/ net[c] >= 0,
           pc' \in EntryPoints => pc \in EntryPoints /\ cur' = cur,
           pc' \in {"entryWait", "entryCancel"} =>
               pc \in {"entryWait", "entryCancel"} /\ oid' = oid,
           pc' = "entryStop" => pc = "entryStop" \/ (Calm => \A i \in 1 .. lastOrder :
               orders[i].kind = "entry" /\ Live(i) => orders[i].owner # cur),
           pc' = "entryInsert" => pc = "entryInsert",
           pc' = "restartWait" => pc = "restartWait" /\ cur' = cur /\ oid' = oid,
           pc' = "restartOrphan" => pc = "restartOrphan" /\ cur' = cur /\ seenShort' = seenShort
    PROVE  Covered'
<1> SUFFICES ASSUME Calm' PROVE Accounts' /\ Lots' /\ Entries' /\ WaysOut' /\ Hours'
  BY DEF Covered
<1> USE DEF account
<1>0. /\ Accounts /\ Lots /\ Entries /\ WaysOut /\ Hours' /\ Calm
      /\ TypeOK
  BY DEF Covered, IInv
<1>1. \A i \in OrderIds : SameOrder(i)
  BY DEF SameOrder
<1>2. \A i \in 1 .. lastOrder : i \in 1 .. lastOrder' /\ SameOrder(i)
  BY DEF SameOrder
<1>3. Accounts'
  <2> SUFFICES ASSUME NEW c \in Contracts, ~Excused(c)' PROVE AccountOf(c)'
    BY DEF Accounts
  <2>1. ~Excused(c)
    <3>1. ASSUME NEW e \in Events, TickerOf[e] = c, Lost(e) PROVE Lost(e)'
      BY <1>2, <3>1, StaysLost DEF Lost, InHand
    <3>2. QED BY <3>1 DEF Excused
  <2>2. ASSUME NEW e \in Events, TickerOf[e] = c, Exposed(e) PROVE Exposed(e)' \/ Lost(e)'
    <3>1. Sold(e)' = Sold(e) /\ BoughtBack(e)' = BoughtBack(e)
      BY LotsStay DEF NoFill, Filled
    <3>2. CASE row[e] = "open" \/ InHand(e)'
      BY <2>2, <3>1, <3>2 DEF Exposed
    <3>3. CASE row[e] # "open" /\ ~InHand(e)'
      BY <1>0, <1>2, <2>2, <3>3, HandLost DEF Exposed
    <3>4. QED BY <3>2, <3>3
  <2>3. Awaited(c) = Awaited(c)'
    BY DEF Awaited, Closed
  <2>4. QED BY <1>0, <2>1, <2>2, <2>3, ContractSteady DEF Accounts
<1>4. Lots'
  BY <1>0 DEF Lots
<1>5. Entries'
  BY <1>0 DEF Entries, Live, LiveStatuses, EntryPoints
<1>6. WaysOut'
  BY <1>0 DEF WaysOut, OwnExit, OwnStop
<1>7. QED BY <1>0, <1>3, <1>4, <1>5, <1>6

LEMMA HandleSignalsStill ==
    ASSUME IInv, IInv', Orders, Covered,
           RejectSignal \/ EntryFilled \/ EntryNotFilled \/ SignalsDrained
             \/ SignalHandlingFails
    PROVE  Covered'
<1> USE DEF account, thread, memory, journal, counters
<1>0. TypeOK
  BY DEF IInv
<1>1. CASE SignalHandlingFails
  BY <1>0, <1>1, DisturbNoted DEF SignalHandlingFails, Covered, Calm
<1>2. CASE RejectSignal \/ EntryFilled \/ EntryNotFilled \/ SignalsDrained
  <2>1. /\ UNCHANGED <<account, row, rowStop, tracked, rec, disturbed, days, crashes, late, cur,
                       oid, loop, deferred, seenShort>>
        /\ pc' \in {"signals", "entryStop", "entryCancel", "clock"}
        /\ pc \in {"signals", "entryWait"} /\ (pc' \in EntryPoints => pc = "entryWait")
    BY <1>2 DEF RejectSignal, EntryFilled, EntryNotFilled, SignalsDrained, Goto, EntryPoints
  <2>2. Calm /\ pc' = "entryStop" => \A i \in 1 .. lastOrder :
            orders[i].kind = "entry" /\ Live(i) => orders[i].owner # cur
    BY <1>2 DEF RejectSignal, EntryFilled, EntryNotFilled, SignalsDrained, Goto, Covered,
                Entries, Filled, Live, LiveStatuses
  <2>3. Calm => Hours'
    BY <2>1 DEF Covered, Hours, ClosePoints, EntryPoints
  <2>4. /\ Calm' => Calm
        /\ Foreseen' => Foreseen
        /\ \A c \in Contracts : ~SeenCovered(c)'
    BY <2>1 DEF Calm, Foreseen, SeenCovered, RestartPoints
  <2>5. QED BY <2>1, <2>2, <2>3, <2>4, StillCovered DEF EntryPoints
<1>3. QED BY <1>1, <1>2

LEMMA FlattenAtCloseStill ==
    ASSUME IInv, IInv', Covered, FlattenAtClose, ~CancelAll, ~CloseAll
    PROVE  Covered'
<1> USE DEF account, thread, memory, journal, counters
<1>0. TypeOK
  BY DEF IInv
<1>1. CASE FlattenFails
  BY <1>0, <1>1, DisturbNoted DEF FlattenFails, Covered, Calm
<1>2. CASE ~FlattenFails
  <2>1. /\ UNCHANGED <<account, row, rowStop, tracked, rec, disturbed, days, crashes, late,
                       deferred, seenShort>>
        /\ pc' \in {"advance", "flatten", "flattenAll", "idle", "cancelAll", "closeCancel"}
        /\ pc \in {"clock", "flatten", "flattenAll"}
        /\ pc = "clock" /\ pc' # "advance" => late
        /\ pc # "clock" => pc' # "advance"
    BY <1>2 DEF FlattenAtClose, BeforeClose, StartFlatten, AllFlattened, NothingToFlatten,
                FlattenAll, FlattenSkips, FlattenOne, Goto, StartLoop
  <2>2. Calm => Hours'
    BY <2>1 DEF Covered, Hours, ClosePoints, EntryPoints
  <2>3. /\ Calm' => Calm
        /\ Foreseen' => Foreseen
        /\ \A c \in Contracts : ~SeenCovered(c)'
        /\ pc' \notin EntryPoints \union RestartPoints
    BY <2>1 DEF Calm, Foreseen, SeenCovered, RestartPoints, EntryPoints
  <2>4. QED BY <2>1, <2>2, <2>3, StillCovered DEF EntryPoints, RestartPoints
<1>3. QED BY <1>1, <1>2

LEMMA AdvanceShortsStill ==
    ASSUME IInv, IInv', Covered, AdvanceShorts, \A e \in Events : ~BookFill(e)
    PROVE  Covered'
<1> USE DEF account, thread, memory, journal, counters
<1>0. TypeOK
  BY DEF IInv
<1>1. CASE \E e \in Events : LookFails(e)
  BY <1>0, <1>1, DisturbNoted DEF LookFails, Covered, Calm
<1>2. CASE ~ \E e \in Events : LookFails(e)
  <2>1. /\ UNCHANGED <<account, row, rowStop, tracked, rec, disturbed, days, crashes, late,
                       deferred, seenShort>>
        /\ pc' \in {"advance", "idle", "closeCancel"} /\ pc = "advance"
        /\ pc' = "closeCancel" => loop' = "advance"
    BY <1>2 DEF AdvanceShorts, AdvanceDone, CoverPending, Hold, StartCover, PassOver, Goto
  <2>2. Calm => Hours'
    BY <2>1 DEF Covered, Hours, ClosePoints, EntryPoints
  <2>3. /\ Calm' => Calm
        /\ Foreseen' => Foreseen
        /\ \A c \in Contracts : ~SeenCovered(c)'
        /\ pc' \notin EntryPoints \union RestartPoints
    BY <2>1 DEF Calm, Foreseen, SeenCovered, RestartPoints, EntryPoints
  <2>4. QED BY <2>1, <2>2, <2>3, StillCovered DEF EntryPoints, RestartPoints
<1>3. QED BY <1>1, <1>2

LEMMA ParkCoverStill == ASSUME IInv, IInv', Covered, ParkCover PROVE Covered'
<1> USE DEF account, thread, memory, journal, counters
<1>0. TypeOK /\ loop \in {"advance", "flatten"}
  BY DEF IInv, TypeOK
<1>1. CASE disturbed' # 0
  BY <1>1 DEF Covered, Calm
<1>2. CASE disturbed' = 0
  <2>0. UNCHANGED <<disturbed, days, crashes>>
    BY <1>0, <1>2, DisturbNoted DEF ParkCover
  <2>1. /\ UNCHANGED <<account, row, rowStop, tracked, rec, late, deferred, seenShort, loop>>
        /\ pc' = loop /\ pc = "closeWait"
    BY DEF ParkCover, NextInLoop
  <2>2. Calm => Hours'
    BY <1>0, <2>1 DEF Covered, Hours, ClosePoints, EntryPoints
  <2>3. /\ Calm' => Calm
        /\ Foreseen' => Foreseen
        /\ \A c \in Contracts : ~SeenCovered(c)'
        /\ pc' \notin EntryPoints \union RestartPoints
    BY <1>0, <2>0, <2>1 DEF Calm, Foreseen, SeenCovered, RestartPoints, EntryPoints
  <2>4. QED BY <2>0, <2>1, <2>2, <2>3, StillCovered DEF EntryPoints, RestartPoints
<1>3. QED BY <1>1, <1>2

LEMMA CrashStill == ASSUME IInv, IInv', Covered, Crash PROVE Covered'
<1> USE DEF account, thread, memory, journal, counters
<1>0. TypeOK /\ crashes \in Nat
  BY DEF IInv, TypeOK
<1>1. /\ UNCHANGED <<account, row, rowStop, disturbed, days, late>>
      /\ crashes' = crashes + 1 /\ pc' = "down" /\ tracked' = {} /\ deferred' = FALSE
  BY DEF Crash
<1>2. Calm' => Calm /\ Hours'
  BY <1>1 DEF Covered, Hours, ClosePoints, EntryPoints, Calm
<1>3. Calm' /\ Foreseen' => Foreseen \/ crashes = 0
  BY <1>0, <1>1, <1>2 DEF Foreseen, Covered, Hours
<1>4. (\A c \in Contracts : ~SeenCovered(c)') /\ crashes' # 0
  BY <1>0, <1>1 DEF SeenCovered, RestartPoints
<1>5. QED BY <1>1, <1>2, <1>3, <1>4, StillCovered DEF EntryPoints

LEMMA SurroundingsStill ==
    ASSUME IInv, IInv', Covered,
           StartTick \/ Restart \/ EventArrives \/ HoldElapses \/ CloseApproaches
             \/ NextSession \/ UNCHANGED vars
    PROVE  Covered'
<1> USE DEF account, thread, memory, journal, counters
<1>0. TypeOK /\ days \in Nat
  BY DEF IInv, TypeOK
<1>1. CASE NextSession
  BY <1>0, <1>1 DEF NextSession, Covered, Calm
<1>2. CASE ~NextSession
  <2>1. /\ UNCHANGED <<account, row, rowStop, tracked, rec, disturbed, days, crashes, deferred,
                       seenShort, cur, oid, loop>>
        /\ pc' = pc \/ pc' \in {"signals", "startup"}
        /\ pc # pc' => pc \in {"idle", "down"}
        /\ late' = late \/ late'
    BY <1>2 DEF StartTick, Restart, EventArrives, HoldElapses, CloseApproaches, Goto, vars
  <2>2. Calm => Hours'
    BY <2>1 DEF Covered, Hours, ClosePoints, EntryPoints
  <2>3. /\ Calm' => Calm
        /\ Foreseen' => Foreseen
        /\ \A c \in Contracts : SeenCovered(c)' => SeenCovered(c)
    BY <2>1 DEF Calm, Foreseen, SeenCovered, RestartPoints
  <2>4. QED BY <2>1, <2>2, <2>3, StillCovered DEF EntryPoints, RestartPoints
<1>3. QED BY <1>1, <1>2

LEMMA StartupStill ==
    ASSUME IInv, IInv', Covered,
           ReadOpenRows \/ DeferReconcile \/ StartupCrashes \/ ReconcileDone
    PROVE  Covered'
<1> USE DEF account, thread, memory, journal, counters
<1>0. TypeOK /\ AccountTypeOK
  BY DEF IInv, TypeOK
<1>1. CASE DeferReconcile \/ StartupCrashes
  BY <1>0, <1>1, DisturbNoted DEF DeferReconcile, StartupCrashes, Covered, Calm
<1>2. CASE ReadOpenRows \/ ReconcileDone
  <2>1. /\ UNCHANGED <<account, row, rowStop, tracked, rec, disturbed, days, crashes, deferred,
                       late, cur, oid, loop>>
        /\ pc \in {"startup", "reconcile"} /\ pc' \in {"reconcile", "idle"}
        /\ pc' = "reconcile" => seenShort' = ShortContracts
    BY <1>2 DEF ReadOpenRows, ReconcileDone, Goto
  <2>2. Calm => Hours'
    BY <2>1 DEF Covered, Hours, ClosePoints, EntryPoints
  <2>3. \A c \in Contracts : SeenCovered(c)' => net[c] >= 0
    BY <1>0, <2>1 DEF SeenCovered, RestartPoints, ShortContracts, AccountTypeOK
  <2>4. /\ Calm' => Calm
        /\ Foreseen' => Foreseen
    BY <2>1 DEF Calm, Foreseen
  <2>5. QED BY <2>1, <2>2, <2>3, <2>4, StillCovered DEF EntryPoints
<1>3. QED BY <1>1, <1>2

LEMMA TrackShortCovered == ASSUME IInv, IInv', Orders, Covered, TrackShort PROVE Covered'
<1> SUFFICES ASSUME Calm' PROVE Accounts' /\ Lots' /\ Entries' /\ WaysOut' /\ Hours'
  BY DEF Covered
<1> USE DEF account, counters
<1>1. /\ pc = "entryInsert" /\ pc' = "signals" /\ tracked' = tracked \union {cur}
      /\ row' = [row EXCEPT ![cur] = "open"] /\ rowStop' = [rowStop EXCEPT ![cur] = oid]
      /\ rec' = [rec EXCEPT ![cur] = [stop |-> oid, exit |-> NoOrder]]
      /\ UNCHANGED <<orders, lastOrder, net, liquidation, late, disturbed, crashes, days,
                     deferred, seenShort>>
  BY DEF TrackShort
<1>2. /\ TypeOK /\ tracked \in SUBSET Events /\ rec \in [Events -> Record]
      /\ row \in [Events -> {"none", "open", "priced", "unpriced"}]
      /\ rowStop \in [Events -> OrderRefs]
      /\ cur \in Events /\ cur \notin tracked /\ row[cur] = "none"
  BY <1>1 DEF IInv, TypeOK, Rows, CurrentEvent, EntryPoints, Ledger!TypeOK, Ledger!Statuses
<1>3. /\ Accounts /\ Lots /\ Entries /\ WaysOut /\ Hours /\ Calm
  BY <1>1 DEF Covered, Calm
<1>4. \A i \in 1 .. lastOrder : i \in 1 .. lastOrder' /\ SameOrder(i)
  BY <1>1 DEF SameOrder
<1>5. \A e \in Events : InHand(e) <=> e = cur
  BY <1>1 DEF InHand, EntryPoints
<1>6. Accounts'
  <2> SUFFICES ASSUME NEW c \in Contracts, ~Excused(c)' PROVE AccountOf(c)'
    BY DEF Accounts
  <2>1. ~Excused(c)
    <3>1. ASSUME NEW e \in Events, TickerOf[e] = c, Lost(e) PROVE Lost(e)'
      <4>1. e # cur
        BY <1>5, <3>1 DEF Lost
      <4>2. row'[e] = row[e] /\ ~InHand(e)'
        BY <1>1, <1>2, <4>1 DEF InHand, EntryPoints
      <4>3. QED BY <1>4, <3>1, <4>2, StaysLost
    <3>2. QED BY <3>1 DEF Excused
  <2>2. ASSUME NEW e \in Events, TickerOf[e] = c, Exposed(e) PROVE Exposed(e)'
    <3>1. Sold(e)' = Sold(e) /\ BoughtBack(e)' = BoughtBack(e)
      BY <1>1, LotsStay DEF NoFill, Filled
    <3>2. row'[e] = "open"
      BY <1>1, <1>2, <1>5, <2>2 DEF Exposed
    <3>3. QED BY <2>2, <3>1, <3>2 DEF Exposed
  <2>3. Awaited(c) \subseteq Awaited(c)'
    <3>1. \A i \in OrderIds : Closed(orders[i].owner) => Closed(orders[i].owner)'
      BY <1>1, <1>2 DEF Closed
    <3>2. QED BY <1>1, <3>1 DEF Awaited, Closed
  <2>4. Foreseen' => Foreseen
    BY <1>1 DEF Foreseen
  <2>5. ~SeenCovered(c)'
    BY <1>1 DEF SeenCovered, RestartPoints
  <2>6. QED BY <1>1, <1>2, <1>3, <2>1, <2>2, <2>3, <2>4, <2>5, ContractSteady DEF Accounts
<1>7. Lots'
  BY <1>1, <1>3 DEF Lots
<1>8. Entries'
  <2>1. \A i \in 1 .. lastOrder : orders[i].owner \in Events
    BY OwnersAreEvents DEF IInv, TypeOK, Orders
  <2>2. QED BY <1>1, <1>2, <1>3, <2>1 DEF Entries, Live, LiveStatuses, EntryPoints
<1>9. WaysOut'
  <2>1. oid # NoOrder => OwnStop(cur, oid)
    BY <1>1 DEF Orders, StopsKnown
  <2>2. /\ rec'[cur].exit = NoOrder /\ rowStop'[cur] = oid
        /\ \A e \in Events \ {cur} : rec'[e] = rec[e] /\ rowStop'[e] = rowStop[e]
    BY <1>1, <1>2
  <2>3. QED BY <1>1, <1>2, <1>3, <2>1, <2>2 DEF WaysOut, OwnExit, OwnStop
<1>10. Hours'
  BY <1>1, <1>3 DEF Hours, ClosePoints, EntryPoints
<1>11. QED BY <1>6, <1>7, <1>8, <1>9, <1>10

\* A row is closed whose short is bought back, or is awaited from now on, or whose
\* ticker is seen not to be short.
LEMMA RowClosed ==
    ASSUME IInv, IInv', Orders, Covered, NEW e \in Events, NEW closed \in {"priced", "unpriced"},
           row' = [row EXCEPT ![e] = closed], row[e] = "open",
           UNCHANGED <<account, rowStop, late, disturbed, crashes, days, deferred>>,
           tracked' \subseteq tracked, \A t \in tracked' : rec'[t] = rec[t],
           SeenCovered(TickerOf[e])' => SeenCovered(TickerOf[e]),
           \A c \in Contracts : SeenCovered(c)' => SeenCovered(c),
           Foreseen' => Foreseen,
           pc \notin EntryPoints, pc' \in {"advance", "flatten", "reconcile"},
           pc' = "flatten" => pc \in ClosePoints /\ loop = "flatten",
           Calm => \/ BoughtBack(e)
                   \/ /\ crashes # 0
                      /\ \E i \in OrderIds : i <= lastOrder /\ orders[i].status = "new"
                             /\ orders[i].kind = "exit" /\ orders[i].owner = e
                   \/ SeenCovered(TickerOf[e])
    PROVE  Covered'
<1> SUFFICES ASSUME Calm' PROVE Accounts' /\ Lots' /\ Entries' /\ WaysOut' /\ Hours'
  BY DEF Covered
<1> USE DEF account
<1>1. /\ TypeOK /\ AccountTypeOK
      /\ row \in [Events -> {"none", "open", "priced", "unpriced"}]
  BY DEF IInv, TypeOK, Ledger!TypeOK, Ledger!Statuses
<1>2. /\ Accounts /\ Lots /\ Entries /\ WaysOut /\ Hours /\ Calm
  BY DEF Covered, Calm
<1>3. \A i \in 1 .. lastOrder : i \in 1 .. lastOrder' /\ SameOrder(i)
  BY DEF SameOrder
<1>4. \A t \in Events : ~InHand(t) /\ ~InHand(t)'
  BY DEF InHand, EntryPoints
<1>5. Accounts'
  <2> SUFFICES ASSUME NEW c \in Contracts, ~Excused(c)' PROVE AccountOf(c)'
    BY DEF Accounts
  <2>1. ~Excused(c)
    <3>1. ASSUME NEW t \in Events, TickerOf[t] = c, Lost(t) PROVE Lost(t)'
      <4>1. row'[t] = row[t]
        BY <1>1, <3>1 DEF Lost
      <4>2. QED BY <1>3, <1>4, <3>1, <4>1, StaysLost
    <3>2. QED BY <3>1 DEF Excused
  <2>2. ASSUME NEW t \in Events, TickerOf[t] = c, Exposed(t), t # e PROVE Exposed(t)'
    <3>1. Sold(t)' = Sold(t) /\ BoughtBack(t)' = BoughtBack(t)
      BY LotsStay DEF NoFill, Filled
    <3>2. QED BY <1>1, <1>4, <2>2, <3>1 DEF Exposed
  <2>3. /\ Awaited(c) \subseteq Awaited(c)'
        /\ \A i \in OrderIds : i <= lastOrder /\ orders[i].status = "new"
               /\ orders[i].kind = "exit" /\ orders[i].owner = e /\ orders[i].contract = c
               => i \in Awaited(c)' \ Awaited(c)
    <3>1. /\ \A i \in OrderIds : Closed(orders[i].owner) => Closed(orders[i].owner)'
          /\ ~Closed(e) /\ Closed(e)'
      BY <1>1 DEF Closed
    <3>2. QED BY <3>1 DEF Awaited, Closed
  <2>4. CASE TickerOf[e] # c \/ BoughtBack(e)
    <3>1. \A t \in Events : TickerOf[t] = c /\ Exposed(t) => Exposed(t)'
      BY <2>2, <2>4 DEF Exposed
    <3>2. QED BY <1>1, <1>2, <2>1, <2>3, <3>1, ContractSteady DEF Accounts
  <2>5. AccountOf(c) /\ net[c] \in Int /\ liquidation[c] \in Int
    BY <1>1, <1>2, <2>1 DEF Accounts, AccountTypeOK
  <2>6. /\ Owed(c) \in {0, 1} /\ Owed(c)' \in {0, 1}
        /\ Cardinality(Awaited(c)) \in Nat /\ Cardinality(Awaited(c)') \in Nat
    <3>1. Owed(c)' \in {0, 1}
      BY DEF Owed
    <3>2. QED BY <3>1, OwedIs, AwaitedIs
  <2>7. CASE TickerOf[e] = c /\ SeenCovered(c)
    <3>1. net[c] >= 0
      BY <2>5, <2>7 DEF AccountOf
    <3>2. QED BY <2>5, <2>6, <3>1 DEF AccountOf
  <2>8. CASE /\ TickerOf[e] = c /\ crashes # 0
             /\ \E i \in OrderIds : i <= lastOrder /\ orders[i].status = "new"
                    /\ orders[i].kind = "exit" /\ orders[i].owner = e
    <3>1. PICK i \in OrderIds : i <= lastOrder /\ orders[i].status = "new"
                    /\ orders[i].kind = "exit" /\ orders[i].owner = e
      BY <2>8
    <3>2. orders[i].contract = c
      <4>1. i \in 1 .. lastOrder
        BY <1>1, <3>1, BrokerAssumption DEF OrderIds, AccountTypeOK
      <4>2. QED BY <1>2, <2>8, <3>1, <4>1 DEF Lots
    <3>3. i \in Awaited(c)' \ Awaited(c)
      BY <2>3, <3>1, <3>2
    <3>4. Cardinality(Awaited(c)) + 1 <= Cardinality(Awaited(c)')
      <4>1. /\ IsFiniteSet(Awaited(c) \union {i})
            /\ Cardinality(Awaited(c) \union {i}) = Cardinality(Awaited(c)) + 1
        BY <3>3, AwaitedIs, FS_AddElement
      <4>2. Awaited(c) \union {i} \subseteq Awaited(c)'
        BY <2>3, <3>3
      <4>3. QED BY <4>1, <4>2, AwaitedIs, FS_Subset
    <3>5. Liquidated(c) => Liquidated(c)'
      BY DEF Liquidated
    <3>6. QED BY <2>5, <2>6, <2>8, <3>4, <3>5 DEF AccountOf
  <2>9. QED BY <1>2, <2>4, <2>7, <2>8
<1>6. Lots'
  BY <1>2 DEF Lots
<1>7. Entries'
  BY <1>1, <1>2 DEF Entries, Live, LiveStatuses, EntryPoints
<1>8. WaysOut'
  BY <1>2 DEF WaysOut, OwnExit, OwnStop
<1>9. Hours'
  BY <1>2 DEF Hours, ClosePoints, EntryPoints
<1>10. QED BY <1>5, <1>6, <1>7, <1>8, <1>9

LEMMA BookFillCovered ==
    ASSUME IInv, IInv', Orders, Covered, NEW e \in Events, BookFill(e)
    PROVE  Covered'
<1> USE DEF account, counters
<1>1. /\ pc = "advance" /\ pc' = "advance" /\ e \in tracked /\ row[e] = "open"
      /\ row' = [row EXCEPT ![e] = "priced"] /\ tracked' = tracked \ {e}
      /\ \A t \in tracked' : rec'[t] = rec[t]
      /\ UNCHANGED <<account, rowStop, late, disturbed, crashes, days, deferred>>
  BY DEF BookFill, PassOver, Book, IInv, Rows, LoopOverShorts, TrackedAreOpen, OpenRows, TypeOK
<1>2. Calm => BoughtBack(e)
  <2>1. Calm /\ rec[e].exit # NoOrder => OwnExit(e, rec[e].exit)
    BY <1>1 DEF Covered, WaysOut
  <2>2. rec[e].stop # NoOrder => OwnStop(e, rec[e].stop)
    BY <1>1 DEF Orders, StopsKnown
  <2>3. Filled(WayOut(e))
    BY DEF BookFill
  <2>4. WayOut(e) # NoOrder /\ WayOut(e) \in OrderIds
    BY <2>3 DEF Filled, NoOrder, OrderIds
  <2>5. QED BY <2>1, <2>2, <2>3, <2>4 DEF BoughtBack, WayOut, OwnExit, OwnStop
<1>3. \A c : ~SeenCovered(c)'
  BY <1>1 DEF SeenCovered, RestartPoints
<1>4. Foreseen' => Foreseen
  BY <1>1 DEF Foreseen
<1>5. QED BY <1>1, <1>2, <1>3, <1>4, RowClosed DEF EntryPoints

LEMMA BookCoverCovered == ASSUME IInv, IInv', Orders, Covered, BookCover PROVE Covered'
<1> USE DEF account, counters
<1>1. /\ pc = "closeWait" /\ pc' = loop /\ cur \in tracked /\ row[cur] = "open" /\ cur \in Events
      /\ loop \in {"advance", "flatten"}
      /\ row' = [row EXCEPT ![cur] = "priced"] /\ tracked' = tracked \ {cur}
      /\ \A t \in tracked' : rec'[t] = rec[t]
      /\ UNCHANGED <<account, rowStop, late, disturbed, crashes, days, deferred>>
  BY DEF BookCover, NextInLoop, Book, IInv, Rows, CurrentEvent, TrackedAreOpen, OpenRows, TypeOK,
         ClosePoints
<1>2. Calm => BoughtBack(cur)
  <2>1. Filled(rec[cur].exit)
    BY DEF BookCover
  <2>2. rec[cur].exit # NoOrder /\ rec[cur].exit \in OrderIds
    BY <2>1 DEF Filled, NoOrder, OrderIds
  <2>3. Calm => OwnExit(cur, rec[cur].exit)
    BY <1>1, <2>2 DEF Covered, WaysOut
  <2>4. QED BY <2>1, <2>2, <2>3 DEF BoughtBack, OwnExit
<1>3. \A c : ~SeenCovered(c)'
  BY <1>1 DEF SeenCovered, RestartPoints
<1>4. Foreseen' => Foreseen
  BY <1>1 DEF Foreseen
<1>5. QED BY <1>1, <1>2, <1>3, <1>4, RowClosed DEF EntryPoints, ClosePoints

LEMMA CloseRowCovered == ASSUME IInv, IInv', Orders, Covered, CloseRow PROVE Covered'
<1> USE DEF account, counters, memory
<1>0. TypeOK /\ AccountTypeOK
  BY DEF IInv, TypeOK
<1>1. PICK closed \in {"priced", "unpriced"} : row' = [row EXCEPT ![cur] = closed]
  BY DEF CloseRow
<1>2. /\ pc \in {"restartWait", "restartOrphan"} /\ pc' = "reconcile"
      /\ row[cur] = "open" /\ cur \in Events
      /\ UNCHANGED <<account, rowStop, late, disturbed, crashes, days, deferred, tracked, rec,
                     seenShort>>
  BY DEF CloseRow, NextInLoop, IInv, Rows, CurrentEvent, OpenRows, RestartPoints
<1>3. Calm => \/ BoughtBack(cur)
              \/ /\ crashes # 0
                 /\ \E i \in OrderIds : i <= lastOrder /\ orders[i].status = "new"
                        /\ orders[i].kind = "exit" /\ orders[i].owner = cur
              \/ SeenCovered(TickerOf[cur])
  <2> SUFFICES ASSUME Calm PROVE \/ BoughtBack(cur)
              \/ /\ crashes # 0
                 /\ \E i \in OrderIds : i <= lastOrder /\ orders[i].status = "new"
                        /\ orders[i].kind = "exit" /\ orders[i].owner = cur
              \/ SeenCovered(TickerOf[cur])
    OBVIOUS
  <2>1. WaysOut
    BY DEF Covered
  <2>2. crashes # 0
    BY <1>2 DEF Orders, CoversKnown, Uneventful, Calm, Reconciling, RestartPoints
  <2>3. CASE pc = "restartWait"
    <3>1. OwnExit(cur, oid) /\ orders[oid].status \in {"new", "filled"}
      BY <2>1, <2>3 DEF WaysOut
    <3>2. oid \in OrderIds /\ oid <= lastOrder
      BY <1>0, <3>1, BrokerAssumption DEF OwnExit, OrderIds, AccountTypeOK
    <3>3. QED BY <2>2, <3>1, <3>2 DEF OwnExit, BoughtBack, Filled
  <2>4. CASE pc = "restartOrphan"
    BY <2>1, <2>4 DEF WaysOut, SeenCovered, RestartPoints
  <2>5. QED BY <1>2, <2>3, <2>4
<1>4. \A c : SeenCovered(c)' => SeenCovered(c)
  BY <1>2 DEF SeenCovered, RestartPoints
<1>5. Foreseen' => Foreseen
  BY <1>2 DEF Foreseen
<1>6. pc \notin EntryPoints /\ pc' = "reconcile"
  BY <1>2 DEF EntryPoints
<1>7. QED BY <1>1, <1>2, <1>3, <1>4, <1>5, <1>6, RowClosed

\* A step that hands out an order of the event's own.
LEMMA SubmitSteady ==
    ASSUME IInv, Orders, Covered, Calm, NEW kind \in {"entry", "stop", "exit"},
           NEW e \in Events, NEW delta \in Int, Submit(kind, e, TickerOf[e], delta),
           delta = IF kind = "entry" THEN -1 ELSE 1,
           UNCHANGED <<net, liquidation, row, late, crashes, seenShort>>,
           \A t \in Events : InHand(t) => InHand(t)',
           \A t \in Events : Lost(t) => ~InHand(t)',
           Foreseen' => Foreseen, \A c \in Contracts : SeenCovered(c)' => SeenCovered(c)
    PROVE  /\ Accounts' /\ Lots'
           /\ lastOrder' = NextId /\ NextId \in 1 .. lastOrder'
           /\ orders'[NextId].owner = e /\ orders'[NextId].kind = kind
           /\ orders'[NextId].status = "new"
           /\ \A i \in 1 .. lastOrder' : i = NextId \/ i \in 1 .. lastOrder
           /\ \A i \in 1 .. lastOrder : i \in 1 .. lastOrder' /\ orders'[i] = orders[i]
<1>0. /\ TypeOK /\ AccountTypeOK /\ lastOrder \in Nat /\ MaxOrders \in Nat
      /\ OrderIds = 1 .. MaxOrders
  BY BrokerAssumption DEF IInv, TypeOK, AccountTypeOK, OrderIds
<1>1. /\ NextId \in OrderIds /\ lastOrder' = NextId /\ orders'[NextId].owner = e
      /\ orders'[NextId].kind = kind /\ orders'[NextId].status = "new"
      /\ orders'[NextId].contract = TickerOf[e]
      /\ \A i \in OrderIds \ {NextId} : orders'[i] = orders[i]
  BY <1>0, SubmitHanded DEF Handed
<1>2. orders'[NextId].delta = delta
  BY <1>0, <1>1 DEF Submit, AccountTypeOK
<1>3. orders[NextId].status = "unused"
  BY <1>0, <1>1 DEF Orders, OrdersHaveOwners, NextId
<1>4. /\ NextId \in 1 .. lastOrder'
      /\ \A i \in 1 .. lastOrder' : i = NextId \/ i \in 1 .. lastOrder
      /\ \A i \in 1 .. lastOrder : i \in OrderIds \ {NextId} /\ i \in 1 .. lastOrder'
  BY <1>0, <1>1 DEF NextId
<1>5. \A i \in 1 .. lastOrder : i \in 1 .. lastOrder' /\ orders'[i] = orders[i]
  BY <1>1, <1>4
<1>6. Lots'
  BY <1>1, <1>2, <1>4, <1>5 DEF Lots, Covered
<1>7. Accounts'
  <2> SUFFICES ASSUME NEW c \in Contracts, ~Excused(c)' PROVE AccountOf(c)'
    BY DEF Accounts
  <2>1. ~Excused(c)
    <3>1. \A i \in 1 .. lastOrder : i \in 1 .. lastOrder' /\ SameOrder(i)
      BY <1>5 DEF SameOrder
    <3>2. ASSUME NEW t \in Events, TickerOf[t] = c, Lost(t) PROVE Lost(t)'
      BY <3>1, <3>2, StaysLost
    <3>3. QED BY <3>2 DEF Excused
  <2>2. ASSUME NEW t \in Events, Exposed(t) PROVE Exposed(t)'
    <3>1. NoFill
      <4>1. ASSUME NEW i \in OrderIds, Filled(i) \/ Filled(i)' PROVE orders'[i] = orders[i]
        BY <1>1, <1>3, <4>1 DEF Filled
      <4>2. QED BY <4>1 DEF NoFill, Filled
    <3>2. Sold(t)' = Sold(t) /\ BoughtBack(t)' = BoughtBack(t)
      BY <3>1, LotsStay
    <3>3. QED BY <2>2, <3>2 DEF Exposed
  <2>3. Awaited(c) \subseteq Awaited(c)'
    <3>1. ASSUME NEW i \in Awaited(c)
          PROVE  i \in OrderIds /\ i <= lastOrder' /\ orders'[i] = orders[i]
      <4>1. i \in OrderIds /\ i <= lastOrder
        BY DEF Awaited
      <4>2. i \in 1 .. lastOrder
        BY <1>0, <4>1
      <4>3. i <= lastOrder'
        BY <1>5, <4>2
      <4>4. QED BY <1>5, <4>1, <4>2, <4>3
    <3>2. QED BY <3>1 DEF Awaited, Closed
  <2>4. AccountOf(c)
    BY <2>1 DEF Covered, Accounts
  <2>5. QED BY <1>0, <2>1, <2>2, <2>3, <2>4, ContractSteady
<1>8. QED BY <1>1, <1>4, <1>5, <1>6, <1>7

LEMMA SellShortCovered == ASSUME IInv, IInv', Orders, Covered, SellShort PROVE Covered'
<1> SUFFICES ASSUME Calm' PROVE Accounts' /\ Lots' /\ Entries' /\ WaysOut' /\ Hours'
  BY DEF Covered
<1>0. TypeOK /\ AccountTypeOK /\ handled \in Nat
  BY DEF IInv, TypeOK
<1>1. /\ pc = "signals" /\ pc' = "entryWait" /\ cur' = handled + 1 /\ oid' = NextId
      /\ handled + 1 \in Events /\ ~late
      /\ \A t \in tracked : TickerOf[t] # TickerOf[cur']
      /\ Submit("entry", cur', TickerOf[cur'], -1) /\ UNCHANGED <<net, liquidation>>
      /\ UNCHANGED <<row, rowStop, tracked, rec, late, seenShort, deferred,
                     disturbed, crashes, days>>
  BY <1>0, NextEvent DEF SellShort, RoomFor, journal, counters
<1>2. Accounts /\ Lots /\ Entries /\ WaysOut /\ Hours /\ Calm /\ OrdersHaveOwners
  BY <1>1 DEF Covered, Calm, Orders
<1>3. \A i \in 1 .. lastOrder : orders[i].owner \in Nat /\ orders[i].owner <= handled
  BY <1>0, <1>2, OwnersAreEvents DEF Events
<1>4. /\ \A t \in Events : ~InHand(t)
      /\ \A t \in Events : Lost(t) => ~InHand(t)'
      /\ \A t \in Events : InHand(t)' => t = cur'
      /\ row[cur'] = "none"
  <2>1. \A t \in Events : InHand(t)' => t = cur'
    BY DEF InHand
  <2>2. row[cur'] = "none"
    BY <1>0, <1>1 DEF IInv, Rows, FreshEvents
  <2>3. QED BY <1>0, <1>1, <1>3, <2>1, <2>2 DEF InHand, Lost, EntryPoints
<1>5. (Foreseen' => Foreseen) /\ \A c \in Contracts : ~SeenCovered(c)'
  BY <1>1 DEF Foreseen, SeenCovered, RestartPoints
<1>6. /\ Accounts' /\ Lots'
      /\ lastOrder' = NextId /\ NextId \in 1 .. lastOrder'
      /\ orders'[NextId].owner = cur' /\ orders'[NextId].kind = "entry"
      /\ orders'[NextId].status = "new"
      /\ \A i \in 1 .. lastOrder' : i = NextId \/ i \in 1 .. lastOrder
      /\ \A i \in 1 .. lastOrder : i \in 1 .. lastOrder' /\ orders'[i] = orders[i]
  <2>1. cur' \in Events
    BY <1>1
  <2>2. QED BY <1>1, <1>2, <1>4, <1>5, <2>1, SubmitSteady
<1>7. Entries'
  <2>1. \A i \in 1 .. lastOrder' : orders'[i].kind = "entry" /\ Live(i)' =>
            row'[orders'[i].owner] = "none"
    <3>1. ASSUME NEW i \in 1 .. lastOrder, orders'[i].kind = "entry", Live(i)'
          PROVE  row[orders'[i].owner] = "none"
      BY <1>2, <1>6, <3>1 DEF Entries, Live
    <3>2. QED BY <1>1, <1>4, <1>6, <3>1
  <2>2. \A i \in 1 .. lastOrder' : orders'[i].owner = cur' => i = oid'
    BY <1>0, <1>1, <1>3, <1>6
  <2>3. QED BY <1>1, <1>6, <2>1, <2>2 DEF Entries
<1>8. WaysOut'
  BY <1>1, <1>2, <1>6 DEF WaysOut, OwnExit, OwnStop
<1>9. Hours'
  BY <1>1, <1>2 DEF Hours, ClosePoints, EntryPoints
<1>10. QED BY <1>6, <1>7, <1>8, <1>9

LEMMA PlaceStopCovered == ASSUME IInv, IInv', Orders, Covered, PlaceStop PROVE Covered'
<1> SUFFICES ASSUME Calm' PROVE Accounts' /\ Lots' /\ Entries' /\ WaysOut' /\ Hours'
  BY DEF Covered
<1>0. TypeOK /\ AccountTypeOK
  BY DEF IInv, TypeOK
<1>1. /\ pc = "entryStop" /\ pc' = "entryInsert" /\ cur' = cur
      /\ cur \in Events
      /\ Submit("stop", cur, TickerOf[cur], 1) /\ UNCHANGED <<net, liquidation>>
      /\ UNCHANGED <<row, rowStop, tracked, rec, late, seenShort, deferred,
                     disturbed, crashes, days>>
  BY DEF PlaceStop, journal, memory, counters, IInv, Rows, CurrentEvent, EntryPoints
<1>2. Accounts /\ Lots /\ Entries /\ WaysOut /\ Hours /\ Calm
  BY <1>1 DEF Covered, Calm
<1>3. \A t \in Events : InHand(t)' <=> InHand(t)
  BY <1>1 DEF InHand, EntryPoints
<1>4. (Foreseen' => Foreseen) /\ \A c \in Contracts : ~SeenCovered(c)'
  BY <1>1 DEF Foreseen, SeenCovered, RestartPoints
<1>5. /\ Accounts' /\ Lots'
      /\ orders'[NextId].owner = cur /\ orders'[NextId].kind = "stop"
      /\ \A i \in 1 .. lastOrder' : i = NextId \/ i \in 1 .. lastOrder
      /\ \A i \in 1 .. lastOrder : i \in 1 .. lastOrder' /\ orders'[i] = orders[i]
  BY <1>1, <1>2, <1>3, <1>4, SubmitSteady DEF Lost
<1>6. Entries'
  <2>1. ASSUME NEW i \in 1 .. lastOrder', orders'[i].kind = "entry", Live(i)'
        PROVE  row[orders'[i].owner] = "none" /\ orders'[i].owner # cur
    BY <1>1, <1>2, <1>5, <2>1 DEF Entries, Live
  <2>2. /\ \E i \in 1 .. lastOrder' : orders'[i].owner = cur
        /\ \A t \in tracked : TickerOf[t] # TickerOf[cur]
    BY <1>1, <1>2, <1>5 DEF Entries, EntryPoints
  <2>3. QED BY <1>1, <2>1, <2>2 DEF Entries
<1>7. WaysOut'
  BY <1>1, <1>2, <1>5 DEF WaysOut, OwnExit, OwnStop
<1>8. Hours'
  BY <1>1, <1>2 DEF Hours, ClosePoints, EntryPoints
<1>9. QED BY <1>5, <1>6, <1>7, <1>8

LEMMA CoverCovered ==
    ASSUME IInv, IInv', Orders, Covered, SubmitCover \/ CoverOnRestart
    PROVE  Covered'
<1> SUFFICES ASSUME Calm' PROVE Accounts' /\ Lots' /\ Entries' /\ WaysOut' /\ Hours'
  BY DEF Covered
<1>0. TypeOK /\ AccountTypeOK /\ rec \in [Events -> Record] /\ tracked \in SUBSET Events
  BY DEF IInv, TypeOK
<1>1. /\ pc \in {"closeBuy", "restartCover"} /\ cur' = cur /\ loop' = loop /\ cur \in Events
      /\ Submit("exit", cur, TickerOf[cur], 1) /\ UNCHANGED <<net, liquidation>>
      /\ UNCHANGED <<row, rowStop, tracked, late, seenShort, deferred,
                     disturbed, crashes, days>>
      /\ \/ pc = "closeBuy" /\ pc' = "closeWait" /\ rec' = [rec EXCEPT ![cur].exit = NextId]
         \/ pc = "restartCover" /\ pc' = "restartWait" /\ rec' = rec /\ oid' = NextId
  BY DEF SubmitCover, CoverOnRestart, journal, memory, counters, IInv, TypeOK, Rows,
         CurrentEvent, ClosePoints, RestartPoints, OpenRows
<1>2. Accounts /\ Lots /\ Entries /\ WaysOut /\ Hours /\ Calm
  BY <1>1 DEF Covered, Calm
<1>3. \A t \in Events : ~InHand(t)' /\ ~InHand(t)
  BY <1>1 DEF InHand, EntryPoints
<1>4. (Foreseen' => Foreseen) /\ \A c \in Contracts : SeenCovered(c)' => SeenCovered(c)
  BY <1>1 DEF Foreseen, SeenCovered, RestartPoints
<1>5. /\ Accounts' /\ Lots'
      /\ lastOrder' = NextId /\ NextId \in 1 .. lastOrder'
      /\ orders'[NextId].owner = cur /\ orders'[NextId].kind = "exit"
      /\ orders'[NextId].status = "new"
      /\ \A i \in 1 .. lastOrder' : i = NextId \/ i \in 1 .. lastOrder
      /\ \A i \in 1 .. lastOrder : i \in 1 .. lastOrder' /\ orders'[i] = orders[i]
  BY <1>1, <1>2, <1>3, <1>4, SubmitSteady
<1>6. Entries'
  <2>1. ASSUME NEW i \in 1 .. lastOrder', orders'[i].kind = "entry", Live(i)'
        PROVE  row[orders'[i].owner] = "none"
    BY <1>1, <1>2, <1>5, <2>1 DEF Entries, Live
  <2>2. QED BY <1>1, <2>1 DEF Entries, EntryPoints
<1>7. WaysOut'
  <2>1. ASSUME NEW e \in tracked, rec'[e].exit # NoOrder PROVE OwnExit(e, rec[e].exit)'
    <3>1. CASE rec'[e].exit = rec[e].exit
      BY <1>2, <1>5, <2>1, <3>1 DEF WaysOut, OwnExit
    <3>2. CASE rec'[e].exit # rec[e].exit
      <4>1. e = cur /\ rec'[e].exit = NextId
        BY <1>0, <1>1, <3>2 DEF Record
      <4>2. QED BY <1>5, <4>1 DEF OwnExit
    <3>3. QED BY <3>1, <3>2
  <2>2. \A e \in Events : rowStop'[e] # NoOrder => OwnStop(e, rowStop[e])'
    BY <1>1, <1>2, <1>5 DEF WaysOut, OwnStop
  <2>3. pc' = "restartWait" => OwnExit(cur, oid)' /\ orders'[oid'].status \in {"new", "filled"}
    BY <1>1, <1>5 DEF OwnExit
  <2>4. pc' # "restartOrphan" /\ tracked' = tracked
    BY <1>1
  <2>5. QED BY <2>1, <2>2, <2>3, <2>4 DEF WaysOut
<1>8. Hours'
  BY <1>1, <1>2 DEF Hours, ClosePoints, EntryPoints
<1>9. QED BY <1>5, <1>6, <1>7, <1>8

\* An order that is cancelled stays what it is, and what has not filled has not filled.
LEMMA OnlyCancelled ==
    ASSUME NEW j \in OrderIds,
           \/ orders'[j] = orders[j]
           \/ /\ Live(j) /\ ~Filled(j)
              /\ \E st \in {"dead", "pending_cancel"} : orders'[j] = WithStatus(orders[j], st)
    PROVE  /\ orders'[j].kind = orders[j].kind /\ orders'[j].owner = orders[j].owner
           /\ orders'[j].contract = orders[j].contract
           /\ orders'[j].delta = orders[j].delta
           /\ Filled(j)' <=> Filled(j)
           /\ Live(j)' => Live(j)
<1>1. CASE orders'[j] = orders[j]
  BY <1>1 DEF Filled, Live
<1>2. CASE orders'[j] # orders[j]
  <2>1. PICK st \in {"dead", "pending_cancel"} : orders'[j] = WithStatus(orders[j], st)
    BY <1>2
  <2>2. orders'[j].delta = orders[j].delta /\ orders'[j].status = st
    BY <2>1 DEF WithStatus
  <2>3. Live(j) /\ ~Filled(j)
    BY <1>2
  <2>4. QED BY <2>1, <2>2, <2>3, WithStatusSame DEF Filled
<1>3. QED BY <1>1, <1>2

\* What the three cancels have in common: no cover is touched, and an order that is
\* cancelled does not come back.
LEMMA CancelSteady ==
    ASSUME IInv, Orders, Covered, Calm, Calm', NEW i, CancelOrder(i),
           i # NoOrder => i \in 1 .. lastOrder /\ orders[i].kind # "exit",
           UNCHANGED <<lastOrder, net, liquidation, row, late, seenShort>>,
           \A t \in Events : InHand(t)' => InHand(t),
           pc # "closeAll", \A c \in Contracts : SeenCovered(c)' => SeenCovered(c)
    PROVE  /\ Accounts' /\ Lots' /\ crashes' = crashes
           /\ \A j \in 1 .. lastOrder :
                  /\ orders'[j].kind = orders[j].kind /\ orders'[j].owner = orders[j].owner
                  /\ Live(j)' => Live(j)
                  /\ orders[j].kind = "exit" => orders'[j] = orders[j]
<1>0. /\ TypeOK /\ AccountTypeOK /\ \A j \in 1 .. lastOrder : j \in OrderIds
  BY BrokerAssumption DEF IInv, TypeOK, AccountTypeOK, OrderIds
<1>1. CancelRequested(i) /\ UNCHANGED counters
  BY <1>0, DisturbNoted DEF CancelOrder, Calm
<1>2. \A j \in OrderIds :
          \/ orders'[j] = orders[j]
          \/ /\ j = i /\ Live(j) /\ ~Filled(j)
             /\ \E st \in {"dead", "pending_cancel"} : orders'[j] = WithStatus(orders[j], st)
  BY <1>0, <1>1 DEF CancelRequested, Live, LiveStatuses, Filled, AccountTypeOK
<1>3. \A j \in OrderIds :
          /\ orders'[j].kind = orders[j].kind /\ orders'[j].owner = orders[j].owner
          /\ orders'[j].contract = orders[j].contract
          /\ orders'[j].delta = orders[j].delta
          /\ Filled(j)' <=> Filled(j)
          /\ Live(j)' => Live(j)
  BY <1>2, OnlyCancelled
<1>4. \A j \in 1 .. lastOrder : j \in 1 .. lastOrder' /\ SameOrder(j)
  <2>1. Kept
    BY <1>0, <1>1, CancelKept
  <2>2. QED BY <1>0, <2>1 DEF Kept
<1>5. \A j \in 1 .. lastOrder : orders[j].kind = "exit" => orders'[j] = orders[j]
  BY <1>0, <1>2 DEF Live, NoOrder, OrderIds
<1>6. Lots'
  BY <1>0, <1>3 DEF Lots, Covered
<1>7. Accounts'
  <2> SUFFICES ASSUME NEW c \in Contracts, ~Excused(c)' PROVE AccountOf(c)'
    BY DEF Accounts
  <2>1. ~Excused(c)
    <3>1. ASSUME NEW t \in Events, TickerOf[t] = c, Lost(t) PROVE Lost(t)'
      BY <1>4, <3>1, StaysLost DEF Lost
    <3>2. QED BY <3>1 DEF Excused
  <2>2. ASSUME NEW t \in Events, Exposed(t) PROVE Exposed(t)' \/ Lost(t)'
    <3>1. Sold(t)' = Sold(t) /\ BoughtBack(t)' = BoughtBack(t)
      BY <1>3, LotsStay DEF NoFill
    <3>2. CASE InHand(t) /\ ~InHand(t)'
      BY <1>4, <3>2, HandLost DEF Covered
    <3>3. CASE ~InHand(t) \/ InHand(t)'
      BY <2>2, <3>1, <3>3 DEF Exposed
    <3>4. QED BY <3>2, <3>3
  <2>3. Awaited(c) \subseteq Awaited(c)'
    <3>1. ASSUME NEW j \in Awaited(c) PROVE j \in OrderIds /\ orders'[j] = orders[j]
      <4>1. j \in OrderIds /\ j <= lastOrder /\ orders[j].kind = "exit"
        BY DEF Awaited
      <4>2. j \in 1 .. lastOrder
        BY <1>0, <4>1, BrokerAssumption DEF OrderIds, AccountTypeOK
      <4>3. QED BY <1>5, <4>1, <4>2
    <3>2. QED BY <3>1 DEF Awaited, Closed
  <2>4. AccountOf(c)
    BY <2>1 DEF Covered, Accounts
  <2>5. crashes' = crashes /\ (Foreseen' => Foreseen)
    BY <1>1 DEF counters, Foreseen
  <2>6. QED BY <1>0, <2>1, <2>2, <2>3, <2>4, <2>5, ContractSteady
<1>8. QED BY <1>0, <1>1, <1>3, <1>5, <1>6, <1>7 DEF counters

LEMMA CancelsCovered ==
    ASSUME IInv, IInv', Orders, Covered,
           CancelEntry \/ CancelStopForCover \/ \E e \in Events : CancelRowStop(e)
    PROVE  Covered'
<1> SUFFICES ASSUME Calm' PROVE Accounts' /\ Lots' /\ Entries' /\ WaysOut' /\ Hours'
  BY DEF Covered
<1>0. TypeOK /\ AccountTypeOK /\ rec \in [Events -> Record] /\ tracked \in SUBSET Events
  BY DEF IInv, TypeOK
<1>1. PICK i : /\ CancelOrder(i)
               /\ \/ /\ pc = "entryCancel" /\ pc' = "signals" /\ i = oid /\ rec' = rec
                  \/ /\ pc = "closeCancel" /\ pc' = "closeBuy" /\ cur' = cur
                     /\ cur \in tracked /\ i = rec[cur].stop
                     /\ rec' = [rec EXCEPT ![cur].stop = NoOrder]
                  \/ /\ pc = "reconcile" /\ pc' \in {"restartCover", "restartOrphan"}
                     /\ cur' \in Events /\ i = rowStop[cur'] /\ rec' = rec
                     /\ pc' = "restartOrphan" => TickerOf[cur'] \notin seenShort
  BY DEF CancelEntry, CancelStopForCover, CancelRowStop, memory, journal, IInv, Rows,
         CurrentEvent, ClosePoints
<1>2. /\ UNCHANGED <<lastOrder, net, liquidation, row, rowStop, tracked, late, seenShort,
                     deferred, loop>>
  BY DEF CancelEntry, CancelStopForCover, CancelRowStop, memory, journal
<1>3. Accounts /\ Lots /\ Entries /\ WaysOut /\ Hours /\ Calm
  <2>1. disturbed' = disturbed \/ disturbed' > 0
    BY <1>0, <1>1, <1>2, CancelOrderKept
  <2>2. days' = days
    BY <1>0, <1>1, <1>2, CancelOrderKept
  <2>3. QED BY <2>1, <2>2 DEF Covered, Calm
<1>4. i # NoOrder => i \in 1 .. lastOrder /\ orders[i].kind # "exit"
  <2>1. StopsKnown
    BY DEF Orders
  <2>2. QED BY <1>1, <1>2, <1>3, <2>1 DEF StopsKnown, OwnStop, WaysOut
<1>5. \A t \in Events : InHand(t)' => InHand(t)
  BY <1>1 DEF InHand, EntryPoints
<1>6. /\ \A c \in Contracts : SeenCovered(c)' => SeenCovered(c)
      /\ pc # "closeAll"
  BY <1>1, <1>2 DEF SeenCovered, RestartPoints
<1>7. /\ Accounts' /\ Lots' /\ crashes' = crashes
      /\ \A j \in 1 .. lastOrder :
             /\ orders'[j].kind = orders[j].kind /\ orders'[j].owner = orders[j].owner
             /\ Live(j)' => Live(j)
             /\ orders[j].kind = "exit" => orders'[j] = orders[j]
  BY <1>1, <1>2, <1>3, <1>4, <1>5, <1>6, CancelSteady
<1>8. Entries'
  BY <1>1, <1>2, <1>3, <1>7 DEF Entries, EntryPoints
<1>9. WaysOut'
  <2>1. \A e \in tracked : rec'[e].exit = rec[e].exit
    BY <1>0, <1>1 DEF Record
  <2>2. \A e \in tracked : rec'[e].exit # NoOrder => OwnExit(e, rec[e].exit)'
    BY <1>2, <1>3, <1>7, <2>1 DEF WaysOut, OwnExit
  <2>3. \A e \in Events : rowStop'[e] # NoOrder => OwnStop(e, rowStop[e])'
    BY <1>2, <1>3, <1>7 DEF WaysOut, OwnStop
  <2>4. pc' # "restartWait" /\ (pc' = "restartOrphan" => TickerOf[cur'] \notin seenShort')
    BY <1>1, <1>2
  <2>5. QED BY <1>2, <2>2, <2>3, <2>4 DEF WaysOut
<1>10. Hours'
  BY <1>1, <1>2, <1>3 DEF Hours, ClosePoints, EntryPoints
<1>11. QED BY <1>7, <1>8, <1>9, <1>10

\* The flatten: all orders go, and what is short is bought.
LEMMA FlattenCovered == ASSUME IInv, IInv', Orders, Covered, CancelAll \/ CloseAll PROVE Covered'
<1> SUFFICES ASSUME Calm' PROVE Accounts' /\ Lots' /\ Entries' /\ WaysOut' /\ Hours'
  BY DEF Covered
<1>0. /\ TypeOK /\ AccountTypeOK /\ \A j \in 1 .. lastOrder : j \in OrderIds
  BY BrokerAssumption DEF IInv, TypeOK, AccountTypeOK, OrderIds
<1>1. /\ UNCHANGED <<lastOrder, net, cur, oid, loop, row, rowStop, tracked, rec, late, seenShort,
                     deferred, disturbed, crashes, days>>
      /\ pc \in {"cancelAll", "closeAll"}
      /\ \/ CancelAllRequested /\ pc' = "closeAll"
         \/ CloseAllRequested /\ pc' = "idle"
  BY DEF CancelAll, CloseAll, memory, journal, counters
<1>2. Accounts /\ Lots /\ Entries /\ WaysOut /\ Hours /\ Calm
  BY <1>1 DEF Covered, Calm
<1>3. \A j \in OrderIds :
          \/ orders'[j] = orders[j]
          \/ /\ Live(j) /\ ~Filled(j)
             /\ \E st \in {"dead", "pending_cancel"} : orders'[j] = WithStatus(orders[j], st)
  BY <1>0, <1>1 DEF CancelAllRequested, CloseAllRequested, Live, LiveStatuses, Filled
<1>4. \A j \in OrderIds :
          /\ orders'[j].kind = orders[j].kind /\ orders'[j].owner = orders[j].owner
          /\ orders'[j].contract = orders[j].contract
          /\ orders'[j].delta = orders[j].delta
          /\ Filled(j)' <=> Filled(j)
          /\ Live(j)' => Live(j)
  BY <1>3, OnlyCancelled
<1>5. \A j \in 1 .. lastOrder : j \in 1 .. lastOrder' /\ SameOrder(j)
  <2>1. Kept
    BY <1>0, <1>1, AllKept
  <2>2. QED BY <1>0, <1>1, <2>1 DEF Kept
<1>6. \A t \in Events : ~InHand(t) /\ ~InHand(t)'
  BY <1>1 DEF InHand, EntryPoints
<1>7. Accounts'
  <2> SUFFICES ASSUME NEW c \in Contracts, ~Excused(c)' PROVE AccountOf(c)'
    BY DEF Accounts
  <2>1. ~Excused(c)
    <3>1. ASSUME NEW t \in Events, TickerOf[t] = c, Lost(t) PROVE Lost(t)'
      BY <1>1, <1>5, <1>6, <3>1, StaysLost
    <3>2. QED BY <3>1 DEF Excused
  <2>2. Owed(c)' = Owed(c)
    <3>1. ASSUME NEW t \in Events PROVE Exposed(t)' <=> Exposed(t)
      <4>1. Sold(t)' = Sold(t) /\ BoughtBack(t)' = BoughtBack(t)
        BY <1>4, LotsStay DEF NoFill
      <4>2. QED BY <1>1, <1>6, <4>1 DEF Exposed
    <3>2. QED BY <3>1 DEF Owed
  <2>3. AccountOf(c) /\ net[c] \in Int /\ liquidation[c] \in Int
    BY <1>0, <1>2, <2>1 DEF Accounts, AccountTypeOK
  <2>4. ~SeenCovered(c)'
    BY <1>1 DEF SeenCovered, RestartPoints
  <2>5. CASE CancelAllRequested /\ pc' = "closeAll"
    <3>1. liquidation'[c] = 0 /\ ~Foreseen'
      BY <2>5 DEF CancelAllRequested, Foreseen
    <3>2. QED BY <1>1, <2>2, <2>3, <2>4, <3>1 DEF AccountOf
  <2>6. CASE CloseAllRequested
    <3>1. liquidation'[c] = -net[c]
      BY <2>6 DEF CloseAllRequested
    <3>2. Owed(c)' \in {0, 1} /\ Cardinality(Awaited(c)') \in Nat
      BY <2>2, OwedIs, AwaitedIs
    <3>3. Liquidated(c)' \/ net[c] >= 0
      BY <1>1, <2>3, <3>1 DEF Liquidated
    <3>4. QED BY <1>1, <2>2, <2>3, <2>4, <3>1, <3>2, <3>3 DEF AccountOf
  <2>7. QED BY <1>1, <2>5, <2>6
<1>8. Lots'
  BY <1>0, <1>1, <1>2, <1>4 DEF Lots
<1>9. Entries'
  BY <1>0, <1>1, <1>2, <1>4 DEF Entries, EntryPoints
<1>10. WaysOut'
  BY <1>0, <1>1, <1>2, <1>4 DEF WaysOut, OwnExit, OwnStop
<1>11. Hours'
  BY <1>1, <1>2 DEF Hours, ClosePoints, EntryPoints
<1>12. QED BY <1>7, <1>8, <1>9, <1>10, <1>11

\* An order for the ticker fills: the entry in hand opens what is owed, and any other
\* entry is one nobody knows of; a buy takes from what is owed or from what is awaited.
LEMMA FillAccounts ==
    ASSUME IInv, Orders, Covered, Calm, NEW i \in OrderIds, Fill(i),
           UNCHANGED <<thread, memory, journal, late, counters>>,
           i \in 1 .. lastOrder, NEW c \in Contracts, ~Excused(c)'
    PROVE  AccountOf(c)'
<1> USE DEF thread, memory, journal, counters
<1>0. /\ TypeOK /\ AccountTypeOK /\ tracked \in SUBSET Events
      /\ orders[i].owner \in Events /\ orders[i].contract = TickerOf[orders[i].owner]
      /\ orders[i].delta = IF orders[i].kind = "entry" THEN -1 ELSE 1
      /\ lastOrder' = lastOrder /\ row' = row
  BY OwnersAreEvents DEF IInv, TypeOK, Orders, Covered, Lots, Fill
<1>1. /\ orders' = [orders EXCEPT ![i] = WithStatus(@, "filled")]
      /\ Live(i) /\ ~Filled(i) /\ Filled(i)' /\ orders'[i].status = "filled"
      /\ orders'[i].kind = orders[i].kind /\ orders'[i].owner = orders[i].owner
      /\ orders'[i].contract = orders[i].contract
      /\ \A j \in OrderIds \ {i} : orders'[j] = orders[j]
  BY <1>0, WithStatusSame DEF Fill, Filled, Live, LiveStatuses, AccountTypeOK
<1>2. \A j \in 1 .. lastOrder : j \in 1 .. lastOrder' /\ SameOrder(j)
  <2>1. Kept
    BY <1>0, MovesKept
  <2>2. QED BY <1>0, <2>1, OwnersAreEvents DEF Kept, Orders
<1>3. \A t \in Events : InHand(t)' <=> InHand(t)
  BY DEF InHand
<1>4. ~Excused(c)
  <2>1. ASSUME NEW t \in Events, TickerOf[t] = c, Lost(t) PROVE Lost(t)'
    BY <1>0, <1>2, <1>3, <2>1, StaysLost DEF Lost
  <2>2. QED BY <2>1 DEF Excused
<1>5. /\ AccountOf(c) /\ net[c] \in Int /\ liquidation[c] \in Int
      /\ liquidation'[c] = liquidation[c]
      /\ Cardinality(Awaited(c)) \in Nat /\ Cardinality(Awaited(c)') \in Nat
  BY <1>0, <1>4, AwaitedIs DEF Covered, Accounts, AccountTypeOK, Fill
<1>6. (Foreseen' <=> Foreseen) /\ (SeenCovered(c)' <=> SeenCovered(c)) /\ crashes' = crashes
  BY DEF Foreseen, SeenCovered
<1>7. ASSUME NEW t \in Events, t # orders[i].owner PROVE Exposed(t)' <=> Exposed(t)
  <2>1. \A j \in OrderIds : orders[j].owner = t =>
            j # i /\ orders'[j] = orders[j]
    BY <1>1, <1>7
  <2>2. \A j \in OrderIds : orders'[j].owner = t => orders'[j] = orders[j]
    BY <1>1, <1>7
  <2>3. Sold(t)' <=> Sold(t)
    BY <2>1, <2>2 DEF Sold, Filled
  <2>4. BoughtBack(t)' <=> BoughtBack(t)
    BY <2>1, <2>2 DEF BoughtBack, Filled
  <2>5. QED BY <1>0, <1>3, <2>3, <2>4 DEF Exposed
<1>8. CASE orders[i].contract # c
  <2>1. net'[c] = net[c]
    BY <1>0, <1>8 DEF Fill, AccountTypeOK
  <2>2. \A t \in Events : TickerOf[t] = c /\ Exposed(t) => Exposed(t)'
    BY <1>0, <1>7, <1>8
  <2>3. Awaited(c) \subseteq Awaited(c)'
    <3>1. \A j \in Awaited(c) : j # i
      BY <1>8 DEF Awaited
    <3>2. QED BY <1>0, <1>1, <3>1 DEF Awaited, Closed
  <2>4. QED BY <1>0, <1>5, <1>6, <2>1, <2>2, <2>3, ContractSteady
<1>9. CASE orders[i].contract = c /\ orders[i].kind = "entry"
  <2>0. PICK e \in Events : e = orders[i].owner
    BY <1>0
  <2>1. e \in Events /\ TickerOf[e] = c /\ row[e] = "none"
    BY <1>0, <1>1, <1>9, <2>0 DEF Covered, Entries
  <2>2. InHand(e)
    BY <1>4, <2>0, <2>1 DEF Excused, Lost
  <2>3. e = cur /\ pc \in {"entryWait", "entryCancel"}
    BY <1>1, <1>9, <2>0, <2>1, <2>2 DEF InHand, Covered, Entries, EntryPoints
  <2>4. /\ \A t \in tracked : TickerOf[t] # c
        /\ \A j \in 1 .. lastOrder : orders[j].owner = e => j = oid
    BY <2>1, <2>2, <2>3 DEF Covered, Entries, InHand
  <2>5. \A j \in OrderIds : Filled(j) => j \in 1 .. lastOrder
    <3>1. \A j \in OrderIds : j > lastOrder => ~Filled(j)
      BY DEF Orders, OrdersHaveOwners, Filled
    <3>2. QED BY <1>0, <3>1, BrokerAssumption DEF OrderIds, AccountTypeOK
  <2>6. ~Exposed(e)
    <3>1. ~Sold(e)
      BY <1>0, <1>1, <2>0, <2>4, <2>5 DEF Sold
    <3>2. QED BY <3>1 DEF Exposed
  <2>7. Owed(c) = 0
    <3>1. ASSUME NEW t \in Events, TickerOf[t] = c, t # e PROVE ~Exposed(t)
      <4>1. ~InHand(t)
        BY <2>3, <3>1 DEF InHand
      <4>2. tracked = OpenRows
        BY <2>3 DEF IInv, Rows, RowsTracked, Reconciling, RestartPoints, Covered, Hours
      <4>3. row[t] # "open"
        BY <2>4, <3>1, <4>2 DEF OpenRows
      <4>4. QED BY <4>1, <4>3 DEF Exposed
    <3>2. QED BY <2>6, <3>1 DEF Owed
  <2>8. Owed(c)' = 1
    <3>1. Sold(e)'
      BY <1>1, <1>9, <2>0 DEF Sold
    <3>2. ~BoughtBack(e)'
      <4>1. \A j \in OrderIds : Filled(j)' /\ orders'[j].owner = e => j = i
        BY <1>0, <1>1, <2>0, <2>4, <2>5 DEF Filled
      <4>2. QED BY <1>1, <1>9, <4>1 DEF BoughtBack
    <3>3. Exposed(e)'
      BY <1>3, <2>2, <3>1, <3>2 DEF Exposed
    <3>4. QED BY <2>1, <3>3 DEF Owed
  <2>9. Awaited(c) \subseteq Awaited(c)'
    <3>1. \A j \in Awaited(c) : j # i
      BY <1>9 DEF Awaited
    <3>2. QED BY <1>0, <1>1, <3>1 DEF Awaited, Closed
  <2>10. Cardinality(Awaited(c)) <= Cardinality(Awaited(c)')
    BY <2>9, AwaitedIs, FS_Subset
  <2>11. net'[c] = net[c] - 1
    BY <1>0, <1>9 DEF Fill, AccountTypeOK
  <2>12. liquidation[c] = 0 /\ ~SeenCovered(c)
    BY <2>3 DEF Covered, Hours, EntryPoints, SeenCovered, RestartPoints
  <2>13. QED BY <1>5, <1>6, <2>7, <2>8, <2>10, <2>11, <2>12 DEF AccountOf, Liquidated
<1>10. CASE orders[i].contract = c /\ orders[i].kind # "entry"
  <2>1. net'[c] = net[c] + 1
    BY <1>0, <1>10 DEF Fill, AccountTypeOK
  <2>2. Owed(c) \in {0, 1} /\ Owed(c)' \in {0, 1}
    BY OwedIs DEF Owed
  <2>3. CASE i \in Awaited(c)
    <3>1. ~Exposed(orders[i].owner) /\ ~Exposed(orders[i].owner)'
      <4>1. row[orders[i].owner] \notin {"none", "open"}
        BY <2>3 DEF Awaited, Closed
      <4>2. ~InHand(orders[i].owner)
        BY <4>1 DEF InHand, IInv, Rows, CurrentEvent
      <4>3. QED BY <1>0, <1>1, <1>3, <4>1, <4>2 DEF Exposed
    <3>2. Owed(c)' = Owed(c)
      BY <1>0, <1>1, <1>7, <3>1 DEF Owed
    <3>3. Awaited(c) \ {i} \subseteq Awaited(c)'
      BY <1>0, <1>1 DEF Awaited, Closed
    <3>4. Cardinality(Awaited(c)) - 1 <= Cardinality(Awaited(c)')
      <4>1. Cardinality(Awaited(c) \ {i}) = Cardinality(Awaited(c)) - 1
        BY <2>3, AwaitedIs, FS_RemoveElement
      <4>2. Cardinality(Awaited(c) \ {i}) <= Cardinality(Awaited(c)')
        BY <3>3, AwaitedIs, FS_Subset
      <4>3. QED BY <4>1, <4>2
    <3>5. QED BY <1>5, <1>6, <2>1, <2>2, <3>2, <3>4 DEF AccountOf, Liquidated
  <2>4. CASE i \notin Awaited(c)
    <3>1. Awaited(c) \subseteq Awaited(c)'
      BY <1>0, <1>1, <2>4 DEF Awaited, Closed
    <3>2. Cardinality(Awaited(c)) <= Cardinality(Awaited(c)')
      BY <3>1, AwaitedIs, FS_Subset
    <3>3. QED BY <1>5, <1>6, <2>1, <2>2, <3>2 DEF AccountOf, Liquidated
  <2>5. QED BY <2>3, <2>4
<1>11. QED BY <1>8, <1>9, <1>10

LEMMA SettleAccounts ==
    ASSUME IInv, Orders, Covered, Calm, NEW i \in OrderIds, CancelSettles(i),
           UNCHANGED <<thread, memory, journal, late, counters>>,
           NEW c \in Contracts, ~Excused(c)'
    PROVE  AccountOf(c)'
<1> USE DEF thread, memory, journal, counters
<1>0. /\ TypeOK /\ AccountTypeOK /\ lastOrder' = lastOrder /\ row' = row
      /\ net' = net /\ liquidation' = liquidation
  BY DEF IInv, TypeOK, CancelSettles
<1>1. /\ orders'[i] = WithStatus(orders[i], "dead") /\ orders[i].status = "pending_cancel"
      /\ orders'[i].status = "dead"
      /\ \A j \in OrderIds \ {i} : orders'[j] = orders[j]
  BY <1>0, WithStatusSame DEF CancelSettles, AccountTypeOK
<1>2. \A j \in 1 .. lastOrder : j \in 1 .. lastOrder' /\ SameOrder(j)
  <2>1. Kept
    BY <1>0, MovesKept
  <2>2. QED BY <1>0, <2>1, OwnersAreEvents DEF Kept, Orders
<1>3. \A t \in Events : InHand(t)' <=> InHand(t)
  BY DEF InHand
<1>4. ~Excused(c)
  <2>1. ASSUME NEW t \in Events, TickerOf[t] = c, Lost(t) PROVE Lost(t)'
    BY <1>0, <1>2, <1>3, <2>1, StaysLost DEF Lost
  <2>2. QED BY <2>1 DEF Excused
<1>5. ASSUME NEW t \in Events, Exposed(t) PROVE Exposed(t)'
  <2>1. NoFill
    <3>1. ASSUME NEW j \in OrderIds, Filled(j) \/ Filled(j)' PROVE orders'[j] = orders[j]
      BY <1>1, <3>1 DEF Filled
    <3>2. QED BY <3>1 DEF NoFill, Filled
  <2>2. Sold(t)' = Sold(t) /\ BoughtBack(t)' = BoughtBack(t)
    BY <2>1, LotsStay
  <2>3. QED BY <1>0, <1>3, <1>5, <2>2 DEF Exposed
<1>6. Awaited(c) \subseteq Awaited(c)'
  BY <1>0, <1>1 DEF Awaited, Closed
<1>7. QED BY <1>0, <1>4, <1>5, <1>6, ContractSteady DEF Covered, Accounts, Foreseen, SeenCovered

LEMMA LiquidationAccounts ==
    ASSUME IInv, Covered, Calm, NEW d \in Contracts, LiquidationFills(d),
           UNCHANGED <<thread, memory, journal, late, counters>>,
           NEW c \in Contracts, ~Excused(c)'
    PROVE  AccountOf(c)'
<1> USE DEF thread, memory, journal, counters
<1>0. /\ TypeOK /\ AccountTypeOK
      /\ UNCHANGED <<orders, lastOrder, row, pc, cur, crashes, late, seenShort>>
  BY DEF IInv, TypeOK, LiquidationFills
<1>1. /\ (Excused(c)' <=> Excused(c)) /\ Owed(c)' = Owed(c) /\ Awaited(c)' = Awaited(c)
      /\ (Foreseen' <=> Foreseen) /\ (SeenCovered(c)' <=> SeenCovered(c))
  BY <1>0 DEF Excused, Lost, InHand, Owed, Exposed, Sold, BoughtBack, Filled, Awaited, Closed,
              Foreseen, SeenCovered
<1>2. AccountOf(c) /\ net[c] \in Int /\ liquidation[c] \in Int
  BY <1>0, <1>1 DEF Covered, Accounts, AccountTypeOK
<1>3. Owed(c) \in {0, 1} /\ Cardinality(Awaited(c)) \in Nat
  BY OwedIs, AwaitedIs
<1>4. CASE c # d
  <2>1. net'[c] = net[c] /\ liquidation'[c] = liquidation[c]
    BY <1>0, <1>4 DEF LiquidationFills, AccountTypeOK
  <2>2. Liquidated(c)' <=> Liquidated(c)
    BY <2>1 DEF Liquidated
  <2>3. QED BY <1>0, <1>1, <1>2, <2>1, <2>2 DEF AccountOf
<1>5. CASE c = d
  <2>1. net'[c] = net[c] + liquidation[c] /\ liquidation'[c] = 0
    BY <1>0, <1>5 DEF LiquidationFills, AccountTypeOK
  <2>2. crashes = 0 => net'[c] >= -Owed(c)
    BY <1>2, <1>3, <2>1 DEF AccountOf
  <2>3. Foreseen => net'[c] >= -(Owed(c) + Cardinality(Awaited(c)))
    BY <1>2, <1>3, <2>1 DEF AccountOf, Liquidated
  <2>4. SeenCovered(c) => net'[c] >= 0
    BY <1>2, <2>1 DEF AccountOf
  <2>5. QED BY <1>0, <1>1, <2>1, <2>2, <2>3, <2>4 DEF AccountOf
<1>6. QED BY <1>4, <1>5

LEMMA AccountMovesCovered ==
    ASSUME IInv, IInv', Orders, Covered, AccountMoves
    PROVE  Covered'
<1> SUFFICES ASSUME Calm' PROVE Accounts' /\ Lots' /\ Entries' /\ WaysOut' /\ Hours'
  BY DEF Covered
<1> USE DEF thread, memory, journal, counters
<1>0. /\ TypeOK /\ AccountTypeOK /\ OrdersHaveOwners
      /\ \A j \in 1 .. lastOrder : j \in OrderIds
  BY BrokerAssumption DEF IInv, TypeOK, AccountTypeOK, OrderIds, Orders
<1>1. /\ UNCHANGED <<thread, memory, journal, late, counters>>
      /\ \/ \E i \in OrderIds : Fill(i) \/ CancelSettles(i)
         \/ \E d \in Contracts : LiquidationFills(d)
  <2>1. ~Disturb
    BY <1>0, DisturbNoted DEF Calm
  <2>2. QED BY <2>1 DEF AccountMoves
<1>2. Accounts /\ Lots /\ Entries /\ WaysOut /\ Hours /\ Calm
  BY <1>1 DEF Covered, Calm
<1>3. \A j \in OrderIds :
          /\ orders'[j].kind = orders[j].kind /\ orders'[j].owner = orders[j].owner
          /\ orders'[j].contract = orders[j].contract
          /\ orders'[j].delta = orders[j].delta
          /\ Live(j)' => Live(j)
          /\ orders[j].status \in {"new", "filled"} => orders'[j].status \in {"new", "filled"}
  <2>1. ASSUME NEW i \in OrderIds, Fill(i) \/ CancelSettles(i), NEW j \in OrderIds
        PROVE  /\ orders'[j].kind = orders[j].kind /\ orders'[j].owner = orders[j].owner
               /\ orders'[j].contract = orders[j].contract
               /\ orders'[j].delta = orders[j].delta
               /\ Live(j)' => Live(j)
               /\ orders[j].status \in {"new", "filled"} =>
                      orders'[j].status \in {"new", "filled"}
    <3>1. CASE j # i
      BY <1>0, <2>1, <3>1 DEF Fill, CancelSettles, Live, AccountTypeOK
    <3>2. CASE j = i
      <4>1. PICK st \in {"filled", "dead"} :
                /\ orders'[j] = WithStatus(orders[j], st)
                /\ st = "dead" => orders[j].status = "pending_cancel"
        BY <1>0, <2>1, <3>2 DEF Fill, CancelSettles, AccountTypeOK
      <4>2. orders'[j].delta = orders[j].delta /\ orders'[j].status = st
        BY <4>1 DEF WithStatus
      <4>3. QED BY <4>1, <4>2, WithStatusSame DEF Live, LiveStatuses
    <3>3. QED BY <3>1, <3>2
  <2>2. ASSUME NEW d \in Contracts, LiquidationFills(d) PROVE orders' = orders
    BY <2>2 DEF LiquidationFills
  <2>3. QED BY <1>1, <2>1, <2>2 DEF Live
<1>4. lastOrder' = lastOrder
  BY <1>1 DEF Fill, CancelSettles, LiquidationFills
<1>5. Accounts'
  <2> SUFFICES ASSUME NEW c \in Contracts, ~Excused(c)' PROVE AccountOf(c)'
    BY DEF Accounts
  <2>1. ASSUME NEW i \in OrderIds, Fill(i) PROVE AccountOf(c)'
    <3>1. orders[i].status # "unused"
      BY <2>1 DEF Fill, Live, LiveStatuses
    <3>2. i \in 1 .. lastOrder
      BY <1>0, <3>1, BrokerAssumption DEF OrdersHaveOwners, OrderIds, AccountTypeOK
    <3>3. QED BY <1>1, <1>2, <2>1, <3>2, FillAccounts
  <2>2. ASSUME NEW i \in OrderIds, CancelSettles(i) PROVE AccountOf(c)'
    BY <1>1, <1>2, <2>2, SettleAccounts
  <2>3. ASSUME NEW d \in Contracts, LiquidationFills(d) PROVE AccountOf(c)'
    BY <1>1, <1>2, <2>3, LiquidationAccounts
  <2>4. QED BY <1>1, <2>1, <2>2, <2>3
<1>6. Lots'
  BY <1>0, <1>2, <1>3, <1>4 DEF Lots
<1>7. Entries'
  BY <1>0, <1>1, <1>2, <1>3, <1>4 DEF Entries
<1>8. WaysOut'
  BY <1>0, <1>1, <1>2, <1>3, <1>4 DEF WaysOut, OwnExit, OwnStop
<1>9. Hours'
  <2>1. \A c \in Contracts : liquidation'[c] # 0 => liquidation[c] # 0
    <3>1. ASSUME NEW d \in Contracts, LiquidationFills(d), NEW c \in Contracts, liquidation'[c] # 0
          PROVE  liquidation[c] # 0
      BY <1>0, <3>1 DEF LiquidationFills, AccountTypeOK
    <3>2. QED BY <1>1, <3>1 DEF Fill, CancelSettles
  <2>2. QED BY <1>1, <1>2, <2>1 DEF Hours
<1>10. QED BY <1>5, <1>6, <1>7, <1>8, <1>9

LEMMA CoveredPreserved == ASSUME IInv, IInv', Orders, Covered, [Next]_vars PROVE Covered'
<1>1. CASE HandleSignals
  BY <1>1, HandleSignalsStill, SellShortCovered, PlaceStopCovered, TrackShortCovered,
     CancelsCovered, DisturbNoted
  DEF HandleSignals, SellShortRaises, PlaceStopRaises, Covered, Calm, IInv
<1>2. CASE FlattenAtClose
  BY <1>2, FlattenAtCloseStill, FlattenCovered
<1>3. CASE AdvanceShorts
  BY <1>3, AdvanceShortsStill, BookFillCovered
<1>4. CASE CloseShort
  BY <1>4, CancelsCovered, CoverCovered, BookCoverCovered, ParkCoverStill, DisturbNoted
  DEF CloseShort, SubmitCoverRaises, Covered, Calm, IInv
<1>5. CASE ReconcileOnStartup
  BY <1>5, StartupStill, CoverCovered, CloseRowCovered, CancelsCovered DEF ReconcileOnStartup
<1>6. QED
  BY <1>1, <1>2, <1>3, <1>4, <1>5, SurroundingsStill, CrashStill, AccountMovesCovered
  DEF Next, Tick

\* While no call fails and the process dies once at most, or before 15:55 however often,
\* a ticker is not left short: what its closed rows have sold is bought back, on its way,
\* or part of a liquidation.
THEOREM CoverOnItsWay == Spec => []ClosedIsCovered
<1>1. Init => Covered
  <2> SUFFICES ASSUME Init PROVE Accounts /\ Lots /\ Entries /\ WaysOut /\ Hours
    BY DEF Covered
  <2> USE DEF Init, AccountInit
  <2>1. Accounts
    <3>1. ASSUME NEW c \in Contracts PROVE AccountOf(c)
      BY OwedIs, AwaitedIs DEF AccountOf, SeenCovered, RestartPoints
    <3>2. QED BY <3>1 DEF Accounts
  <2>2. Lots /\ Entries /\ WaysOut /\ Hours
    BY DEF Lots, Entries, WaysOut, Hours, EntryPoints, ClosePoints
  <2>3. QED BY <2>1, <2>2
<1>2. IInv /\ Orders /\ Covered /\ [Next]_vars => IInv' /\ Orders' /\ Covered'
  <2>1. IInv /\ [Next]_vars => IInv'
    BY TypePreserved, RowsPreserved DEF IInv
  <2>2. QED BY <2>1, OrdersPreserved, CoveredPreserved
<1>3. ASSUME IInv, Covered PROVE ClosedIsCovered
  <2> SUFFICES ASSUME pc = "idle", Calm, crashes <= 1 \/ ~late, NEW e \in Events,
                      row[e] \in {"priced", "unpriced"}, net[TickerOf[e]] < 0
               PROVE  \/ liquidation[TickerOf[e]] > 0
                      \/ \E t \in Events : /\ TickerOf[t] = TickerOf[e]
                                           /\ row[t] \in {"none", "open"}
                      \/ \E i \in LiveOrders : /\ orders[i].contract = TickerOf[e]
                                               /\ orders[i].delta > 0
    BY DEF ClosedIsCovered, Calm
  <2> DEFINE c == TickerOf[e]
  <2>1. CASE \E t \in Events : TickerOf[t] = c /\ row[t] \in {"none", "open"}
    BY <2>1
  <2>2. CASE ~ \E t \in Events : TickerOf[t] = c /\ row[t] \in {"none", "open"}
    <3>1. /\ c \in Contracts /\ net[c] \in Int /\ lastOrder \in Nat /\ OrderIds \subseteq Nat \ {0}
      BY <1>3, EquityAssumption, BrokerAssumption DEF IInv, TypeOK, AccountTypeOK, OrderIds
    <3>2. ~Excused(c)
      BY <2>2 DEF Excused, Lost
    <3>3. Owed(c) = 0
      BY <2>2 DEF Owed, Exposed, InHand, EntryPoints
    <3>4. net[c] >= -(Owed(c) + Cardinality(Awaited(c))) \/ Liquidated(c)
      BY <1>3, <3>1, <3>2 DEF Covered, Accounts, AccountOf, Foreseen
    <3>5. CASE Liquidated(c)
      BY <3>5 DEF Liquidated
    <3>6. CASE ~Liquidated(c)
      <4>1. Cardinality(Awaited(c)) # 0
        BY <3>1, <3>3, <3>4, <3>6, AwaitedIs
      <4>2. PICK i \in Awaited(c) : TRUE
        BY <4>1, FS_EmptySet
      <4>3. i \in OrderIds /\ i <= lastOrder /\ orders[i].status = "new"
            /\ orders[i].kind = "exit" /\ orders[i].contract = c
        BY <4>2 DEF Awaited
      <4>4. i \in 1 .. lastOrder
        BY <3>1, <4>3
      <4>5. orders[i].delta = 1
        BY <1>3, <4>3, <4>4 DEF Covered, Lots
      <4>6. i \in LiveOrders
        BY <4>3 DEF LiveOrders, Live, LiveStatuses
      <4>7. QED BY <4>3, <4>5, <4>6
    <3>7. QED BY <3>5, <3>6
  <2>3. QED BY <2>1, <2>2
<1>4. QED BY <1>1, <1>2, <1>3, InitIInv, InitOrders, PTL DEF Spec
=============================================================================
