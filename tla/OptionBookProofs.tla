-------------------------- MODULE OptionBookProofs --------------------------
(***************************************************************************)
(* Theorems about OptionBook, for every number of signals, contracts,      *)
(* orders, failing calls, crashes and sessions.                            *)
(***************************************************************************)
EXTENDS OptionBook, BrokerProofs, FiniteSetTheorems

(* The inductive invariant.  OneTradeRow alone is not inductive: a row is   *)
(* appended without looking, so the proof must know that whatever is about *)
(* to be booked has no row, which is so because it is still open, which is *)
(* so because only the thread itself closes positions.                     *)

\* A signal that has not been taken off the queue has no trace.
FreshSignals ==
    \A s \in Signals : s > handled => s \notin open /\ ~taken[s] /\ trades[s] = <<>>

\* The signal a handler works on is the one it may open, or one it has open.
CurrentSignal ==
    /\ pc \in EntryPoints => cur \in Signals /\ cur <= handled /\ trades[cur] = <<>>
    /\ pc \in EntryPoints \ {"entryTaken"} => cur \notin open
    /\ pc \in AdvancePoints \union ClosePoints \union {"manualSell"} => cur \in open

\* What is left of a loop over the open positions is still open.
LoopOverOpen ==
    /\ pc \in {"advance", "flatten", "poll", "ghosts"} => todo \subseteq open
    /\ pc \in AdvancePoints \union ClosePoints => todo \subseteq open \ {cur}

OpenHasNoRow == \A s \in open : trades[s] = <<>>

Rows ==
    /\ FreshSignals
    /\ CurrentSignal
    /\ LoopOverOpen
    /\ OpenHasNoRow
    /\ OneTradeRow

IInv == TypeOK /\ Rows

-----------------------------------------------------------------------------
(* Types.  Only the account lemmas look inside an order. *)

LEMMA NextPost ==
    ASSUME TypeOK, handled < arrived
    PROVE  handled + 1 \in Signals /\ handled + 1 \in 0 .. arrived
BY BookAssumption DEF TypeOK, Signals

LEMMA GotoTyped ==
    ASSUME TypeOK, NEW here, NEW there \in PCs, Goto(here, there)
    PROVE  TypeOK'
BY DEF TypeOK, AccountTypeOK, Goto, account, memory, journal, counters

LEMMA StartLoopTyped ==
    ASSUME TypeOK, NEW here, NEW there \in PCs, NEW signals \in SUBSET Signals,
           StartLoop(here, there, signals)
    PROVE  TypeOK'
BY DEF TypeOK, AccountTypeOK, StartLoop, account, memory, journal, counters

LEMMA SubmitForSignal ==
    ASSUME AccountTypeOK, NEW kind \in Kinds, NEW s \in Signals, NEW delta \in Int,
           Submit(kind, s, ContractOf[s], delta), UNCHANGED <<net, liquidation>>
    PROVE  AccountTypeOK' /\ NextId \in OrderIds
<1>1. s \in Owners /\ ContractOf[s] \in Contracts
  BY BookAssumption
<1>2. orders' \in [OrderIds -> Order] /\ lastOrder' \in 0 .. MaxOrders /\ NextId \in OrderIds
  BY <1>1, SubmitTyped
<1>3. QED BY <1>2 DEF AccountTypeOK

LEMMA SubmitForSignalRaises ==
    ASSUME AccountTypeOK, NEW kind \in Kinds, NEW s \in Signals, NEW delta \in Int,
           SubmitRaises(kind, s, ContractOf[s], delta), UNCHANGED <<net, liquidation>>
    PROVE  AccountTypeOK'
<1>1. s \in Owners /\ ContractOf[s] \in Contracts
  BY BookAssumption
<1>2. orders' \in [OrderIds -> Order] /\ lastOrder' \in 0 .. MaxOrders
  BY <1>1, SubmitRaisesTyped
<1>3. QED BY <1>2 DEF AccountTypeOK

LEMMA CancelOrderTyped ==
    ASSUME AccountTypeOK, NEW i, CancelOrder(i), UNCHANGED <<lastOrder, net, liquidation>>
    PROVE  AccountTypeOK'
BY CancelTyped DEF CancelOrder, AccountTypeOK

LEMMA HandlePostsTyped == ASSUME IInv, HandlePosts PROVE TypeOK'
<1> USE BookAssumption
<1> USE DEF IInv, Rows, TypeOK, account, thread, memory, journal, counters
<1>1. CASE RejectPost
  <2>1. handled' \in 0 .. arrived'
    BY <1>1, NextPost DEF RejectPost
  <2>2. QED BY <1>1, <2>1 DEF RejectPost, AccountTypeOK
<1>2. CASE SubmitEntry
  <2>1. handled + 1 \in Signals
    BY <1>2, NextPost DEF SubmitEntry
  <2>2. AccountTypeOK' /\ NextId \in OrderIds
    BY <1>2, <2>1, SubmitForSignal DEF SubmitEntry, Kinds
  <2>3. QED BY <1>2, <2>1, <2>2 DEF SubmitEntry, PCs, EntryPoints, OrderRefs
<1>3. CASE SubmitEntryRaises
  <2>1. handled + 1 \in Signals
    BY <1>3, NextPost DEF SubmitEntryRaises
  <2>2. AccountTypeOK'
    BY <1>3, <2>1, SubmitForSignalRaises DEF SubmitEntryRaises, Kinds
  <2>3. handled' \in 0 .. arrived' /\ disturbed' \in Nat
    BY <1>3 DEF SubmitEntryRaises, Disturb
  <2>4. QED BY <1>3, <2>2, <2>3 DEF SubmitEntryRaises, Disturb, PCs
<1>4. CASE EntryFilled
  BY <1>4, GotoTyped DEF EntryFilled, PCs, EntryPoints
<1>5. CASE EntryNotFilled
  BY <1>5, GotoTyped DEF EntryNotFilled, PCs, EntryPoints
<1>6. CASE CancelEntry
  <2>1. AccountTypeOK'
    BY <1>6, CancelOrderTyped DEF CancelEntry
  <2>2. QED BY <1>6, <2>1 DEF CancelEntry, CancelOrder, Disturb, PCs, OrderRefs
<1>7. CASE PlaceStop
  <2>1. cur \in Signals
    BY <1>7 DEF PlaceStop, CurrentSignal, EntryPoints
  <2>2. AccountTypeOK' /\ NextId \in OrderIds
    BY <1>7, <2>1, SubmitForSignal DEF PlaceStop, Kinds
  <2>3. QED BY <1>7, <2>1, <2>2 DEF PlaceStop, PCs, EntryPoints, OrderRefs
<1>8. CASE TrackPosition
  <2>1. cur \in Signals
    BY <1>8 DEF TrackPosition, CurrentSignal, EntryPoints
  <2>2. rec' \in [Signals -> Record]
    BY <1>8 DEF TrackPosition, Record, OrderRefs
  <2>3. QED BY <1>8, <2>1, <2>2 DEF TrackPosition, PCs, EntryPoints, AccountTypeOK
<1>9. CASE MarkTaken
  BY <1>9 DEF MarkTaken, AccountTypeOK, PCs, OrderRefs
<1>10. CASE PostHandlerCrash
  <2>1. cur \in Signals
    BY <1>10 DEF PostHandlerCrash, CurrentSignal
  <2>2. AccountTypeOK'
    <3>1. CASE pc = "entryStop"
      BY <1>10, <2>1, <3>1, SubmitForSignalRaises DEF PostHandlerCrash, Kinds
    <3>2. CASE pc # "entryStop"
      BY <1>10, <3>2 DEF PostHandlerCrash, AccountTypeOK
    <3>3. QED BY <3>1, <3>2
  <2>3. QED BY <1>10, <2>2 DEF PostHandlerCrash, Disturb, PCs, OrderRefs

<1>11. CASE PostsDrained
  BY <1>11, GotoTyped DEF PostsDrained, PCs
<1>12. QED
  BY <1>1, <1>2, <1>3, <1>4, <1>5, <1>6, <1>7, <1>8, <1>9, <1>10, <1>11 DEF HandlePosts

LEMMA AppendTradeTyped ==
    ASSUME trades \in [Signals -> Seq(Reasons)], NEW s \in Signals,
           NEW reason \in Reasons, AppendTrade(s, reason)
    PROVE  trades' \in [Signals -> Seq(Reasons)]
<1>1. Append(trades[s], reason) \in Seq(Reasons)
  OBVIOUS
<1>2. QED BY <1>1 DEF AppendTrade

LEMMA RecordExternalCloseTyped ==
    ASSUME TypeOK, NEW s \in Signals, NEW reason \in Reasons,
           RecordExternalClose(s, reason)
    PROVE  /\ open' \in SUBSET Signals
           /\ rec' \in [Signals -> Record]
           /\ trades' \in [Signals -> Seq(Reasons)]
           /\ disturbed' \in Nat
           /\ UNCHANGED <<taken, arrived, handled, manualQueue, crashes, stopMoves, days>>
<1>1. NoRecord \in Record
  BY DEF NoRecord, Record, OrderRefs
<1>2. /\ open' \in SUBSET Signals
      /\ rec' \in [Signals -> Record]
      /\ UNCHANGED <<taken, arrived, handled, manualQueue>>
  BY <1>1 DEF RecordExternalClose, Forget, TypeOK
<1>3. disturbed' \in Nat /\ UNCHANGED <<crashes, stopMoves, days>>
  BY DEF RecordExternalClose, Disturb, TypeOK, counters
<1>4. trades' \in [Signals -> Seq(Reasons)]
  BY AppendTradeTyped DEF RecordExternalClose, TypeOK
<1>5. QED BY <1>2, <1>3, <1>4

LEMMA HandleManualClosesTyped == ASSUME IInv, HandleManualCloses PROVE TypeOK'
<1> USE BookAssumption
<1> USE DEF IInv, Rows, TypeOK, account, thread, memory, journal, counters
<1>1. CASE DropManualClose
  <2>1. manualQueue' \in Seq(Signals)
    BY <1>1 DEF DropManualClose
  <2>2. UNCHANGED <<account, thread, open, rec, arrived, handled, journal, late, counters>>
    BY <1>1 DEF DropManualClose
  <2>3. QED BY <2>1, <2>2 DEF AccountTypeOK
<1>2. CASE CancelStopForManualClose
  <2>1. AccountTypeOK'
    BY <1>2, CancelOrderTyped DEF CancelStopForManualClose
  <2>2. cur' \in Signals /\ manualQueue' \in Seq(Signals)
    BY <1>2 DEF CancelStopForManualClose
  <2>3. rec' \in [Signals -> Record]
    BY <1>2 DEF CancelStopForManualClose, Record, OrderRefs
  <2>4. disturbed' \in Nat /\ UNCHANGED <<crashes, stopMoves, days>>
    <3>1. Disturb \/ UNCHANGED counters
      BY <1>2 DEF CancelStopForManualClose, CancelOrder
    <3>2. QED BY <3>1 DEF Disturb
  <2>5. /\ pc' \in PCs
        /\ UNCHANGED <<oid, todo, flattening, open, arrived, handled, journal, late>>
    BY <1>2 DEF CancelStopForManualClose, PCs
  <2>6. QED BY <2>1, <2>2, <2>3, <2>4, <2>5
<1>3. CASE SubmitManualSell
  <2>1. cur \in Signals /\ -rec[cur].qty \in Int
    BY <1>3 DEF SubmitManualSell, CurrentSignal, Record
  <2>2. AccountTypeOK' /\ NextId \in OrderIds
    BY <1>3, <2>1, SubmitForSignal DEF SubmitManualSell, Kinds
  <2>3. rec' \in [Signals -> Record]
    BY <1>3, <2>2 DEF SubmitManualSell, Record, OrderRefs
  <2>4. QED BY <1>3, <2>2, <2>3 DEF SubmitManualSell, PCs
<1>4. CASE ManualCloseFails
  <2>1. cur \in Signals /\ -rec[cur].qty \in Int
    BY <1>4 DEF ManualCloseFails, CurrentSignal, Record
  <2>2. AccountTypeOK'
    BY <1>4, <2>1, SubmitForSignalRaises DEF ManualCloseFails, Kinds
  <2>3. rec' \in [Signals -> Record]
    BY <1>4 DEF ManualCloseFails, Record, OrderRefs
  <2>4. todo' \in SUBSET Signals
    BY <1>4 DEF ManualCloseFails
  <2>5. QED BY <1>4, <2>2, <2>3, <2>4 DEF ManualCloseFails, Disturb, PCs
<1>5. CASE ManualQueueDrained
  <2>1. {s \in open : rec[s].closing /\ rec[s].manual # NoOrder} \in SUBSET Signals
    OBVIOUS
  <2>2. "poll" \in PCs
    BY DEF PCs
  <2>3. QED BY <1>5, <2>1, <2>2, StartLoopTyped DEF ManualQueueDrained
<1>6. CASE PollDone
  BY <1>6, GotoTyped DEF PollDone, PCs
<1>7. ASSUME NEW s \in Signals, BookManualFill(s) PROVE TypeOK'
  <2>1. "manual_close" \in Reasons
    BY DEF Reasons
  <2>2. QED BY <1>7, <2>1, RecordExternalCloseTyped DEF BookManualFill, AccountTypeOK
<1>8. ASSUME NEW s \in Signals, ManualFillPending(s) PROVE TypeOK'
  <2>1. disturbed' \in Nat /\ UNCHANGED <<crashes, stopMoves, days>>
    BY <1>8 DEF ManualFillPending, Disturb
  <2>2. QED BY <1>8, <2>1 DEF ManualFillPending, AccountTypeOK
<1>9. QED
  BY <1>1, <1>2, <1>3, <1>4, <1>5, <1>6, <1>7, <1>8 DEF HandleManualCloses

LEMMA FlattenAtCloseTyped == ASSUME IInv, FlattenAtClose PROVE TypeOK'
<1> USE DEF IInv, Rows, TypeOK, account, thread, memory, journal, counters
<1>1. CASE BeforeClose
  BY <1>1, StartLoopTyped DEF BeforeClose, PCs
<1>2. CASE NothingToFlatten
  BY <1>2, GotoTyped DEF NothingToFlatten, PCs
<1>3. CASE StartFlatten
  BY <1>3, StartLoopTyped DEF StartFlatten, PCs
<1>4. CASE AllFlattened
  BY <1>4, GotoTyped DEF AllFlattened, PCs
<1>5. CASE CancelAll
  <2>1. AccountTypeOK'
    BY <1>5, CancelAllTyped DEF CancelAll, AccountTypeOK
  <2>2. QED BY <1>5, <2>1 DEF CancelAll, PCs
<1>6. CASE CloseAll
  <2>1. AccountTypeOK'
    BY <1>6, CloseAllTyped DEF CloseAll, AccountTypeOK
  <2>2. QED BY <1>6, <2>1 DEF CloseAll, PCs
<1>7. CASE FlattenFails
  BY <1>7 DEF FlattenFails, Disturb, PCs, AccountTypeOK
<1>8. ASSUME NEW s \in Signals, FlattenOne(s) PROVE TypeOK'
  BY <1>8 DEF FlattenOne, PCs, ClosePoints, AccountTypeOK
<1>9. QED
  BY <1>1, <1>2, <1>3, <1>4, <1>5, <1>6, <1>7, <1>8 DEF FlattenAtClose

LEMMA AdvancePositionsTyped == ASSUME IInv, AdvancePositions PROVE TypeOK'
<1> USE BookAssumption
<1> USE DEF IInv, Rows, TypeOK, account, thread, memory, journal, counters
<1>1. CASE Hold
  BY <1>1 DEF Hold, PCs, AccountTypeOK
<1>2. CASE RaiseStop
  BY <1>2 DEF RaiseStop, PCs, AdvancePoints, AccountTypeOK
<1>3. CASE ReplaceStop
  <2>1. AccountTypeOK' /\ NextId \in OrderIds
    BY <1>3, ReplaceTyped DEF ReplaceStop, AccountTypeOK
  <2>2. rec' \in [Signals -> Record]
    BY <1>3, <2>1 DEF ReplaceStop, Record, OrderRefs
  <2>3. QED BY <1>3, <2>1, <2>2 DEF ReplaceStop, PCs, AdvancePoints
<1>4. CASE ReplaceRefused
  <2>1. AccountTypeOK'
    <3>1. CASE CancelOrder(rec[cur].stop) /\ UNCHANGED lastOrder
      BY <1>4, <3>1, CancelOrderTyped DEF ReplaceRefused
    <3>2. CASE CancelRequested(rec[cur].stop) /\ UNCHANGED lastOrder
      BY <1>4, <3>2, CancelTyped DEF ReplaceRefused, AccountTypeOK
    <3>3. CASE Replace(rec[cur].stop)
      BY <1>4, <3>3, ReplaceTyped DEF ReplaceRefused, AccountTypeOK
    <3>4. QED BY <1>4, <3>1, <3>2, <3>3 DEF ReplaceRefused
  <2>2. disturbed' \in Nat /\ UNCHANGED <<crashes, stopMoves, days>>
    BY <1>4 DEF ReplaceRefused, CancelOrder, Disturb
  <2>3. pc' \in PCs /\ UNCHANGED <<cur, oid, todo, flattening, memory, journal, late>>
    BY <1>4 DEF ReplaceRefused, PCs, AdvancePoints
  <2>4. QED BY <2>1, <2>2, <2>3
<1>5. CASE ResubmitStop
  <2>1. cur \in Signals /\ -rec[cur].qty \in Int
    BY <1>5 DEF ResubmitStop, CurrentSignal, AdvancePoints, Record
  <2>2. AccountTypeOK' /\ NextId \in OrderIds
    BY <1>5, <2>1, SubmitForSignal DEF ResubmitStop, Kinds
  <2>3. rec' \in [Signals -> Record]
    BY <1>5, <2>2 DEF ResubmitStop, Record, OrderRefs
  <2>4. QED BY <1>5, <2>2, <2>3 DEF ResubmitStop, PCs, AdvancePoints
<1>6. CASE ResubmitStopRaises
  <2>1. cur \in Signals /\ -rec[cur].qty \in Int
    BY <1>6 DEF ResubmitStopRaises, CurrentSignal, AdvancePoints, Record
  <2>2. AccountTypeOK'
    BY <1>6, <2>1, SubmitForSignalRaises DEF ResubmitStopRaises, Kinds
  <2>3. QED BY <1>6, <2>2 DEF ResubmitStopRaises, Disturb, PCs, AdvancePoints
<1>7. CASE ExitPosition
  BY <1>7, GotoTyped DEF ExitPosition, PCs, ClosePoints
<1>8. CASE AdvanceDone
  BY <1>8, GotoTyped DEF AdvanceDone, PCs
<1>9. ASSUME NEW s \in Signals, SkipClosing(s) PROVE TypeOK'
  BY <1>9 DEF SkipClosing, AccountTypeOK
<1>10. ASSUME NEW s \in Signals, BookStopFill(s) PROVE TypeOK'
  <2>1. "stop_loss" \in Reasons
    BY DEF Reasons
  <2>2. QED BY <1>10, <2>1, RecordExternalCloseTyped DEF BookStopFill, AccountTypeOK
<1>11. ASSUME NEW s \in Signals, LookAtPosition(s) PROVE TypeOK'
  <2>1. disturbed' \in Nat /\ UNCHANGED <<crashes, stopMoves, days>>
    BY <1>11 DEF LookAtPosition, Disturb
  <2>2. QED BY <1>11, <2>1 DEF LookAtPosition, PCs, AdvancePoints, AccountTypeOK
<1>12. QED
  BY <1>1, <1>2, <1>3, <1>4, <1>5, <1>6, <1>7, <1>8, <1>9, <1>10, <1>11
  DEF AdvancePositions

LEMMA ClosePositionTyped == ASSUME IInv, ClosePosition PROVE TypeOK'
<1> USE BookAssumption
<1> USE DEF IInv, Rows, TypeOK, account, thread, memory, journal, counters
<1>1. CASE CancelStopForClose
  <2>1. AccountTypeOK'
    BY <1>1, CancelOrderTyped DEF CancelStopForClose
  <2>2. disturbed' \in Nat /\ UNCHANGED <<crashes, stopMoves, days>>
    BY <1>1 DEF CancelStopForClose, CancelOrder, Disturb
  <2>3. QED BY <1>1, <2>1, <2>2 DEF CancelStopForClose, PCs, ClosePoints
<1>2. CASE SubmitClose
  <2>1. cur \in Signals /\ -rec[cur].qty \in Int
    BY <1>2 DEF SubmitClose, CurrentSignal, ClosePoints, Record
  <2>2. AccountTypeOK'
    BY <1>2, <2>1, SubmitForSignal DEF SubmitClose, Kinds
  <2>3. QED BY <1>2, <2>2 DEF SubmitClose, PCs, ClosePoints
<1>3. CASE BookClose
  <2>1. NoRecord \in Record /\ {"strategy_exit", "time_stop_1555"} \subseteq Reasons
    BY DEF NoRecord, Record, OrderRefs, Reasons
  <2>2. trades' \in [Signals -> Seq(Reasons)]
    <3>1. cur \in Signals
      BY <1>3 DEF BookClose, CurrentSignal, ClosePoints
    <3>2. QED BY <1>3, <2>1, <3>1, AppendTradeTyped DEF BookClose
  <2>3. rec' \in [Signals -> Record] /\ open' \in SUBSET Signals
    BY <1>3, <2>1 DEF BookClose, Forget
  <2>4. QED BY <1>3, <2>2, <2>3 DEF BookClose, PCs, AccountTypeOK
<1>4. CASE CloseRaises
  <2>1. cur \in Signals /\ -rec[cur].qty \in Int
    BY <1>4 DEF CloseRaises, CurrentSignal, ClosePoints, Record
  <2>2. AccountTypeOK'
    <3>1. CASE pc = "closeSell"
      BY <1>4, <2>1, <3>1, SubmitForSignalRaises DEF CloseRaises, Kinds
    <3>2. CASE pc # "closeSell"
      BY <1>4, <3>2 DEF CloseRaises, AccountTypeOK
    <3>3. QED BY <3>1, <3>2
  <2>3. disturbed' \in Nat /\ UNCHANGED <<crashes, stopMoves, days>>
    BY <1>4 DEF CloseRaises, Disturb
  <2>4. todo' \in SUBSET Signals
    BY <1>4 DEF CloseRaises
  <2>5. QED BY <1>4, <2>2, <2>3, <2>4 DEF CloseRaises, PCs
<1>5. QED BY <1>1, <1>2, <1>3, <1>4 DEF ClosePosition

LEMMA ReconcilePositionsTyped == ASSUME IInv, ReconcilePositions PROVE TypeOK'
<1> USE DEF IInv, Rows, TypeOK, account, thread, memory, journal, counters
<1>1. CASE SkipReconcile
  BY <1>1, GotoTyped DEF SkipReconcile, PCs
<1>2. CASE FindGhosts
  <2>1. {s \in open : net[ContractOf[s]] = 0} \in SUBSET Signals
    OBVIOUS
  <2>2. "ghosts" \in PCs
    BY DEF PCs
  <2>3. QED BY <1>2, <2>1, <2>2, StartLoopTyped DEF FindGhosts
<1>3. CASE GhostsDone
  BY <1>3, GotoTyped DEF GhostsDone, PCs
<1>4. ASSUME NEW s \in Signals, DeferGhost(s) PROVE TypeOK'
  <2>1. disturbed' \in Nat /\ UNCHANGED <<crashes, stopMoves, days>>
    BY <1>4 DEF DeferGhost, Disturb
  <2>2. QED BY <1>4, <2>1 DEF DeferGhost, AccountTypeOK
<1>5. ASSUME NEW s \in Signals, BookManualGhost(s) PROVE TypeOK'
  <2>1. "manual_close" \in Reasons
    BY DEF Reasons
  <2>2. QED BY <1>5, <2>1, RecordExternalCloseTyped DEF BookManualGhost, AccountTypeOK
<1>6. ASSUME NEW s \in Signals, BookGhost(s) PROVE TypeOK'
  <2>1. PICK reason \in Reasons : RecordExternalClose(s, reason)
    BY <1>6 DEF BookGhost, Reasons
  <2>2. QED BY <1>6, <2>1, RecordExternalCloseTyped DEF BookGhost, AccountTypeOK
<1>7. ASSUME NEW s \in Signals, BookGhostBlind(s) PROVE TypeOK'
  <2>1. NoRecord \in Record /\ "external_close" \in Reasons
    BY DEF NoRecord, Record, OrderRefs, Reasons
  <2>2. trades' \in [Signals -> Seq(Reasons)]
    BY <1>7, <2>1, AppendTradeTyped DEF BookGhostBlind
  <2>3. rec' \in [Signals -> Record] /\ open' \in SUBSET Signals
    BY <1>7, <2>1 DEF BookGhostBlind, Forget
  <2>4. QED BY <1>7, <2>2, <2>3 DEF BookGhostBlind, Disturb, AccountTypeOK
<1>8. QED
  BY <1>1, <1>2, <1>3, <1>4, <1>5, <1>6, <1>7 DEF ReconcilePositions

\* What happens around the orchestrator thread.
Surroundings ==
    \/ \E s \in Signals : RequestManualClose(s)
    \/ Crash \/ Restart
    \/ PostArrives \/ AccountMoves \/ CloseApproaches \/ NextSession

LEMMA SurroundingsTyped == ASSUME IInv, Surroundings PROVE TypeOK'
<1> USE BookAssumption
<1> USE DEF IInv, Rows, TypeOK, account, thread, memory, journal, counters
<1>1. ASSUME NEW s \in Signals, RequestManualClose(s) PROVE TypeOK'
  <2>1. manualQueue' \in Seq(Signals)
    BY <1>1 DEF RequestManualClose
  <2>2. rec' \in [Signals -> Record]
    BY <1>1 DEF RequestManualClose, Record
  <2>3. QED BY <1>1, <2>1, <2>2 DEF RequestManualClose, AccountTypeOK
<1>2. CASE Crash
  <2>1. NoRecord \in Record
    BY DEF NoRecord, Record, OrderRefs
  <2>2. rec' \in [Signals -> Record] /\ manualQueue' \in Seq(Signals)
    BY <1>2, <2>1 DEF Crash
  <2>3. /\ pc' \in PCs /\ oid' \in OrderRefs /\ handled' \in 0 .. arrived'
        /\ crashes' \in Nat
    BY <1>2 DEF Crash, PCs, OrderRefs
  <2>4. QED BY <1>2, <2>2, <2>3 DEF Crash, AccountTypeOK
<1>3. CASE Restart
  <2>1. open' \in SUBSET Signals
    BY <1>3 DEF Restart, Adoptable
  <2>2. \A c \in Contracts : AbsInt(net[c]) \in Nat
    BY DEF AbsInt, AccountTypeOK
  <2>3. NoRecord \in Record
    BY DEF NoRecord, Record, OrderRefs
  <2>4. rec' \in [Signals -> Record]
    <3>1. PICK stopOf \in [Contracts -> OrderRefs] :
            rec' = [s \in Signals |->
                      IF s \in open'
                      THEN [stop |-> stopOf[ContractOf[s]], manual |-> NoOrder,
                            closing |-> FALSE, qty |-> AbsInt(net[ContractOf[s]])]
                      ELSE NoRecord]
      BY <1>3 DEF Restart
    <3>2. ASSUME NEW s \in Signals
          PROVE  [stop |-> stopOf[ContractOf[s]], manual |-> NoOrder,
                  closing |-> FALSE, qty |-> AbsInt(net[ContractOf[s]])] \in Record
      BY <2>2 DEF Record, OrderRefs
    <3>3. QED BY <2>3, <3>1, <3>2
  <2>5. disturbed' \in Nat /\ UNCHANGED <<crashes, stopMoves, days>>
    BY <1>3 DEF Restart, Disturb
  <2>6. /\ pc' \in PCs
        /\ UNCHANGED <<account, cur, oid, todo, flattening, arrived, handled,
                       manualQueue, journal, late>>
    BY <1>3 DEF Restart, PCs
  <2>7. QED BY <2>1, <2>4, <2>5, <2>6 DEF AccountTypeOK
<1>4. CASE PostArrives
  BY <1>4 DEF PostArrives, AccountTypeOK
<1>5. CASE AccountMoves
  <2>1. AccountTypeOK'
    <3>1. AccountTypeOK
      OBVIOUS
    <3>2. \/ \E i \in OrderIds : Fill(i) \/ CancelSettles(i) \/ ExchangeRejects(i)
          \/ \E c \in Contracts : LiquidationFills(c) \/ ClosedByHand(c)
      BY <1>5 DEF AccountMoves
    <3>3. QED BY <3>1, <3>2, AccountMoveTyped
  <2>2. disturbed' \in Nat /\ UNCHANGED <<crashes, stopMoves, days>>
    BY <1>5 DEF AccountMoves, Disturb
  <2>3. QED BY <1>5, <2>1, <2>2 DEF AccountMoves
<1>6. CASE CloseApproaches
  BY <1>6 DEF CloseApproaches, AccountTypeOK
<1>7. CASE NextSession
  <2>1. AccountTypeOK'
    BY <1>7, AccountMoveTyped DEF NextSession
  <2>2. days' \in Nat
    BY <1>7 DEF NextSession
  <2>3. late' \in BOOLEAN
    BY <1>7, Zenon DEF NextSession
  <2>4. UNCHANGED <<thread, memory, journal, disturbed, crashes, stopMoves>>
    BY <1>7 DEF NextSession
  <2>5. QED BY <2>1, <2>2, <2>3, <2>4
<1>8. QED BY <1>1, <1>2, <1>3, <1>4, <1>5, <1>6, <1>7 DEF Surroundings

LEMMA TypePreserved == ASSUME IInv, [Next]_vars PROVE TypeOK'
<1>1. CASE StartTick
  BY <1>1, GotoTyped DEF StartTick, IInv, PCs
<1>2. CASE UNCHANGED vars
  BY <1>2 DEF vars, IInv, TypeOK, AccountTypeOK, account, thread, memory, journal, counters
<1>3. QED
  BY <1>1, <1>2, HandlePostsTyped, HandleManualClosesTyped, FlattenAtCloseTyped,
     AdvancePositionsTyped, ClosePositionTyped, ReconcilePositionsTyped, SurroundingsTyped
  DEF Next, Tick, Surroundings

-----------------------------------------------------------------------------
(* Rows. *)

LEMMA ForgetRows ==
    ASSUME IInv, NEW s \in open, NEW reason \in Reasons,
           Forget(s), AppendTrade(s, reason) \/ UNCHANGED trades,
           UNCHANGED <<taken, handled>>
    PROVE  FreshSignals' /\ OpenHasNoRow' /\ OneTradeRow'
<1> USE DEF IInv, Rows, TypeOK, Forget
<1>1. CASE UNCHANGED trades
  BY <1>1 DEF FreshSignals, OpenHasNoRow, OneTradeRow
<1>2. CASE AppendTrade(s, reason)
  <2>1. trades[s] = <<>> /\ trades' = [trades EXCEPT ![s] = <<reason>>]
    <3>1. trades[s] = <<>>
      BY DEF OpenHasNoRow
    <3>2. Append(<<>>, reason) = <<reason>>
      OBVIOUS
    <3>3. QED BY <1>2, <3>1, <3>2 DEF AppendTrade
  <2>2. Len(<<reason>>) = 1
    OBVIOUS
  <2>3. OneTradeRow'
    BY <2>1, <2>2 DEF OneTradeRow
  <2>4. OpenHasNoRow'
    BY <2>1 DEF OpenHasNoRow
  <2>5. s <= handled
    BY DEF FreshSignals, Signals
  <2>6. FreshSignals'
    BY <2>1, <2>5 DEF FreshSignals, Signals
  <2>7. QED BY <2>3, <2>4, <2>6
<1>3. QED BY <1>1, <1>2

LEMMA RecordExternalCloseRows ==
    ASSUME IInv, NEW s \in open, NEW reason \in Reasons, RecordExternalClose(s, reason)
    PROVE  FreshSignals' /\ OpenHasNoRow' /\ OneTradeRow' /\ open' = open \ {s}
BY ForgetRows DEF RecordExternalClose, Forget

\* A step that leaves the book alone.
LEMMA SameRows ==
    ASSUME IInv, UNCHANGED <<open, taken, trades>>, handled' = handled
    PROVE  FreshSignals' /\ OpenHasNoRow' /\ OneTradeRow'
BY DEF IInv, Rows, FreshSignals, OpenHasNoRow, OneTradeRow

LEMMA HandlePostsRows == ASSUME IInv, HandlePosts PROVE Rows'
<1> USE DEF IInv, TypeOK, Rows, thread, memory, journal, EntryPoints, AdvancePoints, ClosePoints
<1>1. CASE RejectPost
  BY <1>1 DEF RejectPost, Signals, FreshSignals, CurrentSignal, LoopOverOpen, OpenHasNoRow,
              OneTradeRow
<1>2. CASE SubmitEntry
  <2>1. cur' \in Signals /\ cur' > handled /\ cur' = handled' /\ pc' = "entryWait"
    <3>1. handled + 1 \in Signals
      BY <1>2, NextPost DEF SubmitEntry
    <3>2. QED BY <1>2, <3>1 DEF SubmitEntry
  <2>2. UNCHANGED <<open, taken, trades, todo>>
    BY <1>2 DEF SubmitEntry
  <2>3. CurrentSignal' /\ LoopOverOpen'
    <3>1. cur' \notin open /\ trades[cur'] = <<>>
      BY <2>1 DEF FreshSignals
    <3>2. cur' <= handled'
      BY <2>1 DEF Signals
    <3>3. QED BY <2>1, <2>2, <3>1, <3>2 DEF CurrentSignal, LoopOverOpen
  <2>4. FreshSignals' /\ OpenHasNoRow' /\ OneTradeRow'
    BY <1>2, <2>2 DEF SubmitEntry, Signals, FreshSignals, OpenHasNoRow, OneTradeRow
  <2>5. QED BY <2>3, <2>4
<1>3. CASE SubmitEntryRaises
  BY <1>3 DEF SubmitEntryRaises, Signals, FreshSignals, CurrentSignal, LoopOverOpen,
              OpenHasNoRow, OneTradeRow
<1>4. CASE EntryFilled
  BY <1>4, SameRows DEF EntryFilled, Goto, CurrentSignal, LoopOverOpen
<1>5. CASE EntryNotFilled
  BY <1>5, SameRows DEF EntryNotFilled, Goto, CurrentSignal, LoopOverOpen
<1>6. CASE CancelEntry
  BY <1>6, SameRows DEF CancelEntry, CurrentSignal, LoopOverOpen
<1>7. CASE PlaceStop
  BY <1>7, SameRows DEF PlaceStop, CurrentSignal, LoopOverOpen
<1>8. CASE TrackPosition
  <2>1. cur \in Signals /\ trades[cur] = <<>> /\ cur <= handled
    BY <1>8 DEF TrackPosition, CurrentSignal
  <2>2. QED
    BY <1>8, <2>1 DEF TrackPosition, Signals, FreshSignals, CurrentSignal, LoopOverOpen,
                      OpenHasNoRow, OneTradeRow
<1>9. CASE MarkTaken
  <2>1. cur \in Signals /\ cur <= handled
    BY <1>9 DEF MarkTaken, CurrentSignal
  <2>2. FreshSignals'
    BY <1>9, <2>1 DEF MarkTaken, Signals, FreshSignals
  <2>3. QED
    BY <1>9, <2>2 DEF MarkTaken, CurrentSignal, LoopOverOpen, OpenHasNoRow, OneTradeRow
<1>10. CASE PostHandlerCrash
  BY <1>10, SameRows DEF PostHandlerCrash, CurrentSignal, LoopOverOpen
<1>11. CASE PostsDrained
  BY <1>11, SameRows DEF PostsDrained, Goto, CurrentSignal, LoopOverOpen
<1>12. QED
  BY <1>1, <1>2, <1>3, <1>4, <1>5, <1>6, <1>7, <1>8, <1>9, <1>10, <1>11 DEF HandlePosts

LEMMA HandleManualClosesRows == ASSUME IInv, HandleManualCloses PROVE Rows'
<1> USE DEF IInv, TypeOK, Rows, thread, memory, journal, EntryPoints, AdvancePoints, ClosePoints
<1>1. CASE DropManualClose
  BY <1>1, SameRows DEF DropManualClose, CurrentSignal, LoopOverOpen
<1>2. CASE CancelStopForManualClose
  BY <1>2, SameRows DEF CancelStopForManualClose, CurrentSignal, LoopOverOpen
<1>3. CASE SubmitManualSell
  BY <1>3, SameRows DEF SubmitManualSell, CurrentSignal, LoopOverOpen
<1>4. CASE ManualCloseFails
  BY <1>4, SameRows DEF ManualCloseFails, CurrentSignal, LoopOverOpen
<1>5. CASE ManualQueueDrained
  BY <1>5, SameRows DEF ManualQueueDrained, StartLoop, CurrentSignal, LoopOverOpen
<1>6. CASE PollDone
  BY <1>6, SameRows DEF PollDone, Goto, CurrentSignal, LoopOverOpen
<1>7. ASSUME NEW s \in Signals, BookManualFill(s) PROVE Rows'
  <2>1. s \in open /\ "manual_close" \in Reasons
    BY <1>7 DEF BookManualFill, LoopOverOpen, Reasons
  <2>2. FreshSignals' /\ OpenHasNoRow' /\ OneTradeRow' /\ open' = open \ {s}
    BY <1>7, <2>1, RecordExternalCloseRows DEF BookManualFill
  <2>3. QED BY <1>7, <2>2 DEF BookManualFill, CurrentSignal, LoopOverOpen
<1>8. ASSUME NEW s \in Signals, ManualFillPending(s) PROVE Rows'
  BY <1>8, SameRows DEF ManualFillPending, CurrentSignal, LoopOverOpen
<1>9. QED
  BY <1>1, <1>2, <1>3, <1>4, <1>5, <1>6, <1>7, <1>8 DEF HandleManualCloses

LEMMA FlattenAtCloseRows == ASSUME IInv, FlattenAtClose PROVE Rows'
<1> USE DEF IInv, TypeOK, Rows, thread, memory, journal, EntryPoints, AdvancePoints, ClosePoints
<1>1. CASE BeforeClose
  BY <1>1, SameRows DEF BeforeClose, StartLoop, CurrentSignal, LoopOverOpen
<1>2. CASE NothingToFlatten
  BY <1>2, SameRows DEF NothingToFlatten, Goto, CurrentSignal, LoopOverOpen
<1>3. CASE StartFlatten
  BY <1>3, SameRows DEF StartFlatten, StartLoop, CurrentSignal, LoopOverOpen
<1>4. CASE AllFlattened
  BY <1>4, SameRows DEF AllFlattened, Goto, CurrentSignal, LoopOverOpen
<1>5. CASE CancelAll
  BY <1>5, SameRows DEF CancelAll, CurrentSignal, LoopOverOpen
<1>6. CASE CloseAll
  BY <1>6, SameRows DEF CloseAll, CurrentSignal, LoopOverOpen
<1>7. CASE FlattenFails
  BY <1>7, SameRows DEF FlattenFails, CurrentSignal, LoopOverOpen
<1>8. ASSUME NEW s \in Signals, FlattenOne(s) PROVE Rows'
  BY <1>8, SameRows DEF FlattenOne, CurrentSignal, LoopOverOpen
<1>9. QED
  BY <1>1, <1>2, <1>3, <1>4, <1>5, <1>6, <1>7, <1>8 DEF FlattenAtClose

LEMMA AdvancePositionsRows == ASSUME IInv, AdvancePositions PROVE Rows'
<1> USE DEF IInv, TypeOK, Rows, thread, memory, journal, EntryPoints, AdvancePoints, ClosePoints
<1>1. CASE Hold
  BY <1>1, SameRows DEF Hold, CurrentSignal, LoopOverOpen
<1>2. CASE RaiseStop
  BY <1>2, SameRows DEF RaiseStop, CurrentSignal, LoopOverOpen
<1>3. CASE ReplaceStop
  BY <1>3, SameRows DEF ReplaceStop, CurrentSignal, LoopOverOpen
<1>4. CASE ReplaceRefused
  BY <1>4, SameRows DEF ReplaceRefused, CurrentSignal, LoopOverOpen
<1>5. CASE ResubmitStop
  BY <1>5, SameRows DEF ResubmitStop, CurrentSignal, LoopOverOpen
<1>6. CASE ResubmitStopRaises
  BY <1>6, SameRows DEF ResubmitStopRaises, CurrentSignal, LoopOverOpen
<1>7. CASE ExitPosition
  BY <1>7, SameRows DEF ExitPosition, Goto, CurrentSignal, LoopOverOpen
<1>8. CASE AdvanceDone
  BY <1>8, SameRows DEF AdvanceDone, Goto, CurrentSignal, LoopOverOpen
<1>9. ASSUME NEW s \in Signals, SkipClosing(s) PROVE Rows'
  BY <1>9, SameRows DEF SkipClosing, CurrentSignal, LoopOverOpen
<1>10. ASSUME NEW s \in Signals, BookStopFill(s) PROVE Rows'
  <2>1. s \in open /\ "stop_loss" \in Reasons
    BY <1>10 DEF BookStopFill, LoopOverOpen, Reasons
  <2>2. FreshSignals' /\ OpenHasNoRow' /\ OneTradeRow' /\ open' = open \ {s}
    BY <1>10, <2>1, RecordExternalCloseRows DEF BookStopFill
  <2>3. QED BY <1>10, <2>2 DEF BookStopFill, CurrentSignal, LoopOverOpen
<1>11. ASSUME NEW s \in Signals, LookAtPosition(s) PROVE Rows'
  BY <1>11, SameRows DEF LookAtPosition, CurrentSignal, LoopOverOpen
<1>12. QED
  BY <1>1, <1>2, <1>3, <1>4, <1>5, <1>6, <1>7, <1>8, <1>9, <1>10, <1>11
  DEF AdvancePositions

LEMMA ClosePositionRows == ASSUME IInv, ClosePosition PROVE Rows'
<1> USE DEF IInv, TypeOK, Rows, thread, memory, journal, EntryPoints, AdvancePoints, ClosePoints
<1>1. CASE CancelStopForClose
  BY <1>1, SameRows DEF CancelStopForClose, CurrentSignal, LoopOverOpen
<1>2. CASE SubmitClose
  BY <1>2, SameRows DEF SubmitClose, CurrentSignal, LoopOverOpen
<1>3. CASE BookClose
  <2>1. cur \in open /\ {"strategy_exit", "time_stop_1555"} \subseteq Reasons
    BY <1>3 DEF BookClose, CurrentSignal, Reasons
  <2>2. FreshSignals' /\ OpenHasNoRow' /\ OneTradeRow' /\ open' = open \ {cur}
    BY <1>3, <2>1, ForgetRows DEF BookClose, Forget
  <2>3. QED BY <1>3, <2>2 DEF BookClose, CurrentSignal, LoopOverOpen
<1>4. CASE CloseRaises
  BY <1>4, SameRows DEF CloseRaises, CurrentSignal, LoopOverOpen
<1>5. QED BY <1>1, <1>2, <1>3, <1>4 DEF ClosePosition

LEMMA ReconcilePositionsRows == ASSUME IInv, ReconcilePositions PROVE Rows'
<1> USE DEF IInv, TypeOK, Rows, thread, memory, journal, EntryPoints, AdvancePoints, ClosePoints
<1>1. CASE SkipReconcile
  BY <1>1, SameRows DEF SkipReconcile, Goto, CurrentSignal, LoopOverOpen
<1>2. CASE FindGhosts
  BY <1>2, SameRows DEF FindGhosts, StartLoop, CurrentSignal, LoopOverOpen
<1>3. CASE GhostsDone
  BY <1>3, SameRows DEF GhostsDone, Goto, CurrentSignal, LoopOverOpen
<1>4. ASSUME NEW s \in Signals, DeferGhost(s) PROVE Rows'
  BY <1>4, SameRows DEF DeferGhost, CurrentSignal, LoopOverOpen
<1>5. ASSUME NEW s \in Signals, BookManualGhost(s) PROVE Rows'
  <2>1. s \in open /\ "manual_close" \in Reasons
    BY <1>5 DEF BookManualGhost, LoopOverOpen, Reasons
  <2>2. FreshSignals' /\ OpenHasNoRow' /\ OneTradeRow' /\ open' = open \ {s}
    BY <1>5, <2>1, RecordExternalCloseRows DEF BookManualGhost
  <2>3. QED BY <1>5, <2>2 DEF BookManualGhost, CurrentSignal, LoopOverOpen
<1>6. ASSUME NEW s \in Signals, BookGhost(s) PROVE Rows'
  <2>1. PICK reason \in Reasons : RecordExternalClose(s, reason)
    BY <1>6 DEF BookGhost, Reasons
  <2>2. s \in open
    BY <1>6 DEF BookGhost, LoopOverOpen
  <2>3. FreshSignals' /\ OpenHasNoRow' /\ OneTradeRow' /\ open' = open \ {s}
    BY <2>1, <2>2, RecordExternalCloseRows
  <2>4. QED BY <1>6, <2>3 DEF BookGhost, CurrentSignal, LoopOverOpen
<1>7. ASSUME NEW s \in Signals, BookGhostBlind(s) PROVE Rows'
  <2>1. s \in open /\ "external_close" \in Reasons
    BY <1>7 DEF BookGhostBlind, LoopOverOpen, Reasons
  <2>2. FreshSignals' /\ OpenHasNoRow' /\ OneTradeRow' /\ open' = open \ {s}
    BY <1>7, <2>1, ForgetRows DEF BookGhostBlind, Forget
  <2>3. QED BY <1>7, <2>2 DEF BookGhostBlind, CurrentSignal, LoopOverOpen
<1>8. QED
  BY <1>1, <1>2, <1>3, <1>4, <1>5, <1>6, <1>7 DEF ReconcilePositions

LEMMA SurroundingsRows == ASSUME IInv, Surroundings PROVE Rows'
<1> USE DEF IInv, TypeOK, Rows, thread, memory, journal, EntryPoints, AdvancePoints, ClosePoints
<1>1. ASSUME NEW s \in Signals, RequestManualClose(s) PROVE Rows'
  BY <1>1, SameRows DEF RequestManualClose, CurrentSignal, LoopOverOpen
<1>2. CASE Crash
  <2>1. handled <= handled' /\ open' = {} /\ UNCHANGED <<taken, trades>>
    BY <1>2 DEF Crash
  <2>2. FreshSignals' /\ OpenHasNoRow' /\ OneTradeRow'
    BY <1>2, <2>1 DEF Crash, Signals, FreshSignals, OpenHasNoRow, OneTradeRow
  <2>3. QED BY <1>2, <2>2 DEF Crash, CurrentSignal, LoopOverOpen
<1>3. CASE Restart
  <2>1. UNCHANGED <<taken, trades>> /\ handled' = handled
    BY <1>3 DEF Restart
  <2>2. \A s \in open' : s \in Signals /\ taken[s] /\ trades[s] = <<>>
    BY <1>3 DEF Restart, Adoptable, Unclosed
  <2>3. FreshSignals' /\ OpenHasNoRow' /\ OneTradeRow'
    BY <2>1, <2>2 DEF FreshSignals, OpenHasNoRow, OneTradeRow
  <2>4. pc' = "idle"
    BY <1>3 DEF Restart
  <2>5. QED BY <2>3, <2>4 DEF CurrentSignal, LoopOverOpen
<1>4. CASE PostArrives
  BY <1>4, SameRows DEF PostArrives, CurrentSignal, LoopOverOpen
<1>5. CASE AccountMoves
  BY <1>5, SameRows DEF AccountMoves, CurrentSignal, LoopOverOpen
<1>6. CASE CloseApproaches
  BY <1>6, SameRows DEF CloseApproaches, CurrentSignal, LoopOverOpen
<1>7. CASE NextSession
  BY <1>7, SameRows DEF NextSession, CurrentSignal, LoopOverOpen
<1>8. QED BY <1>1, <1>2, <1>3, <1>4, <1>5, <1>6, <1>7 DEF Surroundings

LEMMA RowsPreserved == ASSUME IInv, [Next]_vars PROVE Rows'
<1>1. CASE StartTick
  BY <1>1, SameRows DEF StartTick, Goto, IInv, Rows, CurrentSignal, LoopOverOpen, memory,
                        journal, EntryPoints, AdvancePoints, ClosePoints
<1>2. CASE UNCHANGED vars
  BY <1>2, SameRows DEF vars, IInv, Rows, CurrentSignal, LoopOverOpen, memory, journal, thread
<1>3. QED
  BY <1>1, <1>2, HandlePostsRows, HandleManualClosesRows, FlattenAtCloseRows,
     AdvancePositionsRows, ClosePositionRows, ReconcilePositionsRows, SurroundingsRows
  DEF Next, Tick, Surroundings

-----------------------------------------------------------------------------
(* The theorems. *)

LEMMA InitIInv == Init => IInv
<1> SUFFICES ASSUME Init PROVE IInv
  OBVIOUS
<1>1. AccountTypeOK
  BY AccountInitTyped DEF Init
<1>2. NoRecord \in Record
  BY DEF NoRecord, Record, OrderRefs
<1>3. /\ rec \in [Signals -> Record]
      /\ trades \in [Signals -> Seq(Reasons)]
      /\ manualQueue \in Seq(Signals)
  BY <1>2 DEF Init
<1>4. TypeOK
  <2>1. pc \in PCs /\ cur \in Signals \union {0} /\ oid \in OrderRefs
    BY DEF Init, PCs, OrderRefs
  <2>2. todo \in SUBSET Signals /\ open \in SUBSET Signals
    BY DEF Init
  <2>3. flattening \in BOOLEAN /\ late \in BOOLEAN /\ taken \in [Signals -> BOOLEAN]
    BY Zenon DEF Init
  <2>4. /\ arrived \in 0 .. NumSignals /\ handled \in 0 .. arrived
        /\ disturbed \in Nat /\ crashes \in Nat /\ stopMoves \in Nat /\ days \in Nat
    BY BookAssumption DEF Init
  <2>5. QED BY <1>1, <1>3, <2>1, <2>2, <2>3, <2>4 DEF TypeOK
<1>5. Rows
  BY DEF Init, Rows, FreshSignals, CurrentSignal, LoopOverOpen, OpenHasNoRow, OneTradeRow,
         EntryPoints, AdvancePoints, ClosePoints
<1>6. QED BY <1>4, <1>5 DEF IInv

THEOREM Inductive == Spec => []IInv
<1>1. IInv /\ [Next]_vars => IInv'
  BY TypePreserved, RowsPreserved DEF IInv
<1>2. QED BY <1>1, InitIInv, PTL DEF Spec

\* Every variable keeps its type: in particular every order id the bot stores
\* is one the account handed out, and the handlers never index the book with a
\* signal that is not there.
THEOREM TypeCorrect == Spec => []TypeOK
BY Inductive, PTL DEF IInv

\* However the ways to close a position interleave with failing calls, crashes
\* and restarts, a signal gets at most one trades row.
THEOREM OneRowPerTrade == Spec => []OneTradeRow
BY Inductive, PTL DEF IInv, Rows

-----------------------------------------------------------------------------
(* Whose order it is.  ManualSellLeftAlone and ManualNeverExternal need to know    *)
(* that the order a record names is its own: a replacement keeps the owner of the  *)
(* order it replaces, and an adopted position may have taken over the stop of an   *)
(* older signal on the same contract.                                              *)

Entering == EntryPoints \ {"entryTaken"}

\* An order that was handed out is for a signal that was taken off the queue; the
\* others are unused.
OrdersHaveOwners == \A i \in OrderIds :
    /\ i <= lastOrder => /\ orders[i].owner \in Signals /\ orders[i].owner <= handled
                         /\ orders[i].contract = ContractOf[orders[i].owner]
    /\ i > lastOrder => orders[i].status = "unused"

\* Neither a tracked position nor the one that is being entered sees its stop in the
\* record of another.
StopsOwned == \A s \in open :
    rec[s].stop # NoOrder =>
        /\ rec[s].stop \in 1 .. lastOrder
        /\ orders[rec[s].stop].kind = "stop"
        /\ \/ orders[rec[s].stop].owner = s
           \/ /\ orders[rec[s].stop].owner \notin open
              /\ pc \in Entering => orders[rec[s].stop].owner # cur

EntryStopOwned ==
    pc = "entryTrack" => /\ oid \in 1 .. lastOrder
                         /\ orders[oid].kind = "stop" /\ orders[oid].owner = cur

\* A pending manual sell belongs to a flagged, tracked position.
PendingIsFlagged == \A s \in Signals :
    rec[s].manual # NoOrder => s \in open /\ rec[s].closing

Elements(q) == {q[k] : k \in 1 .. Len(q)}
OnceEach(q) == \A j, k \in 1 .. Len(q) : q[j] = q[k] => j = k

\* What waits for its manual sell has none yet, and waits once.
QueueWaits ==
    /\ \A s \in Elements(manualQueue) :
           /\ s <= handled
           /\ pc \in Entering => s # cur
           /\ s \in open => rec[s].closing /\ rec[s].manual = NoOrder
    /\ OnceEach(manualQueue)

\* The position a handler works on has no manual sell pending, except in the flatten.
HandlerAlone ==
    /\ pc \in AdvancePoints \union {"manualSell"} => rec[cur].manual = NoOrder
    /\ pc \in ClosePoints => flattening \/ rec[cur].manual = NoOrder
    /\ pc = "manualSell" => rec[cur].closing /\ cur \notin Elements(manualQueue)

DownIsEmpty == pc = "down" => open = {} /\ manualQueue = <<>> /\ ~Undisturbed

\* While nothing fails, a position with a manual order on the account is tracked with
\* it, or its trade was not booked as an external close.
ManualKnown == Undisturbed =>
    \A i \in 1 .. lastOrder : orders[i].kind = "manual" =>
        /\ orders[i].owner \in open => rec[orders[i].owner].manual # NoOrder
        /\ pc \in Entering => orders[i].owner # cur
        /\ \A k \in 1 .. Len(trades[orders[i].owner]) :
               trades[orders[i].owner][k] # "external_close"

Sells ==
    /\ OrdersHaveOwners /\ StopsOwned /\ EntryStopOwned /\ PendingIsFlagged /\ QueueWaits
    /\ HandlerAlone /\ DownIsEmpty /\ ManualKnown

\* What a step does to the account: it keeps every order and hands out at most one.
Issued(kind, s) == Handed(kind, s, ContractOf[s])

AccountStep ==
    \/ Kept
    \/ \E kind \in Kinds, s \in Signals :
           Issued(kind, s) /\ s <= handled' /\ (kind = "manual" => ~Undisturbed')

LEMMA DisturbNoted == ASSUME TypeOK, Disturb PROVE ~Undisturbed'
BY DEF TypeOK, Disturb, Undisturbed

LEMMA CancelOrderKept ==
    ASSUME TypeOK, NEW i, CancelOrder(i), UNCHANGED lastOrder
    PROVE  Kept /\ (Undisturbed' => Undisturbed)
<1>1. CASE CancelRequested(i) /\ UNCHANGED counters
  BY <1>1, CancelKept DEF TypeOK, counters, Undisturbed
<1>2. CASE Disturb /\ UNCHANGED orders
  BY <1>2, UnchangedKept, DisturbNoted
<1>3. QED BY <1>1, <1>2 DEF CancelOrder

LEMMA SubmitIssued ==
    ASSUME AccountTypeOK, NEW kind \in Kinds, NEW s \in Signals, NEW delta \in Int,
           Submit(kind, s, ContractOf[s], delta)
    PROVE  Issued(kind, s)
BY SubmitHanded DEF Issued

LEMMA RaisesKept ==
    ASSUME AccountTypeOK, NEW kind \in Kinds, NEW s \in Signals, NEW delta \in Int,
           SubmitRaises(kind, s, ContractOf[s], delta)
    PROVE  Kept \/ Issued(kind, s)
BY SubmitIssued, UnchangedKept DEF SubmitRaises

\* modify_stop's replacement is an order of the old one's owner.
LEMMA ReplaceIssued ==
    ASSUME IInv, Sells, pc = "replaceStop", Replace(rec[cur].stop)
    PROVE  \E s \in Signals : /\ s = orders[rec[cur].stop].owner /\ s <= handled
                              /\ Issued("stop", s)
                              /\ s = cur \/ s \notin open
<1> USE DEF IInv, Rows, TypeOK, AccountTypeOK
<1> DEFINE i == rec[cur].stop
<1>1. cur \in open /\ i \in OrderIds /\ i # NoOrder
  BY DEF CurrentSignal, AdvancePoints, Replace, OrderIds, NoOrder
<1>2. /\ i \in 1 .. lastOrder /\ orders[i].kind = "stop"
      /\ orders[i].owner = cur \/ orders[i].owner \notin open
  BY <1>1 DEF Sells, StopsOwned
<1>3. /\ orders[i].owner \in Signals /\ orders[i].owner <= handled
      /\ orders[i].contract = ContractOf[orders[i].owner]
  BY <1>1, <1>2 DEF Sells, OrdersHaveOwners
<1>4. NextId \in OrderIds /\ i # NextId
  BY <1>2, BrokerAssumption DEF Replace, NextId, OrderIds
<1>5. /\ lastOrder' = NextId
      /\ orders' = [orders EXCEPT ![i] = WithStatus(@, "dead"), ![NextId] = orders[i]]
      /\ orders[i].status = "new"
  BY DEF Replace
<1> HIDE DEF i
<1>6. orders'[NextId] = orders[i]
  BY <1>1, <1>4, <1>5
<1>7. ASSUME NEW j \in OrderIds \ {NextId} PROVE SameOrder(j)
  <2>1. CASE j = i
    <3>1. orders'[j] = WithStatus(orders[i], "dead")
      BY <1>1, <1>4, <1>5, <2>1
    <3>2. QED BY <1>5, <2>1, <3>1, WithStatusSame DEF SameOrder
  <2>2. CASE j # i
    BY <1>1, <1>4, <1>5, <2>2 DEF SameOrder
  <2>3. QED BY <2>1, <2>2
<1>8. Issued("stop", orders[i].owner)
  BY <1>2, <1>3, <1>4, <1>5, <1>6, <1>7 DEF Issued, Handed
<1>9. QED BY <1>2, <1>3, <1>8 DEF i

LEMMA AppendElements ==
    ASSUME NEW q \in Seq(Signals), NEW s \in Signals
    PROVE  /\ Elements(Append(q, s)) = Elements(q) \union {s}
           /\ OnceEach(q) /\ s \notin Elements(q) => OnceEach(Append(q, s))
<1>1. /\ Len(Append(q, s)) = Len(q) + 1 /\ Len(q) \in Nat
      /\ \A k \in 1 .. Len(q) : Append(q, s)[k] = q[k]
      /\ Append(q, s)[Len(q) + 1] = s
  OBVIOUS
<1>2. \A k : k \in 1 .. Len(q) + 1 <=> k \in 1 .. Len(q) \/ k = Len(q) + 1
  BY <1>1
<1>3. QED BY <1>1, <1>2 DEF Elements, OnceEach

LEMMA TailElements ==
    ASSUME NEW q \in Seq(Signals), q # <<>>
    PROVE  /\ Head(q) \in Elements(q)
           /\ Elements(Tail(q)) \subseteq Elements(q)
           /\ OnceEach(q) => OnceEach(Tail(q)) /\ Head(q) \notin Elements(Tail(q))
<1>1. /\ Len(q) \in Nat \ {0} /\ Len(Tail(q)) = Len(q) - 1 /\ Head(q) = q[1]
      /\ \A k \in 1 .. Len(Tail(q)) : Tail(q)[k] = q[k + 1]
  OBVIOUS
<1>2. \A k \in 1 .. Len(Tail(q)) : k + 1 \in 1 .. Len(q) /\ k + 1 # 1
  BY <1>1
<1>3. 1 \in 1 .. Len(q)
  BY <1>1
<1>4. QED BY <1>1, <1>2, <1>3 DEF Elements, OnceEach

\* The orders that were handed out are still there, and every order has its owner.
LEMMA StepOwners ==
    ASSUME AccountTypeOK, handled \in Nat, handled' \in Nat,
           handled <= handled', OrdersHaveOwners,
           Kept \/ \E kind \in Kinds, s \in Signals : Issued(kind, s) /\ s <= handled'
    PROVE  /\ OrdersHaveOwners'
           /\ \A i \in 1 .. lastOrder :
                  i \in OrderIds /\ i \in 1 .. lastOrder' /\ SameOrder(i)
<1>1. /\ lastOrder \in Nat /\ MaxOrders \in Nat /\ lastOrder <= MaxOrders
      /\ OrderIds = 1 .. MaxOrders
  BY BrokerAssumption DEF AccountTypeOK, OrderIds
<1>2. ASSUME NEW i \in OrderIds, SameOrder(i), i <= lastOrder
      PROVE  /\ orders'[i].owner \in Signals /\ orders'[i].owner <= handled'
             /\ orders'[i].contract = ContractOf[orders'[i].owner]
  <2>1. /\ orders[i].owner \in Signals /\ orders[i].owner <= handled
        /\ orders[i].contract = ContractOf[orders[i].owner]
    BY <1>2 DEF OrdersHaveOwners
  <2>2. orders'[i].owner = orders[i].owner /\ orders'[i].contract = orders[i].contract
    BY <1>2 DEF SameOrder
  <2>3. orders[i].owner \in Int
    BY <2>1, BookAssumption DEF Signals
  <2>4. QED BY <2>1, <2>2, <2>3
<1>3. ASSUME NEW i \in OrderIds, SameOrder(i), i > lastOrder
      PROVE  orders'[i].status = "unused"
  BY <1>3 DEF OrdersHaveOwners, SameOrder
<1>4. CASE Kept
  <2>1. \A i \in OrderIds : SameOrder(i)
    BY <1>4 DEF Kept
  <2>2. QED BY <1>1, <1>2, <1>3, <1>4, <2>1 DEF Kept, OrdersHaveOwners
<1>5. ASSUME NEW kind \in Kinds, NEW s \in Signals, Issued(kind, s), s <= handled'
      PROVE  /\ OrdersHaveOwners'
             /\ \A i \in 1 .. lastOrder :
                    i \in OrderIds /\ i \in 1 .. lastOrder' /\ SameOrder(i)
  <2>1. /\ lastOrder' = lastOrder + 1
        /\ \A i \in OrderIds : i # lastOrder + 1 => SameOrder(i)
        /\ orders'[lastOrder + 1].owner = s
        /\ orders'[lastOrder + 1].contract = ContractOf[s]
    BY <1>5 DEF Issued, Handed, NextId
  <2>2. \A i \in OrderIds : i <= lastOrder' => i <= lastOrder \/ i = lastOrder + 1
    BY <1>1, <2>1
  <2>3. ASSUME NEW i \in OrderIds, i <= lastOrder'
        PROVE  /\ orders'[i].owner \in Signals /\ orders'[i].owner <= handled'
               /\ orders'[i].contract = ContractOf[orders'[i].owner]
    <3>1. CASE i = lastOrder + 1
      <4>1. orders'[i].owner = s /\ orders'[i].contract = ContractOf[s]
        BY <2>1, <3>1
      <4>2. QED BY <1>5, <4>1
    <3>2. CASE i <= lastOrder
      <4>1. SameOrder(i)
        BY <1>1, <2>1, <3>2
      <4>2. QED BY <1>2, <3>2, <4>1
    <3>3. QED BY <2>2, <2>3, <3>1, <3>2
  <2>4. ASSUME NEW i \in OrderIds, i > lastOrder' PROVE orders'[i].status = "unused"
    <3>1. i > lastOrder /\ i # lastOrder + 1
      BY <1>1, <2>1, <2>4
    <3>2. QED BY <1>3, <2>1, <3>1
  <2>5. OrdersHaveOwners'
    BY <2>3, <2>4 DEF OrdersHaveOwners
  <2>6. QED BY <1>1, <2>1, <2>5
<1>6. QED BY <1>4, <1>5

\* A step that leaves the records alone.
LEMMA Steady ==
    ASSUME IInv, IInv', Sells, AccountStep, UNCHANGED <<open, rec, manualQueue, trades>>,
           handled <= handled', Undisturbed' => Undisturbed,
           pc' \in Entering => (pc \in Entering /\ cur' = cur) \/ cur' > handled,
           EntryStopOwned', HandlerAlone', pc' = "down" => pc = "down"
    PROVE  Sells'
<1> USE DEF Sells
<1>1. /\ AccountTypeOK /\ handled \in Nat /\ handled' \in Nat
      /\ lastOrder \in Nat /\ open \in SUBSET Signals /\ rec \in [Signals -> Record]
      /\ cur' \in Signals \union {0}
  BY DEF IInv, TypeOK, AccountTypeOK
<1>2. /\ OrdersHaveOwners'
      /\ \A i \in 1 .. lastOrder :
             i \in OrderIds /\ i \in 1 .. lastOrder' /\ SameOrder(i)
  BY <1>1, StepOwners DEF AccountStep
<1>3. \A i \in 1 .. lastOrder : orders[i].owner \in Signals /\ orders[i].owner <= handled
  BY <1>2 DEF OrdersHaveOwners
<1>4. StopsOwned'
  <2> SUFFICES ASSUME NEW s \in open, rec[s].stop # NoOrder
               PROVE  /\ rec[s].stop \in 1 .. lastOrder'
                      /\ orders'[rec[s].stop].kind = "stop"
                      /\ \/ orders'[rec[s].stop].owner = s
                         \/ /\ orders'[rec[s].stop].owner \notin open
                            /\ pc' \in Entering => orders'[rec[s].stop].owner # cur'
    BY DEF StopsOwned
  <2> DEFINE i == rec[s].stop
  <2>1. /\ i \in 1 .. lastOrder /\ orders[i].kind = "stop"
        /\ \/ orders[i].owner = s
           \/ orders[i].owner \notin open /\ (pc \in Entering => orders[i].owner # cur)
    BY DEF StopsOwned
  <2>2. /\ i \in 1 .. lastOrder' /\ orders'[i].kind = "stop"
        /\ orders'[i].owner = orders[i].owner /\ orders[i].owner \in Nat
        /\ orders[i].owner <= handled
    BY <1>2, <1>3, <2>1 DEF SameOrder, Signals
  <2> HIDE DEF i
  <2>3. pc' \in Entering => orders[i].owner # cur' \/ orders[i].owner = s
    BY <1>1, <2>1, <2>2 DEF Signals
  <2>4. QED BY <2>1, <2>2, <2>3 DEF i
<1>5. PendingIsFlagged'
  BY DEF PendingIsFlagged
<1>6. QueueWaits'
  <2>1. ASSUME NEW s \in Elements(manualQueue)
        PROVE  s <= handled' /\ (pc' \in Entering => s # cur')
    <3>1. s \in Signals /\ s <= handled /\ (pc \in Entering => s # cur)
      BY DEF QueueWaits, Elements, IInv, TypeOK
    <3>2. QED BY <1>1, <3>1 DEF Signals
  <2>2. QED BY <2>1 DEF QueueWaits, Elements, OnceEach
<1>7. DownIsEmpty'
  BY DEF DownIsEmpty
<1>8. ManualKnown'
  <2> SUFFICES ASSUME Undisturbed', NEW i \in 1 .. lastOrder', orders'[i].kind = "manual"
               PROVE  /\ orders'[i].owner \in open => rec[orders'[i].owner].manual # NoOrder
                      /\ pc' \in Entering => orders'[i].owner # cur'
                      /\ \A k \in 1 .. Len(trades[orders'[i].owner]) :
                             trades[orders'[i].owner][k] # "external_close"
    BY DEF ManualKnown
  <2>1. i \in 1 .. lastOrder
    BY <1>1 DEF AccountStep, Kept, Issued, Handed, NextId
  <2>2. /\ orders[i].kind = "manual" /\ orders'[i].owner = orders[i].owner
        /\ orders[i].owner \in Nat /\ orders[i].owner <= handled
    BY <1>2, <1>3, <2>1 DEF SameOrder, Signals
  <2>3. pc' \in Entering => orders[i].owner # cur'
    BY <1>1, <2>1, <2>2 DEF ManualKnown, Signals
  <2>4. QED BY <2>1, <2>2, <2>3 DEF ManualKnown
<1>9. QED BY <1>2, <1>4, <1>5, <1>6, <1>7, <1>8

\* A step between two points of the tick, or outside of it, that sends no order.
LEMMA Quiet ==
    ASSUME IInv, IInv', Sells, UNCHANGED <<orders, lastOrder>>,
           UNCHANGED <<open, rec, manualQueue, trades>>,
           handled <= handled', Undisturbed' => Undisturbed,
           pc' \notin Entering \/ (pc \in Entering /\ cur' = cur),
           pc' = "entryTrack" => pc = "entryTrack" /\ oid' = oid,
           HandlerAlone', pc' = "down" => pc = "down"
    PROVE  Sells'
<1>1. AccountStep
  BY UnchangedKept DEF AccountStep
<1>2. EntryStopOwned'
  BY DEF EntryStopOwned, Sells, Entering, EntryPoints
<1>3. QED BY <1>1, <1>2, Steady

LEMMA OwnersAreSignals ==
    ASSUME AccountTypeOK, OrdersHaveOwners
    PROVE  \A i \in 1 .. lastOrder :
               i \in OrderIds /\ orders[i].owner \in Signals /\ orders[i].owner <= handled
<1>1. \A i \in 1 .. lastOrder : i \in OrderIds /\ i <= lastOrder
  BY BrokerAssumption DEF AccountTypeOK, OrderIds
<1>2. QED BY <1>1 DEF OrdersHaveOwners

LEMMA TrackPositionSells == ASSUME IInv, IInv', Sells, TrackPosition PROVE Sells'
<1> USE DEF Sells
<1>1. /\ pc = "entryTrack" /\ pc' = "entryTaken" /\ pc \in Entering /\ pc' \notin Entering
      /\ open' = open \union {cur}
      /\ rec' = [rec EXCEPT ![cur] = [stop |-> oid, manual |-> NoOrder,
                                      closing |-> FALSE, qty |-> 1]]
      /\ UNCHANGED <<orders, lastOrder, cur, oid, handled, manualQueue, trades>>
      /\ UNCHANGED Undisturbed
  BY DEF TrackPosition, account, journal, counters, Undisturbed, Entering, EntryPoints
<1>2. /\ cur \in Signals /\ cur \notin open /\ open \in SUBSET Signals
      /\ rec \in [Signals -> Record]
      /\ oid \in 1 .. lastOrder /\ orders[oid].kind = "stop" /\ orders[oid].owner = cur
  BY <1>1 DEF IInv, TypeOK, Rows, CurrentSignal, EntryPoints, EntryStopOwned
<1>3. /\ rec'[cur].stop = oid /\ rec'[cur].manual = NoOrder
      /\ \A s \in Signals \ {cur} : rec'[s] = rec[s]
  BY <1>1, <1>2
<1>4. OrdersHaveOwners' /\ EntryStopOwned' /\ DownIsEmpty' /\ HandlerAlone'
  BY <1>1 DEF OrdersHaveOwners, EntryStopOwned, DownIsEmpty, HandlerAlone, AdvancePoints,
              ClosePoints
<1>5. StopsOwned'
  BY <1>1, <1>2, <1>3 DEF StopsOwned
<1>6. PendingIsFlagged'
  BY <1>1, <1>2, <1>3 DEF PendingIsFlagged
<1>7. QueueWaits'
  <2>1. \A s \in Elements(manualQueue) : s \in Signals /\ s # cur
    BY <1>1 DEF QueueWaits, Elements, IInv, TypeOK
  <2>2. QED BY <1>1, <1>3, <2>1 DEF QueueWaits, Elements, OnceEach
<1>8. ManualKnown'
  <2>1. \A i \in 1 .. lastOrder : orders[i].owner \in Signals
    BY OwnersAreSignals DEF IInv, TypeOK
  <2>2. QED BY <1>1, <1>3, <2>1 DEF ManualKnown
<1>9. QED BY <1>4, <1>5, <1>6, <1>7, <1>8

LEMMA HandlePostsSells == ASSUME IInv, IInv', Sells, HandlePosts PROVE Sells'
<1> USE DEF thread, memory, journal, account, counters, Undisturbed, HandlerAlone,
            Entering, EntryPoints, AdvancePoints, ClosePoints
<1>0. /\ TypeOK /\ AccountTypeOK /\ handled \in Nat /\ ContractOf \in [Signals -> Contracts]
  BY BookAssumption DEF IInv, TypeOK
<1>1. CASE RejectPost
  BY <1>0, <1>1, Quiet DEF RejectPost
<1>2. ASSUME SubmitEntry \/ SubmitEntryRaises PROVE Sells'
  <2>1. /\ handled < arrived /\ handled' = handled + 1 /\ handled + 1 \in Signals
        /\ UNCHANGED <<open, rec, manualQueue, trades>>
    BY <1>0, <1>2, NextPost DEF SubmitEntry, SubmitEntryRaises
  <2>2. AccountStep
    BY <1>0, <1>2, <2>1, SubmitIssued, RaisesKept
    DEF SubmitEntry, SubmitEntryRaises, AccountStep, Kinds
  <2>3. Undisturbed' => Undisturbed
    BY <1>0, <1>2, DisturbNoted DEF SubmitEntry, SubmitEntryRaises
  <2>4. /\ pc' \in {"entryWait", "posts", "manual"}
        /\ pc' = "entryWait" => cur' > handled
    BY <1>0, <1>2 DEF SubmitEntry, SubmitEntryRaises
  <2>5. EntryStopOwned' /\ HandlerAlone'
    BY <2>4 DEF EntryStopOwned
  <2>6. QED BY <1>0, <2>1, <2>2, <2>3, <2>4, <2>5, Steady
<1>3. CASE EntryFilled \/ EntryNotFilled
  BY <1>0, <1>3, Quiet DEF EntryFilled, EntryNotFilled, Goto
<1>4. CASE CancelEntry
  <2>1. Kept /\ (Undisturbed' => Undisturbed)
    BY <1>0, <1>4, CancelOrderKept DEF CancelEntry
  <2>2. QED BY <1>0, <1>4, <2>1, Steady DEF CancelEntry, AccountStep, EntryStopOwned
<1>5. CASE PlaceStop
  <2>1. /\ pc = "entryStop" /\ pc' = "entryTrack" /\ cur' = cur /\ oid' = NextId
        /\ UNCHANGED <<open, rec, handled, manualQueue, trades, disturbed, crashes>>
    BY <1>5 DEF PlaceStop
  <2>2. cur \in Signals /\ cur <= handled
    BY <2>1 DEF IInv, Rows, CurrentSignal
  <2>3. Issued("stop", cur)
    BY <1>0, <1>5, <2>2, SubmitIssued DEF PlaceStop, Kinds
  <2>4. AccountStep
    BY <2>1, <2>2, <2>3 DEF AccountStep, Kinds
  <2>5. EntryStopOwned'
    BY <1>0, <2>1, <2>3, BrokerAssumption
    DEF EntryStopOwned, Issued, Handed, NextId, OrderIds, AccountTypeOK
  <2>6. QED BY <1>0, <2>1, <2>4, <2>5, Steady
<1>6. CASE TrackPosition
  BY <1>6, TrackPositionSells
<1>7. CASE MarkTaken
  BY <1>0, <1>7, Quiet DEF MarkTaken
<1>8. CASE PostHandlerCrash
  <2>1. /\ pc \in EntryPoints /\ pc' \in {"posts", "manual"}
        /\ UNCHANGED <<open, rec, handled, manualQueue, trades>>
    BY <1>8 DEF PostHandlerCrash
  <2>2. cur \in Signals /\ cur <= handled
    BY <2>1 DEF IInv, Rows, CurrentSignal
  <2>3. ~Undisturbed'
    BY <1>0, <1>8, DisturbNoted DEF PostHandlerCrash
  <2>4. AccountStep
    BY <1>0, <1>8, <2>1, <2>2, RaisesKept, UnchangedKept
    DEF PostHandlerCrash, AccountStep, Kinds
  <2>5. EntryStopOwned' /\ HandlerAlone'
    BY <2>1 DEF EntryStopOwned
  <2>6. QED BY <1>0, <2>1, <2>3, <2>4, <2>5, Steady
<1>9. CASE PostsDrained
  BY <1>0, <1>9, Quiet DEF PostsDrained, Goto
<1>10. QED
  BY <1>1, <1>2, <1>3, <1>4, <1>5, <1>6, <1>7, <1>8, <1>9 DEF HandlePosts

-----------------------------------------------------------------------------
(* Steps that drop a record. *)

\* A booked close is an external one only if the position had no manual sell, or a
\* call failed.
LEMMA ForgetSells ==
    ASSUME IInv, Sells, NEW s \in open, NEW reason \in Reasons, Forget(s),
           UNCHANGED <<orders, lastOrder, handled, manualQueue>>,
           AppendTrade(s, reason) \/ UNCHANGED trades,
           Undisturbed' => Undisturbed /\ (reason = "external_close" =>
                                               rec[s].manual = NoOrder),
           pc \notin EntryPoints, pc # "down",
           pc' \in {"poll", "advance", "flatten", "ghosts"}
    PROVE  Sells'
<1> USE DEF Sells
<1>1. /\ open' = open \ {s} /\ open \in SUBSET Signals /\ s \in Signals
      /\ rec \in [Signals -> Record] /\ trades \in [Signals -> Seq(Reasons)]
      /\ \A t \in Signals \ {s} : rec'[t] = rec[t]
      /\ rec'[s] = NoRecord
  BY DEF Forget, IInv, TypeOK
<1>2. pc' \notin EntryPoints /\ pc' # "down" /\ HandlerAlone' /\ EntryStopOwned'
  BY DEF EntryPoints, AdvancePoints, ClosePoints, HandlerAlone, EntryStopOwned
<1>3. OrdersHaveOwners' /\ DownIsEmpty'
  BY <1>2 DEF OrdersHaveOwners, DownIsEmpty
<1>4. StopsOwned'
  BY <1>1, <1>2 DEF StopsOwned, Entering
<1>5. PendingIsFlagged'
  BY <1>1 DEF PendingIsFlagged, NoRecord
<1>6. QueueWaits'
  <2>1. \A t \in Elements(manualQueue) : t \in Signals
    BY DEF Elements, IInv, TypeOK
  <2>2. QED BY <1>1, <1>2, <2>1 DEF QueueWaits, Elements, OnceEach, Entering
<1>7. ManualKnown'
  <2> SUFFICES ASSUME Undisturbed', NEW i \in 1 .. lastOrder, orders[i].kind = "manual"
               PROVE  /\ orders[i].owner \in open' => rec'[orders[i].owner].manual # NoOrder
                      /\ pc' \in Entering => orders[i].owner # cur'
                      /\ \A k \in 1 .. Len(trades'[orders[i].owner]) :
                             trades'[orders[i].owner][k] # "external_close"
    BY DEF ManualKnown
  <2> DEFINE o == orders[i].owner
  <2>1. o \in Signals
    BY OwnersAreSignals DEF IInv, TypeOK
  <2>2. /\ o \in open => rec[o].manual # NoOrder
        /\ \A k \in 1 .. Len(trades[o]) : trades[o][k] # "external_close"
    BY DEF ManualKnown
  <2> HIDE DEF o
  <2>3. o \in open' => rec'[o].manual # NoOrder
    BY <1>1, <2>1, <2>2
  <2>4. \A k \in 1 .. Len(trades'[o]) : trades'[o][k] # "external_close"
    <3>1. CASE trades'[o] = trades[o]
      BY <2>2, <3>1
    <3>2. CASE o = s /\ AppendTrade(s, reason)
      <4>1. trades[s] = <<>>
        BY DEF IInv, Rows, OpenHasNoRow
      <4>2. trades'[s] = <<reason>>
        <5>1. Append(<<>>, reason) = <<reason>>
          OBVIOUS
        <5>2. QED BY <1>1, <3>2, <4>1, <5>1 DEF AppendTrade
      <4>3. reason # "external_close"
        BY <2>2, <3>2
      <4>4. QED BY <3>2, <4>2, <4>3
    <3>3. trades'[o] = trades[o] \/ (o = s /\ AppendTrade(s, reason))
      BY <1>1, <2>1 DEF AppendTrade
    <3>4. QED BY <3>1, <3>2, <3>3
  <2>5. QED BY <1>2, <2>3, <2>4 DEF o, Entering
<1>8. QED BY <1>2, <1>3, <1>4, <1>5, <1>6, <1>7

LEMMA RecordExternalCloseSells ==
    ASSUME IInv, Sells, NEW s \in open, NEW reason \in Reasons,
           RecordExternalClose(s, reason), UNCHANGED <<orders, lastOrder, pc>>,
           reason = "external_close" => rec[s].manual = NoOrder,
           pc \in {"poll", "advance", "ghosts"}
    PROVE  Sells'
<1>1. /\ Forget(s) /\ UNCHANGED <<handled, manualQueue>>
      /\ AppendTrade(s, reason) \/ UNCHANGED trades
  BY DEF RecordExternalClose
<1>2. Undisturbed' => Undisturbed
  BY DisturbNoted DEF RecordExternalClose, counters, Undisturbed, IInv
<1>3. QED BY <1>1, <1>2, ForgetSells DEF EntryPoints

-----------------------------------------------------------------------------
(* "Sell now". *)

LEMMA RequestManualCloseSells ==
    ASSUME IInv, IInv', Sells, NEW s \in Signals, RequestManualClose(s)
    PROVE  Sells'
<1> USE DEF Sells
<1>1. /\ pc # "down" /\ s \in open /\ ~rec[s].closing
      /\ rec' = [rec EXCEPT ![s].closing = TRUE]
      /\ manualQueue' = Append(manualQueue, s)
      /\ UNCHANGED <<orders, lastOrder, pc, cur, oid, flattening, open, handled, trades>>
      /\ UNCHANGED Undisturbed
  BY DEF RequestManualClose, account, thread, journal, counters, Undisturbed
<1>2. /\ rec \in [Signals -> Record] /\ open \in SUBSET Signals
      /\ manualQueue \in Seq(Signals)
  BY DEF IInv, TypeOK
<1>3. /\ \A t \in Signals : /\ rec'[t].stop = rec[t].stop /\ rec'[t].manual = rec[t].manual
                            /\ rec[t].closing => rec'[t].closing
                            /\ t # s => rec'[t] = rec[t]
      /\ rec'[s].closing
  BY <1>1, <1>2 DEF Record
<1>4. rec[s].manual = NoOrder
  BY <1>1 DEF PendingIsFlagged
<1>5. s \notin Elements(manualQueue)
  BY <1>1 DEF QueueWaits
<1>6. /\ Elements(manualQueue') = Elements(manualQueue) \union {s}
      /\ OnceEach(manualQueue) => OnceEach(manualQueue')
  BY <1>1, <1>2, <1>5, AppendElements
<1>7. OrdersHaveOwners' /\ EntryStopOwned' /\ DownIsEmpty' /\ PendingIsFlagged'
  BY <1>1, <1>3 DEF OrdersHaveOwners, EntryStopOwned, DownIsEmpty, PendingIsFlagged
<1>8. StopsOwned'
  BY <1>1, <1>2, <1>3 DEF StopsOwned
<1>9. QueueWaits'
  <2>1. s <= handled /\ (pc \in Entering => s # cur)
    BY <1>1 DEF IInv, TypeOK, Rows, FreshSignals, CurrentSignal, Entering, Signals
  <2>2. \A t \in Elements(manualQueue) : t \in Signals
    BY <1>2 DEF Elements
  <2>3. \A t \in Elements(manualQueue) :
            /\ t <= handled /\ (pc \in Entering => t # cur)
            /\ t \in open => rec'[t].closing /\ rec'[t].manual = NoOrder
    BY <1>3, <2>2 DEF QueueWaits
  <2>4. QED BY <1>1, <1>3, <1>4, <1>6, <2>1, <2>3 DEF QueueWaits
<1>10. HandlerAlone'
  <2>1. pc \in AdvancePoints \union ClosePoints \union {"manualSell"} => cur \in Signals
    BY <1>2 DEF IInv, Rows, CurrentSignal
  <2>2. QED BY <1>1, <1>3, <1>6, <2>1 DEF HandlerAlone
<1>11. ManualKnown'
  <2>1. \A i \in 1 .. lastOrder : orders[i].owner \in Signals
    BY OwnersAreSignals DEF IInv, TypeOK
  <2>2. QED BY <1>1, <1>3, <2>1 DEF ManualKnown
<1>12. QED BY <1>7, <1>8, <1>9, <1>10, <1>11

LEMMA CurrentOpen ==
    ASSUME IInv, pc \in AdvancePoints \union ClosePoints \union {"manualSell"}
    PROVE  cur \in Signals /\ cur \in open /\ cur <= handled /\ -rec[cur].qty \in Int
<1>1. cur \in open /\ cur \in Signals
  BY DEF IInv, TypeOK, Rows, CurrentSignal
<1>2. cur <= handled
  BY <1>1, BookAssumption DEF IInv, TypeOK, Rows, FreshSignals, Signals
<1>3. -rec[cur].qty \in Int
  BY <1>1 DEF IInv, TypeOK, Record
<1>4. QED BY <1>1, <1>2, <1>3

LEMMA TakeRequestSells ==
    ASSUME IInv, IInv', Sells, DropManualClose \/ CancelStopForManualClose
    PROVE  Sells'
<1> USE DEF Sells
<1> DEFINE h == Head(manualQueue)
<1>1. /\ pc = "manual" /\ manualQueue # <<>> /\ manualQueue' = Tail(manualQueue)
      /\ UNCHANGED <<oid, flattening, open, handled, trades>>
  BY DEF DropManualClose, CancelStopForManualClose, thread, journal
<1>2. /\ TypeOK /\ AccountTypeOK /\ rec \in [Signals -> Record] /\ open \in SUBSET Signals
      /\ manualQueue \in Seq(Signals) /\ handled \in Nat
  BY DEF IInv, TypeOK
<1>3. /\ h \in Elements(manualQueue) /\ h \in Signals
      /\ Elements(manualQueue') \subseteq Elements(manualQueue)
      /\ OnceEach(manualQueue') /\ h \notin Elements(manualQueue')
  <2>1. \A t \in Elements(manualQueue) : t \in Signals
    BY <1>2 DEF Elements
  <2>2. QED BY <1>1, <1>2, <2>1, TailElements DEF QueueWaits
<1> HIDE DEF h
<1>4. Kept /\ (Undisturbed' => Undisturbed)
  <2>1. CASE DropManualClose
    BY <2>1, UnchangedKept DEF DropManualClose, account, counters, Undisturbed
  <2>2. CASE CancelStopForManualClose
    BY <1>2, <2>2, CancelOrderKept DEF CancelStopForManualClose
  <2>3. QED BY <2>1, <2>2
<1>5. /\ lastOrder' = lastOrder
      /\ \A i \in 1 .. lastOrder : /\ i \in OrderIds /\ orders[i].owner \in Signals
                                   /\ orders'[i].kind = orders[i].kind
                                   /\ orders'[i].owner = orders[i].owner
  BY <1>2, <1>4, OwnersAreSignals DEF Kept, SameOrder
<1>6. /\ rec' \in [Signals -> Record]
      /\ \A t \in Signals : /\ rec'[t].manual = rec[t].manual
                            /\ rec'[t].closing = rec[t].closing
                            /\ rec'[t].stop \in {rec[t].stop, NoOrder}
  <2>1. CASE DropManualClose
    BY <1>2, <2>1 DEF DropManualClose
  <2>2. CASE CancelStopForManualClose
    <3>1. rec' = [rec EXCEPT ![h].stop = NoOrder]
      BY <2>2 DEF CancelStopForManualClose, h
    <3>2. QED BY <1>2, <1>3, <3>1 DEF Record, OrderRefs
  <2>3. QED BY <2>1, <2>2
<1>7. \/ pc' = "manual"
      \/ pc' = "manualSell" /\ cur' = h /\ h \in open
  BY <1>1 DEF DropManualClose, CancelStopForManualClose, thread, h
<1>8. pc' \notin EntryPoints /\ EntryStopOwned'
  BY <1>7 DEF EntryPoints, EntryStopOwned
<1>9. OrdersHaveOwners'
  BY <1>2, <1>1, <1>4, StepOwners
<1>10. StopsOwned'
  BY <1>1, <1>2, <1>5, <1>6, <1>8 DEF StopsOwned, Entering
<1>11. PendingIsFlagged'
  BY <1>1, <1>6 DEF PendingIsFlagged
<1>12. QueueWaits'
  <2>1. \A t \in Elements(manualQueue) : t \in Signals
    BY <1>2 DEF Elements
  <2>2. \A t \in Elements(manualQueue') : t \in Signals /\ t \in Elements(manualQueue)
    BY <1>3, <2>1
  <2>3. QED BY <1>1, <1>3, <1>6, <1>8, <2>2 DEF QueueWaits, Entering
<1>13. HandlerAlone'
  <2>1. CASE pc' = "manual"
    BY <2>1 DEF HandlerAlone, AdvancePoints, ClosePoints
  <2>2. CASE pc' = "manualSell" /\ cur' = h /\ h \in open
    <3>1. rec[h].closing /\ rec[h].manual = NoOrder
      BY <1>3, <2>2 DEF QueueWaits
    <3>2. rec'[h].closing /\ rec'[h].manual = NoOrder
      BY <1>3, <1>6, <3>1
    <3>3. QED BY <1>3, <2>2, <3>2 DEF HandlerAlone, ClosePoints
  <2>3. QED BY <1>7, <2>1, <2>2
<1>14. DownIsEmpty'
  BY <1>7 DEF DownIsEmpty
<1>15. ManualKnown'
  BY <1>1, <1>4, <1>5, <1>6, <1>8 DEF ManualKnown, Entering
<1>16. QED BY <1>8, <1>9, <1>10, <1>11, <1>12, <1>13, <1>14, <1>15

\* The sell is sent and noted in the record, or a call raised and the flag comes off.
LEMMA ManualSellSells ==
    ASSUME IInv, IInv', Sells, SubmitManualSell \/ ManualCloseFails
    PROVE  Sells'
<1> USE DEF Sells
<1>1. /\ pc = "manualSell" /\ pc' \in {"manual", "poll"}
      /\ UNCHANGED <<oid, flattening, open, handled, manualQueue, trades>>
  BY DEF SubmitManualSell, ManualCloseFails, journal
<1>2. /\ TypeOK /\ AccountTypeOK /\ rec \in [Signals -> Record] /\ open \in SUBSET Signals
      /\ manualQueue \in Seq(Signals) /\ handled \in Nat /\ lastOrder \in Nat
  <2>1. lastOrder \in Nat
    BY BrokerAssumption DEF IInv, TypeOK, AccountTypeOK
  <2>2. handled \in Nat
    BY DEF IInv, TypeOK
  <2>3. QED BY <2>1, <2>2 DEF IInv, TypeOK
<1>3. /\ cur \in Signals /\ cur \in open /\ cur <= handled
      /\ rec[cur].manual = NoOrder /\ rec[cur].closing
      /\ cur \notin Elements(manualQueue) /\ -rec[cur].qty \in Int
  BY <1>1, CurrentOpen DEF HandlerAlone
<1>4. /\ \A t \in Signals \ {cur} : rec'[t] = rec[t]
      /\ rec'[cur].stop = rec[cur].stop
      /\ \/ rec'[cur].manual # NoOrder /\ rec'[cur].closing
         \/ rec'[cur].manual = NoOrder /\ ~Undisturbed'
  <2>1. CASE SubmitManualSell
    <3>1. rec' = [rec EXCEPT ![cur].manual = NextId] /\ NextId # NoOrder
      BY <1>2, <2>1 DEF SubmitManualSell, NextId, NoOrder
    <3>2. QED BY <1>2, <1>3, <3>1 DEF Record
  <2>2. CASE ManualCloseFails
    BY <1>2, <1>3, <2>2, DisturbNoted DEF ManualCloseFails, Record
  <2>3. QED BY <2>1, <2>2
<1>5. Kept \/ Issued("manual", cur)
  BY <1>2, <1>3, SubmitIssued, RaisesKept DEF SubmitManualSell, ManualCloseFails, Kinds
<1>6. Undisturbed' => Undisturbed
  BY <1>2, DisturbNoted DEF SubmitManualSell, ManualCloseFails, counters, Undisturbed
<1>7. /\ OrdersHaveOwners'
      /\ \A i \in 1 .. lastOrder : /\ i \in 1 .. lastOrder' /\ orders[i].owner \in Signals
                                   /\ orders'[i].kind = orders[i].kind
                                   /\ orders'[i].owner = orders[i].owner
  <2>1. OrdersHaveOwners' /\ \A i \in 1 .. lastOrder : i \in 1 .. lastOrder' /\ SameOrder(i)
    BY <1>1, <1>2, <1>3, <1>5, StepOwners DEF Kinds
  <2>2. QED BY <1>2, <2>1, OwnersAreSignals DEF SameOrder
<1>8. pc' \notin EntryPoints /\ EntryStopOwned' /\ HandlerAlone' /\ DownIsEmpty'
  BY <1>1 DEF EntryPoints, EntryStopOwned, HandlerAlone, AdvancePoints, ClosePoints,
              DownIsEmpty
<1>9. StopsOwned'
  <2>1. \A t \in open : rec'[t].stop = rec[t].stop
    BY <1>2, <1>4
  <2>2. QED BY <1>1, <1>7, <1>8, <2>1 DEF StopsOwned, Entering
<1>10. PendingIsFlagged'
  BY <1>1, <1>3, <1>4 DEF PendingIsFlagged
<1>11. QueueWaits'
  <2>1. \A t \in Elements(manualQueue) : t \in Signals \ {cur}
    BY <1>2, <1>3 DEF Elements
  <2>2. QED BY <1>1, <1>4, <1>8, <2>1 DEF QueueWaits, Entering
<1>12. ManualKnown'
  <2> SUFFICES ASSUME Undisturbed', NEW i \in 1 .. lastOrder', orders'[i].kind = "manual"
               PROVE  /\ orders'[i].owner \in open => rec'[orders'[i].owner].manual # NoOrder
                      /\ pc' \in Entering => orders'[i].owner # cur'
                      /\ \A k \in 1 .. Len(trades[orders'[i].owner]) :
                             trades[orders'[i].owner][k] # "external_close"
    BY <1>1 DEF ManualKnown
  <2>1. rec'[cur].manual # NoOrder
    BY <1>4
  <2>2. CASE i \in 1 .. lastOrder
    <3>1. /\ orders[i].kind = "manual" /\ orders'[i].owner = orders[i].owner
          /\ orders[i].owner \in Signals
      BY <1>7, <2>2
    <3>2. /\ orders[i].owner \in open => rec[orders[i].owner].manual # NoOrder
          /\ \A k \in 1 .. Len(trades[orders[i].owner]) :
                 trades[orders[i].owner][k] # "external_close"
      BY <1>6, <2>2, <3>1 DEF ManualKnown
    <3>3. QED BY <1>4, <1>8, <2>1, <3>1, <3>2 DEF Entering
  <2>3. CASE i \notin 1 .. lastOrder
    <3>1. orders'[i].owner = cur
      BY <1>2, <1>5, <2>3 DEF Kept, Issued, Handed, NextId
    <3>2. trades[cur] = <<>>
      BY <1>3 DEF IInv, Rows, OpenHasNoRow
    <3>3. QED BY <1>8, <2>1, <3>1, <3>2 DEF Entering
  <2>4. QED BY <2>2, <2>3
<1>13. QED BY <1>7, <1>8, <1>9, <1>10, <1>11, <1>12

LEMMA HandleManualClosesSells == ASSUME IInv, IInv', Sells, HandleManualCloses PROVE Sells'
<1> USE DEF thread, memory, journal, account, counters, HandlerAlone,
            Entering, EntryPoints, AdvancePoints, ClosePoints
<1>0. TypeOK /\ handled \in Nat
  BY DEF IInv, TypeOK
<1>1. CASE DropManualClose \/ CancelStopForManualClose
  BY <1>1, TakeRequestSells
<1>2. CASE SubmitManualSell \/ ManualCloseFails
  BY <1>2, ManualSellSells
<1>3. CASE ManualQueueDrained
  BY <1>0, <1>3, Quiet DEF ManualQueueDrained, StartLoop, Undisturbed
<1>4. CASE PollDone
  BY <1>0, <1>4, Quiet DEF PollDone, Goto, Undisturbed
<1>5. ASSUME NEW s \in Signals, BookManualFill(s) PROVE Sells'
  <2>1. s \in open
    BY <1>5 DEF BookManualFill, IInv, Rows, LoopOverOpen
  <2>2. QED BY <1>5, <2>1, RecordExternalCloseSells DEF BookManualFill, Reasons
<1>6. ASSUME NEW s \in Signals, ManualFillPending(s) PROVE Sells'
  <2>1. Undisturbed' => Undisturbed
    BY <1>0, <1>6, DisturbNoted DEF ManualFillPending, Undisturbed
  <2>2. QED BY <1>0, <1>6, <2>1, Quiet DEF ManualFillPending
<1>7. QED BY <1>1, <1>2, <1>3, <1>4, <1>5, <1>6 DEF HandleManualCloses

-----------------------------------------------------------------------------
(* The other handlers and what happens around the tick. *)

LEMMA FlattenAtCloseSells == ASSUME IInv, IInv', Sells, FlattenAtClose PROVE Sells'
<1> USE DEF thread, memory, journal, account, counters, HandlerAlone,
            Entering, EntryPoints, AdvancePoints, ClosePoints
<1>0. TypeOK /\ AccountTypeOK /\ handled \in Nat
  BY DEF IInv, TypeOK
<1>1. CASE BeforeClose \/ NothingToFlatten \/ StartFlatten \/ AllFlattened
  BY <1>0, <1>1, Quiet
  DEF BeforeClose, NothingToFlatten, StartFlatten, AllFlattened, Goto, StartLoop, Undisturbed
<1>2. CASE CancelAll \/ CloseAll
  <2>1. Kept
    BY <1>0, <1>2, AllKept DEF CancelAll, CloseAll
  <2>2. QED BY <1>0, <1>2, <2>1, Steady
        DEF CancelAll, CloseAll, AccountStep, EntryStopOwned, Undisturbed
<1>3. CASE FlattenFails
  <2>1. ~Undisturbed'
    BY <1>0, <1>3, DisturbNoted DEF FlattenFails
  <2>2. QED BY <1>0, <1>3, <2>1, Quiet DEF FlattenFails
<1>4. ASSUME NEW s \in Signals, FlattenOne(s) PROVE Sells'
  BY <1>0, <1>4, Quiet DEF FlattenOne, Undisturbed
<1>5. QED BY <1>1, <1>2, <1>3, <1>4 DEF FlattenAtClose

\* The ratchet names a new stop in the record.
LEMMA NewStopSells ==
    ASSUME IInv, IInv', Sells, ReplaceStop \/ ResubmitStop
    PROVE  Sells'
<1> USE DEF Sells
<1>1. /\ pc \in {"replaceStop", "resubmitStop"} /\ pc' = "evaluated"
      /\ rec' = [rec EXCEPT ![cur].stop = NextId]
      /\ UNCHANGED <<cur, oid, flattening, open, handled, manualQueue, trades>>
      /\ UNCHANGED Undisturbed
  BY DEF ReplaceStop, ResubmitStop, journal, counters, Undisturbed
<1>2. /\ TypeOK /\ AccountTypeOK /\ rec \in [Signals -> Record] /\ open \in SUBSET Signals
      /\ manualQueue \in Seq(Signals) /\ handled \in Nat
  BY DEF IInv, TypeOK
<1>3. lastOrder \in Nat
  BY BrokerAssumption DEF IInv, TypeOK, AccountTypeOK
<1>4. /\ cur \in Signals /\ cur \in open /\ cur <= handled
      /\ rec[cur].manual = NoOrder /\ -rec[cur].qty \in Int
  BY <1>1, CurrentOpen DEF HandlerAlone, AdvancePoints
<1>5. PICK o \in Signals : o <= handled /\ Issued("stop", o) /\ (o = cur \/ o \notin open)
  <2>1. CASE ReplaceStop
    BY <1>1, <2>1, ReplaceIssued DEF ReplaceStop
  <2>2. CASE ResubmitStop
    BY <1>2, <1>4, <2>2, SubmitIssued DEF ResubmitStop, Kinds
  <2>3. QED BY <2>1, <2>2
<1>6. /\ OrdersHaveOwners'
      /\ \A i \in 1 .. lastOrder : /\ i \in 1 .. lastOrder' /\ orders[i].owner \in Signals
                                   /\ orders'[i].kind = orders[i].kind
                                   /\ orders'[i].owner = orders[i].owner
  <2>1. OrdersHaveOwners' /\ \A i \in 1 .. lastOrder : i \in 1 .. lastOrder' /\ SameOrder(i)
    BY <1>1, <1>2, <1>5, StepOwners DEF Kinds
  <2>2. QED BY <1>2, <2>1, OwnersAreSignals DEF SameOrder
<1>7. /\ lastOrder' = NextId /\ NextId \in 1 .. lastOrder'
      /\ orders'[NextId].kind = "stop" /\ orders'[NextId].owner = o
  BY <1>3, <1>5 DEF Issued, Handed, NextId
<1>8. /\ \A t \in Signals : /\ rec'[t].manual = rec[t].manual
                            /\ rec'[t].closing = rec[t].closing
      /\ \A t \in Signals \ {cur} : rec'[t].stop = rec[t].stop
      /\ rec'[cur].stop = NextId
  BY <1>1, <1>2, <1>4 DEF Record
<1>9. pc' \notin EntryPoints /\ EntryStopOwned' /\ HandlerAlone' /\ DownIsEmpty'
  BY <1>1, <1>4, <1>8
  DEF EntryPoints, EntryStopOwned, HandlerAlone, ClosePoints, DownIsEmpty
<1>10. StopsOwned'
  <2> SUFFICES ASSUME NEW s \in open, rec'[s].stop # NoOrder
               PROVE  /\ rec'[s].stop \in 1 .. lastOrder'
                      /\ orders'[rec'[s].stop].kind = "stop"
                      /\ \/ orders'[rec'[s].stop].owner = s
                         \/ orders'[rec'[s].stop].owner \notin open
    BY <1>1, <1>9 DEF StopsOwned, Entering
  <2>1. CASE s = cur
    BY <1>5, <1>7, <1>8, <2>1
  <2>2. CASE s # cur
    BY <1>2, <1>6, <1>8, <2>2 DEF StopsOwned
  <2>3. QED BY <2>1, <2>2
<1>11. PendingIsFlagged'
  BY <1>1, <1>8 DEF PendingIsFlagged
<1>12. QueueWaits'
  <2>1. \A t \in Elements(manualQueue) : t \in Signals
    BY <1>2 DEF Elements
  <2>2. QED BY <1>1, <1>8, <1>9, <2>1 DEF QueueWaits, Entering
<1>13. ManualKnown'
  <2> SUFFICES ASSUME Undisturbed', NEW i \in 1 .. lastOrder', orders'[i].kind = "manual"
               PROVE  /\ orders'[i].owner \in open => rec'[orders'[i].owner].manual # NoOrder
                      /\ \A k \in 1 .. Len(trades[orders'[i].owner]) :
                             trades[orders'[i].owner][k] # "external_close"
    BY <1>1, <1>9 DEF ManualKnown, Entering
  <2>1. i \in 1 .. lastOrder
    BY <1>3, <1>7 DEF NextId
  <2>2. /\ orders[i].kind = "manual" /\ orders'[i].owner = orders[i].owner
        /\ orders[i].owner \in Signals
    BY <1>6, <2>1
  <2>3. /\ orders[i].owner \in open => rec[orders[i].owner].manual # NoOrder
        /\ \A k \in 1 .. Len(trades[orders[i].owner]) :
               trades[orders[i].owner][k] # "external_close"
    BY <1>1, <2>1, <2>2 DEF ManualKnown
  <2>4. QED BY <1>8, <2>2, <2>3
<1>14. QED BY <1>6, <1>9, <1>10, <1>11, <1>12, <1>13

LEMMA AdvancePositionsSells == ASSUME IInv, IInv', Sells, AdvancePositions PROVE Sells'
<1> USE DEF thread, memory, journal, account, counters, HandlerAlone,
            Entering, EntryPoints, AdvancePoints, ClosePoints
<1>0. TypeOK /\ AccountTypeOK /\ handled \in Nat
  BY DEF IInv, TypeOK
<1>1. CASE Hold \/ RaiseStop
  BY <1>0, <1>1, Quiet DEF Hold, RaiseStop, Undisturbed, Sells
<1>2. CASE ReplaceStop \/ ResubmitStop
  BY <1>2, NewStopSells
<1>3. CASE ReplaceRefused
  <2>1. /\ pc = "replaceStop" /\ pc' = "resubmitStop"
        /\ UNCHANGED <<cur, oid, flattening, open, rec, handled, manualQueue, trades>>
    BY <1>3 DEF ReplaceRefused
  <2>2. AccountStep /\ (Undisturbed' => Undisturbed)
    <3>1. CASE CancelOrder(rec[cur].stop) /\ UNCHANGED lastOrder
      BY <1>0, <3>1, CancelOrderKept DEF AccountStep
    <3>2. CASE Disturb /\ CancelRequested(rec[cur].stop) /\ UNCHANGED lastOrder
      BY <1>0, <3>2, CancelKept, DisturbNoted DEF AccountStep
    <3>3. CASE Disturb /\ Replace(rec[cur].stop)
      <4>1. \E s \in Signals : s <= handled /\ Issued("stop", s)
        BY <2>1, <3>3, ReplaceIssued
      <4>2. QED BY <1>0, <2>1, <3>3, <4>1, DisturbNoted DEF AccountStep, Kinds
    <3>4. QED BY <1>3, <3>1, <3>2, <3>3 DEF ReplaceRefused
  <2>3. HandlerAlone' /\ EntryStopOwned'
    BY <2>1 DEF Sells, EntryStopOwned
  <2>4. QED BY <1>0, <2>1, <2>2, <2>3, Steady
<1>4. CASE ResubmitStopRaises
  <2>1. /\ pc = "resubmitStop" /\ pc' = "evaluated"
        /\ UNCHANGED <<cur, oid, flattening, open, rec, handled, manualQueue, trades>>
    BY <1>4 DEF ResubmitStopRaises
  <2>2. cur \in Signals /\ cur \in open /\ cur <= handled /\ -rec[cur].qty \in Int
    BY <1>0, <2>1, CurrentOpen
  <2>3. ~Undisturbed'
    BY <1>0, <1>4, DisturbNoted DEF ResubmitStopRaises
  <2>4. AccountStep
    BY <1>0, <1>4, <2>1, <2>2, RaisesKept DEF ResubmitStopRaises, AccountStep, Kinds
  <2>5. HandlerAlone' /\ EntryStopOwned'
    BY <2>1 DEF Sells, EntryStopOwned
  <2>6. QED BY <1>0, <2>1, <2>3, <2>4, <2>5, Steady
<1>5. CASE ExitPosition
  BY <1>0, <1>5, Quiet DEF ExitPosition, Goto, Undisturbed, Sells
<1>6. CASE AdvanceDone
  BY <1>0, <1>6, Quiet DEF AdvanceDone, Goto, Undisturbed
<1>7. ASSUME NEW s \in Signals, SkipClosing(s) PROVE Sells'
  BY <1>0, <1>7, Quiet DEF SkipClosing, Undisturbed
<1>8. ASSUME NEW s \in Signals, BookStopFill(s) PROVE Sells'
  <2>1. s \in open
    BY <1>8 DEF BookStopFill, IInv, Rows, LoopOverOpen
  <2>2. QED BY <1>8, <2>1, RecordExternalCloseSells DEF BookStopFill, Reasons
<1>9. ASSUME NEW s \in Signals, LookAtPosition(s) PROVE Sells'
  <2>1. Undisturbed' => Undisturbed
    BY <1>0, <1>9, DisturbNoted DEF LookAtPosition, Undisturbed
  <2>2. rec[s].manual = NoOrder
    BY <1>9 DEF LookAtPosition, Sells, PendingIsFlagged
  <2>3. QED BY <1>0, <1>9, <2>1, <2>2, Quiet DEF LookAtPosition
<1>10. QED
  BY <1>1, <1>2, <1>3, <1>4, <1>5, <1>6, <1>7, <1>8, <1>9 DEF AdvancePositions

LEMMA ClosePositionSells == ASSUME IInv, IInv', Sells, ClosePosition PROVE Sells'
<1> USE DEF thread, memory, journal, account, counters, HandlerAlone,
            Entering, EntryPoints, AdvancePoints, ClosePoints
<1>0. TypeOK /\ AccountTypeOK /\ handled \in Nat
  BY DEF IInv, TypeOK
<1>1. CASE CancelStopForClose
  <2>1. Kept /\ (Undisturbed' => Undisturbed)
    BY <1>0, <1>1, CancelOrderKept DEF CancelStopForClose
  <2>2. HandlerAlone' /\ EntryStopOwned'
    BY <1>1 DEF CancelStopForClose, Sells, EntryStopOwned
  <2>3. QED BY <1>0, <1>1, <2>1, <2>2, Steady DEF CancelStopForClose, AccountStep
<1>2. CASE SubmitClose
  <2>1. /\ pc = "closeSell" /\ pc' = "closeBook"
        /\ UNCHANGED <<cur, oid, flattening, open, rec, handled, manualQueue, trades>>
        /\ UNCHANGED Undisturbed
    BY <1>2 DEF SubmitClose, Undisturbed
  <2>2. cur \in Signals /\ cur \in open /\ cur <= handled /\ -rec[cur].qty \in Int
    BY <1>0, <2>1, CurrentOpen
  <2>3. AccountStep
    BY <1>0, <1>2, <2>1, <2>2, SubmitIssued DEF SubmitClose, AccountStep, Kinds
  <2>4. HandlerAlone' /\ EntryStopOwned'
    BY <2>1 DEF Sells, EntryStopOwned
  <2>5. QED BY <1>0, <2>1, <2>3, <2>4, Steady
<1>3. CASE BookClose
  <2>1. /\ pc = "closeBook" /\ pc' \in {"flatten", "advance"} /\ Forget(cur)
        /\ UNCHANGED <<orders, lastOrder, handled, manualQueue>> /\ UNCHANGED Undisturbed
        /\ \E reason \in {"time_stop_1555", "strategy_exit"} : AppendTrade(cur, reason)
    BY <1>3 DEF BookClose, Undisturbed
  <2>2. cur \in open
    BY <1>0, <2>1, CurrentOpen
  <2>3. QED BY <2>1, <2>2, ForgetSells DEF Reasons
<1>4. CASE CloseRaises
  <2>1. /\ pc \in {"closeSell", "closeBook"} /\ pc' = "advance"
        /\ UNCHANGED <<oid, open, rec, handled, manualQueue, trades>>
    BY <1>4 DEF CloseRaises
  <2>2. cur \in Signals /\ cur \in open /\ cur <= handled /\ -rec[cur].qty \in Int
    BY <1>0, <2>1, CurrentOpen
  <2>3. ~Undisturbed'
    BY <1>0, <1>4, DisturbNoted DEF CloseRaises
  <2>4. AccountStep
    BY <1>0, <1>4, <2>1, <2>2, RaisesKept, UnchangedKept DEF CloseRaises, AccountStep, Kinds
  <2>5. HandlerAlone' /\ EntryStopOwned'
    BY <2>1 DEF EntryStopOwned
  <2>6. QED BY <1>0, <2>1, <2>3, <2>4, <2>5, Steady
<1>5. QED BY <1>1, <1>2, <1>3, <1>4 DEF ClosePosition

LEMMA ReconcilePositionsSells == ASSUME IInv, IInv', Sells, ReconcilePositions PROVE Sells'
<1> USE DEF thread, memory, journal, account, counters, HandlerAlone,
            Entering, EntryPoints, AdvancePoints, ClosePoints
<1>0. TypeOK /\ handled \in Nat
  BY DEF IInv, TypeOK
<1>1. CASE SkipReconcile \/ FindGhosts \/ GhostsDone
  BY <1>0, <1>1, Quiet DEF SkipReconcile, FindGhosts, GhostsDone, Goto, StartLoop, Undisturbed
<1>2. ASSUME NEW s \in Signals, DeferGhost(s) PROVE Sells'
  <2>1. Undisturbed' => Undisturbed
    BY <1>0, <1>2, DisturbNoted DEF DeferGhost, Undisturbed
  <2>2. QED BY <1>0, <1>2, <2>1, Quiet DEF DeferGhost
<1>3. ASSUME NEW s \in Signals, BookManualGhost(s) \/ BookGhost(s) \/ BookGhostBlind(s)
      PROVE  Sells'
  <2>1. s \in open
    BY <1>3 DEF BookManualGhost, BookGhost, BookGhostBlind, IInv, Rows, LoopOverOpen
  <2>2. CASE BookManualGhost(s)
    BY <2>1, <2>2, RecordExternalCloseSells DEF BookManualGhost, Reasons
  <2>3. CASE BookGhost(s)
    <3>1. rec[s].manual = NoOrder
      BY <2>3 DEF BookGhost, ManualInFlight, Sells, PendingIsFlagged
    <3>2. PICK reason \in {"stop_loss", "external_close"} : RecordExternalClose(s, reason)
      BY <2>3 DEF BookGhost
    <3>3. QED BY <2>1, <2>3, <3>1, <3>2, RecordExternalCloseSells DEF BookGhost, Reasons
  <2>4. CASE BookGhostBlind(s)
    <3>1. ~Undisturbed'
      BY <1>0, <2>4, DisturbNoted DEF BookGhostBlind
    <3>2. /\ Forget(s) /\ UNCHANGED <<orders, lastOrder, handled, manualQueue, pc>>
          /\ AppendTrade(s, "external_close") \/ UNCHANGED trades
      BY <2>4 DEF BookGhostBlind
    <3>3. pc = "ghosts" /\ "external_close" \in Reasons
      BY <2>4 DEF BookGhostBlind, Reasons
    <3>4. QED BY <2>1, <3>1, <3>2, <3>3, ForgetSells
  <2>5. QED BY <1>3, <2>2, <2>3, <2>4
<1>4. QED BY <1>1, <1>2, <1>3 DEF ReconcilePositions

LEMMA CrashSells == ASSUME IInv, IInv', Sells, Crash PROVE Sells'
<1> USE DEF Sells
<1>1. /\ pc' = "down" /\ open' = {} /\ rec' = [s \in Signals |-> NoRecord]
      /\ manualQueue' = <<>> /\ handled <= handled' /\ handled \in Nat /\ handled' \in Nat
      /\ UNCHANGED <<orders, lastOrder>> /\ ~Undisturbed'
  BY DEF Crash, account, Undisturbed, IInv, TypeOK
<1>2. OrdersHaveOwners'
  BY <1>1, UnchangedKept, StepOwners DEF IInv, TypeOK
<1>3. Elements(manualQueue') = {} /\ OnceEach(manualQueue')
  BY <1>1 DEF Elements, OnceEach
<1>4. QED
  BY <1>1, <1>2, <1>3
  DEF StopsOwned, EntryStopOwned, PendingIsFlagged, QueueWaits, HandlerAlone, DownIsEmpty,
      ManualKnown, NoRecord, Entering, EntryPoints, AdvancePoints, ClosePoints

\* Adoption takes one record for a contract, so a stop on it that is not the
\* record's own belongs to no record.
LEMMA RestartSells == ASSUME IInv, IInv', Sells, Restart PROVE Sells'
<1> USE DEF Sells
<1>1. /\ pc = "down" /\ pc' = "idle" /\ open' \subseteq Adoptable
      /\ UNCHANGED <<orders, lastOrder, handled, manualQueue, trades>>
  BY DEF Restart, account, memory, journal
<1>2. ~Undisturbed'
  <2>1. ~Undisturbed
    BY <1>1 DEF DownIsEmpty
  <2>2. QED BY <2>1, DisturbNoted DEF Restart, counters, Undisturbed, IInv
<1>3. PICK stopOf \in [Contracts -> OrderRefs] :
        /\ \A c \in Contracts : IF LiveStops(c) = {} THEN stopOf[c] = NoOrder
                                ELSE stopOf[c] \in LiveStops(c)
        /\ rec' = [s \in Signals |->
                     IF s \in open'
                     THEN [stop |-> stopOf[ContractOf[s]], manual |-> NoOrder,
                           closing |-> FALSE, qty |-> AbsInt(net[ContractOf[s]])]
                     ELSE NoRecord]
  BY DEF Restart
<1>4. \A s \in Signals : rec'[s].manual = NoOrder
  BY <1>3 DEF NoRecord
<1>5. StopsOwned'
  <2> SUFFICES ASSUME NEW s \in open', rec'[s].stop # NoOrder
               PROVE  /\ rec'[s].stop \in 1 .. lastOrder
                      /\ orders[rec'[s].stop].kind = "stop"
                      /\ \/ orders[rec'[s].stop].owner = s
                         \/ orders[rec'[s].stop].owner \notin open'
    BY <1>1 DEF StopsOwned, Entering, EntryPoints
  <2> DEFINE i == rec'[s].stop
  <2>1. s \in Signals /\ s \in Adoptable
    BY <1>1 DEF Adoptable
  <2>2. i = stopOf[ContractOf[s]] /\ ContractOf[s] \in Contracts
    BY <1>3, <2>1, BookAssumption
  <2>3. i \in LiveStops(ContractOf[s])
    BY <1>3, <2>2
  <2> HIDE DEF i
  <2>4. /\ i \in OrderIds /\ orders[i].kind = "stop" /\ orders[i].contract = ContractOf[s]
        /\ orders[i].status # "unused"
    BY <2>3 DEF LiveStops, LiveOrders, Live, LiveStatuses
  <2>5. i \in 1 .. lastOrder
    <3>1. lastOrder \in Nat /\ i \in Nat \ {0}
      BY <2>4, BrokerAssumption DEF IInv, TypeOK, AccountTypeOK, OrderIds
    <3>2. i <= lastOrder
      BY <2>4, <3>1 DEF OrdersHaveOwners
    <3>3. QED BY <3>1, <3>2
  <2>6. orders[i].owner \in Signals /\ ContractOf[orders[i].owner] = ContractOf[s]
    BY <2>4, <2>5 DEF OrdersHaveOwners
  <2>7. ASSUME orders[i].owner \in open' PROVE orders[i].owner = s
    <3>1. orders[i].owner \in Adoptable
      BY <1>1, <2>7
    <3>2. orders[i].owner <= s /\ s <= orders[i].owner
      BY <2>1, <2>6, <3>1 DEF Adoptable
    <3>3. QED BY <2>1, <2>6, <3>2, BookAssumption DEF Signals
  <2>8. QED BY <2>4, <2>5, <2>7 DEF i
<1>6. QueueWaits'
  <2>1. manualQueue' = <<>>
    BY <1>1 DEF DownIsEmpty
  <2>2. Elements(manualQueue') = {} /\ OnceEach(manualQueue')
    BY <2>1 DEF Elements, OnceEach
  <2>3. QED BY <2>2 DEF QueueWaits
<1>7. QED
  BY <1>1, <1>2, <1>4, <1>5, <1>6
  DEF OrdersHaveOwners, EntryStopOwned, PendingIsFlagged, HandlerAlone, DownIsEmpty,
      ManualKnown, AdvancePoints, ClosePoints

LEMMA SurroundingsSells == ASSUME IInv, IInv', Sells, Surroundings PROVE Sells'
<1> USE DEF thread, memory, journal, account, counters
<1>0. TypeOK /\ AccountTypeOK /\ handled \in Nat
  BY DEF IInv, TypeOK
<1>1. ASSUME NEW s \in Signals, RequestManualClose(s) PROVE Sells'
  BY <1>1, RequestManualCloseSells
<1>2. CASE Crash
  BY <1>2, CrashSells
<1>3. CASE Restart
  BY <1>3, RestartSells
<1>4. CASE PostArrives \/ AccountMoves \/ CloseApproaches \/ NextSession
  <2>1. UNCHANGED <<thread, open, rec, handled, manualQueue, trades>>
    BY <1>4 DEF PostArrives, AccountMoves, CloseApproaches, NextSession
  <2>2. Undisturbed' => Undisturbed
    BY <1>0, <1>4, DisturbNoted
    DEF PostArrives, AccountMoves, CloseApproaches, NextSession, Undisturbed
  <2>3. Kept
    <3>1. CASE PostArrives \/ CloseApproaches
      BY <3>1, UnchangedKept DEF PostArrives, CloseApproaches
    <3>2. CASE AccountMoves
      BY <1>0, <3>2, MovesKept DEF AccountMoves
    <3>3. CASE NextSession
      BY <1>0, <3>3, MovesKept DEF NextSession
    <3>4. QED BY <1>4, <3>1, <3>2, <3>3
  <2>4. HandlerAlone'
    BY <2>1 DEF HandlerAlone, Sells
  <2>5. EntryStopOwned'
    <3>1. ASSUME pc = "entryTrack"
          PROVE  oid \in 1 .. lastOrder' /\ orders'[oid].kind = "stop"
                 /\ orders'[oid].owner = cur
      <4>1. oid \in 1 .. lastOrder /\ orders[oid].kind = "stop" /\ orders[oid].owner = cur
        BY <3>1 DEF Sells, EntryStopOwned
      <4>2. oid \in OrderIds
        BY <1>0, <4>1, OwnersAreSignals DEF Sells
      <4>3. QED BY <2>3, <4>1, <4>2 DEF Kept, SameOrder
    <3>2. QED BY <2>1, <3>1 DEF EntryStopOwned
  <2>6. QED BY <1>0, <2>1, <2>2, <2>3, <2>4, <2>5, Steady DEF AccountStep
<1>5. QED BY <1>1, <1>2, <1>3, <1>4 DEF Surroundings

LEMMA SellsPreserved == ASSUME IInv, IInv', Sells, [Next]_vars PROVE Sells'
<1> USE DEF thread, memory, journal, account, counters
<1>0. handled \in Nat
  BY DEF IInv, TypeOK
<1>1. CASE StartTick
  BY <1>0, <1>1, Quiet
  DEF StartTick, Goto, Undisturbed, HandlerAlone, Entering, EntryPoints, AdvancePoints,
      ClosePoints
<1>2. CASE UNCHANGED vars
  BY <1>0, <1>2, Quiet DEF vars, Sells, HandlerAlone, Undisturbed
<1>3. QED
  BY <1>1, <1>2, HandlePostsSells, HandleManualClosesSells, FlattenAtCloseSells,
     AdvancePositionsSells, ClosePositionSells, ReconcilePositionsSells, SurroundingsSells
  DEF Next, Tick, Surroundings

LEMMA InitSells == Init => Sells
<1> SUFFICES ASSUME Init PROVE Sells
  OBVIOUS
<1>1. /\ pc = "idle" /\ open = {} /\ manualQueue = <<>> /\ lastOrder = 0
      /\ rec = [s \in Signals |-> NoRecord]
      /\ \A i \in OrderIds : i > 0 /\ orders[i].status = "unused"
  <2>1. \A i \in OrderIds : i > 0
    BY BrokerAssumption DEF OrderIds
  <2>2. UnusedOrder.status = "unused"
    BY DEF UnusedOrder
  <2>3. \A i \in OrderIds : orders[i] = UnusedOrder
    BY DEF Init, AccountInit
  <2>4. QED BY <2>1, <2>2, <2>3 DEF Init, AccountInit
<1>2. Elements(manualQueue) = {} /\ OnceEach(manualQueue)
  BY <1>1 DEF Elements, OnceEach
<1>3. OrdersHaveOwners
  BY <1>1 DEF OrdersHaveOwners, OrderIds
<1>4. ManualKnown
  BY <1>1 DEF ManualKnown
<1>5. QED
  BY <1>1, <1>2, <1>3, <1>4
  DEF Sells, StopsOwned, EntryStopOwned, PendingIsFlagged, QueueWaits, HandlerAlone,
      DownIsEmpty, NoRecord, AdvancePoints, ClosePoints

LEMMA OwnersKnown == Spec => [](IInv /\ Sells)
<1>1. IInv /\ [Next]_vars => IInv'
  BY TypePreserved, RowsPreserved DEF IInv
<1>2. IInv /\ Sells /\ [Next]_vars => IInv' /\ Sells'
  BY <1>1, SellsPreserved
<1>3. QED BY <1>2, InitIInv, InitSells, PTL DEF Spec

\* The order a step hands out, if any, is not for a position whose manual sell is
\* pending, except in the flatten.
AloneStep == \A s \in Signals :
    rec[s].manual # NoOrder /\ lastOrder' # lastOrder /\ orders'[lastOrder'].owner = s
        => flattening

LEMMA IssuedAlone ==
    ASSUME NEW kind \in Kinds, NEW o \in Signals, Issued(kind, o),
           rec[o].manual = NoOrder \/ flattening
    PROVE  AloneStep
BY DEF AloneStep, Issued, Handed

LEMMA KeptAlone == ASSUME lastOrder' = lastOrder PROVE AloneStep
BY DEF AloneStep

LEMMA HandlePostsAlone == ASSUME IInv, Sells, HandlePosts PROVE AloneStep
<1> USE DEF account, EntryPoints
<1>0. TypeOK /\ AccountTypeOK /\ handled \in Nat
  BY DEF IInv, TypeOK
<1>1. \A s \in Signals \ open : rec[s].manual = NoOrder
  BY DEF Sells, PendingIsFlagged
<1>2. CASE SubmitEntry \/ SubmitEntryRaises
  <2>1. /\ handled + 1 \in Signals /\ handled + 1 \notin open
        /\ Kept \/ Issued("entry", handled + 1)
    <3>1. handled + 1 \in Signals
      BY <1>0, <1>2, NextPost DEF SubmitEntry, SubmitEntryRaises
    <3>2. handled + 1 \notin open
      BY <1>0, <3>1 DEF IInv, Rows, FreshSignals
    <3>3. Kept \/ Issued("entry", handled + 1)
      BY <1>0, <1>2, <3>1, SubmitIssued, RaisesKept DEF SubmitEntry, SubmitEntryRaises, Kinds
    <3>4. QED BY <3>1, <3>2, <3>3
  <2>2. QED BY <1>1, <2>1, IssuedAlone, KeptAlone DEF Kept, Kinds
<1>3. CASE PlaceStop \/ (PostHandlerCrash /\ pc = "entryStop")
  <2>1. cur \in Signals /\ cur \notin open
    BY <1>3 DEF PlaceStop, IInv, Rows, CurrentSignal
  <2>2. Kept \/ Issued("stop", cur)
    BY <1>0, <1>3, <2>1, SubmitIssued, RaisesKept DEF PlaceStop, PostHandlerCrash, Kinds
  <2>3. QED BY <1>1, <2>1, <2>2, IssuedAlone, KeptAlone DEF Kept, Kinds
<1>4. CASE \/ RejectPost \/ EntryFilled \/ EntryNotFilled \/ CancelEntry \/ TrackPosition
           \/ MarkTaken \/ (PostHandlerCrash /\ pc # "entryStop") \/ PostsDrained
  BY <1>4, KeptAlone DEF RejectPost, EntryFilled, EntryNotFilled, CancelEntry, TrackPosition,
     MarkTaken, PostHandlerCrash, PostsDrained, Goto
<1>5. QED BY <1>2, <1>3, <1>4 DEF HandlePosts

\* A handler that works on a tracked position.
LEMMA HandlersAlone ==
    ASSUME IInv, Sells,
           \/ SubmitManualSell \/ ManualCloseFails \/ ReplaceStop \/ ReplaceRefused
           \/ ResubmitStop \/ ResubmitStopRaises \/ SubmitClose \/ CloseRaises
    PROVE  AloneStep
<1>0. TypeOK /\ AccountTypeOK
  BY DEF IInv, TypeOK
<1>1. /\ pc \in AdvancePoints \union ClosePoints \union {"manualSell"}
      /\ cur \in Signals /\ cur \in open /\ -rec[cur].qty \in Int
  BY CurrentOpen
  DEF SubmitManualSell, ManualCloseFails, ReplaceStop, ReplaceRefused, ResubmitStop,
      ResubmitStopRaises, SubmitClose, CloseRaises, AdvancePoints, ClosePoints
<1>2. rec[cur].manual = NoOrder \/ flattening
  BY <1>1 DEF Sells, HandlerAlone
<1>3. lastOrder' = lastOrder
      \/ \E kind \in Kinds, o \in Signals : Issued(kind, o) /\ (o = cur \/ o \notin open)
  <2>1. CASE SubmitManualSell \/ ManualCloseFails
    BY <1>0, <1>1, <2>1, SubmitIssued, RaisesKept
    DEF SubmitManualSell, ManualCloseFails, Kinds, Kept
  <2>2. CASE ReplaceStop \/ ReplaceRefused
    <3>1. pc = "replaceStop"
      BY <2>2 DEF ReplaceStop, ReplaceRefused
    <3>2. lastOrder' = lastOrder \/ Replace(rec[cur].stop)
      BY <2>2 DEF ReplaceStop, ReplaceRefused
    <3>3. QED BY <3>1, <3>2, ReplaceIssued DEF Kinds
  <2>3. CASE ResubmitStop \/ ResubmitStopRaises
    BY <1>0, <1>1, <2>3, SubmitIssued, RaisesKept
    DEF ResubmitStop, ResubmitStopRaises, Kinds, Kept
  <2>4. CASE SubmitClose \/ CloseRaises
    BY <1>0, <1>1, <2>4, SubmitIssued, RaisesKept DEF SubmitClose, CloseRaises, Kinds, Kept
  <2>5. QED BY <2>1, <2>2, <2>3, <2>4
<1>4. QED BY <1>2, <1>3, IssuedAlone, KeptAlone DEF Sells, PendingIsFlagged

LEMMA StepAlone == ASSUME IInv, Sells, [Next]_vars PROVE AloneStep
<1> USE DEF account
<1>1. CASE HandlePosts
  BY <1>1, HandlePostsAlone
<1>2. CASE HandleManualCloses
  BY <1>2, HandlersAlone, KeptAlone
  DEF HandleManualCloses, DropManualClose, CancelStopForManualClose, ManualQueueDrained,
      PollDone, BookManualFill, ManualFillPending, Goto, StartLoop
<1>3. CASE FlattenAtClose
  BY <1>3, KeptAlone
  DEF FlattenAtClose, BeforeClose, NothingToFlatten, StartFlatten, AllFlattened, CancelAll,
      CloseAll, FlattenFails, FlattenOne, Goto, StartLoop
<1>4. CASE AdvancePositions
  BY <1>4, HandlersAlone, KeptAlone
  DEF AdvancePositions, Hold, RaiseStop, ExitPosition, AdvanceDone, SkipClosing, BookStopFill,
      LookAtPosition, Goto
<1>5. CASE ClosePosition
  BY <1>5, HandlersAlone, KeptAlone DEF ClosePosition, CancelStopForClose, BookClose
<1>6. CASE ReconcilePositions
  BY <1>6, KeptAlone
  DEF ReconcilePositions, SkipReconcile, FindGhosts, GhostsDone, DeferGhost, BookManualGhost,
      BookGhost, BookGhostBlind, Goto, StartLoop
<1>7. CASE Surroundings \/ StartTick \/ UNCHANGED vars
  BY <1>7, KeptAlone
  DEF Surroundings, RequestManualClose, Crash, Restart, PostArrives, AccountMoves,
      CloseApproaches, NextSession, Fill, CancelSettles, ExchangeRejects, LiquidationFills,
      ClosedByHand, OrdersExpire, StartTick, Goto, vars
<1>8. QED BY <1>1, <1>2, <1>3, <1>4, <1>5, <1>6, <1>7 DEF Next, Tick, Surroundings

\* While a manual sell is pending, only the flatten sends another order for the
\* position, whichever record the stop on its contract is in, and however calls fail.
THEOREM SellAlone == Spec => ManualSellLeftAlone
<1>1. IInv /\ Sells /\ [Next]_vars => [AloneStep]_vars
  BY StepAlone
<1>2. QED BY <1>1, OwnersKnown, PTL DEF Spec, ManualSellLeftAlone, AloneStep

\* Unless a call fails or the process dies, a trade with a manual sell on the account
\* is not booked as an external close.
THEOREM ManualNotExternal == Spec => []ManualNeverExternal
<1>1. ASSUME IInv, Sells PROVE ManualNeverExternal
  <2> SUFFICES ASSUME Undisturbed, NEW s \in Signals, NEW k \in 1 .. Len(trades[s]),
                      trades[s][k] = "external_close", NEW i \in OrderIds,
                      orders[i].kind = "manual", orders[i].owner = s,
                      orders[i].status # "unused"
               PROVE  FALSE
    BY DEF ManualNeverExternal
  <2>1. i \in 1 .. lastOrder
    <3>1. lastOrder \in Nat /\ i \in Nat \ {0}
      BY <1>1, BrokerAssumption DEF IInv, TypeOK, AccountTypeOK, OrderIds
    <3>2. i <= lastOrder
      BY <1>1, <3>1 DEF Sells, OrdersHaveOwners
    <3>3. QED BY <3>1, <3>2
  <2>2. QED BY <1>1, <2>1 DEF Sells, ManualKnown
<1>2. QED BY <1>1, OwnersKnown, PTL

-----------------------------------------------------------------------------
(* The stops.  ProtectedBetweenTicks needs to know, at every point of a tick,     *)
(* who is without a working stop just then: the position that is being closed.  The *)
(* invariant follows a position that is sold by hand from its stop to its manual sell *)
(* too: BookedMeansLeaving, below, rests on it.                                   *)

Calm == Undisturbed /\ days = 0

\* The order sells for the position itself, and works or has filled.
Intact(s, i) ==
    /\ i \in OrderIds /\ orders[i].owner = s /\ orders[i].kind # "entry"
    /\ orders[i].status \in {"new", "filled"}

\* Nobody else's stop is in the record, and the stop or the manual sell is intact, but
\* for the position whose stop the thread cancelled just now.
Guarded(s) ==
    /\ rec[s].stop # NoOrder => orders[rec[s].stop].owner = s
    /\ \/ Intact(s, rec[s].stop) \/ Intact(s, rec[s].manual)
       \/ pc \in {"closeSell", "closeBook", "manualSell"} /\ cur = s

\* The entry order is that of the position being entered, and only the flatten's own
\* closes are marked as such.
Marks ==
    /\ pc \in {"entryWait", "entryCancel"} =>
           oid \in OrderIds /\ orders[oid].owner = cur /\ orders[oid].kind = "entry"
    /\ flattening => pc \in ClosePoints

Selling(s) == \E i \in OrderIds : Intact(s, i)

\* What the thread has seen to by the time it is somewhere.
Places ==
    /\ pc = "closeBook" => Selling(cur)
    /\ pc = "entryTrack" => Intact(cur, oid)
    /\ pc = "flatten" => open \subseteq todo
    /\ pc \in ClosePoints /\ flattening => open \subseteq todo \union {cur}
    /\ pc \in {"cancelAll", "closeAll"} => open = {}

Guards == Marks /\ (Calm => Places /\ \A s \in open : Guarded(s))

LEMMA DisturbEndsCalm == ASSUME TypeOK, Disturb PROVE ~Calm'
BY DisturbNoted DEF Calm

\* A new order is its owner's, and leaves the others alone.
LEMMA SubmitIntact ==
    ASSUME AccountTypeOK, NEW kind, NEW owner, NEW contract, NEW delta,
           Submit(kind, owner, contract, delta)
    PROVE  /\ \A s \in Signals : \A i \in OrderIds : Intact(s, i) => Intact(s, i)' \/ i = NextId
           /\ NextId \in OrderIds
<1>1. /\ NextId \in OrderIds /\ orders'[NextId].status = "new"
      /\ orders'[NextId].owner = owner
      /\ \A i \in OrderIds \ {NextId} : orders'[i] = orders[i]
  BY SubmitHanded DEF Handed
<1>2. QED BY <1>1 DEF Intact

\* What is used already is not the next order.
LEMMA NamedBefore ==
    ASSUME IInv, Sells, NEW s \in Signals, NEW i \in OrderIds, Intact(s, i)
    PROVE  i # NextId
<1>1. lastOrder \in Nat /\ i \in Nat
  BY BrokerAssumption DEF IInv, TypeOK, AccountTypeOK, OrderIds
<1>2. orders[i].status # "unused"
  BY DEF Intact
<1>3. ~(i > lastOrder)
  BY <1>2 DEF Sells, OrdersHaveOwners
<1>4. QED BY <1>1, <1>3 DEF NextId

LEMMA SubmitKeepsIntact ==
    ASSUME IInv, Sells, NEW kind, NEW owner, NEW contract, NEW delta,
           Submit(kind, owner, contract, delta)
    PROVE  /\ \A s \in Signals : \A i \in OrderIds : Intact(s, i) => Intact(s, i)'
           /\ NextId \in OrderIds
BY SubmitIntact, NamedBefore DEF IInv, TypeOK

LEMMA CancelIntact ==
    ASSUME TypeOK, NEW i, CancelOrder(i), UNCHANGED lastOrder
    PROVE  /\ Calm' => Calm
           /\ Calm' => \A s \in Signals : \A j \in OrderIds : Intact(s, j) /\ j # i => Intact(s, j)'
           /\ \A j \in OrderIds : orders'[j].owner = orders[j].owner
           /\ ~Live(i) /\ Calm' => UNCHANGED orders
<1>1. CASE Disturb /\ UNCHANGED orders
  BY <1>1, DisturbEndsCalm
<1>2. CASE CancelRequested(i) /\ UNCHANGED counters
  <2>1. Calm' => Calm
    BY <1>2 DEF counters, Calm, Undisturbed
  <2>2. \A j \in OrderIds : j # i => orders'[j] = orders[j]
    BY <1>2 DEF CancelRequested, Live, TypeOK, AccountTypeOK
  <2>3. \A j \in OrderIds : orders'[j].owner = orders[j].owner
    BY <1>2, CancelKept DEF TypeOK, Kept, SameOrder
  <2>4. ~Live(i) => UNCHANGED orders
    BY <1>2 DEF CancelRequested
  <2>5. QED BY <2>1, <2>2, <2>3, <2>4 DEF Intact
<1>3. QED BY <1>1, <1>2 DEF CancelOrder

LEMMA MovesIntact ==
    ASSUME AccountTypeOK, \/ \E i \in OrderIds : Fill(i) \/ CancelSettles(i)
                          \/ \E c \in Contracts : LiquidationFills(c)
    PROVE  \A s \in Signals : \A j \in OrderIds : Intact(s, j) => Intact(s, j)'
<1>1. ASSUME NEW i \in OrderIds, Fill(i)
      PROVE  \A s \in Signals : \A j \in OrderIds : Intact(s, j) => Intact(s, j)'
  BY <1>1, WithStatusSame DEF Fill, Intact, AccountTypeOK
<1>2. ASSUME NEW i \in OrderIds, CancelSettles(i)
      PROVE  \A s \in Signals : \A j \in OrderIds : Intact(s, j) => Intact(s, j)'
  BY <1>2, WithStatusSame DEF CancelSettles, Intact, AccountTypeOK
<1>3. ASSUME NEW c \in Contracts, LiquidationFills(c)
      PROVE  \A s \in Signals : \A j \in OrderIds : Intact(s, j) => Intact(s, j)'
  BY <1>3 DEF LiquidationFills, Intact
<1>4. QED BY <1>1, <1>2, <1>3

\* Cancelling what is no sell of the position's leaves its sells alone.
LEMMA CancelElsewhere ==
    ASSUME TypeOK, NEW i, CancelOrder(i), UNCHANGED lastOrder, Calm', NEW s \in Signals,
           i \in OrderIds => orders[i].owner # s \/ orders[i].kind = "entry"
    PROVE  \A j \in OrderIds : Intact(s, j) => Intact(s, j)'
<1>1. \A j \in OrderIds : Intact(s, j) /\ j # i => Intact(s, j)'
  BY CancelIntact
<1>2. \A j \in OrderIds : Intact(s, j) => j # i
  BY DEF Intact
<1>3. QED BY <1>1, <1>2

\* A step that leaves a position's record and its sells alone.
LEMMA GuardedKept ==
    ASSUME IInv, Sells, NEW s \in open, Guarded(s),
           rec'[s].stop = rec[s].stop, rec'[s].manual = rec[s].manual,
           \A i \in 1 .. lastOrder : orders'[i].owner = orders[i].owner,
           \A i \in OrderIds : Intact(s, i) => Intact(s, i)',
           pc \in {"closeSell", "closeBook", "manualSell"} /\ cur = s
               => pc' \in {"closeSell", "closeBook", "manualSell"} /\ cur' = s
    PROVE  Guarded(s)'
<1>1. rec[s].stop # NoOrder => orders'[rec[s].stop].owner = s
  BY DEF Guarded, Sells, StopsOwned
<1>2. Intact(s, rec[s].stop) => Intact(s, rec[s].stop)'
  BY DEF Intact
<1>3. Intact(s, rec[s].manual) => Intact(s, rec[s].manual)'
  BY DEF Intact
<1>4. QED BY <1>1, <1>2, <1>3 DEF Guarded

LEMMA SubmitGuarded ==
    ASSUME IInv, Sells, NEW kind, NEW owner, NEW contract, NEW delta,
           Submit(kind, owner, contract, delta)
    PROVE  /\ \A i \in 1 .. lastOrder : orders'[i].owner = orders[i].owner
           /\ \A s \in Signals : \A i \in OrderIds : Intact(s, i) => Intact(s, i)'
           /\ NextId \in OrderIds
           /\ orders'[NextId].owner = owner /\ orders'[NextId].kind = kind
           /\ orders'[NextId].status = "new"
<1>1. AccountTypeOK
  BY DEF IInv, TypeOK
<1>2. Handed(kind, owner, contract)
  BY <1>1, SubmitHanded
<1>3. lastOrder \in Nat /\ lastOrder < MaxOrders /\ MaxOrders \in Nat
  BY <1>1, BrokerAssumption DEF Submit, AccountTypeOK
<1>4. \A i \in 1 .. lastOrder : i \in OrderIds \ {NextId}
  BY <1>3 DEF OrderIds, NextId
<1>5. QED BY <1>2, <1>4, SubmitKeepsIntact DEF Handed, SameOrder

LEMMA NamedOrders ==
    ASSUME IInv PROVE \A i \in 1 .. lastOrder : i \in OrderIds
BY BrokerAssumption DEF IInv, TypeOK, AccountTypeOK, OrderIds

\* A step that keeps what it does not drop as well guarded as it was.
LEMMA GuardsSteady ==
    ASSUME Guards, Marks',
           Calm' => Calm /\ Places' /\ open' \subseteq open
                         /\ \A s \in open' : Guarded(s) => Guarded(s)'
    PROVE  Guards'
BY DEF Guards

\* A step that leaves the records and the orders alone, anywhere but in a close.
LEMMA GuardsQuiet ==
    ASSUME Guards, UNCHANGED <<orders, open, rec>>,
           pc \notin {"closeSell", "closeBook", "manualSell"},
           Marks', Calm' => Calm /\ Places'
    PROVE  Guards'
<1>1. \A s \in open' : Guarded(s) => Guarded(s)'
  BY DEF Guarded, Intact
<1>2. QED BY <1>1, GuardsSteady

\* A step that drops a record, anywhere but in a close.
LEMMA GuardsForget ==
    ASSUME Guards, UNCHANGED orders, pc \notin {"closeSell", "closeBook", "manualSell"},
           open' \subseteq open, \A s \in open' : rec'[s] = rec[s],
           Marks', Calm' => Calm /\ Places'
    PROVE  Guards'
<1>1. \A s \in open' : Guarded(s) => Guarded(s)'
  BY DEF Guarded, Intact
<1>2. QED BY <1>1, GuardsSteady

LEMMA RecordExternalCloseGuards ==
    ASSUME IInv, Guards, NEW s \in Signals, NEW reason, RecordExternalClose(s, reason),
           UNCHANGED <<orders, lastOrder, pc, cur, oid, flattening>>,
           pc \in {"poll", "advance", "ghosts"}
    PROVE  Guards'
<1>1. /\ open' = open \ {s} /\ \A t \in open' : rec'[t] = rec[t]
  BY DEF RecordExternalClose, Forget, IInv, TypeOK
<1>2. Calm' => Calm
  BY DisturbEndsCalm DEF RecordExternalClose, IInv, Calm, Undisturbed, counters
<1>3. QED
  BY <1>1, <1>2, GuardsForget DEF Guards, Marks, Places, ClosePoints

LEMMA HandlePostsGuards == ASSUME IInv, Sells, Guards, HandlePosts PROVE Guards'
<1> USE DEF account, thread, memory, journal, counters, EntryPoints, ClosePoints, Calm,
            Undisturbed
<1>0. /\ TypeOK /\ AccountTypeOK /\ rec \in [Signals -> Record] /\ open \subseteq Signals
      /\ ~flattening \/ pc \in ClosePoints
  BY DEF IInv, TypeOK, Guards, Marks
<1>1. CASE RejectPost \/ EntryFilled \/ EntryNotFilled \/ MarkTaken \/ PostsDrained
  BY <1>1, GuardsQuiet
  DEF RejectPost, EntryFilled, EntryNotFilled, MarkTaken, PostsDrained, Goto, Guards, Marks,
      Places
<1>2. CASE SubmitEntryRaises \/ PostHandlerCrash
  <2>1. ~Calm' /\ Marks'
    BY <1>0, <1>2, DisturbEndsCalm DEF SubmitEntryRaises, PostHandlerCrash, Marks
  <2>2. QED BY <2>1 DEF Guards
<1>3. CASE SubmitEntry
  <2>1. /\ pc = "posts" /\ pc' = "entryWait" /\ oid' = NextId /\ cur' = handled + 1
        /\ Submit("entry", handled + 1, ContractOf[handled + 1], 1)
        /\ UNCHANGED <<open, rec, flattening, counters>>
    BY <1>3 DEF SubmitEntry
  <2>2. Marks'
    BY <1>0, <2>1, SubmitHanded DEF Marks, Handed
  <2>3. \A s \in open : Guarded(s) => Guarded(s)'
    BY <1>0, <2>1, SubmitGuarded, GuardedKept
  <2>4. QED BY <2>1, <2>2, <2>3, GuardsSteady DEF Places
\* The order that is cancelled is that of the post, not the stop of a position.
<1>4. CASE CancelEntry
  <2>1. /\ pc = "entryCancel" /\ pc' = "posts" /\ CancelOrder(oid)
        /\ UNCHANGED <<lastOrder, open, rec, flattening>>
    BY <1>4 DEF CancelEntry
  <2>2. Calm' => Calm /\ \A j \in OrderIds : orders'[j].owner = orders[j].owner
    BY <1>0, <2>1, CancelIntact
  <2>3. orders[oid].kind = "entry"
    BY <2>1 DEF Guards, Marks
  <2>4. ASSUME Calm', NEW s \in open, Guarded(s) PROVE Guarded(s)'
    <3>1. \A j \in OrderIds : Intact(s, j) => Intact(s, j)'
      BY <1>0, <2>1, <2>3, <2>4, CancelElsewhere
    <3>2. QED BY <1>0, <2>1, <2>2, <2>4, <3>1, GuardedKept, NamedOrders
  <2>5. Marks' /\ Places'
    BY <1>0, <2>1 DEF Marks, Places
  <2>6. QED BY <2>1, <2>2, <2>4, <2>5, GuardsSteady
<1>5. CASE PlaceStop
  <2>1. /\ pc = "entryStop" /\ pc' = "entryTrack" /\ oid' = NextId
        /\ Submit("stop", cur, ContractOf[cur], -1)
        /\ UNCHANGED <<cur, open, rec, flattening, counters>>
    BY <1>5 DEF PlaceStop
  <2>2. Intact(cur, oid)'
    <3>1. /\ orders'[NextId].owner = cur /\ orders'[NextId].status = "new"
          /\ NextId \in OrderIds /\ orders'[NextId].kind = "stop"
      BY <1>0, <2>1, SubmitHanded DEF Handed
    <3>2. QED BY <2>1, <3>1 DEF Intact
  <2>3. \A s \in open : Guarded(s) => Guarded(s)'
    BY <1>0, <2>1, SubmitGuarded, GuardedKept
  <2>5. Marks' /\ Places'
    BY <1>0, <2>1, <2>2 DEF Marks, Places
  <2>6. QED BY <2>1, <2>3, <2>5, GuardsSteady
<1>6. CASE TrackPosition
  <2>1. /\ pc = "entryTrack" /\ pc' = "entryTaken" /\ open' = open \union {cur}
        /\ rec' = [rec EXCEPT ![cur] = [stop |-> oid, manual |-> NoOrder,
                                        closing |-> FALSE, qty |-> 1]]
        /\ UNCHANGED <<orders, flattening, cur, oid, counters>>
    BY <1>6 DEF TrackPosition
  <2>2. cur \in Signals /\ cur \notin open
    BY <2>1 DEF IInv, Rows, CurrentSignal
  <2>3. rec'[cur].stop = oid /\ \A s \in open : rec'[s] = rec[s]
    BY <1>0, <2>1, <2>2
  <2>4. Marks'
    BY <1>0, <2>1 DEF Marks
  <2>5. QED BY <2>1, <2>3, <2>4 DEF Guards, Places, Guarded, Intact
<1>7. QED BY <1>1, <1>2, <1>3, <1>4, <1>5, <1>6 DEF HandlePosts

LEMMA HandleManualClosesGuards ==
    ASSUME IInv, Sells, Guards, HandleManualCloses PROVE Guards'
<1> USE DEF account, thread, memory, journal, counters, ClosePoints, Calm, Undisturbed
<1>0. /\ TypeOK /\ AccountTypeOK /\ rec \in [Signals -> Record] /\ open \subseteq Signals
      /\ ~flattening \/ pc \in ClosePoints
  BY DEF IInv, TypeOK, Guards, Marks
<1>1. CASE DropManualClose \/ ManualQueueDrained \/ PollDone
  BY <1>1, GuardsQuiet
  DEF DropManualClose, ManualQueueDrained, PollDone, Goto, StartLoop, Guards, Marks, Places
\* The position that loses its stop is the one the sell is sent for next.
<1>2. CASE CancelStopForManualClose
  <2> PICK h : h = Head(manualQueue)
    OBVIOUS
  <2>1. /\ pc = "manual" /\ pc' = "manualSell" /\ cur' = h /\ h \in open
        /\ CancelOrder(rec[h].stop)
        /\ rec' = [rec EXCEPT ![h].stop = NoOrder]
        /\ UNCHANGED <<lastOrder, open, flattening>>
    BY <1>2 DEF CancelStopForManualClose
  <2>2. rec'[h].stop = NoOrder /\ \A s \in open \ {h} : rec'[s] = rec[s]
    BY <1>0, <2>1 DEF Record
  <2>3. Calm' => Calm /\ \A j \in OrderIds : orders'[j].owner = orders[j].owner
    BY <1>0, <2>1, CancelIntact
  <2>4. ASSUME Calm', NEW s \in open \ {h} PROVE Guarded(s)'
    <3>1. Guarded(s) /\ Guarded(h)
      BY <2>1, <2>3, <2>4 DEF Guards
    <3>2. rec[h].stop \in OrderIds => orders[rec[h].stop].owner # s
      BY <2>4, <3>1 DEF Guarded, NoOrder, OrderIds
    <3>3. \A j \in OrderIds : Intact(s, j) => Intact(s, j)'
      BY <1>0, <2>1, <2>4, <3>2, CancelElsewhere
    <3>4. QED BY <1>0, <2>1, <2>2, <2>3, <2>4, <3>1, <3>3, GuardedKept, NamedOrders
  <2>5. Guarded(h)'
    BY <2>1, <2>2 DEF Guarded
  <2>6. Marks' /\ Places'
    BY <1>0, <2>1 DEF Marks, Places
  <2>7. QED BY <2>1, <2>3, <2>4, <2>5, <2>6 DEF Guards
<1>3. CASE SubmitManualSell
  <2>1. /\ pc = "manualSell" /\ pc' = "manual"
        /\ Submit("manual", cur, ContractOf[cur], -rec[cur].qty)
        /\ rec' = [rec EXCEPT ![cur].manual = NextId]
        /\ UNCHANGED <<open, flattening, counters>>
    BY <1>3 DEF SubmitManualSell
  <2>2. /\ cur \in open /\ rec'[cur].manual = NextId /\ rec'[cur].stop = rec[cur].stop
        /\ \A s \in open \ {cur} : rec'[s] = rec[s]
    BY <1>0, <2>1, CurrentOpen DEF Record
  <2>3. Guarded(cur) => (\A s \in {cur} : Guarded(s)')
    <3>1. ASSUME Guarded(cur), NEW s \in {cur} PROVE Guarded(s)'
      <4>1. rec[s].stop # NoOrder => orders'[rec[s].stop].owner = s
        BY <2>1, <2>2, <3>1, SubmitGuarded DEF Guarded, Sells, StopsOwned
      <4>2. Intact(s, rec[s].manual)'
        BY <2>1, <2>2, SubmitGuarded DEF Intact
      <4>3. QED BY <2>2, <4>1, <4>2 DEF Guarded
    <3>2. QED BY <3>1
  <2>4. ASSUME NEW s \in open \ {cur}, Guarded(s) PROVE Guarded(s)'
    BY <1>0, <2>1, <2>2, <2>4, SubmitGuarded, GuardedKept
  <2>5. Marks' /\ Places'
    BY <1>0, <2>1 DEF Marks, Places
  <2>6. QED BY <2>1, <2>2, <2>3, <2>4, <2>5, GuardsSteady
<1>4. CASE ManualCloseFails
  <2>1. ~Calm' /\ Marks'
    BY <1>0, <1>4, DisturbEndsCalm DEF ManualCloseFails, Marks
  <2>2. QED BY <2>1 DEF Guards
<1>5. ASSUME NEW s \in Signals, BookManualFill(s) PROVE Guards'
  BY <1>5, RecordExternalCloseGuards DEF BookManualFill
<1>6. ASSUME NEW s \in Signals, ManualFillPending(s) PROVE Guards'
  <2>1. Calm' => Calm
    BY <1>0, <1>6, DisturbEndsCalm DEF ManualFillPending
  <2>2. QED BY <1>0, <1>6, <2>1, GuardsQuiet DEF ManualFillPending, Marks, Places
<1>7. QED BY <1>1, <1>2, <1>3, <1>4, <1>5, <1>6 DEF HandleManualCloses

LEMMA FlattenAtCloseGuards == ASSUME IInv, Sells, Guards, FlattenAtClose PROVE Guards'
<1> USE DEF account, thread, memory, journal, counters, ClosePoints, Calm, Undisturbed
<1>0. TypeOK /\ AccountTypeOK /\ (~flattening \/ pc \in ClosePoints)
  BY DEF IInv, TypeOK, Guards, Marks
<1>1. CASE BeforeClose \/ NothingToFlatten \/ StartFlatten \/ AllFlattened
  BY <1>1, GuardsQuiet
  DEF BeforeClose, NothingToFlatten, StartFlatten, AllFlattened, Goto, StartLoop, Guards,
      Marks, Places
\* Every order is cancelled, but the book is empty.
<1>2. CASE CancelAll \/ CloseAll
  <2>1. /\ pc \in {"cancelAll", "closeAll"} /\ pc' \in {"closeAll", "idle"}
        /\ UNCHANGED <<open, flattening, counters>>
    BY <1>2 DEF CancelAll, CloseAll
  <2>2. QED BY <1>0, <2>1 DEF Guards, Marks, Places
<1>3. CASE FlattenFails
  <2>1. ~Calm' /\ Marks'
    BY <1>0, <1>3, DisturbEndsCalm DEF FlattenFails, Marks
  <2>2. QED BY <2>1 DEF Guards
<1>4. ASSUME NEW s \in Signals, FlattenOne(s) PROVE Guards'
  BY <1>4, GuardsQuiet DEF FlattenOne, Guards, Marks, Places
<1>5. QED BY <1>1, <1>2, <1>3, <1>4 DEF FlattenAtClose

\* The stop a record gets in place of its old one.
LEMMA NewStopGuards ==
    ASSUME IInv, Sells, Guards, ReplaceStop \/ ResubmitStop PROVE Guards'
<1> USE DEF account, thread, memory, journal, counters, ClosePoints, Calm, Undisturbed
<1>0. /\ TypeOK /\ AccountTypeOK /\ rec \in [Signals -> Record] /\ open \subseteq Signals
      /\ ~flattening \/ pc \in ClosePoints
  BY DEF IInv, TypeOK, Guards, Marks
<1>1. /\ pc \in {"replaceStop", "resubmitStop"} /\ pc' = "evaluated"
      /\ rec' = [rec EXCEPT ![cur].stop = NextId]
      /\ UNCHANGED <<cur, open, flattening, counters>>
  BY DEF ReplaceStop, ResubmitStop
<1>2. cur \in open /\ cur \in Signals
  BY <1>1, CurrentOpen DEF AdvancePoints
<1>3. /\ rec'[cur].stop = NextId /\ rec'[cur].closing = rec[cur].closing
      /\ \A s \in open \ {cur} : rec'[s] = rec[s]
  BY <1>0, <1>1, <1>2 DEF Record
<1>4. CASE ReplaceStop
  <2> DEFINE i == rec[cur].stop
  <2>1. /\ orders[i].status = "new" /\ i \in OrderIds /\ lastOrder' = NextId
        /\ orders' = [orders EXCEPT ![i] = WithStatus(@, "dead"), ![NextId] = orders[i]]
    BY <1>4 DEF ReplaceStop, Replace
  <2>2. NextId \in OrderIds
    BY <1>0, <1>4, BrokerAssumption DEF ReplaceStop, Replace, NextId, OrderIds, AccountTypeOK
  <2>3. /\ \A j \in OrderIds \ {i, NextId} : orders'[j] = orders[j]
        /\ orders'[NextId] = orders[i]
    BY <1>0, <2>1, <2>2 DEF AccountTypeOK
  <2>4. i \in 1 .. lastOrder /\ i # NoOrder /\ orders[i].kind = "stop"
    BY <1>2, <2>1 DEF Sells, StopsOwned, NoOrder, OrderIds
  <2>5. \A j \in 1 .. lastOrder : orders'[j].owner = orders[j].owner
    <3>1. i # NextId
      BY <1>0, <2>4 DEF AccountTypeOK, NextId
    <3>2. orders'[i].owner = orders[i].owner
      BY <1>0, <2>1, <2>2, <3>1, WithStatusSame DEF AccountTypeOK
    <3>3. \A j \in 1 .. lastOrder : j \in OrderIds /\ j # NextId
      BY <1>0, NamedOrders DEF AccountTypeOK, NextId
    <3>4. QED BY <2>3, <3>2, <3>3
  <2>6. Guarded(cur) => orders[i].owner = cur
    BY <2>4 DEF Guarded
  <2>7. Guarded(cur) => (\A s \in {cur} : Guarded(s)')
    <3>1. /\ orders'[NextId].kind = "stop" /\ orders'[NextId].status = "new"
          /\ Guarded(cur) => orders'[NextId].owner = cur
      BY <2>1, <2>3, <2>4, <2>6
    <3>2. QED BY <1>3, <2>2, <3>1 DEF Guarded, Intact
  <2> HIDE DEF i
  <2>8. ASSUME Calm, NEW s \in open \ {cur} PROVE Guarded(s)'
    <3>1. Guarded(s) /\ orders[i].owner # s
      BY <1>2, <2>6, <2>8 DEF Guards
    <3>2. ASSUME NEW j \in OrderIds, Intact(s, j) PROVE Intact(s, j)'
      <4>1. j # i /\ j # NextId
        BY <1>0, <2>8, <3>1, <3>2, NamedBefore DEF Intact
      <4>2. QED BY <2>3, <3>2, <4>1 DEF Intact
    <3>3. QED BY <1>0, <1>1, <1>3, <2>5, <2>8, <3>1, <3>2, GuardedKept
  <2>9. Marks' /\ Places'
    BY <1>0, <1>1 DEF Marks, Places
  <2>10. Calm' => Calm /\ \A s \in open' : Guarded(s)'
    BY <1>1, <1>2, <2>7, <2>8 DEF Guards
  <2>11. QED BY <2>9, <2>10 DEF Guards
<1>5. CASE ResubmitStop
  <2>1. Submit("stop", cur, ContractOf[cur], -rec[cur].qty)
    BY <1>5 DEF ResubmitStop
  <2>2. /\ NextId \in OrderIds /\ orders'[NextId].owner = cur
        /\ orders'[NextId].kind = "stop" /\ orders'[NextId].status = "new"
    BY <2>1, SubmitGuarded
  <2>3. ASSUME NEW s \in open \ {cur}, Guarded(s) PROVE Guarded(s)'
    BY <1>0, <1>1, <1>3, <2>1, <2>3, SubmitGuarded, GuardedKept
  <2>4. \A s \in {cur} : Guarded(s)'
    BY <1>3, <2>2 DEF Guarded, Intact
  <2>6. \A s \in open : Guarded(s) => Guarded(s)'
    BY <2>3, <2>4
  <2>7. Marks' /\ Places'
    BY <1>0, <1>1 DEF Marks, Places
  <2>8. QED BY <1>1, <2>6, <2>7, GuardsSteady
<1>6. QED BY <1>4, <1>5

\* modify_stop, path B, while no call fails: the stop was not replaced because it has
\* filled, or because the position is being sold by hand.
LEMMA ReplaceRefusedGuards == ASSUME IInv, Sells, Guards, ReplaceRefused PROVE Guards'
<1> USE DEF account, thread, memory, journal, counters, ClosePoints, Calm, Undisturbed
<1>0. /\ TypeOK /\ AccountTypeOK /\ open \subseteq Signals
      /\ ~flattening \/ pc \in ClosePoints
  BY DEF IInv, TypeOK, Guards, Marks
<1> DEFINE i == rec[cur].stop
<1>1. /\ pc = "replaceStop" /\ pc' = "resubmitStop" /\ UNCHANGED <<cur, open, rec, flattening>>
  BY DEF ReplaceRefused
<1>2. cur \in open /\ cur \in Signals
  BY <1>1, CurrentOpen DEF AdvancePoints
<1>3. Calm' => orders[i].status # "new" /\ CancelOrder(i) /\ UNCHANGED lastOrder
  BY <1>0, DisturbEndsCalm DEF ReplaceRefused
<1>4. Calm' => Calm
  BY <1>0, <1>3, CancelIntact
<1>5. ASSUME Calm', NEW s \in open PROVE Guarded(s)'
  <2>1. Guarded(s) /\ Guarded(cur) /\ rec[cur].manual = NoOrder
    BY <1>1, <1>2, <1>4, <1>5 DEF Guards, Sells, HandlerAlone, AdvancePoints
  <2>2. \A j \in OrderIds : Intact(s, j) => Intact(s, j)'
    <3>1. CASE s = cur
      <4>1. Intact(cur, i)
        BY <1>1, <2>1 DEF Guarded, Intact, NoOrder, OrderIds
      <4>2. ~Live(i)
        BY <1>3, <1>5, <4>1 DEF Live, LiveStatuses, Intact
      <4>3. UNCHANGED orders
        BY <1>0, <1>3, <1>5, <4>2, CancelIntact
      <4>4. QED BY <4>3 DEF Intact
    <3>2. CASE s # cur
      <4>1. i \in OrderIds => orders[i].owner # s
        BY <2>1, <3>2 DEF Guarded, NoOrder, OrderIds
      <4>2. QED BY <1>0, <1>3, <1>5, <4>1, CancelElsewhere
    <3>3. QED BY <3>1, <3>2
  <2>3. \A j \in OrderIds : orders'[j].owner = orders[j].owner
    BY <1>0, <1>3, <1>5, CancelIntact
  <2>4. QED BY <1>1, <2>1, <2>2, <2>3, GuardedKept, NamedOrders
<1>6. Marks' /\ Places'
  BY <1>0, <1>1 DEF Marks, Places
<1>7. QED BY <1>1, <1>4, <1>5, <1>6, GuardsSteady

LEMMA AdvancePositionsGuards == ASSUME IInv, Sells, Guards, AdvancePositions PROVE Guards'
<1> USE DEF account, thread, memory, journal, counters, ClosePoints, Calm, Undisturbed
<1>0. /\ TypeOK /\ (~flattening \/ pc \in ClosePoints)
  BY DEF IInv, TypeOK, Guards, Marks
<1>1. CASE Hold \/ RaiseStop \/ ExitPosition \/ AdvanceDone
  BY <1>0, <1>1, GuardsQuiet
  DEF Hold, RaiseStop, ExitPosition, AdvanceDone, Goto, Marks, Places
<1>2. CASE ReplaceStop \/ ResubmitStop
  BY <1>2, NewStopGuards
<1>3. CASE ReplaceRefused
  BY <1>3, ReplaceRefusedGuards
<1>4. CASE ResubmitStopRaises
  <2>1. ~Calm' /\ Marks'
    BY <1>0, <1>4, DisturbEndsCalm DEF ResubmitStopRaises, Marks
  <2>2. QED BY <2>1 DEF Guards
<1>5. ASSUME NEW s \in Signals, SkipClosing(s) \/ LookAtPosition(s) PROVE Guards'
  <2>1. Calm' => Calm
    BY <1>0, <1>5, DisturbEndsCalm DEF SkipClosing, LookAtPosition
  <2>2. QED BY <1>0, <1>5, <2>1, GuardsQuiet DEF SkipClosing, LookAtPosition, Marks, Places
<1>6. ASSUME NEW s \in Signals, BookStopFill(s) PROVE Guards'
  BY <1>6, RecordExternalCloseGuards DEF BookStopFill
<1>7. QED BY <1>1, <1>2, <1>3, <1>4, <1>5, <1>6 DEF AdvancePositions

LEMMA ClosePositionGuards == ASSUME IInv, Sells, Guards, ClosePosition PROVE Guards'
<1> USE DEF account, thread, memory, journal, counters, ClosePoints, Calm, Undisturbed
<1>0. /\ TypeOK /\ AccountTypeOK /\ rec \in [Signals -> Record] /\ open \subseteq Signals
      /\ cur \in open /\ cur \in Signals
  BY CurrentOpen
  DEF IInv, TypeOK, ClosePosition, CancelStopForClose, SubmitClose, BookClose, CloseRaises
<1>1. CASE CancelStopForClose
  <2>1. /\ pc = "closeCancel" /\ pc' = "closeSell" /\ CancelOrder(rec[cur].stop)
        /\ UNCHANGED <<lastOrder, cur, todo, flattening, open, rec>>
    BY <1>1 DEF CancelStopForClose
  <2>2. Calm' => Calm
    BY <1>0, <2>1, CancelIntact
  <2>3. ASSUME Calm', NEW s \in open PROVE Guarded(s)'
    <3>1. Guarded(s) /\ Guarded(cur)
      BY <1>0, <2>2, <2>3 DEF Guards
    <3>2. \A j \in OrderIds : orders'[j].owner = orders[j].owner
      BY <1>0, <2>1, <2>3, CancelIntact
    <3>3. CASE s = cur
      <4>1. rec[s].stop # NoOrder => orders'[rec[s].stop].owner = s
        BY <1>0, <3>1, <3>2, NamedOrders DEF Guarded, Sells, StopsOwned
      <4>2. QED BY <2>1, <3>3, <4>1 DEF Guarded
    <3>4. CASE s # cur
      <4>1. rec[cur].stop \in OrderIds => orders[rec[cur].stop].owner # s
        BY <3>1, <3>4 DEF Guarded, NoOrder, OrderIds
      <4>2. \A j \in OrderIds : Intact(s, j) => Intact(s, j)'
        BY <1>0, <2>1, <2>3, <4>1, CancelElsewhere
      <4>3. QED BY <2>1, <3>1, <3>2, <3>4, <4>2, GuardedKept, NamedOrders
    <3>5. QED BY <3>3, <3>4
  <2>4. Marks' /\ (Places => Places')
    BY <2>1 DEF Guards, Marks, Places
  <2>5. QED BY <2>1, <2>2, <2>3, <2>4, GuardsSteady DEF Guards
<1>2. CASE SubmitClose
  <2>1. /\ pc = "closeSell" /\ pc' = "closeBook"
        /\ Submit("exit", cur, ContractOf[cur], -rec[cur].qty)
        /\ UNCHANGED <<cur, todo, flattening, open, rec, counters>>
    BY <1>2 DEF SubmitClose
  <2>2. \A s \in open : Guarded(s) => Guarded(s)'
    BY <1>0, <2>1, SubmitGuarded, GuardedKept
  <2>3. Selling(cur)'
    <3>1. /\ NextId \in OrderIds /\ orders'[NextId].owner = cur
          /\ orders'[NextId].kind = "exit" /\ orders'[NextId].status = "new"
      BY <2>1, SubmitGuarded
    <3>2. QED BY <2>1, <3>1 DEF Selling, Intact
  <2>4. Marks' /\ (Places => Places')
    BY <2>1, <2>3 DEF Guards, Marks, Places
  <2>5. QED BY <2>1, <2>2, <2>4, GuardsSteady DEF Guards
<1>3. CASE BookClose
  <2>1. /\ pc = "closeBook" /\ pc' = (IF flattening THEN "flatten" ELSE "advance")
        /\ open' = open \ {cur} /\ ~flattening' /\ UNCHANGED <<orders, todo, counters>>
        /\ \A s \in open' : rec'[s] = rec[s]
    BY <1>0, <1>3 DEF BookClose, Forget
  <2>2. \A s \in open' : Guarded(s) => Guarded(s)'
    BY <2>1 DEF Guarded, Intact
  <2>3. Marks' /\ (Places => Places')
    BY <2>1 DEF Marks, Places
  <2>4. QED BY <2>1, <2>2, <2>3, GuardsSteady DEF Guards
<1>4. CASE CloseRaises
  <2>1. ~Calm' /\ Marks'
    BY <1>0, <1>4, DisturbEndsCalm DEF CloseRaises, Marks
  <2>2. QED BY <2>1 DEF Guards
<1>5. QED BY <1>1, <1>2, <1>3, <1>4 DEF ClosePosition

LEMMA ReconcilePositionsGuards == ASSUME IInv, Sells, Guards, ReconcilePositions PROVE Guards'
<1> USE DEF account, thread, memory, journal, counters, ClosePoints, Calm, Undisturbed
<1>0. /\ TypeOK /\ (~flattening \/ pc \in ClosePoints)
  BY DEF IInv, TypeOK, Guards, Marks
<1>1. CASE SkipReconcile \/ FindGhosts \/ GhostsDone
  BY <1>0, <1>1, GuardsQuiet
  DEF SkipReconcile, FindGhosts, GhostsDone, Goto, StartLoop, Marks, Places
<1>2. ASSUME NEW s \in Signals, DeferGhost(s) PROVE Guards'
  <2>1. Calm' => Calm
    BY <1>0, <1>2, DisturbEndsCalm DEF DeferGhost
  <2>2. QED BY <1>0, <1>2, <2>1, GuardsQuiet DEF DeferGhost, Marks, Places
<1>3. ASSUME NEW s \in Signals, BookManualGhost(s) \/ BookGhost(s) PROVE Guards'
  BY <1>3, RecordExternalCloseGuards DEF BookManualGhost, BookGhost
<1>4. ASSUME NEW s \in Signals, BookGhostBlind(s) PROVE Guards'
  <2>1. ~Calm' /\ Marks'
    BY <1>0, <1>4, DisturbEndsCalm DEF BookGhostBlind, Marks
  <2>2. QED BY <2>1 DEF Guards
<1>5. QED BY <1>1, <1>2, <1>3, <1>4 DEF ReconcilePositions

LEMMA SurroundingsGuards == ASSUME IInv, Sells, Guards, Surroundings PROVE Guards'
<1> USE DEF account, thread, memory, journal, counters, ClosePoints, Calm, Undisturbed
<1>0. /\ TypeOK /\ AccountTypeOK /\ rec \in [Signals -> Record] /\ open \subseteq Signals
      /\ {disturbed, crashes, days} \subseteq Nat
  BY DEF IInv, TypeOK
<1>1. ASSUME NEW s \in Signals, RequestManualClose(s) PROVE Guards'
  <2>1. /\ rec' = [rec EXCEPT ![s].closing = TRUE]
        /\ UNCHANGED <<orders, pc, cur, oid, todo, flattening, open, counters>>
    BY <1>1 DEF RequestManualClose
  <2>2. \A t \in open : rec'[t].stop = rec[t].stop /\ rec'[t].manual = rec[t].manual
    BY <1>0, <2>1 DEF Record
  <2>3. \A t \in open : Guarded(t) => Guarded(t)'
    BY <2>1, <2>2 DEF Guarded, Intact
  <2>4. Marks' /\ (Places => Places')
    BY <2>1 DEF Guards, Marks, Places, Selling, Intact
  <2>5. QED BY <2>1, <2>3, <2>4, GuardsSteady DEF Guards
<1>2. CASE Crash
  BY <1>0, <1>2 DEF Crash, Guards, Marks
<1>3. CASE Restart
  <2>1. ~Undisturbed /\ pc = "down"
    BY <1>3 DEF Restart, Sells, DownIsEmpty
  <2>2. ~Calm'
    BY <1>0, <1>3, <2>1, DisturbEndsCalm DEF Restart
  <2>3. Marks'
    BY <1>3 DEF Restart, Guards, Marks
  <2>4. QED BY <2>2, <2>3 DEF Guards
<1>4. CASE PostArrives \/ CloseApproaches
  <2>1. UNCHANGED <<orders, pc, cur, oid, todo, flattening, open, rec, counters>>
    BY <1>4 DEF PostArrives, CloseApproaches
  <2>2. QED BY <2>1 DEF Guards, Marks, Places, Guarded, Selling, Intact
<1>5. CASE AccountMoves
  <2>1. UNCHANGED <<pc, cur, oid, todo, flattening, open, rec>>
    BY <1>5 DEF AccountMoves
  <2>2. Calm' => /\ Calm
                 /\ \A s \in Signals : \A j \in OrderIds : Intact(s, j) => Intact(s, j)'
    BY <1>0, <1>5, MovesIntact, DisturbEndsCalm DEF AccountMoves
  <2>3. \A i \in OrderIds : /\ orders'[i].owner = orders[i].owner
                            /\ orders'[i].kind = orders[i].kind
    BY <1>0, <1>5, MovesKept DEF AccountMoves, Kept, SameOrder
  <2>4. Marks'
    BY <2>1, <2>3 DEF Guards, Marks
  <2>5. ASSUME Calm', NEW s \in open, Guarded(s) PROVE Guarded(s)'
    BY <1>0, <2>1, <2>2, <2>3, <2>5, GuardedKept, NamedOrders
  <2>6. Calm' => (Places => Places')
    <3>1. pc \in {"entryTrack", "closeBook"} => cur \in Signals
      BY <1>0 DEF IInv, Rows, CurrentSignal, EntryPoints, ClosePoints
    <3>2. Calm' => (Selling(cur) /\ cur \in Signals => Selling(cur)')
      BY <2>1, <2>2 DEF Selling, Intact
    <3>3. Calm' => (Intact(cur, oid) /\ cur \in Signals => Intact(cur, oid)')
      BY <2>1, <2>2 DEF Intact
    <3>4. QED BY <2>1, <3>1, <3>2, <3>3 DEF Places
  <2>7. QED BY <2>1, <2>2, <2>4, <2>5, <2>6, GuardsSteady DEF Guards
<1>6. CASE NextSession
  BY <1>0, <1>6 DEF NextSession, Guards, Marks
<1>7. QED BY <1>1, <1>2, <1>3, <1>4, <1>5, <1>6 DEF Surroundings

LEMMA GuardsPreserved == ASSUME IInv, Sells, Guards, [Next]_vars PROVE Guards'
<1>1. CASE StartTick
  BY <1>1, GuardsQuiet
  DEF StartTick, Goto, account, memory, counters, Guards, Marks, Places, Calm, Undisturbed,
      ClosePoints
<1>2. CASE UNCHANGED vars
  BY <1>2
  DEF vars, account, thread, memory, counters, Guards, Marks, Places, Guarded, Selling,
      Intact, Calm, Undisturbed
<1>3. QED
  BY <1>1, <1>2, HandlePostsGuards, HandleManualClosesGuards, FlattenAtCloseGuards,
     AdvancePositionsGuards, ClosePositionGuards, ReconcilePositionsGuards, SurroundingsGuards
  DEF Next, Tick, Surroundings

\* While no call fails and the process lives, a tracked position has, between two ticks
\* of a session, a stop that works or has filled, or is being sold by hand: no cancel for
\* one position takes the stop of another, and the flatten drops every record before
\* it cancels all orders.
THEOREM StopsInPlace == Spec => []ProtectedBetweenTicks
<1>1. IInv /\ Sells /\ Guards /\ [Next]_vars => IInv' /\ Sells' /\ Guards'
  <2>1. IInv /\ [Next]_vars => IInv'
    BY TypePreserved, RowsPreserved DEF IInv
  <2>2. QED BY <2>1, SellsPreserved, GuardsPreserved
<1>2. Init => Guards
  BY DEF Init, Guards, Marks, Places, ClosePoints
<1>3. IInv /\ Sells /\ Guards => ProtectedBetweenTicks
  BY DEF Sells, PendingIsFlagged, IInv, TypeOK, Guards, Guarded, Intact, Calm,
         ProtectedBetweenTicks, Live, Filled, LiveStatuses, NoOrder, OrderIds
<1>4. QED BY <1>1, <1>2, <1>3, InitIInv, InitSells, PTL DEF Spec

-----------------------------------------------------------------------------
(* What the account holds for whom.  BookedMeansLeaving and AdoptedAfterRestart   *)
(* compare the account with the journal, so they need to know where a holding     *)
(* comes from: a signal is bought once, one lot, before anything of it is sold.   *)

\* An entry buys one lot, once for a signal; whatever else was sent sells, and for a
\* signal that was bought.
Deals ==
    /\ \A i \in 1 .. lastOrder :
           /\ orders[i].status # "unused"
           /\ orders[i].kind = "entry" => orders[i].delta = 1
           /\ orders[i].kind # "entry" => orders[i].delta < 0 /\ orders[i].owner \in Bought
    /\ \A i, j \in 1 .. lastOrder :
           orders[i].kind = "entry" /\ orders[j].kind = "entry"
               /\ orders[i].owner = orders[j].owner => i = j

\* What is tracked, taken or booked was bought.
BoughtFirst ==
    /\ pc \in {"entryStop", "entryTrack", "entryTaken"} => cur \in Bought
    /\ pc = "entryTaken" => cur \in open
    /\ open \subseteq Bought
    /\ \A s \in Signals : taken[s] \/ trades[s] # <<>> => s \in Bought
    /\ \A s \in open : rec[s].qty >= 1

Purchases == Deals /\ BoughtFirst

Sale(s, kind, q) ==
    /\ s \in Bought /\ kind \in Kinds \ {"entry"} /\ q \in Nat \ {0}
    /\ Submit(kind, s, ContractOf[s], -q) /\ UNCHANGED <<net, liquidation>>

Purchase ==
    /\ handled + 1 \in Signals /\ handled' = handled + 1
    /\ Submit("entry", handled + 1, ContractOf[handled + 1], 1)
    /\ UNCHANGED <<net, liquidation>>

Ratchet(i) ==
    /\ i \in 1 .. lastOrder /\ orders[i].kind = "stop"
    /\ Replace(i) /\ UNCHANGED <<net, liquidation>>

Cancel(i) == CancelRequested(i) /\ UNCHANGED <<lastOrder, net, liquidation>>
Sweep == (CancelAllRequested /\ pc' = "closeAll") \/ CloseAllRequested

Moves ==
    \/ \E i \in OrderIds : Fill(i) \/ CancelSettles(i) \/ ExchangeRejects(i)
    \/ \E c \in Contracts : LiquidationFills(c) \/ (ClosedByHand(c) /\ disturbed' # 0)
    \/ OrdersExpire /\ days' # 0

\* What a step does to the account.
Dealing ==
    \/ UNCHANGED account
    \/ \E s, kind, q : Sale(s, kind, q)
    \/ Purchase
    \/ \E i : Ratchet(i) \/ Cancel(i)
    \/ Sweep /\ UNCHANGED <<lastOrder, net>>
    \/ Moves

LEMMA RaisesDeals ==
    ASSUME NEW kind \in Kinds \ {"entry"}, NEW s \in Bought, NEW q \in Nat \ {0},
           SubmitRaises(kind, s, ContractOf[s], -q), UNCHANGED <<net, liquidation>>
    PROVE  Dealing
BY DEF SubmitRaises, Dealing, Sale, account

LEMMA CancelDeals ==
    ASSUME NEW i, CancelOrder(i), UNCHANGED <<lastOrder, net, liquidation>>
    PROVE  Dealing
BY DEF CancelOrder, Dealing, Cancel, account

LEMMA OpenSells ==
    ASSUME IInv, Sells, Purchases, cur \in open
    PROVE  /\ cur \in Bought /\ rec[cur].qty \in Nat \ {0}
           /\ rec[cur].stop \in OrderIds => rec[cur].stop \in 1 .. lastOrder
                                            /\ orders[rec[cur].stop].kind = "stop"
<1>1. rec[cur].qty \in Nat
  BY DEF IInv, TypeOK, Record
<1>2. cur \in Bought /\ rec[cur].qty >= 1
  BY <1>1 DEF Purchases, BoughtFirst
<1>3. QED BY <1>1, <1>2 DEF Sells, StopsOwned, OrderIds, NoOrder

LEMMA HandlePostsDeals == ASSUME IInv, Purchases, HandlePosts PROVE Dealing
<1> USE DEF account
<1>1. CASE RejectPost \/ EntryFilled \/ EntryNotFilled \/ TrackPosition \/ MarkTaken
           \/ PostsDrained
  BY <1>1
  DEF RejectPost, EntryFilled, EntryNotFilled, TrackPosition, MarkTaken, PostsDrained, Goto,
      Dealing
<1>2. CASE SubmitEntry \/ SubmitEntryRaises
  <2>1. handled + 1 \in Signals
    BY <1>2, NextPost DEF SubmitEntry, SubmitEntryRaises, IInv
  <2>2. QED
    BY <1>2, <2>1 DEF SubmitEntry, SubmitEntryRaises, SubmitRaises, Dealing, Purchase
<1>3. CASE CancelEntry
  BY <1>3, CancelDeals DEF CancelEntry
<1>4. CASE PlaceStop \/ PostHandlerCrash
  <2>1. pc = "entryStop" => cur \in Bought
    BY DEF Purchases, BoughtFirst
  <2>2. pc = "entryStop" => SubmitRaises("stop", cur, ContractOf[cur], -1)
                            /\ UNCHANGED <<net, liquidation>>
    BY <1>4 DEF PlaceStop, PostHandlerCrash, SubmitRaises
  <2>3. CASE pc = "entryStop"
    BY <2>1, <2>2, <2>3, RaisesDeals DEF Kinds
  <2>4. CASE pc # "entryStop"
    BY <1>4, <2>4 DEF PlaceStop, PostHandlerCrash, Dealing
  <2>5. QED BY <2>3, <2>4
<1>5. QED BY <1>1, <1>2, <1>3, <1>4 DEF HandlePosts

LEMMA HandleManualClosesDeals ==
    ASSUME IInv, Sells, Purchases, HandleManualCloses PROVE Dealing
<1> USE DEF account
<1>1. CASE DropManualClose \/ ManualQueueDrained \/ PollDone
  BY <1>1 DEF DropManualClose, ManualQueueDrained, PollDone, Goto, StartLoop, Dealing
<1>2. CASE CancelStopForManualClose
  BY <1>2, CancelDeals DEF CancelStopForManualClose
<1>3. CASE SubmitManualSell \/ ManualCloseFails
  <2>1. cur \in open
    BY <1>3, CurrentOpen DEF SubmitManualSell, ManualCloseFails
  <2>2. /\ SubmitRaises("manual", cur, ContractOf[cur], -rec[cur].qty)
        /\ UNCHANGED <<net, liquidation>>
    BY <1>3 DEF SubmitManualSell, ManualCloseFails, SubmitRaises
  <2>3. QED BY <2>1, <2>2, OpenSells, RaisesDeals DEF Kinds
<1>4. ASSUME NEW s \in Signals, BookManualFill(s) \/ ManualFillPending(s) PROVE Dealing
  BY <1>4 DEF BookManualFill, ManualFillPending, Dealing
<1>5. QED BY <1>1, <1>2, <1>3, <1>4 DEF HandleManualCloses

LEMMA FlattenAtCloseDeals == ASSUME FlattenAtClose PROVE Dealing
<1> USE DEF account
<1>1. CASE CancelAll \/ CloseAll
  BY <1>1 DEF CancelAll, CloseAll, Sweep, Dealing
<1>2. CASE BeforeClose \/ NothingToFlatten \/ StartFlatten \/ AllFlattened \/ FlattenFails
  BY <1>2 DEF BeforeClose, NothingToFlatten, StartFlatten, AllFlattened, FlattenFails, Goto,
              StartLoop, Dealing
<1>3. ASSUME NEW s \in Signals, FlattenOne(s) PROVE Dealing
  BY <1>3 DEF FlattenOne, Dealing
<1>4. QED BY <1>1, <1>2, <1>3 DEF FlattenAtClose

LEMMA AdvancePositionsDeals ==
    ASSUME IInv, Sells, Purchases, AdvancePositions PROVE Dealing
<1> USE DEF account
<1>1. CASE Hold \/ RaiseStop \/ ExitPosition \/ AdvanceDone
  BY <1>1 DEF Hold, RaiseStop, ExitPosition, AdvanceDone, Goto, Dealing
<1>2. CASE ReplaceStop \/ ReplaceRefused \/ ResubmitStop \/ ResubmitStopRaises
  <2>1. cur \in open
    BY <1>2, CurrentOpen
    DEF ReplaceStop, ReplaceRefused, ResubmitStop, ResubmitStopRaises, AdvancePoints
  <2>2. Replace(rec[cur].stop) => rec[cur].stop \in 1 .. lastOrder
                                  /\ orders[rec[cur].stop].kind = "stop"
    BY <2>1, OpenSells DEF Replace
  <2>3. CASE ReplaceStop \/ ReplaceRefused
    <3>1. UNCHANGED <<net, liquidation>>
      BY <2>3 DEF ReplaceStop, ReplaceRefused
    <3>2. CASE Replace(rec[cur].stop)
      BY <2>2, <3>1, <3>2 DEF Dealing, Ratchet
    <3>3. CASE CancelOrder(rec[cur].stop) /\ UNCHANGED lastOrder
      BY <3>1, <3>3, CancelDeals
    <3>4. CASE CancelRequested(rec[cur].stop) /\ UNCHANGED lastOrder
      BY <3>1, <3>4 DEF Dealing, Cancel
    <3>5. QED BY <2>3, <3>2, <3>3, <3>4 DEF ReplaceStop, ReplaceRefused
  <2>4. CASE ResubmitStop \/ ResubmitStopRaises
    <3>1. /\ SubmitRaises("stop", cur, ContractOf[cur], -rec[cur].qty)
          /\ UNCHANGED <<net, liquidation>>
      BY <2>4 DEF ResubmitStop, ResubmitStopRaises, SubmitRaises
    <3>2. QED BY <2>1, <3>1, OpenSells, RaisesDeals DEF Kinds
  <2>5. QED BY <1>2, <2>3, <2>4
<1>3. ASSUME NEW s \in Signals, SkipClosing(s) \/ BookStopFill(s) \/ LookAtPosition(s)
      PROVE  Dealing
  BY <1>3 DEF SkipClosing, BookStopFill, LookAtPosition, Dealing
<1>4. QED BY <1>1, <1>2, <1>3 DEF AdvancePositions

LEMMA ClosePositionDeals == ASSUME IInv, Sells, Purchases, ClosePosition PROVE Dealing
<1> USE DEF account
<1>1. cur \in open
  BY CurrentOpen DEF ClosePosition, CancelStopForClose, SubmitClose, BookClose, CloseRaises,
                     ClosePoints
<1>2. CASE CancelStopForClose
  BY <1>2, CancelDeals DEF CancelStopForClose
<1>3. CASE BookClose
  BY <1>3 DEF BookClose, Dealing
<1>4. CASE SubmitClose \/ CloseRaises
  <2>1. \/ UNCHANGED <<orders, lastOrder, net, liquidation>>
        \/ /\ SubmitRaises("exit", cur, ContractOf[cur], -rec[cur].qty)
           /\ UNCHANGED <<net, liquidation>>
    BY <1>4 DEF SubmitClose, CloseRaises, SubmitRaises
  <2>2. QED BY <1>1, <2>1, OpenSells, RaisesDeals DEF Kinds, Dealing
<1>5. QED BY <1>2, <1>3, <1>4 DEF ClosePosition

LEMMA ReconcilePositionsDeals == ASSUME ReconcilePositions PROVE Dealing
BY DEF ReconcilePositions, SkipReconcile, FindGhosts, GhostsDone, Goto, StartLoop, DeferGhost,
       BookManualGhost, BookGhost, BookGhostBlind, Dealing, account

LEMMA SurroundingsDeals == ASSUME IInv, Surroundings PROVE Dealing
<1> USE DEF account
<1>0. disturbed \in Nat /\ days \in Nat
  BY DEF IInv, TypeOK
<1>1. CASE AccountMoves
  <2>1. Disturb => disturbed' # 0
    BY <1>0 DEF Disturb
  <2>2. CASE \/ \E i \in OrderIds : Fill(i) \/ CancelSettles(i)
             \/ \E c \in Contracts : LiquidationFills(c)
    BY <2>2 DEF Moves, Dealing
  <2>3. CASE Disturb /\ (\/ \E i \in OrderIds : ExchangeRejects(i)
                         \/ \E c \in Contracts : ClosedByHand(c))
    BY <2>1, <2>3 DEF Moves, Dealing
  <2>4. QED BY <1>1, <2>2, <2>3 DEF AccountMoves
<1>2. CASE NextSession
  <2>1. days' # 0
    BY <1>0, <1>2 DEF NextSession
  <2>2. QED BY <1>2, <2>1 DEF NextSession, Moves, Dealing
<1>3. CASE Crash \/ Restart \/ PostArrives \/ CloseApproaches
           \/ \E s \in Signals : RequestManualClose(s)
  BY <1>3 DEF Crash, Restart, PostArrives, CloseApproaches, RequestManualClose, Dealing
<1>4. QED BY <1>1, <1>2, <1>3 DEF Surroundings

LEMMA StepDeals == ASSUME IInv, Sells, Purchases, [Next]_vars PROVE Dealing
<1>1. CASE StartTick \/ UNCHANGED vars
  BY <1>1 DEF StartTick, Goto, vars, account, Dealing
<1>2. QED
  BY <1>1, HandlePostsDeals, HandleManualClosesDeals, FlattenAtCloseDeals,
     AdvancePositionsDeals, ClosePositionDeals, ReconcilePositionsDeals, SurroundingsDeals
  DEF Next, Tick, Surroundings

\* An order that was handed out stays the same deal: only its status moves, it stays
\* filled once it is, and it fills in a step of the account.
SameDeal(i) ==
    /\ orders'[i].kind = orders[i].kind /\ orders'[i].owner = orders[i].owner
    /\ orders'[i].contract = orders[i].contract /\ orders'[i].delta = orders[i].delta
    /\ orders[i].status # "unused" => orders'[i].status # "unused"
    /\ Filled(i) => Filled(i)'
    /\ Filled(i)' => Filled(i) \/ Fill(i)

LEMMA StatusDeal ==
    ASSUME AccountTypeOK, NEW i \in OrderIds, NEW st \in Statuses \ {"unused"},
           orders'[i] = WithStatus(orders[i], st), Live(i), st = "filled" => Fill(i)
    PROVE  SameDeal(i)
BY DEF SameDeal, WithStatus, Filled, Live, LiveStatuses

LEMMA UntouchedDeal ==
    ASSUME NEW i, orders'[i] = orders[i] PROVE SameDeal(i)
BY DEF SameDeal, Filled

LEMMA RequestKeepsDeals ==
    ASSUME AccountTypeOK, Sweep \/ \E j : Cancel(j)
    PROVE  \A i \in OrderIds : SameDeal(i)
<1> SUFFICES ASSUME NEW i \in OrderIds PROVE SameDeal(i)
  OBVIOUS
<1>1. \/ orders'[i] = orders[i]
      \/ Live(i) /\ \E st \in {"dead", "pending_cancel"} : orders'[i] = WithStatus(orders[i], st)
  BY DEF Sweep, Cancel, CancelRequested, CancelAllRequested, CloseAllRequested, Live,
         AccountTypeOK
<1>2. QED BY <1>1, StatusDeal, UntouchedDeal DEF Statuses

LEMMA MoveKeepsDeals ==
    ASSUME AccountTypeOK, Moves PROVE \A i \in OrderIds : SameDeal(i)
<1> SUFFICES ASSUME NEW i \in OrderIds PROVE SameDeal(i)
  OBVIOUS
<1>1. ASSUME NEW j \in OrderIds, Fill(j) PROVE SameDeal(i)
  <2>1. CASE i = j
    <3>1. Live(i) /\ orders'[i] = WithStatus(orders[i], "filled")
      BY <1>1, <2>1 DEF Fill, AccountTypeOK
    <3>2. QED BY <1>1, <2>1, <3>1, StatusDeal DEF Statuses
  <2>2. CASE i # j
    BY <1>1, <2>2, UntouchedDeal DEF Fill, AccountTypeOK
  <2>3. QED BY <2>1, <2>2
<1>2. ASSUME \/ \E j \in OrderIds : CancelSettles(j) \/ ExchangeRejects(j)
             \/ \E c \in Contracts : LiquidationFills(c) \/ ClosedByHand(c)
             \/ OrdersExpire
      PROVE  SameDeal(i)
  <2>1. orders'[i] = orders[i] \/ (Live(i) /\ orders'[i] = WithStatus(orders[i], "dead"))
    BY <1>2 DEF CancelSettles, ExchangeRejects, LiquidationFills, ClosedByHand, OrdersExpire,
                Live, LiveStatuses, AccountTypeOK
  <2>2. QED BY <2>1, StatusDeal, UntouchedDeal DEF Statuses
<1>3. QED BY <1>1, <1>2 DEF Moves

LEMMA UsedOrders ==
    ASSUME IInv, Sells, NEW i \in OrderIds, orders[i].status # "unused"
    PROVE  i \in 1 .. lastOrder
<1>1. lastOrder \in Nat /\ i \in Nat \ {0}
  BY BrokerAssumption DEF IInv, TypeOK, AccountTypeOK, OrderIds
<1>2. ~(i > lastOrder)
  BY DEF Sells, OrdersHaveOwners
<1>3. QED BY <1>1, <1>2

NewSale(i) ==
    /\ orders'[i].kind # "entry" /\ orders'[i].delta < 0
    /\ orders'[i].owner \in Bought
NewPurchase(i) ==
    /\ orders'[i].kind = "entry" /\ orders'[i].delta = 1
    /\ orders'[i].owner = handled + 1

\* What a step does to the orders: it keeps every deal and makes at most one.
LEMMA DealsMade ==
    ASSUME IInv, Sells, Purchases, Dealing
    PROVE  /\ \A i \in 1 .. lastOrder : SameDeal(i) /\ i \in 1 .. lastOrder'
           /\ \/ lastOrder' = lastOrder
              \/ /\ lastOrder' = lastOrder + 1 /\ orders'[lastOrder + 1].status = "new"
                 /\ NewSale(lastOrder + 1) \/ NewPurchase(lastOrder + 1)
<1>1. /\ AccountTypeOK /\ lastOrder \in Nat /\ handled \in Nat
      /\ \A i \in 1 .. lastOrder : i \in OrderIds /\ i # NextId
  BY NamedOrders DEF IInv, TypeOK, AccountTypeOK, NextId
<1>2. CASE \E s, kind, q : Sale(s, kind, q)
  <2>1. PICK s, kind, q : Sale(s, kind, q)
    BY <1>2
  <2>2. /\ lastOrder' = lastOrder + 1 /\ NextId = lastOrder + 1 /\ NextId \in OrderIds
        /\ orders'[NextId] = [kind |-> kind, owner |-> s, contract |-> ContractOf[s],
                              delta |-> -q, status |-> "new"]
        /\ \A i \in OrderIds \ {NextId} : orders'[i] = orders[i]
    BY <1>1, <2>1, SubmitHanded DEF Sale, Submit, NextId, AccountTypeOK, Handed
  <2>3. NewSale(lastOrder + 1) /\ orders'[lastOrder + 1].status = "new"
    BY <2>1, <2>2 DEF Sale, NewSale
  <2>4. QED BY <1>1, <2>2, <2>3, UntouchedDeal
<1>3. CASE Purchase
  <2>1. /\ lastOrder' = lastOrder + 1 /\ NextId = lastOrder + 1 /\ NextId \in OrderIds
        /\ orders'[NextId] = [kind |-> "entry", owner |-> handled + 1,
                              contract |-> ContractOf[handled + 1],
                              delta |-> 1, status |-> "new"]
        /\ \A i \in OrderIds \ {NextId} : orders'[i] = orders[i]
    BY <1>1, <1>3, SubmitHanded DEF Purchase, Submit, NextId, AccountTypeOK, Handed
  <2>2. NewPurchase(lastOrder + 1) /\ orders'[lastOrder + 1].status = "new"
    BY <2>1 DEF NewPurchase
  <2>3. QED BY <1>1, <2>1, <2>2, UntouchedDeal
<1>4. ASSUME NEW j, Ratchet(j) PROVE
           /\ \A i \in 1 .. lastOrder : SameDeal(i) /\ i \in 1 .. lastOrder'
           /\ lastOrder' = lastOrder + 1 /\ orders'[lastOrder + 1].status = "new"
           /\ NewSale(lastOrder + 1)
  <2>1. /\ j \in 1 .. lastOrder /\ j \in OrderIds /\ orders[j].kind = "stop"
        /\ orders[j].status = "new" /\ lastOrder' = lastOrder + 1
        /\ NextId = lastOrder + 1 /\ NextId \in OrderIds
        /\ orders' = [orders EXCEPT ![j] = WithStatus(@, "dead"), ![NextId] = orders[j]]
    BY <1>1, <1>4, ReplaceTyped DEF Ratchet, Replace, NextId
  <2>2. /\ orders'[NextId] = orders[j]
        /\ orders'[j] = WithStatus(orders[j], "dead")
        /\ \A i \in OrderIds \ {j, NextId} : orders'[i] = orders[i]
    BY <1>1, <2>1 DEF AccountTypeOK
  <2>3. NewSale(lastOrder + 1) /\ orders'[lastOrder + 1].status = "new"
    <3>1. /\ orders[j].delta < 0 /\ orders[j].owner \in Bought
      BY <1>1, <2>1, OwnersAreSignals DEF Purchases, Deals, Sells
    <3>2. QED BY <2>1, <2>2, <3>1 DEF NewSale
  <2>4. SameDeal(j)
    <3>1. Live(j) /\ "dead" \in Statuses \ {"unused"} /\ "dead" # "filled"
      BY <2>1 DEF Live, LiveStatuses, Statuses
    <3>2. QED BY <1>1, <2>1, <2>2, <3>1, StatusDeal
  <2>5. ASSUME NEW i \in 1 .. lastOrder PROVE SameDeal(i) /\ i \in 1 .. lastOrder'
    <3>1. CASE i = j BY <1>1, <2>1, <2>4, <3>1
    <3>2. CASE i # j
      <4>1. orders'[i] = orders[i]
        BY <1>1, <2>2, <3>2
      <4>2. SameDeal(i)
        BY <4>1, UntouchedDeal
      <4>3. QED BY <1>1, <2>1, <4>2
    <3>3. QED BY <3>1, <3>2
  <2>6. QED BY <2>1, <2>3, <2>5
<1>5. CASE UNCHANGED account
  BY <1>5, UntouchedDeal DEF account
<1>6. CASE Sweep /\ UNCHANGED <<lastOrder, net>>
  BY <1>1, <1>6, RequestKeepsDeals
<1>7. CASE \E j : Cancel(j)
  BY <1>1, <1>7, RequestKeepsDeals DEF Cancel
<1>8. CASE Moves
  BY <1>1, <1>8, MoveKeepsDeals, MovesKept DEF Moves, Kept
<1>9. QED BY <1>2, <1>3, <1>4, <1>5, <1>6, <1>7, <1>8 DEF Dealing

LEMMA StillBought ==
    ASSUME IInv, Sells, Purchases, Dealing PROVE Bought \subseteq Bought'
<1> SUFFICES ASSUME NEW s \in Bought PROVE s \in Bought'
  OBVIOUS
<1>1. PICK i \in OrderIds : Filled(i) /\ orders[i].kind = "entry" /\ orders[i].owner = s
  BY DEF Bought
<1>2. i \in 1 .. lastOrder
  BY <1>1, UsedOrders DEF Filled
<1>3. SameDeal(i)
  BY <1>2, DealsMade
<1>4. QED BY <1>1, <1>3 DEF SameDeal, Bought

LEMMA DealsPreserved ==
    ASSUME IInv, Sells, Purchases, Dealing PROVE Deals'
<1> USE DEF Purchases
<1>1. /\ lastOrder \in Nat /\ handled \in Nat /\ AccountTypeOK
      /\ \A i \in 1 .. lastOrder : orders[i].owner \in Signals /\ orders[i].owner <= handled
  BY OwnersAreSignals DEF IInv, TypeOK, AccountTypeOK, Sells
<1>2. /\ \A i \in 1 .. lastOrder : SameDeal(i)
      /\ \/ lastOrder' = lastOrder
         \/ /\ lastOrder' = lastOrder + 1 /\ orders'[lastOrder + 1].status = "new"
            /\ NewSale(lastOrder + 1) \/ NewPurchase(lastOrder + 1)
  BY DealsMade
<1>3. ASSUME NEW i \in 1 .. lastOrder
      PROVE  /\ orders'[i].status # "unused"
             /\ orders'[i].kind = "entry" => orders'[i].delta = 1
             /\ orders'[i].kind # "entry" => orders'[i].delta < 0 /\ orders'[i].owner \in Bought'
  <2>1. SameDeal(i)
    BY <1>2
  <2>2. orders[i].kind # "entry" => orders[i].owner \in Bought
    BY DEF Deals
  <2>3. QED BY <2>1, <2>2, StillBought DEF SameDeal, Deals
\* The signal of a new entry has no order yet.
<1>4. lastOrder' # lastOrder =>
          LET n == lastOrder + 1 IN
          /\ orders'[n].status # "unused"
          /\ orders'[n].kind = "entry" => orders'[n].delta = 1
          /\ orders'[n].kind # "entry" => orders'[n].delta < 0 /\ orders'[n].owner \in Bought'
          /\ \A i \in 1 .. lastOrder :
                 orders'[n].kind = "entry" => orders'[n].owner # orders'[i].owner
  <2>1. ASSUME NewSale(lastOrder + 1)
        PROVE  orders'[lastOrder + 1].owner \in Bought'
    BY <2>1, StillBought DEF NewSale
  <2>2. ASSUME NewPurchase(lastOrder + 1), NEW i \in 1 .. lastOrder
        PROVE  orders'[lastOrder + 1].owner # orders'[i].owner
    <3>1. orders'[i].owner = orders[i].owner /\ orders[i].owner <= handled
          /\ orders[i].owner \in Nat
      BY <1>1, <1>2 DEF SameDeal, Signals
    <3>2. QED BY <1>1, <2>2, <3>1 DEF NewPurchase
  <2>3. QED BY <1>2, <2>1, <2>2 DEF NewSale, NewPurchase
<1>5. QED
  <2>1. CASE lastOrder' = lastOrder
    <3>1. \A i, j \in 1 .. lastOrder :
              orders'[i].kind = "entry" /\ orders'[j].kind = "entry"
                  /\ orders'[i].owner = orders'[j].owner => i = j
      BY <1>2 DEF SameDeal, Deals
    <3>2. QED BY <1>3, <2>1, <3>1 DEF Deals
  <2>2. CASE lastOrder' = lastOrder + 1
    <3>1. \A i, j \in 1 .. lastOrder :
              orders'[i].kind = "entry" /\ orders'[j].kind = "entry"
                  /\ orders'[i].owner = orders'[j].owner => i = j
      BY <1>2 DEF SameDeal, Deals
    <3>2. \A i \in 1 .. lastOrder' : i \in 1 .. lastOrder \/ i = lastOrder + 1
      BY <1>1, <2>2
    <3>3. QED BY <1>1, <1>3, <1>4, <2>2, <3>1, <3>2 DEF Deals
  <2>3. QED BY <1>2, <2>1, <2>2

\* A step that tracks and takes nothing new.
LEMMA BoughtKept ==
    ASSUME Purchases, Bought \subseteq Bought', open' \subseteq open,
           \A s \in open' : rec'[s].qty = rec[s].qty, UNCHANGED taken,
           \A s \in Signals : trades'[s] = trades[s] \/ s \in open,
           pc' \in {"entryStop", "entryTrack", "entryTaken"} => UNCHANGED <<pc, cur, open>>
    PROVE  BoughtFirst'
BY DEF Purchases, BoughtFirst

LEMMA RecordExternalCloseBought ==
    ASSUME IInv, Purchases, Bought \subseteq Bought', NEW s \in open, NEW reason,
           RecordExternalClose(s, reason),
           pc \in {"poll", "advance", "ghosts"}, UNCHANGED pc
    PROVE  BoughtFirst'
<1>1. /\ open' = open \ {s} /\ UNCHANGED taken
      /\ \A t \in open' : rec'[t].qty = rec[t].qty
      /\ \A t \in Signals : trades'[t] = trades[t] \/ t \in open
  BY DEF RecordExternalClose, Forget, AppendTrade, IInv, TypeOK
<1>2. QED BY <1>1, BoughtKept

LEMMA HandlePostsBought ==
    ASSUME IInv, Guards, Purchases, Bought \subseteq Bought', HandlePosts PROVE BoughtFirst'
<1> USE DEF memory, journal, thread
<1>1. CASE RejectPost \/ SubmitEntry \/ SubmitEntryRaises \/ EntryNotFilled \/ CancelEntry
           \/ PostHandlerCrash \/ PostsDrained
  <2>1. /\ UNCHANGED <<open, rec, taken, trades>>
        /\ pc' \notin {"entryStop", "entryTrack", "entryTaken"}
    BY <1>1
    DEF RejectPost, SubmitEntry, SubmitEntryRaises, EntryNotFilled, CancelEntry,
        PostHandlerCrash, PostsDrained, Goto
  <2>2. QED BY <2>1, BoughtKept
<1>2. CASE EntryFilled
  <2>1. /\ pc = "entryWait" /\ pc' = "entryStop" /\ Filled(oid)
        /\ UNCHANGED <<cur, open, rec, taken, trades>>
    BY <1>2 DEF EntryFilled, Goto
  <2>2. cur \in Bought
    <3>1. /\ oid \in OrderIds /\ orders[oid].owner = cur /\ orders[oid].kind = "entry"
      BY <2>1 DEF Guards, Marks
    <3>2. cur \in Signals
      BY <2>1 DEF IInv, Rows, CurrentSignal, EntryPoints
    <3>3. QED BY <2>1, <3>1, <3>2 DEF Bought
  <2>3. QED BY <2>1, <2>2 DEF Purchases, BoughtFirst
<1>3. CASE PlaceStop
  BY <1>3 DEF PlaceStop, Purchases, BoughtFirst
<1>4. CASE TrackPosition
  <2>1. /\ pc = "entryTrack" /\ pc' = "entryTaken" /\ open' = open \union {cur}
        /\ rec' = [rec EXCEPT ![cur] = [stop |-> oid, manual |-> NoOrder,
                                        closing |-> FALSE, qty |-> 1]]
        /\ UNCHANGED <<cur, taken, trades>>
    BY <1>4 DEF TrackPosition
  <2>2. \A s \in open' : rec'[s].qty = rec[s].qty \/ rec'[s].qty = 1
    BY <2>1 DEF IInv, TypeOK
  <2>3. \A s \in open' \ {cur} : rec'[s].qty = rec[s].qty
    BY <2>1 DEF IInv, TypeOK
  <2>4. rec'[cur].qty = 1
    BY <2>1 DEF IInv, TypeOK, Rows, CurrentSignal, EntryPoints
  <2>5. QED BY <2>1, <2>3, <2>4 DEF Purchases, BoughtFirst
<1>5. CASE MarkTaken
  <2>1. /\ pc = "entryTaken" /\ pc' = "posts" /\ taken' = [taken EXCEPT ![cur] = TRUE]
        /\ UNCHANGED <<open, rec, trades>>
    BY <1>5 DEF MarkTaken
  <2>2. \A s \in Signals : taken'[s] => taken[s] \/ s = cur
    BY <2>1 DEF IInv, TypeOK
  <2>3. QED BY <2>1, <2>2 DEF Purchases, BoughtFirst
<1>6. QED BY <1>1, <1>2, <1>3, <1>4, <1>5 DEF HandlePosts

LEMMA HandleManualClosesBought ==
    ASSUME IInv, Purchases, Bought \subseteq Bought', HandleManualCloses PROVE BoughtFirst'
<1> USE DEF memory, journal, thread
<1>1. CASE DropManualClose \/ CancelStopForManualClose \/ SubmitManualSell \/ ManualCloseFails
           \/ ManualQueueDrained \/ PollDone
  <2>1. /\ UNCHANGED <<open, taken, trades>>
        /\ pc' \notin {"entryStop", "entryTrack", "entryTaken"}
    BY <1>1
    DEF DropManualClose, CancelStopForManualClose, SubmitManualSell, ManualCloseFails,
        ManualQueueDrained, PollDone, Goto, StartLoop
  <2>2. \/ rec' = rec \/ rec' = [rec EXCEPT ![Head(manualQueue)].stop = NoOrder]
        \/ rec' = [rec EXCEPT ![cur].manual = NextId]
        \/ rec' = [rec EXCEPT ![cur].closing = FALSE, ![cur].manual = NoOrder]
    BY <1>1
    DEF DropManualClose, CancelStopForManualClose, SubmitManualSell, ManualCloseFails,
        ManualQueueDrained, PollDone, Goto, StartLoop
  <2>3. \A s \in Signals : rec'[s].qty = rec[s].qty
    <3>1. rec \in [Signals -> Record]
      BY DEF IInv, TypeOK
    <3>2. QED BY <2>2, <3>1 DEF Record
  <2>4. QED BY <2>1, <2>3, BoughtKept DEF IInv, TypeOK
<1>2. ASSUME NEW s \in Signals, ManualFillPending(s) PROVE BoughtFirst'
  BY <1>2, BoughtKept DEF ManualFillPending
<1>3. ASSUME NEW s \in Signals, BookManualFill(s) PROVE BoughtFirst'
  <2>1. s \in open
    BY <1>3 DEF BookManualFill, IInv, Rows, LoopOverOpen
  <2>2. QED BY <1>3, <2>1, RecordExternalCloseBought DEF BookManualFill
<1>4. QED BY <1>1, <1>2, <1>3 DEF HandleManualCloses

LEMMA FlattenAtCloseBought ==
    ASSUME Purchases, Bought \subseteq Bought', FlattenAtClose PROVE BoughtFirst'
<1> USE DEF memory, journal, thread
<1>1. /\ UNCHANGED <<open, rec, taken, trades>>
      /\ pc' \notin {"entryStop", "entryTrack", "entryTaken"}
  BY DEF FlattenAtClose, BeforeClose, NothingToFlatten, StartFlatten, AllFlattened, CancelAll,
         CloseAll, FlattenFails, FlattenOne, Goto, StartLoop
<1>2. QED BY <1>1, BoughtKept

LEMMA AdvancePositionsBought ==
    ASSUME IInv, Purchases, Bought \subseteq Bought', AdvancePositions PROVE BoughtFirst'
<1> USE DEF memory, journal, thread
<1>1. CASE Hold \/ RaiseStop \/ ReplaceStop \/ ReplaceRefused \/ ResubmitStop
           \/ ResubmitStopRaises \/ ExitPosition \/ AdvanceDone
  <2>1. /\ UNCHANGED <<open, taken, trades>>
        /\ rec' = rec \/ rec' = [rec EXCEPT ![cur].stop = NextId]
        /\ pc' \notin {"entryStop", "entryTrack", "entryTaken"}
    BY <1>1
    DEF Hold, RaiseStop, ReplaceStop, ReplaceRefused, ResubmitStop, ResubmitStopRaises,
        ExitPosition, AdvanceDone, Goto
  <2>2. \A s \in open : rec'[s].qty = rec[s].qty
    <3>1. open \subseteq Signals /\ rec \in [Signals -> Record]
      BY DEF IInv, TypeOK
    <3>2. CASE rec' = [rec EXCEPT ![cur].stop = NextId]
      BY <3>1, <3>2 DEF Record
    <3>3. QED BY <2>1, <3>2
  <2>3. QED BY <2>1, <2>2, BoughtKept
<1>2. ASSUME NEW s \in Signals, SkipClosing(s) \/ LookAtPosition(s) PROVE BoughtFirst'
  BY <1>2, BoughtKept DEF SkipClosing, LookAtPosition
<1>3. ASSUME NEW s \in Signals, BookStopFill(s) PROVE BoughtFirst'
  <2>1. s \in open
    BY <1>3 DEF BookStopFill, IInv, Rows, LoopOverOpen
  <2>2. QED BY <1>3, <2>1, RecordExternalCloseBought DEF BookStopFill
<1>4. QED BY <1>1, <1>2, <1>3 DEF AdvancePositions

LEMMA ClosePositionBought ==
    ASSUME IInv, Purchases, Bought \subseteq Bought', ClosePosition PROVE BoughtFirst'
<1> USE DEF memory, journal, thread
<1>1. CASE CancelStopForClose \/ SubmitClose \/ CloseRaises
  <2>1. /\ UNCHANGED <<open, rec, taken, trades>>
        /\ pc' \notin {"entryStop", "entryTrack", "entryTaken"}
    BY <1>1 DEF CancelStopForClose, SubmitClose, CloseRaises
  <2>2. QED BY <2>1, BoughtKept
<1>2. CASE BookClose
  <2>1. cur \in open
    BY <1>2, CurrentOpen DEF BookClose, ClosePoints
  <2>2. /\ open' = open \ {cur} /\ UNCHANGED taken
        /\ \A t \in open' : rec'[t].qty = rec[t].qty
        /\ \A t \in Signals : trades'[t] = trades[t] \/ t \in open
        /\ pc' \notin {"entryStop", "entryTrack", "entryTaken"}
    BY <1>2, <2>1 DEF BookClose, Forget, AppendTrade, IInv, TypeOK
  <2>3. QED BY <2>2, BoughtKept
<1>3. QED BY <1>1, <1>2 DEF ClosePosition

LEMMA ReconcilePositionsBought ==
    ASSUME IInv, Purchases, Bought \subseteq Bought', ReconcilePositions PROVE BoughtFirst'
<1> USE DEF memory, journal, thread
<1>1. CASE SkipReconcile \/ FindGhosts \/ GhostsDone \/ \E s \in Signals : DeferGhost(s)
  <2>1. /\ UNCHANGED <<open, rec, taken, trades>>
        /\ pc' \notin {"entryStop", "entryTrack", "entryTaken"}
    BY <1>1 DEF SkipReconcile, FindGhosts, GhostsDone, Goto, StartLoop, DeferGhost
  <2>2. QED BY <2>1, BoughtKept
<1>2. ASSUME NEW s \in Signals, BookManualGhost(s) \/ BookGhost(s) \/ BookGhostBlind(s)
      PROVE  BoughtFirst'
  <2>1. s \in open
    BY <1>2 DEF BookManualGhost, BookGhost, BookGhostBlind, IInv, Rows, LoopOverOpen
  <2>2. CASE BookManualGhost(s) \/ BookGhost(s)
    BY <2>1, <2>2, RecordExternalCloseBought DEF BookManualGhost, BookGhost
  <2>3. CASE BookGhostBlind(s)
    <3>1. /\ open' = open \ {s} /\ UNCHANGED <<taken, pc>> /\ pc = "ghosts"
          /\ \A t \in open' : rec'[t].qty = rec[t].qty
          /\ \A t \in Signals : trades'[t] = trades[t] \/ t \in open
      BY <2>1, <2>3 DEF BookGhostBlind, Forget, AppendTrade, IInv, TypeOK
    <3>2. QED BY <3>1, BoughtKept
  <2>4. QED BY <1>2, <2>2, <2>3
<1>3. QED BY <1>1, <1>2 DEF ReconcilePositions

LEMMA SurroundingsBought ==
    ASSUME IInv, IInv', Purchases, Bought \subseteq Bought', Surroundings PROVE BoughtFirst'
<1> USE DEF memory, journal, thread
<1>1. ASSUME NEW s \in Signals, RequestManualClose(s) PROVE BoughtFirst'
  <2>1. \A t \in open : rec'[t].qty = rec[t].qty
    BY <1>1 DEF RequestManualClose, IInv, TypeOK, Record
  <2>2. QED BY <1>1, <2>1, BoughtKept DEF RequestManualClose
<1>2. CASE Crash
  BY <1>2, BoughtKept DEF Crash
\* What is adopted was taken, and the account holds some of it.
<1>3. CASE Restart
  <2>1. /\ pc' = "idle" /\ open' \subseteq Adoptable /\ UNCHANGED <<taken, trades>>
        /\ \A s \in open' : rec'[s].qty = AbsInt(net[ContractOf[s]])
    BY <1>3 DEF Restart, Adoptable
  <2>2. \A s \in open' : s \in Signals /\ taken[s] /\ net[ContractOf[s]] # 0
    BY <2>1 DEF Adoptable, Unclosed
  <2>3. \A s \in open' : rec'[s].qty >= 1
    <3>1. ASSUME NEW s \in open' PROVE net[ContractOf[s]] \in Int \ {0}
      BY <2>2, <3>1, BookAssumption DEF IInv, TypeOK, AccountTypeOK
    <3>2. \A n \in Int \ {0} : AbsInt(n) >= 1
      BY DEF AbsInt
    <3>3. QED BY <2>1, <3>1, <3>2
  <2>4. QED BY <2>1, <2>2, <2>3 DEF Purchases, BoughtFirst
<1>4. CASE PostArrives \/ AccountMoves \/ CloseApproaches \/ NextSession
  <2>1. UNCHANGED <<pc, cur, open, rec, taken, trades>>
    BY <1>4 DEF PostArrives, AccountMoves, CloseApproaches, NextSession
  <2>2. QED BY <2>1, BoughtKept
<1>5. QED BY <1>1, <1>2, <1>3, <1>4 DEF Surroundings

LEMMA PurchasesPreserved ==
    ASSUME IInv, IInv', Sells, Guards, Purchases, [Next]_vars PROVE Purchases'
<1>1. Dealing
  BY StepDeals
<1>2. Deals' /\ Bought \subseteq Bought'
  BY <1>1, DealsPreserved, StillBought
<1>3. CASE StartTick \/ UNCHANGED vars
  <2>1. /\ UNCHANGED <<open, rec, taken, trades>>
        /\ pc' \in {"entryStop", "entryTrack", "entryTaken"} => UNCHANGED <<pc, cur>>
    BY <1>3 DEF StartTick, Goto, vars, memory, journal, thread
  <2>2. QED BY <1>2, <2>1, BoughtKept DEF Purchases
<1>4. QED
  BY <1>2, <1>3, HandlePostsBought, HandleManualClosesBought, FlattenAtCloseBought,
     AdvancePositionsBought, ClosePositionBought, ReconcilePositionsBought, SurroundingsBought
  DEF Next, Tick, Surroundings, Purchases

LEMMA InitPurchases == Init => Purchases
BY DEF Init, AccountInit, Purchases, Deals, BoughtFirst

-----------------------------------------------------------------------------
(* What a restart finds.  A signal whose trade is neither tracked nor booked has  *)
(* nothing left on the account, and nothing pending there that could bring some   *)
(* back.                                                                          *)

LEMMA CountersGrow ==
    ASSUME IInv, [Next]_vars
    PROVE  /\ disturbed' = 0 => disturbed = 0
           /\ Calm' => Calm
<1>1. /\ disturbed' = disturbed \/ disturbed' = disturbed + 1
      /\ crashes' = crashes \/ crashes' = crashes + 1
      /\ days' = days \/ days' = days + 1
  BY DEF counters, Disturb,
      Next, Tick, StartTick, Goto, StartLoop, CancelOrder, RecordExternalClose,
      HandlePosts, RejectPost, SubmitEntry, SubmitEntryRaises, EntryFilled, EntryNotFilled,
      CancelEntry, PlaceStop, TrackPosition, MarkTaken, PostHandlerCrash, PostsDrained,
      HandleManualCloses, DropManualClose, CancelStopForManualClose, SubmitManualSell,
      ManualCloseFails, ManualQueueDrained, BookManualFill, ManualFillPending, PollDone,
      FlattenAtClose, BeforeClose, NothingToFlatten, StartFlatten, AllFlattened, CancelAll,
      CloseAll, FlattenFails, FlattenOne, AdvancePositions, Hold, RaiseStop, ReplaceStop,
      ReplaceRefused, ResubmitStop, ResubmitStopRaises, ExitPosition, AdvanceDone,
      SkipClosing, BookStopFill, LookAtPosition, ClosePosition, CancelStopForClose,
      SubmitClose, BookClose, CloseRaises, ReconcilePositions, SkipReconcile, FindGhosts,
      GhostsDone, DeferGhost, BookManualGhost, BookGhost, BookGhostBlind,
      RequestManualClose, Crash, Restart, PostArrives, AccountMoves, CloseApproaches,
      NextSession, vars
<1>2. {disturbed, crashes, days} \subseteq Nat
  BY DEF IInv, TypeOK
<1>3. QED BY <1>1, <1>2 DEF Calm, Undisturbed

\* What a step does to one contract, unless somebody closes it by hand.
Money(c) ==
    \/ net'[c] = net[c] /\ liquidation'[c] = liquidation[c]
    \/ \E i \in 1 .. lastOrder :
           /\ Fill(i) /\ orders[i].contract = c
           /\ net'[c] = net[c] + orders[i].delta /\ liquidation'[c] = liquidation[c]
    \/ net'[c] = net[c] + liquidation[c] /\ liquidation'[c] = 0
    \/ /\ net'[c] = net[c] /\ liquidation'[c] = 0
       /\ pc' = "closeAll" \/ days' # 0
    \/ net'[c] = net[c] /\ liquidation'[c] = -net[c]

LEMMA MoneyMoves ==
    ASSUME IInv, Sells, Dealing, disturbed' = 0, NEW c \in Contracts PROVE Money(c)
<1>1. AccountTypeOK
  BY DEF IInv, TypeOK
<1>2. CASE UNCHANGED <<net, liquidation>>
  BY <1>2 DEF Money
<1>3. CASE Sweep /\ UNCHANGED <<lastOrder, net>>
  BY <1>3 DEF Sweep, CancelAllRequested, CloseAllRequested, Money
<1>4. ASSUME NEW i \in OrderIds, Fill(i) PROVE Money(c)
  <2>1. /\ net' = [net EXCEPT ![orders[i].contract] = @ + orders[i].delta]
        /\ UNCHANGED liquidation /\ orders[i].status # "unused"
    BY <1>4 DEF Fill, Live, LiveStatuses
  <2>2. i \in 1 .. lastOrder
    BY <2>1, UsedOrders
  <2>3. CASE orders[i].contract = c
    <3>1. net'[c] = net[c] + orders[i].delta
      BY <1>1, <2>1, <2>3 DEF AccountTypeOK
    <3>2. QED BY <1>4, <2>1, <2>2, <2>3, <3>1 DEF Money
  <2>4. CASE orders[i].contract # c
    BY <1>1, <2>1, <2>4 DEF AccountTypeOK, Money
  <2>5. QED BY <2>3, <2>4
<1>5. ASSUME NEW d \in Contracts, LiquidationFills(d) PROVE Money(c)
  BY <1>1, <1>5 DEF LiquidationFills, AccountTypeOK, Money
<1>6. CASE OrdersExpire /\ days' # 0
  BY <1>6 DEF OrdersExpire, Money
<1>7. CASE \E i \in OrderIds : CancelSettles(i) \/ ExchangeRejects(i)
  BY <1>2, <1>7 DEF CancelSettles, ExchangeRejects
<1>8. QED
  BY <1>2, <1>3, <1>4, <1>5, <1>6, <1>7
  DEF Dealing, Moves, Sale, Purchase, Ratchet, Cancel, account

LEMMA AloneBefore ==
    ASSUME IInv, Sells, Purchases, Dealing, NEW s \in Signals, HasContractAlone(s)'
    PROVE  HasContractAlone(s)
<1> SUFFICES ASSUME NEW i \in OrderIds, orders[i].status # "unused",
                    orders[i].contract = ContractOf[s]
             PROVE  orders[i].owner = s
  BY DEF HasContractAlone
<1>1. i \in 1 .. lastOrder
  BY UsedOrders
<1>2. SameDeal(i)
  BY <1>1, DealsMade
<1>3. QED BY <1>2 DEF SameDeal, HasContractAlone

\* On a contract a signal has alone, the entry fills first and sells fill after it.
LEMMA FillsAlone ==
    ASSUME IInv, Sells, Purchases, NEW s \in Signals, HasContractAlone(s),
           NEW i \in 1 .. lastOrder, Fill(i), orders[i].contract = ContractOf[s]
    PROVE  IF s \in Bought THEN orders[i].delta < 0 ELSE s \in Bought'
<1>1. /\ i \in OrderIds /\ Live(i) /\ orders[i].owner = s
      /\ orders' = [orders EXCEPT ![i] = WithStatus(@, "filled")]
  BY NamedOrders DEF Fill, Live, LiveStatuses, HasContractAlone
<1>2. CASE orders[i].kind = "entry"
  <2>1. s \in Bought'
    <3>1. orders'[i] = WithStatus(orders[i], "filled")
      BY <1>1 DEF IInv, TypeOK, AccountTypeOK
    <3>2. QED BY <1>1, <1>2, <3>1, WithStatusSame DEF Bought, Filled
  <2>2. s \notin Bought
    <3> SUFFICES ASSUME NEW j \in OrderIds, Filled(j), orders[j].kind = "entry",
                        orders[j].owner = s
                 PROVE  FALSE
      BY DEF Bought
    <3>1. j \in 1 .. lastOrder
      BY UsedOrders DEF Filled
    <3>2. j = i
      BY <1>1, <1>2, <3>1 DEF Purchases, Deals
    <3>3. QED BY <1>1, <3>2 DEF Live, LiveStatuses, Filled
  <2>3. QED BY <2>1, <2>2
<1>3. CASE orders[i].kind # "entry"
  BY <1>1, <1>3 DEF Purchases, Deals
<1>4. QED BY <1>2, <1>3

\* Nothing is held before the entry fills, and a liquidation never leaves contracts over.
Holding(s) ==
    IF s \in Bought
    THEN \/ liquidation[ContractOf[s]] <= 0
         \/ net[ContractOf[s]] + liquidation[ContractOf[s]] <= 0
    ELSE net[ContractOf[s]] = 0 /\ liquidation[ContractOf[s]] = 0

Flat(s) ==
    /\ net[ContractOf[s]] <= 0
    /\ net[ContractOf[s]] + liquidation[ContractOf[s]] <= 0

Holdings == disturbed = 0 => \A s \in Signals : HasContractAlone(s) => Holding(s)

Tracked ==
    disturbed = 0 /\ pc # "down" => \A s \in Signals :
        Unclosed(s) /\ HasContractAlone(s) => s \in open \/ Flat(s)

LEMMA Amounts ==
    ASSUME IInv, NEW s \in Signals
    PROVE  /\ ContractOf[s] \in Contracts
           /\ net[ContractOf[s]] \in Int /\ liquidation[ContractOf[s]] \in Int
           /\ \A i \in 1 .. lastOrder : orders[i].delta \in Int
<1>1. ContractOf[s] \in Contracts
  BY BookAssumption
<1>2. QED BY <1>1, NamedOrders DEF IInv, TypeOK, AccountTypeOK, Order

LEMMA HoldingKept ==
    ASSUME IInv, Sells, Purchases, Dealing, disturbed' = 0, NEW s \in Signals,
           HasContractAlone(s), Holding(s)
    PROVE  Holding(s)'
<1>1. PICK c \in Contracts : c = ContractOf[s]
  BY Amounts
<1>2. /\ net[c] \in Int /\ liquidation[c] \in Int
      /\ \A i \in 1 .. lastOrder : orders[i].delta \in Int
  BY <1>1, Amounts
<1>3. s \in Bought => s \in Bought'
  BY StillBought
<1>4. \A i \in 1 .. lastOrder : Fill(i) /\ orders[i].contract = c =>
          IF s \in Bought THEN orders[i].delta < 0 ELSE s \in Bought'
  BY <1>1, FillsAlone
<1>5. Money(c)
  BY MoneyMoves
<1>6. IF s \in Bought THEN liquidation[c] <= 0 \/ net[c] + liquidation[c] <= 0
      ELSE net[c] = 0 /\ liquidation[c] = 0
  BY <1>1 DEF Holding
<1>7. IF s \in Bought' THEN liquidation'[c] <= 0 \/ net'[c] + liquidation'[c] <= 0
      ELSE net'[c] = 0 /\ liquidation'[c] = 0
  BY <1>2, <1>3, <1>4, <1>5, <1>6 DEF Money
<1>8. QED BY <1>1, <1>7 DEF Holding

LEMMA FlatKept ==
    ASSUME IInv, Sells, Purchases, Dealing, disturbed' = 0, NEW s \in Bought,
           HasContractAlone(s), Flat(s)
    PROVE  Flat(s)'
<1>1. s \in Signals /\ \E c \in Contracts : c = ContractOf[s]
  BY Amounts DEF Bought
<1>2. PICK c \in Contracts : c = ContractOf[s]
  BY <1>1
<1>3. /\ net[c] \in Int /\ liquidation[c] \in Int
      /\ \A i \in 1 .. lastOrder : orders[i].delta \in Int
  BY <1>1, <1>2, Amounts
<1>4. \A i \in 1 .. lastOrder : Fill(i) /\ orders[i].contract = c => orders[i].delta < 0
  BY <1>1, <1>2, FillsAlone
<1>5. Money(c)
  BY MoneyMoves
<1>6. net[c] <= 0 /\ net[c] + liquidation[c] <= 0
  BY <1>2 DEF Flat
<1>7. net'[c] <= 0 /\ net'[c] + liquidation'[c] <= 0
  BY <1>3, <1>4, <1>5, <1>6 DEF Money
<1>8. QED BY <1>2, <1>7 DEF Flat

\* While the process lives and no call fails, a signal is dropped with its row only, and
\* is taken after it is tracked.
KeptTrack(s) == Unclosed(s)' => s \in open' \/ (s \notin open /\ Unclosed(s))

LEMMA BookedTrack ==
    ASSUME IInv, NEW s \in open, open' = open \ {s}, UNCHANGED taken,
           trades'[s] # <<>>, \A t \in Signals \ {s} : trades'[t] = trades[t]
    PROVE  \A t \in Signals : KeptTrack(t)
BY DEF KeptTrack, Unclosed

LEMMA SameTrack ==
    ASSUME UNCHANGED <<open, taken, trades>> PROVE \A t \in Signals : KeptTrack(t)
BY DEF KeptTrack, Unclosed

LEMMA AppendNotEmpty ==
    ASSUME IInv, NEW s \in Signals, NEW reason \in Reasons, AppendTrade(s, reason)
    PROVE  trades'[s] # <<>> /\ \A t \in Signals \ {s} : trades'[t] = trades[t]
<1>1. /\ trades'[s] = Append(trades[s], reason) /\ trades[s] \in Seq(Reasons)
      /\ \A t \in Signals \ {s} : trades'[t] = trades[t]
  BY DEF AppendTrade, IInv, TypeOK
<1>2. \A q \in Seq(Reasons) : Append(q, reason) # <<>>
  OBVIOUS
<1>3. QED BY <1>1, <1>2

LEMMA RecordExternalCloseTrack ==
    ASSUME IInv, disturbed' = 0, NEW s \in open, NEW reason \in Reasons,
           RecordExternalClose(s, reason)
    PROVE  \A t \in Signals : KeptTrack(t)
<1>1. s \in Signals /\ ~Disturb /\ open' = open \ {s} /\ UNCHANGED taken
  BY DEF RecordExternalClose, Forget, Disturb, IInv, TypeOK
<1>2. CASE trades[s] = <<>>
  BY <1>1, <1>2, AppendNotEmpty, BookedTrack DEF RecordExternalClose
<1>3. CASE trades[s] # <<>>
  BY <1>1, <1>3, BookedTrack DEF RecordExternalClose
<1>4. QED BY <1>2, <1>3

LEMMA StepTrack ==
    ASSUME IInv, Purchases, [Next]_vars, disturbed' = 0, pc # "down", pc' # "down"
    PROVE  \A t \in Signals : KeptTrack(t)
<1> USE DEF memory, journal
<1>0. ~Disturb
  BY DEF Disturb, IInv, TypeOK
<1>1. CASE HandlePosts
  <2>1. CASE TrackPosition
    BY <2>1 DEF TrackPosition, KeptTrack, Unclosed
  <2>2. CASE MarkTaken
    <3>1. /\ cur \in open /\ UNCHANGED <<open, trades>> /\ taken' = [taken EXCEPT ![cur] = TRUE]
      BY <2>2 DEF MarkTaken, Purchases, BoughtFirst
    <3>2. QED BY <3>1 DEF KeptTrack, Unclosed, IInv, TypeOK
  <2>3. CASE RejectPost \/ SubmitEntry \/ SubmitEntryRaises \/ EntryFilled \/ EntryNotFilled
             \/ CancelEntry \/ PlaceStop \/ PostHandlerCrash \/ PostsDrained
    BY <2>3, SameTrack
    DEF RejectPost, SubmitEntry, SubmitEntryRaises, EntryFilled, EntryNotFilled, CancelEntry,
        PlaceStop, PostHandlerCrash, PostsDrained, Goto
  <2>4. QED BY <1>1, <2>1, <2>2, <2>3 DEF HandlePosts
<1>2. CASE HandleManualCloses
  <2>1. ASSUME NEW s \in Signals, BookManualFill(s) PROVE \A t \in Signals : KeptTrack(t)
    <3>1. s \in open
      BY <2>1 DEF BookManualFill, IInv, Rows, LoopOverOpen
    <3>2. QED BY <2>1, <3>1, RecordExternalCloseTrack DEF BookManualFill, Reasons
  <2>2. CASE DropManualClose \/ CancelStopForManualClose \/ SubmitManualSell
             \/ ManualCloseFails \/ ManualQueueDrained \/ PollDone
             \/ \E s \in Signals : ManualFillPending(s)
    BY <2>2, SameTrack
    DEF DropManualClose, CancelStopForManualClose, SubmitManualSell, ManualCloseFails,
        ManualQueueDrained, PollDone, ManualFillPending, Goto, StartLoop
  <2>3. QED BY <1>2, <2>1, <2>2 DEF HandleManualCloses
<1>3. CASE FlattenAtClose
  BY <1>3, SameTrack
  DEF FlattenAtClose, BeforeClose, NothingToFlatten, StartFlatten, AllFlattened, CancelAll,
      CloseAll, FlattenFails, FlattenOne, Goto, StartLoop
<1>4. CASE AdvancePositions
  <2>1. ASSUME NEW s \in Signals, BookStopFill(s) PROVE \A t \in Signals : KeptTrack(t)
    <3>1. s \in open
      BY <2>1 DEF BookStopFill, IInv, Rows, LoopOverOpen
    <3>2. QED BY <2>1, <3>1, RecordExternalCloseTrack DEF BookStopFill, Reasons
  <2>2. CASE Hold \/ RaiseStop \/ ReplaceStop \/ ReplaceRefused \/ ResubmitStop
             \/ ResubmitStopRaises \/ ExitPosition \/ AdvanceDone
             \/ \E s \in Signals : SkipClosing(s) \/ LookAtPosition(s)
    BY <2>2, SameTrack
    DEF Hold, RaiseStop, ReplaceStop, ReplaceRefused, ResubmitStop, ResubmitStopRaises,
        ExitPosition, AdvanceDone, SkipClosing, LookAtPosition, Goto
  <2>3. QED BY <1>4, <2>1, <2>2 DEF AdvancePositions
<1>5. CASE ClosePosition
  <2>1. CASE BookClose
    <3>1. cur \in open /\ cur \in Signals
      BY <2>1, CurrentOpen DEF BookClose, ClosePoints
    <3>2. /\ open' = open \ {cur} /\ UNCHANGED taken
          /\ \E reason \in Reasons : AppendTrade(cur, reason)
      BY <2>1 DEF BookClose, Forget, Reasons
    <3>3. QED BY <3>1, <3>2, AppendNotEmpty, BookedTrack
  <2>2. CASE CancelStopForClose \/ SubmitClose \/ CloseRaises
    BY <2>2, SameTrack DEF CancelStopForClose, SubmitClose, CloseRaises
  <2>3. QED BY <1>5, <2>1, <2>2 DEF ClosePosition
<1>6. CASE ReconcilePositions
  <2>1. ASSUME NEW s \in Signals, BookManualGhost(s) \/ BookGhost(s)
        PROVE  \A t \in Signals : KeptTrack(t)
    <3>1. s \in open
      BY <2>1 DEF BookManualGhost, BookGhost, IInv, Rows, LoopOverOpen
    <3>2. QED BY <2>1, <3>1, RecordExternalCloseTrack DEF BookManualGhost, BookGhost, Reasons
  <2>2. ASSUME NEW s \in Signals, BookGhostBlind(s) PROVE FALSE
    BY <1>0, <2>2 DEF BookGhostBlind
  <2>3. CASE SkipReconcile \/ FindGhosts \/ GhostsDone \/ \E s \in Signals : DeferGhost(s)
    BY <2>3, SameTrack
    DEF SkipReconcile, FindGhosts, GhostsDone, DeferGhost, Goto, StartLoop
  <2>4. QED BY <1>6, <2>1, <2>2, <2>3 DEF ReconcilePositions
<1>7. CASE StartTick \/ PostArrives \/ AccountMoves \/ CloseApproaches \/ NextSession
           \/ UNCHANGED vars \/ \E s \in Signals : RequestManualClose(s)
  BY <1>7, SameTrack
  DEF StartTick, Goto, PostArrives, AccountMoves, CloseApproaches, NextSession, vars,
      RequestManualClose
<1>8. ~Crash /\ ~Restart
  BY DEF Crash, Restart
<1>9. QED BY <1>1, <1>2, <1>3, <1>4, <1>5, <1>6, <1>7, <1>8 DEF Next, Tick

\* A restart that reads every row adopts what the account still holds for a signal alone
\* on its contract: no other signal was taken there.
LEMMA RestartTracks ==
    ASSUME IInv, Sells, Purchases, Holdings, Restart, disturbed' = 0,
           NEW s \in Signals, Unclosed(s)', HasContractAlone(s)'
    PROVE  s \in open' \/ Flat(s)'
<1>1. ~Disturb /\ disturbed = 0
  BY DEF Restart, Disturb, counters, IInv, TypeOK
<1>2. /\ open' = Adoptable /\ UNCHANGED <<orders, lastOrder, net, liquidation, taken, trades>>
  BY <1>1 DEF Restart, account, journal
<1>3. Unclosed(s) /\ HasContractAlone(s) /\ s \in Bought
  BY <1>2 DEF Unclosed, HasContractAlone, Purchases, BoughtFirst
<1>4. PICK c : c = ContractOf[s]
  OBVIOUS
<1>5. ASSUME NEW t \in Signals, Unclosed(t), ContractOf[t] = c PROVE t = s
  <2>1. t \in Bought
    BY <1>5 DEF Unclosed, Purchases, BoughtFirst
  <2>2. PICK i \in OrderIds : Filled(i) /\ orders[i].owner = t
    BY <2>1 DEF Bought
  <2>3. i \in 1 .. lastOrder /\ orders[i].status # "unused"
    BY <2>2, UsedOrders DEF Filled
  <2>4. orders[i].contract = c
    BY <1>5, <2>2, <2>3 DEF Sells, OrdersHaveOwners
  <2>5. QED BY <1>3, <1>4, <2>2, <2>3, <2>4 DEF HasContractAlone
<1>6. CASE net[c] # 0
  <2>1. s \in Adoptable
    BY <1>3, <1>4, <1>5, <1>6, BookAssumption DEF Adoptable, Signals
  <2>2. QED BY <1>2, <2>1
<1>7. CASE net[c] = 0
  <2>1. liquidation[c] <= 0 \/ net[c] + liquidation[c] <= 0
    BY <1>1, <1>3, <1>4 DEF Holdings, Holding
  <2>2. liquidation[c] \in Int
    BY <1>4, Amounts
  <2>3. net'[c] <= 0 /\ net'[c] + liquidation'[c] <= 0
    BY <1>2, <1>7, <2>1, <2>2
  <2>4. QED BY <1>4, <2>3 DEF Flat
<1>8. QED BY <1>6, <1>7

LEMMA TrackedPreserved ==
    ASSUME IInv, IInv', Sells, Purchases, Holdings, Tracked, [Next]_vars
    PROVE  Holdings' /\ Tracked'
<1>1. Dealing
  BY StepDeals
<1>2. Holdings'
  <2> SUFFICES ASSUME disturbed' = 0, NEW s \in Signals, HasContractAlone(s)'
               PROVE  Holding(s)'
    BY DEF Holdings
  <2>1. disturbed = 0 /\ HasContractAlone(s)
    BY <1>1, CountersGrow, AloneBefore
  <2>2. QED BY <1>1, <2>1, HoldingKept DEF Holdings
<1>3. Tracked'
  <2> SUFFICES ASSUME disturbed' = 0, pc' # "down", NEW s \in Signals,
                      Unclosed(s)', HasContractAlone(s)'
               PROVE  s \in open' \/ Flat(s)'
    BY DEF Tracked
  <2>1. disturbed = 0 /\ HasContractAlone(s)
    BY <1>1, CountersGrow, AloneBefore
  <2>2. CASE pc = "down"
    <3>1. Restart
      <4>1. pc' # pc
        BY <2>2
      <4>2. QED
        BY <2>2, <4>1
        DEF Next, Tick, StartTick, Goto, StartLoop, HandlePosts, RejectPost, SubmitEntry,
            SubmitEntryRaises, EntryFilled, EntryNotFilled, CancelEntry, PlaceStop,
            TrackPosition, MarkTaken, PostHandlerCrash, EntryPoints, PostsDrained,
            HandleManualCloses, DropManualClose, CancelStopForManualClose, SubmitManualSell,
            ManualCloseFails, ManualQueueDrained, BookManualFill, ManualFillPending, PollDone,
            FlattenAtClose, BeforeClose, NothingToFlatten, StartFlatten, AllFlattened,
            CancelAll, CloseAll, FlattenFails, FlattenOne, AdvancePositions, Hold, RaiseStop,
            ReplaceStop, ReplaceRefused, ResubmitStop, ResubmitStopRaises, ExitPosition,
            AdvanceDone, SkipClosing, BookStopFill, LookAtPosition, ClosePosition,
            CancelStopForClose, SubmitClose, BookClose, CloseRaises, ReconcilePositions,
            SkipReconcile, FindGhosts, GhostsDone, DeferGhost, BookManualGhost, BookGhost,
            BookGhostBlind, RequestManualClose, Crash, PostArrives, AccountMoves,
            CloseApproaches, NextSession, vars, thread
    <3>2. QED BY <3>1, RestartTracks
  <2>3. CASE pc # "down"
    <3>1. s \in open' \/ (s \notin open /\ Unclosed(s))
      BY <2>3, StepTrack DEF KeptTrack
    <3>2. CASE s \notin open /\ Unclosed(s)
      <4>1. Flat(s) /\ s \in Bought
        BY <2>1, <2>3, <3>2 DEF Tracked, Unclosed, Purchases, BoughtFirst
      <4>2. QED BY <1>1, <2>1, <4>1, FlatKept
    <3>3. QED BY <3>1, <3>2
  <2>4. QED BY <2>2, <2>3
<1>4. QED BY <1>2, <1>3

LEMMA InitTracked == Init => Holdings /\ Tracked
<1> SUFFICES ASSUME Init PROVE Holdings /\ Tracked
  OBVIOUS
<1>1. Bought = {}
  BY DEF Init, AccountInit, UnusedOrder, Bought, Filled
<1>2. \A s \in Signals : ContractOf[s] \in Contracts
  BY BookAssumption
<1>3. QED BY <1>1, <1>2 DEF Init, AccountInit, Holdings, Holding, Tracked, Unclosed

\* However often the process dies and comes back, and in whatever tick or session, what is
\* held for a taken signal that is not booked is tracked, as long as no call fails and no
\* other signal trades the contract: _reconcile_on_startup finds it, and only a trades row
\* takes it off the book.
THEOREM AdoptedAgain == Spec => []AdoptedAfterRestart
<1>1. IInv /\ Sells /\ Guards /\ Purchases /\ Holdings /\ Tracked /\ [Next]_vars
        => IInv' /\ Sells' /\ Guards' /\ Purchases' /\ Holdings' /\ Tracked'
  <2>1. IInv /\ [Next]_vars => IInv'
    BY TypePreserved, RowsPreserved DEF IInv
  <2>2. QED
    BY <2>1, SellsPreserved, GuardsPreserved, PurchasesPreserved, TrackedPreserved
<1>2. Init => IInv /\ Sells /\ Guards /\ Purchases /\ Holdings /\ Tracked
  BY InitIInv, InitSells, InitPurchases, InitTracked
  DEF Init, Guards, Marks, Places, ClosePoints
<1>3. IInv /\ Tracked => AdoptedAfterRestart
  <2> SUFFICES ASSUME IInv, Tracked, disturbed = 0, pc # "down", NEW s \in Signals,
                      Unclosed(s), HasContractAlone(s), net[ContractOf[s]] > 0
               PROVE  s \in open
    BY DEF AdoptedAfterRestart
  <2>1. net[ContractOf[s]] \in Int
    BY Amounts
  <2>2. QED BY <2>1 DEF Tracked, Flat
<1>4. QED BY <1>1, <1>2, <1>3, PTL DEF Spec

-----------------------------------------------------------------------------
(* What is leaving.  While nothing fails, a contract holds no more than the       *)
(* signals bought there and not sold yet, and each of them that is booked has a   *)
(* sell on the book; the flatten replaces all of that by its liquidation.         *)

Sold == {s \in Signals : \E i \in OrderIds :
             Filled(i) /\ orders[i].kind # "entry" /\ orders[i].owner = s}

Held == {s \in Bought \ Sold : trades[s] = <<>> \/ Selling(s)}
HeldOn(c) == {s \in Held : ContractOf[s] = c}

Leaving ==
    Calm /\ pc # "closeAll" => \A c \in Contracts :
        net[c] + liquidation[c] <= Cardinality(HeldOn(c))

\* What is booked was being sold, or the thread sold it just before.
LEMMA OpenIsSelling ==
    ASSUME IInv, Sells, Guards, Calm, NEW s \in open,
           pc \notin {"closeSell", "closeBook", "manualSell"}
    PROVE  Selling(s)
BY DEF Guards, Guarded, Selling, Intact

BookedSelling(s) == trades'[s] # trades[s] => Selling(s) /\ UNCHANGED orders

LEMMA RecordExternalCloseSelling ==
    ASSUME IInv, Sells, Guards, Calm, NEW s \in open, NEW reason,
           RecordExternalClose(s, reason), pc \in {"poll", "advance", "ghosts"},
           UNCHANGED orders
    PROVE  \A t \in Signals : BookedSelling(t)
<1>1. Selling(s)
  BY OpenIsSelling
<1>2. \A t \in Signals \ {s} : trades'[t] = trades[t]
  BY DEF RecordExternalClose, AppendTrade, IInv, TypeOK
<1>3. QED BY <1>1, <1>2 DEF BookedSelling

LEMMA StepBooksSelling ==
    ASSUME IInv, Sells, Guards, Calm, [Next]_vars
    PROVE  \A t \in Signals : BookedSelling(t)
<1> USE DEF account, journal
<1>1. CASE HandlePosts
  BY <1>1
  DEF HandlePosts, RejectPost, SubmitEntry, SubmitEntryRaises, EntryFilled, EntryNotFilled,
      CancelEntry, PlaceStop, TrackPosition, MarkTaken, PostHandlerCrash, PostsDrained, Goto,
      BookedSelling
<1>2. CASE HandleManualCloses
  <2>1. ASSUME NEW s \in Signals, BookManualFill(s)
        PROVE  \A t \in Signals : BookedSelling(t)
    <3>1. s \in open
      BY <2>1 DEF BookManualFill, IInv, Rows, LoopOverOpen
    <3>2. QED BY <2>1, <3>1, RecordExternalCloseSelling DEF BookManualFill
  <2>2. CASE DropManualClose \/ CancelStopForManualClose \/ SubmitManualSell
             \/ ManualCloseFails \/ ManualQueueDrained \/ PollDone
             \/ \E s \in Signals : ManualFillPending(s)
    BY <2>2
    DEF DropManualClose, CancelStopForManualClose, SubmitManualSell, ManualCloseFails,
        ManualQueueDrained, PollDone, ManualFillPending, Goto, StartLoop, BookedSelling
  <2>3. QED BY <1>2, <2>1, <2>2 DEF HandleManualCloses
<1>3. CASE FlattenAtClose
  BY <1>3
  DEF FlattenAtClose, BeforeClose, NothingToFlatten, StartFlatten, AllFlattened, CancelAll,
      CloseAll, FlattenFails, FlattenOne, Goto, StartLoop, BookedSelling
<1>4. CASE AdvancePositions
  <2>1. ASSUME NEW s \in Signals, BookStopFill(s)
        PROVE  \A t \in Signals : BookedSelling(t)
    <3>1. s \in open
      BY <2>1 DEF BookStopFill, IInv, Rows, LoopOverOpen
    <3>2. QED BY <2>1, <3>1, RecordExternalCloseSelling DEF BookStopFill
  <2>2. CASE Hold \/ RaiseStop \/ ReplaceStop \/ ReplaceRefused \/ ResubmitStop
             \/ ResubmitStopRaises \/ ExitPosition \/ AdvanceDone
             \/ \E s \in Signals : SkipClosing(s) \/ LookAtPosition(s)
    BY <2>2
    DEF Hold, RaiseStop, ReplaceStop, ReplaceRefused, ResubmitStop, ResubmitStopRaises,
        ExitPosition, AdvanceDone, SkipClosing, LookAtPosition, Goto, BookedSelling
  <2>3. QED BY <1>4, <2>1, <2>2 DEF AdvancePositions
<1>5. CASE ClosePosition
  <2>1. CASE BookClose
    <3>1. /\ Selling(cur) /\ UNCHANGED orders
          /\ \A t \in Signals \ {cur} : trades'[t] = trades[t]
      BY <2>1 DEF BookClose, AppendTrade, Guards, Places, IInv, TypeOK
    <3>2. QED BY <3>1 DEF BookedSelling
  <2>2. CASE CancelStopForClose \/ SubmitClose \/ CloseRaises
    BY <2>2 DEF CancelStopForClose, SubmitClose, CloseRaises, BookedSelling
  <2>3. QED BY <1>5, <2>1, <2>2 DEF ClosePosition
<1>6. CASE ReconcilePositions
  <2>1. ASSUME NEW s \in Signals, BookManualGhost(s) \/ BookGhost(s) \/ BookGhostBlind(s)
        PROVE  \A t \in Signals : BookedSelling(t)
    <3>1. s \in open /\ pc = "ghosts"
      BY <2>1 DEF BookManualGhost, BookGhost, BookGhostBlind, IInv, Rows, LoopOverOpen
    <3>2. CASE BookManualGhost(s) \/ BookGhost(s)
      BY <3>1, <3>2, RecordExternalCloseSelling DEF BookManualGhost, BookGhost
    <3>3. CASE BookGhostBlind(s)
      <4>1. /\ Selling(s) /\ UNCHANGED orders
            /\ \A t \in Signals \ {s} : trades'[t] = trades[t]
        BY <3>1, <3>3, OpenIsSelling DEF BookGhostBlind, AppendTrade, IInv, TypeOK
      <4>2. QED BY <4>1 DEF BookedSelling
    <3>4. QED BY <2>1, <3>2, <3>3
  <2>2. CASE SkipReconcile \/ FindGhosts \/ GhostsDone \/ \E s \in Signals : DeferGhost(s)
    BY <2>2 DEF SkipReconcile, FindGhosts, GhostsDone, DeferGhost, Goto, StartLoop,
                BookedSelling
  <2>3. QED BY <1>6, <2>1, <2>2 DEF ReconcilePositions
<1>7. CASE StartTick \/ Surroundings \/ UNCHANGED vars
  BY <1>7
  DEF StartTick, Goto, Surroundings, RequestManualClose, Crash, Restart, PostArrives,
      AccountMoves, CloseApproaches, NextSession, vars, BookedSelling
<1>8. QED BY <1>1, <1>2, <1>3, <1>4, <1>5, <1>6, <1>7 DEF Next, Tick, Surroundings

\* Nobody but the flatten cancels a sell of a position the bot does not track any more.
Undone(s) == \A j \in OrderIds : Intact(s, j) => Intact(s, j)'

LEMMA SameUndone == ASSUME UNCHANGED orders PROVE \A s : Undone(s)
BY DEF Undone, Intact

LEMMA OtherStopUndone ==
    ASSUME IInv, Guards, Calm, Calm', NEW t \in open, NEW s \in Signals \ open,
           CancelOrder(rec[t].stop), UNCHANGED lastOrder
    PROVE  Undone(s)
<1>1. rec[t].stop \in OrderIds => orders[rec[t].stop].owner # s
  BY DEF Guards, Guarded, NoOrder, OrderIds
<1>2. TypeOK
  BY DEF IInv
<1>3. QED BY <1>1, <1>2, CancelElsewhere DEF Undone

LEMMA TickUndone ==
    ASSUME IInv, Sells, Guards, Calm, Calm', Tick, pc # "closeAll", pc' # "closeAll",
           NEW s \in Signals \ open
    PROVE  Undone(s)
<1> USE DEF account
<1>0. ~Disturb
  BY DEF Disturb, Calm, Undisturbed, IInv, TypeOK
<1>1. CASE HandlePosts
  <2>1. CASE CancelEntry
    <3>1. /\ CancelOrder(oid) /\ UNCHANGED lastOrder /\ orders[oid].kind = "entry"
      BY <2>1 DEF CancelEntry, Guards, Marks
    <3>2. QED BY <3>1, CancelElsewhere DEF IInv, Undone
  <2>2. CASE SubmitEntry \/ PlaceStop
    BY <2>2, SubmitGuarded DEF SubmitEntry, PlaceStop, Undone
  <2>3. CASE RejectPost \/ EntryFilled \/ EntryNotFilled \/ TrackPosition \/ MarkTaken
             \/ PostsDrained
    BY <2>3, SameUndone
    DEF RejectPost, EntryFilled, EntryNotFilled, TrackPosition, MarkTaken, PostsDrained, Goto
  <2>4. ~SubmitEntryRaises /\ ~PostHandlerCrash
    BY <1>0 DEF SubmitEntryRaises, PostHandlerCrash
  <2>5. QED BY <1>1, <2>1, <2>2, <2>3, <2>4 DEF HandlePosts
<1>2. CASE HandleManualCloses
  <2>1. CASE CancelStopForManualClose
    BY <2>1, OtherStopUndone DEF CancelStopForManualClose
  <2>2. CASE SubmitManualSell
    BY <2>2, SubmitGuarded DEF SubmitManualSell, Undone
  <2>3. CASE DropManualClose \/ ManualQueueDrained \/ PollDone
             \/ \E t \in Signals : BookManualFill(t) \/ ManualFillPending(t)
    BY <2>3, SameUndone
    DEF DropManualClose, ManualQueueDrained, PollDone, BookManualFill, ManualFillPending,
        Goto, StartLoop
  <2>4. ~ManualCloseFails
    BY <1>0 DEF ManualCloseFails
  <2>5. QED BY <1>2, <2>1, <2>2, <2>3, <2>4 DEF HandleManualCloses
<1>3. CASE FlattenAtClose
  <2>1. ~CancelAll /\ ~CloseAll /\ ~FlattenFails
    BY <1>0 DEF CancelAll, CloseAll, FlattenFails
  <2>2. QED
    BY <1>3, <2>1, SameUndone
    DEF FlattenAtClose, BeforeClose, NothingToFlatten, StartFlatten, AllFlattened, FlattenOne,
        Goto, StartLoop
<1>4. CASE AdvancePositions
  <2>1. CASE ReplaceStop
    <3>1. cur \in open /\ orders[rec[cur].stop].owner # s
      <4>1. cur \in open /\ rec[cur].stop # NoOrder
        BY <2>1, CurrentOpen DEF ReplaceStop, Replace, AdvancePoints, NoOrder, OrderIds
      <4>2. QED BY <4>1 DEF Guards, Guarded
    <3>2. /\ AccountTypeOK /\ NextId \in OrderIds
          /\ orders' = [orders EXCEPT ![rec[cur].stop] = WithStatus(@, "dead"),
                                      ![NextId] = orders[rec[cur].stop]]
      BY <2>1, ReplaceTyped DEF ReplaceStop, Replace, IInv, TypeOK
    <3>3. ASSUME NEW j \in OrderIds, Intact(s, j) PROVE Intact(s, j)'
      <4>1. j # rec[cur].stop /\ j # NextId
        BY <3>1, <3>3, NamedBefore DEF Intact
      <4>2. orders'[j] = orders[j]
        BY <3>2, <4>1 DEF AccountTypeOK
      <4>3. QED BY <3>3, <4>2 DEF Intact
    <3>4. QED BY <3>3 DEF Undone
  <2>2. CASE ReplaceRefused
    <3>1. cur \in open
      BY <2>2, CurrentOpen DEF ReplaceRefused, AdvancePoints
    <3>2. CancelOrder(rec[cur].stop) /\ UNCHANGED lastOrder
      BY <1>0, <2>2 DEF ReplaceRefused
    <3>3. QED BY <3>1, <3>2, OtherStopUndone
  <2>3. CASE ResubmitStop
    BY <2>3, SubmitGuarded DEF ResubmitStop, Undone
  <2>4. CASE Hold \/ RaiseStop \/ ExitPosition \/ AdvanceDone
             \/ \E t \in Signals : SkipClosing(t) \/ BookStopFill(t) \/ LookAtPosition(t)
    BY <2>4, SameUndone
    DEF Hold, RaiseStop, ExitPosition, AdvanceDone, SkipClosing, BookStopFill, LookAtPosition,
        Goto
  <2>5. ~ResubmitStopRaises
    BY <1>0 DEF ResubmitStopRaises
  <2>6. QED BY <1>4, <2>1, <2>2, <2>3, <2>4, <2>5 DEF AdvancePositions
<1>5. CASE ClosePosition
  <2>1. CASE CancelStopForClose
    BY <2>1, CurrentOpen, OtherStopUndone DEF CancelStopForClose, ClosePoints
  <2>2. CASE SubmitClose
    BY <2>2, SubmitGuarded DEF SubmitClose, Undone
  <2>3. CASE BookClose
    BY <2>3, SameUndone DEF BookClose
  <2>4. ~CloseRaises
    BY <1>0 DEF CloseRaises
  <2>5. QED BY <1>5, <2>1, <2>2, <2>3, <2>4 DEF ClosePosition
<1>6. CASE ReconcilePositions
  BY <1>6, SameUndone
  DEF ReconcilePositions, SkipReconcile, FindGhosts, GhostsDone, DeferGhost, BookManualGhost,
      BookGhost, BookGhostBlind, Goto, StartLoop
<1>7. CASE StartTick
  BY <1>7, SameUndone DEF StartTick, Goto
<1>8. QED BY <1>1, <1>2, <1>3, <1>4, <1>5, <1>6, <1>7 DEF Tick

LEMMA StepUndone ==
    ASSUME IInv, Sells, Guards, Calm, Calm', [Next]_vars, pc # "closeAll", pc' # "closeAll",
           NEW s \in Signals \ open
    PROVE  Undone(s)
<1> USE DEF account
<1>1. ~Disturb /\ ~NextSession /\ ~Restart /\ ~Crash
  BY DEF Disturb, NextSession, Crash, Calm, Undisturbed, IInv, TypeOK, Sells, DownIsEmpty,
         Restart
<1>2. CASE AccountMoves
  BY <1>1, <1>2, MovesIntact DEF AccountMoves, Undone, IInv, TypeOK
<1>3. CASE PostArrives \/ CloseApproaches \/ UNCHANGED vars
           \/ \E t \in Signals : RequestManualClose(t)
  BY <1>3, SameUndone DEF PostArrives, CloseApproaches, RequestManualClose, vars
<1>4. QED BY <1>1, <1>2, <1>3, TickUndone DEF Next

\* Only a sell that fills turns a held signal into a sold one.
LEMMA SoldBy ==
    ASSUME IInv, Sells, Sells', IInv', Purchases, Dealing, NEW s \in Sold'
    PROVE  \/ s \in Sold
           \/ \E i \in 1 .. lastOrder :
                  Fill(i) /\ orders[i].kind # "entry" /\ orders[i].owner = s
<1>1. PICK j \in OrderIds : Filled(j)' /\ orders'[j].kind # "entry" /\ orders'[j].owner = s
  BY DEF Sold
<1>2. /\ lastOrder \in Nat /\ lastOrder' \in Nat /\ j \in Nat \ {0}
      /\ orders'[j].status = "filled"
  BY <1>1, BrokerAssumption DEF IInv, TypeOK, AccountTypeOK, OrderIds, Filled
<1>3. j <= lastOrder'
  <2>1. ~(j > lastOrder')
    BY <1>2 DEF Sells, OrdersHaveOwners
  <2>2. QED BY <1>2, <2>1
<1>4. /\ \A i \in 1 .. lastOrder : SameDeal(i)
      /\ lastOrder' = lastOrder
         \/ (lastOrder' = lastOrder + 1 /\ orders'[lastOrder + 1].status = "new")
  BY DealsMade
<1>5. j \in 1 .. lastOrder
  BY <1>2, <1>3, <1>4
<1>6. SameDeal(j)
  BY <1>4, <1>5
<1>7. s \in Signals
  BY DEF Sold
<1>8. QED BY <1>1, <1>5, <1>6, <1>7 DEF SameDeal, Sold

\* A held signal stays held until a sell of its own fills.
LEMMA HeldKept ==
    ASSUME IInv, Sells, Guards, Purchases, Dealing, Calm, Calm', [Next]_vars,
           pc # "closeAll", pc' # "closeAll", NEW s \in Held, s \notin Sold'
    PROVE  s \in Held'
<1>1. s \in Signals /\ s \in Bought'
  BY StillBought DEF Held, Bought
<1>2. trades[s] = <<>> \/ Selling(s)
  BY DEF Held
<1>3. BookedSelling(s)
  BY <1>1, StepBooksSelling
<1>4. CASE trades'[s] # trades[s]
  <2>1. Selling(s)'
    BY <1>3, <1>4 DEF BookedSelling, Selling, Intact
  <2>2. QED BY <1>1, <2>1 DEF Held
<1>5. CASE trades'[s] = trades[s] /\ trades[s] # <<>>
  <2>1. s \in Signals \ open
    BY <1>1, <1>5 DEF IInv, Rows, OpenHasNoRow
  <2>2. Undone(s)
    BY <2>1, StepUndone
  <2>3. Selling(s)'
    BY <1>2, <1>5, <2>2 DEF Undone, Selling
  <2>4. QED BY <1>1, <2>3 DEF Held
<1>6. CASE trades'[s] = <<>>
  BY <1>1, <1>6 DEF Held
<1>7. QED BY <1>4, <1>5, <1>6

\* The fill of an entry: its signal is held from then on.
LEMMA EntryHeld ==
    ASSUME IInv, IInv', Sells, Sells', Purchases, Dealing, Calm, Guards, [Next]_vars,
           NEW i \in 1 .. lastOrder, Fill(i), orders[i].kind = "entry"
    PROVE  orders[i].owner \in Held' \ Held
<1>1. /\ i \in OrderIds /\ Live(i)
      /\ orders'[i] = WithStatus(orders[i], "filled")
      /\ \A j \in OrderIds \ {i} : orders'[j] = orders[j]
  BY NamedOrders DEF Fill, IInv, TypeOK, AccountTypeOK
<1>2. PICK s \in Signals : s = orders[i].owner
  BY OwnersAreSignals DEF IInv, TypeOK, Sells
<1>3. s \notin Bought
  <2> SUFFICES ASSUME NEW j \in OrderIds, Filled(j), orders[j].kind = "entry",
                      orders[j].owner = s
               PROVE  FALSE
    BY DEF Bought
  <2>1. j \in 1 .. lastOrder
    BY UsedOrders DEF Filled
  <2>2. j = i
    BY <1>2, <2>1 DEF Purchases, Deals
  <2>3. QED BY <1>1, <2>2 DEF Live, LiveStatuses, Filled
<1>4. s \in Bought'
  BY <1>1, <1>2, WithStatusSame DEF Bought, Filled
<1>5. s \notin Sold'
  <2> SUFFICES ASSUME NEW j \in OrderIds, Filled(j)', orders'[j].kind # "entry",
                      orders'[j].owner = s
               PROVE  FALSE
    BY DEF Sold
  <2>1. j # i
    BY <1>1, WithStatusSame
  <2>2. Filled(j) /\ orders[j].kind # "entry" /\ orders[j].owner = s
    BY <1>1, <2>1 DEF Filled
  <2>3. j \in 1 .. lastOrder
    BY <2>2, UsedOrders DEF Filled
  <2>4. QED BY <1>3, <2>2, <2>3 DEF Purchases, Deals
<1>6. trades'[s] = <<>>
  <2>1. trades[s] = <<>>
    BY <1>3 DEF Purchases, BoughtFirst
  <2>2. trades'[s] = trades[s]
    <3>1. orders' # orders
      BY <1>1, WithStatusSame DEF Live, LiveStatuses
    <3>2. BookedSelling(s)
      BY StepBooksSelling
    <3>3. QED BY <3>1, <3>2 DEF BookedSelling
  <2>3. QED BY <2>1, <2>2
<1>7. QED BY <1>2, <1>3, <1>4, <1>5, <1>6 DEF Held

LEMMA HeldCounted ==
    ASSUME NEW c
    PROVE  /\ IsFiniteSet(HeldOn(c)) /\ Cardinality(HeldOn(c)) \in Nat
           /\ IsFiniteSet(HeldOn(c)') /\ Cardinality(HeldOn(c)') \in Nat
<1>1. IsFiniteSet(Signals)
  BY BookAssumption, FS_Interval DEF Signals
<1>2. HeldOn(c) \in SUBSET Signals /\ HeldOn(c)' \in SUBSET Signals
  BY DEF HeldOn, Held, Bought
<1>3. IsFiniteSet(HeldOn(c)) /\ IsFiniteSet(HeldOn(c)')
  BY <1>1, <1>2, FS_Subset
<1>4. QED BY <1>3, FS_CardinalityType

\* The fill of an order moves the amount and the count the same way.
LEMMA FillLeaving ==
    ASSUME IInv, IInv', Sells, Sells', Guards, Purchases, Dealing, Calm, Calm', [Next]_vars,
           pc # "closeAll", pc' # "closeAll", NEW c \in Contracts,
           net[c] + liquidation[c] <= Cardinality(HeldOn(c)),
           NEW i \in 1 .. lastOrder, Fill(i), orders[i].contract = c
    PROVE  net'[c] + liquidation'[c] <= Cardinality(HeldOn(c)')
<1> DEFINE t == orders[i].owner
<1>1. /\ i \in OrderIds /\ t \in Signals /\ ContractOf[t] = c
      /\ net[c] \in Int /\ liquidation[c] \in Int /\ orders[i].delta \in Int
      /\ net'[c] = net[c] + orders[i].delta /\ liquidation'[c] = liquidation[c]
  <2>1. /\ AccountTypeOK /\ i \in OrderIds /\ t \in Signals
    BY NamedOrders, OwnersAreSignals DEF IInv, TypeOK, Sells
  <2>2. ContractOf[t] = c /\ orders[i].delta \in Int
    BY <2>1 DEF Sells, OrdersHaveOwners, AccountTypeOK, Order
  <2>3. QED BY <2>1, <2>2 DEF Fill, AccountTypeOK
<1>2. \A s \in HeldOn(c) \ {t} : s \in HeldOn(c)'
  <2> SUFFICES ASSUME NEW s \in HeldOn(c), s # t PROVE s \in HeldOn(c)'
    OBVIOUS
  <2>1. s \in Held /\ s \notin Sold
    BY DEF HeldOn, Held
  <2>2. s \notin Sold'
    <3> SUFFICES ASSUME s \in Sold' PROVE FALSE
      OBVIOUS
    <3>1. PICK j \in 1 .. lastOrder : Fill(j) /\ orders[j].owner = s
      BY <2>1, SoldBy
    <3>2. j = i
      <4>1. j \in OrderIds /\ Live(j) /\ orders'[j] = WithStatus(orders[j], "filled")
        BY <3>1, NamedOrders DEF Fill, IInv, TypeOK, AccountTypeOK
      <4>2. j # i => orders'[j] = orders[j]
        BY <1>1, <4>1 DEF Fill, IInv, TypeOK, AccountTypeOK
      <4>3. QED BY <4>1, <4>2, WithStatusSame DEF Live, LiveStatuses
    <3>3. QED BY <3>1, <3>2
  <2>3. QED BY <2>1, <2>2, HeldKept DEF HeldOn
<1>3. CASE orders[i].kind = "entry"
  <2>1. orders[i].delta = 1
    BY <1>3 DEF Purchases, Deals
  <2>2. t \in HeldOn(c)' /\ t \notin HeldOn(c)
    BY <1>1, <1>3, EntryHeld DEF HeldOn
  <2>3. HeldOn(c) \union {t} \in SUBSET HeldOn(c)'
    BY <1>2, <2>2
  <2>4. Cardinality(HeldOn(c) \union {t}) = Cardinality(HeldOn(c)) + 1
    BY <2>2, HeldCounted, FS_AddElement
  <2>5. Cardinality(HeldOn(c) \union {t}) <= Cardinality(HeldOn(c)')
    BY <2>3, HeldCounted, FS_Subset
  <2>6. QED BY <1>1, <2>1, <2>4, <2>5, HeldCounted
<1>4. CASE orders[i].kind # "entry"
  <2>1. orders[i].delta < 0
    BY <1>4 DEF Purchases, Deals
  <2>2. HeldOn(c) \ {t} \in SUBSET HeldOn(c)'
    BY <1>2
  <2>3. Cardinality(HeldOn(c) \ {t}) >= Cardinality(HeldOn(c)) - 1
    BY HeldCounted, FS_RemoveElement
  <2>4. Cardinality(HeldOn(c) \ {t}) <= Cardinality(HeldOn(c)')
    BY <2>2, HeldCounted, FS_Subset
  <2>5. Cardinality(HeldOn(c) \ {t}) \in Nat
    BY HeldCounted, FS_RemoveElement, FS_CardinalityType
  <2>6. QED BY <1>1, <2>1, <2>3, <2>4, <2>5, HeldCounted
<1>5. QED BY <1>3, <1>4

\* While nothing fails, only close_all_positions ends the flatten.
LEMMA EndOfFlatten ==
    ASSUME IInv, [Next]_vars, Calm', pc = "closeAll", pc' # "closeAll"
    PROVE  CloseAll
<1>1. ~Crash /\ ~FlattenFails
  BY DisturbEndsCalm DEF Crash, FlattenFails, Calm, Undisturbed, IInv, TypeOK
<1>2. QED
  BY <1>1
  DEF Next, Tick, StartTick, Goto, StartLoop, HandlePosts, RejectPost, SubmitEntry,
      SubmitEntryRaises, EntryFilled, EntryNotFilled, CancelEntry, PlaceStop, TrackPosition,
      MarkTaken, PostHandlerCrash, EntryPoints, PostsDrained, HandleManualCloses,
      DropManualClose, CancelStopForManualClose, SubmitManualSell, ManualCloseFails,
      ManualQueueDrained, BookManualFill, ManualFillPending, PollDone, FlattenAtClose,
      BeforeClose, NothingToFlatten, StartFlatten, AllFlattened, CancelAll, FlattenOne,
      AdvancePositions, Hold, RaiseStop, ReplaceStop, ReplaceRefused, ResubmitStop,
      ResubmitStopRaises, ExitPosition, AdvanceDone, SkipClosing, BookStopFill,
      LookAtPosition, ClosePosition, CancelStopForClose, SubmitClose, BookClose, CloseRaises,
      ReconcilePositions, SkipReconcile, FindGhosts, GhostsDone, DeferGhost, BookManualGhost,
      BookGhost, BookGhostBlind, RequestManualClose, Restart, PostArrives, AccountMoves,
      CloseApproaches, NextSession, vars, thread

LEMMA LeavingPreserved ==
    ASSUME IInv, IInv', Sells, Sells', Guards, Purchases, Leaving, [Next]_vars
    PROVE  Leaving'
<1> SUFFICES ASSUME Calm', pc' # "closeAll", NEW c \in Contracts
             PROVE  net'[c] + liquidation'[c] <= Cardinality(HeldOn(c)')
  BY DEF Leaving
<1>1. Calm /\ Dealing /\ disturbed' = 0 /\ days' = 0
  BY CountersGrow, StepDeals DEF Calm, Undisturbed
<1>2. net[c] \in Int /\ liquidation[c] \in Int /\ Cardinality(HeldOn(c)) \in Nat
      /\ Cardinality(HeldOn(c)') \in Nat
  BY HeldCounted DEF IInv, TypeOK, AccountTypeOK
<1>3. CASE pc = "closeAll"
  <2>1. net'[c] = net[c] /\ liquidation'[c] = -net[c]
    BY <1>3, EndOfFlatten DEF CloseAll, CloseAllRequested
  <2>2. QED BY <1>2, <2>1
<1>4. CASE pc # "closeAll"
  <2>1. net[c] + liquidation[c] <= Cardinality(HeldOn(c))
    BY <1>1, <1>4 DEF Leaving
  <2>2. CASE \E i \in 1 .. lastOrder : Fill(i) /\ orders[i].contract = c
    BY <1>1, <1>4, <2>1, <2>2, FillLeaving
  <2>3. CASE \A i \in 1 .. lastOrder : ~(Fill(i) /\ orders[i].contract = c)
    <3>1. HeldOn(c) \in SUBSET HeldOn(c)'
      <4> SUFFICES ASSUME NEW s \in HeldOn(c) PROVE s \in HeldOn(c)'
        OBVIOUS
      <4>1. s \in Held /\ s \notin Sold /\ ContractOf[s] = c
        BY DEF HeldOn, Held
      <4>2. s \notin Sold'
        <5>1. \A i \in 1 .. lastOrder :
                  orders[i].owner = s => orders[i].contract = c
          <6>1. \A i \in 1 .. lastOrder : i \in OrderIds /\ i <= lastOrder
            BY BrokerAssumption DEF IInv, TypeOK, AccountTypeOK, OrderIds
          <6>2. QED BY <4>1, <6>1 DEF Sells, OrdersHaveOwners
        <5>2. QED BY <1>1, <2>3, <4>1, <5>1, SoldBy
      <4>3. QED BY <1>1, <1>4, <4>1, <4>2, HeldKept DEF HeldOn
    <3>2. Cardinality(HeldOn(c)) <= Cardinality(HeldOn(c)')
      BY <3>1, HeldCounted, FS_Subset
    <3>3. \/ net'[c] + liquidation'[c] = net[c] + liquidation[c]
          \/ net'[c] + liquidation'[c] = 0
      BY <1>1, <1>2, <2>3, MoneyMoves DEF Money
    <3>4. QED BY <1>2, <2>1, <3>2, <3>3
  <2>4. QED BY <2>2, <2>3
<1>5. QED BY <1>3, <1>4

LEMMA InitLeaving == Init => Leaving
<1> SUFFICES ASSUME Init, NEW c \in Contracts
             PROVE  net[c] + liquidation[c] <= Cardinality(HeldOn(c))
  BY DEF Leaving
<1>1. net[c] = 0 /\ liquidation[c] = 0
  BY DEF Init, AccountInit
<1>2. QED BY <1>1, HeldCounted

\* Nothing is held behind the bot's back: a contract that is still held when every trade on
\* it is booked has a sell on the book, or the flatten is liquidating it.
THEOREM HeldIsLeaving == Spec => []BookedMeansLeaving
<1>1. IInv /\ Sells /\ Guards /\ Purchases /\ Leaving /\ [Next]_vars
        => IInv' /\ Sells' /\ Guards' /\ Purchases' /\ Leaving'
  <2>1. IInv /\ [Next]_vars => IInv'
    BY TypePreserved, RowsPreserved DEF IInv
  <2>2. IInv /\ Sells /\ [Next]_vars => Sells'
    BY <2>1, SellsPreserved
  <2>3. QED
    BY <2>1, <2>2, GuardsPreserved, PurchasesPreserved, LeavingPreserved
<1>2. Init => IInv /\ Sells /\ Guards /\ Purchases /\ Leaving
  BY InitIInv, InitSells, InitPurchases, InitLeaving
  DEF Init, Guards, Marks, Places, ClosePoints
<1>3. IInv /\ Sells /\ Purchases /\ Leaving => BookedMeansLeaving
  <2> SUFFICES ASSUME IInv, Sells, Purchases, Leaving, pc = "idle", Calm,
                      NEW c \in Contracts, AllBooked(c), net[c] > 0, ~(liquidation[c] < 0)
               PROVE  \E i \in LiveOrders : orders[i].contract = c /\ orders[i].delta < 0
    BY DEF BookedMeansLeaving, Calm
  <2>1. PICK s \in HeldOn(c) : TRUE
    <3>1. net[c] \in Int /\ liquidation[c] \in Int
      BY DEF IInv, TypeOK, AccountTypeOK
    <3>2. net[c] + liquidation[c] <= Cardinality(HeldOn(c)) /\ Cardinality(HeldOn(c)) \in Nat
      BY HeldCounted DEF Leaving
    <3>3. Cardinality(HeldOn(c)) # 0
      BY <3>1, <3>2
    <3>4. QED BY <3>3, FS_EmptySet
  <2>2. /\ s \in Signals /\ s \in Bought /\ s \notin Sold /\ ContractOf[s] = c
        /\ trades[s] = <<>> \/ Selling(s)
    BY DEF HeldOn, Held, Bought
  <2>3. \A i \in OrderIds : orders[i].status # "unused" /\ orders[i].owner = s
            => i \in 1 .. lastOrder /\ orders[i].contract = c
    <3> SUFFICES ASSUME NEW i \in OrderIds, orders[i].status # "unused", orders[i].owner = s
                 PROVE  i \in 1 .. lastOrder /\ orders[i].contract = c
      OBVIOUS
    <3>1. i \in 1 .. lastOrder
      BY UsedOrders
    <3>2. i <= lastOrder
      BY <3>1 DEF IInv, TypeOK, AccountTypeOK
    <3>3. QED BY <2>2, <3>1, <3>2 DEF Sells, OrdersHaveOwners
  <2>4. Selling(s)
    <3>1. PICK i \in OrderIds :
              Filled(i) /\ orders[i].kind = "entry" /\ orders[i].owner = s
      BY <2>2 DEF Bought
    <3>2. trades[s] # <<>>
      BY <2>3, <3>1 DEF AllBooked, Filled
    <3>3. QED BY <2>2, <3>2
  <2>5. PICK j \in OrderIds : Intact(s, j)
    BY <2>4 DEF Selling
  <2>6. orders[j].status = "new" /\ orders[j].kind # "entry"
    BY <2>2, <2>5 DEF Sold, Intact, Filled
  <2>7. j \in 1 .. lastOrder /\ orders[j].contract = c
    BY <2>3, <2>5, <2>6 DEF Intact
  <2>8. orders[j].delta < 0
    BY <2>6, <2>7 DEF Purchases, Deals
  <2>9. QED BY <2>6, <2>7, <2>8 DEF LiveOrders, Live, LiveStatuses
<1>4. QED BY <1>1, <1>2, <1>3, PTL DEF Spec

-----------------------------------------------------------------------------
(* The journal as its readers see it.  Three steps move it: the fill of an entry,   *)
(* the flag and a trades row; every other step stutters.                            *)

\* Only the fill of an entry makes a signal bought.
LEMMA BoughtMoves ==
    ASSUME IInv, IInv', Sells, Sells', Purchases, Dealing
    PROVE  \/ Bought' = Bought
           \/ \E s \in Signals \ Bought : orders' # orders /\ Bought' = Bought \union {s}
<1>1. \A i \in OrderIds : orders'[i].status # "unused" => i <= lastOrder'
  <2> SUFFICES ASSUME NEW i \in OrderIds, orders'[i].status # "unused"
               PROVE  i <= lastOrder'
    OBVIOUS
  <2>1. ~(i > lastOrder')
    BY DEF Sells, OrdersHaveOwners
  <2>2. i \in Nat /\ lastOrder' \in Nat
    BY BrokerAssumption DEF IInv, TypeOK, AccountTypeOK, OrderIds
  <2>3. QED BY <2>1, <2>2
<1>2. ASSUME NEW j \in OrderIds, Filled(j)'
      PROVE  j \in 1 .. lastOrder /\ SameDeal(j)
  <2>1. /\ orders'[j].status = "filled" /\ j <= lastOrder'
        /\ j \in Nat \ {0} /\ lastOrder \in Nat
    <3>1. orders'[j].status = "filled" /\ orders'[j].status # "unused"
      BY <1>2 DEF Filled
    <3>2. j \in Nat \ {0} /\ lastOrder \in Nat
      BY BrokerAssumption DEF IInv, TypeOK, AccountTypeOK, OrderIds
    <3>3. QED BY <1>1, <3>1, <3>2
  <2>2. /\ \A i \in 1 .. lastOrder : SameDeal(i)
        /\ lastOrder' = lastOrder
           \/ (lastOrder' = lastOrder + 1 /\ orders'[lastOrder + 1].status = "new")
    BY DealsMade
  <2>3. j \in 1 .. lastOrder
    BY <2>1, <2>2
  <2>4. QED BY <2>2, <2>3
<1>3. CASE \E i \in OrderIds : Fill(i) /\ orders[i].kind = "entry"
  <2>1. PICK i \in OrderIds : Fill(i) /\ orders[i].kind = "entry"
    BY <1>3
  <2>2. /\ Live(i) /\ orders[i].status # "unused"
        /\ orders'[i] = WithStatus(orders[i], "filled")
        /\ \A j \in OrderIds \ {i} : orders'[j] = orders[j]
    BY <2>1 DEF Fill, Live, LiveStatuses, IInv, TypeOK, AccountTypeOK
  <2>3. i \in 1 .. lastOrder
    BY <2>2, UsedOrders
  <2>4. PICK s \in Signals : s = orders[i].owner
    BY <2>3, OwnersAreSignals DEF IInv, TypeOK, Sells
  <2>5. s \notin Bought
    <3> SUFFICES ASSUME NEW j \in OrderIds, Filled(j), orders[j].kind = "entry",
                        orders[j].owner = s
                 PROVE  FALSE
      BY DEF Bought
    <3>1. j \in 1 .. lastOrder
      BY UsedOrders DEF Filled
    <3>2. j = i
      BY <2>1, <2>3, <2>4, <3>1 DEF Purchases, Deals
    <3>3. QED BY <2>2, <3>2 DEF Live, LiveStatuses, Filled
  <2>6. orders' # orders
    BY <2>2, WithStatusSame DEF Live, LiveStatuses
  <2>7. s \in Bought'
    BY <2>1, <2>2, <2>4, WithStatusSame DEF Bought, Filled
  <2>8. \A t \in Bought' : t \in Bought \/ t = s
    BY <2>2, <2>4, WithStatusSame DEF Bought, Filled
  <2>9. QED BY <2>4, <2>5, <2>6, <2>7, <2>8, StillBought
<1>4. CASE \A i \in OrderIds : ~(Fill(i) /\ orders[i].kind = "entry")
  <2>1. Bought' \subseteq Bought
    <3> SUFFICES ASSUME NEW t \in Signals, NEW j \in OrderIds, Filled(j)',
                        orders'[j].kind = "entry", orders'[j].owner = t
                 PROVE  t \in Bought
      BY DEF Bought
    <3>1. SameDeal(j)
      BY <1>2
    <3>2. Filled(j) /\ orders[j].kind = "entry" /\ orders[j].owner = t
      BY <1>4, <3>1 DEF SameDeal
    <3>3. QED BY <3>2 DEF Bought
  <2>2. QED BY <2>1, StillBought
<1>5. QED BY <1>3, <1>4

\* A step writes at most one thing to the journal, and nothing to the account then.
JournalStep ==
    \/ UNCHANGED journal
    \/ UNCHANGED orders /\ MarkTaken
    \/ /\ UNCHANGED <<orders, taken>>
       /\ \E s \in open, reason \in Reasons : AppendTrade(s, reason)

LEMMA RecordExternalCloseJournal ==
    ASSUME NEW s \in open, NEW reason \in Reasons, RecordExternalClose(s, reason),
           UNCHANGED orders
    PROVE  JournalStep
BY DEF RecordExternalClose, JournalStep, journal

LEMMA StepJournal == ASSUME IInv, [Next]_vars PROVE JournalStep
<1> USE DEF journal
<1>1. CASE HandlePosts
  BY <1>1
  DEF HandlePosts, RejectPost, SubmitEntry, SubmitEntryRaises, EntryFilled, EntryNotFilled,
      CancelEntry, PlaceStop, TrackPosition, MarkTaken, PostHandlerCrash, PostsDrained, Goto,
      JournalStep, account
<1>2. CASE HandleManualCloses
  <2>1. ASSUME NEW s \in Signals, BookManualFill(s) PROVE JournalStep
    <3>1. s \in open /\ "manual_close" \in Reasons
      BY <2>1 DEF BookManualFill, IInv, Rows, LoopOverOpen, Reasons
    <3>2. QED BY <2>1, <3>1, RecordExternalCloseJournal DEF BookManualFill, account
  <2>2. CASE DropManualClose \/ CancelStopForManualClose \/ SubmitManualSell
             \/ ManualCloseFails \/ ManualQueueDrained \/ PollDone
             \/ \E s \in Signals : ManualFillPending(s)
    BY <2>2
    DEF DropManualClose, CancelStopForManualClose, SubmitManualSell, ManualCloseFails,
        ManualQueueDrained, PollDone, ManualFillPending, Goto, StartLoop, JournalStep
  <2>3. QED BY <1>2, <2>1, <2>2 DEF HandleManualCloses
<1>3. CASE FlattenAtClose
  BY <1>3
  DEF FlattenAtClose, BeforeClose, NothingToFlatten, StartFlatten, AllFlattened, CancelAll,
      CloseAll, FlattenFails, FlattenOne, Goto, StartLoop, JournalStep
<1>4. CASE AdvancePositions
  <2>1. ASSUME NEW s \in Signals, BookStopFill(s) PROVE JournalStep
    <3>1. s \in open /\ "stop_loss" \in Reasons
      BY <2>1 DEF BookStopFill, IInv, Rows, LoopOverOpen, Reasons
    <3>2. QED BY <2>1, <3>1, RecordExternalCloseJournal DEF BookStopFill, account
  <2>2. CASE Hold \/ RaiseStop \/ ReplaceStop \/ ReplaceRefused \/ ResubmitStop
             \/ ResubmitStopRaises \/ ExitPosition \/ AdvanceDone
             \/ \E s \in Signals : SkipClosing(s) \/ LookAtPosition(s)
    BY <2>2
    DEF Hold, RaiseStop, ReplaceStop, ReplaceRefused, ResubmitStop, ResubmitStopRaises,
        ExitPosition, AdvanceDone, SkipClosing, LookAtPosition, Goto, JournalStep
  <2>3. QED BY <1>4, <2>1, <2>2 DEF AdvancePositions
<1>5. CASE ClosePosition
  <2>1. CASE BookClose
    <3>1. cur \in open
      BY <2>1, CurrentOpen DEF BookClose, ClosePoints
    <3>2. "time_stop_1555" \in Reasons /\ "strategy_exit" \in Reasons
      BY DEF Reasons
    <3>3. QED BY <2>1, <3>1, <3>2 DEF BookClose, JournalStep, account
  <2>2. CASE CancelStopForClose \/ SubmitClose \/ CloseRaises
    BY <2>2 DEF CancelStopForClose, SubmitClose, CloseRaises, JournalStep
  <2>3. QED BY <1>5, <2>1, <2>2 DEF ClosePosition
<1>6. CASE ReconcilePositions
  <2>1. ASSUME NEW s \in Signals, BookManualGhost(s) \/ BookGhost(s) \/ BookGhostBlind(s)
        PROVE  JournalStep
    <3>1. /\ s \in open
          /\ {"manual_close", "stop_loss", "external_close"} \subseteq Reasons
      BY <2>1 DEF BookManualGhost, BookGhost, BookGhostBlind, IInv, Rows, LoopOverOpen, Reasons
    <3>2. CASE BookManualGhost(s) \/ BookGhost(s)
      BY <3>1, <3>2, RecordExternalCloseJournal DEF BookManualGhost, BookGhost, account
    <3>3. CASE BookGhostBlind(s)
      BY <3>1, <3>3 DEF BookGhostBlind, JournalStep, account
    <3>4. QED BY <2>1, <3>2, <3>3
  <2>2. CASE SkipReconcile \/ FindGhosts \/ GhostsDone \/ \E s \in Signals : DeferGhost(s)
    BY <2>2 DEF SkipReconcile, FindGhosts, GhostsDone, DeferGhost, Goto, StartLoop,
                JournalStep
  <2>3. QED BY <1>6, <2>1, <2>2 DEF ReconcilePositions
<1>7. CASE StartTick \/ Surroundings \/ UNCHANGED vars
  BY <1>7
  DEF StartTick, Goto, Surroundings, RequestManualClose, Crash, Restart, PostArrives,
      AccountMoves, CloseApproaches, NextSession, vars, JournalStep
<1>8. QED BY <1>1, <1>2, <1>3, <1>4, <1>5, <1>6, <1>7 DEF Next, Tick, Surroundings

\* A step of the book is a step of the ledger, or does not touch what it shows.
LEMMA LedgerStep ==
    ASSUME IInv, IInv', Sells, Sells', Purchases, [Next]_vars
    PROVE  [Ledger!Next]_<<Bought, taken, trades>>
<1>1. \/ Bought' = Bought
      \/ \E s \in Signals \ Bought : orders' # orders /\ Bought' = Bought \union {s}
  BY StepDeals, BoughtMoves
<1>2. JournalStep
  BY StepJournal
<1>3. UNCHANGED orders => Bought' = Bought
  BY <1>1
<1>4. CASE UNCHANGED journal
  <2>1. CASE Bought' = Bought
    BY <1>4, <2>1 DEF journal
  <2>2. ASSUME NEW s \in Signals \ Bought, Bought' = Bought \union {s} PROVE Ledger!Next
    BY <1>4, <2>2 DEF Ledger!Next, Ledger!Buy, journal
  <2>3. QED BY <1>1, <2>1, <2>2
<1>5. CASE UNCHANGED orders /\ MarkTaken
  <2>1. /\ cur \in Signals /\ cur \in Bought /\ trades[cur] = <<>>
        /\ taken' = [taken EXCEPT ![cur] = TRUE] /\ trades' = trades
    BY <1>5 DEF MarkTaken, IInv, Rows, CurrentSignal, EntryPoints, Purchases, BoughtFirst
  <2>2. CASE taken[cur]
    BY <1>3, <1>5, <2>1, <2>2 DEF IInv, TypeOK
  <2>3. CASE ~taken[cur]
    <3>1. Ledger!Take(cur)
      BY <1>3, <1>5, <2>1, <2>3 DEF Ledger!Take
    <3>2. QED BY <2>1, <3>1 DEF Ledger!Next
  <2>4. QED BY <2>2, <2>3
<1>6. ASSUME UNCHANGED <<orders, taken>>, NEW s \in open, NEW reason \in Reasons,
             AppendTrade(s, reason)
      PROVE  Ledger!Next
  <2>1. s \in Signals /\ s \in Bought /\ trades[s] = <<>>
    BY DEF IInv, TypeOK, Rows, OpenHasNoRow, Purchases, BoughtFirst
  <2>2. trades' = [trades EXCEPT ![s] = <<reason>>]
    <3>1. Append(trades[s], reason) = <<reason>>
      BY <2>1
    <3>2. QED BY <1>6, <3>1 DEF AppendTrade
  <2>3. Ledger!Book(s)
    BY <1>3, <1>6, <2>1, <2>2 DEF Ledger!Book
  <2>4. QED BY <2>1, <2>3 DEF Ledger!Next
<1>7. QED BY <1>2, <1>4, <1>5, <1>6 DEF JournalStep

LEMMA InitLedger == Init => Ledger!Init
<1> SUFFICES ASSUME Init PROVE Ledger!Init
  OBVIOUS
<1>1. Bought = {}
  BY DEF Init, AccountInit, UnusedOrder, Bought, Filled
<1>2. QED BY <1>1 DEF Init, Ledger!Init

\* The option book implements the journal's promise: one purchase, one flag and one trades
\* row per signal, in that order, whatever fails, dies or is adopted again in between.
THEOREM KeepsLedger == Spec => Implements
<1>1. IInv /\ Sells /\ Guards /\ Purchases /\ [Next]_vars
        => IInv' /\ Sells' /\ Guards' /\ Purchases' /\ [Ledger!Next]_<<Bought, taken, trades>>
  <2>1. IInv /\ [Next]_vars => IInv'
    BY TypePreserved, RowsPreserved DEF IInv
  <2>2. IInv /\ Sells /\ [Next]_vars => Sells'
    BY <2>1, SellsPreserved
  <2>3. QED
    BY <2>1, <2>2, GuardsPreserved, PurchasesPreserved, LedgerStep
<1>2. Init => IInv /\ Sells /\ Guards /\ Purchases /\ Ledger!Init
  BY InitIInv, InitSells, InitPurchases, InitLedger
  DEF Init, Guards, Marks, Places, ClosePoints
<1>3. QED BY <1>1, <1>2, PTL DEF Spec, Implements, Ledger!Spec
=============================================================================
