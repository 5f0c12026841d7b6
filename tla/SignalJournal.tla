---------------------------- MODULE SignalJournal ----------------------------
(***************************************************************************)
(* What a signal leaves in the journal: its verdict, the entry, monitor    *)
(* and exit snapshots of its position, the trades row with its extremes,   *)
(* and the prices of the study that follows every signal.                  *)
(*                                                                         *)
(* One tick runs through posts, positions, due snapshots, the              *)
(* reconciliation and the price tracks; every row is a step.  The orders   *)
(* behind it are module OptionBook: here a position is sold or it is not.  *)
(***************************************************************************)
EXTENDS SignalGates, FiniteSets, FiniteSetsExt

CONSTANTS
    NumSignals,         \* bound of the signal ids
    Offsets,            \* _PRICE_TRACK_OFFSETS_MIN
    Grace,              \* _PRICE_TRACK_GRACE
    Interval,           \* DEFAULT_INTERVAL of the scheduler
    ReconcileEvery,     \* _RECONCILE_EVERY_N_TICKS
    CloseTime,          \* 15:55
    Horizon,            \* bound: the last instant, after the close
    Gains,              \* unrealized gains a quote may show, in percent
    Budgets             \* bound: how much of what happens in one behaviour

ASSUME JournalAssumption ==
    /\ NumSignals \in Nat /\ Offsets \subseteq Nat /\ Gains \subseteq Int
    /\ IsFiniteSet(Gains)
    /\ {Grace, Interval, ReconcileEvery} \subseteq Nat \ {0}
    /\ ReconcileEvery <= Grace      \* a pass falls into every window
    /\ CloseTime \in Nat /\ Horizon \in Nat /\ CloseTime <= Horizon

Signals == 1 .. NumSignals
Time == 0 .. Horizon
Never == -1

Untracked == [last |-> Never, gain |-> 0, loss |-> 0]
NoRow == [gain |-> Never, loss |-> Never, written |-> FALSE]

VARIABLES
    now,
    pc, cur, back,      \* the tick loop, the signal it is at, and where it goes on
    todo, due,          \* positions and price tracks its loops still visit
    count,              \* tick_count, modulo ReconcileEvery
    open,               \* _open_positions
    tracked,            \* SnapshotScheduler._tracked
    parsedAt,           \* signals.parsed_at
    verdict,            \* signals.rejection_reason
    taken,              \* signals.taken
    entries,            \* signals with an entry snapshot
    exits,              \* signal -> its exit snapshots
    trades,             \* signal -> its trades row
    tracks,             \* signal -> offset -> captured_at
    held,               \* signals whose position is on the account
    seen,               \* history: gains seen since the position was registered
    monitored,          \* history: the last monitor row of this process
    missed,             \* history: positions whose capture raised in this tick
    disturbed,          \* history: when the bot was down or a pass raised
    done                \* bound: what has happened so far

loop == <<pc, cur, back, todo, due, count>>
memory == <<open, tracked>>
rows == <<parsedAt, verdict, taken, entries, exits, trades, tracks>>
history == <<seen, monitored, missed, disturbed>>
vars == <<now, loop, memory, rows, held, history, done>>

Kinds == {"rejected", "entered", "failed", "ended"}
Affordable(d) == \E b \in Budgets : \A k \in Kinds : d[k] <= b[k]
Happens(k) ==
    /\ done' = [done EXCEPT ![k] = @ + 1]
    /\ Affordable(done')

Loops == {"manual", "advance", "flatten", "reconcile"}
PCs == Loops \union {"down", "idle", "posts", "entrySnapshot", "markTaken", "closeSnapshot",
                     "closeRow", "externalSnapshot", "externalRow", "snapshots", "tracks"}
TypeOK ==
    /\ now \in Time /\ pc \in PCs /\ cur \in Signals \union {0} /\ back \in Loops
    /\ todo \subseteq Signals /\ due \subseteq Signals \X Offsets
    /\ count \in 0 .. ReconcileEvery - 1
    /\ open \subseteq Signals
    /\ tracked \in [Signals -> [last : Time \union {Never}, gain : Int, loss : Int]]
    /\ parsedAt \in [Signals -> Time \union {Never}]
    /\ verdict \in [Signals -> Reasons \union {"downstream"}]
    /\ taken \subseteq Signals /\ entries \subseteq Signals /\ exits \in [Signals -> Nat]
    /\ trades \in [Signals -> [gain : Int, loss : Int, written : BOOLEAN]]
    /\ tracks \in [Signals -> [Offsets -> Time \union {Never}]]
    /\ held \subseteq Signals
    /\ seen \in [Signals -> SUBSET Gains]
    /\ monitored \in [Signals -> Time \union {Never}]
    /\ missed \subseteq Signals /\ disturbed \subseteq Time
    /\ done \in [Kinds -> Nat]

Init ==
    /\ now = 0 /\ pc = "idle" /\ cur = 0 /\ back = "advance" /\ todo = {} /\ due = {} /\ count = 0
    /\ open = {} /\ tracked = [s \in Signals |-> Untracked]
    /\ parsedAt = [s \in Signals |-> Never] /\ verdict = [s \in Signals |-> ""]
    /\ taken = {} /\ entries = {} /\ exits = [s \in Signals |-> 0]
    /\ trades = [s \in Signals |-> NoRow]
    /\ tracks = [s \in Signals |-> [o \in Offsets |-> Never]]
    /\ held = {}
    /\ seen = [s \in Signals |-> {}] /\ monitored = [s \in Signals |-> Never]
    /\ missed = {} /\ disturbed = {}
    /\ done = [k \in Kinds |-> 0]

-----------------------------------------------------------------------------
(* Posts: verdict, entry, registration, entry snapshot. *)

Goto(here, there) == pc = here /\ pc' = there

\* A tick takes its time once, at its start: time is counted in ticks, and after the
\* close it may stand still.
BeginTick ==
    /\ Goto("idle", "posts")
    /\ now' = IF now < Horizon THEN now + 1 ELSE now
    /\ missed' = {}
    /\ UNCHANGED <<cur, back, todo, due, count, memory, rows, held, seen, monitored, disturbed,
                   done>>

NewSignal(s) ==
    /\ pc = "posts" /\ parsedAt[s] = Never
    /\ \A t \in 1 .. s - 1 : parsedAt[t] # Never
    /\ parsedAt' = [parsedAt EXCEPT ![s] = now]

\* A gate or the sizing rejects it, or later the risk check or the missing fill.
SignalRejected(s) ==
    /\ NewSignal(s) /\ Happens("rejected")
    /\ \E v \in Verdicts : verdict' = [verdict EXCEPT ![s] = IF v = "" THEN "downstream" ELSE v]
    /\ UNCHANGED <<now, loop, memory, taken, entries, exits, trades, tracks, held, history>>

\* The entry fills: the record, then the scheduler, which starts at the tick's time.
Register(s, openedAt) ==
    tracked' = [tracked EXCEPT ![s] = [last |-> openedAt, gain |-> 0, loss |-> 0]]

PositionOpened(s) ==
    /\ NewSignal(s) /\ "" \in Verdicts
    /\ Happens("entered")
    /\ pc' = "entrySnapshot" /\ cur' = s
    /\ open' = open \union {s} /\ held' = held \union {s}
    /\ Register(s, now)
    /\ seen' = [seen EXCEPT ![s] = {}]
    /\ UNCHANGED <<now, back, todo, due, count, verdict, taken, entries, exits, trades,
                   tracks, monitored, missed, disturbed>>

EntrySnapshot ==
    /\ Goto("entrySnapshot", "markTaken")
    /\ entries' = entries \union {cur}
    /\ UNCHANGED <<now, cur, back, todo, due, count, memory, parsedAt, verdict, taken, exits,
                   trades, tracks, held, history, done>>

MarkTaken ==
    /\ Goto("markTaken", "posts")
    /\ taken' = taken \union {cur} /\ cur' = 0
    /\ UNCHANGED <<now, back, todo, due, count, memory, parsedAt, verdict, entries, exits,
                   trades, tracks, held, history, done>>

\* Faulty variant: the snapshot's exception is swallowed and the entry goes on.
EntryRaisesGoesOn ==
    /\ \/ pc = "entrySnapshot" /\ pc' = "markTaken" /\ UNCHANGED cur
       \/ pc = "markTaken" /\ pc' = "posts" /\ cur' = 0
    /\ Happens("failed")
    /\ UNCHANGED <<now, back, todo, due, count, memory, rows, held, history>>

\* post_handler_crash: the position stays, without its row or without its flag.
EntryRaises ==
    /\ Goto("entrySnapshot", "posts") \/ Goto("markTaken", "posts")
    /\ Happens("failed")
    /\ cur' = 0
    /\ UNCHANGED <<now, back, todo, due, count, memory, rows, held, history>>

Late == now >= CloseTime

StartLoop(here, there, positions) == Goto(here, there) /\ todo' = positions

PostsDrained ==
    /\ StartLoop("posts", "manual", open \ held)
    /\ UNCHANGED <<now, cur, back, due, count, memory, rows, held, history, done>>

HandlePosts ==
    \/ BeginTick \/ EntrySnapshot \/ MarkTaken \/ EntryRaises \/ PostsDrained
    \/ \E s \in Signals : SignalRejected(s) \/ PositionOpened(s)

-----------------------------------------------------------------------------
(* Positions: quotes, closes, fills the bot did not cause. *)

\* The stop fills, or somebody sells: it matters before the next look at the account.
SoldOutside ==
    /\ pc \in {"idle", "advance", "snapshots", "down"}
    /\ \E s \in held : held' = held \ {s}
    /\ UNCHANGED <<now, loop, memory, rows, history, done>>

\* The manual-close poll, the stop poll or the reconciliation finds the fill.
FillFound(s) ==
    /\ pc \in {"manual", "advance", "reconcile"} /\ s \in todo \ held
    /\ pc' = "externalSnapshot" /\ cur' = s /\ back' = pc /\ todo' = todo \ {s}
    /\ UNCHANGED <<now, due, count, memory, rows, held, history, done>>

\* The poll saw no fill, there is no quote, or the reconciliation meets a manual close in
\* flight: the next tick looks again.
LeftAlone(s) ==
    /\ pc \in {"manual", "advance", "reconcile"} /\ s \in todo
    /\ todo' = todo \ {s}
    /\ UNCHANGED <<now, pc, cur, back, due, count, memory, rows, held, history, done>>

\* update_extremes.
GainSeen(s, g) ==
    /\ tracked' = [tracked EXCEPT ![s].gain = Max({@, g}), ![s].loss = Min({@, g})]
    /\ seen' = [seen EXCEPT ![s] = @ \union {g}]

Advanced(s) ==
    /\ pc = "advance" /\ s \in todo
    /\ todo' = todo \ {s}
    /\ \E g \in Gains : GainSeen(s, g)
    /\ UNCHANGED <<now, pc, cur, back, due, count, open, rows, held, monitored, missed,
                   disturbed, done>>

\* The strategy wants out, with the quote it has just seen, or it is 15:55.
CloseStarted(s) ==
    /\ s \in todo
    /\ \/ pc = "advance" /\ \E g \in Gains : GainSeen(s, g)
       \/ pc = "flatten" /\ UNCHANGED <<tracked, seen>>
    /\ pc' = "closeSnapshot" /\ cur' = s /\ back' = pc /\ todo' = todo \ {s}
    /\ held' = held \ {s}
    /\ UNCHANGED <<now, due, count, open, rows, monitored, missed, disturbed, done>>

\* close_trade: the exit snapshot, then the trades row with the scheduler's extremes,
\* then the scheduler forgets the position, and the caller drops the record.
ExitSnapshot ==
    /\ \/ Goto("closeSnapshot", "closeRow") \/ Goto("externalSnapshot", "externalRow")
    /\ exits' = [exits EXCEPT ![cur] = @ + 1]
    /\ UNCHANGED <<now, cur, back, todo, due, count, memory, parsedAt, verdict, taken,
                   entries, trades, tracks, held, history, done>>

TradeRow ==
    /\ pc \in {"closeRow", "externalRow"} /\ pc' = back /\ cur' = 0
    /\ trades' = [trades EXCEPT ![cur] = [gain |-> tracked[cur].gain,
                                          loss |-> tracked[cur].loss, written |-> TRUE]]
    /\ tracked' = [tracked EXCEPT ![cur] = Untracked]
    /\ open' = open \ {cur}
    /\ UNCHANGED <<now, back, todo, due, count, parsedAt, verdict, taken, entries, exits,
                   tracks, held, history, done>>

\* _close_position raises: the record stays for the next tick.  Out of the flatten the
\* exception leaves its loop, and tick() goes on with the advance.
CloseRaises ==
    /\ pc \in {"closeSnapshot", "closeRow"}
    /\ cur' = 0
    /\ IF back = "flatten" THEN pc' = "advance" /\ todo' = open
       ELSE pc' = back /\ UNCHANGED todo
    /\ Happens("failed")
    /\ UNCHANGED <<now, back, due, count, memory, rows, held, history>>

\* _record_external_close drops the record without its row; the scheduler keeps it.
ExternalCloseRaises ==
    /\ pc \in {"externalSnapshot", "externalRow"} /\ pc' = back
    /\ open' = open \ {cur} /\ cur' = 0
    /\ Happens("failed")
    /\ UNCHANGED <<now, back, todo, due, count, tracked, rows, held, history>>

ManualDone ==
    /\ todo = {}
    /\ StartLoop("manual", IF Late THEN "flatten" ELSE "advance", open)
    /\ UNCHANGED <<now, cur, back, due, count, memory, rows, held, history, done>>

FlattenDone ==
    /\ todo = {} /\ Goto("flatten", "idle")
    /\ UNCHANGED <<now, cur, back, todo, due, count, memory, rows, held, history, done>>

\* The equity flatten before the loop, or list_open_orders or flatten_all around it.
FlattenRaises ==
    /\ todo \in {{}, open} /\ StartLoop("flatten", "advance", open)
    /\ Happens("failed")
    /\ UNCHANGED <<now, cur, back, due, count, memory, rows, held, history>>

\* The account cannot be listed, or the pass raises on the way: the next pass looks again.
ReconcileRaises ==
    /\ pc = "reconcile" /\ todo # {} /\ todo' = {}
    /\ Happens("failed")
    /\ UNCHANGED <<now, pc, cur, back, due, count, memory, rows, held, history>>

AdvancePositions ==
    \/ \E s \in Signals : FillFound(s) \/ LeftAlone(s) \/ Advanced(s) \/ CloseStarted(s)
    \/ ExitSnapshot \/ TradeRow \/ CloseRaises \/ ExternalCloseRaises
    \/ ManualDone \/ FlattenDone \/ FlattenRaises \/ ReconcileRaises

-----------------------------------------------------------------------------
(* Monitor snapshots. *)

\* positions_due.
PositionsDue == {s \in Signals : tracked[s] # Untracked /\ now - tracked[s].last >= Interval}

AdvanceDone ==
    /\ todo = {}
    /\ StartLoop("advance", "snapshots", PositionsDue)
    /\ UNCHANGED <<now, cur, back, due, count, memory, rows, held, history, done>>

\* The scheduler may still know a position the book has dropped.
SkipClosed(s) ==
    /\ pc = "snapshots" /\ s \in todo \ open
    /\ todo' = todo \ {s}
    /\ UNCHANGED <<now, pc, cur, back, due, count, memory, rows, held, history, done>>

\* Faulty variant: the row is written and the scheduler not told.
MonitorNotMarked(s) ==
    /\ pc = "snapshots" /\ s \in todo \intersect open
    /\ todo' = todo \ {s}
    /\ monitored' = [monitored EXCEPT ![s] = now]
    /\ UNCHANGED <<now, pc, cur, back, due, count, memory, rows, held, seen, missed, disturbed,
                   done>>

\* Faulty variant: the position is registered anew, and its extremes with it.
MonitorReregisters(s) ==
    /\ pc = "snapshots" /\ s \in todo \intersect open
    /\ todo' = todo \ {s}
    /\ monitored' = [monitored EXCEPT ![s] = now]
    /\ Register(s, now)
    /\ UNCHANGED <<now, pc, cur, back, due, count, open, rows, held, seen, missed, disturbed,
                   done>>

MonitorSnapshot(s) ==
    /\ pc = "snapshots" /\ s \in todo \intersect open
    /\ todo' = todo \ {s}
    /\ monitored' = [monitored EXCEPT ![s] = now]
    /\ tracked' = [tracked EXCEPT ![s].last = now]
    /\ UNCHANGED <<now, pc, cur, back, due, count, open, rows, held, seen, missed, disturbed,
                   done>>

\* Faulty variant: the exception leaves the loop over the positions.
MonitorRaisesStops(s) ==
    /\ pc = "snapshots" /\ s \in todo \intersect open
    /\ todo' = {} /\ missed' = missed \union {s}
    /\ Happens("failed")
    /\ UNCHANGED <<now, pc, cur, back, due, count, memory, rows, held, seen, monitored,
                   disturbed>>

\* The insert raises: this position is due again in the next tick.
MonitorRaises(s) ==
    /\ pc = "snapshots" /\ s \in todo \intersect open
    /\ todo' = todo \ {s} /\ missed' = missed \union {s}
    /\ Happens("failed")
    /\ UNCHANGED <<now, pc, cur, back, due, count, memory, rows, held, seen, monitored,
                   disturbed>>

\* tick_count, and every ReconcileEvery-th tick the reconciliation and the tracks.
SnapshotsDone ==
    /\ pc = "snapshots" /\ todo = {}
    /\ count' = (count + 1) % ReconcileEvery
    /\ IF count' = 0 THEN pc' = "reconcile" /\ todo' = open \ held
       ELSE pc' = "idle" /\ UNCHANGED todo
    /\ UNCHANGED <<now, cur, back, due, memory, rows, held, history, done>>

TakeSnapshots ==
    \/ AdvanceDone \/ SnapshotsDone
    \/ \E s \in Signals : SkipClosed(s) \/ MonitorSnapshot(s) \/ MonitorRaises(s)

-----------------------------------------------------------------------------
(* Price tracks: the query, then a row per signal and offset. *)

InWindow(s, o, t) == parsedAt[s] + o <= t /\ t < parsedAt[s] + o + Grace

\* Faulty variant: the query has no upper bound.
TracksDueLate == {so \in Signals \X Offsets :
    /\ parsedAt[so[1]] # Never /\ tracks[so[1]][so[2]] = Never
    /\ parsedAt[so[1]] + so[2] <= now}

TracksDue == {so \in Signals \X Offsets :
    /\ parsedAt[so[1]] # Never /\ tracks[so[1]][so[2]] = Never
    /\ InWindow(so[1], so[2], now)}

ReconcileDone ==
    /\ todo = {} /\ Goto("reconcile", "tracks")
    /\ due' = TracksDue
    /\ UNCHANGED <<now, cur, back, todo, count, memory, rows, held, history, done>>

\* With the mid of the quote, or NULL when there is none.
CaptureTrack ==
    /\ pc = "tracks"
    /\ \E so \in due :
          /\ due' = due \ {so}
          /\ tracks' = [tracks EXCEPT ![so[1]][so[2]] = now]
    /\ UNCHANGED <<now, pc, cur, back, todo, count, memory, parsedAt, verdict, taken, entries,
                   exits, trades, held, history, done>>

\* The query or an insert raises: the rest of the pass is left to the next one.
TrackRaises ==
    /\ Goto("tracks", "idle")
    /\ due' = {} /\ disturbed' = disturbed \union {now}
    /\ Happens("failed")
    /\ UNCHANGED <<now, cur, back, todo, count, memory, rows, held, seen, monitored, missed>>

TracksDone ==
    /\ due = {} /\ Goto("tracks", "idle")
    /\ UNCHANGED <<now, cur, back, todo, due, count, memory, rows, held, history, done>>

CaptureTracks == ReconcileDone \/ CaptureTrack \/ TrackRaises \/ TracksDone

-----------------------------------------------------------------------------
(* Death and restart. *)

Crash ==
    /\ pc # "down" /\ Happens("ended")
    /\ pc' = "down" /\ cur' = 0 /\ back' = "advance" /\ todo' = {} /\ due' = {} /\ count' = 0
    /\ open' = {} /\ tracked' = [s \in Signals |-> Untracked]
    /\ monitored' = [s \in Signals |-> Never] /\ missed' = {}
    /\ disturbed' = disturbed \union {now}
    /\ UNCHANGED <<now, rows, held, seen>>

TimePasses ==
    /\ pc = "down" /\ now < Horizon
    /\ now' = now + 1 /\ disturbed' = disturbed \union {now'}
    /\ UNCHANGED <<loop, memory, rows, held, seen, monitored, missed, done>>

Adoptable == {s \in taken \intersect held : ~trades[s].written}

\* _adopt_position: the position was opened when its signal was parsed.
Restart ==
    /\ Goto("down", "idle")
    /\ open' = Adoptable
    /\ tracked' = [s \in Signals |-> IF s \in Adoptable
                                     THEN [last |-> parsedAt[s], gain |-> 0, loss |-> 0]
                                     ELSE Untracked]
    /\ seen' = [s \in Signals |-> IF trades[s].written THEN seen[s] ELSE {}]
    /\ UNCHANGED <<now, cur, back, todo, due, count, rows, held, monitored, missed, disturbed,
                   done>>

-----------------------------------------------------------------------------

Next ==
    \/ HandlePosts \/ AdvancePositions \/ TakeSnapshots \/ CaptureTracks
    \/ SoldOutside \/ Crash \/ TimePasses \/ Restart

Spec == Init /\ [][Next]_vars

-----------------------------------------------------------------------------
(* Properties. *)

\* "Entry and exit snapshots always present for every trade": the trades row is
\* written after the exit snapshot, on every path and every retry; one without an
\* entry snapshot belongs to a signal whose entry raised and was never marked taken.
SnapshotsFrameTrade ==
    \A s \in Signals : trades[s].written => exits[s] > 0 /\ (s \in entries \/ s \notin taken)

\* max_gain_pct and max_loss_pct are the extremes of every quote the process has seen
\* since it entered or adopted the position, whatever raised in between.
ExtremesCoverRun ==
    \A s \in Signals : trades[s].written =>
        /\ trades[s].gain = Max(seen[s] \union {0})
        /\ trades[s].loss = Min(seen[s] \union {0})

\* What is bought was worth its order, whatever Alpaca and Polygon answer.
EntriesAreSound == held # {} => SoundOrders

\* A process does not write two monitor snapshots of a position within Interval.
SnapshotsSpaced ==
    [][\A s \in Signals :
        monitored'[s] \notin {monitored[s], Never} =>
            monitored[s] = Never \/ now - monitored[s] >= Interval]_vars

\* "Open position accumulates snapshots every 15 minutes": no tick leaves a position
\* overdue, adopted or not, except the one whose own capture raised.
SnapshotsKeepUp ==
    [][pc = "snapshots" /\ pc' \in {"idle", "reconcile"} =>
        \A s \in open \ missed : now - tracked[s].last < Interval]_vars

\* A price is recorded inside its window; and when the window is over the row is
\* there, unless the bot was down or a pass raised in that window, or it reaches
\* past the close.  A restart between windows loses nothing.
TracksOnTime ==
    \A s \in Signals, o \in Offsets :
        /\ tracks[s][o] # Never => InWindow(s, o, tracks[s][o])
        /\ parsedAt[s] # Never /\ pc = "idle" /\ now >= parsedAt[s] + o + Grace =>
              \/ tracks[s][o] # Never
              \/ \E t \in disturbed : InWindow(s, o, t)
              \/ parsedAt[s] + o + Grace > CloseTime
=============================================================================
