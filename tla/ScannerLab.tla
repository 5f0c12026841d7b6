----------------------------- MODULE ScannerLab -----------------------------
(***************************************************************************)
(* The scanner thread of the orchestrator on one trading day: scanner_loop *)
(* calls ScannerLab.scan every five minutes while the market is open; a    *)
(* scan fetches each ticker's bars, runs every hypothesis on them and      *)
(* inserts what it finds into scanner_events; what was new is put on the   *)
(* queue the tick loop drains.                                             *)
(*                                                                         *)
(* Every fetch and insert is a step of its own: the clock moves on between *)
(* them, a call fails, the process dies and is started again.              *)
(***************************************************************************)
EXTENDS Detectors, Functions

CONSTANTS
    Tickers,        \* the universe
    Hypotheses,     \* the enabled detectors, in the order of the dictionary
    Prior,          \* ticker -> [high, low, close] of the day before
    Days,           \* the days that may come: ticker -> its bars, by time
    FormingBars,    \* what a bar that is not over may look like
    Open,           \* the slot of 09:30
    LastSlot,       \* the slot in which the market is closed again
    Limit,          \* how many bars a fetch returns at most: 80 in the code
    BacktestCutoff, \* the breakout cutoff of the backtest, 12:00
    MaxMishaps      \* bound: calls that fail and deaths of the process

Keys == {Hypotheses[i] : i \in DOMAIN Hypotheses} \X Tickers

\* A day's bars are in the order of their slots; one without a trade has none.
Bar == [ts : Nat, open : Nat, high : Nat, low : Nat, close : Nat, volume : Nat]
InOrder(seq) == \A i, j \in DOMAIN seq : i < j => seq[i].ts < seq[j].ts

ASSUME LabAssumption ==
    /\ Hypotheses \in Seq(Names)
    /\ {Open, LastSlot, Limit, BacktestCutoff, MaxMishaps} \subseteq Nat
    /\ Open <= LastSlot
    /\ LastSlot - Earliest <= Limit     \* "78 5-min bars in a 6.5h RTH session"
    /\ Cutoff <= BacktestCutoff
    /\ FormingBars \subseteq Bar
    /\ \A d \in Days : d \in [Tickers -> Seq(Bar)] /\ \A t \in Tickers : InOrder(d[t])

VARIABLES
    day,            \* what the market does today
    slot,           \* five-minute slots that are over
    marketOpen,     \* OrchestratorState.market_open
    pc,             \* where the scanner thread is
    todo,           \* the tickers left in this scan
    cur,            \* the ticker it works on
    bars,           \* the bars it fetched
    uncut,          \* history: the limit of the fetch dropped none of the day's bars
    next,           \* the hypothesis to try on cur
    found,          \* key -> how often it is in new_events
    queued,         \* key -> how often it is on _scanner_signal_queue
    rows,           \* key -> its scanner_events row
    handed,         \* key -> history: signals the tick loop took for it
    faults, crashes

market == <<day, slot>>
scan == <<todo, cur, bars, uncut, next>>
bounds == <<faults, crashes>>
vars == <<market, marketOpen, pc, scan, found, queued, rows, handed, bounds>>

NoRow == [event |-> None, settled |-> FALSE]
Zero == [k \in Keys |-> 0]
Counts == [Keys -> Nat]
Journaled == {k \in Keys : rows[k] # NoRow}

Feed == INSTANCE EventFeed WITH Keys <- Keys, journaled <- Journaled, handed <- handed

TypeOK ==
    /\ day \in Days /\ slot \in Open .. LastSlot
    /\ marketOpen \in BOOLEAN
    /\ pc \in {"down", "sleeping", "tickers", "hypotheses", "putting"}
    /\ todo \in SUBSET Tickers /\ next \in 1 .. Len(Hypotheses) + 1
    /\ pc = "hypotheses" => cur \in Tickers
    /\ uncut \in BOOLEAN
    /\ DOMAIN rows = Keys
    /\ found \in Counts /\ queued \in Counts /\ handed \in Counts
    /\ faults \in Nat /\ crashes \in Nat

Init ==
    /\ day \in Days /\ slot = Open /\ marketOpen = FALSE
    /\ pc = "sleeping" /\ todo = {} /\ cur = 0 /\ bars = <<>> /\ uncut = TRUE
    /\ next = 1 /\ found = Zero /\ queued = Zero
    /\ rows = [k \in Keys |-> NoRow]
    /\ handed = Zero /\ faults = 0 /\ crashes = 0

-----------------------------------------------------------------------------
(* ScannerLab.scan. *)

Fault == faults + crashes < MaxMishaps /\ faults' = faults + 1

StartScan ==
    /\ pc = "sleeping" /\ marketOpen
    /\ pc' = "tickers" /\ todo' = Tickers /\ found' = Zero
    /\ UNCHANGED <<market, marketOpen, cur, bars, uncut, next, queued, rows, handed, bounds>>

Closed(t) == Restrict(day[t], {i \in DOMAIN day[t] : day[t][i].ts < slot})

\* get_underlying_bars keeps the newest bars only.
Recent(seq) == IF Len(seq) <= Limit THEN seq ELSE SubSeq(seq, Len(seq) - Limit + 1, Len(seq))

\* get_intraday_bars: the bars of the day, those before the open included, until now, and
\* perhaps the one in the making.
FetchBars(t) ==
    /\ pc = "tickers" /\ t \in todo
    /\ todo' = todo \ {t}
    /\ \E inTheMaking \in {<<>>} \union {<<[bar EXCEPT !.ts = slot]>> : bar \in FormingBars} :
        LET fetched == Closed(t) \o inTheMaking IN
        /\ inTheMaking = <<>> \/ slot < LastSlot
        /\ bars' = Recent(fetched)
        /\ uncut' = (Len(fetched) <= Limit)
    /\ IF bars' = <<>> THEN UNCHANGED <<pc, cur, next>>
       ELSE pc' = "hypotheses" /\ cur' = t /\ next' = 1
    /\ UNCHANGED <<market, marketOpen, found, queued, rows, handed, bounds>>

\* The fetch raised, or the data service swallowed the error and returned no bars.
FetchFails(t) ==
    /\ pc = "tickers" /\ t \in todo
    /\ Fault
    /\ todo' = todo \ {t}
    /\ UNCHANGED <<market, marketOpen, pc, cur, bars, uncut, next, found, queued, rows,
                   handed, crashes>>

Event(h) == Detect(h, bars, Prior[cur])

\* The running VWAP and the gap count from the first bar of the day.
NeedsOpening == {"vwap_reject", "gap_fade"}

\* History: did the event's last bar close before it was read, and did a hypothesis that
\* counts from the first bar have it?
Settled(h, event) == event.confirm < slot /\ (h \in NeedsOpening => uncut)

\* Faulty variant: the unique key forgets the scanner's name.
InsertOnePerTicker(h, event) ==
    IF \E k \in Keys : k[2] = cur /\ rows[k] # NoRow
    THEN UNCHANGED <<rows, found>>
    ELSE /\ rows' = [rows EXCEPT ![<<h, cur>>] = [event |-> event, settled |-> Settled(h, event)]]
         /\ found' = [found EXCEPT ![<<h, cur>>] = @ + 1]

\* Faulty variant: a row that is there already is reported as new.
InsertAlwaysNew(h, event) ==
    /\ rows' = [rows EXCEPT ![<<h, cur>>] = IF @ = NoRow
                  THEN [event |-> event, settled |-> Settled(h, event)] ELSE @]
    /\ found' = [found EXCEPT ![<<h, cur>>] = @ + 1]

\* insert_scanner_event: ON CONFLICT DO NOTHING on (scanner_name, ticker, event_day).
Insert(h, event) ==
    /\ rows' = [rows EXCEPT ![<<h, cur>>] = IF @ = NoRow
                  THEN [event |-> event, settled |-> Settled(h, event)] ELSE @]
    /\ found' = IF rows[<<h, cur>>] = NoRow THEN [found EXCEPT ![<<h, cur>>] = @ + 1] ELSE found

TryHypothesis ==
    /\ pc = "hypotheses" /\ next <= Len(Hypotheses)
    /\ next' = next + 1
    /\ LET h == Hypotheses[next] IN
       IF Event(h) = None THEN UNCHANGED <<rows, found>> ELSE Insert(h, Event(h))
    /\ UNCHANGED <<market, marketOpen, pc, todo, cur, bars, uncut, queued, handed, bounds>>

\* _record_scanner_event swallows what the insert raises.
InsertFails ==
    /\ pc = "hypotheses" /\ next <= Len(Hypotheses)
    /\ Event(Hypotheses[next]) # None
    /\ Fault
    /\ next' = next + 1
    /\ UNCHANGED <<market, marketOpen, pc, todo, cur, bars, uncut, found, queued, rows,
                   handed, crashes>>

TickerDone ==
    /\ pc = "hypotheses" /\ next > Len(Hypotheses)
    /\ pc' = "tickers"
    /\ UNCHANGED <<market, marketOpen, scan, found, queued, rows, handed, bounds>>

\* Faulty variant: the return value of scan() is dropped.
ScanDoneDropsEvents ==
    /\ pc = "tickers" /\ todo = {}
    /\ pc' = "sleeping"
    /\ UNCHANGED <<market, marketOpen, scan, found, queued, rows, handed, bounds>>

ScanDone ==
    /\ pc = "tickers" /\ todo = {}
    /\ pc' = "putting"
    /\ UNCHANGED <<market, marketOpen, scan, found, queued, rows, handed, bounds>>

\* _scanner_loop hands the new events to the tick loop.
PutSignal(k) ==
    /\ pc = "putting" /\ found[k] > 0
    /\ found' = [found EXCEPT ![k] = @ - 1]
    /\ queued' = [queued EXCEPT ![k] = @ + 1]
    /\ UNCHANGED <<market, marketOpen, pc, scan, rows, handed, bounds>>

Sleep ==
    /\ pc = "putting" /\ found = Zero
    /\ pc' = "sleeping"
    /\ UNCHANGED <<market, marketOpen, scan, found, queued, rows, handed, bounds>>

Scanner ==
    \/ StartScan \/ TryHypothesis \/ InsertFails \/ TickerDone \/ ScanDone \/ Sleep
    \/ \E t \in Tickers : FetchBars(t) \/ FetchFails(t)
    \/ \E k \in Keys : PutSignal(k)

-----------------------------------------------------------------------------
(* The tick loop, the process and the clock. *)

\* _drain_scanner_signal_queue.
TakeSignal(k) ==
    /\ pc # "down" /\ queued[k] > 0
    /\ queued' = [queued EXCEPT ![k] = @ - 1]
    /\ handed' = [handed EXCEPT ![k] = @ + 1]
    /\ UNCHANGED <<market, marketOpen, pc, scan, found, rows, bounds>>

\* _build_session_state: the flag is read by a scanner thread that wakes up.
SeeMarket ==
    /\ pc = "sleeping"
    /\ \/ marketOpen' = (slot < LastSlot) /\ UNCHANGED faults
       \/ marketOpen' = FALSE /\ Fault
    /\ UNCHANGED <<market, pc, scan, found, queued, rows, handed, crashes>>

\* A scan looks at the clock when it fetches: what it does with the bars it has
\* takes no time.
SlotEnds ==
    /\ slot < LastSlot /\ pc \in {"down", "sleeping", "tickers"}
    /\ slot' = slot + 1
    /\ UNCHANGED <<day, marketOpen, pc, scan, found, queued, rows, handed, bounds>>

Crash ==
    /\ pc # "down" /\ faults + crashes < MaxMishaps
    /\ crashes' = crashes + 1
    /\ pc' = "down" /\ marketOpen' = FALSE
    /\ todo' = {} /\ cur' = 0 /\ bars' = <<>> /\ uncut' = TRUE /\ next' = 1
    /\ found' = Zero /\ queued' = Zero
    /\ UNCHANGED <<market, rows, handed, faults>>

Restart ==
    /\ pc = "down" /\ pc' = "sleeping"
    /\ UNCHANGED <<market, marketOpen, scan, found, queued, rows, handed, bounds>>

Next ==
    \/ Scanner
    \/ \E k \in Keys : TakeSignal(k)
    \/ SeeMarket \/ SlotEnds \/ Crash \/ Restart

Spec == Init /\ [][Next]_vars

\* Both threads keep running and systemd restarts the process.  Nothing is assumed
\* of the clock: a slow scan may miss the close.
FairSpec ==
    /\ Spec
    /\ WF_vars(Scanner \/ Restart) /\ WF_vars(SeeMarket)
    /\ WF_vars(\E k \in Keys : TakeSignal(k))

-----------------------------------------------------------------------------
(* Properties. *)

\* What a scan records early, on the bars there are, is what a look at the whole day
\* finds: later bars never change a detection, and neither do scans that were missed,
\* failed or repeated, nor the bars before the open that a late fetch drops, for the two
\* hypotheses that have a level of their own.  Not meant are an event that rests on a bar
\* that was not over, and one of the VWAP or the gap on bars that no longer reach back to
\* the first: the code records both, and the day may not have them.
RecordedMatchesDay ==
    \A k \in Journaled :
        rows[k].settled => rows[k].event = Detect(k[1], day[k[2]], Prior[k[2]])

\* "Mirrors research.backtest_failed_breakout": over the whole day, and with its later
\* cutoff, the backtest finds the event the live scanner recorded.
BacktestEvents(t) ==
    LET Breaks(i) == /\ Earliest <= day[t][i].ts /\ day[t][i].ts < BacktestCutoff
                     /\ day[t][i].close > Prior[t].high
        Fails(i, j) == /\ i < j /\ day[t][j].ts <= day[t][i].ts + FailureWindow
                       /\ day[t][j].close < Prior[t].high
        events == {p \in (DOMAIN day[t]) \X (DOMAIN day[t]) :
                     /\ Breaks(p[1]) /\ \A b \in 1 .. p[1] - 1 : ~Breaks(b)
                     /\ Fails(p[1], p[2]) /\ \A f \in 1 .. p[2] - 1 : ~Fails(p[1], f)}
    IN  {Found(day[t][p[1]], day[t][p[2]]) : p \in events}
MirrorsBacktest ==
    \A k \in Journaled :
        k[1] = "failed_breakout" /\ rows[k].settled => rows[k].event \in BacktestEvents(k[2])

\* The scanner keeps its promise to the equity book: a key is journaled once a day
\* and handed over at most once, whatever dies between the insert and the queue.
KeepsFeed == Feed!Spec

\* An event the closed bars show is recorded, whatever failed on the way, unless the
\* market closes first, or the fetch no longer reaches back to the first bar of an event
\* that needs it.
Missed(k) ==
    /\ k \notin Journaled /\ Detect(k[1], Closed(k[2]), Prior[k[2]]) # None
    /\ k[1] \in NeedsOpening => Len(Closed(k[2])) < Limit
EventGetsRecorded ==
    (\E k \in Keys : Missed(k)) ~> (slot = LastSlot \/ \A k \in Keys : ~Missed(k))

\* A recorded event reaches the tick loop, unless the process dies: the row is
\* journaled before the hand-off, and no later scan hands it over again.
RecordedGetsHanded ==
    (\E k \in Journaled : handed[k] = 0) ~> (crashes > 0 \/ \A k \in Journaled : handed[k] > 0)
=============================================================================
