# A TLA+ model of the x-alpaca-trading-bot

The bot reads option trades from posts on X, buys the contracts on an Alpaca
paper account, manages each position with a trailing stop, and runs a second
book that shorts stocks on the events of a scanner.  This directory holds
TLA+ modules for the parts of it that move money, the TLC configurations that
check them, and TLAPS proofs of the properties that should hold whatever the
number of signals, orders, failing calls and restarts.

    tlc -workers 2 -config book_safety.cfg MCOptionBook    # one run
    tlapm OptionBookProofs.tla                             # one module's proofs

`PROJECT.json` lists the components, the runs, the source lines behind every
definition, and the hazards of the code with the properties that watch them.

## 1. The system

| Part | State it keeps | Operations |
|---|---|---|
| Orchestrator (`main.py`) | `_open_positions`, `_equity_positions`, three queues, `OrchestratorState` | `tick()` and its stages, the startup reconciliation, `request_manual_close` (API thread), `_on_x_post` (stream thread) |
| Executor (`executor.py`) | none: the Alpaca account | submit, cancel, replace, `wait_for_fill`, `flatten_all`, listings |
| Strategy (`strategy.py`) | an immutable `Position` | `open_position`, `evaluate` |
| Equity strategy (`equity_strategy.py`) | none | entry gate, exit rule |
| Risk manager (`risk_manager.py`) | none: the switches are in `OrchestratorState`, the trades in the database | `evaluate`, the session's profit and loss, the loss streak |
| Journal (`journal.py`), schema (`deploy/postgres_setup.sql`) | signals, orders, trades, snapshots, events, `scanner_trades` | one INSERT or UPDATE each |
| Snapshots (`snapshot.py`) | `_tracked` (when a position was last looked at, its extremes), `trade_monitor` rows, price tracks | register, take what is due, follow the extremes, close the trade |
| X stream, parser, validator | the listener thread, the queue, the last heartbeat | connect, keep alive, deliver; parse; validate; quote; size |
| Scanner thread (`scanners/`) | the event rows of the day, the hand-over queue | `scan()` over the detectors, the event journal, the hand-over |
| Config store, database connection (`config_store.py`, `db.py`) | a cached snapshot; one shared connection | reload, update; probe and reopen |
| API and WebSocket manager (`api/`) | connected clients | queries, "Sell now", broadcast |
| Data service, greeks, alerts | a quote cache; none; none | market data, arithmetic, Telegram |
| Dashboard, research, scripts, deployment | | presentation, analysis, systemd |

How they interact.  One orchestrator thread runs `tick()` in stages: posts (1),
manual closes (1b, 1c), scanner events (1d), the 15:55 flatten (2), the option
positions (3), the equity shorts (3b), snapshots (4), the risk pulse (5), the
reconciliation of the book with the account (6).  Each stage calls Alpaca and the
database synchronously and is wrapped in its own `except`.  Other threads reach
it through queues (the stream, the scanner, the API) or by writing to a record it
owns (`closing_in_progress`, the heartbeats).  The account changes on its own.

What is hard.  Every broker call is a point where the account, the user, the
clock or a crash can get in between.  A call that raises may have been carried
out.  The book lives in memory, the truth is split over the account and the
journal, and a restart rebuilds one from the other two.  No transaction spans an
order and its row, and `trades` has no unique key.

What would make it correct:

* option book: a trade is booked once and with the right reason; what is booked
  leaves the account; a tracked position is protected; the book is empty after
  15:55; a restart finds what the last process held;
* trailing stop: the order of the quotes does not matter; the stop on the
  broker's book follows the strategy's and never falls;
* kill switches: a day whose loss reached the limit takes no more posts, and the next
  day does; a trip is announced once; the others clear themselves;
* equity book: the open rows are the tracked shorts; a row is closed once; a
  short is covered once and not forgotten;
* scanner: what is recorded early is what the whole day shows; an event is recorded
  and handed over once, and neither missed nor kept back;
* post intake and configuration: what is acted on is committed, also on a connection
  that three threads share; the tick loop never sleeps on work; every thread reads
  the settings of the row;
* signal journal: a trade is framed by its snapshots and carries the extremes its process
  saw; snapshots keep their interval; the price study misses no window without a
  reason; what is bought was worth its order.

## 2. The modules

| Module | Models |
|---|---|
| `Broker` | the Alpaca account as the executor uses it: orders, positions, liquidations |
| `OptionBook` | the life of a `PositionRecord`: stages 1, 1b, 1c, 2, 3, 6 of `tick()` and `_reconcile_on_startup` |
| `TradeLedger` | what the option journal promises: one purchase, one flag and one trades row per signal, in that order |
| `TrailingStop` | one option position: `strategy.evaluate`, the push to the broker, re-adoption |
| `KillSwitches` | `risk_manager.evaluate`, what it is fed, the latch, the alerts, both entry gates |
| `EquityBook` | the life of an `EquityPositionRecord`: stages 1d, 2, 3b and `_reconcile_scanner_trades_on_startup` |
| `ShortLedger` | what the `scanner_trades` table promises: each row opened once, closed once |
| `Detectors` | the four hypotheses of `scanners/lab.py` and `failed_breakout.py` as functions of the bars |
| `ScannerLab` | the scanner thread on one day: `scanner_loop`, `scan()`, the `scanner_events` rows, the hand-over |
| `EventFeed` | what the scanner promises the equity book: a key is journaled once a day and handed over at most once |
| `SharedConnection` | the Postgres connection and its one transaction, as `db.py`, `journal.py` and `config_store.py` use it |
| `PostIntake` | the stream's callback, the scanner, `PATCH /config` and the tick loop on that connection: queues, wake event, inserts, settings |
| `SignalGates` | `get_option_quote`, `validator.validate` and `_compute_qty` as operators |
| `SignalJournal` | what a signal leaves behind: verdict, entry, monitor and exit snapshots, trades row, price tracks |
| `MCOptionBook`, `MCTrailingStop`, `MCKillSwitches`, `MCEquityBook`, `MCScannerLab`, `MCPostIntake`, `MCSignalJournal` | small instances for TLC |
| `BrokerProofs`, `OptionBookProofs`, `TrailingStopProofs`, `KillSwitchesProofs`, `EquityBookProofs`, `ScannerLabProofs`, `PostIntakeProofs`, `SignalJournalProofs` | the theorems |

`OptionBook` and `EquityBook` extend `Broker`; `OptionBook` implements `TradeLedger` (a signal
is `bought` when its entry order has filled, `taken` and `trades` are its own) and
`EquityBook` implements `ShortLedger` (`row` for `row`).  `ScannerLab` extends `Detectors` and
implements `EventFeed` (`Feed == INSTANCE EventFeed`, a key journaled when it has a row);
`EquityBook` takes its events the way `EventFeed` hands them.  `PostIntake` extends
`SharedConnection`: what its tick does with an accepted signal is `OptionBook`, whose
posts and verdicts are a choice; `SignalJournal` extends `SignalGates` and follows the
same signal through the journal, where a position is sold or it is not.

### How state and actions correspond to the code

*Program counter.*  `pc` is where the orchestrator thread is.  An action is the code
between two calls to the outside: it ends where the next broker or database call
would be made, so that everything else can happen in between.  A handler that makes
several calls is several actions (`SubmitEntry`, `EntryFilled`, `PlaceStop`,
`TrackPosition`, `MarkTaken` are `_handle_post`), in the order of the code, and no
other thread action can make the orchestrator skip one.  `todo` is what is left
of a `for record in list(...)` loop; `cur` the record it is at.

*Book.*  `open` and `tracked` are the keys of the two dictionaries, `rec` the mutable
fields of their records.  A record's immutable fields are looked up by its signal.
`trades[s]` is the sequence of the exit reasons of the signal's rows, so that a
second row shows.  `row[e]` is the status of the one row the unique key allows.

*Account.*  An order has a status of "new", "pending_cancel", "filled" or "dead" (the
code tells a filled order from every other terminal one and no further).  A
cancel may take effect at once or be pending, and a pending cancel may still lose
to a fill.  A submission that raises may have been accepted.  A replacement is
atomic.  `flatten_all` is two steps: the cancel requests, then
`close_all_positions`, whose liquidation orders are `liquidation`.  DAY orders
expire between sessions.  Somebody may close a position by hand.

*Failure.*  `Disturb` is charged by every call that raises, order the exchange
rejects and close by hand; the action then takes the `except` path of the code,
including how far it unwinds (`FlattenFails` abandons the loop, `LookFails` passes
on to the next record).  `Crash` is the death of the process at any point: the
memory is lost, the account and the journal stay.  A journal call that raises
is taken to have written nothing in the books, the scanner and the signal journal;
`PostIntake` shows when that fails.  An exception of `run()` outside `tick()`, as the
startup of the equity book can raise, ends the orchestrator's thread only: the
process lives on and systemd does not see it, so `EquityBook` takes its restart as
something an operator may do.

*Connection.*  psycopg opens a transaction with the first statement and ends it with a
commit or rollback.  `Visible` is what a connection reads: the committed rows and its
own.  A refused statement aborts the transaction for every thread, and the commit of
an aborted transaction is a rollback that reports nothing.  `with conn.transaction()`
is a transaction when the connection is idle and a savepoint when it is not.

*Time.*  `SignalJournal` counts ticks of the loop; interval, offsets, grace and the close
keep their order and overlaps on a smaller scale, and `parsed_at` is the tick that
drains the post.  `Detectors` counts five-minute slots from 04:00, where the first bar
before the open may be (in the code `Open` is slot 66, `LastSlot` 144 and the fetch's
`Limit` 80), and takes the clock constants as parameters, so that a day of seven slots, a
fetch of four bars and an `Open` at slot 2 have every boundary.  In `KillSwitches` a session is
a day of one process: `NextDay` comes after 15:55, between two ticks.

*Abstraction.*  Prices are abstract in the books: `strategy.evaluate` is a choice
between holding, raising and exiting, which `TrailingStop` makes exact for one
position.  Quantities are whole entry lots; partial fills are left out.  What the
parser makes of a text is a choice, and in the books so are the gates, which
`SignalGates` computes, and the risk switches, which `KillSwitches` does.  A row is its
kind and number where nothing reads its columns.  Logs, broadcasts and `events` rows
are left out where nothing reads them, but a call that writes one can raise.

*Numbers.*  `TrailingStop` computes in hundredths of a cent, so `0.95 * peak` is exact as
the code's `Decimal` is, and `Quantize` is the half-even rounding of `quantize`.
`KillSwitches` counts profits in units of one losing trade.  `SignalGates` computes in cents
and compares products instead of quotients, as exact as the code's `Decimal`.

## 3. What is checked

Every property of a passing run has a faulty variant of the code, written next to
the operator it changes (`... Faulty variant: ...`), for which TLC finds the
property violated.

A run has a set of `Budgets`: each says how many posts, failing calls, deaths and so on
one behaviour may have, and a behaviour stays within some of them.  Several small
corners in place of one box let each kind of fault meet each kind of work without
all of them together.

| Run | Bounds | Question and why they suffice |
|---|---|---|
| `book_safety` | 2 signals on 2 contracts; both together with a ratchet; one after the other with a death; 1 signal with a failing call and a death | `ProtectedBetweenTicks`, `ManualNeverExternal`, `BookedMeansLeaving`, `AdoptedAfterRestart`, `Implements`, `ManualSellLeftAlone`.  Two positions make a loop that is interrupted between its records; a second signal makes the query for "taken and not closed" choose; one position meets every path that closes it, with a failure and a death anywhere.  "Sell now" is left out of the second budget. |
| `book_live` | 1 signal, 1 failing call, 2 sessions, fairness | `ManualCloseResolved`, `BookEmptiesAtClose`, `TakenGetsBooked`. |
| `book_long_only` | 1 signal, no failure | finding: the account ends short. |
| `stop_trail` | quotes around every threshold of the trail, 2 failing calls, 1 restart, fairness | `StopFollowsBest`, `BookKeepsUp`, `BreakevenOnBook`, `BookNeverDown`, `StopCatchesUp`.  An entry of 120 cents and a stop of 17% make the first stop fall on half a cent. |
| `risk_gates` | 2 closing trades; 1 and a restart; 1 and a failing call; any number of days; fairness | `LossStopsPosts`, `DailyLossLatched`, `AlertedOnce`, `SelfHealing`: two losses reach both limits, one the daily limit.  A trade closes in any stage that books one: the startup, a manual fill, the flatten, the advance, the reconciliation. |
| `risk_next_day` | 1 closing trade, fairness | finding: the daily loss does not clear on the next day. |
| `risk_outage` | fairness, no failure | finding: the outage switch cannot trip. |
| `equity_book` | 2 events on 2 tickers with a close or a death; 1 with a failing call, a death and a close; 1 with two deaths and a close; fairness | `RowsTracked`, `ShortsProtected`, `CoveredOnce`, `ClosedIsCovered`, `Implements`, `ShortLeavesBook`. |
| `equity_dangling` | 1 event, no failure, fairness | finding: a row stays open. |
| `lab_day` | 11 shapes of a day of 5 slots after 2 before the open, 4 detectors, a fetch of 4 bars, a bar in the making, 1 failing call or death, fairness | `RecordedMatchesDay`, `MirrorsBacktest`, `KeepsFeed`, `EventGetsRecorded`, `RecordedGetsHanded`.  The shapes have breakouts that fail at once, later, over a missing bar and too late, a second breakout, a bar at a VWAP that moves away, and, with trades before the open, a gap that only shows once the first bar is dropped and events whose bars move up in a fetch that was cut.  Without the exclusion of `NeedsOpening` the run finds `RecordedMatchesDay` violated. |
| `intake_conn` | 2 posts, 1 event, 1 PATCH, 2 connections; a refused statement, a pruned connection with a failing reconnect, or the end of the process; fairness | `LogBeforeAct`, `HandedOnce`, `NeverSleepsOnWork`, `SettingsMatchRow`, `PostsGetTaken`.  Three threads write, each with another kind of row; a second post is there when the first one's insert fails. |
| `signal_journal` | 2 signals, a day of 8 ticks with 3 offsets of which 2 overlap, failing inserts and a death, a grid of quotes around a post of 3 cents and one of $2.50 | `SnapshotsFrameTrade`, `ExtremesCoverRun`, `TracksOnTime`, `EntriesAreSound`, `SnapshotsSpaced`, `SnapshotsKeepUp`. |

The bounds are constants, named where they are declared.  `MaxOrders` is large
enough that no run is stopped by it before its other bounds are; the theorems do
not depend on any of them.  The type invariants are in no run: they are proved.

### The properties

* `Implements` (`OptionBook`): the refinement of `TradeLedger`.  Six paths book a trade and
  none looks whether another did first; only the order of the row and of the removal from
  the book protects the table.  Nor is anything booked or flagged that was not bought.
* `ManualSellLeftAlone`: while a manual sell is pending nothing but the flatten sends
  an order for the position.
* `ProtectedBetweenTicks`: between two ticks of a session a position not being sold by
  hand has a stop that works, or that filled and waits to be booked.
* `ManualNeverExternal`: a trade the user closed is not booked at the entry price.
* `BookedMeansLeaving`: contracts that are held in a session although every trade on them is
  booked have a sell on its way, also when two signals share the contract.
* `AdoptedAfterRestart`: what is held for a taken, unbooked signal is tracked, in this or a
  later session, unless another signal trades its contract.
* `ManualCloseResolved`, `BookEmptiesAtClose`, `TakenGetsBooked`: a flagged position gets
  out, rolls back, or its sell is dead; the book empties after 15:55 though a call
  fails; without failures a taken signal is booked.
* `StopFollowsBest`: stop, peak and level are functions of the best quote.
  `BookKeepsUp`, `BreakevenOnBook`: the minimum bump never adds up to 1% of the entry.
  `BookNeverDown`: not through a quote, a failure or a restart.  `StopCatchesUp`: a
  failed push is made good.
* `LossStopsPosts`, `DailyLossLatched`, `AlertedOnce`, `SelfHealing`: the latch against its
  three writers, with the recomputed switches leaving and re-entering it at every
  tick.  `DailyLossLatched` is about one session: from the step that finds the loss
  (`lossSeen`) until the day or the process ends.  A flatten that raises is followed by the
  advance and the pulse, a flatten that does not ends the tick.  `DailyLossClears` is the
  other half of the sentence in `main.py`, and violated.
* `RowsTracked`, `Implements`, `ShortLeavesBook`, `ShortsProtected`, `CoveredOnce`,
  `ClosedIsCovered`: the equity book against its table and the account.  The last says
  that a ticker whose rows are all closed is not left short: what they sold is bought
  back or on its way, also for a row that the startup closes without waiting for the fill.
* `RecordedMatchesDay`: a detection is final though the detector only had the bars there
  were.  `MirrorsBacktest`: it is one of the events of `research.backtest_failed_breakout`,
  which looks at the whole day with a later cutoff; the other direction does not hold.
  Both are about detections on closed bars: a bar that was not over when it was read
  may confirm an event the day does not have.  A fetch returns the newest 80 bars of the
  day, those before 09:30 among them, so late in the session it drops the first ones.
  `failed_breakout` and `prior_low_break` compare with a level of the day before and trigger
  at 09:35 or later, which is less than 80 bars before the close, so it makes no difference
  to them.  The running VWAP and the gap count from the first bar there is: of `vwap_reject`
  and `gap_fade` (`NeedsOpening`) the property only means events found in a fetch that
  dropped nothing (`uncut`).
* `KeepsFeed` (the refinement), `EventGetsRecorded`, `RecordedGetsHanded`: an event that the
  closed bars show is found by a later scan if one failed, for `NeedsOpening` while the
  fetch reaches back to the first bar; a recorded one reaches the tick loop unless the
  process dies, and then never.
* `LogBeforeAct`: what the tick or the scanner acts on is committed, though other threads
  commit, reconnect and fail on the connection in between.  `HandedOnce`: an event is
  handed once, over reconnects.  `SettingsMatchRow`: the settings in memory are those of
  the store's transaction.  The three hold as long as the server refuses no statement;
  one that it refuses takes the rows of every thread with it.
* `NeverSleepsOnWork`: no wake-up gets lost between the puts of three threads and the loop's
  wait and clear.  `PostsGetTaken`: not even an aborted connection lets posts pile up
  (they are taken, and lost, one by one).
* `SnapshotsFrameTrade`: a trades row is written after its exit snapshot, on every path and
  retry.  `ExtremesCoverRun`: its extremes are those of every quote since the process entered or
  adopted the position.  `SnapshotsSpaced`, `SnapshotsKeepUp`: no two monitor snapshots of
  one process within the interval, and no tick leaves an open position overdue unless its own
  capture raised.  `TracksOnTime`: a price is recorded inside its window, and a window is
  only missed when the bot was down or a pass raised in it.  `EntriesAreSound`: an order
  that passes the gates costs at most the cap, is near the posted price, and is not
  born below its own stop (a contract of one or two cents is).

### Fairness

`WF(Tick)`: `run()` loops until it is shut down, `tick()` swallows what its stages raise,
and no stage waits for anything without a timeout.  Market and liquidation orders
that are neither rejected nor cancelled fill.  Nothing is assumed of stop and
limit orders, users, posts or crashes.  `TrailingStop` assumes that a quote comes
in again and again (strong fairness of `Advance`): a position without a fresh quote
is skipped, so pushes can wait for as long as quotes stay away.  `KillSwitches`
assumes that the startup and each stage end.  The equity book assumes that an hour, 15:55 and
midnight pass, and nothing of restarts.  `PostIntake` assumes that a thread of a living process
goes on with what it has begun (the tick, a scan, a PATCH, the two wake-ups), and nothing of
posts, requests, the server or restarts.  `ScannerLab` assumes the thread, systemd's restart
of a dead process (`Restart=on-failure`) and the tick loop's take, and nothing of the
clock: a slow scan may miss the close.
`TakenGetsBooked` carries its assumption that 15:55 comes in its statement.

### Disagreements the runs show

1. `book_long_only`.  `_close_position` cancels the stop without looking at it and
   sells at market.  A stop that fills in between leaves the account short, in a
   program whose positions are said to be long only.
2. `risk_outage`.  When `get_clock` raises, the market counts as closed, which
   switches the connection checks off; when it answers it refreshes the heartbeat.
   `alpaca_disconnected` cannot trip, although a comment relies on it.
3. `equity_dangling`.  A cover that has not filled when the flatten runs is cancelled by
   `flatten_all`, and a record with an `exit_order_id` is only ever polled for its
   fill, so the row stays open, which the order of the stages was to prevent.
4. `risk_next_day`.  `daily_loss` is latched "for the session and clears next day when
   realized_pnl_today resets" (`main.py:82`, also `main.py:2312` and `risk_manager.py:5`).  The
   realized loss is zero the next day, but the switch is still in `active_switches`, which
   nothing strips it from: a bot that is not restarted takes no post on any later day.

### Further disagreements and facts met while modelling

Read in the code, some reproduced by earlier versions of the models; no run keeps them.

* `main.py:195` says the autonomous logic cannot race a manual close.
  `_advance_position` reads `closing_in_progress` once, before its quote and order
  calls; a flag set during them does not stop the strategy's exit.
* `main.py:570` says the restart rebuilds a record for each open position.  A process
  that dies between the entry fill and the `taken` flag leaves one it cannot name.
* `main.py:2220` says "close all positions".  `_flatten_at_close` returns early when the
  bot tracks nothing and no order is open, so such an orphan is held over night.
* `main.py:2085` says the reconciliation records a manual close at its fill.  After
  the rollback of a sell that was accepted it books `external_close` at the entry
  price.
* `main.py:566` wants closes recorded.  A stop that fills while the process is down is
  never booked: the startup only looks at positions that are still open.
* `main.py:684` says the seeded stop "cannot drop".  The book may lie up to 1% of the
  entry behind the strategy, and the restart seeds from the book.
* `main.py:677` says a missing stop is placed on the next ratchet.  A position
  adopted without one has nothing to replace and never gets one.
* `strategy.py:44` lets positions with more days to expiration hold over night.  The
  flatten closes all of them.
* `risk_manager.py:7` asks for an operator after a losing streak.  The switch clears
  itself after 30 minutes.
* `main.py:940` says the kill switches gate the scanner book.  Its gate reads the
  switches of the last pulse, so a loss booked since is not seen.
* `main.py:229` says a switch alerts the first time it appears.  It is marked as
  notified before the event is inserted; an insert that raises swallows the alert.
* `main.py:645` adopts the newest unbooked signal of a contract, with all the account holds
  of it.  Of two signals on one contract the older one is not tracked again.  A contract
  they share can also stay held with every trade booked and nothing selling it, once the
  orders of the day have expired at midnight.
* `main.py:1222` closes a row without a price when its cover does not fill in time, and
  leaves the cover to the account.  A flatten cancels it; a second death between the two
  calls of the flatten leaves a short that no order and no open row knows of.
* `journal.py:466` says a caller treats a blocked insert as "do not track".
  `_open_equity_short` tracks the short without a row.  An event reaches the queue
  once, so the branch is not reached and not modelled.
* `db.py:55` probes with `SELECT 1` to find a dead connection.  On an aborted transaction the
  probe raises, is reported as a failure, and nothing rolls back: statements fail until
  a commit another thread had under way clears it or the connection is dropped.
* `config_store.py:4` says the settings are persisted on every write.  `update()` writes inside
  `conn.transaction()` on a connection whose transaction `reload()`'s SELECT, or the tick's
  probe, has left open.  The block is a savepoint (`PatchEnters`, `PatchLeaves`); the row is
  committed by whatever commits next, and a process that ends before has lost a setting
  the PATCH answered.
* `failed_breakout.py:358` asks for 80 bars to be safe for a session of 78, but the fetch is not
  limited to the session.  With bars before 09:30 the window slides past the first bars
  of the day, and `vwap_reject` and `gap_fade` may record an event the day does not have.
* `lab.py:182` takes the first bar of the day for the open of the session.  Where the feed has
  bars before 09:30 it is one of them, and so is the opening range of `gap_fade`.
* `X_ALPACA_OPTIONS_HANDOFF.md:462` says that entry and exit snapshots are always present for every
  trade.  An entry snapshot that raises leaves a position that is bought, tracked and later
  booked, whose signal is not marked as taken and which has no entry snapshot;
  `SnapshotsFrameTrade` is about the entry snapshots of taken signals only.
* `api/ws_manager.py:7` says a slow client is not allowed to block the others.  They are
  awaited one by one.
* `snapshot.py` restarts the extremes and the schedule of a position that a restart adopts, so
  `max_gain_pct` is that of the last process.  The fill that closes a position is in no extreme.
* The price study records a missing quote as NULL and does not ask again inside the window.

## 4. What is proved

All theorems are about `Spec` and hold for every value of the constants that
satisfies the named assumptions (`BrokerAssumption`, `BookAssumption`,
`StopAssumption`, `SwitchAssumption`, `EquityAssumption`, `ClockAssumption`, `LabAssumption`,
`ConnsAssumption`, `IntakeAssumption`, `GatesAssumption`, `JournalAssumption`: bounds are
natural numbers, a fetch is as long as the part of the day in which events trigger, there is a contract and an owner, the map from signals to contracts is
total, an entry price is positive, a stop percentage is between 1 and 99 (10 and 99 for
the gates), the rows a connection may hold are those the bot writes, the gains are a
finite set of integers, a reconciliation pass falls into every grace window of the price
study, the bars of a day are well typed and in the order of time).  Every module has its `TypeCorrect`.

*Account* (`BrokerProofs`).  What each operation of the account does to its type and to
the orders that are there, as lemmas the two books cite: an order keeps its kind, its
owner and its contract for good, and a step hands out one order at most.

*Option book* (`OptionBookProofs`).  `OneRowPerTrade`.  `OneTradeRow` is not
inductive: `_close_position` appends a row without looking.  The invariant `IInv` adds
that a tracked signal has no row (`OpenHasNoRow`), that whatever a loop or a
handler still has in hand is tracked (`LoopOverOpen`, `CurrentSignal`), and that a signal
that has not been taken off the queue has left no trace (`FreshSignals`).  Restart
keeps it because it adopts unbooked signals only.
`SellAlone` (`ManualSellLeftAlone`) and `ManualNotExternal` (`ManualNeverExternal`) are about
orders.  The invariant `Sells` says whose they are: an order's owner has been taken off
the queue, the stop of a record is its owner's (a replacement hands on the owner), a
manual sell that is pending is that of a flagged position, what waits in the manual queue
waits once and has no sell yet, and, while no call fails, a manual order on the account is
named by its record or its trade is not an external close.
`StopsInPlace` (`ProtectedBetweenTicks`) adds `Guards`: in a session without a failing call
every tracked position is flagged, or has a stop of its own that works or filled, or is
the one whose close has just cancelled it; the flatten's loop has dropped every record
before all orders are cancelled (`Places`).
`KeepsLedger`: `Spec => Implements`.  `Purchases` says that an entry buys one lot, once for a
signal, that every other order sells and belongs to a bought signal, and that what is
tracked, flagged or booked was bought; the fill of an entry, `MarkTaken` and the six
bookings are the steps of the ledger, and none of them is two at once.
`HeldIsLeaving` (`BookedMeansLeaving`) counts: while nothing fails, what a contract holds, with
its liquidation, is at most the number of signals bought on it, not sold, and either
not booked or still being sold (`Leaving`).  A fill moves both sides alike; booking does not
shrink the count, because what is booked has a sell that works or filled (`Guards`, followed
from the stop to the manual sell) and nobody but the flatten cancels it afterwards
(`StepUndone`).  If all of them are booked and something is held, one of them is selling.
`AdoptedAgain` (`AdoptedAfterRestart`): on a contract a signal has alone nothing is held before
its entry fills, and only sells fill after it (`Holdings`); so what is neither tracked
nor booked has gone for good (`Tracked`), and a restart adopts everything else.

*Trailing stop* (`TrailingStopProofs`).  `PathIndependent`, `BookFollows`, `BreakevenHeld`,
`WorkingStopRises`.  The argument is that the stop is the maximum of the
seed and a monotone function of the best quote, and that a push is skipped only
when it is worth less than 1% of the entry.

*Kill switches* (`KillSwitchesProofs`).  `LatchHolds`, `LossStopsTheDay`, `NoSecondAlert`.
`LatchHolds` (`DailyLossLatched`) is inductive with the types: every writer either evaluates,
which finds the loss and latches it in one step, or strips, which leaves it.
`NoSecondAlert` needs that what was announced and is still tripped is in `notified`.

*Equity book* (`EquityBookProofs`).  `BookMatchesJournal`, and `KeepsLedger`:
`Spec => Implements`, the refinement of `ShortLedger`.  The invariant says that loops
hold tracked shorts, or, on startup, exactly the open rows that are
left; `LedgerStep` then maps `TrackShort` to the opening of a row, `BookFill`,
`BookCover` and `CloseRow` to its closing, and every other step to a stutter.
`OneCover` (`CoveredOnce`) and `Protected` (`ShortsProtected`) rest on `Orders` and
`Guards`.  `Orders`: the stop of a record is its own, and while no call fails an exit order is
the one its record names, or its short is done with.  `Guards`: in a session without a
failing call every tracked short has a stop that works or filled, or a cover, or is the one
whose cover is about to be sent.  The flatten cancels every stop there is; it does so when
the loop has left no short without a cover, which is what `Places` says of its points.
`CoverOnItsWay` (`ClosedIsCovered`) follows the account of a ticker: it is short by what its open
short owes, and the covers of rows that were closed unwaited, at most, or a liquidation
covers it (`Accounts`).  `Lots`, `Entries`, `WaysOut` and `Hours` say why: an order's owner
and kind give what it moves, no entry can fill late for an event with a row, the covers
the bot remembers are its own, and liquidations come after 15:55 when nothing is sold short
any more.  A ticker with a short the bot never learnt of is excused (`Lost`).

*Scanner* (`ScannerLabProofs`).  `KeepsItsFeed`: `Spec => KeepsFeed`, the refinement of
`EventFeed`.  The invariant `OneWay` says that a key is in one place at most on its way
from the scan to the tick loop, and only if its row is there; a row outlives the
process and keeps the key from starting again, which is what makes the hand-over at
most once and not at least once.
`NoLookAhead` (`RecordedMatchesDay`) and `BacktestMirrored` (`MirrorsBacktest`) are about the detectors,
for every day, every limit of the fetch and every setting of the clock constants.  What is fetched
is a prefix of the day and perhaps one bar that is not over (`ScanOf`), without its first bars if
they are more than the limit (`RecentIsCut`).  The bars of a day are a slot apart at least and
`LastSlot - Earliest <= Limit`, so what is dropped was over before a breakout or breakdown may
trigger (`DroppedIsEarly`), and their detectors find the same event in the rest
(`FailedBreakoutCut`, `PriorLowBreakCut`); the two others are about fetches that dropped
nothing.  The first bar with a property in the prefix is
the first one in the day, if it is over (`FirstAgrees`), and the running sums of the
VWAP agree on the prefix (`RunningSumAgrees`, by well-founded choice of the first place
where they would differ); so a detection whose bars are over is that of the day.

*Post intake* (`PostIntakeProofs`).  `LoggedFirst`, `HandedAtMostOnce`, `WakesForWork`,
`SettingsAreCurrent`.  The invariant has an unconditional half (`InHand`: what a thread
has in hand between two of its steps; `Woken`: who is about to set the event) and one
that holds while no statement was refused (`Clean`): a row that was written stays
visible on its connection until it is committed or the connection is dead, so a
thread that got through its commit on a connection that was not replaced has its
row committed, whoever committed it.  That the newest settings row is well defined
is the least-number principle of `WellFoundedInduction`.

*Signal journal* (`SignalJournalProofs`).  `FramedTrades`, `CoveredExtremes`,
`SpacedSnapshots`, `SnapshotsUpToDate`, `TimelyTracks`.  The invariant is in parts: where a position
may be while a handler has it in hand (`PositionsInv`), which rows precede which
(`RowsInv`), and that what the scheduler remembers is what was written (`ScheduleInv`).
`TimelyTracks` (`TracksOnTime`) needs the clock as well (`TracksInv`): a pass comes at least every
`ReconcileEvery` ticks while the bot runs, so a window that is `Grace` wide has one, and
the pass of the window records the price or was disturbed.
`ExtremesCoverRun` needs that the running extremes are those of the quotes seen, which
an insertion keeps because the maximum of a finite set with one more element is the
maximum of two.  `SoundEntries` is integer division: `StopLossPct >= 20` (the default)
keeps the rounded stop below the bid for every quote, post and cap.

Only model-checked: the liveness properties (`ManualCloseResolved`, `BookEmptiesAtClose`,
`TakenGetsBooked`, `StopCatchesUp`, `SelfHealing`, `ShortLeavesBook`, `EventGetsRecorded`,
`RecordedGetsHanded`, `PostsGetTaken`): the prover does no `ENABLED`, which fairness is made
of.  Every safety property and action property of the passing runs is proved.

## 5. Plan

Done: `Broker`, `OptionBook`, `TradeLedger`, `TrailingStop`, `KillSwitches`, `ShortLedger`, `EquityBook`,
`Detectors`, `ScannerLab`, `EventFeed`, `SharedConnection`, `PostIntake`, `SignalGates`,
`SignalJournal`, with their proofs.  Left, in this order:

1. The steps of the liveness arguments that are safety (what each stage of the tick leaves
   behind for the next one), as theorems.
2. A second delivery of a post after a reconnect, once the code says what it should mean.
3. The backtests as operators, compared with the live detectors beyond `failed_breakout`.

## 6. What is not modelled

Market data, its time-to-live cache, greeks and the indicators of a snapshot (floats);
the text rules of the parser (string matching without state); alerts (fire and
forget); the WebSocket manager and its broadcasts, which carry copies of what the
journal holds; the read-only routers and the dashboard; research and operator
scripts; the `FailedBreakoutScanner` the lab replaced.

Inside the modelled parts: partial fills; two orchestrator processes on one account;
in the books and the signal journal a journal call that raises after its commit; in
`TrailingStop`, fills that race a close, which `OptionBook` has; in `EquityBook`,
shorts whose entry was never journalled, which are visible in the account only, and
the stop backup's price, which is a choice; in `Detectors`, the volume ratio, which
only the equity gate reads; in `SignalJournal`, the indicator
columns and the API's reads; in `PostIntake`, the bounds check of a PATCH (a request
that is not made) and a post that X delivers twice (each has an id of its own, in
the journal it would become a second signal).

Four of the hazards in `PROJECT.json` have no property.  Three are about positions or
trades the bot does not know of (an entry nobody recorded, a post delivered twice, the
older of two signals on one contract after a restart), where the repository promises
nothing that could be stated; the fourth is the PATCH answered out of a savepoint, whose
loss section 3 describes.
