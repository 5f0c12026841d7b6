---------------------------- MODULE KillSwitches ----------------------------
(***************************************************************************)
(* The kill switches: risk_manager.evaluate and how the orchestrator feeds *)
(* it and keeps its answer (main.py: _build_session_state, _risk_pulse,    *)
(* the risk check of _handle_post, the gate of _handle_scanner_signal).    *)
(*                                                                         *)
(* stage is where the orchestrator is: startup (before the first tick),    *)
(* posts (stage 1), manual (1b and 1c), scanner (1d), close (2), advance   *)
(* (3 and 3b), pulse (5), reconcile (6).  Profits are counted in units of  *)
(* one losing trade.                                                       *)
(***************************************************************************)
EXTENDS Integers

CONSTANTS
    DailyLimit,     \* daily_loss_kill_pct of the starting equity
    MaxLosses,      \* Config.max_consecutive_losses
    Budgets         \* bound: what may happen together in one behaviour

ASSUME SwitchAssumption ==
    /\ {DailyLimit, MaxLosses} \subseteq Nat \ {0}
    /\ Budgets \subseteq [trades : Nat, faults : Nat, restarts : Nat]

VARIABLES
    stage,
    active,         \* OrchestratorState.active_switches
    notified,       \* OrchestratorState.notified_switches
    lossSeen,       \* history: the daily loss was found in this session by this process
    realized,       \* today's gross_pnl over trades and scanner_trades
    streak,         \* consecutive_loss_count: losses since the last winner in trades
    cooled,         \* the newest trade closed 30 minutes ago or more
    clockUp,        \* Alpaca's get_clock answers
    isOpen,         \* the market is open
    xLive,          \* the listener thread is alive, the heartbeat is fresh, or the
                    \* stream is disabled by the operator
    alpacaFresh,    \* last_alpaca_ok_at is younger than connection_stall_seconds
    late,           \* 15:55 ET or later
    entered,        \* history: the book that opened a position in this stage
    sent,           \* history: the switches the last stage announced
    alerted,        \* history: switches announced since they were last seen clear
    tradesClosed, faults, restarts

state == <<active, notified, lossSeen>>
books == <<realized, streak, cooled, tradesClosed>>
world == <<clockUp, isOpen, xLive, alpacaFresh, late>>
alerts == <<sent, alerted>>
vars == <<stage, state, books, world, entered, alerts, faults, restarts>>

Switches == {"daily_loss", "consecutive_losses", "x_stream_disconnected",
             "alpaca_disconnected"}

\* Faulty variant: daily_loss is recomputed too.
RecomputedAll == Switches

\* Faulty variant: the stream's switch stays latched.
RecomputedOthers == {"consecutive_losses", "alpaca_disconnected"}

\* _RECOMPUTED_SWITCHES.
Recomputed == {"consecutive_losses", "x_stream_disconnected", "alpaca_disconnected"}

Stages == {"startup", "idle", "posts", "manual", "scanner", "close", "advance", "pulse",
           "reconcile"}

TypeOK ==
    /\ stage \in Stages
    /\ active \in SUBSET Switches /\ notified \in SUBSET Switches /\ lossSeen \in BOOLEAN
    /\ realized \in Int /\ streak \in Nat /\ cooled \in BOOLEAN
    /\ clockUp \in BOOLEAN /\ isOpen \in BOOLEAN /\ xLive \in BOOLEAN
    /\ alpacaFresh \in BOOLEAN /\ late \in BOOLEAN
    /\ entered \in {"none", "post", "scanner"}
    /\ sent \in SUBSET Switches /\ alerted \in SUBSET Switches
    /\ tradesClosed \in Nat /\ faults \in Nat /\ restarts \in Nat

Init ==
    /\ stage = "startup"
    /\ active = {} /\ notified = {} /\ lossSeen = FALSE
    /\ realized = 0 /\ streak = 0 /\ cooled = FALSE
    /\ clockUp \in BOOLEAN /\ isOpen \in BOOLEAN /\ xLive \in BOOLEAN
    /\ alpacaFresh = FALSE /\ late = FALSE
    /\ entered = "none" /\ sent = {} /\ alerted = {}
    /\ tradesClosed = 0 /\ faults = 0 /\ restarts = 0

-----------------------------------------------------------------------------
(* risk_manager.evaluate. *)

\* get_clock that raises leaves market_open False; one that answers is itself a
\* heartbeat.
MarketSeenOpen == clockUp /\ isOpen
AlpacaHeard == alpacaFresh \/ clockUp

Condition == [daily_loss            |-> realized <= -DailyLimit,
              consecutive_losses    |-> streak >= MaxLosses /\ ~cooled,
              x_stream_disconnected |-> MarketSeenOpen /\ ~xLive,
              alpaca_disconnected   |-> MarketSeenOpen /\ ~AlpacaHeard]

\* active_switches once _build_session_state has stripped it.
Stripped == active \ Recomputed

Tripped == Stripped \union {s \in Switches : Condition[s]}

Evaluated == active' = Tripped /\ lossSeen' = (lossSeen \/ Condition["daily_loss"])

-----------------------------------------------------------------------------
(* tick(). *)

Go(here, there) == stage = here /\ stage' = there

\* Some budget pays for so many closing trades, failing database calls and restarts.
Affordable(trades, failures, deaths) ==
    \E b \in Budgets : trades <= b.trades /\ failures <= b.faults /\ deaths <= b.restarts

Fault == Affordable(tradesClosed, faults + 1, restarts) /\ faults' = faults + 1

\* _build_session_state got as far as get_clock.
ClockAsked == alpacaFresh' = AlpacaHeard /\ UNCHANGED <<clockUp, isOpen, xLive, late>>

StartTick ==
    /\ Go("idle", "posts")
    /\ UNCHANGED <<state, books, world, entered, alerts, faults, restarts>>

\* Faulty variant: the entry relies on the last risk pulse.
CheckPostByPulse ==
    /\ stage = "posts"
    /\ entered' = IF active = {} THEN "post" ELSE entered
    /\ UNCHANGED <<stage, state, books, world, alerts, faults, restarts>>

\* The risk check of _handle_post, for a post that passed validation.
CheckPost ==
    /\ stage = "posts"
    /\ ClockAsked
    /\ Evaluated    \* when nothing is tripped, what the strip left: nothing
    /\ entered' = IF Tripped = {} THEN "post" ELSE entered
    /\ UNCHANGED <<stage, notified, books, alerts, faults, restarts>>

\* A query, or the risk event's insert, raises: post_handler_crash.
\* active_switches may have been stripped by then.
CheckPostRaises ==
    /\ stage = "posts"
    /\ Fault
    /\ \/ UNCHANGED <<active, world>>
       \/ active' = Stripped /\ ClockAsked
    /\ UNCHANGED <<stage, notified, lossSeen, books, entered, alerts, restarts>>

PostsDone ==
    /\ Go("posts", "manual")
    /\ entered' = "none"
    /\ UNCHANGED <<state, books, world, alerts, faults, restarts>>

TradeCounted ==
    /\ Affordable(tradesClosed + 1, faults, restarts)
    /\ tradesClosed' = tradesClosed + 1

\* At 15:55 both books are flattened, before the risk pulse.
Flattening == stage = "close" /\ late

\* A trade of the option book closes: a manual fill in stage 1c, a stop or the strategy in
\* stage 3, the flatten, or a position the reconciliation no longer finds.  A breakeven
\* trade counts as a loss for the streak.
OptionTradeCloses(pnl) ==
    /\ stage \in {"manual", "advance", "reconcile"} \/ Flattening
    /\ TradeCounted
    /\ realized' = realized + pnl
    /\ streak' = IF pnl > 0 THEN 0 ELSE streak + 1
    /\ cooled' = FALSE
    /\ UNCHANGED <<stage, state, world, entered, alerts, faults, restarts>>

\* A scanner short is covered in stage 3b, by the flatten or by the startup: the equity
\* book counts for the daily loss only.
EquityTradeCloses(pnl) ==
    /\ stage \in {"startup", "advance"} \/ Flattening
    /\ TradeCounted
    /\ realized' = realized + pnl
    /\ UNCHANGED <<stage, state, streak, cooled, world, entered, alerts, faults, restarts>>

ManualDone ==
    /\ Go("manual", "scanner")
    /\ UNCHANGED <<state, books, world, entered, alerts, faults, restarts>>

\* _handle_scanner_signal looks at the switches of the last risk pulse.
CheckScannerSignal ==
    /\ stage = "scanner"
    /\ entered' = IF active \subseteq {"x_stream_disconnected"}
                  THEN "scanner" ELSE entered
    /\ UNCHANGED <<stage, state, books, world, alerts, faults, restarts>>

ScannerDone ==
    /\ Go("scanner", "close")
    /\ entered' = "none"
    /\ UNCHANGED <<state, books, world, alerts, faults, restarts>>

StartupDone ==
    /\ Go("startup", "idle")
    /\ UNCHANGED <<state, books, world, entered, alerts, faults, restarts>>

BeforeClose ==
    /\ Go("close", "advance") /\ ~late
    /\ UNCHANGED <<state, books, world, entered, alerts, faults, restarts>>

\* The tick ends with the flatten.
FlattenDone ==
    /\ Go("close", "idle") /\ late
    /\ UNCHANGED <<state, books, world, entered, alerts, faults, restarts>>

\* A flatten that raises is logged, and the tick goes on.
FlattenRaises ==
    /\ Go("close", "advance") /\ late
    /\ Fault
    /\ UNCHANGED <<state, books, world, entered, alerts, restarts>>

AdvanceDone ==
    /\ Go("advance", "pulse")
    /\ UNCHANGED <<state, books, world, entered, alerts, faults, restarts>>

\* Faulty variant: only the switches just announced are remembered.
NotedAnnounced == notified' = Tripped \ notified

Noted == notified' = Tripped

RiskPulse ==
    /\ Go("pulse", "reconcile")
    /\ ClockAsked
    /\ Evaluated
    /\ Noted
    /\ sent' = Tripped \ notified
    /\ alerted' = (alerted \intersect Tripped) \union sent'
    /\ UNCHANGED <<books, entered, faults, restarts>>

\* A query raises, before or after the strip, or the kill_switch event does, after
\* notified_switches was set and before anything was sent.
RiskPulseRaises ==
    /\ Go("pulse", "reconcile")
    /\ Fault
    /\ \/ UNCHANGED <<state, world, alerted>>
       \/ active' = Stripped /\ ClockAsked /\ UNCHANGED <<notified, lossSeen, alerted>>
       \/ /\ Tripped \ notified # {}
          /\ Evaluated /\ ClockAsked /\ Noted
          /\ alerted' = alerted \intersect Tripped
    /\ UNCHANGED <<books, entered, sent, restarts>>

\* Stage 6 runs in some ticks, and stage 7 is not about trades.
ReconcileDone ==
    /\ Go("reconcile", "idle")
    /\ sent' = {}
    /\ UNCHANGED <<state, books, world, entered, alerted, faults, restarts>>

Tick ==
    \/ StartupDone \/ StartTick \/ CheckPost \/ CheckPostRaises \/ PostsDone
    \/ \E pnl \in {-1, 0, 1} : OptionTradeCloses(pnl) \/ EquityTradeCloses(pnl)
    \/ ManualDone \/ CheckScannerSignal \/ ScannerDone
    \/ BeforeClose \/ FlattenDone \/ FlattenRaises \/ AdvanceDone
    \/ RiskPulse \/ RiskPulseRaises \/ ReconcileDone

-----------------------------------------------------------------------------
(* The world. *)

Moved == UNCHANGED <<stage, state, entered, alerts, faults, restarts>>

ConnectionsChange ==
    /\ clockUp' \in BOOLEAN /\ isOpen' \in BOOLEAN /\ xLive' \in BOOLEAN
    /\ alpacaFresh' \in BOOLEAN     \* a minute passed, or a quote came in
    /\ Moved /\ UNCHANGED <<books, late>>

CooldownElapses ==
    /\ tradesClosed > 0 /\ ~cooled /\ cooled' = TRUE
    /\ Moved /\ UNCHANGED <<realized, streak, tradesClosed, world>>

CloseApproaches ==
    /\ ~late /\ late' = TRUE
    /\ Moved /\ UNCHANGED <<books, clockUp, isOpen, xLive, alpacaFresh>>

\* Nothing has closed today any more.
NextDay ==
    /\ late /\ stage = "idle" /\ late' = FALSE
    /\ realized' = 0 /\ lossSeen' = FALSE
    /\ IF tradesClosed = 0 THEN UNCHANGED cooled ELSE cooled' = TRUE
    /\ UNCHANGED <<stage, active, notified, streak, tradesClosed, clockUp, isOpen, xLive,
                   alpacaFresh, entered, alerts, faults, restarts>>

\* A new process: the switches are forgotten, the trades are in the database.
Restart ==
    /\ Affordable(tradesClosed, faults, restarts + 1)
    /\ restarts' = restarts + 1
    /\ stage' = "startup" /\ active' = {} /\ notified' = {} /\ lossSeen' = FALSE
    /\ alpacaFresh' = FALSE /\ xLive' \in BOOLEAN
    /\ entered' = "none" /\ sent' = {} /\ alerted' = {}
    /\ UNCHANGED <<books, clockUp, isOpen, late, faults>>

Next ==
    \/ Tick
    \/ ConnectionsChange \/ CooldownElapses \/ CloseApproaches \/ NextDay
    \/ Restart

Spec == Init /\ [][Next]_vars

\* The startup gets through and run() keeps ticking; no stage is stuck on a queue that
\* never empties.
FairSpec ==
    /\ Spec
    /\ WF_vars(\/ StartupDone \/ StartTick \/ PostsDone \/ ManualDone \/ ScannerDone
               \/ BeforeClose \/ FlattenDone \/ AdvanceDone \/ RiskPulse \/ ReconcileDone)

-----------------------------------------------------------------------------
(* Properties. *)

\* A post never opens a position on a day whose realized loss, over both books,
\* has reached the limit: not when the trade closed earlier in the same tick, and
\* not after a restart that forgot the switches.
LossStopsPosts ==
    [][entered' = "post" /\ entered # "post" => realized > -DailyLimit]_vars

\* Once found, the daily loss stays latched for the session, also when later trades make
\* it up: every other writer of active_switches, and every call that raises half-way,
\* keeps it.  What the next day makes of it is DailyLossClears.
DailyLossLatched == lossSeen => "daily_loss" \in active

\* A switch that stays tripped is announced once, though the recomputed switches
\* leave active_switches and come back at every tick.
AlertedOnce == [][\A s \in sent' \ sent : s \notin alerted]_vars

\* Every switch but the daily loss goes off once its condition has, unless the
\* condition comes back or the pulses have ended for the day.
SelfHealing ==
    \A s \in Switches \ {"daily_loss"} :
        ~Condition[s] ~> (s \notin active \/ Condition[s] \/ late)

-----------------------------------------------------------------------------
(* What the repository says and the code does not do. *)

\* main.py: daily_loss "stays latched for the session and clears next day when
\* realized_pnl_today resets".
FreshSession == ~lossSeen /\ ~Condition["daily_loss"] /\ ~late
DailyLossClears == FreshSession ~> ("daily_loss" \notin active \/ ~FreshSession)

\* main.py: "If get_clock raises, we leave the heartbeat alone and the connection
\* switch will trip on its own".
Outage == isOpen /\ ~clockUp /\ ~alpacaFresh /\ ~late
AlpacaOutageTrips == Outage ~> ("alpaca_disconnected" \in active \/ ~Outage)
=============================================================================
