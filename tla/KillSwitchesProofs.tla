------------------------- MODULE KillSwitchesProofs -------------------------
(***************************************************************************)
(* What the kill switches keep for every limit, every number of trades,    *)
(* failing calls and restarts.  The inductive invariant adds to TypeOK     *)
(* that a switch once announced is remembered in notified_switches until   *)
(* it is seen clear, and that the daily loss, once found, is latched.      *)
(***************************************************************************)
EXTENDS KillSwitches, TLAPS

AnnouncedIsNoted == alerted \subseteq notified

IInv == TypeOK /\ AnnouncedIsNoted /\ DailyLossLatched

LEMMA TrippedType == ASSUME TypeOK PROVE Tripped \in SUBSET Switches /\ Stripped \in SUBSET Switches
  BY DEF TypeOK, Tripped, Stripped

\* The conditions are Booleans, and so is the heartbeat get_clock leaves.
LEMMA HeardType == ASSUME TypeOK PROVE AlpacaHeard \in BOOLEAN
  BY DEF TypeOK, AlpacaHeard

LEMMA SeenType ==
    ASSUME TypeOK, \/ UNCHANGED lossSeen \/ lossSeen' = FALSE
                   \/ lossSeen' = (lossSeen \/ Condition["daily_loss"])
    PROVE  lossSeen' \in BOOLEAN
  <1>1. lossSeen \in BOOLEAN
    BY DEF TypeOK
  <1>2. CASE lossSeen' = (lossSeen \/ Condition["daily_loss"])
    <2>1. (lossSeen \/ Condition["daily_loss"]) \in BOOLEAN
      BY Zenon
    <2> QED
      BY <1>2, <2>1, Zenon
  <1> QED
    BY <1>1, <1>2, Zenon

LEMMA InitIInv == Init => IInv
  <1> SUFFICES ASSUME Init PROVE IInv
    OBVIOUS
  <1>1. /\ cooled \in BOOLEAN /\ alpacaFresh \in BOOLEAN /\ late \in BOOLEAN
        /\ clockUp \in BOOLEAN /\ isOpen \in BOOLEAN /\ xLive \in BOOLEAN
        /\ lossSeen \in BOOLEAN /\ ~lossSeen
    BY Zenon DEF Init
  <1>2. TypeOK
    BY <1>1 DEF Init, TypeOK, Stages
  <1>3. AnnouncedIsNoted
    BY DEF Init, AnnouncedIsNoted
  <1>4. DailyLossLatched
    BY <1>1 DEF DailyLossLatched
  <1> QED
    BY <1>2, <1>3, <1>4 DEF IInv

\* Steps of the tick that only move on.
LEMMA MoveOn ==
    ASSUME TypeOK, UNCHANGED <<state, books, world, alerted, faults, restarts>>,
           stage' \in Stages,
           entered' \in {"none", "post", "scanner"},
           sent' \in SUBSET Switches
    PROVE  TypeOK'
  BY DEF TypeOK, state, books, world

LEMMA PostsTyped ==
    ASSUME TypeOK, CheckPost \/ CheckPostRaises PROVE TypeOK'
  <1>1. CASE CheckPost
    <2>1. world' = <<clockUp, isOpen, xLive, AlpacaHeard, late>>
      BY <1>1 DEF CheckPost, ClockAsked, world
    <2>2. entered' \in {"none", "post", "scanner"}
      BY <1>1 DEF CheckPost, TypeOK
    <2>3. UNCHANGED <<stage, notified, books, alerts, faults, restarts>> /\ active' = Tripped
      BY <1>1 DEF CheckPost, Evaluated
    <2>4. lossSeen' \in BOOLEAN
      BY <1>1, SeenType DEF CheckPost, Evaluated
    <2> QED
      BY <2>1, <2>2, <2>3, <2>4, TrippedType, HeardType DEF TypeOK, world, books, alerts
  <1>2. CASE CheckPostRaises
    <2>1. /\ active' \in {active, Stripped}
          /\ \/ world' = world
             \/ world' = <<clockUp, isOpen, xLive, AlpacaHeard, late>>
      BY <1>2 DEF CheckPostRaises, ClockAsked, world
    <2>2. UNCHANGED <<stage, notified, lossSeen, books, entered, alerts, restarts>>
          /\ faults' = faults + 1
      BY <1>2 DEF CheckPostRaises, Fault
    <2> QED
      BY <2>1, <2>2, TrippedType, HeardType DEF TypeOK, world, books, alerts
  <1> QED
    BY <1>1, <1>2

LEMMA TradesTyped ==
    ASSUME TypeOK, NEW pnl \in {-1, 0, 1},
           OptionTradeCloses(pnl) \/ EquityTradeCloses(pnl)
    PROVE  TypeOK'
  <1>1. CASE OptionTradeCloses(pnl)
    <2>1. cooled' \in BOOLEAN
      BY <1>1, Zenon DEF OptionTradeCloses
    <2>2. streak' \in Nat /\ realized' \in Int /\ tradesClosed' \in Nat
      BY <1>1 DEF OptionTradeCloses, TradeCounted, TypeOK
    <2> QED
      BY <1>1, <2>1, <2>2 DEF OptionTradeCloses, TypeOK, state, world, alerts
  <1>2. CASE EquityTradeCloses(pnl)
    BY <1>2 DEF EquityTradeCloses, TradeCounted, TypeOK, state, world, alerts
  <1> QED
    BY <1>1, <1>2

LEMMA PulseTyped == ASSUME TypeOK, RiskPulse \/ RiskPulseRaises PROVE TypeOK'
  <1>1. CASE RiskPulse
    <2>1. world' = <<clockUp, isOpen, xLive, AlpacaHeard, late>>
      BY <1>1 DEF RiskPulse, ClockAsked, world
    <2>2. /\ stage' \in Stages /\ active' = Tripped /\ notified' = Tripped
          /\ sent' \in SUBSET Switches /\ alerted' \in SUBSET Switches
          /\ UNCHANGED <<books, entered, faults, restarts>>
      BY <1>1, TrippedType DEF RiskPulse, Evaluated, Noted, Go, Stages, TypeOK
    <2>3. lossSeen' \in BOOLEAN
      BY <1>1, SeenType DEF RiskPulse, Evaluated
    <2> QED
      BY <2>1, <2>2, <2>3, TrippedType, HeardType DEF TypeOK, world, books
  <1>2. CASE RiskPulseRaises
    <2>1. /\ active' \in SUBSET Switches /\ notified' \in SUBSET Switches
          /\ alerted' \in SUBSET Switches
          /\ \/ world' = world
             \/ world' = <<clockUp, isOpen, xLive, AlpacaHeard, late>>
      BY <1>2, TrippedType DEF RiskPulseRaises, Evaluated, ClockAsked, Noted, TypeOK, state, world
    <2>2. /\ stage' \in Stages /\ faults' = faults + 1
          /\ UNCHANGED <<books, entered, sent, restarts>>
      BY <1>2 DEF RiskPulseRaises, Go, Stages, Fault
    <2>3. lossSeen' \in BOOLEAN
      BY <1>2, SeenType DEF RiskPulseRaises, Evaluated, state
    <2> QED
      BY <2>1, <2>2, <2>3, HeardType DEF TypeOK, world, books
  <1> QED
    BY <1>1, <1>2

LEMMA WorldTyped ==
    ASSUME TypeOK, ConnectionsChange \/ CooldownElapses \/ CloseApproaches \/ NextDay \/ Restart
    PROVE  TypeOK'
  <1>1. CASE ConnectionsChange
    BY <1>1 DEF ConnectionsChange, Moved, TypeOK, state, books, alerts
  <1>2. CASE CooldownElapses
    <2>1. cooled' \in BOOLEAN
      BY <1>2, Zenon DEF CooldownElapses
    <2> QED
      BY <1>2, <2>1 DEF CooldownElapses, Moved, TypeOK, state, world, alerts
  <1>3. CASE CloseApproaches
    <2>1. late' \in BOOLEAN
      BY <1>3, Zenon DEF CloseApproaches
    <2> QED
      BY <1>3, <2>1 DEF CloseApproaches, Moved, TypeOK, state, books, alerts
  <1>4. CASE NextDay
    <2>1. late' = FALSE /\ (cooled' = cooled \/ cooled' = TRUE)
      BY <1>4, Zenon DEF NextDay
    <2>2. realized' = 0 /\ UNCHANGED <<streak, tradesClosed, clockUp, isOpen, xLive, alpacaFresh>>
      BY <1>4 DEF NextDay
    <2>3. UNCHANGED <<stage, active, notified, entered, alerts, faults, restarts>>
      BY <1>4 DEF NextDay
    <2>4. late' \in BOOLEAN /\ cooled' \in BOOLEAN /\ lossSeen' \in BOOLEAN
      <3>1. cooled \in BOOLEAN
        BY DEF TypeOK
      <3>2. lossSeen' = FALSE
        BY <1>4, Zenon DEF NextDay
      <3> QED
        BY <2>1, <3>1, <3>2, Zenon
    <2> QED
      BY <2>2, <2>3, <2>4 DEF TypeOK, alerts
  <1>5. CASE Restart
    <2>1. alpacaFresh' \in BOOLEAN /\ lossSeen' \in BOOLEAN
      BY <1>5, Zenon DEF Restart
    <2> QED
      BY <1>5, <2>1 DEF Restart, TypeOK, Stages, books
  <1> QED
    BY <1>1, <1>2, <1>3, <1>4, <1>5

LEMMA StepTyped == ASSUME TypeOK, [Next]_vars PROVE TypeOK'
  <1>1. CASE \/ StartupDone \/ StartTick \/ PostsDone \/ ManualDone \/ ScannerDone \/ BeforeClose
             \/ FlattenDone \/ AdvanceDone \/ ReconcileDone
    BY <1>1, MoveOn
       DEF StartupDone, StartTick, PostsDone, ManualDone, ScannerDone, BeforeClose,
           FlattenDone, AdvanceDone, ReconcileDone, Go, Stages, TypeOK, alerts
  <1>2. CASE FlattenRaises
    BY <1>2 DEF FlattenRaises, Fault, Go, Stages, TypeOK, state, books, world, alerts
  <1>3. CASE CheckScannerSignal
    BY <1>3, MoveOn DEF CheckScannerSignal, TypeOK, alerts
  <1>4. CASE UNCHANGED vars
    BY <1>4, MoveOn DEF vars, TypeOK, alerts
  <1> QED
    BY <1>1, <1>2, <1>3, <1>4, PostsTyped, TradesTyped, PulseTyped, WorldTyped
       DEF Next, Tick

\* Only a pulse changes what is announced, and it notes what it announces.
LEMMA StepNoted == ASSUME IInv, [Next]_vars PROVE AnnouncedIsNoted'
  <1>1. CASE RiskPulse
    BY <1>1 DEF RiskPulse, Noted, AnnouncedIsNoted
  <1>2. CASE RiskPulseRaises
    BY <1>2 DEF RiskPulseRaises, Noted, IInv, AnnouncedIsNoted, state
  <1>3. CASE Restart
    BY <1>3 DEF Restart, AnnouncedIsNoted
  <1>4. CASE UNCHANGED <<notified, alerted>>
    BY <1>4 DEF IInv, AnnouncedIsNoted
  <1>5. \/ RiskPulse \/ RiskPulseRaises \/ Restart
        \/ UNCHANGED <<notified, alerted>>
    BY DEF Next, Tick, StartupDone, StartTick, CheckPost, CheckPostRaises, PostsDone,
           OptionTradeCloses, EquityTradeCloses, ManualDone, CheckScannerSignal, ScannerDone,
           BeforeClose, FlattenDone, FlattenRaises, AdvanceDone, ReconcileDone,
           ConnectionsChange, CooldownElapses, CloseApproaches, NextDay, Moved, vars, state,
           alerts
  <1> QED
    BY <1>1, <1>2, <1>3, <1>4, <1>5

\* Every evaluation keeps the daily loss: the strip leaves it in, and what finds it adds it.
LEMMA StepLatched == ASSUME IInv, [Next]_vars PROVE DailyLossLatched'
  <1>1. /\ "daily_loss" \in active => "daily_loss" \in Stripped /\ "daily_loss" \in Tripped
        /\ Condition["daily_loss"] => "daily_loss" \in Tripped
    BY DEF Stripped, Tripped, Recomputed, Switches
  <1>2. lossSeen => "daily_loss" \in active
    BY DEF IInv, DailyLossLatched
  <1>3. CASE Evaluated
    BY <1>1, <1>2, <1>3 DEF Evaluated, DailyLossLatched
  <1>4. CASE UNCHANGED lossSeen /\ active' \in {active, Stripped}
    BY <1>1, <1>2, <1>4 DEF DailyLossLatched
  <1>5. CASE lossSeen' = FALSE
    BY <1>5 DEF DailyLossLatched
  <1>6. Evaluated \/ (UNCHANGED lossSeen /\ active' \in {active, Stripped}) \/ lossSeen' = FALSE
    BY DEF Next, Tick, StartupDone, StartTick, CheckPost, CheckPostRaises, PostsDone,
           OptionTradeCloses, EquityTradeCloses, ManualDone, CheckScannerSignal, ScannerDone,
           BeforeClose, FlattenDone, FlattenRaises, AdvanceDone, RiskPulse, RiskPulseRaises,
           ReconcileDone, ConnectionsChange, CooldownElapses, CloseApproaches, NextDay,
           Restart, Moved, vars, state
  <1> QED
    BY <1>3, <1>4, <1>5, <1>6

\* The inductive invariant holds in every reachable state.
THEOREM Inductive == Spec => []IInv
  <1>1. IInv /\ [Next]_vars => IInv'
    BY StepTyped, StepNoted, StepLatched DEF IInv
  <1> QED
    BY <1>1, InitIInv, PTL DEF Spec

-----------------------------------------------------------------------------
(* What follows. *)

\* Every variable of the kill switches keeps its type.
THEOREM TypeCorrect == Spec => []TypeOK
  <1>1. IInv => TypeOK
    BY DEF IInv
  <1> QED
    BY <1>1, Inductive, PTL

\* No switch is announced again while it stays tripped, for any number of pulses,
\* posts, failing calls and restarts.
THEOREM NoSecondAlert == Spec => AlertedOnce
  <1> DEFINE Once == \A s \in sent' \ sent : s \notin alerted
  <1>1. IInv /\ [Next]_vars => [Once]_vars
    <2> SUFFICES ASSUME IInv, Next PROVE Once
      OBVIOUS
    <2>1. CASE RiskPulse
      BY <2>1 DEF RiskPulse, IInv, AnnouncedIsNoted
    <2>2. CASE sent' \subseteq sent
      BY <2>2
    <2>3. RiskPulse \/ sent' \subseteq sent
      BY DEF Next, Tick, StartupDone, StartTick, CheckPost, CheckPostRaises, PostsDone,
             OptionTradeCloses, EquityTradeCloses, ManualDone, CheckScannerSignal,
             ScannerDone, BeforeClose, FlattenDone, FlattenRaises, AdvanceDone,
             ReconcileDone, RiskPulseRaises, ConnectionsChange, CooldownElapses,
             CloseApproaches, NextDay, Restart, Moved, alerts
    <2> QED
      BY <2>1, <2>2, <2>3
  <1> QED
    BY <1>1, Inductive, PTL DEF Spec, AlertedOnce

\* The daily loss, once an evaluation of this session found it, stays in active_switches
\* until the session or the process ends, whatever is traded, stripped or raised.
THEOREM LatchHolds == Spec => []DailyLossLatched
  <1>1. IInv => DailyLossLatched
    BY DEF IInv
  <1> QED
    BY <1>1, Inductive, PTL

\* A day whose loss reached the limit takes no more posts.
THEOREM LossStopsTheDay == Spec => LossStopsPosts
  <1> DEFINE Stops == entered' = "post" /\ entered # "post" => realized > -DailyLimit
  <1>1. IInv /\ [Next]_vars => [Stops]_vars
    <2> SUFFICES ASSUME IInv, Next, entered' = "post", entered # "post"
                 PROVE  realized > -DailyLimit
      OBVIOUS
    <2>1. CheckPost
      BY DEF Next, Tick, StartupDone, StartTick, CheckPost, CheckPostRaises, PostsDone,
             OptionTradeCloses, EquityTradeCloses, ManualDone, CheckScannerSignal,
             ScannerDone, BeforeClose, FlattenDone, FlattenRaises, AdvanceDone,
             ReconcileDone, RiskPulse, RiskPulseRaises, ConnectionsChange,
             CooldownElapses, CloseApproaches, NextDay, Restart, Moved
    <2>2. Tripped = {}
      BY <2>1 DEF CheckPost
    <2>3. ~Condition["daily_loss"]
      BY <2>2 DEF Tripped, Switches
    <2>4. ~(realized <= -DailyLimit)
      BY <2>3, Zenon DEF Condition
    <2>5. realized \in Int /\ DailyLimit \in Int
      BY SwitchAssumption DEF IInv, TypeOK
    <2> QED
      BY <2>4, <2>5
  <1> QED
    BY <1>1, Inductive, PTL DEF Spec, LossStopsPosts
=============================================================================
