------------------------- MODULE TrailingStopProofs -------------------------
(***************************************************************************)
(* What the trailing stop keeps for every fill price, every configured     *)
(* stop and every set of quotes.  The inductive invariant is TypeOK,       *)
(* StopFollowsBest and BookKeepsUp: the strategy's stop is a function of   *)
(* the best quote, so it rises only on a new best quote, which is above    *)
(* it, and then the market check of _advance_position cannot hold a push   *)
(* back.                                                                   *)
(***************************************************************************)
EXTENDS TrailingStop, TLAPS

IInv == TypeOK /\ StopFollowsBest /\ BookKeepsUp

-----------------------------------------------------------------------------
(* The operators of the model. *)

LEMMA HigherType == ASSUME NEW a \in Int, NEW b \in Int
                    PROVE  /\ Higher(a, b) \in {a, b}
                           /\ Higher(a, b) >= a /\ Higher(a, b) >= b
  BY DEF Higher

\* Rounding moves a price by half a cent at most, and not below zero.
LEMMA QuantizeNear == ASSUME NEW x \in Nat
                      PROVE  /\ Quantize(x) \in Nat
                             /\ Quantize(x) - x <= 50 /\ x - Quantize(x) <= 50
  <1> DEFINE c == x \div 100
             r == x % 100
  <1>1. c \in Nat /\ r \in 0 .. 99 /\ x = 100 * c + r
    OBVIOUS
  <1>2. Quantize(x) = IF r > 50 \/ (r = 50 /\ c % 2 = 1) THEN 100 * (c + 1) ELSE 100 * c
    BY DEF Quantize
  <1> HIDE DEF c, r
  <1> QED
    BY <1>1, <1>2

LEMMA InitialStopType == InitialStop \in Nat
  BY StopAssumption DEF InitialStop

LEMMA LevelType == ASSUME NEW b \in Nat PROVE Level(b) \in 0 .. 2
  BY DEF Level

\* What an active trail does with the stop.
LEMMA StopAfterType == ASSUME NEW b \in Nat, NEW s \in Nat
                       PROVE  StopAfter(b, s) \in Nat
  BY StopAssumption DEF StopAfter, Higher, Trail, Active, Tight

\* Evaluating a quote p takes the stop after the best quote b to the stop after
\* the better of the two: the trail is monotone, also where the width changes.
LEMMA StopAfterHigher ==
    ASSUME NEW b \in Nat, NEW s \in Nat, NEW p \in Nat,
           pos.stop = StopAfter(b, s), pos.peak = b, pos.level = Level(b)
    PROVE  LET new == Ratcheted(Higher(p, pos.peak))
           IN  /\ new.stop = StopAfter(Higher(p, b), s)
               /\ new.peak = Higher(p, b)
               /\ new.level = Level(Higher(p, b))
  BY StopAssumption
     DEF Ratcheted, StopAfter, Higher, Trail, Active, Tight, Level

\* The stop rises only on a quote it stays below.
LEMMA RisesBelowQuote ==
    ASSUME NEW b \in Nat, NEW s \in Nat, NEW p \in Nat \ {0},
           pos.stop = StopAfter(b, s), pos.peak = b,
           StopAfter(Higher(p, b), s) # StopAfter(b, s)
    PROVE  StopAfter(Higher(p, b), s) < 100 * p
  BY StopAssumption DEF StopAfter, Higher, Trail, Active, Tight

-----------------------------------------------------------------------------
(* The invariant is inductive. *)

LEMMA InitIInv == Init => IInv
  <1> SUFFICES ASSUME Init PROVE IInv
    OBVIOUS
  <1>1. InitialStop \in Nat /\ Quantize(InitialStop) \in Nat
        /\ InitialStop - Quantize(InitialStop) <= 50
    BY InitialStopType, QuantizeNear
  <1>2. ~Active(Entry) /\ ~Tight(Entry)
    BY StopAssumption DEF Active, Tight
  <1>3. TypeOK
    <2>1. up \in BOOLEAN /\ late \in BOOLEAN /\ aged \in BOOLEAN
      BY Zenon DEF Init
    <2>2. MaxDte \in Int
      BY StopAssumption
    <2>3. pos \in [stop : Nat, peak : Nat, level : 0 .. 2]
      BY <1>1, StopAssumption DEF Init
    <2> QED
      BY <1>1, <2>1, <2>2, <2>3, StopAssumption DEF Init, TypeOK, StopPrices
  <1>4. StopFollowsBest
    BY <1>2 DEF Init, StopFollowsBest, StopAfter, Level
  <1>5. BookKeepsUp
    BY <1>1, StopAssumption DEF Init, BookKeepsUp, Slack, Higher
  <1> QED
    BY <1>3, <1>4, <1>5 DEF IInv

\* The steps that change neither the strategy's state nor the order's price, and
\* bring no dead order back.
LEMMA QuietSteps ==
    ASSUME IInv,
           UNCHANGED <<pos, stopPrice, history>>,
           faults' >= faults,
           stopOrder' = "live" => stopOrder = "live",
           status' = "held" => status = "held",
           TypeOK'
    PROVE  IInv'
  <1>1. StopFollowsBest'
    BY DEF IInv, StopFollowsBest, StopAfter, history
  <1>2. BookKeepsUp'
    BY DEF IInv, TypeOK, BookKeepsUp, Slack
  <1> QED
    BY <1>1, <1>2 DEF IInv

LEMMA AdvanceIInv ==
    ASSUME IInv, NEW p \in Quotes, Advance(p)
    PROVE  IInv'
  <1> DEFINE new == Ratcheted(Higher(p, pos.peak))
  <1>1. /\ p \in Nat \ {0} /\ best \in Nat /\ seed \in Nat
        /\ pos.stop = StopAfter(best, seed) /\ pos.peak = best /\ pos.level = Level(best)
    BY StopAssumption DEF IInv, TypeOK, StopPrices, StopFollowsBest
  <1>2. /\ new.stop = StopAfter(Higher(p, best), seed)
        /\ new.peak = Higher(p, best)
        /\ new.level = Level(Higher(p, best))
    BY <1>1, StopAfterHigher
  <1>3. Higher(p, best) \in Nat
    BY <1>1, HigherType
  <1>4. /\ pos' = new /\ best' = Higher(p, best) /\ seed' = seed
        /\ status' = status /\ UNCHANGED <<up, clock, restarts>>
        /\ reason' = ExitAt(p, new.stop)
        /\ stage' \in {"clock", "close"}
    BY DEF Advance
  <1>5. new = [stop |-> new.stop, peak |-> new.peak, level |-> new.level]
    BY DEF Ratcheted
  <1>6. StopFollowsBest'
    BY <1>2, <1>4 DEF StopFollowsBest, StopAfter
  <1>7. CASE WorthPushing(new.stop, p) /\ PushStop(new.stop)
    <2>1. new.stop \in Nat
      BY <1>1, <1>2, <1>3, StopAfterType
    <2>2. /\ stopOrder' \in {"none", "live", "dead", "filled"}
          /\ stopPrice' \in Nat /\ faults' \in Nat
      BY <1>7, <2>1 DEF IInv, TypeOK, StopPrices, PushStop, Fault, StopCancelled
    <2>3. TypeOK'
      BY <1>2, <1>3, <1>4, <1>5, <2>1, <2>2, LevelType
         DEF IInv, TypeOK, StopPrices, clock, ExitAt, Reasons
    <2>4. BookKeepsUp'
      BY <1>4, <1>7, <2>1, StopAssumption
         DEF IInv, TypeOK, StopPrices, BookKeepsUp, PushStop, Fault, Slack, Higher
    <2> QED
      BY <1>6, <2>3, <2>4 DEF IInv
  <1>8. CASE ~WorthPushing(new.stop, p) /\ UNCHANGED <<stopOrder, stopPrice, faults>>
    <2>1. new.stop \in Nat
      BY <1>1, <1>2, <1>3, StopAfterType
    <2>2. TypeOK'
      BY <1>2, <1>3, <1>4, <1>5, <1>8, <2>1, LevelType
         DEF IInv, TypeOK, StopPrices, clock, ExitAt, Reasons
    <2>3. new.stop = pos.stop \/ new.stop < 100 * p
      BY <1>1, <1>2, RisesBelowQuote
    <2>4. BookKeepsUp'
      BY <1>1, <1>4, <1>8, <2>1, <2>3, StopAssumption
         DEF IInv, TypeOK, StopPrices, BookKeepsUp, WorthPushing, Lagging, Slack, Higher
    <2> QED
      BY <1>6, <2>2, <2>4 DEF IInv
  <1> QED
    BY <1>7, <1>8 DEF Advance

LEMMA RestartIInv == ASSUME IInv, Restart PROVE IInv'
  <1>1. Quantize(InitialStop) \in Nat
    BY InitialStopType, QuantizeNear
  <1>2. seed' \in Nat /\ faults' \in Nat
    BY <1>1 DEF IInv, TypeOK, StopPrices, Restart, Fault
  <1>3. pos' = [stop |-> seed', peak |-> 0, level |-> 0] /\ best' = 0
    BY DEF Restart
  <1>4. ~Active(0) /\ ~Tight(0)
    BY StopAssumption DEF Active, Tight
  <1>5. TypeOK'
    <2>1. up' \in BOOLEAN
      BY Zenon DEF Restart
    <2>2. pos' \in [stop : Nat, peak : Nat, level : 0 .. 2]
      BY <1>2, <1>3
    <2> QED
      BY <1>2, <1>3, <2>1, <2>2 DEF IInv, TypeOK, StopPrices, Restart, clock
  <1>6. StopFollowsBest'
    BY <1>3, <1>4 DEF StopFollowsBest, StopAfter, Level
  <1>7. BookKeepsUp'
    <2>1. Slack' > 0
      BY StopAssumption DEF Slack, Higher
    <2>2. CASE faults' = 0 /\ stopOrder' = "live"
      <3>1. stopOrder = "live" /\ stopPrice' = stopPrice
        BY <2>2 DEF Restart
      <3>2. seed' = stopPrice
        BY <2>2, <3>1 DEF Restart, Fault, IInv, TypeOK
      <3> QED
        BY <1>3, <2>1, <3>1, <3>2 DEF BookKeepsUp, IInv, TypeOK, StopPrices
    <2> QED
      BY <2>2 DEF BookKeepsUp
  <1> QED
    BY <1>5, <1>6, <1>7 DEF IInv

LEMMA StepIInv == IInv /\ [Next]_vars => IInv'
  <1> SUFFICES ASSUME IInv, [Next]_vars PROVE IInv'
    OBVIOUS
  <1>1. CASE BeforeClose
    BY <1>1, QuietSteps DEF BeforeClose, IInv, TypeOK, StopPrices, clock, history
  <1>2. CASE Flatten
    BY <1>2, QuietSteps
       DEF Flatten, Close, StopCancelled, IInv, TypeOK, StopPrices, Reasons, clock, history
  <1>3. CASE FlattenRaises
    BY <1>3, QuietSteps
       DEF FlattenRaises, Fault, StopCancelled, IInv, TypeOK, StopPrices, clock, history
  <1>4. CASE BookStopFill
    BY <1>4, QuietSteps
       DEF BookStopFill, IInv, TypeOK, StopPrices, Reasons, clock, history
  <1>5. CASE NoQuote
    BY <1>5, QuietSteps DEF NoQuote, IInv, TypeOK, StopPrices, clock, history
  <1>6. ASSUME NEW p \in Quotes, Advance(p) PROVE IInv'
    BY <1>6, AdvanceIInv
  <1>7. CASE ClosePosition
    BY <1>7, QuietSteps
       DEF ClosePosition, Close, StopCancelled, IInv, TypeOK, StopPrices, clock, history
  <1>8. CASE CloseRaises
    BY <1>8, QuietSteps
       DEF CloseRaises, Fault, StopCancelled, IInv, TypeOK, StopPrices, clock, history
  <1>9. CASE StopFills
    BY <1>9, QuietSteps DEF StopFills, IInv, TypeOK, StopPrices, clock, history
  <1>10. CASE CloseApproaches
    BY <1>10, QuietSteps DEF CloseApproaches, IInv, TypeOK, StopPrices, history
  <1>11. CASE Ages
    BY <1>11, QuietSteps DEF Ages, IInv, TypeOK, StopPrices, history
  <1>12. CASE NextSession
    <2>1. late' \in BOOLEAN
      BY <1>12, Zenon DEF NextSession
    <2>2. TypeOK'
      BY <1>12, <2>1 DEF NextSession, StopCancelled, IInv, TypeOK, StopPrices, history
    <2> QED
      BY <1>12, <2>2, QuietSteps DEF NextSession, StopCancelled, IInv, TypeOK
  <1>13. CASE Crash
    <2>1. up' \in BOOLEAN
      BY <1>13, Zenon DEF Crash
    <2>2. TypeOK'
      BY <1>13, <2>1 DEF Crash, IInv, TypeOK, StopPrices, clock, history
    <2> QED
      BY <1>13, <2>2, QuietSteps DEF Crash, IInv, TypeOK
  <1>14. CASE Restart
    BY <1>14, RestartIInv
  <1>15. CASE UNCHANGED vars
    BY <1>15, QuietSteps DEF vars, IInv, TypeOK, StopPrices, clock, history
  <1> QED
    BY <1>1, <1>2, <1>3, <1>4, <1>5, <1>6, <1>7, <1>8, <1>9, <1>10, <1>11, <1>12, <1>13,
       <1>14, <1>15 DEF Next, Tick

\* The inductive invariant holds in every reachable state, for every fill price,
\* stop percentage, set of quotes and number of failures.
THEOREM Inductive == Spec => []IInv
  BY InitIInv, StepIInv, PTL DEF Spec

-----------------------------------------------------------------------------
(* What follows. *)

\* Every variable of the position keeps its type.
THEOREM TypeCorrect == Spec => []TypeOK
  <1>1. IInv => TypeOK
    BY DEF IInv
  <1> QED
    BY <1>1, Inductive, PTL

\* The trail of strategy.evaluate is path-independent.
THEOREM PathIndependent == Spec => []StopFollowsBest
  <1>1. IInv => StopFollowsBest
    BY DEF IInv
  <1> QED
    BY <1>1, Inductive, PTL

\* While calls succeed the minimum bump, the market check and restarts leave the
\* stop on the book at most 1% of the entry behind the strategy's.
THEOREM BookFollows == Spec => []BookKeepsUp
  <1>1. IInv => BookKeepsUp
    BY DEF IInv
  <1> QED
    BY <1>1, Inductive, PTL

\* An active trail has a stop on the book that gives back at most 1%.
THEOREM BreakevenHeld == Spec => []BreakevenOnBook
  <1>1. IInv => BreakevenOnBook
    <2> SUFFICES ASSUME IInv, faults = 0, status = "held", stopOrder = "live", pos.level > 0
                 PROVE  100 * Entry - stopPrice < Slack
      BY DEF BreakevenOnBook
    <2>1. Active(best)
      BY StopAssumption DEF IInv, StopFollowsBest, TypeOK, Level, Active, Tight
    <2>2. pos.stop >= 100 * Entry
      BY <2>1, StopAssumption
         DEF IInv, TypeOK, StopPrices, StopFollowsBest, StopAfter, Higher, Trail
    <2> QED
      BY <2>2, StopAssumption
         DEF IInv, TypeOK, StopPrices, BookKeepsUp, Slack, Higher
  <1> QED
    BY <1>1, Inductive, PTL

\* No step, no failure and no restart lowers the stop that works at the broker.
THEOREM WorkingStopRises == Spec => BookNeverDown
  <1> DEFINE Up == stopOrder = "live" /\ stopOrder' = "live" => stopPrice' >= stopPrice
  <1>1. IInv /\ [Next]_vars => [Up]_vars
    <2> SUFFICES ASSUME IInv, Next PROVE Up
      OBVIOUS
    <2>1. ASSUME NEW p \in Quotes, Advance(p) PROVE Up
      <3> DEFINE new == Ratcheted(Higher(p, pos.peak))
      <3>1. new.stop \in Nat
        <4>1. p \in Nat /\ best \in Nat /\ seed \in Nat
          BY StopAssumption DEF IInv, TypeOK, StopPrices
        <4>2. new.stop = StopAfter(Higher(p, best), seed)
          BY <4>1, StopAfterHigher DEF IInv, StopFollowsBest
        <4>3. Higher(p, best) \in Nat
          BY <4>1, HigherType
        <4> QED
          BY <4>1, <4>2, <4>3, StopAfterType
      <3>2. \/ WorthPushing(new.stop, p) /\ PushStop(new.stop)
            \/ UNCHANGED stopPrice
        BY <2>1 DEF Advance
      <3> HIDE DEF new
      <3> QED
        BY <3>1, <3>2 DEF IInv, TypeOK, StopPrices, WorthPushing, Lagging, PushStop
    <2>2. CASE \E p \in Quotes : Advance(p)
      BY <2>1, <2>2
    <2>3. CASE Restart
      BY <2>3 DEF Restart, IInv, TypeOK, StopPrices
    <2>4. CASE Next /\ UNCHANGED stopPrice
      BY <2>4 DEF IInv, TypeOK, StopPrices
    <2>5. Next => \/ \E p \in Quotes : Advance(p)
                  \/ Restart
                  \/ UNCHANGED stopPrice
      BY DEF Next, Tick, BeforeClose, Flatten, FlattenRaises, BookStopFill, NoQuote,
             ClosePosition, CloseRaises, StopFills, CloseApproaches, Ages, NextSession, Crash
    <2> QED
      BY <2>2, <2>3, <2>4, <2>5
  <1> QED
    BY <1>1, Inductive, PTL DEF Spec, BookNeverDown
=============================================================================
