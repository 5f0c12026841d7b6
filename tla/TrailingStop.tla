---------------------------- MODULE TrailingStop ----------------------------
(***************************************************************************)
(* One option position from its fill to its exit: strategy.evaluate, the   *)
(* part of Orchestrator._advance_position that pushes the trailing stop to *)
(* the broker, the 15:55 flatten in front of it and the re-adoption after  *)
(* a restart.                                                              *)
(*                                                                         *)
(* Quotes are in cents; stops are in hundredths of a cent, so that         *)
(* Decimal("0.95") * peak is exact as in the code.                         *)
(***************************************************************************)
EXTENDS Integers

CONSTANTS
    Entry,          \* the fill price, in cents
    StopLossPct,    \* Config.stop_loss_pct, in percent
    Quotes,         \* the option mids that the data service may return
    MaxDte,         \* days to expiration at the entry
    MaxFaults,      \* bound: calls that raise
    MaxRestarts     \* bound: deaths of the process

ASSUME StopAssumption ==
    /\ Entry \in Nat \ {0}
    /\ StopLossPct \in 1 .. 99
    /\ Quotes \subseteq Nat \ {0}
    /\ {MaxDte, MaxFaults, MaxRestarts} \subseteq Nat

VARIABLES
    status,         \* "held", or "closed" once _close_position went through
    reason,         \* why it is being or was closed
    pos,            \* strategy.Position: stop_price, peak_price, ratchet_level
    stopOrder,      \* the order stop_order_id names; "none" when that is None
    stopPrice,      \* its stop price, which a dead order keeps
    stage,          \* in tick(): "clock" before stage 2, "advance" before stage 3,
                    \* "close" before _close_position
    up,             \* the process runs
    late, dte, aged,    \* 15:55 has passed; days to expiration; held for 4 hours
    best, seed,     \* history: the best quote evaluated and the stop the Position
                    \* was built with, since it was built
    faults, restarts

clock == <<late, dte, aged>>
history == <<best, seed>>
vars == <<status, reason, pos, stopOrder, stopPrice, stage, up, clock, history,
          faults, restarts>>

Reasons == {"stop_loss", "time_stop_1555", "dte_close", "stale_no_movement"}
StopPrices == Nat

TypeOK ==
    /\ status \in {"held", "closed"}
    /\ reason \in Reasons \union {"none"}
    /\ pos \in [stop : StopPrices, peak : Nat, level : 0 .. 2]
    /\ stopOrder \in {"none", "live", "dead", "filled"}
    /\ stopPrice \in StopPrices
    /\ stage \in {"clock", "advance", "close"}
    /\ up \in BOOLEAN /\ late \in BOOLEAN /\ aged \in BOOLEAN
    /\ dte \in Int
    /\ best \in Nat /\ seed \in StopPrices
    /\ faults \in Nat /\ restarts \in Nat

-----------------------------------------------------------------------------
(* strategy.evaluate. *)

\* quantize(Decimal("0.01")): to the cent, ties to the even cent.
Quantize(x) ==
    LET cents == x \div 100
        rest == x % 100
    IN  100 * (IF rest > 50 \/ (rest = 50 /\ cents % 2 = 1) THEN cents + 1 ELSE cents)

InitialStop == Entry * (100 - StopLossPct)

Higher(a, b) == IF a > b THEN a ELSE b

Active(peak) == 100 * (peak - Entry) >= 5 * Entry
Tight(peak) == 100 * (peak - Entry) >= 40 * Entry
Level(peak) == IF Tight(peak) THEN 2 ELSE IF Active(peak) THEN 1 ELSE 0
Trail(peak) == IF Tight(peak) THEN 97 * peak ELSE 95 * peak

\* Faulty variant: a trail below breakeven is dropped and not lifted to it.
RatchetedNoFloor(peak) ==
    [stop  |-> IF Active(peak) /\ Trail(peak) >= 100 * Entry
               THEN Higher(Trail(peak), pos.stop)
               ELSE pos.stop,
     peak  |-> peak,
     level |-> Higher(Level(peak), pos.level)]

\* Faulty variant: the previous stop is not compared with.
RatchetedForgetsStop(peak) ==
    [stop  |-> IF Active(peak) THEN Higher(Trail(peak), 100 * Entry) ELSE pos.stop,
     peak  |-> peak,
     level |-> Higher(Level(peak), pos.level)]

\* Step 1: the continuous trail, for the running peak.
Ratcheted(peak) ==
    [stop  |-> IF Active(peak)
               THEN Higher(Higher(Trail(peak), 100 * Entry), pos.stop)
               ELSE pos.stop,
     peak  |-> peak,
     level |-> Higher(Level(peak), pos.level)]

AbsDiff(a, b) == IF a > b THEN a - b ELSE b - a

\* Step 2: the hard exits, in priority order.
ExitAt(p, stop) ==
    IF 100 * p <= stop THEN "stop_loss"
    ELSE IF late /\ dte <= 3 THEN "time_stop_1555"
    ELSE IF dte <= 1 THEN "dte_close"
    ELSE IF aged /\ 100 * AbsDiff(p, Entry) < 2 * Entry THEN "stale_no_movement"
    ELSE "none"

-----------------------------------------------------------------------------
(* The position and its stop order. *)

Init ==
    /\ status = "held" /\ reason = "none"
    /\ pos = [stop |-> InitialStop, peak |-> Entry, level |-> 0]
    /\ stopOrder = "live" /\ stopPrice = Quantize(InitialStop)
    /\ stage = "clock" /\ up = TRUE
    /\ late = FALSE /\ dte = MaxDte /\ aged = FALSE
    /\ best = Entry /\ seed = InitialStop
    /\ faults = 0 /\ restarts = 0

Fault == faults < MaxFaults /\ faults' = faults + 1

\* cancel_order did or did not go through; a dead or filled order stays so.
StopCancelled == stopOrder' = IF stopOrder = "live" THEN "dead" ELSE stopOrder

Close(why) ==
    /\ status' = "closed" /\ reason' = why
    /\ StopCancelled

\* Faulty variant: the bump is measured from the strategy's previous stop.
LaggingBehindStrategy(stop) ==
    /\ stopOrder # "none"
    /\ stop > stopPrice
    /\ stop - pos.stop >= Entry

\* Faulty variant: only a stop that is still live is replaced.
LaggingIfLive(stop) ==
    /\ stopOrder = "live"
    /\ stop > stopPrice
    /\ stop - stopPrice >= Entry

\* Faulty variant: a gap in either direction is worth a push.
LaggingEitherWay(stop) ==
    /\ stopOrder # "none"
    /\ AbsDiff(stop, stopPrice) >= Entry

\* The stop on the book is so far below the strategy's that it is worth a call.
Lagging(stop) ==
    /\ stopOrder # "none"
    /\ stop > stopPrice
    /\ stop - stopPrice >= Entry    \* _MIN_STOP_BUMP_FRACTION, 1% of the entry

WorthPushing(stop, p) == Lagging(stop) /\ stop < 100 * p

\* modify_stop: replaced in place, or cancelled and submitted again.  When it
\* raises the old order may already be cancelled.
PushStop(stop) ==
    \/ stopOrder' = "live" /\ stopPrice' = stop /\ UNCHANGED faults
    \/ /\ Fault
       /\ StopCancelled \/ UNCHANGED stopOrder
       /\ UNCHANGED stopPrice

-----------------------------------------------------------------------------
(* tick(), as far as one position is concerned. *)

\* Stage 2 before 15:55.
BeforeClose ==
    /\ up /\ status = "held" /\ stage = "clock" /\ ~late
    /\ stage' = "advance"
    /\ UNCHANGED <<status, reason, pos, stopOrder, stopPrice, up, clock, history,
                   faults, restarts>>

\* Stage 2 after 15:55: _flatten_at_close sells whatever the expiration is, and
\* the tick ends.
Flatten ==
    /\ up /\ status = "held" /\ stage = "clock" /\ late
    /\ Close("time_stop_1555")
    /\ UNCHANGED <<pos, stopPrice, stage, up, clock, history, faults, restarts>>

\* The flatten raised, before or after it cancelled the stop; the tick goes on.
FlattenRaises ==
    /\ up /\ status = "held" /\ stage = "clock" /\ late
    /\ Fault
    /\ StopCancelled \/ UNCHANGED stopOrder
    /\ stage' = "advance"
    /\ UNCHANGED <<status, reason, pos, stopPrice, up, clock, history, restarts>>

\* Stage 3, fast path: the stop has filled at the broker.
BookStopFill ==
    /\ up /\ status = "held" /\ stage = "advance" /\ stopOrder = "filled"
    /\ status' = "closed" /\ reason' = "stop_loss"
    /\ UNCHANGED <<pos, stopOrder, stopPrice, stage, up, clock, history, faults, restarts>>

\* No fresh quote: try next tick.
NoQuote ==
    /\ up /\ status = "held" /\ stage = "advance" /\ stopOrder # "filled"
    /\ stage' = "clock"
    /\ UNCHANGED <<status, reason, pos, stopOrder, stopPrice, up, clock, history,
                   faults, restarts>>

\* Stage 3: the quote moves the trail, the stop on the book follows, and an exit
\* is left to _close_position.
Advance(p) ==
    /\ up /\ status = "held" /\ stage = "advance" /\ stopOrder # "filled"
    /\ LET new == Ratcheted(Higher(p, pos.peak))
           exit == ExitAt(p, new.stop)
       IN  /\ pos' = new
           /\ IF WorthPushing(new.stop, p) THEN PushStop(new.stop)
              ELSE UNCHANGED <<stopOrder, stopPrice, faults>>
           /\ reason' = exit
           /\ stage' = IF exit = "none" THEN "clock" ELSE "close"
    /\ best' = Higher(p, best)
    /\ UNCHANGED <<status, up, clock, seed, restarts>>

\* _close_position: cancel the stop, then sell.
ClosePosition ==
    /\ up /\ stage = "close"
    /\ Close(reason)
    /\ stage' = "clock"
    /\ UNCHANGED <<pos, stopPrice, up, clock, history, faults, restarts>>

\* The sell raised, and the cancel may have gone through or not.
CloseRaises ==
    /\ up /\ stage = "close"
    /\ Fault
    /\ StopCancelled \/ UNCHANGED stopOrder
    /\ stage' = "clock" /\ reason' = "none"
    /\ UNCHANGED <<status, pos, stopPrice, up, clock, history, restarts>>

Tick ==
    \/ BeforeClose \/ Flatten \/ FlattenRaises \/ BookStopFill \/ NoQuote
    \/ (\E p \in Quotes : Advance(p)) \/ ClosePosition \/ CloseRaises

-----------------------------------------------------------------------------
(* The broker, the clock and the process. *)

\* The broker's reference price is not the mid: a live stop may fill at any time.
StopFills ==
    /\ status = "held" /\ stopOrder = "live"
    /\ stopOrder' = "filled"
    /\ UNCHANGED <<status, reason, pos, stopPrice, stage, up, clock, history, faults, restarts>>

CloseApproaches ==
    /\ ~late /\ late' = TRUE
    /\ UNCHANGED <<status, reason, pos, stopOrder, stopPrice, stage, up, dte, aged,
                   history, faults, restarts>>

Ages ==
    /\ ~aged /\ aged' = TRUE
    /\ UNCHANGED <<status, reason, pos, stopOrder, stopPrice, stage, up, late, dte,
                   history, faults, restarts>>

\* Only a process that is down lets a position pass the close; the stop was a
\* DAY order.
NextSession ==
    /\ late /\ ~up /\ dte > 0
    /\ late' = FALSE /\ dte' = dte - 1
    /\ StopCancelled
    /\ UNCHANGED <<status, reason, pos, stopPrice, stage, up, aged, history, faults, restarts>>

Crash ==
    /\ up /\ status = "held" /\ restarts < MaxRestarts
    /\ restarts' = restarts + 1
    /\ up' = FALSE /\ stage' = "clock" /\ reason' = "none"
    /\ UNCHANGED <<status, pos, stopOrder, stopPrice, clock, history, faults>>

\* _adopt_position: the strategy starts over from the stop on the book, or from
\* the configured initial stop when there is none or it cannot be read.  A
\* position whose stop filled is not in the account any more.
Restart ==
    /\ ~up /\ status = "held" /\ stopOrder # "filled"
    /\ up' = TRUE
    /\ \/ stopOrder = "live" /\ seed' = stopPrice /\ UNCHANGED faults
       \/ stopOrder = "live" /\ seed' = Quantize(InitialStop) /\ Fault
       \/ stopOrder = "dead" /\ seed' = Quantize(InitialStop) /\ UNCHANGED faults
    /\ pos' = [stop |-> seed', peak |-> 0, level |-> 0]
    /\ best' = 0
    /\ stopOrder' = IF stopOrder = "live" THEN "live" ELSE "none"
    /\ stopPrice' = IF stopOrder = "live" THEN stopPrice ELSE 0
    /\ UNCHANGED <<status, reason, stage, clock, restarts>>

Next ==
    \/ Tick
    \/ StopFills \/ CloseApproaches \/ Ages \/ NextSession
    \/ Crash \/ Restart

Spec == Init /\ [][Next]_vars

\* run() keeps ticking, and a quote arrives again and again (the data service
\* returns None for a stale one, and the position waits for the next tick).
FairSpec ==
    /\ Spec
    /\ WF_vars(Tick)
    /\ SF_vars(\E p \in Quotes : Advance(p))

-----------------------------------------------------------------------------
(* Safety. *)

\* The stop a best quote b leads to, from a position that started with stop s.
StopAfter(b, s) == IF Active(b) THEN Higher(Higher(Trail(b), 100 * Entry), s) ELSE s

\* The trail does not depend on the path: whatever quotes came in whatever order,
\* the strategy's stop is the one the best of them gives, the peak is that quote
\* and the level is its regime.  evaluate() works from the previous position only.
StopFollowsBest ==
    /\ pos.stop = StopAfter(best, seed)
    /\ pos.peak = best
    /\ pos.level = Level(best)

\* What a push may be worth without being made: 1% of the entry, or the half cent
\* by which the first stop was rounded, whichever is more.
Slack == Higher(Entry, 51)

\* As long as no call failed, the stop on the book is less than 1% of the entry
\* behind the strategy's: the minimum bump delays a push, it never loses one, and
\* neither do the market check and a restart.
BookKeepsUp ==
    faults = 0 /\ status = "held" /\ stopOrder = "live" => pos.stop - stopPrice < Slack

\* Once the trail is active the broker holds a stop that gives back less than 1%
\* of the entry price, unless a call failed.
BreakevenOnBook ==
    faults = 0 /\ status = "held" /\ stopOrder = "live" /\ pos.level > 0 =>
        100 * Entry - stopPrice < Slack

\* The working stop on the book never moves down, not even when a restart could
\* not read it and the strategy starts over from the configured initial stop.
BookNeverDown ==
    [][stopOrder = "live" /\ stopOrder' = "live" => stopPrice' >= stopPrice]_vars

(* Liveness. *)

Behind == stopOrder \in {"live", "dead"} /\ pos.stop - stopPrice >= Entry

\* A push that failed or was skipped is made good by a later tick, as the except
\* branch of _advance_position promises, unless the position goes first.
StopCatchesUp ==
    (up /\ status = "held" /\ Behind) ~> (~up \/ status = "closed" \/ ~Behind)
=============================================================================
