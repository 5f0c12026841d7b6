------------------------------ MODULE Detectors ------------------------------
(***************************************************************************)
(* The four hypotheses of the scanner lab (scanners/lab.py and             *)
(* scanners/failed_breakout.py): pure functions of the bars of one ticker  *)
(* on one day and of the levels of the day before.  A detector is run      *)
(* every five minutes on the bars there are so far; what it finds is       *)
(* recorded once.                                                          *)
(*                                                                         *)
(* Time is counted in five-minute slots from the start of the pre-market,  *)
(* 04:00 ET: the bars of a day include those traded before 09:30.  Prices  *)
(* and volumes are integers.  The clock constants are parameters so that a *)
(* small day has every boundary of a real one; in the code they are 67,    *)
(* 78, 12, 3 and 90.                                                       *)
(***************************************************************************)
EXTENDS Integers, Sequences

CONSTANTS
    Earliest,       \* DEFAULT_EARLIEST_BREAKOUT, the slot of 09:35
    Cutoff,         \* DEFAULT_BREAKOUT_CUTOFF, 10:30
    FailureWindow,  \* DEFAULT_FAILURE_WINDOW_MINUTES
    OpeningRange,   \* OPENING_RANGE_BARS
    GapCutoff       \* GAP_CONFIRM_CUTOFF, 11:30

ASSUME ClockAssumption ==
    {Earliest, Cutoff, FailureWindow, OpeningRange, GapCutoff} \subseteq Nat

Names == {"failed_breakout", "vwap_reject", "gap_fade", "prior_low_break"}

\* What a detector returns: the bar that triggers, the bar that confirms, and the
\* level the confirmation is about.  Two detections are the same event if they have
\* the same bars.
None == [trigger |-> -1, confirm |-> -1]
Found(trigger, confirm) == [trigger |-> trigger.ts, confirm |-> confirm.ts]

First(S) == CHOOSE i \in S : \A j \in S : i <= j

InWindow(bar) == Earliest <= bar.ts /\ bar.ts < Cutoff

\* Bars after the trigger, until the failure window is over.
Following(bars, i) ==
    {j \in DOMAIN bars : j > i /\ bars[j].ts <= bars[i].ts + FailureWindow}

\* The first bar of "triggers" opens the event; the first bar after it, within the
\* window, that is in "fails" confirms it.
FirstRejected(bars, triggers, fails) ==
    LET i == First(triggers)
        confirms == Following(bars, i) \intersect fails
    IN  IF triggers = {} \/ confirms = {} THEN None
        ELSE Found(bars[i], bars[First(confirms)])

\* Faulty variant: the scan looks at the latest breakout, not at the first.
FailedBreakoutLatest(bars, prior) ==
    LET triggers == {i \in DOMAIN bars : InWindow(bars[i]) /\ bars[i].close > prior.high}
    IN  FirstRejected(bars, {i \in triggers : \A j \in triggers : j <= i},
                      {j \in DOMAIN bars : bars[j].close < prior.high})

\* find_failed_breakout: a close above the prior high that is taken back.
FailedBreakout(bars, prior) ==
    IF prior.high <= 0 THEN None
    ELSE FirstRejected(bars,
             {i \in DOMAIN bars : InWindow(bars[i]) /\ bars[i].close > prior.high},
             {j \in DOMAIN bars : bars[j].close < prior.high})

\* _running_vwap, as the two sums it divides: three times price by volume, and volume.
RunningSum(addend) ==
    LET sum[i \in {0} \union DOMAIN addend] == IF i = 0 THEN 0 ELSE sum[i - 1] + addend[i]
    IN  sum
TypicalVolume(bars) ==
    RunningSum([i \in DOMAIN bars |->
                    (bars[i].high + bars[i].low + bars[i].close) * bars[i].volume])
Volume(bars) == RunningSum([i \in DOMAIN bars |-> bars[i].volume])

\* Faulty variant: the VWAP of all bars there are, not the running one.
VwapRejectSession(bars, prior) ==
    LET pv == TypicalVolume(bars)[Len(bars)]
        vol == Volume(bars)[Len(bars)]
    IN  FirstRejected(bars,
            {i \in DOMAIN bars : InWindow(bars[i]) /\ 3000 * bars[i].close * vol >= 1003 * pv},
            {j \in DOMAIN bars : 3 * bars[j].close * vol < pv})

\* detect_vwap_reject: a close 0.3% above the running VWAP, then one below it.
VwapReject(bars, prior) ==
    LET pv == TypicalVolume(bars)
        vol == Volume(bars)
    IN  FirstRejected(bars,
            {i \in DOMAIN bars : /\ InWindow(bars[i]) /\ vol[i] > 0
                                 /\ 3000 * bars[i].close * vol[i] >= 1003 * pv[i]},
            {j \in DOMAIN bars : vol[j] > 0 /\ 3 * bars[j].close * vol[j] < pv[j]})

\* detect_gap_fade: an open 2% above the prior close, then a close below the low of
\* the opening range.
GapFade(bars, prior) ==
    LET range == 1 .. OpeningRange
        fades == {j \in DOMAIN bars \ range :
                    /\ bars[j].ts < GapCutoff
                    /\ \A i \in range : bars[j].close < bars[i].low}
    IN  IF \/ prior.close <= 0 \/ Len(bars) <= OpeningRange
           \/ 100 * bars[1].open < 102 * prior.close \/ fades = {}
        THEN None
        ELSE Found(bars[1], bars[First(fades)])

\* detect_prior_low_break: two closes in a row below the prior low.  A single one is
\* a sweep, and ends the day for this hypothesis.
PriorLowBreak(bars, prior) ==
    LET breaks == {i \in DOMAIN bars : InWindow(bars[i]) /\ bars[i].close < prior.low}
        i == First(breaks)
    IN  IF \/ prior.low <= 0 \/ breaks = {} \/ i + 1 \notin DOMAIN bars
           \/ bars[i + 1].close >= prior.low
        THEN None
        ELSE Found(bars[i], bars[i + 1])

\* HYPOTHESES.
Detect(name, bars, prior) ==
    CASE name = "failed_breakout" -> FailedBreakout(bars, prior)
      [] name = "vwap_reject" -> VwapReject(bars, prior)
      [] name = "gap_fade" -> GapFade(bars, prior)
      [] name = "prior_low_break" -> PriorLowBreak(bars, prior)
=============================================================================
