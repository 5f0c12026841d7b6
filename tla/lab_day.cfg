\* two slots before the open and five after it, a failing call and a death of the process
SPECIFICATION FairSpec
CONSTANTS
  t1 = t1
  Tickers = {t1}
  Hypotheses <- MCHypotheses
  Prior <- MCPrior
  Days <- MCDays
  FormingBars <- MCForming
  Open = 2
  LastSlot = 7
  Limit = 4
  Earliest = 3
  Cutoff = 5
  BacktestCutoff = 6
  FailureWindow = 2
  OpeningRange = 2
  GapCutoff = 6
  MaxMishaps = 1
INVARIANTS
  RecordedMatchesDay
  MirrorsBacktest
PROPERTIES
  KeepsFeed
  EventGetsRecorded
  RecordedGetsHanded
