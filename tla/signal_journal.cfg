\* a day with faults and a death
SPECIFICATION Spec
CONSTANTS
  NumSignals = 2
  Offsets <- StudyOffsets
  Grace = 2
  Interval = 2
  ReconcileEvery = 2
  CloseTime = 6
  Horizon = 7
  StaleSeconds = 180
  MaxDeviation = 10
  MaxEntryIv = 150
  StopLossPct = 20
  SpendCap = 50000
  MaxQty = 10
  Markets <- SomeMarkets
  Gains <- TwoGains
  Budgets <- JournalBudgets
INVARIANTS
  SnapshotsFrameTrade
  ExtremesCoverRun
  TracksOnTime
  EntriesAreSound
PROPERTIES
  SnapshotsSpaced
  SnapshotsKeepUp
