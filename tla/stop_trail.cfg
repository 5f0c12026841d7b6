\* Quotes around every threshold, two failing calls, one restart.
SPECIFICATION FairSpec
CONSTANTS
    Entry = 120
    StopLossPct = 17
    Quotes <- MCQuotes
    MaxDte = 5
    MaxFaults = 2
    MaxRestarts = 1
INVARIANT StopFollowsBest
INVARIANT BookKeepsUp
INVARIANT BreakevenOnBook
PROPERTY BookNeverDown
PROPERTY StopCatchesUp
\* A closed position is the end.
CHECK_DEADLOCK FALSE
