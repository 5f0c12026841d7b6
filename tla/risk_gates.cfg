\* closing trades, a failing call and a restart
SPECIFICATION FairSpec
CONSTANTS
    DailyLimit = 1
    MaxLosses = 2
    Budgets <- GateBudgets
INVARIANT
    DailyLossLatched
PROPERTIES
    LossStopsPosts
    AlertedOnce
    SelfHealing
