\* one trade that reaches the daily limit, and the next day
SPECIFICATION FairSpec
CONSTANTS
    DailyLimit = 1
    MaxLosses = 2
    Budgets <- LossBudget
PROPERTY
    DailyLossClears
