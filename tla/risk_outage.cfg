\* Alpaca stops answering while the market is open
SPECIFICATION FairSpec
CONSTANTS
    DailyLimit = 2
    MaxLosses = 2
    Budgets <- NoBudget
PROPERTIES
    AlpacaOutageTrips
