\* two events on two tickers with a close or one death; one event with a failing call, a
\* death and a close, or with two deaths and a close
SPECIFICATION OperatedSpec
CONSTANTS
  t1 = t1
  t2 = t2
  Contracts = {t1, t2}
  Owners = {1, 2}
  NumEvents = 2
  TickerOf <- TwoTickers
  MaxShorts = 2
  MaxOrders = 10
  Budgets <- BookBudgets
INVARIANTS
  RowsTracked
  ShortsProtected
  CoveredOnce
  ClosedIsCovered
PROPERTIES
  Implements
  ShortLeavesBook
