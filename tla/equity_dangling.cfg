\* one event, no call fails
SPECIFICATION OperatedSpec
CONSTANTS
  t1 = t1
  t2 = t2
  Contracts = {t1}
  Owners = {1}
  NumEvents = 1
  TickerOf <- OneTicker
  MaxShorts = 2
  MaxOrders = 9
  Budgets <- QuietBudgets
PROPERTIES
  NoDanglingRow
