\* one signal, one failing call, two sessions
SPECIFICATION FairSpec
CONSTANTS
  c1 = c1
  c2 = c2
  Contracts = {c1}
  Owners = {1}
  NumSignals = 1
  ContractOf <- OneContract
  MaxConcurrent = 1
  MaxOrders = 12
  Budgets <- LivenessBudgets
  MaxDays = 1
PROPERTIES
  ManualCloseResolved
  BookEmptiesAtClose
  TakenGetsBooked
