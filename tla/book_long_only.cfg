\* no call fails
SPECIFICATION Spec
CONSTANTS
  c1 = c1
  c2 = c2
  Contracts = {c1}
  Owners = {1}
  NumSignals = 1
  ContractOf <- OneContract
  MaxConcurrent = 1
  MaxOrders = 9
  Budgets <- QuietBudgets
  MaxDays = 0
INVARIANTS
  LongOnly
