\* two signals; nothing fails, or one death; with one signal also a failing call
SPECIFICATION Spec
CONSTANTS
  c1 = c1
  c2 = c2
  Contracts = {c1, c2}
  Owners = {1, 2}
  NumSignals = 2
  ContractOf <- TwoContracts
  MaxConcurrent = 2
  MaxOrders = 12
  Budgets <- SafetyBudgets
  MaxDays = 0
INVARIANTS
  ProtectedBetweenTicks
  ManualNeverExternal
  BookedMeansLeaving
  AdoptedAfterRestart
PROPERTIES
  Implements
  ManualSellLeftAlone
