\* The rule that the question states, for every return.
SPECIFICATION Spec
CONSTANTS
  NCustomers = 1
  NRows = 1
  InitialTiers <- OnlyGold
  InitialStock = {2}
  Quantities = {1}
  MaxItems = 1
  BaselineOrders = 1
  Ticks = 4
  SnapshotEvery = 4
  FireAt <- Once
  ScanWindow = 2
  LifecycleWindow = 2
  MaxOrders = 2
  MaxReturns = 2
  MaxPayments = 0
  MaxTickets = 0
  RecentLimit = 3
INVARIANT
  RuleIsGraded
