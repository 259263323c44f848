\* Every kind of draw within a tick, orders that exhaust the stock, and two scenarios,
\* one of them due at once.
SPECIFICATION Spec
CONSTANTS
  NCustomers = 2
  NRows = 1
  InitialTiers <- LowAndHigh
  InitialStock = {2}
  Quantities = {1}
  MaxItems = 2
  BaselineOrders = 0
  Ticks = 2
  SnapshotEvery = 1
  FireAt <- Twice
  ScanWindow = 1
  LifecycleWindow = 1
  MaxOrders = 2
  MaxReturns = 1
  MaxPayments = 1
  MaxTickets = 1
INVARIANTS
  TypeOK
  ReferentialIntegrity
  ReplayMatchesState
  ScenarioTrace
PROPERTIES
  ScenariosAreNotMissed
