\* The scenario against the comment on the order it picks.
SPECIFICATION Spec
CONSTANTS
  NCustomers = 2
  NRows = 1
  InitialTiers <- LowAndHigh
  InitialStock = {2}
  Quantities = {1}
  MaxItems = 1
  BaselineOrders = 1
  Ticks = 2
  SnapshotEvery = 2
  FireAt <- Once
  ScanWindow = 2
  LifecycleWindow = 2
  MaxOrders = 1
  MaxReturns = 1
  MaxPayments = 0
  MaxTickets = 0
PROPERTIES
  ChargedOrderWasPaid
