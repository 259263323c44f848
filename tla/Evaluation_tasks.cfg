\* A scenario before, and a return after, the delivery of an order; a second order pushes
\* the first one out of the lifecycle window.
SPECIFICATION Spec
CONSTANTS
  NCustomers = 2
  NRows = 1
  InitialTiers <- OnlyGold
  InitialStock = {2}
  Quantities = {1}
  MaxItems = 1
  BaselineOrders = 1
  Ticks = 4
  SnapshotEvery = 2
  FireAt <- Once
  ScanWindow = 2
  LifecycleWindow = 1
  MaxOrders = 2
  MaxReturns = 2
  MaxPayments = 0
  MaxTickets = 1
  RecentLimit = 4
CONSTRAINT TicketBound
INVARIANTS
  StreamIsCausal
  ReplayMatchesState
  LifecycleIsPaid
  HonestAgentsScore
  FreezingIsFair
  VariantsAgree
  MultiHopIsNeverStale
  ViewsAreCoherent
