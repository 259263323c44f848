\* A new order with one item, its advances and snapshots of the stock in two ticks, a
\* queue of two, and a broker that may reorder, duplicate, lose or never answer.
SPECIFICATION Spec
CONSTANTS
  Keys <- Entities
  Stock <- Rows
  Operations <- Orders
  Ticks = 1
  Capacity = 2
  MaxSent = 4
  MaxLog = 5
INVARIANTS
  TypeOK
  NothingVanishes
  ReplicasConverge
PROPERTIES
  OnlyBacklogStopsRuns
  RunEnds
