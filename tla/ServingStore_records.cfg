\* orders, inventory, returns, tickets: the latest time wins; lag and cache.
SPECIFICATION Spec
CONSTANTS
  Keys = {k1, k2}
  Times <- TimeLine
  Versions <- NoVersions
  Projector = "by_time"
  Lag = 1
  Ttl = 1
  ClockMayStepBack = FALSE
  MaxEvents = 3
  MaxClock = 3
INVARIANTS
  TypeOK
  ViewIsProjection
  AnswersAreConsistent
  ReadsSeeOnlyLagged
  ReadInv
PROPERTIES
  ImplementsBoundedStaleness
