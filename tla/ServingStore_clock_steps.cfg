\* tier changes, items and payments, with versions, under a clock that steps back:
\* lists that the cache shares with the view.
SPECIFICATION Spec
CONSTANTS
  Keys = {k1}
  Times <- TimeLine
  Versions <- TwoVersions
  Projector = "append"
  Lag = 1
  Ttl = 1
  ClockMayStepBack = TRUE
  MaxEvents = 3
  MaxClock = 2
INVARIANTS
  ViewIsProjection
  KindsKeepTheirOrder
  AnswersAreConsistent
PROPERTIES
  ReadsNeverRegress
