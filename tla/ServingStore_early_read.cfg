\* The class doc against a clock that steps back.
SPECIFICATION Spec
CONSTANTS
  Keys = {k1}
  Times <- TimeLine
  Versions <- NoVersions
  Projector = "by_time"
  Lag = 1
  Ttl = 1
  ClockMayStepBack = TRUE
  MaxEvents = 2
  MaxClock = 3
INVARIANTS
  ReadsSeeOnlyLagged
