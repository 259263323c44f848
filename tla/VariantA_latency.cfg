\* The bundle as the evaluation runner builds it, which never sleeps.
SPECIFICATION Spec
CONSTANTS
  Stores = {"returns", "payment_events"}
  Keys = {k1}
  LagOf <- Lags
  TtlOf <- Ttls
  Conditions = {"degraded"}
  Latency = 1
  Sleeps = FALSE
  Scopes <- TokenScopes
  Presented = {"a"}
  Batches <- ChargebackBatches
  MaxFeeds = 1
  MaxCalls = 1
  MaxInputs = 2
  MaxClock = 2
INVARIANTS
  SlowSourceIsDelayed
\* A run of the harness ends: its calls, its feeds and the clock have a bound.
CHECK_DEADLOCK FALSE
