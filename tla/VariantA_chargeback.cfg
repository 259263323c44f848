\* Two servers of different lags: a chargeback and the rejected return that follows it.
SPECIFICATION Spec
CONSTANTS
  Stores = {"returns", "payment_events"}
  Keys = {k1}
  LagOf <- Lags
  TtlOf <- Ttls
  Conditions = {"clean", "degraded"}
  Latency = 1
  Sleeps = TRUE
  Scopes <- TokenScopes
  Presented = {"a", "b"}
  Batches <- ChargebackBatches
  MaxFeeds = 2
  MaxCalls = 3
  MaxInputs = 4
  MaxClock = 2
INVARIANTS
  TypeOK
  SourcesAreCausal
PROPERTIES
  ImplementsStores
\* A run of the harness ends: its calls, its feeds and the clock have a bound.
CHECK_DEADLOCK FALSE
