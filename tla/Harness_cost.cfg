\* Costs of a run in which nothing was answered correctly.
SPECIFICATION Spec
CONSTANTS
  Categories = {"multi_hop"}
  Conditions = {"clean", "degraded"}
  Costs = {1, 2}
  MaxRows = 3
  MaxRuns = 2
INVARIANT
  CostIsStandardised
