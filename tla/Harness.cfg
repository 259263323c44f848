\* One category of tasks, a clean and a degraded condition, and two costs.
SPECIFICATION Spec
CONSTANTS
  Categories = {"multi_hop"}
  Conditions = {"clean", "degraded"}
  Costs = {1, 2}
  MaxRows = 3
  MaxRuns = 2
INVARIANTS
  TypeOK
  FileIsOneRun
  TaxonomyAddsUp
  SummariesAgree
PROPERTY
  AuthIsExact
