\* Repository maintenance, the restore library and prepared restores, each
\* part by itself.
SPECIFICATION SuiteSpec
CONSTANTS
  Names = {1, 2}
  Tokens = {1, 2}
  Archives = {{1}, {1, 2}}
  Policies = {"metadata", "subset", "all"}
  MaxChecks = 3
  MaxCrashes = 1
  MaxStoreFailures = 1
INVARIANTS
  ReplacementIsSafe
PROPERTIES
  MaintenanceIsReviewed
  
  ReplacementIsExact
CHECK_DEADLOCK FALSE
