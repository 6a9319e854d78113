\* Runs, due work and protection, each part by itself.
SPECIFICATION SuiteSpec
CONSTANTS
  Runs = {1, 2}
  Dests = {"d1", "d2"}
  Jobs = {1, 2, 3}
  Slots = 1
  Keep = 1
  MaxCrashes = 1
  MaxStoreFailures = 1
  MaxPartial = 1
  Reads = 1
INVARIANTS
  CheckpointIsRetained

  
  
  
CHECK_DEADLOCK FALSE
