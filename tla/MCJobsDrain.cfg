\* The barrier after a helper that fails without a restart.
SPECIFICATION SUFairSpec
CONSTANTS
    NoJob = NoJob
    NoID = NoID
    Jobs = {j1, j2}
    Stacks = {s1}
    Repositories = {r1}
    Requests <- MCFewRequests
    Replacements = {}
    MaxStoreErrors = 0
    MaxCrashes = 1
PROPERTIES
    DrainEndsWithJob
CHECK_DEADLOCK FALSE
