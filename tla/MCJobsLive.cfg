\* Progress under fairness: the store does not fail, the process dies once.
SPECIFICATION SUFairSpec
CONSTANTS
    NoJob = NoJob
    NoID = NoID
    Jobs = {j1, j2}
    Stacks = {s1}
    Repositories = {r1}
    Requests <- MCFewRequests
    Replacements = {}
    MaxStoreErrors = 0
    MaxCrashes = 1
PROPERTIES
    LeasesReturned
    ReportsSettle
CHECK_DEADLOCK FALSE
