\* Two jobs of every sort and the self-update; one write fails, the process dies once.
SPECIFICATION SUSpec
CONSTANTS
    NoJob = NoJob
    NoID = NoID
    Jobs = {j1, j2}
    Stacks = {s1}
    Repositories = {r1}
    Requests <- MCRequests
    Replacements <- MCReplacements
    MaxStoreErrors = 1
    MaxCrashes = 1
SYMMETRY JobSymmetry
INVARIANTS
    ServiceIsSound
    HelperRunsAlone
    FinalizedIsComplete
PROPERTIES
    StateMovesForward
    ImplementsLease
CHECK_DEADLOCK FALSE
