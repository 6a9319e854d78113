\* A stop intent that is not saved, and a restart that fails.
SPECIFICATION Spec
CONSTANTS
    Writers = {w1, w2}
    NoWriter = NoWriter
    NoJournal = NoJournal
    MaxFailures = 2
    MaxCrashes = 0
INVARIANTS
    FailedRestartBlocks
CHECK_DEADLOCK FALSE
