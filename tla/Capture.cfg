\* Two containers, failed commands and writes, deaths of the process.
SPECIFICATION FairSpec
CONSTANTS
    Writers = {w1, w2}
    NoWriter = NoWriter
    NoJournal = NoJournal
    MaxFailures = 2
    MaxCrashes = 2
INVARIANTS
    WorkIsQuiet
    NoForgottenWriter
    JournalBlocksWork
    PartialRestoreHeld
PROPERTIES
    WritersReturn
CHECK_DEADLOCK FALSE
