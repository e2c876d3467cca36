\* --watch alone: the watch loop is the only one who reloads.
SPECIFICATION FairSpec
CONSTANTS
    NFiles = 2
    ReloadCalls = {}
    Main = Main
    Watcher = Watcher
    Watch = TRUE
    BodyEdits = TRUE
    ReadErrors = FALSE
    MaxEdits = 3
INVARIANTS TypeOK NoLostWakeup QuietMeansFresh NoRollback
PROPERTY Converges
CHECK_DEADLOCK FALSE
