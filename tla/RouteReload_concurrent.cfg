\* Two reloads from the admin API at the same time, with reads that may fail.
SPECIFICATION Spec
CONSTANTS
    NFiles = 2
    ReloadCalls = {a, b}
    Main = Main
    Watcher = Watcher
    Watch = FALSE
    BodyEdits = FALSE
    ReadErrors = TRUE
    MaxEdits = 2
INVARIANTS TableClean
PROPERTY KeepsPromise
SYMMETRY ReloadSymmetry
CHECK_DEADLOCK FALSE
