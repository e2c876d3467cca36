\* One admin reload beside the watch loop.
SPECIFICATION Spec
CONSTANTS
    NFiles = 1
    ReloadCalls = {a}
    Main = Main
    Watcher = Watcher
    Watch = TRUE
    BodyEdits = FALSE
    ReadErrors = FALSE
    MaxEdits = 2
INVARIANT NoRollback
CHECK_DEADLOCK FALSE
