\* A later route for every method after two for specific ones.
SPECIFICATION Spec
CONSTANTS
    Patterns <- MCPatterns
    Normal <- MCNormal
    Serves <- MCServes
    Methods = {"GET", "POST"}
    Any = "ANY"
    ProtectedPaths = {"/healthz"}
    Builtins = {"/a", "/healthz"}
    MaxUser = 3
    MaxPreset = 1
INVARIANT LaterFilesWin
CHECK_DEADLOCK FALSE
