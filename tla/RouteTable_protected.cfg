\* A parameter that matches a protected path.
SPECIFICATION Spec
CONSTANTS
    Patterns <- MCPatterns
    Normal <- MCNormal
    Serves <- MCServes
    Methods = {"GET", "POST"}
    Any = "ANY"
    ProtectedPaths = {"/healthz"}
    Builtins = {"/a", "/healthz"}
    MaxUser = 3
    MaxPreset = 1
INVARIANT ProtectedNeverShadowed
CHECK_DEADLOCK FALSE
