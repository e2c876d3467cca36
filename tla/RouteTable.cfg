\* Four patterns, two methods, every list of up to three user routes and two
\* preset routes.
SPECIFICATION Spec
CONSTANTS
    Patterns <- SlotPatterns
    Normal <- MCNormal
    Serves <- MCServes
    Methods = {"GET", "POST"}
    Any = "ANY"
    ProtectedPaths = {"/healthz"}
    Builtins = {"/a", "/healthz"}
    MaxUser = 3
    MaxPreset = 2
INVARIANTS TypeOK UserRouteSurvives PresetYields OneRoutePerSlot
CHECK_DEADLOCK FALSE
