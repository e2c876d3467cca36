\* The access log is on, as it is by default.
SPECIFICATION Spec
CONSTANTS
    Statuses = {503}
    UserCodes = {503}
    None = None
    MaxPieces = 2
INVARIANT Trickles
CHECK_DEADLOCK FALSE
