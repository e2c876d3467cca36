\* Every handler and every combination of overrides, with and without --quiet.
SPECIFICATION FairSpec
CONSTANTS
    Statuses = {99, 100, 204, 503}
    UserCodes = {99, 503}
    None = None
    MaxPieces = 3
INVARIANTS TypeOK WholeBody Decodable LogTellsStatus TricklesWhenQuiet
PROPERTY DisconnectFrees
CHECK_DEADLOCK FALSE
