\* Everything configured; one request to each server; any part may fail.
SPECIFICATION FairSpec
CONSTANTS
    HttpRequests = {h}
    AdminRequests = {a}
    Watch = TRUE
    Tcp = TRUE
    ErrChCap = 3
INVARIANTS TypeOK NoSilentStop GracefulReturn
PROPERTIES AnswersFailure KeepsPromise
CHECK_DEADLOCK FALSE
