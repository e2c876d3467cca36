\* Reads of up to two bytes, socket buffers of three, six bytes sent.
SPECIFICATION FairSpec
CONSTANTS
    Banner = TRUE
    readBufferSize = 2
    PipeCap = 3
    MaxBytes = 6
INVARIANTS TypeOK EchoesInOrder ClosedForReason
PROPERTY QuietClientIsClosed
CHECK_DEADLOCK FALSE
