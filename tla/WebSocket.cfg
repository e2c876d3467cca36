\* Three frames of twelve kinds; a socket buffer of two frames.
SPECIFICATION FairSpec
CONSTANTS
    Frames <- MCFrames
    bannerSize = 64
    PipeCap = 2
    MaxFrames = 3
INVARIANTS TypeOK EchoesVerbatim CloseIsLast RepliesWellFormed FragmentsReassemble ClosedForReason
PROPERTY DepartedIsFreed
CHECK_DEADLOCK FALSE
