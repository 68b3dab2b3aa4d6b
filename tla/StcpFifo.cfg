SPECIFICATION FairSpec
CONSTANTS
    ISS = 3
    FileLen = 10
    MSS = 3
    HDR = 1
    W = 16
    RepW = 5
    Windows = {1, 2, 6}
    Strays = {}
    Refusals = 1
    NetCap = 1
INVARIANT WindowContiguous
INVARIANT SplitHeadTooLarge
INVARIANT Overshoot
INVARIANT EarlyFin
PROPERTY Terminates
