SPECIFICATION Spec
CONSTANTS
    ISS = 3
    FileLen = 5
    MSS = 2
    HDR = 1
    W = 16
    RepW = 5
    Windows = {2}
    Strays = {}
    Refusals = 0
    NetCap = 2
INVARIANT WaitsForSomething
