SPECIFICATION Spec
CONSTANTS
    ISS = 3
    FileLen = 8
    MSS = 2
    HDR = 1
    W = 16
    RepW = 5
    Windows = {4}
    Strays = {}
    Refusals = 1
    NetCap = 1
INVARIANT SendsTheFile
