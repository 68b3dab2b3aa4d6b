SPECIFICATION Spec
CONSTANTS
    ISS = 3
    FileLen = 6
    MSS = 2
    HDR = 1
    W = 16
    RepW = 5
    Windows = {6}
    Strays = {}
    Refusals = 0
    NetCap = 2
PROPERTY MovedByAcks
