SPECIFICATION Spec
CONSTANTS
    ISS = 0
    FileLen = 5
    MSS = 2
    HDR = 1
    W = 16
    RepW = 5
    Windows = {0, 2, 4}
    Strays <- OldPackets
    Refusals = 1
    NetCap = 2
INVARIANT TypeOK
INVARIANT SegmentsDisjoint
INVARIANT RexmitHead
INVARIANT DriftLaw
PROPERTY FreedIsAcked
PROPERTY StreamSpec
