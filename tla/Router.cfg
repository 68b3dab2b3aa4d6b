SPECIFICATION FairSpec
CONSTANTS
    Configs <- MCConfigs
    Packets <- MCPackets
    Arrivals = {1, 2}
    Byte = 4
    AddrBits = 3
    MaskBits = 4
    IntBits = 8
    TableSize = 12
CHECK_DEADLOCK FALSE
INVARIANT LongestPrefix
INVARIANT SentToActive
INVARIANT HopsWithinTtl
INVARIANT UpdateKeepsValidity
PROPERTY EveryPacketEnds
