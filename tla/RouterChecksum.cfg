SPECIFICATION Spec
CONSTANTS
    Configs <- MCConfigs
    Packets <- Sent
    Arrivals = {1, 2}
    Byte = 4
    AddrBits = 3
    MaskBits = 4
    IntBits = 8
    TableSize = 12
CHECK_DEADLOCK FALSE
INVARIANT ReportedAsDamagedIs
