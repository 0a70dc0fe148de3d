SPECIFICATION MemSpec
CONSTANTS
    Total = 500
    MemPercent = 70
    MemRate = 10
    Threshold = 20
    OtherUse = {0, 100, 300}
INVARIANT MemTypeOK
PROPERTIES
    TickSparesTheReserve
    LoadSettles
CHECK_DEADLOCK FALSE
