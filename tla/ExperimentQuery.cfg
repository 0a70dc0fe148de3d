SPECIFICATION Spec
CONSTANTS
    u1 = u1
    u2 = u2
    u3 = u3
    u4 = u4
    Uid <- MCUid
    Walker = {w1}
    Count = 2
    NaN = NaN
    Blank = Blank
    Span = Span
    NumCPU = 4
    MaxInt = 1000
SYMMETRY Symmetry
INVARIANTS
    TypeOK
    AscendingWalkIsExact
    DescendingWalkMissesNothing
    QueryMeetsReference
    RequestsAreServed
CHECK_DEADLOCK FALSE
