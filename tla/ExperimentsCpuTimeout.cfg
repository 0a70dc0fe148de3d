SPECIFICATION FairSpec
CONSTANTS
    CpuReq = {c1}
    MemReq = {}
    DestroyReq = {d1}
    Uid = {u1}
    Pid = {p1}
    Handle = {p1}
    Guarded = {}
    NoUid = NoUid
    NoPid = NoPid
    NoRow = NoRow
    Collide = FALSE
    ReadErrors = FALSE
PROPERTIES
    CpuExperimentEnds
