SPECIFICATION FairSpec
CONSTANTS
    CpuReq = {c1, c2}
    MemReq = {m1}
    DestroyReq = {d1}
    Uid = {u1, u2}
    Pid = {p1, p2}
    Handle = {p1, p2}
    Guarded = {c1}
    NoUid = NoUid
    NoPid = NoPid
    NoRow = NoRow
    Collide = FALSE
    ReadErrors = FALSE
INVARIANTS
    UInv
PROPERTIES
    KeepsPromise
    MemExperimentEnds
    DestroyTakesEffect
