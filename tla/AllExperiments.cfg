SPECIFICATION AllSpec
CONSTANTS
    CpuReq = {}
    MemReq = {m1}
    ScriptReq = {s1}
    DestroyReq = {d1, d2}
    Uid = {u1, u2}
    Pid = {p1}
    Dir = {t1}
    Handle = {p1, t1}
    Archives <- MCArchives
    Guarded = {}
    NoUid = NoUid
    NoPid = NoPid
    NoRow = NoRow
    ReadErrors = TRUE
    Collide = TRUE
SYMMETRY Symmetry
INVARIANTS
    AllInv
    DestroyedIsDead
    SuccessMeansDead
    RowNamesLiveProcess
    ScriptDestroyedIsGone
