SPECIFICATION Spec
CONSTANTS
    ScriptReq = {s1, s2}
    DestroyReq = {d1}
    Uid = {u1, u2}
    Dir = {t1, t2}
    Handle = {t1, t2}
    Archives <- MCArchives
    NoUid = NoUid
    NoDir = NoDir
    NoRow = NoRow
    ReadErrors = FALSE
    Collide = FALSE
SYMMETRY Symmetry
INVARIANTS
    TypeOK
    UnsharedRunsItsOwn
    StatusTellsOutcome
    DestroyCleansUp
PROPERTY OnlyOwnReportOverwrites
