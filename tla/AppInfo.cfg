SPECIFICATION Spec
CONSTANTS
    h1 = h1
    h2 = h2
    Request <- MCRequest
    Name = {Default, other}
    Default = Default
    None = None
    Absent = Absent
SYMMETRY Symmetry
INVARIANTS
    TypeOK
    LoneUpdateSettles
    FileIsOneWrite
