SPECIFICATION FairSpec
CONSTANTS
    jvm = jvm
    other = other
    ends = ends
    CreateCmd <- MCCreateCmd
    EndCmd <- MCEndCmd
    Kinds <- MCKinds
    NoOwner = NoOwner
INVARIANTS
    TypeOK
    ForgottenWhenOver
PROPERTIES
    CallsAreAnswered
    AsyncIsReported
