SPECIFICATION FairSpec
CONSTANTS
    Worker = {w1, w2}
    Period = 2
    Target = 1
    Uses = {0, 1, 2}
    MaxQ = 11
    MaxRounds = 6
INVARIANTS
    TypeOK
    LoadHoldsAtFirst
PROPERTY ProducerIsServed
