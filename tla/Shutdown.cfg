SPECIFICATION FairSpec
CONSTANT MaxPosts = 2
INVARIANTS
    SurvivorIsPastWait
PROPERTY OfferedTermEnds
