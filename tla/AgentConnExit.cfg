SPECIFICATION FairSpec
CONSTANTS
    p1 = p1
    p2 = p2
    Pair <- MCPair
    Empty = Empty
    Torn = Torn
    Cap = 1
PROPERTY RegistrationFailureExits
