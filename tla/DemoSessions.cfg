\* Every step of a demo that has begun is taken in the end (FairSpec).
SPECIFICATION FairSpec
CONSTANTS
    c1 = c1
    c2 = c2
    v = v
    Callers = {c1, c2, v}
    Managed = {v}
    Chunks <- MCChunks
    Offset <- MCOffset
    Parts <- MCParts
INVARIANTS
    TypeOK
    OwnAnswers
    NoConnectionLeft
PROPERTIES
    ImplementsDemoCalls
    DemoEnds
