\* The loops of both applications go on, Trust need not answer (FairSpec).
SPECIFICATION FairSpec
CONSTANTS
    Server = server
    Client = client
    Disks <- MCDisks
INVARIANTS
    TypeOK
    IdentityBeforeUse
PROPERTIES
    FailsForOwnReason
    StartWaitsOnlyForAnswers
