SPECIFICATION FairSpec
CONSTANTS
    Startup = startup
    Runs = {r1, r2}
    MaxCert = 5
INVARIANTS
    TypeOK
    ServesStoredIdentity
    BootstrapIsEphemeral
    CallPresentsOwnCert
    SpentTokenHasSuccessor
    NeverBroken
PROPERTIES
    ImplementsTrustIdentity
    RotationCompletes
CHECK_DEADLOCK FALSE
