SPECIFICATION Spec
CONSTANTS
    Startup = startup
    Runs = {r1, r2}
    MaxCert = 5
    Keys = {k1, k2}
    ToolKey = k1
    NoKey = nokey
    Nobody = nobody
INVARIANTS
    TypeOK
    RestartLoads
PROPERTY ImplementsCertSync
CHECK_DEADLOCK FALSE
