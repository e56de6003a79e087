SPECIFICATION Spec
CONSTANTS
    Startup = startup
    Runs = {r1}
    MaxCert = 4
PROPERTY BootstrapUsedOnce
CHECK_DEADLOCK FALSE
