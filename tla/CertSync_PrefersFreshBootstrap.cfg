SPECIFICATION Spec
CONSTANTS
    Startup = startup
    Runs = {r1}
    MaxCert = 4
PROPERTY PrefersFreshBootstrap
CHECK_DEADLOCK FALSE
