SPECIFICATION Spec
CONSTANTS
    Startup = startup
    Runs = {r1}
    MaxCert = 4
PROPERTY DevCertsActive
CHECK_DEADLOCK FALSE
