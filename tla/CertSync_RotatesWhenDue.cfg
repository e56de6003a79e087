SPECIFICATION FairSpec
CONSTANTS
    Startup = startup
    Runs = {r1}
    MaxCert = 4
PROPERTY RotatesWhenDue
CHECK_DEADLOCK FALSE
