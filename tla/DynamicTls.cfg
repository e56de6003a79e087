\* Two runs of the tool, the second over whatever the first left (Bounded).
SPECIFICATION Spec
CONSTANTS
    Server = server
    Client = client
    MaxRuns = 2
    MaxIds = 6
CONSTRAINT Bounded
INVARIANTS
    TypeOK
    FreshHandshake
    PeersTrust
