SPECIFICATION Spec
CONSTANTS
    Width = 4
    MaxBody = 11
    MaxWords = 4
    MaxGap = 2
INVARIANTS
    ProperPem
    KeepsBody
PROPERTY
    Idempotent
CHECK_DEADLOCK FALSE
