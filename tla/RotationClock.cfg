SPECIFICATION Spec
CONSTANTS
    ThresholdDays = 2
    Period = 3
    MaxOutage = 6
    Lifetime = 57
INVARIANTS
    TypeOK
    NeverServesExpired
