SPECIFICATION Spec
CONSTANTS
    Certificates = {c1, c2, c3}
    Keys = {k1, k2}
    Empty = empty
    Torn = torn
    Unreadable = unreadable
    NoKey = nokey
PROPERTY ImplementsRegister
