SPECIFICATION Spec
CONSTANTS
    w1 = w1
    w2 = w2
    w3 = w3
    v1 = v1
    v2 = v2
    Writers <- MCWriters
    Versions <- MCVersions
    MaxRows = 4
SYMMETRY MCSymmetry
INVARIANTS
    TypeOK
    SignedOverHistory
    SerialChainIsValid
PROPERTIES
    BreaksStay
CHECK_DEADLOCK FALSE
