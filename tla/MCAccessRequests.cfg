SPECIFICATION Spec
CONSTANTS
    e1 = e1
    h1 = h1
    h2 = h2
    MaxRequests = 3
    Emails <- MCEmails
    Handlers <- MCHandlers
SYMMETRY MCSymmetry
INVARIANTS
    TypeOK
    ApprovedIsWhole
    AccountIsBacked
    DuplicateHasOriginal
    SerialSubmissionsAreUnique
PROPERTIES
    SettledStays
