SPECIFICATION Spec
CONSTANTS
    w1 = w1
    w2 = w2
    b1 = b1
    r1 = r1
    h1 = h1
    h2 = h2
    h3 = h3
    Events <- MCEvents
    Backup = b1
    Recipients <- MCRecipients
    Handlers <- MCHandlers
    NoRecipient = NoRecipient
    MaxRequests = 3
SYMMETRY MCSymmetry
INVARIANTS TypeOK AnsweredIsAlerted MailFollowsAlert OneWindowAtATime
PROPERTIES ResolutionStays
CHECK_DEADLOCK FALSE
