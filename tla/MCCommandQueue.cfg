SPECIFICATION FairSpec
CONSTANTS
    c1 = c1
    c2 = c2
    a1 = a1
    NoCommand = NoCommand
    Commands <- MCCommands
    Admins <- MCAdmins
    Lifetimes <- MCLifetimes
    MaxTime = 2
    MaxMessages = 1
    MaxAttempts = 2
INVARIANTS
    TypeOK
    VerdictFollowsGateway
    RejectedIsAlerted
PROPERTIES
    ExpiredIsNotStarted
    PromiseKept
    SettledEventually
CHECK_DEADLOCK FALSE
