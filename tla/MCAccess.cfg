SPECIFICATION Spec
CONSTANTS
    u1 = u1  c1 = c1  s1 = s1  h1 = h1  h2 = h2
    NoSession = NoSession
    Users <- MCUsers
    Keys <- MCUsers
    Cameras <- MCCameras
    Sessions <- MCSessions
    Handlers <- MCHandlers
    MaxRequests = 2
    Window = 2
    Second = 2
    MaxTime = 3
    MaxLives = 2
    MaxPassed = 3
    IdleLimit = 0
    AbsoluteLimit = 1
    TokenLife = 1
SYMMETRY MCSymmetry
INVARIANTS TypeOK RateRespected DisabledIsShutOut
CHECK_DEADLOCK FALSE
