SPECIFICATION Spec
CONSTANTS
    r1 = r1
    r2 = r2
    s1 = s1
    s2 = s2
    NoRoom = NoRoom
    NoSession = NoSession
    Rooms <- MCRooms
    Sessions <- MCTwoSessions
INVARIANTS
    StopMeansStopped
CHECK_DEADLOCK FALSE
