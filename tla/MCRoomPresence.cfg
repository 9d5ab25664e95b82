SPECIFICATION Spec
CONSTANTS
    u1 = u1  c1 = c1  g1 = g1  g2 = g2  r1 = r1  r2 = r2  h1 = h1  h2 = h2
    NoGateway = NoGateway
    MediaPlane = MediaPlane
    Users <- MCUsers
    Cameras <- MCCameras
    Gateways <- MCGateways
    Rooms <- MCRooms
    Handlers <- MCHandlers
    FirstUser = u1
    FirstCamera = c1
    FirstGateway = g1
    FirstRoom = r1
    MaxEdits = 3
    MaxViews = 1
    MaxRequests = 3
SYMMETRY MCSymmetry
INVARIANTS TypeOK AuditAgrees
 
CHECK_DEADLOCK FALSE
