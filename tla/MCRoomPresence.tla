--------------------------- MODULE MCRoomPresence ---------------------------
(***************************************************************************)
(* RoomPresence for TLC: one user and one camera in two rooms, a second    *)
(* gateway that may be created and assigned, two administrators.           *)
(***************************************************************************)
EXTENDS RoomPresence, TLC

CONSTANTS u1, c1, g1, g2, r1, r2, h1, h2

MCUsers == {u1}
MCCameras == {c1}
MCGateways == {g1, g2}
MCRooms == {r1, r2}
MCHandlers == {h1, h2}
MCSymmetry == Permutations(MCHandlers)
=============================================================================
