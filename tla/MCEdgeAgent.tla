----------------------------- MODULE MCEdgeAgent -----------------------------
(***************************************************************************)
(* EdgeAgent for TLC: two rooms, so that a camera can be renamed, and two  *)
(* sessions, the one that is replaced and its successor.                   *)
(***************************************************************************)
EXTENDS EdgeAgent

CONSTANTS r1, r2, s1, s2

MCRooms == {r1, r2}
MCTwoSessions == {s1, s2}
=============================================================================
