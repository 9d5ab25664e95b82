------------------------------ MODULE MCAccess ------------------------------
(***************************************************************************)
(* Access for TLC: one user with one session, one camera, two requests at  *)
(* the same time. The limiter lets two requests through in two ticks, and  *)
(* a second has two, so that times are rounded; the process lives twice,   *)
(* and three requests get past the limiter in all.                         *)
(***************************************************************************)
EXTENDS Access, TLC

CONSTANTS u1, c1, s1, h1, h2

MCUsers == {u1}
MCCameras == {c1}
MCSessions == {s1}
MCHandlers == {h1, h2}
MCSymmetry == Permutations(MCHandlers)
=============================================================================
