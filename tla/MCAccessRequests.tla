-------------------------- MODULE MCAccessRequests --------------------------
(***************************************************************************)
(* AccessRequests for TLC: one address, two handlers, interchangeable.     *)
(***************************************************************************)
EXTENDS AccessRequests, TLC

CONSTANTS e1, h1, h2

MCEmails == {e1}
MCHandlers == {h1, h2}

MCSymmetry == Permutations(MCHandlers)
=============================================================================
