---------------------------- MODULE MCBreakGlass ----------------------------
(***************************************************************************)
(* BreakGlass for TLC: two windows, one recipient, two handlers; a third   *)
(* handler closes while the alerts of both openings are still raised.      *)
(***************************************************************************)
EXTENDS BreakGlass, TLC

CONSTANTS w1, w2, b1, r1, h1, h2, h3

MCEvents == {w1, w2}
MCRecipients == {r1}
MCHandlers == {h1, h2}
MCThreeHandlers == {h1, h2, h3}

MCSymmetry == Permutations(MCEvents) \union Permutations(MCHandlers)
=============================================================================
