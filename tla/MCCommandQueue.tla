--------------------------- MODULE MCCommandQueue ---------------------------
(***************************************************************************)
(* CommandQueue for TLC: model values for the commands and administrators, *)
(* and a small clock.                                                      *)
(***************************************************************************)
EXTENDS CommandQueue

CONSTANTS c1, c2, a1

MCCommands == {c1, c2}
MCAdmins == {a1}

\* One lifetime is enough: two commands may be issued at different times, so
\* that one outlives the other.
MCLifetimes == {1}
=============================================================================
