--------------------------- MODULE MCPublishState ---------------------------
(***************************************************************************)
(* PublishState for TLC: two webhook events, one request thread beside the *)
(* event loop. No symmetry, because a liveness property is checked.        *)
(***************************************************************************)
EXTENDS PublishState

CONSTANTS e1, e2, loop, t1

MCTwoEvents == {e1, e2}
MCOneThread == {t1}
=============================================================================
