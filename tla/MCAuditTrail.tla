----------------------------- MODULE MCAuditTrail -----------------------------
(***************************************************************************)
(* AuditTrail for TLC: three handlers and two key versions, interchangeable. *)
(***************************************************************************)
EXTENDS AuditTrail, TLC

CONSTANTS w1, w2, w3, v1, v2

MCWriters == {w1, w2, w3}
MCVersions == {v1, v2}

MCSymmetry == Permutations(MCWriters) \union Permutations(MCVersions)
=============================================================================
