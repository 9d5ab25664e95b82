----------------------------- MODULE MCBackups -----------------------------
(***************************************************************************)
(* Backups for TLC: three backup jobs in months of two days, one month     *)
(* kept, two retention jobs.                                               *)
(***************************************************************************)
EXTENDS Backups, TLC

CONSTANTS s1, s2

MCSweepers == {s1, s2}
MCSymmetry == Permutations(MCSweepers)
=============================================================================
