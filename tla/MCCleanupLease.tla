---------------------------- MODULE MCCleanupLease ----------------------------
(* Small instances of CleanupLease for TLC. *)
EXTENDS CleanupLease, TLC

Symmetry == Permutations(Workers)
===============================================================================
