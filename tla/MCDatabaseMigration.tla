------------------------- MODULE MCDatabaseMigration -------------------------
(* A small instance of DatabaseMigration for TLC. *)
EXTENDS DatabaseMigration, TLC

Symmetry == Permutations(Replicas) \union Permutations(Links)
               \union Permutations(Contents) \union Permutations(Discoveries)
==============================================================================
