--------------------------- MODULE MCNamedInstances ---------------------------
(* A small instance of NamedInstances for TLC. *)
EXTENDS NamedInstances

Symmetry == Permutations(Requests)

(* What may be missing: nothing, or one attribute that the code needs. *)
MCGaps == {{}, {"authority_winrm_transport"}, {"authority_credential"}, {"authority_use_https"}}
===============================================================================
