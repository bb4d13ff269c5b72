-------------------------- MODULE MCCertificateStore --------------------------
(* Small instances of CertificateStore for TLC. *)
EXTENDS CertificateStore, TLC

(* DELETE requests, discoveries and workers are interchangeable; the        *)
(* fingerprints are ordered and are not.                                    *)
Symmetry ==
    Permutations(Discoveries) \union Permutations(Requests) \union Permutations(Sweepers)
===============================================================================
