--------------------------- MODULE MCAdcsCollection ---------------------------
(* Small instances of AdcsCollection for TLC; the configurations give its    *)
(* constants their values.                                                   *)
EXTENDS AdcsCollection
===============================================================================
