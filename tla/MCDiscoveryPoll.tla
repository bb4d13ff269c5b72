---------------------------- MODULE MCDiscoveryPoll ----------------------------
(* Small instances of DiscoveryPoll for TLC. *)
EXTENDS DiscoveryPoll, TLC

PollSymmetry == Permutations(Polls) \union Permutations(Discoveries)
===============================================================================
