---------------------------- MODULE MCSmemPubSub ----------------------------
(* Instances of SmemPubSub for TLC. *)
EXTENDS SmemPubSub

Symmetry == Permutations(Clients) \cup Permutations(Channels) \cup Permutations(Names)
=============================================================================
