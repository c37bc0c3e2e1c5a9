---------------------------- MODULE MCSmemBroker ----------------------------
(* Instances of SmemBroker for TLC. *)
EXTENDS SmemBroker

MCRequests == {1, 4, 9}

Symmetry == Permutations(Names) \cup Permutations(Clients) \cup Permutations(Channels)
            \cup Permutations(Ids) \cup Permutations(Producers)
=============================================================================
