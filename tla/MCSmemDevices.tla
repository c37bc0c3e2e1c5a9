--------------------------- MODULE MCSmemDevices ---------------------------
(* Instances of SmemDevices for TLC. *)
EXTENDS SmemDevices
Durations == [i \in Streams |-> 1]
Symmetry == Permutations(Ids)
=============================================================================
