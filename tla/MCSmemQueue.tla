---------------------------- MODULE MCSmemQueue ----------------------------
(* Instances of SmemQueue for TLC. *)
EXTENDS SmemQueue
=============================================================================
