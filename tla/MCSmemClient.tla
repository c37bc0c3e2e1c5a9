---------------------------- MODULE MCSmemClient ----------------------------
(* Instances of SmemClient for TLC. *)
EXTENDS SmemClient
=============================================================================
