----------------------------- MODULE MCSmemPool -----------------------------
(***************************************************************************)
(* A small instance of the buffer table.  With Page = 2 the requests are   *)
(* rounded to 0 (refused), 2, 4 and 10 (larger than MaxSmemSize).          *)
(***************************************************************************)
EXTENDS SmemPool, TLC

MCRequests == {0, 1, 4, 9}

\* The kernel's identifiers are interchangeable.
IdSymmetry == Permutations(Ids)
=============================================================================
