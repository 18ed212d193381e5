--------------------------- MODULE MC_NavController ---------------------------
(* NavController on three tasks; the tasks are interchangeable.             *)
EXTENDS NavController, TLC

Symmetry == Permutations(Task)
=============================================================================
