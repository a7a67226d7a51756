------------------------------ MODULE MCWorker ------------------------------
(* Small instances of Worker for TLC. *)
EXTENDS Worker, TLC
RequestSymmetry == Permutations(Requests)
=============================================================================
