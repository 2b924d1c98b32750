----------------------------- MODULE MCElbPool -----------------------------
(* ElbPool.tla on two backends. *)
EXTENDS ElbPool, TLC

Symmetry == Permutations(Requests)
=============================================================================
