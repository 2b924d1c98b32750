---------------------------- MODULE MCElbMetrics ----------------------------
(* ElbMetrics.tla on a few concurrent requests. *)
EXTENDS ElbMetrics, TLC

Symmetry == Permutations(Arrivals)
=============================================================================
