---------------------------- MODULE MCRecorders ----------------------------
(* Recorders.tla on one trade the router sends anywhere at random, one it  *)
(* sends to the canary (flag GOZERO) and one the tables refuse.            *)
EXTENDS Recorders, TLC

CONSTANTS random, canary, refused, c1, c2

MCTrades == {random, canary, refused}

MCRoutes ==
  [t \in MCTrades |->
     CASE t = canary -> {"recorder-go-zero"}
       [] OTHER      -> {"recorder-java", "recorder-go"}]

Symmetry == Permutations({c1, c2})
=============================================================================
