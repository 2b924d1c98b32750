---------------------------- MODULE MCTradePath ----------------------------
(* TradePath.tla on one trade that the router sends to either recorder at  *)
(* random, one it sends to the canary (flag GOZERO) and one that the       *)
(* tables refuse.                                                          *)
EXTENDS TradePath, TLC

CONSTANTS good, canary, refused, c1, c2

MCTrades == {good, canary, refused}

MCRoutes ==
  [t \in MCTrades |->
     IF t = canary THEN {"recorder-go-zero"} ELSE {"recorder-java", "recorder-go"}]

Symmetry == Permutations({c1, c2})
=============================================================================
