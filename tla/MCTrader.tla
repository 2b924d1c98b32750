------------------------------ MODULE MCTrader ------------------------------
(* Trader.tla with interchangeable handlers. *)
EXTENDS Trader, TLC

CONSTANTS h1, h2, h3

Symmetry == Permutations(Handlers)
=============================================================================
