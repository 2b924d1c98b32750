------------------------------ MODULE MCMonkey ------------------------------
(* Monkey.tla with the names of a region's customers and of others. *)
EXTENDS Monkey
=============================================================================
