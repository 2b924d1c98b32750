---------------------------- MODULE MCProcessor ----------------------------
(* Processor.tla on small sets. *)
EXTENDS Processor
=============================================================================
