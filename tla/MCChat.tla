------------------------------- MODULE MCChat -------------------------------
(* The chat box and two customers of the monkey's region.                  *)
EXTENDS Chat

MCRegionOf == [c \in Callers |-> IF c = Box THEN "admin" ELSE "na"]
=============================================================================
