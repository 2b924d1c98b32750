--------------------------- MODULE MCElbLifecycle ---------------------------
(* ElbLifecycle.tla on two load balancers; one request, r2, arrives at the *)
(* server that is shut down last.                                          *)
EXTENDS ElbLifecycle

CONSTANT r2

OneEach == [r \in Requests |-> IF r = r2 THEN 2 ELSE 1]
=============================================================================
