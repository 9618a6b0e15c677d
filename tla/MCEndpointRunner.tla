-------------------------- MODULE MCEndpointRunner --------------------------
(* EndpointRunner on small instances. *)
EXTENDS EndpointRunner, TLC
=============================================================================
