--------------------------- MODULE MCEndpointStatus ---------------------------
(* EndpointStatus on small instances.                                      *)
EXTENDS EndpointStatus

CONSTANTS c1, r1, r2
=============================================================================
