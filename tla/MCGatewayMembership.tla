-------------------------- MODULE MCGatewayMembership --------------------------
(* Small instances of GatewayMembership for TLC: one user with several connections. *)
EXTENDS GatewayMembership

CONSTANTS u

MCUserOf == [k \in Connection |-> u]
===============================================================================
