---------------------------- MODULE MCGatewayResume ----------------------------
(* Small instances of GatewayResume for TLC: every user is in every channel. *)
EXTENDS GatewayResume

MCMemberOf == [k \in Connection |-> Channel]
===============================================================================
