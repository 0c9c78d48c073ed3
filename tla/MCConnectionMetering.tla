-------------------------- MODULE MCConnectionMetering --------------------------
(* Small instances of ConnectionMetering for TLC: the last minute of a run is the *)
(* first of the next period.                                                       *)
EXTENDS ConnectionMetering

MCPeriodOf == [m \in 1..MaxMinute |-> IF m < 3 THEN 1 ELSE 2]
================================================================================
