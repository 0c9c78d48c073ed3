------------------------------ MODULE MCUsageQuota ------------------------------
(* A small instance of UsageQuota for TLC: two channels; two persons and a bot;  *)
(* one message sent twice under one key.                                         *)
EXTENDS UsageQuota

CONSTANTS u, v, b, c, d, s1, s2, s3, s4, s5, k

MCChannelOf == [s \in Send |-> IF s \in {s1, s2, s5} THEN c ELSE d]
MCUserOf == [s \in Send |-> CASE s \in {s3, s5} -> v [] s = s4 -> b [] OTHER -> u]
MCKeyOf == [s \in Send |-> IF s \in {s1, s2} THEN k ELSE NoKey]
================================================================================
