---------------------------- MODULE MCEndpointHealth ----------------------------
EXTENDS EndpointHealth, TLC

CONSTANTS r1, r2, r3, r4, i1, i2, q1, q2

\* r4 repeats the report r3, and may come first.
MCAttemptOf == r1 :> 1 @@ r2 :> 2 @@ r3 :> 3 @@ r4 :> 3

Symmetry == Permutations({i1, i2}) \cup Permutations({q1, q2}) \cup Permutations({r3, r4})
================================================================================
