----------------------------- MODULE MCHostedMedia -----------------------------
EXTENDS HostedMedia, TLC

CONSTANTS a, b, w1, w2, m1, m2

\* Both messages share one object.
MCMediaOf == m1 :> a @@ m2 :> a

Symmetry == Permutations({w1, w2}) \cup Permutations({m1, m2})
================================================================================
