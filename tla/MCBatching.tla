----------------------------- MODULE MCBatching -----------------------------
(***************************************************************************)
(* Instances of BatchingDbPlugin for TLC: four writes over two schemas,   *)
(* some disjoint, some overlapping, one that spans two schemas.            *)
(***************************************************************************)
EXTENDS BatchingDbPlugin, TLC

CONSTANTS s1, s2, w1, w2, w3, w4, d1, d2

\* w1 and w2 can leave together, w3 conflicts with w1, w4 with everything.
OverlapSchemas == (w1 :> {s1}) @@ (w2 :> {s2}) @@ (w3 :> {s1}) @@ (w4 :> {s1, s2})
TwoSchemas == (w1 :> {s1}) @@ (w2 :> {s2})
=============================================================================
