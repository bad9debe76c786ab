------------------------- MODULE MCOptimisticUpdates -------------------------
(* Instances of OptimisticUpdatesDbPlugin for TLC.                          *)
EXTENDS OptimisticUpdatesDbPlugin

CONSTANTS src, m1, m2, e1, e2

Engine(ack, failure, memory, mirrors) ==
  [ack |-> ack, failure |-> failure, memory |-> memory, mirrors |-> mirrors]

\* The engine of OptimisticUpdatesDbPlugin, and engines over databases.
Engines ==
  {Engine("after-source", "swallow", TRUE, {m1}), Engine("after-source", "swallow", FALSE, {m1}),
   Engine("after-all", "swallow", FALSE, {m1}),
   Engine("after-all", "surface", FALSE, {m1}), Engine("after-all", "surface", FALSE, {m1, m2})}

=============================================================================
