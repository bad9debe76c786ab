----------------------------- MODULE MCDataStore -----------------------------
(* Instances of DataStore for TLC: the three ways of tracking, with keys the  *)
(* caller supplies and keys the database assigns, on both kinds of backend.   *)
EXTENDS DataStore

OnMemory == {k \in Kinds : k.backend = "memory"}
OnSQL == Kinds \ OnMemory
Indexed == {k \in Kinds : k.indexed}
Plain == OnMemory \ Indexed
Proxied == {k \in Kinds : k.tracking = "proxy"}

\* Each way of tracking with each kind of key, on one backend with an index and
\* on the other without.
Chosen ==
  {k \in Kinds : k.indexed = ((k.backend = "memory") = ((k.tracking = "proxy") = k.identity))}
==============================================================================
