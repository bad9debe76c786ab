-------------------------------- MODULE MCViews --------------------------------
(* One mirror of a filtered query and one history of all rows, in a store of *)
(* its own; another store, in the thread too, and another tab make changes.  *)
EXTENDS Views

CONSTANTS i1, mirror, history, viewing

Homes == [s \in Subs |-> viewing]
=============================================================================
