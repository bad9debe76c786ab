--------------------------- MODULE MCStoragePlugins ---------------------------
(***************************************************************************)
(* Instances of StoragePlugins for TLC.                                    *)
(***************************************************************************)
EXTENDS StoragePlugins

Change(t, do) == [table |-> t, do |-> do, checked |-> FALSE]

\* Of a filter with a null operand, and of a value that JSON does not take.
SomeMalformed == {<<Change(2, "read")>>, <<Change(2, "add")>>}

\* A read, a save that misses what another adds, two that lock in opposite order.
SomeSaves ==
  SomeMalformed \cup
  {<<Change(1, "read")>>,
   <<Change(2, "update"), Change(1, "replace")>>,
   <<Change(1, "add"), [table |-> 2, do |-> "update", checked |-> TRUE]>>,
   <<Change(1, "remove"), Change(2, "add")>>}
===============================================================================
