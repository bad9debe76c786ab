------------------------------ MODULE DataStore ------------------------------
(***************************************************************************)
(* Saves of a store whose collection is full-text indexed:                 *)
(* datastore/src/DataStore.ts, the registry of                             *)
(* collection-builder/fullTextSearch.ts and search/FullTextSearchIndexer.ts. *)
(*                                                                         *)
(* The rows of the index go out with the documents they describe, except   *)
(* those of additions whose key the database assigns: these are written    *)
(* once the key is known.  A rebuild reads documents and index, one after  *)
(* the other, and writes the difference.  The content of a row stands for  *)
(* its one term, an index row for its key, the term and the id.            *)
(***************************************************************************)
EXTENDS ChangeTracker

CONSTANTS
  Crashes,          \* may the process end?
  MaxIndexFailures, \* bound on index writes the database refuses
  MaxRebuilds       \* bound on rebuilds

ASSUME IndexAssumption == Crashes \in BOOLEAN /\ {MaxIndexFailures, MaxRebuilds} \subseteq Nat

VARIABLES
  index,       \* the rows of the index
  indexedAdds, \* the added ids whose rows went with the latest save
  rebuild,     \* a rebuild, or the last one: its phase and what it read
  indexCounts, \* index writes refused and rebuilds so far
  crashed,     \* has the process ended?
  drift        \* history: the index may differ, and a rebuild has not mended it

indexVars == <<index, indexedAdds, rebuild, indexCounts, crashed, drift>>
allVars == <<trackerVars, indexVars>>

StoreInit ==
  /\ TrackerInit
  /\ index = IF kind.indexed THEN {<<stored[i], i>> : i \in DOMAIN stored} ELSE {}
  /\ indexedAdds = {}
  /\ rebuild = [phase |-> "idle", documents |-> {}, rows |-> {}]
  /\ indexCounts = [failures |-> 0, rebuilds |-> 0]
  /\ crashed = FALSE /\ drift = FALSE

-----------------------------------------------------------------------------
\* apply: what a save does to the index.  A row edited back to the same term
\* changes none.
EditedIds(p) == {i \in DOMAIN p.updates : p.updates[i] # p.previous[i]}
AddedRows(p) ==
  {<<p.updates[i], i>> : i \in EditedIds(p)}
    \union IF kind.identity THEN {} ELSE {<<a.content, a.key>> : a \in ToSet(p.adds)}
\* (variant) the terms an edit left behind stay.
RemovedRowsOfRemoved(p) == {<<p.removes[i], i>> : i \in DOMAIN p.removes}
RemovedRows(p) ==
  {<<p.previous[i], i>> : i \in EditedIds(p)} \union {<<p.removes[i], i>> : i \in DOMAIN p.removes}

\* The index's part of a save, written as the documents are.
Written(rows, adds, removes) == IF SQL THEN (rows \ removes) \union adds ELSE (rows \union adds) \ removes
ClashesInIndex(rows, adds, removes) == SQL /\ adds \intersect (rows \ removes) # {}

\* Is a save one that SQL's unique keys refuse?
Refused(p) ==
  \/ Clashes(stored, p)
  \/ kind.indexed /\ ClashesInIndex(index, AddedRows(p), RemovedRows(p))

\* Has the caller done what may leave the collection's idea of a row wrong?
Suspect == disturbed \/ excused \union outdated # {}

\* A call of the application on its collection.
Caller ==
  /\ ~crashed
  /\ \/ \E r \in Rows, v \in Values : Add(r, v) \/ Edit(r, v)
     \/ \E r \in Rows : RemoveRow(r)
     \/ Read \/ Deliver
  /\ UNCHANGED indexVars

SaveAll ==
  /\ ~crashed
  /\ SaveChanges
  /\ indexedAdds' = IF kind.indexed /\ ~kind.identity THEN {a.key : a \in ToSet(Prepared.adds)} ELSE {}
  /\ UNCHANGED <<index, rebuild, indexCounts, crashed, drift>>

StoreAll(i) ==
  LET p == saves[i].changes
  IN  /\ ~Refused(p)
      /\ Store(i)
      /\ index' = IF kind.indexed THEN Written(index, AddedRows(p), RemovedRows(p)) ELSE index
      /\ drift' = (drift \/ Suspect)
      /\ UNCHANGED <<indexedAdds, rebuild, indexCounts, crashed>>

RefuseAll(i) == RefuseSave(i, Refused(saves[i].changes)) /\ UNCHANGED indexVars

\* deferredAdds: the rows of the added documents that were not indexed by the
\* latest apply, be it this save's or not.
DeferredRows(i) ==
  LET p == saves[i].changes
      id(n) == AddId(p, n, saves[i].first)
  IN  IF kind.indexed
        THEN {<<p.adds[n].content, id(n)>> : n \in {n \in DOMAIN p.adds : id(n) \notin indexedAdds}}
        ELSE {}

\* The plugin's answer is heard: the collection merges it, or the index is
\* written first.
Heard(i) ==
  /\ saves[i].state = "stored"
  /\ IF DeferredRows(i) = {}
       THEN Answer(i)
       ELSE /\ saves' = [saves EXCEPT ![i].state = "indexing", ![i].follow = DeferredRows(i)]
            /\ UNCHANGED <<kind, stored, nextId, row, additions, removals, reads, counts, wanted,
                           disturbed, excused, outdated, rejected>>
  /\ UNCHANGED indexVars

IndexWritten(i) ==
  /\ saves[i].state = "indexing"
  /\ ~ClashesInIndex(index, saves[i].follow, {})
  /\ index' = index \union saves[i].follow
  /\ drift' = (drift \/ Suspect)
  /\ Answer(i)
  /\ UNCHANGED <<indexedAdds, rebuild, indexCounts, crashed>>

IndexFailed(i) ==
  /\ saves[i].state = "indexing"
  /\ IF ClashesInIndex(index, saves[i].follow, {})
       THEN UNCHANGED indexCounts
       ELSE /\ indexCounts.failures < MaxIndexFailures
            /\ indexCounts' = [indexCounts EXCEPT !.failures = @ + 1]
  /\ Unfinished(i)
  /\ drift' = TRUE
  /\ UNCHANGED <<index, indexedAdds, rebuild, crashed>>

\* The process ends.  Only documents whose rows were to follow lose them.
Crash ==
  /\ Crashes /\ ~crashed
  /\ crashed' = TRUE
  /\ saves' = <<>> /\ reads' = {}
  /\ drift' = (drift \/ \E i \in DOMAIN saves : saves[i].state # "sent" /\ kind.identity /\ saves[i].changes.adds # <<>>)
  /\ rebuild' = [rebuild EXCEPT !.phase = "idle"]
  /\ UNCHANGED <<kind, stored, nextId, row, additions, removals, counts, wanted, disturbed, excused,
                 outdated, rejected, index, indexedAdds, indexCounts>>

-----------------------------------------------------------------------------
Documents == {<<stored[i], i>> : i \in DOMAIN stored}

\* rebuild: of this process or another one.  Where nothing drifted and no save
\* is out there is nothing to see.
ReadDocuments ==
  /\ kind.indexed /\ rebuild.phase = "idle" /\ indexCounts.rebuilds < MaxRebuilds
  /\ drift \/ saves # <<>>
  /\ rebuild' = [phase |-> "documents", documents |-> Documents, rows |-> {}]
  /\ indexCounts' = [indexCounts EXCEPT !.rebuilds = @ + 1]
  /\ UNCHANGED <<trackerVars, index, indexedAdds, crashed, drift>>

ReadIndex ==
  /\ rebuild.phase = "documents"
  /\ rebuild' = [rebuild EXCEPT !.phase = "index", !.rows = index]
  /\ UNCHANGED <<trackerVars, index, indexedAdds, indexCounts, crashed, drift>>

Rebuilt ==
  Written(index, rebuild.documents \ rebuild.rows, rebuild.rows \ rebuild.documents)

\* The difference is written over whatever the index holds by now.
WriteDifference ==
  /\ rebuild.phase = "index"
  /\ IF ClashesInIndex(index, rebuild.documents \ rebuild.rows, rebuild.rows \ rebuild.documents)
       THEN UNCHANGED <<index, drift>>
       ELSE /\ index' = Rebuilt
            /\ drift' = ~(rebuild.documents = Documents /\ rebuild.rows = index)
  /\ rebuild' = [phase |-> "idle", documents |-> {}, rows |-> {}]
  /\ UNCHANGED <<trackerVars, indexedAdds, indexCounts, crashed>>

-----------------------------------------------------------------------------
StoreNext ==
  \/ Caller
  \/ SaveAll
  \/ \E i \in DOMAIN saves :
       StoreAll(i) \/ RefuseAll(i) \/ Heard(i) \/ IndexWritten(i) \/ IndexFailed(i)
  \/ Crash
  \/ ReadDocuments \/ ReadIndex \/ WriteDifference

StoreSpec == StoreInit /\ [][StoreNext]_allVars

-----------------------------------------------------------------------------
\* The types of the variables.
StoreTypeOK ==
  /\ TrackerTypeOK
  /\ index \subseteq Values \X Ids
  /\ indexedAdds \subseteq Ids
  /\ rebuild.phase \in {"idle", "documents", "index"}
  /\ {crashed, drift} \subseteq BOOLEAN

\* Between saves, with nothing disturbed: the next save is one the database's
\* unique keys let in, and leaves every row as the caller last gave it.
SavedAsAsked ==
  ~crashed =>
    /\ TrackedBetweenSaves
    /\ saves = <<>> /\ ~Suspect /\ ~drift => ~Refused(Prepared)

\* "Drift is possible for one reason ... a process that dies between the two"
\* writes of an added document: but for that, a refused write of the index, a
\* rebuild that ran beside a save, and what the collection may have wrong, the
\* index is that of the documents; and a rebuild that ran alone mends it.
IndexDescribesDocuments ==
  kind.indexed /\ saves = <<>> /\ ~drift => index = Documents

\* The comment of FullTextSearchIndexer in full: while the process lives, the
\* index is that of the documents between saves.
NothingElseDrifts == kind.indexed /\ saves = <<>> /\ ~crashed => index = Documents
==============================================================================
