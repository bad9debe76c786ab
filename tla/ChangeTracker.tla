---------------------------- MODULE ChangeTracker ----------------------------
(***************************************************************************)
(* What a collection holds for the next save, and what a save does to it:  *)
(* datastore/src/change-tracking (ChangeTracker, ImmutableUpdates and the  *)
(* two kinds of additions), CollectionBase.prepare and afterPersist, and   *)
(* saveChanges of DataStore.ts.                                            *)
(*                                                                         *)
(* One collection without transforms; a row is the handle a caller holds,  *)
(* its content one value.  A save is handed to the plugin in one step with *)
(* its preparation and answered later; between the two the caller goes on  *)
(* (During).  DataStore puts these actions together with the search index. *)
(***************************************************************************)
EXTENDS Naturals, FiniteSets, SequencesExt

CONSTANTS
  Rows,        \* handles, numbered from 1; a known key is the row's number
  Starts,      \* the sets of rows that may be stored and read before the first step
  MaxValue,    \* contents are 1..MaxValue
  Collections, \* the collections checked, see Kinds
  During,      \* the calls made while a save is out: subset of
               \* {"add", "edit", "remove", "save", "read"}
  Careless,    \* what else a caller may do: subset of
               \* "reread": have a query return a proxied row with unsaved edits,
               \* "editRemoved": edit a row after its removal,
               \* "removeUnsaved": with SQL or identity keys, remove a row before
               \*   its first save,
               \* "removeEdited": remove a row with unsaved edits, where the
               \*   removal then names what is not stored
  MaxSaves,    \* bound on saves
  MaxRefusals, \* bound on saves the database refuses
  MaxReads     \* bound on queries

Trackings == {"proxy", "diff", "immutable"}

\* How edits are found; does the database assign keys; does it apply a save as
\* the memory family does or as SQL does; is the collection full-text indexed.
Kinds == [tracking : Trackings, identity : BOOLEAN, backend : {"memory", "sql"}, indexed : BOOLEAN]

ASSUME RowsAssumption == IsFiniteSet(Rows) /\ Rows = 1..Cardinality(Rows) /\ Starts \subseteq SUBSET Rows
ASSUME BoundAssumption == MaxValue \in Nat \ {0} /\ {MaxSaves, MaxRefusals, MaxReads} \subseteq Nat
ASSUME ChoiceAssumption ==
  /\ Collections \subseteq Kinds
  /\ Careless \subseteq {"reread", "editRemoved", "removeUnsaved", "removeEdited"}

VARIABLES
  kind,      \* the collection: its changeTrackingType, and are keys identities
  stored,    \* the database: the content of each id it holds
  nextId,    \* the next identity it assigns
  row,       \* what the collection holds of each row, see RowState
  additions, \* the pending additions: the row and the key it is filed under
  removals,  \* the rows queued for removal, each as the removal named it
  saves,     \* saves handed to the plugin and not answered
  reads,     \* answers of queries not delivered
  counts,    \* saves, refusals and queries so far
  wanted,    \* history: the content the caller last gave each row, 0 if removed
  disturbed, \* history: a call was made while a save was out, or a stored save
             \* was answered with an index's error
  excused,   \* history: the proxied rows that a query returned with unsaved
             \* edits, or whose first save followed an edit
  outdated,  \* history: the rows given an answer older than the database
  rejected   \* history: a save that was stored was answered with an error

trackerVars == <<kind, stored, nextId, row, additions, removals, saves, reads, counts,
          wanted, disturbed, excused, outdated, rejected>>

Values == 1..MaxValue
ValuesOrNone == 0..MaxValue
Ids == Nat \ {0}

\* held: the content of the object; base: what __tracking__.original (proxy),
\* the snapshot (diff) or the pending update (immutable) keeps of it as it was,
\* 0 when nothing is recorded; patch: the pending
\* patch of an immutable row, or 0; id: 0 until one is assigned; slot: see
\* UnsavedRow; attached: is the object the canonical attachment of its id.
RowState == [held : ValuesOrNone, base : ValuesOrNone, patch : ValuesOrNone, id : Nat,
             slot : {"none", "pending", "saved", "discarded"}, attached : BOOLEAN]

Tracking == kind.tracking
SQL == kind.backend = "sql"
Key(r) == IF kind.identity THEN row[r].held ELSE r

TrackerInit ==
  /\ kind \in Collections
  /\ nextId = 1 + Cardinality(Rows)
  /\ \E Loaded \in Starts :
       /\ stored = [i \in Loaded |-> 1]
       /\ row = [r \in Rows |->
            IF r \in Loaded
              THEN [held |-> 1, base |-> IF kind.tracking = "diff" THEN 1 ELSE 0, patch |-> 0,
                    id |-> r, slot |-> "none", attached |-> TRUE]
              ELSE [held |-> 0, base |-> 0, patch |-> 0, id |-> 0, slot |-> "none", attached |-> FALSE]]
       /\ wanted = [r \in Rows |-> IF r \in Loaded THEN 1 ELSE 0]
  /\ additions = <<>> /\ removals = {} /\ saves = <<>> /\ reads = {}
  /\ counts = [saves |-> 0, refusals |-> 0, reads |-> 0]
  /\ disturbed = FALSE /\ excused = {} /\ outdated = {} /\ rejected = FALSE

-----------------------------------------------------------------------------
\* A call of the application: with a save out, only those of During.
Call(name) ==
  /\ saves = <<>> \/ name \in During
  /\ disturbed' = (disturbed \/ (saves # <<>> /\ name # "read"))

Pending(r) == \E n \in DOMAIN additions : additions[n].row = r

\* add: filed under its key, a hash of the content for identity keys.
Add(r, v) ==
  /\ Call("add")
  /\ row[r].held = 0
  /\ row' = [row EXCEPT ![r].held = v, ![r].slot = "pending", ![r].id = IF kind.identity THEN 0 ELSE r]
  /\ additions' = Append(additions, [row |-> r, key |-> IF kind.identity THEN v ELSE r])
  /\ wanted' = [wanted EXCEPT ![r] = v]
  /\ UNCHANGED <<kind, stored, nextId, removals, saves, reads, counts, excused, outdated, rejected>>

\* A write to a property.  The proxy keeps the first value it replaces, and
\* forgets it when that value comes back; a plain object records nothing.
Assign(r, v) ==
  /\ Tracking # "immutable" /\ row[r].held \notin {0, v}
  /\ row' = [row EXCEPT ![r].held = v,
       ![r].base = IF Tracking = "diff" THEN @
                   ELSE IF @ = 0 THEN row[r].held ELSE IF @ = v THEN 0 ELSE @]
  /\ UNCHANGED additions

\* update() of an unsaved row: a new object takes its place, under a new key.
UpdateUnsaved(r, v) ==
  /\ Tracking = "immutable" /\ row[r].slot = "pending"
  /\ row' = [row EXCEPT ![r].held = v]
  /\ \E n \in DOMAIN additions :
       /\ additions[n].row = r
       /\ additions' = Append(RemoveAt(additions, n), [row |-> r, key |-> IF kind.identity THEN v ELSE r])

\* update() of a saved row: a patch over the attached one.  It throws when no
\* row of this id is attached.
UpdateSaved(r, v) ==
  /\ Tracking = "immutable" /\ row[r].slot # "pending" /\ row[r].attached
  /\ row' = [row EXCEPT ![r].patch = v, ![r].base = IF row[r].patch = 0 THEN row[r].held ELSE @]
  /\ UNCHANGED additions

Edit(r, v) ==
  /\ Call("edit")
  /\ wanted[r] # 0 \/ "editRemoved" \in Careless
  /\ Assign(r, v) \/ UpdateUnsaved(r, v) \/ UpdateSaved(r, v)
  /\ wanted' = [wanted EXCEPT ![r] = IF @ = 0 THEN 0 ELSE v]
  /\ UNCHANGED <<kind, stored, nextId, removals, saves, reads, counts, excused, outdated, rejected>>

\* isDirty, isSnapshotDirty or a pending patch.
Dirty(r) ==
  /\ row[r].attached
  /\ CASE Tracking = "proxy" -> row[r].base # 0
       [] Tracking = "diff" -> row[r].base # row[r].held
       [] Tracking = "immutable" -> row[r].patch # 0

\* What a removal may name of an immutable row: any generation, so its pending
\* value too.  The other rows are one object each.
Generations(r) ==
  IF Tracking # "immutable" THEN {0}
  ELSE {row[r].held} \union IF "removeEdited" \in Careless THEN {row[r].patch} \ {0} ELSE {}

\* remove: a pending patch is forgotten.  A removal that names no id, of a row
\* whose identity is not assigned yet, finds nothing in the database.
RemoveRow(r) ==
  /\ Call("remove")
  /\ wanted[r] # 0
  /\ row[r].id = 0 \/ (SQL /\ Pending(r)) => "removeUnsaved" \in Careless
  /\ SQL /\ Dirty(r) /\ Tracking # "immutable" => "removeEdited" \in Careless
  /\ \E g \in Generations(r) : removals' = removals \union {[row |-> r, as |-> g]}
  /\ row' = [row EXCEPT ![r].patch = 0, ![r].base = IF Tracking = "immutable" THEN 0 ELSE @]
  /\ wanted' = [wanted EXCEPT ![r] = 0]
  /\ UNCHANGED <<kind, stored, nextId, additions, saves, reads, counts, excused, outdated, rejected>>

-----------------------------------------------------------------------------
\* The value a row would be saved with.
Current(r) == IF row[r].patch # 0 THEN row[r].patch ELSE row[r].held

HasChanges == additions # <<>> \/ removals # {} \/ \E r \in Rows : Dirty(r)

\* (variant) the additions keep the keys they were filed under.
ReindexedNever == additions
Reindexed == [n \in DOMAIN additions |-> [additions[n] EXCEPT !.key = Key(additions[n].row)]]

\* What the collection believes is stored of an edited row: restoreOriginals,
\* the snapshot, or PendingUpdate.original.
Previous(r) == row[r].base

\* prepare: the additions, filed anew by their content of now, the updates with
\* what they replace, the removals.
Prepared ==
  LET updates == {r \in Rows : Dirty(r)}
      updated(i) == CHOOSE r \in updates : row[r].id = i
      ids == {row[r].id : r \in updates}
      removed(i) == CHOOSE m \in removals : row[m.row].id = i
  IN  [adds |-> [n \in DOMAIN additions |->
                   [key |-> Key(additions[n].row), content |-> row[additions[n].row].held]],
       updates |-> [i \in ids |-> Current(updated(i))],
       previous |-> [i \in ids |-> Previous(updated(i))],
       removes |-> [i \in {row[m.row].id : m \in removals} |->
                      IF removed(i).as # 0 THEN removed(i).as ELSE row[removed(i).row].held]]

\* The identity of the n-th addition, given the first one's.
AddId(p, n, first) == IF kind.identity THEN first + n - 1 ELSE p.adds[n].key

\* SQL inserts: a key that is there refuses the save.
Clashes(db, p) ==
  SQL /\ ~kind.identity /\ \E n \in DOMAIN p.adds : p.adds[n].key \in DOMAIN db \ DOMAIN p.removes

\* bulkPersist of the plugin.  SQL removes, updates what is there, and inserts;
\* memory adds, updates and removes, over whatever is there or not.
Persisted(db, p, first) ==
  LET added == {AddId(p, n, first) : n \in DOMAIN p.adds}
      content(i) == p.adds[CHOOSE n \in DOMAIN p.adds : AddId(p, n, first) = i].content
  IN  IF SQL
        THEN [i \in added \union (DOMAIN db \ DOMAIN p.removes) |->
                IF i \in added THEN content(i)
                ELSE IF i \in DOMAIN p.updates THEN p.updates[i] ELSE db[i]]
        ELSE [i \in (added \union DOMAIN p.updates \union DOMAIN db) \ DOMAIN p.removes |->
                IF i \in DOMAIN p.updates THEN p.updates[i]
                ELSE IF i \in added THEN content(i) ELSE db[i]]

\* saveChanges up to the plugin, in one turn.
SaveChanges ==
  /\ Call("save")
  /\ HasChanges /\ counts.saves < MaxSaves
  /\ saves' = Append(saves, [changes |-> Prepared, state |-> "sent", first |-> 0, follow |-> {}])
  /\ additions' = Reindexed
  /\ counts' = [counts EXCEPT !.saves = @ + 1]
  /\ UNCHANGED <<kind, stored, nextId, row, removals, reads, wanted, excused, outdated, rejected>>

Store(i) ==
  LET p == saves[i].changes
  IN  /\ saves[i].state = "sent" /\ ~Clashes(stored, p)
      /\ stored' = Persisted(stored, p, nextId)
      /\ nextId' = nextId + IF kind.identity THEN Len(p.adds) ELSE 0
      /\ saves' = [saves EXCEPT ![i].state = "stored", ![i].first = nextId]
      /\ UNCHANGED <<kind, row, additions, removals, reads, counts, wanted, disturbed, excused, outdated, rejected>>

\* ERROR: the changes stay where they are, for the next save.
RefuseSave(i, caused) ==
  /\ saves[i].state = "sent"
  /\ saves' = RemoveAt(saves, i)
  /\ counts' = [counts EXCEPT !.refusals = @ + IF caused THEN 0 ELSE 1]
  /\ counts'.refusals <= MaxRefusals
  /\ UNCHANGED <<kind, stored, nextId, row, additions, removals, reads, wanted, disturbed, excused, outdated, rejected>>

\* The save was stored and its index was not: an error too, and nothing is merged.
Unfinished(i) ==
  /\ saves[i].state # "sent"
  /\ saves' = RemoveAt(saves, i)
  /\ disturbed' = TRUE
  /\ UNCHANGED <<kind, stored, nextId, row, additions, removals, reads, counts, wanted, excused, outdated, rejected>>

-----------------------------------------------------------------------------
\* mergeChanges.  The n-th added row of the answer takes the first addition
\* filed under its key that an earlier one did not take.
Taken(p, n) ==
  {m \in DOMAIN additions :
     /\ additions[m].key = p.adds[n].key
     /\ Cardinality({k \in 1..m : additions[k].key = p.adds[n].key})
          = Cardinality({k \in 1..n : p.adds[k].key = p.adds[n].key})}
\* The first one that finds none throws, and ends the merge.
Lost(p) == {n \in DOMAIN p.adds : Taken(p, n) = {}}
Matched(p) == {n \in DOMAIN p.adds : \A k \in 1..n : k \notin Lost(p)}
TakenBy(p, r) == {n \in Matched(p) : \E m \in Taken(p, n) : additions[m].row = r}

\* (variant) the echo of a patched row is not adopted.
MergedUpdateNotAdopted(s, v) ==
  [s EXCEPT !.base = IF Tracking = "diff" THEN v ELSE 0]
\* The echo of an update: written into the row, or adopted in place of a
\* patched one.  What was recorded of it is forgotten.
MergedUpdate(s, v) ==
  [s EXCEPT !.held = v, !.base = IF Tracking = "diff" THEN v ELSE 0]
\* The echo of an addition: written into the row with its id, and attached;
\* the snapshot is taken now, __tracking__ is kept as it is.
MergedAdd(s, v, id) ==
  [s EXCEPT !.held = v, !.id = id, !.slot = "saved", !.attached = TRUE,
            !.base = IF Tracking = "diff" THEN v ELSE @]

Merged(p, first) ==
  [r \in Rows |->
     IF TakenBy(p, r) # {}
       THEN LET n == CHOOSE n \in TakenBy(p, r) : TRUE
            IN  MergedAdd(row[r], p.adds[n].content, AddId(p, n, first))
     ELSE IF row[r].attached /\ row[r].id \in DOMAIN p.updates
       THEN MergedUpdate(row[r], p.updates[row[r].id])
     ELSE row[r]]

\* clearChanges: whatever is pending is dropped.
Cleared(rows) ==
  [r \in Rows |-> [rows[r] EXCEPT !.patch = 0, !.base = IF Tracking = "immutable" THEN 0 ELSE @,
                                  !.slot = IF @ = "pending" THEN "discarded" ELSE @]]

\* afterPersist.  When the merge throws, what it did so far stays.
Answer(i) ==
  LET p == saves[i].changes
      rows == Merged(p, saves[i].first)
  IN  /\ saves[i].state # "sent"
      /\ saves' = RemoveAt(saves, i)
      /\ IF Lost(p) = {}
           THEN /\ row' = Cleared(rows)
                /\ additions' = <<>> /\ removals' = {}
                /\ UNCHANGED rejected
           ELSE /\ row' = rows
                /\ additions' = SelectSeq(additions, LAMBDA a : TakenBy(p, a.row) = {})
                /\ rejected' = TRUE
                /\ UNCHANGED removals
      /\ excused' = excused \union {r \in Rows : Tracking = "proxy" /\ TakenBy(p, r) # {} /\ row[r].base # 0}
      /\ UNCHANGED <<kind, stored, nextId, reads, counts, wanted, disturbed, outdated>>

-----------------------------------------------------------------------------
\* A query: the plugin reads, and the answer is delivered later.
Read ==
  /\ reads = {} /\ counts.reads < MaxReads
  /\ Call("read")
  /\ reads' = {stored}
  /\ counts' = [counts EXCEPT !.reads = @ + 1]
  /\ UNCHANGED <<kind, stored, nextId, row, additions, removals, saves, wanted, excused, outdated, rejected>>

\* resolve: into the row attached under the id.  A patch is kept beside what
\* was read, a row whose snapshot differs is left alone, a proxied one is
\* written.  (A row with no attachment gets one of its own, which no handle of
\* the model names.)
Resolved(s, v) ==
  CASE Tracking = "diff" -> IF s.base = s.held THEN [s EXCEPT !.held = v, !.base = v] ELSE s
    [] OTHER -> [s EXCEPT !.held = v]

Deliver ==
  \E answer \in reads :
    LET known == {r \in Rows : row[r].attached /\ row[r].id \in DOMAIN answer}
    IN  /\ "reread" \in Careless \/ Tracking # "proxy" \/ \A r \in known : ~Dirty(r)
        /\ row' = [r \in Rows |-> IF r \in known THEN Resolved(row[r], answer[row[r].id]) ELSE row[r]]
        /\ excused' = excused \union {r \in known : Tracking = "proxy" /\ Dirty(r)}
        /\ outdated' = outdated \union
             {r \in known : row[r].id \in DOMAIN stored => answer[row[r].id] # stored[row[r].id]}
        /\ reads' = {}
        /\ UNCHANGED <<kind, stored, nextId, additions, removals, saves, counts, wanted, disturbed, rejected>>

-----------------------------------------------------------------------------
\* The types of the variables.
TrackerTypeOK ==
  /\ kind \in Collections
  /\ DOMAIN stored \subseteq Ids /\ \A i \in DOMAIN stored : stored[i] \in Values
  /\ nextId \in Ids
  /\ row \in [Rows -> RowState]
  /\ additions \in Seq([row : Rows, key : Ids])
  /\ removals \subseteq [row : Rows, as : ValuesOrNone]
  /\ \A i \in DOMAIN saves :
       saves[i].state \in {"sent", "stored", "indexing"} /\ saves[i].first \in Nat
  /\ wanted \in [Rows -> ValuesOrNone]
  /\ excused \union outdated \subseteq Rows /\ {disturbed, rejected} \subseteq BOOLEAN

\* What the database will hold of a row once the next save is stored.
NextStored(r) ==
  LET db == Persisted(stored, Prepared, nextId)
      ids == IF row[r].id # 0 THEN {row[r].id}
             ELSE {AddId(Prepared, n, nextId) : n \in {m \in DOMAIN additions : additions[m].row = r}}
  IN  {db[i] : i \in ids \intersect DOMAIN db}
Asked(r) == IF wanted[r] = 0 THEN {} ELSE {wanted[r]}

\* Collections track adds, updates and removals until they are saved: between
\* saves, refused ones included, the next save leaves every row as the caller
\* last gave it.
TrackedUntilSaved == saves = <<>> => \A r \in Rows : NextStored(r) = Asked(r)

\* The same where no call was made while a save was out, of the rows that no
\* query or first save of a proxied row has excused and no late answer put back;
\* and every row stored is one a handle names: none is inserted twice, also when
\* rows of equal content wait for their identities together.
TrackedBetweenSaves ==
  ~disturbed /\ saves = <<>> =>
    /\ \A r \in Rows \ (excused \union outdated) : NextStored(r) = Asked(r)
    /\ DOMAIN stored \subseteq {row[r].id : r \in Rows}

\* A row with nothing to save shows what the database holds.
CleanMeansStored ==
  ~disturbed /\ saves = <<>> =>
    \A r \in Rows \ (excused \union outdated) : row[r].attached /\ wanted[r] # 0 /\ ~Dirty(r) =>
      row[r].id \in DOMAIN stored /\ row[r].held = stored[row[r].id]

\* After a save nothing is left to save, the edits made before a first save included.
NothingSentTwice ==
  [][\A i \in DOMAIN saves : Answer(i) /\ ~disturbed => ~HasChanges']_trackerVars

\* A save the database took is never answered with an error.
NoSaveRejected == ~rejected
==============================================================================
