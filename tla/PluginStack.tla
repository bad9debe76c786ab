------------------------------ MODULE PluginStack ------------------------------
(***************************************************************************)
(* The wrapper plugins of core/src/plugins over one database that several  *)
(* stores use: CacheDbPlugin (a read-through LRU, invalidated by the saves *)
(* that pass it), ConcurrencyDbPlugin (a hidden version per row, checked   *)
(* by the database when a row is updated) and RetryDbPlugin (reads that    *)
(* fail are asked again).  Each store has its own wrappers, in either      *)
(* order; RetryDbPlugin is the innermost.  The database answers later, in  *)
(* any order, and may fail.                                                *)
(*                                                                         *)
(* One collection.  Saves that the database applies are numbered; a row is *)
(* the number of the save that wrote it (stamp), its __version (ver) and   *)
(* the number of the save that last gave it a version without looking at   *)
(* the stored one (born).  The code has ver only; stamp and born are what  *)
(* the properties compare.                                                 *)
(***************************************************************************)
EXTENDS Integers, FiniteSets, Sequences

CONSTANTS
  Stores,        \* stores over the database, each with its wrappers
  Rows,          \* primary keys
  Queries,       \* cache keys: descriptions of queries
  CacheOutside,  \* the stores whose cache wraps the concurrency plugin
  Max,           \* entries a cache keeps
  Attempts,      \* attempts of a read
  Slots,         \* reads, and saves, a store may have under way at once
  UpsertMissing, \* updating a missing row adds it (memory), or conflicts (SQL)
  Atomic,        \* a failed save has applied nothing
  MaxCalls,      \* bound on reads and saves under way at once in all stores
  MaxWrites      \* bound on saves that reach the database

ASSUME StackAssumption ==
  /\ IsFiniteSet(Stores) /\ IsFiniteSet(Slots) /\ Queries # {}
  /\ CacheOutside \subseteq Stores
  /\ Max \in Nat \ {0} /\ Attempts \in Nat \ {0}
  /\ MaxCalls \in Nat /\ MaxWrites \in Nat
  /\ {UpsertMissing, Atomic} \subseteq BOOLEAN

VARIABLES
  db,       \* [Rows -> the stored row]
  clock,    \* saves the database has applied, in whole or in part
  entries,  \* [Stores -> the cache, least recently used first]
  observed, \* [Stores -> [Rows -> the row whose version was last seen]]
  reads,    \* [Stores -> [Slots -> a query under way]]
  saves,    \* [Stores -> [Slots -> a save under way]]
  known,    \* history: [Stores -> rows read, or saved, and not in conflict since]
  ownAt     \* history: [Stores -> the last save the store has an answer to]

vars == <<db, clock, entries, observed, reads, saves, known, ownAt>>

NoRow == [ver |-> 0, stamp |-> 0, born |-> 0]
Row == [ver : Nat, stamp : Nat, born : Nat]
Table == [Rows -> Row]
NoRows == [r \in Rows |-> NoRow]
Changes == [Rows -> {"none", "add", "update", "remove"}]
NoChange == [r \in Rows |-> "none"]

\* crossed: history, a save of the store was answered since the database was asked.
NoRead == [step |-> "idle", query |-> CHOOSE q \in Queries : TRUE, attempt |-> 0,
           rows |-> NoRows, at |-> 0, crossed |-> FALSE]
NoSave == [step |-> "idle", change |-> NoChange, expected |-> NoRows, rows |-> NoRows,
           conflicts |-> {}, at |-> 0]

Init ==
  /\ db \in [Rows -> {NoRow, [ver |-> 1, stamp |-> 0, born |-> 0]}]
  /\ clock = 0
  /\ entries = [s \in Stores |-> <<>>]
  /\ observed = [s \in Stores |-> NoRows]
  /\ reads = [s \in Stores |-> [k \in Slots |-> NoRead]]
  /\ saves = [s \in Stores |-> [k \in Slots |-> NoSave]]
  /\ known = [s \in Stores |-> {}]
  /\ ownAt = [s \in Stores |-> 0]

\* The calls under way.
Calls == {c \in Stores \X Slots \X {"read", "save"} :
            IF c[3] = "read" THEN reads[c[1]][c[2]].step # "idle"
                             ELSE saves[c[1]][c[2]].step # "idle"}
Sent == {c \in Calls : c[3] = "save" /\ saves[c[1]][c[2]].step = "sent"}

Present(table) == {r \in Rows : table[r].ver # 0}

-----------------------------------------------------------------------------
(* The cache and the observed versions.                                     *)

\* rebuild: a structured clone, so that stripping its versions leaves the entry alone.
Rebuilt(entry) == entry.rows

\* CacheDbPlugin.query: the entry goes last, the most recently used.
Refreshed(cache, i) ==
  Append(SubSeq(cache, 1, i - 1) \o SubSeq(cache, i + 1, Len(cache)), cache[i])

\* CacheDbPlugin.store: an entry of the query is replaced where it is, a new one goes
\* last; the first is dropped when there are too many.
Stored(cache, entry) ==
  LET grown == Append(cache, entry)
  IN  IF \E i \in DOMAIN cache : cache[i].query = entry.query
        THEN [i \in DOMAIN cache |-> IF cache[i].query = entry.query THEN entry ELSE cache[i]]
        ELSE IF Len(grown) > Max THEN Tail(grown) ELSE grown

\* (variant) the prefix matches no key.
NotInvalidated(cache) == cache

\* invalidate: every entry of the schema goes; there is one schema, so none is left.
Invalidated(cache) == <<>>

\* captureAndStrip: the versions of the rows that carry one are recorded.
Captured(seen, rows) == [r \in Rows |-> IF rows[r].ver # 0 THEN rows[r] ELSE seen[r]]

Removed(save) == {r \in Rows : save.step = "saved" /\ save.change[r] = "remove"}

\* (variant) every failure forgets the rows of the save.
EchoedForgetting(seen, save) ==
  [r \in Rows |->
     IF r \in Removed(save) \/ (save.step \in {"refused", "failed"} /\ save.change[r] # "none")
       THEN NoRow ELSE Captured(seen, save.rows)[r]]

\* What bulkPersist's callback records: echoed rows are captured, removed ones
\* forgotten, and after a conflict those that lost the race.
Echoed(seen, save) ==
  [r \in Rows |-> IF r \in save.conflicts \cup Removed(save) THEN NoRow
                  ELSE Captured(seen, save.rows)[r]]

-----------------------------------------------------------------------------
(* Reads.                                                                   *)

\* A query whose result the cache has: the entry becomes the most recently used.
\* With the concurrency plugin outside, the copy it gets has its versions.
Hit(s, q) ==
  \E i \in DOMAIN entries[s] :
    LET hit == entries[s][i]
    IN  /\ hit.query = q
        /\ entries' = [entries EXCEPT ![s] = Refreshed(@, i)]
        /\ observed' = IF s \in CacheOutside THEN observed
                       ELSE [observed EXCEPT ![s] = Captured(@, Rebuilt(hit))]
        /\ known' = [known EXCEPT ![s] = @ \cup Present(Rebuilt(hit))]
        /\ UNCHANGED <<db, clock, reads, saves, ownAt>>

\* A query that goes to the database.
Miss(s, k, q) ==
  /\ reads[s][k].step = "idle" /\ Cardinality(Calls) < MaxCalls
  /\ \A i \in DOMAIN entries[s] : entries[s][i].query # q
  /\ reads' = [reads EXCEPT ![s][k] = [NoRead EXCEPT !.step = "asked", !.query = q, !.attempt = 1]]
  /\ UNCHANGED <<db, clock, entries, observed, saves, known, ownAt>>

\* The database runs it.
DbRead(s, k) ==
  /\ reads[s][k].step = "asked"
  /\ reads' = [reads EXCEPT ![s][k].step = "read", ![s][k].rows = db, ![s][k].at = clock]
  /\ UNCHANGED <<db, clock, entries, observed, saves, known, ownAt>>

\* It fails: after a delay the query is asked again, and the last attempt's error
\* is the answer.
DbReadFails(s, k) ==
  /\ reads[s][k].step = "asked"
  /\ reads' = [reads EXCEPT ![s][k] = IF @.attempt >= Attempts THEN NoRead
                                      ELSE [@ EXCEPT !.step = "waiting"]]
  /\ UNCHANGED <<db, clock, entries, observed, saves, known, ownAt>>

Retry(s, k) ==
  /\ reads[s][k].step = "waiting"
  /\ reads' = [reads EXCEPT ![s][k].step = "asked", ![s][k].attempt = @ + 1,
                            ![s][k].crossed = FALSE]
  /\ UNCHANGED <<db, clock, entries, observed, saves, known, ownAt>>

EntryOf(read) == [query |-> read.query, rows |-> read.rows, at |-> read.at, crossed |-> read.crossed]

\* The answer passes the wrappers, from the inside out, to the store.
ReadAnswered(s, k) ==
  LET read == reads[s][k]
  IN  /\ read.step = "read"
      /\ observed' = [observed EXCEPT ![s] = Captured(@, read.rows)]
      /\ entries' = [entries EXCEPT ![s] = Stored(@, EntryOf(read))]
      /\ known' = [known EXCEPT ![s] = @ \cup Present(read.rows)]
      /\ reads' = [reads EXCEPT ![s][k] = NoRead]
      /\ UNCHANGED <<db, clock, saves, ownAt>>

-----------------------------------------------------------------------------
(* Saves.                                                                   *)

\* The updates of rows whose version was observed are to be checked against it.
Expected(s, change) ==
  [r \in Rows |-> IF change[r] = "update" THEN observed[s][r] ELSE NoRow]

\* bulkPersist: the cache is emptied, the versions are stamped, the save is sent.
\* A row may be updated without having been read here: entities can be attached.
Save(s, k, change) ==
  /\ saves[s][k].step = "idle" /\ change # NoChange
  /\ Cardinality(Calls) < MaxCalls /\ clock + Cardinality(Sent) < MaxWrites
  /\ entries' = [entries EXCEPT ![s] = Invalidated(@)]
  /\ saves' = [saves EXCEPT ![s][k] = [NoSave EXCEPT !.step = "sent", !.change = change,
                                                     !.expected = Expected(s, change)]]
  /\ UNCHANGED <<db, clock, observed, reads, known, ownAt>>

Checked(save, r) == save.expected[r].ver # 0

\* What the database has against the save: rows whose version is not the expected.
Conflicts(save) ==
  {r \in Rows : /\ save.change[r] = "update" /\ Checked(save, r)
                /\ IF db[r] = NoRow THEN ~UpsertMissing ELSE db[r].ver # save.expected[r].ver}

\* (variant) a checked update keeps the version.
WrittenUnbumped(save, r, n) ==
  CASE save.change[r] = "none" -> db[r]
    [] save.change[r] = "remove" -> NoRow
    [] save.change[r] = "add" -> [ver |-> 1, stamp |-> n, born |-> n]
    [] save.change[r] = "update" ->
         IF Checked(save, r) /\ db[r] # NoRow THEN [db[r] EXCEPT !.stamp = n]
         ELSE [ver |-> 1, stamp |-> n, born |-> n]

\* Row r as the save leaves it, as change number n.
Written(save, r, n) ==
  CASE save.change[r] = "none" -> db[r]
    [] save.change[r] = "remove" -> NoRow
    [] save.change[r] = "add" -> [ver |-> 1, stamp |-> n, born |-> n]
    [] save.change[r] = "update" ->
         IF ~UpsertMissing /\ db[r] = NoRow THEN NoRow
         ELSE IF ~Checked(save, r) THEN [ver |-> 1, stamp |-> n, born |-> n]
         ELSE [ver |-> save.expected[r].ver + 1, stamp |-> n,
               born |-> IF db[r] = NoRow THEN n ELSE db[r].born]

\* The database applies the whole save.  Added and updated rows are echoed.
DbSave(s, k) ==
  LET save == saves[s][k]
  IN  /\ save.step = "sent" /\ Conflicts(save) = {}
      /\ clock' = clock + 1
      /\ db' = [r \in Rows |-> Written(save, r, clock + 1)]
      /\ saves' = [saves EXCEPT ![s][k].step = "saved", ![s][k].at = clock + 1,
                     ![s][k].rows = [r \in Rows |-> IF save.change[r] \in {"add", "update"}
                                                      THEN db'[r] ELSE NoRow]]
      /\ UNCHANGED <<entries, observed, reads, known, ownAt>>

\* It refuses the save, and names the rows in conflict.
DbConflict(s, k) ==
  LET save == saves[s][k]
  IN  /\ save.step = "sent" /\ Conflicts(save) # {}
      /\ saves' = [saves EXCEPT ![s][k].step = "refused", ![s][k].at = clock,
                                ![s][k].conflicts = Conflicts(save)]
      /\ UNCHANGED <<db, clock, entries, observed, reads, known, ownAt>>

\* It fails; a backend without atomic batches may have applied some rows.
DbSaveFails(s, k) ==
  LET save == saves[s][k]
  IN  \E part \in IF Atomic THEN {{}} ELSE SUBSET (Rows \ Conflicts(save)) :
        /\ save.step = "sent"
        /\ clock' = IF part = {} THEN clock ELSE clock + 1
        /\ db' = [r \in Rows |-> IF r \in part THEN Written(save, r, clock + 1) ELSE db[r]]
        /\ saves' = [saves EXCEPT ![s][k].step = "failed", ![s][k].at = clock']
        /\ UNCHANGED <<entries, observed, reads, known, ownAt>>

\* Any answer empties the cache again; it passes the wrappers to the store.
SaveAnswered(s, k) ==
  LET save == saves[s][k]
  IN  /\ save.step \in {"saved", "refused", "failed"}
      /\ observed' = [observed EXCEPT ![s] = Echoed(@, save)]
      /\ entries' = [entries EXCEPT ![s] = Invalidated(@)]
      /\ known' = [known EXCEPT ![s] =
                     (@ \ (save.conflicts \cup Removed(save))) \cup Present(save.rows)]
      /\ ownAt' = [ownAt EXCEPT ![s] = IF save.at > @ THEN save.at ELSE @]
      /\ reads' = [reads EXCEPT ![s] =
                     [j \in Slots |-> [reads[s][j] EXCEPT !.crossed = @ \/ reads[s][j].step # "idle"]]]
      /\ saves' = [saves EXCEPT ![s][k] = NoSave]
      /\ UNCHANGED <<db, clock>>

\* destroy: what the wrappers know is dropped, and the memory plugin's rows are.
Destroy(s) ==
  /\ clock + Cardinality(Sent) < MaxWrites
  /\ clock' = clock + 1
  /\ db' = NoRows
  /\ entries' = [entries EXCEPT ![s] = <<>>]
  /\ observed' = [observed EXCEPT ![s] = NoRows]
  /\ known' = [known EXCEPT ![s] = {}]
  /\ UNCHANGED <<reads, saves, ownAt>>

-----------------------------------------------------------------------------
Next ==
  \E s \in Stores :
    \/ Destroy(s)
    \/ \E q \in Queries : Hit(s, q)
    \/ \E k \in Slots :
         \/ \E q \in Queries : Miss(s, k, q)
         \/ DbRead(s, k) \/ DbReadFails(s, k) \/ Retry(s, k) \/ ReadAnswered(s, k)
         \/ \E change \in Changes : Save(s, k, change)
         \/ DbSave(s, k) \/ DbConflict(s, k) \/ DbSaveFails(s, k) \/ SaveAnswered(s, k)

Spec == Init /\ [][Next]_vars
-----------------------------------------------------------------------------
Reads == [step : {"idle", "asked", "read", "waiting"}, query : Queries, attempt : Nat,
          rows : Table, at : Nat, crossed : BOOLEAN]
Saves == [step : {"idle", "sent", "saved", "refused", "failed"}, change : Changes,
          expected : Table, rows : Table, conflicts : SUBSET Rows, at : Nat]
Entries == [query : Queries, rows : Table, at : Nat, crossed : BOOLEAN]

\* Every variable holds what its comment says, a cache has at most Max entries and
\* none for the same query twice (CacheDbPlugin.store).
TypeOK ==
  /\ db \in Table /\ clock \in 0..MaxWrites
  /\ entries \in [Stores -> Seq(Entries)]
  /\ \A s \in Stores :
       /\ Len(entries[s]) <= Max
       /\ \A i, j \in DOMAIN entries[s] : entries[s][i].query = entries[s][j].query => i = j
  /\ observed \in [Stores -> Table]
  /\ reads \in [Stores -> [Slots -> Reads]]
  /\ saves \in [Stores -> [Slots -> Saves]]
  /\ known \in [Stores -> SUBSET Rows]
  /\ ownAt \in [Stores -> 0..MaxWrites]

\* CacheDbPlugin.bulkPersist: an entry that is older than a save its own store has
\* the answer to was brought by a miss that was under way when that answer came.
StaleOnlyByLateAnswer ==
  \A s \in Stores : \A i \in DOMAIN entries[s] :
    entries[s][i].at < ownAt[s] => entries[s][i].crossed

\* The promise of CacheDbPlugin.ts:16 as it is worded: a store that reads and writes
\* through the same instance never sees its own stale data.
OwnSavesSeen ==
  \A s \in Stores : \A i \in DOMAIN entries[s] : entries[s][i].at >= ownAt[s]

\* ConcurrencyDbPlugin over or under a cache: a row the store read, from the
\* database or the cache, is updated with a check, until an update of it conflicts.
ReadRowsAreChecked ==
  \A s \in Stores : \A r \in known[s] : observed[s][r].ver # 0

\* ConcurrencyDbPlugin.bulkPersist: what a checked update replaces is the row its
\* store had observed, not a later one, unless the row's versions were restarted.
CheckedReplacesObserved ==
  [][\A s \in Stores, k \in Slots, r \in Rows :
       LET save == saves[s][k]
       IN  (save.step = "sent" /\ Checked(save, r) /\ db[r] # NoRow
              /\ r \notin Conflicts(save) /\ saves'[s][k].step = "saved")
           => db[r] = save.expected[r] \/ db[r].born # save.expected[r].born]_vars
=============================================================================
