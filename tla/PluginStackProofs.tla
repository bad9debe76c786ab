--------------------------- MODULE PluginStackProofs ---------------------------
(***************************************************************************)
(* Proofs about PluginStack, for any stores, rows, queries, cache size and *)
(* number of attempts, in either order of the wrappers: a row that was     *)
(* read is updated with a check, a checked update replaces what its store  *)
(* had observed, and a cache is stale only by an answer that came late.    *)
(*                                                                         *)
(* The second rests on what a row's version says (Dated).  Every copy of a *)
(* row, observed, cached, read or expected, was the stored row once.  A    *)
(* stored row gets a higher version or a new birth, so a copy with its     *)
(* birth has no higher version and, with the same version, is the row.     *)
(* The others hold because a cached row was observed when it was cached    *)
(* (EntryOK), what forgets an observation empties the cache, and the       *)
(* answer to a save marks every read that is under way.                    *)
(***************************************************************************)
EXTENDS PluginStack, FiniteSetTheorems, SequenceTheorems, TLAPS

-----------------------------------------------------------------------------
(* Copies of rows, with the stored rows and the database's clock.           *)

\* The copy w is no newer than the stored row, or of another birth.
Old(w, row, now) ==
  w.ver # 0 =>
    /\ w.born <= now
    /\ row # NoRow /\ row.born = w.born => w.ver <= row.ver /\ (w.ver = row.ver => w = row)

Dated(copies, table, now) == \A r \in Rows : Old(copies[r], table[r], now)

\* A row without a version is no row.
Proper(table) == \A r \in Rows : table[r].ver = 0 => table[r] = NoRow

\* What a save may make of a row: a higher version, a new birth, or nothing.
RowEvolves(row, now, next, later) ==
  \/ next = row
  \/ next = NoRow
  \/ later = now + 1 /\ next.ver # 0 /\ next.born = later
  \/ row # NoRow /\ next.ver = row.ver + 1 /\ next.born = row.born

Evolves(table, now, next, later) ==
  /\ next \in Table /\ later \in Nat /\ now <= later
  /\ \A r \in Rows : RowEvolves(table[r], now, next[r], later)

LEMMA NoRowsType ==
  /\ NoRow \in Row /\ NoRow.ver = 0
  /\ NoRows \in Table /\ Present(NoRows) = {}
  /\ \A table, now : Dated(NoRows, table, now)
<1>1. NoRow \in Row /\ NoRow.ver = 0
  BY DEF NoRow, Row
<1> QED
  BY <1>1 DEF NoRows, Table, Dated, Old, Present

LEMMA OldEvolves ==
  ASSUME NEW w \in Row, NEW row \in Row, NEW next \in Row, NEW now \in Nat, NEW later \in Nat,
         now <= later, row.ver = 0 => row = NoRow,
         Old(w, row, now), Old(row, row, now), RowEvolves(row, now, next, later)
  PROVE  Old(w, next, later)
<1> SUFFICES ASSUME w.ver # 0 PROVE Old(w, next, later)
  BY DEF Old
<1>1. w.born \in Nat /\ w.ver \in Nat /\ row.ver \in Nat /\ row.born \in Nat
  BY DEF Row
<1>2. w.born <= now
  BY DEF Old
<1>3. CASE next = row
  BY <1>1, <1>2, <1>3 DEF Old
<1>4. CASE next = NoRow
  BY <1>1, <1>2, <1>4 DEF Old
<1>5. CASE later = now + 1 /\ next.ver # 0 /\ next.born = later
  BY <1>1, <1>2, <1>5 DEF Old
<1>6. CASE row # NoRow /\ next.ver = row.ver + 1 /\ next.born = row.born
  BY <1>1, <1>2, <1>6 DEF Old
<1> QED
  BY <1>3, <1>4, <1>5, <1>6 DEF RowEvolves

LEMMA DatedEvolves ==
  ASSUME NEW table \in Table, NEW now \in Nat, Proper(table), Dated(table, table, now),
         NEW next, NEW later, Evolves(table, now, next, later)
  PROVE  /\ \A copies \in Table : Dated(copies, table, now) => Dated(copies, next, later)
         /\ Proper(next) /\ Dated(next, next, later)
<1>1. /\ next \in Table /\ later \in Nat /\ now <= later
      /\ \A r \in Rows : RowEvolves(table[r], now, next[r], later)
      /\ \A r \in Rows : table[r] \in Row /\ next[r] \in Row
  BY DEF Evolves, Table
<1>2. ASSUME NEW copies \in Table, Dated(copies, table, now), NEW r \in Rows
      PROVE  Old(copies[r], next[r], later)
  <2>1. copies[r] \in Row
    BY DEF Table
  <2> QED
    BY <1>1, <1>2, <2>1, OldEvolves DEF Proper, Dated
<1>3. ASSUME NEW r \in Rows
      PROVE  /\ next[r].ver = 0 => next[r] = NoRow
             /\ Old(next[r], next[r], later)
  <2>1. /\ table[r].ver \in Nat /\ next[r].ver \in Nat /\ next[r].born \in Nat
        /\ table[r].born \in Nat /\ table[r].ver # 0 => table[r].born <= now
        /\ table[r].ver = 0 => table[r] = NoRow
    BY <1>1 DEF Row, Proper, Dated, Old
  <2>2. RowEvolves(table[r], now, next[r], later)
    BY <1>1
  <2>3. NoRow.ver = 0
    BY DEF NoRow
  <2>4. next[r].ver = 0 => next[r] = NoRow
    BY <2>1, <2>2 DEF RowEvolves
  <2>5. next[r].ver # 0 => next[r].born <= later
    <3>1. CASE next[r] = table[r]
      BY <1>1, <2>1, <3>1
    <3>2. CASE next[r] = NoRow
      BY <2>3, <3>2
    <3>3. CASE later = now + 1 /\ next[r].ver # 0 /\ next[r].born = later
      BY <1>1, <3>3
    <3>4. CASE table[r] # NoRow /\ next[r].ver = table[r].ver + 1 /\ next[r].born = table[r].born
      BY <1>1, <2>1, <3>4
    <3> QED
      BY <2>2, <3>1, <3>2, <3>3, <3>4 DEF RowEvolves
  <2> QED
    BY <2>1, <2>4, <2>5 DEF Old
<1> QED
  BY <1>2, <1>3 DEF Dated, Proper

LEMMA CapturedDated ==
  ASSUME NEW seen \in Table, NEW rows \in Table
  PROVE  LET captured == Captured(seen, rows)
         IN  /\ captured \in Table
             /\ \A table, now : Dated(seen, table, now) /\ Dated(rows, table, now)
                                  => Dated(captured, table, now)
             /\ \A r \in Rows : seen[r].ver # 0 \/ rows[r].ver # 0 => captured[r].ver # 0
BY DEF Captured, Table, Dated

-----------------------------------------------------------------------------
(* The inductive invariant.                                                 *)

\* A cached row carries a version only if it is observed; an entry that is older than
\* its store's last save came late.
EntryOK(entry, table, now, seen, own) ==
  /\ entry \in Entries
  /\ Dated(entry.rows, table, now) /\ entry.at <= now
  /\ \A r \in Present(entry.rows) : seen[r].ver # 0
  /\ entry.at < own => entry.crossed

CacheOK(cache, table, now, seen, own) ==
  /\ cache \in Seq(Entries) /\ Len(cache) <= Max
  /\ \A i, j \in DOMAIN cache : cache[i].query = cache[j].query => i = j
  /\ \A i \in DOMAIN cache : EntryOK(cache[i], table, now, seen, own)

ReadOK(read, table, now, own) ==
  /\ read \in Reads
  /\ Dated(read.rows, table, now) /\ read.at <= now
  /\ read.step = "read" /\ read.at < own => read.crossed

SaveOK(save, table, now) ==
  /\ save \in Saves
  /\ Dated(save.rows, table, now) /\ Dated(save.expected, table, now) /\ save.at <= now
  /\ save.conflicts # {} => save.step = "refused"
  /\ \A r \in Rows :
       /\ save.rows[r].ver # 0 => save.step = "saved" /\ save.change[r] \in {"add", "update"}
       /\ save.expected[r].ver # 0 => save.change[r] = "update"

\* What a store keeps, and how much of it the store was told.
StoreOK(table, now, cache, seen, rs, ss, rowsKnown, own) ==
  /\ CacheOK(cache, table, now, seen, own)
  /\ seen \in Table /\ Dated(seen, table, now)
  /\ \A k \in Slots : ReadOK(rs[k], table, now, own) /\ SaveOK(ss[k], table, now)
  /\ rowsKnown \subseteq Rows /\ \A r \in rowsKnown : seen[r].ver # 0
  /\ own \in Nat /\ own <= now

Shapes ==
  /\ entries \in [Stores -> Seq(Entries)] /\ observed \in [Stores -> Table]
  /\ reads \in [Stores -> [Slots -> Reads]] /\ saves \in [Stores -> [Slots -> Saves]]
  /\ known \in [Stores -> SUBSET Rows] /\ ownAt \in [Stores -> Nat]

\* Saves that were sent have a number to be applied with.
Numbered == clock + Cardinality(Sent) <= MaxWrites

IInv ==
  /\ db \in Table /\ Proper(db) /\ Dated(db, db, clock)
  /\ clock \in Nat /\ Numbered
  /\ Shapes
  /\ \A s \in Stores :
       StoreOK(db, clock, entries[s], observed[s], reads[s], saves[s], known[s], ownAt[s])

-----------------------------------------------------------------------------
(* A step changes the database and one store.                               *)

LEMMA StoreEvolves ==
  ASSUME db \in Table, clock \in Nat, Proper(db), Dated(db, db, clock),
         NEW next, NEW later, Evolves(db, clock, next, later),
         NEW cache, NEW seen, NEW rs, NEW ss, NEW rowsKnown, NEW own,
         StoreOK(db, clock, cache, seen, rs, ss, rowsKnown, own)
  PROVE  StoreOK(next, later, cache, seen, rs, ss, rowsKnown, own)
<1>1. /\ \A copies \in Table : Dated(copies, db, clock) => Dated(copies, next, later)
      /\ later \in Nat /\ clock <= later
  BY DatedEvolves DEF Evolves
<1>2. ASSUME NEW entry, EntryOK(entry, db, clock, seen, own)
      PROVE  EntryOK(entry, next, later, seen, own)
  <2>1. entry.rows \in Table /\ entry.at \in Nat
    BY <1>2 DEF EntryOK, Entries
  <2> QED
    BY <1>1, <1>2, <2>1 DEF EntryOK
<1>3. ASSUME NEW read, ReadOK(read, db, clock, own)
      PROVE  ReadOK(read, next, later, own)
  <2>1. read.rows \in Table /\ read.at \in Nat
    BY <1>3 DEF ReadOK, Reads
  <2> QED
    BY <1>1, <1>3, <2>1 DEF ReadOK
<1>4. ASSUME NEW save, SaveOK(save, db, clock)
      PROVE  SaveOK(save, next, later)
  <2>1. save.rows \in Table /\ save.expected \in Table /\ save.at \in Nat
    BY <1>4 DEF SaveOK, Saves
  <2> QED
    BY <1>1, <1>4, <2>1 DEF SaveOK
<1>5. CacheOK(cache, next, later, seen, own)
  BY <1>2 DEF StoreOK, CacheOK
<1> QED
  BY <1>1, <1>3, <1>4, <1>5 DEF StoreOK

\* The new state of store s.
Becomes(s, cache, seen, rs, ss, rowsKnown, own) ==
  /\ entries' = [entries EXCEPT ![s] = cache] /\ observed' = [observed EXCEPT ![s] = seen]
  /\ reads' = [reads EXCEPT ![s] = rs] /\ saves' = [saves EXCEPT ![s] = ss]
  /\ known' = [known EXCEPT ![s] = rowsKnown] /\ ownAt' = [ownAt EXCEPT ![s] = own]

LEMMA StoreStep ==
  ASSUME IInv, NEW s \in Stores, NEW cache, NEW seen, NEW rs, NEW ss, NEW rowsKnown, NEW own,
         Becomes(s, cache, seen, rs, ss, rowsKnown, own),
         Evolves(db, clock, db', clock'), Numbered',
         rs \in [Slots -> Reads], ss \in [Slots -> Saves],
         StoreOK(db', clock', cache, seen, rs, ss, rowsKnown, own)
  PROVE  IInv'
<1>1. /\ db' \in Table /\ clock' \in Nat
      /\ Proper(db') /\ Dated(db', db', clock')
  BY DatedEvolves DEF IInv, Evolves
<1>2. Shapes'
  BY DEF IInv, Shapes, Becomes, StoreOK, CacheOK
<1>3. ASSUME NEW t \in Stores
      PROVE  StoreOK(db', clock', entries'[t], observed'[t], reads'[t], saves'[t], known'[t],
                     ownAt'[t])
  <2>1. CASE t = s
    BY <2>1 DEF IInv, Shapes, Becomes
  <2>2. CASE t # s
    <3>1. /\ entries'[t] = entries[t] /\ observed'[t] = observed[t] /\ reads'[t] = reads[t]
          /\ saves'[t] = saves[t] /\ known'[t] = known[t] /\ ownAt'[t] = ownAt[t]
      BY <2>2 DEF IInv, Shapes, Becomes
    <3>2. StoreOK(db, clock, entries[t], observed[t], reads[t], saves[t], known[t], ownAt[t])
      BY DEF IInv
    <3>3. StoreOK(db', clock', entries[t], observed[t], reads[t], saves[t], known[t], ownAt[t])
      BY <3>2, StoreEvolves DEF IInv
    <3> QED
      BY <3>1, <3>3
  <2> QED
    BY <2>1, <2>2
<1> QED
  BY <1>1, <1>2, <1>3 DEF IInv, Proper

LEMMA Standstill ==
  ASSUME IInv, NEW s \in Stores
  PROVE  /\ StoreOK(db, clock, entries[s], observed[s], reads[s], saves[s], known[s], ownAt[s])
         /\ reads[s] \in [Slots -> Reads] /\ saves[s] \in [Slots -> Saves]
         /\ Evolves(db, clock, db, clock)
         /\ entries = [entries EXCEPT ![s] = entries[s]]
         /\ observed = [observed EXCEPT ![s] = observed[s]]
         /\ reads = [reads EXCEPT ![s] = reads[s]] /\ saves = [saves EXCEPT ![s] = saves[s]]
         /\ known = [known EXCEPT ![s] = known[s]] /\ ownAt = [ownAt EXCEPT ![s] = ownAt[s]]
BY DEF IInv, Shapes, Evolves, RowEvolves

-----------------------------------------------------------------------------
(* The saves that are sent.                                                 *)

LEMMA SentFinite == IsFiniteSet(Sent) /\ Cardinality(Sent) \in Nat
<1> DEFINE f == [c \in Sent |-> <<c[1], c[2]>>]
<1>1. \A c \in Sent : /\ c \in Stores \X Slots \X {"read", "save"} /\ c[3] = "save"
                      /\ c[1] \in Stores /\ c[2] \in Slots /\ c = <<c[1], c[2], c[3]>>
  BY DEF Sent, Calls
<1>2. f \in [Sent -> Stores \X Slots]
  BY <1>1
<1>3. \A c, d \in Sent : f[c] = f[d] => c = d
  <2> SUFFICES ASSUME NEW c \in Sent, NEW d \in Sent, <<c[1], c[2]>> = <<d[1], d[2]>>
               PROVE  c = d
    OBVIOUS
  <2>1. c[1] = d[1] /\ c[2] = d[2] /\ c[3] = d[3]
    BY <1>1
  <2> QED
    BY <1>1, <2>1
<1>4. f \in Injection(Sent, Stores \X Slots)
  BY <1>2, <1>3 DEF Injection, IsInjective
<1>5. IsFiniteSet(Stores \X Slots)
  BY StackAssumption, FS_Product
<1>6. IsFiniteSet(Sent)
  BY <1>4, <1>5, FS_Injection
<1> QED
  BY <1>6, FS_CardinalityType

\* One save changes: it is sent, or it no longer is.
LEMMA SentChanges ==
  ASSUME saves \in [Stores -> [Slots -> Saves]], NEW s \in Stores, NEW k \in Slots,
         NEW save \in Saves, saves' = [saves EXCEPT ![s] = [saves[s] EXCEPT ![k] = save]]
  PROVE  /\ Cardinality(Sent') <= Cardinality(Sent) + 1
         /\ save.step # "sent" => Cardinality(Sent') <= Cardinality(Sent)
         /\ save.step # "sent" /\ saves[s][k].step = "sent"
              => Cardinality(Sent') = Cardinality(Sent) - 1
         /\ Cardinality(Sent') \in Nat
<1> DEFINE c == <<s, k, "save">>
<1>1. \A t \in Stores, j \in Slots : saves'[t][j] = IF t = s /\ j = k THEN save ELSE saves[t][j]
  OBVIOUS
<1>2. \A d \in Stores \X Slots \X {"read", "save"} :
        d \in Sent <=> d[3] = "save" /\ saves[d[1]][d[2]].step = "sent"
  BY DEF Sent, Calls
<1>3. \A d \in Stores \X Slots \X {"read", "save"} :
        d \in Sent' <=> d[3] = "save" /\ saves'[d[1]][d[2]].step = "sent"
  BY DEF Sent, Calls
<1>4. /\ Sent \subseteq Stores \X Slots \X {"read", "save"}
      /\ Sent' \subseteq Stores \X Slots \X {"read", "save"}
  BY DEF Sent, Calls
<1>5. \A d \in Stores \X Slots \X {"read", "save"} :
        d # c /\ d[3] = "save" => ~(d[1] = s /\ d[2] = k)
  OBVIOUS
<1>6. \A d \in Stores \X Slots \X {"read", "save"} : d # c => (d \in Sent' <=> d \in Sent)
  <2> SUFFICES ASSUME NEW d \in Stores \X Slots \X {"read", "save"}, d # c, d[3] = "save"
               PROVE  saves'[d[1]][d[2]] = saves[d[1]][d[2]]
    BY <1>2, <1>3
  <2> QED
    BY <1>1, <1>5
<1>7. /\ c \in Stores \X Slots \X {"read", "save"}
      /\ c \in Sent <=> saves[s][k].step = "sent"
      /\ c \in Sent' <=> save.step = "sent"
  BY <1>1, <1>2, <1>3
<1> HIDE DEF c
<1>8. Sent' = IF save.step = "sent" THEN Sent \cup {c} ELSE Sent \ {c}
  BY <1>4, <1>6, <1>7
<1>9. IsFiniteSet(Sent) /\ Cardinality(Sent) \in Nat
  BY SentFinite
<1>10. CASE save.step = "sent"
  <2>1. Cardinality(Sent') = IF c \in Sent THEN Cardinality(Sent) ELSE Cardinality(Sent) + 1
    BY <1>8, <1>9, <1>10, FS_AddElement
  <2> QED
    BY <1>9, <1>10, <2>1
<1>11. CASE save.step # "sent"
  <2>1. Cardinality(Sent') = IF c \in Sent THEN Cardinality(Sent) - 1 ELSE Cardinality(Sent)
    BY <1>8, <1>9, <1>11, FS_RemoveElement
  <2>2. IsFiniteSet(Sent')
    BY <1>8, <1>9, <1>11, FS_RemoveElement
  <2>3. Cardinality(Sent') \in Nat
    BY <2>2, FS_CardinalityType
  <2> QED
    BY <1>7, <1>9, <1>11, <2>1, <2>3
<1> QED
  BY <1>10, <1>11

LEMMA SentStands ==
  ASSUME IInv, clock' = clock, saves' = saves
  PROVE  Numbered'
<1>1. Sent' = Sent
  BY DEF Sent, Calls
<1> QED
  BY <1>1 DEF IInv, Numbered

-----------------------------------------------------------------------------
(* Reads.                                                                   *)

LEMMA NoReadOK ==
  ASSUME NEW table, NEW now \in Nat, NEW own
  PROVE  ReadOK(NoRead, table, now, own) /\ NoRead \in Reads
<1>1. NoRead.query \in Queries
  BY StackAssumption DEF NoRead
<1>2. NoRead \in Reads
  BY <1>1, NoRowsType DEF NoRead, Reads
<1> QED
  BY <1>2, NoRowsType DEF NoRead, ReadOK

\* Only one read of one store changes.
LEMMA ReadStep ==
  ASSUME IInv, NEW s \in Stores, NEW k \in Slots, NEW read,
         ReadOK(read, db, clock, ownAt[s]),
         reads' = [reads EXCEPT ![s][k] = read],
         UNCHANGED <<db, clock, entries, observed, saves, known, ownAt>>
  PROVE  IInv'
<1> DEFINE rs == [reads[s] EXCEPT ![k] = read]
<1>1. read \in Reads
  BY DEF ReadOK
<1>2. rs \in [Slots -> Reads] /\ reads' = [reads EXCEPT ![s] = rs]
  BY <1>1, Standstill
<1>3. \A j \in Slots : ReadOK(rs[j], db, clock, ownAt[s])
  BY <1>1, Standstill DEF StoreOK
<1> HIDE DEF rs
<1>4. StoreOK(db, clock, entries[s], observed[s], rs, saves[s], known[s], ownAt[s])
  BY <1>3, Standstill DEF StoreOK
<1>5. Becomes(s, entries[s], observed[s], rs, saves[s], known[s], ownAt[s])
  BY <1>2, Standstill DEF Becomes
<1>6. Numbered'
  BY SentStands
<1> QED
  BY <1>2, <1>4, <1>5, <1>6, StoreStep, Standstill

LEMMA MissKeeps ==
  ASSUME IInv, NEW s \in Stores, NEW k \in Slots, NEW q \in Queries, Miss(s, k, q)
  PROVE  IInv'
<1> DEFINE read == [NoRead EXCEPT !.step = "asked", !.query = q, !.attempt = 1]
<1>1. clock \in Nat
  BY DEF IInv
<1>2. /\ read \in Reads /\ read.rows = NoRows /\ read.at = 0 /\ read.step = "asked"
  BY <1>1, NoReadOK DEF Reads, NoRead
<1> HIDE DEF read
<1>3. ReadOK(read, db, clock, ownAt[s])
  BY <1>1, <1>2, NoRowsType DEF ReadOK
<1> QED
  BY <1>3, ReadStep DEF Miss, read

LEMMA DbReadKeeps ==
  ASSUME IInv, NEW s \in Stores, NEW k \in Slots, DbRead(s, k)
  PROVE  IInv'
<1> DEFINE read == [reads[s][k] EXCEPT !.step = "read", !.rows = db, !.at = clock]
<1>1. reads \in [Stores -> [Slots -> Reads]] /\ reads[s][k] \in Reads
  BY DEF IInv, Shapes
<1>2. reads' = [reads EXCEPT ![s][k] = read]
  BY <1>1 DEF DbRead, Reads
<1>3. /\ clock \in Nat /\ db \in Table /\ Dated(db, db, clock)
      /\ ownAt[s] \in Nat /\ ownAt[s] <= clock
  BY Standstill DEF IInv, StoreOK
<1>4. read \in Reads /\ read.rows = db /\ read.at = clock
  BY <1>1, <1>3 DEF Reads
<1> HIDE DEF read
<1>5. ReadOK(read, db, clock, ownAt[s])
  BY <1>3, <1>4 DEF ReadOK
<1> QED
  BY <1>2, <1>5, ReadStep DEF DbRead

\* A read that is not answered keeps what it has until it is asked again.
LEMMA UnreadOK ==
  ASSUME NEW read, NEW table, NEW now \in Nat, NEW own, ReadOK(read, table, now, own)
  PROVE  /\ ReadOK([read EXCEPT !.step = "waiting"], table, now, own)
         /\ \A crossed \in BOOLEAN, attempt \in Nat :
              ReadOK([read EXCEPT !.step = "asked", !.attempt = attempt, !.crossed = crossed],
                     table, now, own)
BY DEF ReadOK, Reads

LEMMA DbReadFailsKeeps ==
  ASSUME IInv, NEW s \in Stores, NEW k \in Slots, DbReadFails(s, k)
  PROVE  IInv'
<1>1. clock \in Nat /\ ReadOK(reads[s][k], db, clock, ownAt[s])
  BY Standstill DEF IInv, StoreOK
<1>2. CASE reads[s][k].attempt >= Attempts
  <2>1. reads' = [reads EXCEPT ![s][k] = NoRead]
    BY <1>2 DEF DbReadFails
  <2> QED
    BY <1>1, <2>1, NoReadOK, ReadStep DEF DbReadFails
<1>3. CASE ~(reads[s][k].attempt >= Attempts)
  <2>1. reads' = [reads EXCEPT ![s][k] = [reads[s][k] EXCEPT !.step = "waiting"]]
    BY <1>3 DEF DbReadFails
  <2> QED
    BY <1>1, <2>1, UnreadOK, ReadStep DEF DbReadFails
<1> QED
  BY <1>2, <1>3

LEMMA RetryKeeps ==
  ASSUME IInv, NEW s \in Stores, NEW k \in Slots, Retry(s, k)
  PROVE  IInv'
<1> DEFINE read == [reads[s][k] EXCEPT !.step = "asked", !.attempt = reads[s][k].attempt + 1,
                                       !.crossed = FALSE]
<1>1. reads \in [Stores -> [Slots -> Reads]] /\ reads[s][k] \in Reads
  BY DEF IInv, Shapes
<1>2. reads' = [reads EXCEPT ![s][k] = read]
  BY <1>1 DEF Retry, Reads
<1>3. clock \in Nat /\ ReadOK(reads[s][k], db, clock, ownAt[s])
  BY Standstill DEF IInv, StoreOK
<1>4. reads[s][k].attempt + 1 \in Nat
  BY <1>1 DEF Reads
<1>5. ReadOK(read, db, clock, ownAt[s])
  BY <1>3, <1>4, UnreadOK
<1> QED
  BY <1>2, <1>5, ReadStep DEF Retry

-----------------------------------------------------------------------------
(* The cache: an LRU keeps its bound and has no query twice.                *)

\* A sequence without its element i.
LEMMA RemovedAt ==
  ASSUME NEW S, NEW s \in Seq(S), NEW i \in 1..Len(s)
  PROVE  LET t == SubSeq(s, 1, i - 1) \o SubSeq(s, i + 1, Len(s))
         IN  /\ t \in Seq(S) /\ Len(t) = Len(s) - 1
             /\ \A j \in 1..(Len(s) - 1) : t[j] = s[IF j < i THEN j ELSE j + 1]
<1> DEFINE a == SubSeq(s, 1, i - 1)
           b == SubSeq(s, i + 1, Len(s))
<1>1. Len(s) \in Nat /\ \A j \in 1..Len(s) : s[j] \in S
  OBVIOUS
<1>2. /\ a \in Seq(S) /\ Len(a) = i - 1
      /\ \A j \in 1..(i - 1) : a[j] = s[j]
  BY <1>1, SubSeqProperties
<1>3. /\ b \in Seq(S) /\ Len(b) = Len(s) - i
      /\ \A j \in 1..(Len(s) - i) : b[j] = s[i + j]
  BY <1>1, SubSeqProperties
<1> HIDE DEF a, b
<1>4. a \o b \in Seq(S)
  BY <1>2, <1>3, ConcatProperties
<1>5. Len(a \o b) = Len(s) - 1
  <2>1. Len(a \o b) = Len(a) + Len(b)
    BY <1>2, <1>3, ConcatProperties
  <2> QED
    BY <1>1, <1>2, <1>3, <2>1
<1>6. ASSUME NEW j \in 1..(Len(s) - 1)
      PROVE  (a \o b)[j] = s[IF j < i THEN j ELSE j + 1]
  <2>1. CASE j < i
    BY <1>1, <1>2, <1>3, <2>1, ConcatProperties
  <2>2. CASE ~(j < i)
    <3>1. (a \o b)[j] = b[j - (i - 1)]
      BY <1>1, <1>2, <1>3, <2>2, ConcatProperties
    <3>2. j - (i - 1) \in 1..(Len(s) - i) /\ i + (j - (i - 1)) = j + 1
      BY <1>1, <2>2
    <3> QED
      BY <1>3, <2>2, <3>1, <3>2
  <2> QED
    BY <2>1, <2>2
<1> QED
  BY <1>4, <1>5, <1>6 DEF a, b

\* A hit moves its entry to the end.
LEMMA RefreshedOK ==
  ASSUME NEW cache, NEW table, NEW now, NEW seen, NEW own, CacheOK(cache, table, now, seen, own),
         NEW i \in DOMAIN cache
  PROVE  CacheOK(Refreshed(cache, i), table, now, seen, own)
<1> DEFINE L == Len(cache)
           rest == SubSeq(cache, 1, i - 1) \o SubSeq(cache, i + 1, Len(cache))
           moved == Append(rest, cache[i])
<1>1. /\ cache \in Seq(Entries) /\ i \in 1..Len(cache) /\ DOMAIN cache = 1..L
      /\ cache[i] \in Entries
  BY DEF CacheOK
<1>2. L \in Nat /\ i \in 1..L
  BY <1>1
<1>3. /\ rest \in Seq(Entries) /\ Len(rest) = L - 1
      /\ \A j \in 1..(L - 1) : rest[j] = cache[IF j < i THEN j ELSE j + 1]
  BY <1>1, RemovedAt
<1> HIDE DEF rest
<1>4. /\ moved \in Seq(Entries) /\ Len(moved) = Len(rest) + 1
      /\ \A j \in 1..Len(rest) : moved[j] = rest[j]
      /\ moved[Len(rest) + 1] = cache[i]
  <2>1. rest \in Seq(Entries) /\ cache[i] \in Entries
    BY <1>1, <1>3
  <2> QED
    BY <2>1, AppendProperties
<1>5. DOMAIN moved = 1..Len(moved)
  BY <1>4, LenProperties
<1>6. Refreshed(cache, i) = moved
  BY DEF Refreshed, moved, rest
<1> HIDE DEF moved, L
<1>7. L - 1 + 1 = L
  BY <1>2
<1>8. /\ Len(moved) = L /\ DOMAIN moved = 1..L
      /\ \A j \in 1..(L - 1) : moved[j] = cache[IF j < i THEN j ELSE j + 1]
      /\ moved[L] = cache[i]
  BY <1>3, <1>4, <1>5, <1>7
<1> DEFINE From(j) == IF j = L THEN i ELSE IF j < i THEN j ELSE j + 1
<1>9. /\ \A j \in 1..L : From(j) \in 1..L
      /\ \A j, k \in 1..L : From(j) = From(k) => j = k
  BY <1>2
<1>10. \A j \in 1..L : moved[j] = cache[From(j)]
  <2> TAKE j \in 1..L
  <2>1. CASE j = L
    BY <1>8, <2>1
  <2>2. CASE j # L
    <3>1. j \in 1..(L - 1)
      BY <1>2, <2>2
    <3> QED
      BY <1>8, <2>2, <3>1
  <2> QED
    BY <2>1, <2>2
<1> HIDE DEF From
<1>11. \A j, k \in 1..L : moved[j].query = moved[k].query => j = k
  BY <1>1, <1>9, <1>10 DEF CacheOK
<1>12. \A j \in 1..L : EntryOK(moved[j], table, now, seen, own)
  BY <1>1, <1>9, <1>10 DEF CacheOK
<1>13. Len(moved) <= Max
  BY <1>8 DEF CacheOK, L
<1> QED
  BY <1>4, <1>6, <1>8, <1>11, <1>12, <1>13 DEF CacheOK

\* A miss brings an entry.
LEMMA StoredOK ==
  ASSUME NEW cache, NEW table, NEW now, NEW seen, NEW own, CacheOK(cache, table, now, seen, own),
         NEW entry, EntryOK(entry, table, now, seen, own)
  PROVE  CacheOK(Stored(cache, entry), table, now, seen, own)
<1> DEFINE n == Len(cache)
           there == \E i \in DOMAIN cache : cache[i].query = entry.query
<1>1. /\ cache \in Seq(Entries) /\ n \in Nat /\ DOMAIN cache = 1..n /\ n <= Max
      /\ entry \in Entries /\ Max \in Nat /\ Max # 0
      /\ \A i \in 1..n : cache[i] \in Entries
  BY StackAssumption DEF CacheOK, EntryOK
<1>2. CASE there
  <2> DEFINE new == [i \in 1..n |-> IF cache[i].query = entry.query THEN entry ELSE cache[i]]
  <2>1. Stored(cache, entry) = new
    BY <1>1, <1>2 DEF Stored
  <2>2. new \in Seq(Entries) /\ Len(new) = n /\ DOMAIN new = 1..n
    BY <1>1
  <2>3. \A i \in 1..n : new[i].query = cache[i].query /\ (new[i] = entry \/ new[i] = cache[i])
    OBVIOUS
  <2> HIDE DEF new
  <2>4. \A i, j \in DOMAIN new : new[i].query = new[j].query => i = j
    BY <1>1, <2>2, <2>3 DEF CacheOK
  <2>5. \A i \in DOMAIN new : EntryOK(new[i], table, now, seen, own)
    BY <1>1, <2>2, <2>3 DEF CacheOK
  <2> QED
    BY <1>1, <2>1, <2>2, <2>4, <2>5 DEF CacheOK
<1>3. CASE ~there
  <2> DEFINE grown == Append(cache, entry)
  <2>1. /\ grown \in Seq(Entries) /\ Len(grown) = n + 1 /\ DOMAIN grown = 1..(n + 1)
        /\ \A i \in 1..n : grown[i] = cache[i]
        /\ grown[n + 1] = entry
    BY <1>1
  <2> HIDE DEF grown
  <2>2. \A i, j \in 1..(n + 1) : grown[i].query = grown[j].query => i = j
    <3>1. \A i \in 1..(n + 1) : i \in 1..n \/ i = n + 1
      BY <1>1
    <3> QED
      BY <1>1, <1>3, <2>1, <3>1 DEF CacheOK
  <2>3. \A i \in 1..(n + 1) : EntryOK(grown[i], table, now, seen, own)
    BY <1>1, <2>1 DEF CacheOK
  <2>4. Stored(cache, entry) = IF Len(grown) > Max THEN Tail(grown) ELSE grown
    BY <1>3, Zenon DEF Stored, grown
  <2>5. CASE n + 1 <= Max
    <3>1. Stored(cache, entry) = grown
      BY <1>1, <2>1, <2>4, <2>5
    <3> QED
      BY <2>1, <2>2, <2>3, <2>5, <3>1 DEF CacheOK
  <2>6. CASE n + 1 > Max
    <3>1. Stored(cache, entry) = Tail(grown)
      BY <1>1, <2>1, <2>4, <2>6
    <3>2. /\ Tail(grown) \in Seq(Entries) /\ Len(Tail(grown)) = n /\ DOMAIN Tail(grown) = 1..n
          /\ \A i \in 1..n : Tail(grown)[i] = grown[i + 1] /\ i + 1 \in 1..(n + 1)
      <4>1. Len(grown) # 0 /\ grown \in Seq(Entries)
        BY <1>1, <2>1
      <4>2. /\ Tail(grown) \in Seq(Entries) /\ Len(Tail(grown)) = Len(grown) - 1
            /\ \A i \in 1..Len(Tail(grown)) : Tail(grown)[i] = grown[i + 1]
        BY <4>1
      <4>3. DOMAIN Tail(grown) = 1..Len(Tail(grown)) /\ Len(grown) - 1 = n
        BY <1>1, <2>1, <4>2
      <4>4. \A i \in 1..n : i + 1 \in 1..(n + 1)
        BY <1>1
      <4> QED
        BY <4>2, <4>3, <4>4
    <3> QED
      BY <1>1, <2>2, <2>3, <3>1, <3>2 DEF CacheOK
  <2> QED
    BY <1>1, <2>5, <2>6
<1> QED
  BY <1>2, <1>3

LEMMA EmptyOK ==
  ASSUME NEW table, NEW now, NEW seen, NEW own
  PROVE  CacheOK(<<>>, table, now, seen, own)
BY StackAssumption DEF CacheOK

\* Rows that are captured stay observed, and so does what was.
LEMMA CapturedKeeps ==
  ASSUME NEW cache, NEW table, NEW now, NEW seen \in Table, NEW own,
         CacheOK(cache, table, now, seen, own), NEW rows \in Table
  PROVE  CacheOK(cache, table, now, Captured(seen, rows), own)
BY CapturedDated DEF CacheOK, EntryOK, Present, Entries, Table

LEMMA HitKeeps ==
  ASSUME IInv, NEW s \in Stores, NEW q \in Queries, Hit(s, q)
  PROVE  IInv'
<1>1. /\ CacheOK(entries[s], db, clock, observed[s], ownAt[s])
      /\ observed[s] \in Table /\ Dated(observed[s], db, clock)
      /\ known[s] \subseteq Rows /\ \A r \in known[s] : observed[s][r].ver # 0
  BY Standstill DEF StoreOK
<1>2. PICK i \in DOMAIN entries[s] :
        /\ entries' = [entries EXCEPT ![s] = Refreshed(@, i)]
        /\ observed' = IF s \in CacheOutside THEN observed
                       ELSE [observed EXCEPT ![s] = Captured(@, entries[s][i].rows)]
        /\ known' = [known EXCEPT ![s] = @ \cup Present(entries[s][i].rows)]
  BY DEF Hit, Rebuilt
<1> DEFINE rows == entries[s][i].rows
           seen == IF s \in CacheOutside THEN observed[s] ELSE Captured(observed[s], rows)
           knows == known[s] \cup Present(rows)
<1>3. /\ rows \in Table /\ Dated(rows, db, clock)
      /\ \A r \in Present(rows) : observed[s][r].ver # 0
  BY <1>1 DEF CacheOK, EntryOK, Entries
<1>4. /\ seen \in Table /\ Dated(seen, db, clock)
      /\ \A r \in Rows : observed[s][r].ver # 0 => seen[r].ver # 0
      /\ CacheOK(entries[s], db, clock, seen, ownAt[s])
  BY <1>1, <1>3, CapturedDated, CapturedKeeps
<1>5. Becomes(s, Refreshed(entries[s], i), seen, reads[s], saves[s], knows, ownAt[s])
  BY <1>2, Standstill DEF Hit, Becomes
<1>6. knows \subseteq Rows /\ \A r \in knows : seen[r].ver # 0
  BY <1>1, <1>3, <1>4 DEF Present
<1> HIDE DEF rows, seen, knows
<1>7. CacheOK(Refreshed(entries[s], i), db, clock, seen, ownAt[s])
  BY <1>4, RefreshedOK
<1>8. StoreOK(db, clock, Refreshed(entries[s], i), seen, reads[s], saves[s], knows, ownAt[s])
  BY <1>4, <1>6, <1>7, Standstill DEF StoreOK
<1>9. db' = db /\ clock' = clock /\ Numbered'
  BY SentStands DEF Hit
<1> QED
  BY <1>5, <1>8, <1>9, StoreStep, Standstill

LEMMA ReadAnsweredKeeps ==
  ASSUME IInv, NEW s \in Stores, NEW k \in Slots, ReadAnswered(s, k)
  PROVE  IInv'
<1> DEFINE read == reads[s][k]
           seen == Captured(observed[s], read.rows)
           cache == Stored(entries[s], EntryOf(read))
           knows == known[s] \cup Present(read.rows)
           rs == [reads[s] EXCEPT ![k] = NoRead]
<1>1. /\ CacheOK(entries[s], db, clock, observed[s], ownAt[s])
      /\ observed[s] \in Table /\ Dated(observed[s], db, clock)
      /\ known[s] \subseteq Rows /\ \A r \in known[s] : observed[s][r].ver # 0
      /\ ReadOK(read, db, clock, ownAt[s]) /\ read.step = "read"
      /\ clock \in Nat
  BY Standstill DEF StoreOK, ReadAnswered, IInv
<1>2. read \in Reads /\ read.rows \in Table /\ Dated(read.rows, db, clock)
  BY <1>1 DEF ReadOK, Reads
<1>3. /\ seen \in Table /\ Dated(seen, db, clock)
      /\ \A r \in Rows : observed[s][r].ver # 0 \/ read.rows[r].ver # 0 => seen[r].ver # 0
      /\ CacheOK(entries[s], db, clock, seen, ownAt[s])
  BY <1>1, <1>2, CapturedDated, CapturedKeeps
<1>4. EntryOK(EntryOf(read), db, clock, seen, ownAt[s])
  BY <1>1, <1>2, <1>3 DEF EntryOK, EntryOf, Entries, Reads, ReadOK, Present
<1>5. CacheOK(cache, db, clock, seen, ownAt[s])
  BY <1>3, <1>4, StoredOK
<1>6. knows \subseteq Rows /\ \A r \in knows : seen[r].ver # 0
  BY <1>1, <1>3 DEF Present
<1>7. rs \in [Slots -> Reads] /\ \A j \in Slots : ReadOK(rs[j], db, clock, ownAt[s])
  BY <1>1, NoReadOK, Standstill DEF StoreOK
<1>8. Becomes(s, cache, seen, rs, saves[s], knows, ownAt[s])
  BY Standstill DEF ReadAnswered, Becomes
<1> HIDE DEF seen, cache, knows, rs
<1>9. StoreOK(db, clock, cache, seen, rs, saves[s], knows, ownAt[s])
  BY <1>3, <1>5, <1>6, <1>7, Standstill DEF StoreOK
<1>10. db' = db /\ clock' = clock /\ Numbered'
  BY SentStands DEF ReadAnswered
<1> QED
  BY <1>7, <1>8, <1>9, <1>10, StoreStep, Standstill

-----------------------------------------------------------------------------
(* Saves.                                                                   *)

LEMMA NoSaveOK ==
  ASSUME NEW table, NEW now \in Nat
  PROVE  SaveOK(NoSave, table, now) /\ NoSave \in Saves
<1>1. NoChange \in Changes
  BY DEF NoChange, Changes
<1>2. NoSave \in Saves
  BY <1>1, NoRowsType DEF NoSave, Saves
<1>3. \A r \in Rows : NoRows[r].ver = 0
  BY NoRowsType DEF NoRows
<1> QED
  BY <1>2, <1>3, NoRowsType DEF NoSave, SaveOK

\* Only one save of one store changes, and the database with it.
LEMMA SaveStep ==
  ASSUME IInv, NEW s \in Stores, NEW k \in Slots, NEW save, NEW cache \in {entries[s], <<>>},
         Evolves(db, clock, db', clock'), SaveOK(save, db', clock'), Numbered',
         saves' = [saves EXCEPT ![s][k] = save], entries' = [entries EXCEPT ![s] = cache],
         UNCHANGED <<observed, reads, known, ownAt>>
  PROVE  IInv'
<1> DEFINE ss == [saves[s] EXCEPT ![k] = save]
<1>1. save \in Saves /\ saves[s] \in [Slots -> Saves]
  BY Standstill DEF SaveOK
<1>2. ss \in [Slots -> Saves] /\ saves' = [saves EXCEPT ![s] = ss]
  BY <1>1
<1>3. StoreOK(db', clock', entries[s], observed[s], reads[s], saves[s], known[s], ownAt[s])
  BY Standstill, StoreEvolves DEF IInv
<1>4. \A j \in Slots : SaveOK(ss[j], db', clock')
  BY <1>1, <1>3 DEF StoreOK
<1> HIDE DEF ss
<1>5. CacheOK(cache, db', clock', observed[s], ownAt[s])
  BY <1>3, EmptyOK DEF StoreOK
<1>6. StoreOK(db', clock', cache, observed[s], reads[s], ss, known[s], ownAt[s])
  BY <1>3, <1>4, <1>5 DEF StoreOK
<1>7. Becomes(s, cache, observed[s], reads[s], ss, known[s], ownAt[s])
  BY <1>2, Standstill DEF Becomes
<1> QED
  BY <1>2, <1>6, <1>7, StoreStep, Standstill

LEMMA SaveKeeps ==
  ASSUME IInv, NEW s \in Stores, NEW k \in Slots, NEW change \in Changes, Save(s, k, change)
  PROVE  IInv'
<1> DEFINE expected == Expected(s, change)
           save == [NoSave EXCEPT !.step = "sent", !.change = change, !.expected = expected]
<1>1. /\ observed[s] \in Table /\ Dated(observed[s], db, clock) /\ clock \in Nat
      /\ Evolves(db, clock, db, clock) /\ saves \in [Stores -> [Slots -> Saves]]
  BY Standstill DEF StoreOK, IInv, Shapes
<1>2. /\ expected \in Table /\ Dated(expected, db, clock)
      /\ \A r \in Rows : expected[r].ver # 0 => change[r] = "update"
  BY <1>1, NoRowsType DEF Expected, Table, Dated, Old
<1> HIDE DEF expected
<1>3. /\ save \in Saves /\ save.step = "sent" /\ save.change = change
      /\ save.expected = expected /\ save.rows = NoRows /\ save.at = 0 /\ save.conflicts = {}
  BY <1>2, NoSaveOK DEF Saves, NoSave
<1>4. saves' = [saves EXCEPT ![s][k] = save] /\ saves' = [saves EXCEPT ![s] = [saves[s] EXCEPT ![k] = save]]
  BY <1>1 DEF Save, expected
<1> HIDE DEF save
<1>5. \A r \in Rows : NoRows[r].ver = 0
  BY NoRowsType DEF NoRows
<1>6. SaveOK(save, db, clock)
  BY <1>1, <1>2, <1>3, <1>5, NoRowsType DEF SaveOK
<1>7. Cardinality(Sent') <= Cardinality(Sent) + 1 /\ Cardinality(Sent') \in Nat
  BY <1>1, <1>3, <1>4, SentChanges
<1>8. Numbered'
  BY <1>1, <1>7, SentFinite, StackAssumption DEF Save, Numbered
<1>9. /\ entries' = [entries EXCEPT ![s] = <<>>]
      /\ UNCHANGED <<db, clock, observed, reads, known, ownAt>>
  BY DEF Save, Invalidated
<1>10. Evolves(db, clock, db', clock') /\ SaveOK(save, db', clock')
  BY <1>1, <1>6, <1>9
<1>11. saves' = [saves EXCEPT ![s][k] = save]
  BY <1>4
<1> QED
  BY <1>8, <1>9, <1>10, <1>11, SaveStep

\* What a save leaves of a row without a conflict.
LEMMA WrittenEvolves ==
  ASSUME db \in Table, clock \in Nat, NEW save, SaveOK(save, db, clock), NEW r \in Rows,
         r \notin Conflicts(save), Proper(db)
  PROVE  /\ Written(save, r, clock + 1) \in Row
         /\ RowEvolves(db[r], clock, Written(save, r, clock + 1), clock + 1)
<1> DEFINE new == Written(save, r, clock + 1)
           ver == save.expected[r].ver
<1>1. /\ db[r] \in Row /\ ver \in Nat /\ save.change[r] \in {"none", "add", "update", "remove"}
      /\ NoRow \in Row
  BY NoRowsType DEF Table, SaveOK, Saves, Changes, Row
<1> SUFFICES new \in Row /\ RowEvolves(db[r], clock, new, clock + 1)
  OBVIOUS
<1>2. CASE save.change[r] = "none"
  BY <1>1, <1>2 DEF Written, RowEvolves
<1>3. CASE save.change[r] = "remove"
  BY <1>1, <1>3 DEF Written, RowEvolves
<1> HIDE DEF new
<1>4. CASE save.change[r] = "add"
  <2>1. new = [ver |-> 1, stamp |-> clock + 1, born |-> clock + 1]
    BY <1>4 DEF Written, new
  <2> QED
    BY <2>1 DEF Row, RowEvolves
<1>5. CASE save.change[r] = "update"
  <2>1. new = IF ~UpsertMissing /\ db[r] = NoRow THEN NoRow
              ELSE IF ~Checked(save, r)
                THEN [ver |-> 1, stamp |-> clock + 1, born |-> clock + 1]
              ELSE [ver |-> ver + 1, stamp |-> clock + 1,
                    born |-> IF db[r] = NoRow THEN clock + 1 ELSE db[r].born]
    BY <1>5 DEF Written, new
  <2>2. CASE ~UpsertMissing /\ db[r] = NoRow
    BY <1>1, <2>1, <2>2 DEF RowEvolves
  <2>3. CASE ~(~UpsertMissing /\ db[r] = NoRow) /\ ~Checked(save, r)
    <3>1. new = [ver |-> 1, stamp |-> clock + 1, born |-> clock + 1]
      BY <2>1, <2>3
    <3> QED
      BY <3>1 DEF Row, RowEvolves
  <2>4. CASE ~(~UpsertMissing /\ db[r] = NoRow) /\ Checked(save, r)
    <3>1. new = [ver |-> ver + 1, stamp |-> clock + 1,
                 born |-> IF db[r] = NoRow THEN clock + 1 ELSE db[r].born]
      BY <2>1, <2>4
    <3>2. db[r] # NoRow => db[r].ver = ver
      BY <1>5, <2>4 DEF Conflicts
    <3>3. db[r].born \in Nat
      BY <1>1 DEF Row
    <3>4. CASE db[r] = NoRow
      <4>1. new = [ver |-> ver + 1, stamp |-> clock + 1, born |-> clock + 1]
        BY <3>1, <3>4
      <4> QED
        BY <1>1, <4>1 DEF Row, RowEvolves
    <3>5. CASE db[r] # NoRow
      <4>1. new = [ver |-> ver + 1, stamp |-> clock + 1, born |-> db[r].born]
        BY <3>1, <3>5
      <4> QED
        BY <1>1, <3>2, <3>3, <3>5, <4>1 DEF Row, RowEvolves
    <3> QED
      BY <3>4, <3>5
  <2> QED
    BY <2>2, <2>3, <2>4
<1> QED
  BY <1>1, <1>2, <1>3, <1>4, <1>5

\* The rows in part are written, if any, as one change of the database.
LEMMA PartEvolves ==
  ASSUME IInv, NEW save, SaveOK(save, db, clock), NEW part \in SUBSET (Rows \ Conflicts(save)),
         NEW later \in {clock, clock + 1}, part # {} => later = clock + 1, NEW next,
         next = [r \in Rows |-> IF r \in part THEN Written(save, r, clock + 1) ELSE db[r]]
  PROVE  Evolves(db, clock, next, later)
<1>1. db \in Table /\ Proper(db) /\ clock \in Nat
  BY DEF IInv
<1>2. ASSUME NEW r \in Rows
      PROVE  next[r] \in Row /\ RowEvolves(db[r], clock, next[r], later)
  <2>1. CASE r \in part
    <3>1. next[r] = Written(save, r, clock + 1) /\ later = clock + 1 /\ r \notin Conflicts(save)
      BY <2>1
    <3> QED
      BY <1>1, <3>1, WrittenEvolves
  <2>2. CASE r \notin part
    BY <1>1, <2>2 DEF Table, RowEvolves
  <2> QED
    BY <2>1, <2>2
<1>3. next \in Table
  BY <1>2 DEF Table
<1> QED
  BY <1>1, <1>2, <1>3 DEF Evolves

LEMMA DbSaveKeeps ==
  ASSUME IInv, NEW s \in Stores, NEW k \in Slots, DbSave(s, k)
  PROVE  IInv'
<1> DEFINE save == saves[s][k]
           echoed == [r \in Rows |-> IF save.change[r] \in {"add", "update"} THEN db'[r] ELSE NoRow]
           done == [save EXCEPT !.step = "saved", !.at = clock + 1, !.rows = echoed]
<1>1. /\ saves \in [Stores -> [Slots -> Saves]] /\ clock \in Nat /\ db \in Table
      /\ Proper(db) /\ Dated(db, db, clock)
      /\ SaveOK(save, db, clock) /\ save \in Saves
      /\ save.step = "sent" /\ Conflicts(save) = {} /\ clock' = clock + 1
      /\ db' = [r \in Rows |-> Written(save, r, clock + 1)]
  BY Standstill DEF IInv, Shapes, StoreOK, SaveOK, DbSave
<1>2. Evolves(db, clock, db', clock')
  <2> DEFINE part == Rows
  <2>1. db' = [r \in Rows |-> IF r \in part THEN Written(save, r, clock + 1) ELSE db[r]]
    BY <1>1
  <2>2. /\ part \in SUBSET (Rows \ Conflicts(save))
        /\ clock' \in {clock, clock + 1} /\ (part # {} => clock' = clock + 1)
        /\ SaveOK(save, db, clock)
    BY <1>1
  <2> HIDE DEF save, part
  <2> QED
    BY <2>1, <2>2, PartEvolves
<1>3. /\ db' \in Table /\ Dated(db', db', clock') /\ clock' \in Nat
      /\ Dated(save.expected, db', clock')
  <2>1. save.expected \in Table /\ Dated(save.expected, db, clock)
    BY <1>1 DEF SaveOK, Saves
  <2>2. db' \in Table /\ clock' \in Nat
    BY <1>2 DEF Evolves
  <2> QED
    BY <1>1, <1>2, <2>1, <2>2, DatedEvolves
<1>4. echoed \in Table /\ Dated(echoed, db', clock')
  BY <1>3, NoRowsType DEF Table, Dated, Old
<1>5. saves' = [saves EXCEPT ![s][k] = done]
  BY <1>1 DEF DbSave, Saves
<1>6. \A r \in Rows : echoed[r].ver # 0 => save.change[r] \in {"add", "update"}
  BY NoRowsType
<1> HIDE DEF echoed
<1>7. /\ done \in Saves /\ done.step = "saved" /\ done.change = save.change
      /\ done.expected = save.expected /\ done.rows = echoed /\ done.at = clock'
      /\ done.conflicts = save.conflicts
  <2>1. clock + 1 \in Nat /\ clock' = clock + 1
    BY <1>1
  <2> QED
    BY <1>1, <1>4, <2>1 DEF Saves
<1>8. saves' = [saves EXCEPT ![s] = [saves[s] EXCEPT ![k] = done]]
  BY <1>1, <1>5
<1> HIDE DEF done
<1>9. SaveOK(done, db', clock')
  BY <1>1, <1>3, <1>4, <1>6, <1>7 DEF SaveOK
<1>10. Cardinality(Sent') = Cardinality(Sent) - 1
  BY <1>1, <1>7, <1>8, SentChanges
<1>11. Numbered'
  BY <1>1, <1>10, SentFinite, StackAssumption DEF IInv, Numbered
<1>12. entries' = [entries EXCEPT ![s] = entries[s]] /\ UNCHANGED <<observed, reads, known, ownAt>>
  BY Standstill DEF DbSave
<1> QED
  BY <1>2, <1>5, <1>9, <1>11, <1>12, SaveStep

LEMMA DbConflictKeeps ==
  ASSUME IInv, NEW s \in Stores, NEW k \in Slots, DbConflict(s, k)
  PROVE  IInv'
<1> DEFINE save == saves[s][k]
           done == [save EXCEPT !.step = "refused", !.at = clock, !.conflicts = Conflicts(save)]
<1>1. /\ saves \in [Stores -> [Slots -> Saves]] /\ clock \in Nat
      /\ SaveOK(save, db, clock) /\ save \in Saves
      /\ save.step = "sent" /\ clock' = clock /\ db' = db
      /\ Conflicts(save) \subseteq Rows
  BY Standstill DEF IInv, Shapes, StoreOK, SaveOK, DbConflict, Conflicts
<1>2. saves' = [saves EXCEPT ![s][k] = done]
  BY <1>1 DEF DbConflict, Saves
<1>3. /\ done \in Saves /\ done.step = "refused" /\ done.change = save.change
      /\ done.expected = save.expected /\ done.rows = save.rows /\ done.at = clock
  BY <1>1 DEF Saves
<1>4. saves' = [saves EXCEPT ![s] = [saves[s] EXCEPT ![k] = done]]
  BY <1>1, <1>2
<1> HIDE DEF done
<1>5. SaveOK(done, db', clock')
  BY <1>1, <1>3 DEF SaveOK
<1>6. Cardinality(Sent') = Cardinality(Sent) - 1
  BY <1>1, <1>3, <1>4, SentChanges
<1>7. Numbered'
  BY <1>1, <1>6, SentFinite, StackAssumption DEF IInv, Numbered
<1>8. /\ entries' = [entries EXCEPT ![s] = entries[s]] /\ UNCHANGED <<observed, reads, known, ownAt>>
      /\ Evolves(db, clock, db', clock')
  BY <1>1, Standstill DEF DbConflict
<1> QED
  BY <1>2, <1>5, <1>7, <1>8, SaveStep

LEMMA DbSaveFailsKeeps ==
  ASSUME IInv, NEW s \in Stores, NEW k \in Slots, DbSaveFails(s, k)
  PROVE  IInv'
<1> DEFINE save == saves[s][k]
           done == [save EXCEPT !.step = "failed", !.at = clock']
<1>1. PICK part \in SUBSET (Rows \ Conflicts(save)) :
        /\ clock' = IF part = {} THEN clock ELSE clock + 1
        /\ db' = [r \in Rows |-> IF r \in part THEN Written(save, r, clock + 1) ELSE db[r]]
  BY DEF DbSaveFails
<1>2. /\ saves \in [Stores -> [Slots -> Saves]] /\ clock \in Nat /\ db \in Table
      /\ Proper(db) /\ Dated(db, db, clock)
      /\ SaveOK(save, db, clock) /\ save \in Saves /\ save.step = "sent"
      /\ saves' = [saves EXCEPT ![s][k].step = "failed", ![s][k].at = clock']
      /\ UNCHANGED <<entries, observed, reads, known, ownAt>>
  BY Standstill DEF IInv, Shapes, StoreOK, SaveOK, DbSaveFails
<1>3. Evolves(db, clock, db', clock')
  <2>1. clock' \in {clock, clock + 1} /\ (part # {} => clock' = clock + 1)
    BY <1>1
  <2> HIDE DEF save
  <2> QED
    BY <1>1, <1>2, <2>1, PartEvolves
<1>4. /\ Dated(save.expected, db', clock') /\ Dated(save.rows, db', clock')
      /\ clock' \in Nat /\ clock <= clock'
  BY <1>2, <1>3, DatedEvolves DEF Evolves, SaveOK, Saves
<1>5. saves' = [saves EXCEPT ![s][k] = done]
  BY <1>2 DEF Saves
<1>6. /\ done \in Saves /\ done.step = "failed" /\ done.change = save.change
      /\ done.expected = save.expected /\ done.rows = save.rows /\ done.at = clock'
      /\ done.conflicts = save.conflicts
  BY <1>2, <1>4 DEF Saves
<1>7. saves' = [saves EXCEPT ![s] = [saves[s] EXCEPT ![k] = done]]
  BY <1>2, <1>5
<1> HIDE DEF done
<1>8. SaveOK(done, db', clock')
  BY <1>2, <1>4, <1>6 DEF SaveOK
<1>9. Cardinality(Sent') = Cardinality(Sent) - 1
  BY <1>2, <1>6, <1>7, SentChanges
<1>10. Numbered'
  BY <1>1, <1>2, <1>9, SentFinite, StackAssumption DEF IInv, Numbered
<1>11. entries' = [entries EXCEPT ![s] = entries[s]] /\ UNCHANGED <<observed, reads, known, ownAt>>
  BY <1>2, Standstill
<1> QED
  BY <1>3, <1>5, <1>8, <1>10, <1>11, SaveStep

\* The answer empties the cache, marks the reads and forgets nothing it echoes.
LEMMA SaveAnsweredKeeps ==
  ASSUME IInv, NEW s \in Stores, NEW k \in Slots, SaveAnswered(s, k)
  PROVE  IInv'
<1> DEFINE save == saves[s][k]
           lost == save.conflicts \cup Removed(save)
           seen == Echoed(observed[s], save)
           knows == (known[s] \ lost) \cup Present(save.rows)
           own == IF save.at > ownAt[s] THEN save.at ELSE ownAt[s]
           rs == [j \in Slots |-> [reads[s][j] EXCEPT !.crossed = @ \/ reads[s][j].step # "idle"]]
           ss == [saves[s] EXCEPT ![k] = NoSave]
<1>1. /\ StoreOK(db, clock, entries[s], observed[s], reads[s], saves[s], known[s], ownAt[s])
      /\ saves \in [Stores -> [Slots -> Saves]] /\ clock \in Nat
      /\ SaveOK(save, db, clock) /\ save \in Saves /\ save.step # "sent"
      /\ clock' = clock /\ db' = db /\ Evolves(db, clock, db', clock')
  BY Standstill DEF IInv, Shapes, StoreOK, SaveOK, SaveAnswered
<1>2. /\ observed[s] \in Table /\ Dated(observed[s], db, clock)
      /\ save.rows \in Table /\ Dated(save.rows, db, clock) /\ save.at \in Nat /\ save.at <= clock
      /\ ownAt[s] \in Nat /\ ownAt[s] <= clock
      /\ known[s] \subseteq Rows /\ \A r \in known[s] : observed[s][r].ver # 0
  BY <1>1 DEF StoreOK, SaveOK, Saves
<1>3. Present(save.rows) \cap lost = {}
  <2> SUFFICES ASSUME NEW r \in Rows, save.rows[r].ver # 0 PROVE r \notin lost
    BY DEF Present
  <2>1. save.step = "saved" /\ save.change[r] \in {"add", "update"}
    BY <1>1 DEF SaveOK
  <2> QED
    BY <1>1, <2>1 DEF SaveOK, Removed
<1>4. seen \in Table /\ Dated(seen, db, clock)
  <2> DEFINE captured == Captured(observed[s], save.rows)
  <2>1. captured \in Table /\ Dated(captured, db, clock)
    BY <1>2, CapturedDated
  <2>2. seen = [r \in Rows |-> IF r \in lost THEN NoRow ELSE captured[r]]
    BY DEF Echoed
  <2>3. NoRow \in Row /\ \A r \in Rows : Old(NoRow, db[r], clock)
    BY NoRowsType DEF Old
  <2> HIDE DEF captured, seen
  <2> QED
    BY <2>1, <2>2, <2>3 DEF Table, Dated
<1>5. \A r \in Rows \ lost : observed[s][r].ver # 0 \/ save.rows[r].ver # 0 => seen[r].ver # 0
  BY <1>2, CapturedDated DEF Echoed
<1>6. knows \subseteq Rows /\ \A r \in knows : seen[r].ver # 0
  BY <1>2, <1>3, <1>5 DEF Present
<1>7. own \in Nat /\ own <= clock
  BY <1>2
<1>8. rs \in [Slots -> Reads] /\ \A j \in Slots : ReadOK(rs[j], db, clock, own)
  <2> SUFFICES ASSUME NEW j \in Slots
               PROVE  LET read == [reads[s][j] EXCEPT !.crossed = @ \/ reads[s][j].step # "idle"]
                      IN  read \in Reads /\ ReadOK(read, db, clock, own)
    OBVIOUS
  <2> DEFINE crossed == reads[s][j].crossed \/ reads[s][j].step # "idle"
             read == [reads[s][j] EXCEPT !.crossed = crossed]
  <2>1. ReadOK(reads[s][j], db, clock, ownAt[s]) /\ reads[s][j] \in Reads
    BY <1>1 DEF StoreOK, ReadOK
  <2>2. crossed \in BOOLEAN /\ (reads[s][j].step # "idle" => crossed = TRUE)
    BY <2>1 DEF Reads
  <2> HIDE DEF crossed
  <2>3. /\ read \in Reads /\ read.step = reads[s][j].step /\ read.rows = reads[s][j].rows
        /\ read.at = reads[s][j].at /\ read.crossed = crossed
    BY <2>1, <2>2 DEF Reads
  <2>4. ReadOK(read, db, clock, own)
    BY <2>1, <2>2, <2>3 DEF ReadOK
  <2> QED
    BY <2>3, <2>4 DEF crossed
<1>9. ss \in [Slots -> Saves] /\ \A j \in Slots : SaveOK(ss[j], db, clock)
  BY <1>1, NoSaveOK DEF StoreOK
<1>10. Becomes(s, <<>>, seen, rs, ss, knows, own)
  <2>1. saves' = [saves EXCEPT ![s] = ss]
    BY <1>1 DEF SaveAnswered
  <2> QED
    BY <2>1 DEF SaveAnswered, Becomes, Invalidated
<1>11. Numbered'
  <2>1. saves' = [saves EXCEPT ![s] = [saves[s] EXCEPT ![k] = NoSave]]
    BY <1>1 DEF SaveAnswered
  <2>2. NoSave \in Saves /\ NoSave.step # "sent"
    BY <1>1, NoSaveOK DEF NoSave
  <2>3. Cardinality(Sent') <= Cardinality(Sent) /\ Cardinality(Sent') \in Nat
    BY <1>1, <2>1, <2>2, SentChanges
  <2> QED
    BY <1>1, <2>3, SentFinite, StackAssumption DEF IInv, Numbered
<1> HIDE DEF save, lost, seen, knows, own, rs, ss
<1>12. StoreOK(db, clock, <<>>, seen, rs, ss, knows, own)
  BY <1>4, <1>6, <1>7, <1>8, <1>9, EmptyOK DEF StoreOK
<1> QED
  BY <1>1, <1>8, <1>9, <1>10, <1>11, <1>12, StoreStep

LEMMA DestroyKeeps ==
  ASSUME IInv, NEW s \in Stores, Destroy(s)
  PROVE  IInv'
<1>1. /\ db' = NoRows /\ clock' = clock + 1 /\ clock \in Nat /\ db \in Table
      /\ Becomes(s, <<>>, NoRows, reads[s], saves[s], {}, ownAt[s])
  BY Standstill DEF Destroy, Becomes, IInv
<1>2. Evolves(db, clock, db', clock')
  BY <1>1, NoRowsType DEF Evolves, RowEvolves, NoRows
<1>3. StoreOK(db', clock', entries[s], observed[s], reads[s], saves[s], known[s], ownAt[s])
  BY <1>2, Standstill, StoreEvolves DEF IInv
<1>4. StoreOK(db', clock', <<>>, NoRows, reads[s], saves[s], {}, ownAt[s])
  BY <1>3, EmptyOK, NoRowsType DEF StoreOK
<1>5. Numbered'
  <2>1. Sent' = Sent
    BY DEF Destroy, Sent, Calls
  <2> QED
    BY <1>1, <2>1, SentFinite, StackAssumption DEF Destroy, Numbered
<1> QED
  BY <1>1, <1>2, <1>4, <1>5, StoreStep, Standstill

-----------------------------------------------------------------------------
(* The theorems.                                                            *)

LEMMA InitIInv == Init => IInv
<1> SUFFICES ASSUME Init PROVE IInv
  OBVIOUS
<1>1. /\ db \in [Rows -> {NoRow, [ver |-> 1, stamp |-> 0, born |-> 0]}] /\ clock = 0
      /\ entries = [s \in Stores |-> <<>>] /\ observed = [s \in Stores |-> NoRows]
      /\ reads = [s \in Stores |-> [k \in Slots |-> NoRead]]
      /\ saves = [s \in Stores |-> [k \in Slots |-> NoSave]]
      /\ known = [s \in Stores |-> {}] /\ ownAt = [s \in Stores |-> 0]
  BY DEF Init
<1>2. db \in Table /\ Proper(db) /\ Dated(db, db, clock)
  <2>1. \A r \in Rows : db[r] = NoRow \/ db[r] = [ver |-> 1, stamp |-> 0, born |-> 0]
    BY <1>1
  <2>2. \A r \in Rows : db[r] \in Row /\ (db[r].ver = 0 => db[r] = NoRow) /\ db[r].born = 0
    BY <2>1 DEF NoRow, Row
  <2>3. db \in Table
    BY <1>1, <2>2 DEF Table
  <2> QED
    BY <1>1, <2>2, <2>3 DEF Row, Proper, Dated, Old
<1>3. Sent = {}
  <2>1. NoSave.step # "sent"
    BY DEF NoSave
  <2> QED
    BY <1>1, <2>1 DEF Sent, Calls
<1>4. Cardinality(Sent) = 0
  BY <1>3, FS_EmptySet
<1>5. Numbered
  BY <1>1, <1>4, StackAssumption DEF Numbered
<1>6. NoSave \in Saves /\ SaveOK(NoSave, db, clock) /\ NoRead \in Reads /\ ReadOK(NoRead, db, clock, 0)
  BY <1>1, NoSaveOK, NoReadOK
<1>7. Shapes
  BY <1>1, <1>6, NoRowsType DEF Shapes
<1>8. ASSUME NEW s \in Stores
      PROVE  StoreOK(db, clock, entries[s], observed[s], reads[s], saves[s], known[s], ownAt[s])
  <2>1. CacheOK(<<>>, db, clock, NoRows, 0)
    BY EmptyOK
  <2> QED
    BY <1>1, <1>6, <2>1, NoRowsType DEF StoreOK
<1> QED
  BY <1>1, <1>2, <1>5, <1>7, <1>8 DEF IInv

LEMMA NextIInv == IInv /\ [Next]_vars => IInv'
<1> SUFFICES ASSUME IInv, [Next]_vars PROVE IInv'
  OBVIOUS
<1>1. ASSUME NEW s \in Stores, Destroy(s) PROVE IInv'
  BY <1>1, DestroyKeeps
<1>2. ASSUME NEW s \in Stores, NEW q \in Queries, Hit(s, q) PROVE IInv'
  BY <1>2, HitKeeps
<1>3. ASSUME NEW s \in Stores, NEW k \in Slots, NEW q \in Queries, Miss(s, k, q) PROVE IInv'
  BY <1>3, MissKeeps
<1>4. ASSUME NEW s \in Stores, NEW k \in Slots, DbRead(s, k) PROVE IInv'
  BY <1>4, DbReadKeeps
<1>5. ASSUME NEW s \in Stores, NEW k \in Slots, DbReadFails(s, k) PROVE IInv'
  BY <1>5, DbReadFailsKeeps
<1>6. ASSUME NEW s \in Stores, NEW k \in Slots, Retry(s, k) PROVE IInv'
  BY <1>6, RetryKeeps
<1>7. ASSUME NEW s \in Stores, NEW k \in Slots, ReadAnswered(s, k) PROVE IInv'
  BY <1>7, ReadAnsweredKeeps
<1>8. ASSUME NEW s \in Stores, NEW k \in Slots, NEW change \in Changes, Save(s, k, change)
      PROVE  IInv'
  BY <1>8, SaveKeeps
<1>9. ASSUME NEW s \in Stores, NEW k \in Slots, DbSave(s, k) PROVE IInv'
  BY <1>9, DbSaveKeeps
<1>10. ASSUME NEW s \in Stores, NEW k \in Slots, DbConflict(s, k) PROVE IInv'
  BY <1>10, DbConflictKeeps
<1>11. ASSUME NEW s \in Stores, NEW k \in Slots, DbSaveFails(s, k) PROVE IInv'
  BY <1>11, DbSaveFailsKeeps
<1>12. ASSUME NEW s \in Stores, NEW k \in Slots, SaveAnswered(s, k) PROVE IInv'
  BY <1>12, SaveAnsweredKeeps
<1>13. CASE UNCHANGED vars
  <2>1. Sent' = Sent
    BY <1>13 DEF vars, Sent, Calls
  <2> QED
    BY <1>13, <2>1 DEF vars, IInv, Shapes, Numbered
<1> QED
  BY <1>1, <1>2, <1>3, <1>4, <1>5, <1>6, <1>7, <1>8, <1>9, <1>10, <1>11, <1>12, <1>13 DEF Next

LEMMA Invariant == Spec => []IInv
BY InitIInv, NextIInv, PTL DEF Spec

\* Caches, observed versions, calls under way and stored rows keep their shape: a cache
\* has at most Max entries and one for a query (CacheDbPlugin.store), and the database
\* applies no more saves than were counted when they were sent.
THEOREM TypeCorrect == Spec => []TypeOK
<1>1. IInv => TypeOK
  <2> SUFFICES ASSUME IInv PROVE TypeOK
    OBVIOUS
  <2>1. clock \in 0..MaxWrites
    BY SentFinite, StackAssumption DEF IInv, Numbered
  <2>2. ASSUME NEW s \in Stores
        PROVE  /\ Len(entries[s]) <= Max /\ ownAt[s] \in 0..MaxWrites
               /\ \A i, j \in DOMAIN entries[s] : entries[s][i].query = entries[s][j].query => i = j
    <3>1. StoreOK(db, clock, entries[s], observed[s], reads[s], saves[s], known[s], ownAt[s])
      BY Standstill
    <3>2. ownAt[s] \in Nat /\ ownAt[s] <= clock
      BY <3>1 DEF StoreOK
    <3>3. ownAt[s] \in 0..MaxWrites
      BY <2>1, <3>2, StackAssumption
    <3> QED
      BY <3>1, <3>3 DEF StoreOK, CacheOK
  <2>3. ownAt \in [Stores -> 0..MaxWrites]
    <3>1. ownAt \in [Stores -> Nat]
      BY DEF IInv, Shapes
    <3> QED
      BY <2>2, <3>1
  <2> QED
    BY <2>1, <2>2, <2>3 DEF IInv, Shapes, TypeOK
<1> QED
  BY <1>1, Invariant, PTL

\* ConcurrencyDbPlugin over or under a cache: a row that a store read, from the database
\* or the cache, has a version to be checked when the store updates it, until a conflict,
\* its removal or destroy.
THEOREM ReadsAreChecked == Spec => []ReadRowsAreChecked
<1>1. IInv => ReadRowsAreChecked
  BY Standstill DEF StoreOK, ReadRowsAreChecked
<1> QED
  BY <1>1, Invariant, PTL

\* CacheDbPlugin.bulkPersist: an entry that is older than a save its own store has the
\* answer to was brought by a miss that was under way when that answer came.
THEOREM OnlyLateAnswersAreStale == Spec => []StaleOnlyByLateAnswer
<1>1. IInv => StaleOnlyByLateAnswer
  BY Standstill DEF StoreOK, CacheOK, EntryOK, StaleOnlyByLateAnswer
<1> QED
  BY <1>1, Invariant, PTL

\* ConcurrencyDbPlugin.bulkPersist: the database applies a checked update only over the
\* row the store had observed, unless the row's versions were restarted since.
THEOREM UpdatesReplaceWhatWasObserved == Spec => CheckedReplacesObserved
<1> DEFINE Replaces ==
      \A s \in Stores, k \in Slots, r \in Rows :
        LET save == saves[s][k]
        IN  (save.step = "sent" /\ Checked(save, r) /\ db[r] # NoRow
               /\ r \notin Conflicts(save) /\ saves'[s][k].step = "saved")
            => db[r] = save.expected[r] \/ db[r].born # save.expected[r].born
<1>1. IInv => Replaces
  <2> SUFFICES ASSUME IInv, NEW s \in Stores, NEW k \in Slots, NEW r \in Rows,
                      Checked(saves[s][k], r), db[r] # NoRow, r \notin Conflicts(saves[s][k]),
                      db[r].born = saves[s][k].expected[r].born
               PROVE  db[r] = saves[s][k].expected[r]
    OBVIOUS
  <2> DEFINE save == saves[s][k]
  <2>1. SaveOK(save, db, clock)
    BY Standstill DEF StoreOK
  <2>2. save.change[r] = "update" /\ Old(save.expected[r], db[r], clock)
    BY <2>1 DEF SaveOK, Checked, Dated
  <2>3. db[r].ver = save.expected[r].ver
    BY <2>2 DEF Conflicts
  <2> QED
    BY <2>2, <2>3 DEF Old, Checked
<1> QED
  BY <1>1, Invariant, PTL DEF CheckedReplacesObserved
=============================================================================
