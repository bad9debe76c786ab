----------------------------- MODULE UnsyncedRows -----------------------------
(***************************************************************************)
(* The rows of plugins/replication/src/UnsyncedQueue.ts and what each      *)
(* queue operation does to them.  One collection; a row is keyed by kind   *)
(* and entity.                                                             *)
(*                                                                         *)
(* A local change is a record                                              *)
(*   id      the entity,                                                   *)
(*   kind    "add", "update" or "remove",                                  *)
(*   change  its number: the revision and the opId stamped on it,          *)
(*   entity  the whole entity after it, as the set of changes in it,       *)
(*   fields  the changes a trimmed update body carries; {} is the code's   *)
(*           null payload, "send the whole entity".                        *)
(* A row is a change with its enqueue order, seq, and its status, dead.    *)
(***************************************************************************)
EXTENDS Naturals, FiniteSets

SameRow(r, q) == r.id = q.id /\ r.kind = q.kind

\* Removes go to the store by row id: whatever is there now is deleted.
DeleteById(rows, doomed) == {r \in rows : \A d \in doomed : ~SameRow(r, d)}

\* Updates and replacements go to the store as full-row upserts.
Upsert(rows, news) == DeleteById(rows, news) \cup news

\* mergeUpdatePayloads: newest wins per field, a whole entity absorbs all.
MergeFields(older, newer) ==
  IF older = {} \/ newer = {} THEN {} ELSE older \cup newer

\* (variant) a newer update replaces the queued payload.
PayloadForReplacing(read, c) == c.fields

\* The payload addMany stores, given the rows payloadsByRowId read.
PayloadFor(read, c) ==
  IF c.kind = "update" /\ \E r \in read : SameRow(r, c)
    THEN MergeFields((CHOOSE r \in read : SameRow(r, c)).fields, c.fields)
    ELSE c.fields

\* The row addMany enqueues for a change, stamped seq.
RowOf(c, fields, seq) ==
  [id |-> c.id, kind |-> c.kind, change |-> c.change, entity |-> c.entity,
   fields |-> fields, seq |-> seq, dead |-> FALSE]

\* removeMany: a confirmed change retires its own row while the revision still
\* matches, and the entity's other rows enqueued no later than it.
Retired(rows, c) ==
  {r \in rows : /\ r.id = c.id
                /\ IF SameRow(r, c) THEN r.change = c.change ELSE r.seq <= c.seq}

\* (variant) flushed rows are dequeued whatever revision they have now.
SettledUncompared(rows, flushed) ==
  {r \in rows : \E f \in flushed : SameRow(r, f)}

\* removeRows: a flushed row is dequeued while its revision still matches.
Settled(rows, flushed) ==
  {r \in rows : \E f \in flushed : SameRow(r, f) /\ r.change = f.change}

Pending(rows) == {r \in rows : ~r.dead}

Newest(group) == CHOOSE r \in group : \A q \in group : q.seq <= r.seq

\* (variant) an add made of a pending update is trimmed like the update.
UnitTrimmed(group) ==
  LET newest == Newest(group)
      kind == IF newest.kind # "remove" /\ \E r \in group : r.kind = "add"
                THEN "add" ELSE newest.kind
  IN  [id |-> newest.id, change |-> newest.change, kind |-> kind,
       whole |-> kind # "update" \/ newest.fields = {},
       carries |-> IF newest.fields = {} THEN newest.entity ELSE newest.fields,
       rows |-> group]

\* (variant) the body goes out under the oldest row's idempotency key.
UnitUnderOldestOpId(group) ==
  LET newest == Newest(group)
      oldest == CHOOSE r \in group : \A q \in group : r.seq <= q.seq
      kind == IF newest.kind # "remove" /\ \E r \in group : r.kind = "add"
                THEN "add" ELSE newest.kind
      whole == kind # "update" \/ newest.fields = {}
  IN  [id |-> newest.id, change |-> oldest.change, kind |-> kind,
       whole |-> whole, carries |-> IF whole THEN newest.entity ELSE newest.fields,
       rows |-> group]

\* coalesceGroup: the newest row is the local intent and gives the body and the
\* opId; a pending add makes anything but a remove an add.  A unit is what goes
\* over the wire for one entity, with the rows it settles.
Unit(group) ==
  LET newest == Newest(group)
      kind == IF newest.kind # "remove" /\ \E r \in group : r.kind = "add"
                THEN "add" ELSE newest.kind
      whole == kind # "update" \/ newest.fields = {}
  IN  [id |-> newest.id, change |-> newest.change, kind |-> kind,
       whole |-> whole, carries |-> IF whole THEN newest.entity ELSE newest.fields,
       rows |-> group]

\* getUnsyncedEntitiesForFlush.
FlushUnits(rows) ==
  {Unit({r \in Pending(rows) : r.id = i}) : i \in {r.id : r \in Pending(rows)}}
=============================================================================
