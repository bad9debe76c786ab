----------------------------- MODULE HttpSwrWrites -----------------------------
(***************************************************************************)
(* The write path of plugins/replication/src/HttpSwrDbPlugin.ts: a local   *)
(* save is stored, recorded as unsynced, acknowledged, and reaches the     *)
(* server by a POST of its own (postOnPersist) or by the flush, which      *)
(* replays the queue, isolates poison changes and dead-letters them.       *)
(*                                                                         *)
(* A change is a number; every change writes a field of its own, so an     *)
(* entity is the set of changes in it and {} is no entity.  Change 0 is    *)
(* what client and server agreed on at the start.  Every access to the     *)
(* queue's store is a step: operations of UnsyncedQueue read first and     *)
(* write later, in mutex order.  A POST and its answer are one step, as no *)
(* client state is read in between; retries that change nothing are not    *)
(* steps.                                                                  *)
(*                                                                         *)
(* Races names the orders the runs may admit or exclude:                   *)
(*   "late"       a save's POST lands after a newer one or during a flush, *)
(*   "overlap"    a queue operation starts while another has not written,  *)
(*   "writeBack"  a POST fails after its rows were changed,                *)
(*   "unread"     the queue's store fails a read,                          *)
(*   "reuse"      an entity is added again after it was removed.           *)
(*   "retry"      retryDeadLetters is called.                              *)
(***************************************************************************)
EXTENDS UnsyncedRows, Sequences

CONSTANTS
  Ids,            \* entities
  MaxChanges,     \* bound on local changes
  MaxFaults,      \* bound on crashes, failed queue writes and retries of dead letters
  Trims,          \* which updates have a tracked delta: a set of BOOLEANs
  Direct,         \* postOnPersist
  Batches,        \* writeBatchDelayMs > 0: POSTs of saves may be merged
  Poison,         \* changes the server rejects as invalid
  ServerUpserts,  \* an update of an unknown entity creates it
  UpdateReplaces, \* an update replaces the row instead of patching it
  Races

ASSUME BoundsAssumption == MaxChanges \in Nat /\ MaxFaults \in Nat
ASSUME ModesAssumption ==
  /\ Trims \in (SUBSET BOOLEAN) \ {{}}
  /\ {Direct, Batches, ServerUpserts, UpdateReplaces} \subseteq BOOLEAN

VARIABLES
  local,    \* [Ids -> set of changes]: the rows of the swr store
  issued,   \* history: the changes made, in order
  acked,    \* changes whose save was acknowledged
  saves,    \* saves in progress: [change, seq, step]
  seqCounter, \* the enqueue order
  rows,     \* the unsynced rows in the queue's store
  mutex,    \* queue writes waiting for the mutation mutex
  flush,    \* the flush: step, units being sent, units left to isolate
  server,   \* [Ids -> set of changes]
  applied,  \* items the server applied; it remembers their opIds
  refused,  \* what the server rejects now
  withheld, \* history: changes in skipped replays that their opIds did not bring
  faults

client == <<local, issued, acked, saves, seqCounter, rows, mutex, flush>>
remote == <<server, applied, withheld, refused>>
vars == <<client, remote, faults>>

Changes == 1..MaxChanges
Idle == [step |-> "idle", now |-> {}, todo |-> {}]

Init ==
  /\ \E known \in SUBSET Ids :
       /\ local = [i \in Ids |-> IF i \in known THEN {0} ELSE {}]
       /\ server = local
  /\ issued = <<>> /\ acked = {} /\ saves = {} /\ seqCounter = 0
  /\ rows = {} /\ mutex = <<>> /\ flush = Idle
  /\ applied = {} /\ withheld = {} /\ refused = Poison
  /\ faults = 0

-----------------------------------------------------------------------------
(* Local saves: the store is written, the obligation recorded, the caller   *)
(* acknowledged.                                                            *)

ChangesOf(i) == {n \in DOMAIN issued : issued[n].id = i}

\* persistToSwrStore has written one change of entity i.
Save(i, kind) ==
  /\ Len(issued) < MaxChanges
  /\ (kind = "add") = (local[i] = {})
  /\ kind = "add" /\ "reuse" \notin Races => ChangesOf(i) = {}
  /\ \E trimmed \in Trims :
       LET n == Len(issued) + 1
           entity == CASE kind = "add" -> {n}
                       [] kind = "update" -> local[i] \cup {n}
                       [] OTHER -> local[i]
       IN  /\ local' = [local EXCEPT ![i] = IF kind = "remove" THEN {} ELSE entity]
           /\ issued' = Append(issued,
                [id |-> i, kind |-> kind, change |-> n, entity |-> entity,
                 fields |-> IF kind = "update" /\ trimmed THEN {n} ELSE {}])
           /\ saves' = saves \cup {[change |-> n, seq |-> 0, step |-> "record"]}
  /\ UNCHANGED <<acked, seqCounter, rows, mutex, flush, remote, faults>>

\* What a read of the queue's rows answers: a failed read answers no rows.
Reads == {rows} \cup (IF "unread" \in Races THEN {{}} ELSE {})

\* No queue operation is between its read and its write.
Quiet == "overlap" \in Races \/ mutex = <<>>

\* The order in which recording reaches the queue: saves keep theirs, except
\* that one with no payload to merge passes those still reading.
MayRecord(s) ==
  \A t \in saves : t.step = "record" /\ t.change < s.change =>
    /\ "overlap" \in Races
    /\ issued[t.change].fields # {}
    /\ issued[s.change].fields = {}

\* addMany: the queued payloads are read, the change is stamped, and its row
\* goes behind the mutex.
Record(s) ==
  /\ s.step = "record" /\ Quiet /\ MayRecord(s)
  /\ \E read \in Reads :
       LET c == issued[s.change]
           row == RowOf(c, PayloadFor(read, c), seqCounter + 1)
       IN  mutex' = Append(mutex, [type |-> "put", by |-> "save", change |-> s.change,
                                   rows |-> {row}])
  /\ seqCounter' = seqCounter + 1
  /\ saves' = (saves \ {s})
              \cup {[s EXCEPT !.seq = seqCounter + 1, !.step = "recording"]}
  /\ UNCHANGED <<local, issued, acked, rows, flush, remote, faults>>

-----------------------------------------------------------------------------
(* The server.                                                              *)

Seen == {a.change : a \in applied}

\* What a POST says of one change.
DirectItem(c) ==
  LET whole == c.kind # "update" \/ c.fields = {}
  IN  [id |-> c.id, change |-> c.change, kind |-> c.kind, whole |-> whole,
       carries |-> IF whole THEN c.entity ELSE c.fields]
FlushItem(u) ==
  [id |-> u.id, change |-> u.change, kind |-> u.kind, whole |-> u.whole,
   carries |-> u.carries]

Fresh(items) == {x \in items : x.change \notin Seen}

Unacceptable(items) ==
  {x \in Fresh(items) :
     \/ x.change \in refused
     \/ /\ x.kind = "update" /\ server[x.id] = {} /\ ~ServerUpserts
        /\ \A y \in Fresh(items) : ~(y.id = x.id /\ y.kind = "add")}

\* A body is adds, then updates, then removes; each in order of the saves.
Updated(start, updates) ==
  LET resets == {x \in updates : x.whole \/ UpdateReplaces}
      last == CHOOSE x \in resets : \A y \in resets : y.change <= x.change
  IN  IF resets = {}
        THEN start \cup UNION {x.carries : x \in updates}
        ELSE last.carries \cup
             UNION {x.carries : x \in {y \in updates : y.change > last.change}}

ApplyTo(i, items) ==
  LET mine(kind) == {x \in Fresh(items) : x.id = i /\ x.kind = kind}
      added == CHOOSE x \in mine("add") : \A y \in mine("add") : y.change <= x.change
  IN  IF mine("remove") # {} THEN {}
      ELSE Updated(IF mine("add") = {} THEN server[i] ELSE added.carries,
                   mine("update"))

Deliver(items) ==
  /\ Unacceptable(items) = {}
  /\ server' = [i \in Ids |-> ApplyTo(i, items)]
  /\ applied' = applied \cup Fresh(items)
  /\ withheld' = withheld \cup
       UNION {x.carries \ UNION {a.carries : a \in {b \in applied : b.change = x.change}} :
                x \in items \ Fresh(items)}
  /\ UNCHANGED refused

-----------------------------------------------------------------------------
(* The POST of a save.  Bodies of several saves may leave as one, and then  *)
(* its answer is the answer to each.                                        *)

PostItems(group) == {DirectItem(issued[s.change]) : s \in group}

Posting == {s \in saves : s.step = "posting"}
Groups == {g \in SUBSET Posting : g # {} /\ (Batches \/ Cardinality(g) = 1)}

\* No change of the same entity is on the server that is newer, or on its way
\* there with a flush.
InOrder(group) ==
  /\ flush = Idle
  /\ \A s \in group : \A n \in Seen : issued[n].id = issued[s.change].id => n <= s.change

\* Answered: each save goes on to dequeue its change.
PostSucceeds(group) ==
  /\ "late" \in Races \/ InOrder(group)
  /\ Deliver(PostItems(group))
  /\ saves' = (saves \ group) \cup {[s EXCEPT !.step = "dequeue"] : s \in group}
  /\ UNCHANGED <<local, issued, acked, seqCounter, rows, mutex, flush, faults>>

\* Applied, and the answer lost: retried, or left to the flush.
PostUnheard(group) ==
  /\ "late" \in Races \/ InOrder(group)
  /\ Deliver(PostItems(group))
  /\ saves' \in {saves, saves \ group}
  /\ UNCHANGED <<local, issued, acked, seqCounter, rows, mutex, flush, faults>>

\* Rejected, or out of attempts: left to the flush.
PostFails(group) ==
  /\ saves' = saves \ group
  /\ UNCHANGED <<local, issued, acked, seqCounter, rows, mutex, flush, remote, faults>>

\* removeMany: the rows are read, and those to drop go behind the mutex.
Dequeue(s) ==
  /\ s.step = "dequeue" /\ Quiet
  /\ LET c == issued[s.change]
         done == [id |-> c.id, kind |-> c.kind, change |-> c.change, seq |-> s.seq]
     IN  \E read \in Reads :
           mutex' = Append(mutex, [type |-> "delete", by |-> "other", change |-> 0,
                                   rows |-> Retired(read, done)])
  /\ saves' = saves \ {s}
  /\ UNCHANGED <<local, issued, acked, seqCounter, rows, flush, remote, faults>>

-----------------------------------------------------------------------------
(* The flush.  One at a time.                                               *)

FlushRows == UNION {u.rows : u \in flush.now}
FlushItems == {FlushItem(u) : u \in flush.now}

FlushRead ==
  /\ flush.step = "idle"
  /\ Pending(rows) # {}
  /\ flush' = [step |-> "batch", now |-> FlushUnits(rows), todo |-> {}]
  /\ UNCHANGED <<local, issued, acked, seqCounter, saves, rows, mutex, remote, faults>>

Sending == {"batch", "single", "rest"}

\* removeRows: read, then delete behind the mutex.
FlushSettle ==
  /\ flush.step = "settle" /\ Quiet
  /\ \E read \in Reads :
       mutex' = Append(mutex, [type |-> "delete", by |-> "flush", change |-> 0,
                               rows |-> Settled(read, FlushRows)])
  /\ flush' = [flush EXCEPT !.step = "settling"]
  /\ UNCHANGED <<local, issued, acked, seqCounter, saves, rows, remote, faults>>

FlushSucceeds ==
  /\ flush.step \in Sending
  /\ Deliver(FlushItems)
  /\ flush' = [flush EXCEPT !.step = "settle"]
  /\ UNCHANGED <<local, issued, acked, seqCounter, saves, rows, mutex, faults>>

\* Nothing changed the rows whose snapshot the flush is about to write back.
Untouched == "writeBack" \in Races \/ FlushRows \subseteq rows

WriteBack(news, next) ==
  /\ Quiet /\ Untouched
  /\ mutex' = Append(mutex, [type |-> "replace", by |-> "flush", change |-> 0, rows |-> news])
  /\ flush' = next
  /\ UNCHANGED <<local, issued, acked, seqCounter, saves, rows, faults>>

\* recordFailedAttempt overwrites the rows with what the flush read.  The
\* answer is lost, or nothing was applied.
FlushFails ==
  /\ flush.step \in Sending
  /\ \/ Deliver(FlushItems)
     \/ UNCHANGED remote
  /\ WriteBack(FlushRows, [flush EXCEPT !.step = "settling"])

\* (variant) dead letters are not marked.
DeadUnmarked(news) == news

Dead(news) == {[r EXCEPT !.dead = TRUE] : r \in news}

\* A permanent answer to the batch, unstructured: each unit is sent alone.
FlushIsolates ==
  /\ flush.step = "batch"
  /\ Unacceptable(FlushItems) # {}
  /\ \E u \in flush.now :
       flush' = [step |-> "single", now |-> {u}, todo |-> flush.now \ {u}]
  /\ UNCHANGED <<local, issued, acked, seqCounter, saves, rows, mutex, remote, faults>>

\* A permanent answer to a unit alone, or a structured one that names units or
\* the whole batch: they are dead-lettered, and the others sent once more.
FlushBuries ==
  /\ flush.step \in {"batch", "single"}
  /\ Unacceptable(FlushItems) # {}
  /\ \E buried \in {{u \in flush.now : FlushItem(u) \in Unacceptable(FlushItems)}, flush.now} :
       WriteBack(Dead(UNION {u.rows : u \in buried}),
         IF buried = flush.now THEN [flush EXCEPT !.step = "settling"]
         ELSE [step |-> "burying", now |-> flush.now \ buried, todo |-> {}])
  /\ UNCHANGED remote

\* retryDeadLetters: called when somebody thinks the server has changed its mind.
Revive ==
  /\ "retry" \in Races /\ Quiet
  /\ faults < MaxFaults /\ faults' = faults + 1
  /\ refused' \in {refused, {}}
  /\ rows # Pending(rows)
  /\ mutex' = Append(mutex, [type |-> "replace", by |-> "other", change |-> 0,
                rows |-> {[r EXCEPT !.dead = FALSE] : r \in rows \ Pending(rows)}])
  /\ UNCHANGED <<local, issued, acked, seqCounter, saves, rows, flush,
                 server, applied, withheld>>

-----------------------------------------------------------------------------
(* The queue's store answers the write at the head of the mutex.            *)

\* The flush goes on: with the next unit to isolate, the rest of a batch
\* whose poison is buried, or to its end.
FlushGoesOn ==
  CASE flush.step = "burying" -> {[flush EXCEPT !.step = "rest"]}
    [] flush.todo # {} ->
         {[step |-> "single", now |-> {u}, todo |-> flush.todo \ {u}] : u \in flush.todo}
    [] OTHER -> {Idle}

Owner(w) == {s \in saves : s.change = w.change /\ s.step = "recording"}

Write ==
  /\ mutex # <<>>
  /\ LET w == Head(mutex)
     IN  /\ rows' = IF w.type = "delete" THEN DeleteById(rows, w.rows)
                                         ELSE Upsert(rows, w.rows)
         /\ acked' = acked \cup {s.change : s \in Owner(w)}
         /\ saves' = (saves \ Owner(w)) \cup
              (IF Direct THEN {[s EXCEPT !.step = "posting"] : s \in Owner(w)} ELSE {})
         /\ flush' \in (IF w.by = "flush" THEN FlushGoesOn ELSE {flush})
  /\ mutex' = Tail(mutex)
  /\ UNCHANGED <<local, seqCounter, issued, remote, faults>>

\* The write fails.  A save fails with it; a flush that could not dequeue
\* records a failed attempt, one that could not bury leaves the units queued.
WriteFails ==
  /\ mutex # <<>> /\ Head(mutex).rows # {} /\ faults < MaxFaults
  /\ faults' = faults + 1
  /\ LET w == Head(mutex)
         unsettled == w.by = "flush" /\ w.type = "delete"
     IN  /\ saves' = saves \ Owner(w)
         /\ unsettled => Untouched
         /\ mutex' = IF unsettled
                       THEN Append(Tail(mutex), [type |-> "replace", by |-> "flush",
                                                 change |-> 0, rows |-> FlushRows])
                       ELSE Tail(mutex)
         /\ flush' \in (IF w.by = "flush" /\ ~unsettled
                          THEN IF flush.step = "burying" THEN {Idle} ELSE FlushGoesOn
                          ELSE {flush})
  /\ UNCHANGED <<local, issued, acked, seqCounter, rows, remote>>

\* The process ends and starts again: the two stores are durable.
Crash ==
  /\ faults < MaxFaults
  /\ faults' = faults + 1
  /\ saves' = {} /\ mutex' = <<>> /\ flush' = Idle
  /\ UNCHANGED <<local, issued, acked, seqCounter, rows, remote>>

-----------------------------------------------------------------------------
Next ==
  \/ \E i \in Ids, kind \in {"add", "update", "remove"} : Save(i, kind)
  \/ \E s \in saves : Record(s) \/ Dequeue(s)
  \/ \E group \in Groups : PostSucceeds(group) \/ PostUnheard(group) \/ PostFails(group)
  \/ FlushRead \/ FlushSucceeds \/ FlushSettle \/ FlushFails
  \/ FlushIsolates \/ FlushBuries
  \/ Revive
  \/ Write \/ WriteFails \/ Crash

\* The queue's promises settle, a POST of a save or a flush ends (its attempts are
\* counted and each has a timeout), the background timer keeps flushing, and a
\* server that keeps being asked keeps answering now and then.
Fairness ==
  /\ WF_vars(\E group \in Groups : PostSucceeds(group) \/ PostFails(group))
  /\ WF_vars(FlushSucceeds \/ FlushFails \/ FlushIsolates \/ FlushBuries)
  /\ WF_vars(\E s \in saves : Record(s) \/ Dequeue(s))
  /\ WF_vars(Write) /\ WF_vars(FlushRead) /\ WF_vars(FlushSettle)
  /\ SF_vars(FlushSucceeds) /\ SF_vars(FlushBuries)

Spec == Init /\ [][Next]_vars /\ Fairness
-----------------------------------------------------------------------------
(* Properties.                                                             *)

Fields == 0..MaxChanges

TypeOK ==
  /\ local \in [Ids -> SUBSET Fields] /\ server \in [Ids -> SUBSET Fields]
  /\ Len(issued) <= MaxChanges /\ acked \subseteq DOMAIN issued
  /\ \A s \in saves : /\ s.change \in DOMAIN issued
                      /\ s.step \in {"record", "recording", "posting", "dequeue"}
  /\ seqCounter \in Nat
  /\ \A r \in rows : r.id \in Ids /\ r.change \in DOMAIN issued /\ r.seq <= seqCounter
  /\ \A r, q \in rows : SameRow(r, q) => r = q
  /\ \A k \in DOMAIN mutex : mutex[k].type \in {"put", "delete", "replace"}
  /\ flush.step \in Sending \cup {"idle", "settle", "settling", "burying"}
  /\ faults \in 0..MaxFaults

\* What a queued row will still tell the server.
CarriedBy(r) == IF r.fields = {} THEN r.entity ELSE r.fields

\* The newest recorded intent is never dropped: an acknowledged change that no
\* later change of its entity supersedes has its own row, pending or dead, until
\* the server has applied it.
NewestIntentKept ==
  \A n \in acked :
    \/ n \in Seen
    \/ \E r \in rows : r.change = n
    \/ \E m \in DOMAIN issued : m > n /\ issued[m].id = issued[n].id

\* No acknowledged edit is silently lost: what is in a local entity and was
\* acknowledged is on the server, or a queued row still carries it.
EditsKept ==
  \A i \in Ids : \A n \in local[i] \cap acked :
    n \in server[i] \/ \E r \in rows : r.id = i /\ n \in CarriedBy(r)

\* An opId describes the bytes sent with it: what the server skips, because it
\* applied that opId before, carries nothing it did not apply then.
OpIdDescribesBytes == withheld = {}

AllAcked(i) == ChangesOf(i) \subseteq acked

NothingQueued(i) ==
  /\ AllAcked(i) /\ saves = {} /\ mutex = <<>> /\ flush = Idle
  /\ \A r \in rows : r.id # i

\* Nothing left to send means nothing left to say: once an entity has no row in
\* the queue, client and server hold the same.
SettledMeansEqual == \A i \in Ids : NothingQueued(i) => server[i] = local[i]

\* The server never loses an edit that the client still has.
ServerNeverRegresses ==
  [][\A i \in Ids : server[i] \cap local[i] \subseteq server'[i]]_vars

\* Poison never blocks the queue: whatever the server rejects, and whatever is
\* revived, the queue drains again and again.
QueueDrains == []<>(Pending(rows) = {})
=============================================================================
