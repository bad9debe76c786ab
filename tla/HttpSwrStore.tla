----------------------------- MODULE HttpSwrStore -----------------------------
(***************************************************************************)
(* The local store of plugins/replication/src/HttpSwrDbPlugin.ts and those *)
(* who write to it: the application's saves, the revalidation of a query   *)
(* answered from the store, the fetch of a query the store had no rows     *)
(* for, and the reconciliation of the rows a POST echoes.  All four go     *)
(* through storeMutex; what they bring was read before they had it.        *)
(*                                                                         *)
(* A change is delivered by the POST of its save (postOnPersist), by the   *)
(* flush, or by both.  A save settles its POSTs once all of them, for all  *)
(* its collections, are answered (Promise.allSettled): any time after one  *)
(* landed, so that many echoes are on their way, in any order.             *)
(*                                                                         *)
(* One collection.  Changes, made here or by another client, are numbered; *)
(* a row is the number of the change that wrote it and 0 is no row.  The   *)
(* unsynced queue is its newest row per entity: module HttpSwrWrites shows *)
(* that the queue keeps that change.  Freshness (cacheMetadata) only skips *)
(* work, so a query here is one that is found stale.                       *)
(*                                                                         *)
(* Races names the orders a run may admit:                                 *)
(*   "unrecorded"  a merge or an echo comes between a save's store write   *)
(*                 and its queue write,                                    *)
(*   "unread"      the queue's store fails the read of a merge or of the   *)
(*                 dequeuing of a save's POST.                             *)
(***************************************************************************)
EXTENDS FiniteSets, SequencesExt

CONSTANTS
  Ids,        \* entities
  MaxChanges, \* bound on changes, made here or there
  MaxMerges,  \* bound on revalidations and fetches under way at once
  Queries,    \* queries the application makes: "all" or "some" or both
  Matching,   \* the changes whose rows the filter of "some" selects
  Direct,     \* postOnPersist
  Echo,       \* translatePersistResponse is configured
  InsertOnly, \* the store refuses to add a row it has, as Dexie does
  Poison,     \* changes the server may refuse for good
  Races

ASSUME StoreAssumption ==
  /\ MaxChanges \in Nat /\ MaxMerges \in Nat
  /\ Queries \subseteq {"all", "some"} /\ Queries # {}
  /\ {Direct, Echo, InsertOnly} \subseteq BOOLEAN
  /\ Races \subseteq {"unrecorded", "unread"}

VARIABLES
  local,    \* [Ids -> row]: the rows of the swr store
  server,   \* [Ids -> the last change the server applied to the entity]
  made,     \* history: the changes, in order: [id, row, here]
  saves,    \* changes stored and not yet recorded as unsynced
  queued,   \* [Ids -> the unsynced change, or 0]
  flush,    \* the flush: step, changes on the wire, rows the server echoes
  posts,    \* the POSTs of the saves: step, change, rows the server echoes
  applied,  \* changes made here whose opIds the server remembers
  gets,     \* [Queries -> the shared GET: step and the rows it answers]
  waiting,  \* revalidations and fetches that wait for a GET
  mutex,    \* storeMutex: those who hold and await it, first come first
  exposed   \* history: changes that a merge or an echo on its way does not know of

vars == <<local, server, made, saves, queued, flush, posts, applied, gets, waiting, mutex, exposed>>

Seed == MaxChanges + 1
Rows == 0..Seed
Empty == [i \in Ids |-> 0]
Idle == [step |-> "idle", changes |-> {}, rows |-> Empty]
NoGet == [step |-> "none", rows |-> Empty]
EchoTurn(by, rows) == [query |-> by, kind |-> "echo", held |-> FALSE, rows |-> rows, kept |-> {}]

\* The rows of table that the candidate set of q selects.
Selected(q, table) ==
  [i \in Ids |-> IF q = "all" \/ table[i] \in Matching THEN table[i] ELSE 0]

\* What the server holds, as rows.
ServerTable ==
  [i \in Ids |-> IF server[i] \in DOMAIN made THEN made[server[i]].row ELSE server[i]]

Init ==
  /\ server \in [Ids -> {0, Seed}]
  /\ local \in {server, Empty}
  /\ made = <<>> /\ saves = {} /\ applied = {} /\ exposed = {}
  /\ queued = Empty /\ flush = Idle /\ posts = {}
  /\ gets = [q \in Queries |-> NoGet] /\ waiting = {} /\ mutex = <<>>

\* The revalidations and fetches under way, which missPacer shares: one per query
\* and kind.
Merges == waiting \cup {m \in Range(mutex) : m.kind # "echo"}

\* Nobody is between its read and its write; a save goes in front of those who
\* wait, who would have found its change had they come to wait later.
Unlocked == mutex # <<>> => ~Head(mutex).held

\* No save is between its store write and its queue write.
Recorded == saves # {} => "unrecorded" \in Races

\* Changes made here that the server has not confirmed.
Unsynced == saves \cup {queued[i] : i \in {j \in Ids : queued[j] # 0}}

Newest(n) == \A m \in DOMAIN made : made[m].here /\ made[m].id = made[n].id => m <= n

-----------------------------------------------------------------------------
(* Saves and their delivery.                                                *)

\* persistToSwrStore: an add, an update or a remove of entity i.
Save(i) ==
  /\ Len(made) < MaxChanges /\ Unlocked
  /\ \E row \in {Len(made) + 1} \cup (IF local[i] = 0 THEN {} ELSE {0}) :
       /\ local' = [local EXCEPT ![i] = row]
       /\ made' = Append(made, [id |-> i, row |-> row, here |-> TRUE])
  /\ saves' = saves \cup {Len(made) + 1}
  /\ UNCHANGED <<server, queued, flush, posts, applied, gets, waiting, mutex, exposed>>

\* addMany: the save's change is unsynced; now its caller is acknowledged, and its
\* POST begins.
Record ==
  /\ \E n \in saves :
       /\ \A m \in saves : n <= m
       /\ saves' = saves \ {n}
       /\ queued' = [queued EXCEPT ![made[n].id] = n]
       /\ posts' = IF Direct THEN posts \cup {[step |-> "asked", change |-> n, rows |-> Empty]}
                   ELSE posts
  /\ UNCHANGED <<local, server, made, flush, applied, gets, waiting, mutex, exposed>>

\* flushUnsynced read the queue and its POST landed, without the changes the
\* server refuses; replays are skipped.
FlushLands ==
  \E refused \in SUBSET (Poison \ applied) :
    LET sent == {queued[i] : i \in Ids} \ (refused \cup {0})
        now == [i \in Ids |-> IF queued[i] \in sent \ applied THEN queued[i] ELSE server[i]]
    IN  /\ flush.step = "idle" /\ sent # {}
        /\ server' = now
        /\ applied' = applied \cup sent
        /\ flush' = [step |-> "landed", changes |-> sent,
                     rows |-> [i \in Ids |-> IF queued[i] \in sent /\ now[i] \in DOMAIN made
                                               THEN made[now[i]].row ELSE 0]]
        /\ UNCHANGED <<local, made, saves, queued, posts, gets, waiting, mutex, exposed>>

\* Its answer is lost; the rows stay queued.
FlushUnheard ==
  /\ flush.step = "landed"
  /\ flush' = Idle
  /\ UNCHANGED <<local, server, made, saves, queued, posts, applied, gets, waiting, mutex, exposed>>

\* A save's POST lands, at once or tried again after its answer was lost; a replay is
\* skipped.
PostLands(p) ==
  LET n == p.change
      i == made[n].id
      now == IF n \in applied THEN server ELSE [server EXCEPT ![i] = n]
      row == IF now[i] \in DOMAIN made THEN made[now[i]].row ELSE 0
  IN  /\ server' = now
      /\ applied' = applied \cup {n}
      /\ posts' = (posts \ {p}) \cup
           {[step |-> "landed", change |-> n, rows |-> [Empty EXCEPT ![i] = row]]}
      /\ UNCHANGED <<local, made, saves, queued, flush, gets, waiting, mutex, exposed>>

\* The echoes that will be written: of deliveries that landed, and those waiting
\* for the lock.
EchoesOf(deliveries) ==
  IF Echo THEN {d.rows : d \in {e \in deliveries : e.step = "landed"}} \cup
               {m.rows : m \in {w \in Range(mutex) : w.kind = "echo"}}
  ELSE {}

\* removeRows, removeMany: a row is deleted if its revision has not changed.
Dequeue(changes, echoes) ==
  LET confirmed == {queued[i] : i \in Ids} \cap changes
  IN  /\ queued' = [i \in Ids |-> IF queued[i] \in confirmed THEN 0 ELSE queued[i]]
      /\ exposed' = exposed \cup
           {n \in confirmed : \/ Merges # {}
                             \/ \E rows \in echoes : rows[made[n].id] \notin {0, made[n].row}}

\* The flush's answer is heard; its rows are dequeued.
FlushSettles ==
  /\ flush.step = "landed"
  /\ Dequeue(flush.changes, EchoesOf(posts))
  /\ flush' = IF Echo THEN [Idle EXCEPT !.step = "settled"] ELSE Idle
  /\ mutex' = IF Echo THEN Append(mutex, EchoTurn("flush", flush.rows)) ELSE mutex
  /\ UNCHANGED <<local, server, made, saves, posts, applied, gets, waiting>>

\* All POSTs of the save are answered; its change is dequeued, if the queue can be
\* read.
PostSettles(p) ==
  /\ p.step = "landed"
  /\ \/ Dequeue({p.change}, EchoesOf((posts \ {p}) \cup {flush}))
     \/ "unread" \in Races /\ UNCHANGED <<queued, exposed>>
  /\ posts' = posts \ {p}
  /\ mutex' = IF Echo THEN Append(mutex, EchoTurn("post", p.rows)) ELSE mutex
  /\ UNCHANGED <<local, server, made, saves, flush, applied, gets, waiting>>

\* reconcilePersistResponse: the echoed rows go over whatever the store has.
Reconcile ==
  LET turn == Head(mutex)
      echoed == {i \in Ids : turn.rows[i] # 0}
  IN  /\ mutex # <<>> /\ turn.kind = "echo" /\ Recorded
      /\ local' = [i \in Ids |-> IF i \in echoed THEN turn.rows[i] ELSE local[i]]
      /\ exposed' = exposed \cup {n \in Unsynced : made[n].id \in echoed}
      /\ flush' = IF turn.query = "flush" THEN Idle ELSE flush
      /\ mutex' = Tail(mutex)
      /\ UNCHANGED <<server, made, saves, queued, posts, applied, gets, waiting>>

\* A change the server refuses is dead-lettered: it is unsynced no more, and no POST
\* of it lands.
Bury(i) ==
  /\ flush.step = "idle" /\ queued[i] \in Poison \ applied
  /\ queued' = [queued EXCEPT ![i] = 0]
  /\ posts' = {p \in posts : p.change # queued[i]}
  /\ UNCHANGED <<local, server, made, saves, flush, applied, gets, waiting, mutex, exposed>>

-----------------------------------------------------------------------------
(* The server, as other clients and GETs see it.                            *)

WriteElsewhere(i) ==
  /\ Len(made) < MaxChanges
  /\ \E row \in {Len(made) + 1, 0} :
       /\ row = 0 => ServerTable[i] # 0
       /\ made' = Append(made, [id |-> i, row |-> row, here |-> FALSE])
  /\ server' = [server EXCEPT ![i] = Len(made) + 1]
  /\ UNCHANGED <<local, saves, queued, flush, posts, applied, gets, waiting, mutex, exposed>>

\* The server answers the GET; the client has yet to hear it.
Answer(q) ==
  /\ gets[q].step = "asked"
  /\ gets' = [gets EXCEPT ![q] = [step |-> "answered", rows |-> Selected(q, ServerTable)]]
  /\ UNCHANGED <<local, server, made, saves, queued, flush, posts, applied, waiting, mutex, exposed>>

-----------------------------------------------------------------------------
(* Queries.                                                                 *)

\* queryAsync: no rows is a cache miss; rows are revalidated against what the
\* caller was given.  One of each runs per query, over one shared GET.
Ask(q) ==
  LET cached == Selected(q, local)
      kind == IF cached = Empty THEN "miss" ELSE "revalidate"
  IN  /\ Cardinality(Merges) < MaxMerges
      /\ \A m \in Merges : ~(m.query = q /\ m.kind = kind)
      /\ waiting' = waiting \cup
           {[query |-> q, kind |-> kind, held |-> FALSE, rows |-> cached, kept |-> {}]}
      /\ gets' = IF gets[q].step = "none"
                   THEN [gets EXCEPT ![q] = [step |-> "asked", rows |-> Empty]] ELSE gets
      /\ UNCHANGED <<local, server, made, saves, queued, flush, posts, applied, mutex, exposed>>

\* (variant) the answered call stays shared.
AfterUncleared(get) == get

\* RequestPacer.share forgets a call that is answered.
After(get) == NoGet

Waiting(q) == {m \in waiting : m.query = q}

\* The GET's rows reach those waiting; a revalidation that finds them equal to
\* what its caller was given is done.
Arrive(q) ==
  LET differing == {m \in Waiting(q) : m.kind = "revalidate" => m.rows # gets[q].rows}
  IN  /\ gets[q].step = "answered"
      /\ \E order \in SetToSeqs(differing) :
           mutex' = mutex \o [n \in DOMAIN order |-> [order[n] EXCEPT !.rows = gets[q].rows]]
      /\ waiting' = waiting \ Waiting(q)
      /\ gets' = [gets EXCEPT ![q] = After(gets[q])]
      /\ UNCHANGED <<local, server, made, saves, queued, flush, posts, applied, exposed>>

\* The GET fails, answered or not: callers of a miss are answered from the store
\* as it is.
GetFails(q) ==
  /\ gets[q].step = "answered"
  /\ waiting' = waiting \ Waiting(q)
  /\ gets' = [gets EXCEPT ![q] = After(gets[q])]
  /\ UNCHANGED <<local, server, made, saves, queued, flush, posts, applied, mutex, exposed>>

\* The entities getUnsyncedIdKeys may answer; a failed read answers none.
UnsyncedKeys ==
  {{i \in Ids : queued[i] # 0}} \cup (IF "unread" \in Races THEN {{}} ELSE {})

\* persistToStore, persistOnCacheMiss: the lock is taken, the store and then the
\* queue are read.
Classify ==
  /\ mutex # <<>> /\ Head(mutex).kind # "echo" /\ Unlocked /\ Recorded
  /\ \E keys \in UnsyncedKeys :
       /\ mutex' = [mutex EXCEPT ![1].held = TRUE, ![1].kept = keys]
       /\ exposed' = exposed \cup {n \in Unsynced : made[n].id \notin keys}
  /\ UNCHANGED <<local, server, made, saves, queued, flush, posts, applied, gets, waiting>>

\* (variant) only additions are held back for an unsynced change.
MergedShieldingAdds(m, existing) ==
  [i \in Ids |->
     IF m.rows[i] # 0
       THEN IF existing[i] = 0 /\ i \in m.kept THEN local[i] ELSE m.rows[i]
       ELSE IF existing[i] # 0 /\ i \notin m.kept THEN 0 ELSE local[i]]

\* classifyRevalidateChanges: an entity with an unsynced change is left alone;
\* other rows of the answer are added or updated, and existing rows it lacks
\* are removed.
Merged(m, existing) ==
  [i \in Ids |->
     IF i \in m.kept THEN local[i]
     ELSE IF m.rows[i] # 0 THEN m.rows[i]
     ELSE IF existing[i] # 0 THEN 0 ELSE local[i]]

\* (variant) a revalidation takes the store for empty, as a cache miss does.
ExistingNone(m) == Empty

\* The rows the merge found, which the lock keeps: a miss reads none.
Existing(m) == IF m.kind = "miss" THEN Empty ELSE Selected(m.query, local)

\* applyRevalidatePersist: all of it or, when the store refuses an add, nothing.
Merge ==
  LET m == Head(mutex)
      existing == Existing(m)
      refused == InsertOnly /\ \E i \in Ids \ m.kept :
                   m.rows[i] # 0 /\ existing[i] = 0 /\ local[i] # 0
  IN  /\ ~Unlocked
      /\ local' = IF refused THEN local ELSE Merged(m, existing)
      /\ mutex' = Tail(mutex)
      /\ UNCHANGED <<server, made, saves, queued, flush, posts, applied, gets, waiting, exposed>>

-----------------------------------------------------------------------------
Next ==
  \/ \E i \in Ids : Save(i) \/ Bury(i) \/ WriteElsewhere(i)
  \/ Record \/ FlushLands \/ FlushUnheard \/ FlushSettles \/ Reconcile
  \/ \E p \in posts : PostLands(p) \/ PostSettles(p)
  \/ \E q \in Queries : Ask(q) \/ Answer(q) \/ Arrive(q) \/ GetFails(q)
  \/ Classify \/ Merge

\* The client's own steps are taken; of the POSTs and GETs made again and again
\* some are heard; the application asks its queries again and again.  Nothing is
\* asked of the POSTs of saves: the flush delivers what they do not.
Fairness ==
  /\ WF_vars(Record) /\ WF_vars(FlushLands) /\ SF_vars(FlushSettles)
  /\ WF_vars(Reconcile) /\ WF_vars(Classify) /\ WF_vars(Merge)
  /\ \A q \in Queries : SF_vars(Ask(q)) /\ WF_vars(Answer(q)) /\ SF_vars(Arrive(q))

Spec == Init /\ [][Next]_vars
FairSpec == Spec /\ Fairness

-----------------------------------------------------------------------------
(* Properties.                                                              *)

\* Every variable has its type, storeMutex has at most one holder, and nobody but the
\* POSTs of several saves awaits it twice.
TypeOK ==
  /\ local \in [Ids -> Rows] /\ server \in [Ids -> Rows]
  /\ made \in Seq([id : Ids, row : Rows, here : BOOLEAN]) /\ Len(made) <= MaxChanges
  /\ saves \cup applied \cup exposed \subseteq DOMAIN made
  /\ queued \in [Ids -> {0} \cup DOMAIN made]
  /\ flush \in [step : {"idle", "landed", "settled"}, changes : SUBSET DOMAIN made,
                rows : [Ids -> Rows]]
  /\ posts \subseteq [step : {"asked", "landed"}, change : DOMAIN made, rows : [Ids -> Rows]]
  /\ gets \in [Queries -> [step : {"none", "asked", "answered"}, rows : [Ids -> Rows]]]
  /\ Merges \subseteq [query : Queries, kind : {"miss", "revalidate"}, held : BOOLEAN,
                       rows : [Ids -> Rows], kept : SUBSET Ids]
  /\ \A a, b \in DOMAIN mutex :
       mutex[a].query = mutex[b].query /\ mutex[a].kind = mutex[b].kind
         => a = b \/ mutex[a].query = "post"
  /\ mutex # <<>> => \A m \in Range(Tail(mutex)) \cup waiting : ~m.held

\* "Local unsynced changes are authoritative until the remote confirms them"
\* (HttpSwrDbPlugin.ts:911): the store shows the application's newest change of
\* an entity for as long as it is unsynced.
UnsyncedStaysLocal ==
  \A n \in Unsynced : Newest(n) => local[made[n].id] = made[n].row

\* The same of every change but those that an echo overwrote or that a merge
\* could not see in the queue: these two orders are the only ways in which
\* stale answers, misses and revalidations hide an unsynced change.
UnsyncedShielded ==
  \A n \in Unsynced \ exposed : Newest(n) => local[made[n].id] = made[n].row

\* Once confirmed, a change stays in the store while the server holds it and
\* nobody changes the entity here: no merge and no echo undoes it, unless, when it was
\* confirmed, a GET was out (whose answer may be older) or the echo of another POST
\* with another row of the entity was on its way.
ConfirmedStaysLocal ==
  \A n \in applied \ (Unsynced \cup exposed) :
    Newest(n) /\ server[made[n].id] = n => local[made[n].id] = made[n].row

\* Whatever was stored, echoed, merged late or refused on the way, in the end
\* each query the application keeps asking is answered with the server's rows.
EventuallyFresh ==
  <>[](\A q \in Queries : Selected(q, local) = Selected(q, ServerTable))
=============================================================================
