-------------------------- MODULE HttpSwrStoreProofs --------------------------
(***************************************************************************)
(* Proofs about HttpSwrStore, for any entities, queries, filters and       *)
(* bounds, with echoes or without, with POSTs of saves or without, and for *)
(* every admitted race: no merge hides an unsynced change it could see in  *)
(* the queue, and no merge or echo undoes a confirmed change unless, when  *)
(* it was confirmed, a GET was out or another echo of its entity was on    *)
(* its way.                                                                *)
(*                                                                         *)
(* Both rest on what the lock keeps apart (Held: whoever holds it knows    *)
(* the unsynced changes it found) and on the order in which the changes of *)
(* an entity become unsynced and settle (Ours): an entity's newest change  *)
(* is unsynced as long as any other change of the entity is.  The second   *)
(* also needs what is still on its way to the store: rows of GETs, rows    *)
(* that wait for the lock and rows to be echoed, by the flush and by the   *)
(* POSTs of saves in any order (Showing, Posted, Delivered, Echoed).       *)
(*                                                                         *)
(* The last part is about FlushScheduler, for any callers and any number   *)
(* of flushes: two flushes overlap only where a caller jumped the          *)
(* follow-up, and whoever asks is answered by a flush that began           *)
(* afterwards.  Both rest on one fact: there is one of each.  A caller     *)
(* awaits in one place, a job or the follow-up, and at most one job is     *)
(* about to start the follow-up.  So what a job awaits or starts is a      *)
(* token, and no token is held twice (Exclusion).  Then no job is left     *)
(* that awaits a caller who asks again, and while the job of the follow-up *)
(* is under way nobody starts a flush but by jumping: when it runs, the    *)
(* flush it was to follow has settled and no other has begun.              *)
(***************************************************************************)
EXTENDS HttpSwrStore, FlushScheduler, FiniteSetTheorems, SequenceTheorems, TLAPS

Change == [id : Ids, row : Rows, here : BOOLEAN]
Table == [Ids -> Rows]
Merging == [query : Queries, kind : {"miss", "revalidate"}, held : BOOLEAN, rows : Table,
            kept : SUBSET Ids]

EchoTurns == [query : {"flush", "post"}, kind : {"echo"}, held : {FALSE}, rows : Table,
              kept : {{}}]

\* Change n is unsynced: stored and not recorded yet, or queued.
Out(n) == n \in saves \/ queued[made[n].id] = n

\* What a query's GET or merge holds of a row.
Of(q, row) == IF q = "all" \/ row \in Matching THEN row ELSE 0

Shapes ==
  /\ local \in Table /\ server \in Table
  /\ made \in Seq(Change) /\ Len(made) <= MaxChanges
  /\ saves \subseteq DOMAIN made /\ applied \subseteq DOMAIN made /\ exposed \subseteq DOMAIN made
  /\ queued \in [Ids -> {0} \cup DOMAIN made]
  /\ flush \in [step : {"idle", "landed", "settled"}, changes : SUBSET DOMAIN made, rows : Table]
  /\ posts \subseteq [step : {"asked", "landed"}, change : DOMAIN made, rows : Table]
  /\ gets \in [Queries -> [step : {"none", "asked", "answered"}, rows : Table]]
  /\ waiting \subseteq Merging /\ IsFiniteSet(waiting)
  /\ mutex \in Seq(Merging \cup EchoTurns)

Same(v, w) == v.query = w.query /\ v.kind = w.kind

\* The turns at the lock: each but the echo of a save's POST comes once, the first alone
\* may hold it, and the flush's echo comes of a flush that has settled.  A GET under way
\* is awaited.
Turns ==
  /\ \A a, b \in DOMAIN mutex : Same(mutex[a], mutex[b]) => a = b \/ mutex[a].query = "post"
  /\ \A v, w \in waiting : Same(v, w) => v = w
  /\ \A w \in waiting : ~w.held /\ \A a \in DOMAIN mutex : ~Same(w, mutex[a])
  /\ \A a \in DOMAIN mutex : /\ mutex[a].held => a = 1
                             /\ mutex[a].kind = "echo" => Echo
                             /\ mutex[a].query = "flush" => flush.step = "settled"
  /\ \A q \in Queries : gets[q].step # "none" => \E w \in waiting : w.query = q

\* Changes made here become unsynced and settle in their order: one that is settled is
\* older than every unsynced one of its entity, a queued one than every stored one.
Ours ==
  /\ \A n \in saves \cup applied : made[n].here
  /\ \A i \in Ids : queued[i] # 0 => /\ made[queued[i]].here /\ made[queued[i]].id = i
                                     /\ \A m \in saves : made[m].id = i => queued[i] < m
  /\ \A n, m \in DOMAIN made : made[n].here /\ ~Out(n) /\ Out(m) /\ made[m].id = made[n].id
                                 => n < m
  /\ flush.changes \subseteq applied

\* The store shows the newest unsynced change of an entity.
Shielded ==
  \A n \in DOMAIN made : Out(n) /\ n \notin exposed /\ Newest(n) => local[made[n].id] = made[n].row

\* Whoever holds the lock keeps the entities of the unsynced changes.
Held ==
  mutex # <<>> /\ mutex[1].held =>
    \A n \in DOMAIN made : Out(n) /\ n \notin exposed => made[n].id \in mutex[1].kept

\* A confirmed change that the server still has is what the store shows, and what GETs
\* and merges bring.
Settled(n) ==
  /\ n \in applied /\ ~Out(n) /\ n \notin exposed
  /\ Newest(n) /\ server[made[n].id] = n

Showing ==
  \A n \in DOMAIN made : Settled(n) =>
    LET i == made[n].id
    IN  /\ local[i] = made[n].row
        /\ \A q \in Queries : gets[q].step = "answered" => gets[q].rows[i] = Of(q, made[n].row)
        /\ \A a \in DOMAIN mutex :
             mutex[a].kind # "echo" => mutex[a].rows[i] = Of(mutex[a].query, made[n].row)

\* The rows, of an echo, do not undo change n.
Fresh(n, rows) == rows[made[n].id] \in {0, made[n].row}

\* The POST of a save's change: until the change is applied, it is unsynced or is not the
\* newest of its entity.
Posted ==
  \A p \in posts : /\ made[p.change].here
                   /\ p.step = "landed" => p.change \in applied
                   /\ p.change \in applied \/ Out(p.change) \/ ~Newest(p.change)

\* What a POST echoes of a change it delivered is that change, while the server has it.
Delivered ==
  \A n \in DOMAIN made : Newest(n) /\ server[made[n].id] = n =>
    /\ n \in flush.changes => Fresh(n, flush.rows)
    /\ \A p \in posts : p.step = "landed" /\ p.change = n => Fresh(n, p.rows)

\* No echo that is on its way undoes a confirmed change that the server still has.
Echoed ==
  Echo => \A n \in DOMAIN made : Settled(n) =>
    /\ flush.step = "landed" => Fresh(n, flush.rows)
    /\ \A p \in posts : p.step = "landed" => Fresh(n, p.rows)
    /\ \A a \in DOMAIN mutex : mutex[a].kind = "echo" => Fresh(n, mutex[a].rows)

IInv == /\ Shapes /\ Turns /\ Ours /\ Shielded /\ Held /\ Showing
        /\ Posted /\ Delivered /\ Echoed

-----------------------------------------------------------------------------
(* The changes, and those that are unsynced.                                *)

LEMMA Numbers ==
  ASSUME Shapes
  PROVE  /\ Len(made) \in Nat /\ DOMAIN made = 1..Len(made) /\ Rows = 0..(MaxChanges + 1)
         /\ MaxChanges \in Nat /\ 0 \notin DOMAIN made /\ Seed \notin DOMAIN made
         /\ \A n \in DOMAIN made : n \in Nat /\ n \in Rows /\ made[n] \in Change
BY StoreAssumption DEF Shapes, Rows, Seed

LEMMA EmptyTable == Empty \in Table
BY StoreAssumption DEF Empty, Table, Rows, Seed

LEMMA UnsyncedOut == Shapes /\ Ours => Unsynced = {n \in DOMAIN made : Out(n)}
<1> SUFFICES ASSUME Shapes, Ours PROVE Unsynced = {n \in DOMAIN made : Out(n)}
  OBVIOUS
<1>1. ASSUME NEW n \in Unsynced PROVE n \in DOMAIN made /\ Out(n)
  <2>1. n \in saves \/ \E i \in Ids : queued[i] = n /\ queued[i] # 0
    BY DEF Unsynced
  <2> QED
    BY <2>1 DEF Shapes, Ours, Out
<1>2. ASSUME NEW n \in DOMAIN made, Out(n) PROVE n \in Unsynced
  <2>1. n # 0 /\ made[n].id \in Ids
    BY Numbers DEF Change
  <2> QED
    BY <1>2, <2>1 DEF Out, Unsynced
<1> QED
  BY <1>1, <1>2

LEMMA UnsyncedOutNext == (Shapes /\ Ours)' => (Unsynced = {n \in DOMAIN made : Out(n)})'
BY UnsyncedOut, PTL

\* What a step that makes a change leaves of the others.
LEMMA MadeGrows ==
  ASSUME Shapes, NEW c \in Change, made' = Append(made, c)
  PROVE  /\ made' \in Seq(Change) /\ Len(made') = Len(made) + 1
         /\ DOMAIN made' = DOMAIN made \cup {Len(made) + 1}
         /\ made'[Len(made) + 1] = c
         /\ Len(made) + 1 \notin DOMAIN made
         /\ \A n \in DOMAIN made : made'[n] = made[n] /\ n < Len(made) + 1
<1>1. made \in Seq(Change)
  BY DEF Shapes
<1>2. /\ made' \in Seq(Change) /\ Len(made') = Len(made) + 1
      /\ \A n \in 1..Len(made) : made'[n] = made[n]
      /\ made'[Len(made) + 1] = c
  BY <1>1, AppendProperties
<1>3. DOMAIN made' = 1..(Len(made) + 1)
  BY <1>2, LenProperties
<1>4. Len(made) \in Nat /\ DOMAIN made = 1..Len(made)
  BY Numbers
<1> HIDE DEF Change
<1>5. 1..(Len(made) + 1) = 1..Len(made) \cup {Len(made) + 1}
  BY <1>4
<1> QED
  BY <1>2, <1>3, <1>4, <1>5

-----------------------------------------------------------------------------
(* The lock.                                                                *)

\* The first turn is over.
LEMMA TurnOver ==
  ASSUME Shapes, Turns, mutex # <<>>, mutex' = Tail(mutex)
  PROVE  /\ mutex' \in Seq(Merging \cup EchoTurns)
         /\ \A a \in DOMAIN mutex' : a + 1 \in DOMAIN mutex /\ a + 1 # 1 /\ mutex'[a] = mutex[a + 1]
         /\ \A a, b \in DOMAIN mutex' : a + 1 = b + 1 => a = b
<1>1. mutex \in Seq(Merging \cup EchoTurns) /\ Len(mutex) \in Nat /\ Len(mutex) # 0
  BY DEF Shapes
<1>2. /\ mutex' \in Seq(Merging \cup EchoTurns) /\ Len(mutex') = Len(mutex) - 1
      /\ \A a \in 1..Len(mutex') : mutex'[a] = mutex[a + 1]
  BY <1>1, HeadTailProperties
<1>3. DOMAIN mutex' = 1..Len(mutex') /\ DOMAIN mutex = 1..Len(mutex)
  BY <1>1, <1>2, LenProperties
<1>4. \A a \in 1..(Len(mutex) - 1) : a + 1 \in 1..Len(mutex) /\ a + 1 # 1
  BY <1>1
<1>5. \A a, b \in 1..(Len(mutex) - 1) : a + 1 = b + 1 => a = b
  OBVIOUS
<1> QED
  BY <1>2, <1>3, <1>4, <1>5

LEMMA FirstTurn ==
  ASSUME Shapes, mutex # <<>>
  PROVE  1 \in DOMAIN mutex /\ Head(mutex) = mutex[1] /\ mutex[1] \in Merging \cup EchoTurns
BY DEF Shapes

-----------------------------------------------------------------------------
(* Saves and their delivery.                                                *)

LEMMA SaveKeeps ==
  ASSUME IInv, NEW i \in Ids, Save(i)
  PROVE  IInv'
<1>0. PICK N : N = Len(made) + 1
  OBVIOUS
<1>1. /\ Shapes /\ Turns /\ Ours /\ Shielded /\ Held /\ Showing
      /\ Posted /\ Delivered /\ Echoed
  BY DEF IInv
<1>2. PICK row \in {N} \cup (IF local[i] = 0 THEN {} ELSE {0}) :
        /\ local' = [local EXCEPT ![i] = row]
        /\ made' = Append(made, [id |-> i, row |-> row, here |-> TRUE])
  BY <1>0 DEF Save
<1>3. /\ Len(made) < MaxChanges /\ Unlocked /\ saves' = saves \cup {N}
      /\ UNCHANGED <<server, queued, flush, posts, applied, gets, waiting, mutex, exposed>>
  BY <1>0 DEF Save
<1> DEFINE c == [id |-> i, row |-> row, here |-> TRUE]
<1>4. N \in Rows /\ row \in Rows /\ c \in Change
  BY <1>1, <1>2, <1>3, <1>0, Numbers DEF Change
<1>5. /\ made' \in Seq(Change) /\ Len(made') = N /\ DOMAIN made' = DOMAIN made \cup {N}
      /\ made'[N] = c /\ N \notin DOMAIN made
      /\ \A n \in DOMAIN made : made'[n] = made[n] /\ n < N
  BY <1>1, <1>2, <1>4, <1>0, MadeGrows
<1>15. N <= MaxChanges
  BY <1>1, <1>3, <1>0, Numbers
<1> HIDE DEF c
<1>6. /\ \A n \in DOMAIN made : Out(n)' <=> Out(n)
      /\ Out(N)'
  BY <1>3, <1>5 DEF Out
<1>7. \A n \in DOMAIN made : Newest(n)' => Newest(n) /\ made[n].id # i
  <2>2. N \in Nat
    BY <1>1, <1>0, Numbers
  <2> SUFFICES ASSUME NEW n \in DOMAIN made, Newest(n)' PROVE Newest(n) /\ made[n].id # i
    OBVIOUS
  <2>1. n \in Nat /\ N \in Nat /\ n < N
    BY <1>1, <1>5, <2>2, Numbers
  <2> QED
    BY <1>5, <2>1 DEF Newest, c
<1>8. Shapes'
  <2>1. local' \in Table
    BY <1>1, <1>2, <1>4 DEF Shapes, Table
  <2>2. DOMAIN made \subseteq DOMAIN made'
    BY <1>5
  <2>3. queued \in [Ids -> {0} \cup DOMAIN made']
    BY <1>1, <2>2 DEF Shapes
  <2>4. flush \in [step : {"idle", "landed", "settled"}, changes : SUBSET DOMAIN made',
                  rows : Table]
    BY <1>1, <2>2 DEF Shapes
  <2>5. posts \subseteq [step : {"asked", "landed"}, change : DOMAIN made', rows : Table]
    BY <1>1, <2>2 DEF Shapes
  <2> QED
    BY <1>1, <1>3, <1>5, <1>15, <2>1, <2>2, <2>3, <2>4, <2>5 DEF Shapes
<1>9. Turns'
  BY <1>1, <1>3 DEF Turns
<1>10. Ours'
  <2>1. /\ \A n \in saves' \cup applied' : made'[n].here
        /\ flush'.changes \subseteq applied'
    BY <1>1, <1>3, <1>5 DEF Ours, Shapes, c
  <2>2. \A j \in Ids : queued[j] # 0 =>
          /\ made'[queued[j]].here /\ made'[queued[j]].id = j
          /\ \A m \in saves' : made'[m].id = j => queued[j] < m
    BY <1>1, <1>3, <1>5 DEF Ours, Shapes
  <2>3. \A n, m \in DOMAIN made' :
          made'[n].here /\ ~Out(n)' /\ Out(m)' /\ made'[m].id = made'[n].id => n < m
    BY <1>1, <1>5, <1>6 DEF Ours
  <2> QED
    BY <1>3, <2>1, <2>2, <2>3 DEF Ours
<1>11. Shielded'
  BY <1>1, <1>2, <1>3, <1>4, <1>5, <1>6, <1>7 DEF Shielded, Shapes, Table, Change, c
<1>12. Held'
  BY <1>1, <1>3, FirstTurn DEF Held, Unlocked
<1>13. Showing'
  BY <1>1, <1>2, <1>3, <1>4, <1>5, <1>6, <1>7 DEF Showing, Settled, Shapes, Table, Change
<1>14. Posted' /\ Delivered' /\ Echoed'
  <2>1. flush.changes \subseteq DOMAIN made /\ \A p \in posts : p.change \in DOMAIN made
    BY <1>1 DEF Shapes
  <2>2. \A n \in DOMAIN made' : Settled(n)' => n \in DOMAIN made /\ Settled(n)
    BY <1>1, <1>3, <1>5, <1>6, <1>7 DEF Settled, Shapes
  <2>3. Posted'
    BY <1>1, <1>3, <1>5, <1>6, <1>7, <2>1 DEF Posted
  <2>4. Delivered'
    BY <1>1, <1>3, <1>5, <1>7, <2>1 DEF Delivered, Fresh
  <2>5. Echoed'
    BY <1>1, <1>3, <1>5, <2>2 DEF Echoed, Fresh
  <2> QED
    BY <2>3, <2>4, <2>5
<1> QED
  BY <1>8, <1>9, <1>10, <1>11, <1>12, <1>13, <1>14 DEF IInv

\* The oldest stored change is recorded; it replaces older ones, which are not the
\* newest of its entity.
LEMMA RecordKeeps ==
  ASSUME IInv, Record
  PROVE  IInv'
<1>1. /\ Shapes /\ Turns /\ Ours /\ Shielded /\ Held /\ Showing
      /\ Posted /\ Delivered /\ Echoed
  BY DEF IInv
<1>2. PICK n \in saves :
        /\ \A m \in saves : n <= m
        /\ saves' = saves \ {n}
        /\ queued' = [queued EXCEPT ![made[n].id] = n]
        /\ posts' = IF Direct THEN posts \cup {[step |-> "asked", change |-> n, rows |-> Empty]}
                    ELSE posts
  BY DEF Record
<1>3. UNCHANGED <<local, server, made, flush, applied, gets, waiting, mutex, exposed>>
  BY DEF Record
<1>4. n \in DOMAIN made /\ made[n].id \in Ids /\ made[n].here /\ n \in Nat /\ n # 0
  BY <1>1, Numbers DEF Shapes, Ours, Change
<1> DEFINE old == queued[made[n].id]
<1>5. /\ old = 0 \/ old \in DOMAIN made
      /\ old # 0 => old < n /\ made[old].here /\ made[old].id = made[n].id
  BY <1>1, <1>4 DEF Shapes, Ours
<1>6. Out(n) /\ Out(n)'
  BY <1>1, <1>2, <1>3, <1>4 DEF Out, Shapes
<1>7. \A m \in DOMAIN made : m # old => (Out(m)' <=> Out(m))
  BY <1>1, <1>2, <1>3, <1>4, <1>6 DEF Out, Shapes
<1>8. old # 0 => Out(old) /\ ~Newest(old)
  BY <1>1, <1>4, <1>5, Numbers DEF Newest, Out
<1>9. \A m \in DOMAIN made : Newest(m)' <=> Newest(m)
  BY <1>3 DEF Newest
<1> HIDE DEF old
<1>10. /\ \A m \in DOMAIN made : Out(m)' => Out(m)
       /\ \A m \in DOMAIN made : Newest(m) => (Out(m)' <=> Out(m))
  BY <1>1, <1>7, <1>8, Numbers
<1>16. /\ posts' \subseteq [step : {"asked", "landed"}, change : DOMAIN made, rows : Table]
       /\ \A p \in posts' : p \in posts \/ (p.step = "asked" /\ p.change = n)
  <2> DEFINE post == [step |-> "asked", change |-> n, rows |-> Empty]
  <2>1. /\ post \in [step : {"asked", "landed"}, change : DOMAIN made, rows : Table]
        /\ post.step = "asked" /\ post.change = n
    BY <1>4, EmptyTable
  <2>2. posts' = posts \/ posts' = posts \cup {post}
    BY <1>2
  <2>3. posts \subseteq [step : {"asked", "landed"}, change : DOMAIN made, rows : Table]
    BY <1>1 DEF Shapes
  <2> HIDE DEF post
  <2> QED
    BY <2>1, <2>2, <2>3
<1>11. Shapes'
  BY <1>1, <1>2, <1>3, <1>4, <1>16 DEF Shapes
<1>12. Turns'
  BY <1>1, <1>3 DEF Turns
<1>13. Shielded' /\ Held'
  BY <1>1, <1>3, <1>9, <1>10 DEF Shielded, Held
<1>14. Showing' /\ Delivered' /\ Echoed'
  <2>1. Showing'
    BY <1>1, <1>3, <1>9, <1>10 DEF Showing, Settled
  <2>2. Delivered'
    BY <1>1, <1>3, <1>9, <1>16 DEF Delivered, Fresh
  <2>3. \A m \in DOMAIN made : Settled(m)' => Settled(m)
    BY <1>3, <1>9, <1>10 DEF Settled
  <2>4. Echoed'
    BY <1>1, <1>3, <1>16, <2>3 DEF Echoed, Fresh
  <2> QED
    BY <2>1, <2>2, <2>4
<1>17. Posted'
  <2>1. \A p \in posts' : p.change \in DOMAIN made
    BY <1>16
  <2> QED
    BY <1>1, <1>3, <1>4, <1>6, <1>9, <1>10, <1>16, <2>1 DEF Posted
<1>15. Ours'
  <2>1. ASSUME NEW i \in Ids, queued'[i] # 0
        PROVE  /\ made[queued'[i]].here /\ made[queued'[i]].id = i
               /\ \A m \in saves' : made[m].id = i => queued'[i] < m
    <3>1. \A m \in saves' : m \in saves /\ m # n /\ n <= m /\ m \in Nat
      BY <1>1, <1>2, Numbers DEF Shapes
    <3>2. CASE i = made[n].id
      BY <1>1, <1>2, <1>4, <3>1, <3>2 DEF Shapes
    <3>3. CASE i # made[n].id
      BY <1>1, <1>2, <2>1, <3>1, <3>3 DEF Shapes, Ours
    <3> QED
      BY <3>2, <3>3
  <2>2. ASSUME NEW k \in DOMAIN made, NEW m \in DOMAIN made, made[k].here, ~Out(k)', Out(m)',
               made[m].id = made[k].id
        PROVE  k < m
    <3>1. CASE k = old
      <4>1. m # old /\ Out(m)
        BY <1>10, <2>2, <3>1
      <4>2. m \in saves \/ queued[made[m].id] = m
        BY <4>1 DEF Out
      <4> QED
        BY <1>1, <1>4, <1>5, <2>2, <3>1, <4>1, <4>2, Numbers DEF Ours, old
    <3>2. CASE k # old
      BY <1>1, <1>7, <1>10, <2>2, <3>2 DEF Ours
    <3> QED
      BY <3>1, <3>2
  <2> QED
    BY <1>1, <1>2, <1>3, <2>1, <2>2 DEF Ours
<1> QED
  BY <1>11, <1>12, <1>13, <1>14, <1>15, <1>17 DEF IInv

\* What the flush takes is unsynced; its entities' rows are written by it alone.
LEMMA FlushLandsKeeps ==
  ASSUME IInv, FlushLands
  PROVE  IInv'
<1>1. /\ Shapes /\ Turns /\ Ours /\ Shielded /\ Held /\ Showing
      /\ Posted /\ Delivered /\ Echoed
  BY DEF IInv
<1>2. PICK refused \in SUBSET (Poison \ applied) :
        LET sent == {queued[i] : i \in Ids} \ (refused \cup {0})
            now == [i \in Ids |-> IF queued[i] \in sent \ applied THEN queued[i] ELSE server[i]]
        IN  /\ flush.step = "idle" /\ sent # {}
            /\ server' = now
            /\ applied' = applied \cup sent
            /\ flush' = [step |-> "landed", changes |-> sent,
                         rows |-> [i \in Ids |-> IF queued[i] \in sent /\ now[i] \in DOMAIN made
                                                   THEN made[now[i]].row ELSE 0]]
            /\ UNCHANGED <<local, made, saves, queued, posts, gets, waiting, mutex, exposed>>
  BY DEF FlushLands
<1> DEFINE sent == {queued[i] : i \in Ids} \ (refused \cup {0})
           now == [i \in Ids |-> IF queued[i] \in sent \ applied THEN queued[i] ELSE server[i]]
           rows == [i \in Ids |-> IF queued[i] \in sent /\ now[i] \in DOMAIN made
                                    THEN made[now[i]].row ELSE 0]
<1>3. /\ flush.step = "idle" /\ server' = now /\ applied' = applied \cup sent
      /\ flush' = [step |-> "landed", changes |-> sent, rows |-> rows]
      /\ UNCHANGED <<local, made, saves, queued, posts, gets, waiting, mutex, exposed>>
  BY <1>2
<1>4. /\ sent \subseteq DOMAIN made
      /\ \A k \in sent : Out(k) /\ made[k].here /\ k \in DOMAIN made
  BY <1>1 DEF Shapes, Ours, Out
<1>5. \A n \in DOMAIN made : made[n].id \in Ids /\ made[n].row \in Rows /\ n \in Rows
  BY <1>1, Numbers DEF Change
<1>6. now \in Table
  BY <1>1, <1>4, <1>5 DEF Shapes, Table
<1>7. \A n \in DOMAIN made : ~Out(n) /\ now[made[n].id] = n => server[made[n].id] = n
  BY <1>4, <1>5
<1>8. \A n \in DOMAIN made : now[made[n].id] = n => rows[made[n].id] \in {0, made[n].row}
  BY <1>5
<1>9. rows \in Table
  BY <1>1, <1>5, <1>6, Numbers DEF Table
<1> HIDE DEF now, rows, sent
<1>10. \A n \in DOMAIN made : (Out(n)' <=> Out(n)) /\ (Newest(n)' <=> Newest(n))
  BY <1>3 DEF Out, Newest
<1>11. Shapes'
  BY <1>1, <1>3, <1>4, <1>6, <1>9 DEF Shapes
<1>12. Turns'
  BY <1>1, <1>3 DEF Turns
<1>13. Ours'
  BY <1>1, <1>3, <1>4, <1>10 DEF Ours
<1>14. Shielded' /\ Held'
  BY <1>1, <1>3, <1>10 DEF Shielded, Held
<1>15. Showing'
  BY <1>1, <1>3, <1>4, <1>7, <1>10 DEF Showing, Settled
<1>17. \A n \in DOMAIN made : n \in applied /\ now[made[n].id] = n => server[made[n].id] = n
  BY <1>5 DEF now
<1>16. Posted' /\ Delivered' /\ Echoed'
  <2>1. Posted'
    BY <1>1, <1>3, <1>10 DEF Posted, Shapes
  <2>2. Delivered'
    BY <1>1, <1>3, <1>8, <1>10, <1>17 DEF Delivered, Fresh, Posted
  <2>3. \A n \in DOMAIN made : Settled(n)' => Settled(n) /\ now[made[n].id] = n
    BY <1>3, <1>4, <1>7, <1>10 DEF Settled
  <2>4. Echoed'
    BY <1>1, <1>3, <1>8, <2>3 DEF Echoed, Fresh
  <2> QED
    BY <2>1, <2>2, <2>4
<1> QED
  BY <1>11, <1>12, <1>13, <1>14, <1>15, <1>16 DEF IInv

LEMMA IdleFlush == Shapes => Idle.step = "idle" /\ Idle.changes = {} /\ Idle \in
  [step : {"idle", "landed", "settled"}, changes : SUBSET DOMAIN made, rows : Table]
<1> SUFFICES ASSUME Shapes PROVE Idle.changes = {} /\ Idle.step = "idle" /\
      Idle \in [step : {"idle", "landed", "settled"}, changes : SUBSET DOMAIN made, rows : Table]
  OBVIOUS
<1>1. 0 \in Rows
  BY Numbers
<1> QED
  BY <1>1 DEF Idle, Empty, Table

LEMMA FlushUnheardKeeps ==
  ASSUME IInv, FlushUnheard
  PROVE  IInv'
<1>1. /\ Shapes /\ Turns /\ Ours /\ Shielded /\ Held /\ Showing
      /\ Posted /\ Delivered /\ Echoed
  BY DEF IInv
<1>2. /\ flush.step = "landed" /\ flush' = Idle
      /\ UNCHANGED <<local, server, made, saves, queued, posts, applied, gets, waiting, mutex, exposed>>
  BY DEF FlushUnheard
<1>3. \A n \in DOMAIN made : (Out(n)' <=> Out(n)) /\ (Newest(n)' <=> Newest(n))
  BY <1>2 DEF Out, Newest
<1>4. Shapes'
  BY <1>1, <1>2, IdleFlush DEF Shapes
<1>5. Turns'
  BY <1>1, <1>2 DEF Turns
<1>6. Ours'
  BY <1>1, <1>2, <1>3, IdleFlush DEF Ours
<1>8. Posted' /\ Delivered' /\ Echoed'
  BY <1>1, <1>2, <1>3, IdleFlush DEF Posted, Delivered, Echoed, Settled, Fresh, Shapes
<1>7. Shielded' /\ Held' /\ Showing'
  BY <1>1, <1>2, <1>3 DEF Shielded, Held, Showing, Settled
<1> QED
  BY <1>4, <1>5, <1>6, <1>7, <1>8 DEF IInv

Settling(changes, echoes, by, rows) ==
  /\ Dequeue(changes, echoes) \/ UNCHANGED <<queued, exposed>>
  /\ mutex' = IF Echo THEN Append(mutex, EchoTurn(by, rows)) ELSE mutex
  /\ UNCHANGED <<local, server, made, saves, applied, gets, waiting>>

\* Rows are dequeued or not, and an echo comes to wait for the lock.  A change settles: if
\* it is not exposed, no GET and no merge is under way and no other echo undoes it.
LEMMA SettlementKeeps ==
  ASSUME IInv, NEW changes, changes \subseteq applied, NEW echoes,
         NEW by \in {"flush", "post"}, NEW rows \in Table,
         Settling(changes, echoes, by, rows)
  PROVE  /\ queued' \in [Ids -> {0} \cup DOMAIN made] /\ exposed' \subseteq DOMAIN made
         /\ \A n \in DOMAIN made : /\ Out(n)' => Out(n)
                                   /\ Out(n) /\ ~Out(n)' => n \in changes
                                   /\ Newest(n)' <=> Newest(n)
         /\ \A i \in Ids : queued'[i] # 0 => queued'[i] = queued[i]
         /\ \A n, m \in DOMAIN made :
              made[n].here /\ ~Out(n)' /\ Out(m)' /\ made[m].id = made[n].id => n < m
         /\ mutex' \in Seq(Merging \cup EchoTurns)
         /\ DOMAIN mutex \subseteq DOMAIN mutex' /\ \A a \in DOMAIN mutex : mutex'[a] = mutex[a]
         /\ \A a, b \in DOMAIN mutex' \ DOMAIN mutex : a = b
         /\ \A a \in DOMAIN mutex' \ DOMAIN mutex : mutex'[a] = EchoTurn(by, rows)
         /\ \A n \in DOMAIN made : Settled(n)' =>
              \/ Settled(n)
              \/ /\ n \in changes /\ Newest(n) /\ server[made[n].id] = n
                 /\ \A r \in echoes : Fresh(n, r)
         /\ Shielded' /\ Held' /\ Showing'
<1>1. /\ Shapes /\ Turns /\ Ours /\ Shielded /\ Held /\ Showing
      /\ Posted /\ Delivered /\ Echoed
  BY DEF IInv
<1>0. /\ mutex' = IF Echo THEN Append(mutex, EchoTurn(by, rows)) ELSE mutex
      /\ UNCHANGED <<local, server, made, saves, applied, gets, waiting>>
  BY DEF Settling
<1> DEFINE confirmed == {queued[i] : i \in Ids} \cap changes
<1>2. \/ /\ queued' = [i \in Ids |-> IF queued[i] \in confirmed THEN 0 ELSE queued[i]]
         /\ exposed' = exposed \cup
              {n \in confirmed : \/ Merges # {}
                                \/ \E r \in echoes : r[made[n].id] \notin {0, made[n].row}}
      \/ queued' = queued /\ exposed' = exposed
  BY DEF Settling, Dequeue
<1>3. \A n \in DOMAIN made : n # 0 /\ made[n].id \in Ids
  BY <1>0, <1>1, Numbers DEF Change
<1>4. /\ confirmed \subseteq DOMAIN made /\ confirmed \subseteq changes
      /\ \A i \in Ids : queued'[i] # queued[i] => queued[i] \in confirmed /\ queued'[i] = 0
  BY <1>0, <1>1, <1>2 DEF Shapes
<1>5. /\ exposed \subseteq exposed' /\ exposed' \subseteq DOMAIN made
      /\ \A n \in confirmed : n \notin exposed' /\ queued' # queued =>
           Merges = {} /\ \A r \in echoes : Fresh(n, r)
  BY <1>0, <1>1, <1>2, <1>4 DEF Shapes, Fresh
<1>6. queued' \in [Ids -> {0} \cup DOMAIN made]
  BY <1>0, <1>1, <1>2 DEF Shapes
<1> HIDE DEF confirmed
<1>7. \A n \in DOMAIN made : /\ Out(n)' => Out(n)
                             /\ Out(n) /\ ~Out(n)' => /\ n \in confirmed /\ queued' # queued
                                                      /\ n \notin saves /\ queued[made[n].id] = n
                                                      /\ queued'[made[n].id] = 0
                             /\ Newest(n)' <=> Newest(n)
  BY <1>0, <1>3, <1>4 DEF Out, Newest
<1>8. \A n, m \in DOMAIN made :
        made[n].here /\ ~Out(n)' /\ Out(m)' /\ made[m].id = made[n].id => n < m
  <2> SUFFICES ASSUME NEW n \in DOMAIN made, NEW m \in DOMAIN made, made[n].here, ~Out(n)', Out(m)',
                      made[m].id = made[n].id
               PROVE  n < m
    OBVIOUS
  <2>1. CASE ~Out(n)
    BY <1>0, <1>1, <1>7, <2>1 DEF Ours
  <2>2. CASE Out(n)
    <3>1. n \notin saves /\ queued[made[n].id] = n /\ queued'[made[n].id] = 0
      BY <1>0, <1>7, <2>2
    <3>2. m \in saves
      BY <1>0, <1>3, <3>1 DEF Out
    <3> QED
      BY <1>0, <1>1, <1>3, <3>1, <3>2 DEF Ours
  <2> QED
    BY <2>1, <2>2
<1>9. /\ mutex' \in Seq(Merging \cup EchoTurns)
      /\ DOMAIN mutex \subseteq DOMAIN mutex' /\ \A a \in DOMAIN mutex : mutex'[a] = mutex[a]
      /\ \A a, b \in DOMAIN mutex' \ DOMAIN mutex : a = b
      /\ \A a \in DOMAIN mutex' \ DOMAIN mutex :
           mutex'[a] = EchoTurn(by, rows) /\ (mutex # <<>> => a # 1)
  <2>1. CASE ~Echo
    BY <1>0, <1>1, <2>1 DEF Shapes
  <2>2. CASE Echo
    <3>1. mutex \in Seq(Merging \cup EchoTurns) /\ EchoTurn(by, rows) \in Merging \cup EchoTurns
      BY <1>0, <1>1 DEF Shapes, EchoTurn, EchoTurns
    <3>2. /\ mutex' \in Seq(Merging \cup EchoTurns) /\ Len(mutex') = Len(mutex) + 1
          /\ \A a \in 1..Len(mutex) : mutex'[a] = mutex[a]
          /\ mutex'[Len(mutex) + 1] = EchoTurn(by, rows)
      BY <1>0, <2>2, <3>1, AppendProperties
    <3>3. /\ DOMAIN mutex = 1..Len(mutex) /\ DOMAIN mutex' = 1..(Len(mutex) + 1)
          /\ Len(mutex) \in Nat /\ (mutex # <<>> => Len(mutex) # 0)
      BY <3>1, <3>2, LenProperties, EmptySeq
    <3> QED
      BY <3>2, <3>3
  <2> QED
    BY <2>1, <2>2
<1>10. EchoTurn(by, rows).kind = "echo" /\ EchoTurn(by, rows).held = FALSE
  BY DEF EchoTurn
<1>11. Shielded'
  BY <1>0, <1>1, <1>5, <1>7 DEF Shielded
<1>12. Held'
  <2>1. mutex' # <<>> /\ mutex'[1].held => mutex # <<>> /\ mutex'[1] = mutex[1]
    <3> SUFFICES ASSUME mutex' # <<>>, mutex'[1].held PROVE mutex # <<>> /\ mutex'[1] = mutex[1]
      OBVIOUS
    <3>1. 1 \in DOMAIN mutex'
      BY <1>0, <1>9
    <3>2. 1 \in DOMAIN mutex
      BY <1>0, <1>9, <1>10, <3>1
    <3> QED
      BY <1>0, <1>9, <3>2
  <2> QED
    BY <1>0, <1>1, <1>5, <1>7, <2>1 DEF Held
<1>13. ASSUME NEW n \in DOMAIN made, Settled(n)'
       PROVE  \/ Settled(n)
              \/ /\ n \in changes /\ Newest(n) /\ server[made[n].id] = n
                 /\ \A r \in echoes : Fresh(n, r)
                 /\ Out(n) /\ n \notin exposed /\ Merges = {}
  <2>1. /\ n \in applied /\ ~Out(n)' /\ n \notin exposed' /\ n \notin exposed
        /\ Newest(n) /\ server[made[n].id] = n
    BY <1>0, <1>5, <1>7, <1>13 DEF Settled
  <2>2. CASE ~Out(n)
    BY <2>1, <2>2 DEF Settled
  <2>3. CASE Out(n)
    BY <1>0, <1>4, <1>5, <1>7, <2>1, <2>3
  <2> QED
    BY <2>2, <2>3
<1>14. ASSUME Merges = {}
       PROVE  /\ \A q \in Queries : gets[q].step = "none"
              /\ \A a \in DOMAIN mutex : mutex[a].kind = "echo"
  BY <1>0, <1>1, <1>14 DEF Merges, Range, Turns, Shapes
<1>15. Showing'
  <2> SUFFICES ASSUME NEW n \in DOMAIN made, Settled(n)'
               PROVE  LET i == made[n].id
                      IN  /\ local[i] = made[n].row
                          /\ \A q \in Queries : gets[q].step = "answered"
                                                  => gets[q].rows[i] = Of(q, made[n].row)
                          /\ \A a \in DOMAIN mutex' :
                               mutex'[a].kind # "echo"
                                 => mutex'[a].rows[i] = Of(mutex'[a].query, made[n].row)
    BY <1>0 DEF Showing, Of
  <2>1. CASE Settled(n)
    BY <1>0, <1>1, <1>9, <1>10, <2>1 DEF Showing
  <2>2. CASE ~Settled(n)
    BY <1>0, <1>1, <1>9, <1>10, <1>13, <1>14, <2>2 DEF Shielded
  <2> QED
    BY <2>1, <2>2
<1> QED
  BY <1>0, <1>4, <1>5, <1>6, <1>7, <1>8, <1>9, <1>11, <1>12, <1>13, <1>15

LEMMA FlushSettlesKeeps ==
  ASSUME IInv, FlushSettles
  PROVE  IInv'
<1>1. /\ Shapes /\ Turns /\ Ours /\ Shielded /\ Held /\ Showing
      /\ Posted /\ Delivered /\ Echoed
  BY DEF IInv
<1> DEFINE turn == EchoTurn("flush", flush.rows)
           echoes == EchoesOf(posts)
<1>2. /\ flush.step = "landed"
      /\ Dequeue(flush.changes, echoes)
      /\ flush' = IF Echo THEN [Idle EXCEPT !.step = "settled"] ELSE Idle
      /\ mutex' = IF Echo THEN Append(mutex, turn) ELSE mutex
      /\ UNCHANGED <<local, server, made, saves, posts, applied, gets, waiting>>
  BY DEF FlushSettles
<1>3. flush.changes \subseteq applied /\ flush.rows \in Table
  BY <1>1, <1>2 DEF Ours, Shapes
<1>4. /\ queued' \in [Ids -> {0} \cup DOMAIN made] /\ exposed' \subseteq DOMAIN made
      /\ \A n \in DOMAIN made : /\ Out(n)' => Out(n)
                                /\ Out(n) /\ ~Out(n)' => n \in flush.changes
                                /\ Newest(n)' <=> Newest(n)
      /\ \A i \in Ids : queued'[i] # 0 => queued'[i] = queued[i]
      /\ \A n, m \in DOMAIN made :
           made[n].here /\ ~Out(n)' /\ Out(m)' /\ made[m].id = made[n].id => n < m
      /\ mutex' \in Seq(Merging \cup EchoTurns)
      /\ DOMAIN mutex \subseteq DOMAIN mutex' /\ \A a \in DOMAIN mutex : mutex'[a] = mutex[a]
      /\ \A a, b \in DOMAIN mutex' \ DOMAIN mutex : a = b
      /\ \A a \in DOMAIN mutex' \ DOMAIN mutex : mutex'[a] = turn
      /\ \A n \in DOMAIN made : Settled(n)' =>
           \/ Settled(n)
           \/ /\ n \in flush.changes /\ Newest(n) /\ server[made[n].id] = n
              /\ \A r \in echoes : Fresh(n, r)
      /\ Shielded' /\ Held' /\ Showing'
  <2>1. Settling(flush.changes, echoes, "flush", flush.rows)
    BY <1>2 DEF Settling
  <2> QED
    BY <1>3, <2>1, SettlementKeeps
<1>5. /\ turn.kind = "echo" /\ turn.held = FALSE /\ turn.query = "flush" /\ turn.rows = flush.rows
      /\ \A a \in DOMAIN mutex : mutex[a].query # "flush"
      /\ \A w \in waiting : w.kind # "echo"
  BY <1>1, <1>2 DEF EchoTurn, Turns, Shapes, Merging
<1>6. Echo => \A r \in {p.rows : p \in {e \in posts : e.step = "landed"}} \cup
                       {mutex[a].rows : a \in {b \in DOMAIN mutex : mutex[b].kind = "echo"}} :
                 r \in echoes
  BY DEF EchoesOf, Range
<1> HIDE DEF turn, echoes
<1>7. /\ flush' \in [step : {"idle", "landed", "settled"}, changes : SUBSET DOMAIN made, rows : Table]
      /\ flush'.changes = {} /\ flush'.step # "landed" /\ (Echo => flush'.step = "settled")
  BY <1>1, <1>2, IdleFlush
<1>8. Shapes'
  BY <1>1, <1>2, <1>4, <1>7 DEF Shapes
<1>9. Turns'
  <2>1. Echo \/ DOMAIN mutex' = DOMAIN mutex
    BY <1>2
  <2>3. \A a, b \in DOMAIN mutex' :
          Same(mutex'[a], mutex'[b]) => a = b \/ mutex'[a].query = "post"
    BY <1>1, <1>4, <1>5 DEF Turns, Same
  <2>4. \A w \in waiting' : ~w.held /\ \A a \in DOMAIN mutex' : ~Same(w, mutex'[a])
    BY <1>1, <1>2, <1>4, <1>5 DEF Turns, Same
  <2>5. \A a \in DOMAIN mutex' : /\ mutex'[a].held => a = 1
                                 /\ mutex'[a].kind = "echo" => Echo
                                 /\ mutex'[a].query = "flush" => flush'.step = "settled"
    BY <1>1, <1>4, <1>5, <1>7, <2>1 DEF Turns
  <2> QED
    BY <1>1, <1>2, <2>3, <2>4, <2>5 DEF Turns
<1>10. Ours'
  BY <1>1, <1>2, <1>4, <1>7 DEF Ours
<1>11. Posted' /\ Delivered'
  <2>1. \A p \in posts : p.change \in DOMAIN made
    BY <1>1 DEF Shapes
  <2> QED
    BY <1>1, <1>2, <1>3, <1>4, <1>7, <2>1 DEF Posted, Delivered, Fresh
<1>12. Echoed'
  <2> SUFFICES ASSUME Echo, NEW n \in DOMAIN made, Settled(n)'
               PROVE  /\ \A p \in posts : p.step = "landed" => Fresh(n, p.rows)
                      /\ \A a \in DOMAIN mutex' : mutex'[a].kind = "echo" => Fresh(n, mutex'[a].rows)
    BY <1>2, <1>7 DEF Echoed, Fresh
  <2>1. CASE Settled(n)
    BY <1>1, <1>2, <1>4, <1>5, <2>1 DEF Echoed
  <2>2. CASE ~Settled(n)
    <3>1. /\ n \in flush.changes /\ Newest(n) /\ server[made[n].id] = n
          /\ \A r \in echoes : Fresh(n, r)
      BY <1>4, <2>2
    <3>2. Fresh(n, flush.rows)
      BY <1>1, <3>1 DEF Delivered
    <3> QED
      BY <1>4, <1>5, <1>6, <3>1, <3>2
  <2> QED
    BY <2>1, <2>2
<1> QED
  BY <1>4, <1>8, <1>9, <1>10, <1>11, <1>12 DEF IInv

\* What a save posts is unsynced or old when it first lands: no settled change is
\* replaced on the server but by another one.
LEMMA PostLandsKeeps ==
  ASSUME IInv, NEW p \in posts, PostLands(p)
  PROVE  IInv'
<1>1. /\ Shapes /\ Turns /\ Ours /\ Shielded /\ Held /\ Showing
      /\ Posted /\ Delivered /\ Echoed
  BY DEF IInv
<1> DEFINE n == p.change
           i == made[n].id
           now == IF n \in applied THEN server ELSE [server EXCEPT ![i] = n]
           row == IF now[i] \in DOMAIN made THEN made[now[i]].row ELSE 0
           rows == [Empty EXCEPT ![i] = row]
           landed == [step |-> "landed", change |-> n, rows |-> rows]
<1>2. /\ server' = now /\ applied' = applied \cup {n}
      /\ posts' = (posts \ {p}) \cup {landed}
      /\ UNCHANGED <<local, made, saves, queued, flush, gets, waiting, mutex, exposed>>
  BY DEF PostLands
<1>3. /\ n \in DOMAIN made /\ i \in Ids /\ made[n].here
      /\ n \in applied \/ Out(n) \/ ~Newest(n)
  BY <1>1, Numbers DEF Shapes, Change, Posted
<1>4. now \in Table
  BY <1>1, <1>3, Numbers DEF Shapes, Table
<1>5. row \in Rows /\ rows \in Table
  BY <1>1, <1>3, <1>4, EmptyTable, Numbers DEF Table, Change
<1>6. \A m \in DOMAIN made : now[made[m].id] = m => Fresh(m, rows)
  BY <1>1, <1>3, Numbers DEF Fresh, Empty, Change
<1>7. \A m \in DOMAIN made : /\ now[made[m].id] = m => server[made[m].id] = m \/ m = n
                             /\ m \in applied /\ now[made[m].id] = m => server[made[m].id] = m
  BY <1>1, <1>3 DEF Shapes, Table
<1>8. landed \in [step : {"asked", "landed"}, change : DOMAIN made, rows : Table]
  BY <1>3, <1>5
<1>9. /\ landed.step = "landed" /\ landed.change = n /\ landed.rows = rows
      /\ \A d \in posts' : d = landed \/ d \in posts
  BY <1>2
<1> HIDE DEF n, i, now, row, rows, landed
<1>10. \A m \in DOMAIN made : (Out(m)' <=> Out(m)) /\ (Newest(m)' <=> Newest(m))
  BY <1>2 DEF Out, Newest
<1>11. \A m \in DOMAIN made : Settled(m)' => Settled(m) /\ now[made[m].id] = m
  <2> SUFFICES ASSUME NEW m \in DOMAIN made, Settled(m)'
               PROVE  Settled(m) /\ now[made[m].id] = m
    OBVIOUS
  <2>1. /\ m \in applied \cup {n} /\ ~Out(m) /\ m \notin exposed /\ Newest(m)
        /\ now[made[m].id] = m
    BY <1>2, <1>10 DEF Settled
  <2>2. m \in applied
    BY <1>3, <2>1
  <2> QED
    BY <1>7, <2>1, <2>2 DEF Settled
<1>12. Shapes'
  BY <1>1, <1>2, <1>3, <1>4, <1>8, <1>9 DEF Shapes
<1>13. Turns'
  BY <1>1, <1>2 DEF Turns
<1>14. Ours'
  BY <1>1, <1>2, <1>3, <1>10 DEF Ours
<1>15. Shielded' /\ Held'
  BY <1>1, <1>2, <1>10 DEF Shielded, Held
<1>16. Showing'
  BY <1>1, <1>2, <1>11 DEF Showing
<1>17. Posted'
  <2>1. \A d \in posts : d.change \in DOMAIN made
    BY <1>1 DEF Shapes
  <2> QED
    BY <1>1, <1>2, <1>3, <1>9, <1>10, <2>1 DEF Posted
<1>18. Delivered'
  <2> SUFFICES ASSUME NEW m \in DOMAIN made, Newest(m), now[made[m].id] = m
               PROVE  /\ m \in flush.changes => Fresh(m, flush.rows)
                      /\ \A d \in posts' : d.step = "landed" /\ d.change = m => Fresh(m, d.rows)
    BY <1>2, <1>10 DEF Delivered, Fresh
  <2>1. m \in applied => server[made[m].id] = m
    BY <1>7
  <2>2. m \in flush.changes => Fresh(m, flush.rows)
    BY <1>1, <2>1 DEF Delivered, Ours
  <2>3. ASSUME NEW d \in posts', d.step = "landed", d.change = m PROVE Fresh(m, d.rows)
    <3>1. CASE d = landed
      BY <1>6, <1>9, <3>1
    <3>2. CASE d \in posts
      BY <1>1, <2>1, <2>3, <3>2 DEF Delivered, Posted
    <3> QED
      BY <1>9, <3>1, <3>2
  <2> QED
    BY <2>2, <2>3
<1>19. Echoed'
  <2> SUFFICES ASSUME Echo, NEW m \in DOMAIN made, Settled(m)'
               PROVE  /\ flush.step = "landed" => Fresh(m, flush.rows)
                      /\ \A d \in posts' : d.step = "landed" => Fresh(m, d.rows)
                      /\ \A a \in DOMAIN mutex : mutex[a].kind = "echo" => Fresh(m, mutex[a].rows)
    BY <1>2 DEF Echoed, Fresh
  <2> QED
    BY <1>1, <1>6, <1>9, <1>11 DEF Echoed
<1> QED
  BY <1>12, <1>13, <1>14, <1>15, <1>16, <1>17, <1>18, <1>19 DEF IInv

LEMMA PostSettlesKeeps ==
  ASSUME IInv, NEW p \in posts, PostSettles(p)
  PROVE  IInv'
<1>1. /\ Shapes /\ Turns /\ Ours /\ Shielded /\ Held /\ Showing
      /\ Posted /\ Delivered /\ Echoed
  BY DEF IInv
<1> DEFINE turn == EchoTurn("post", p.rows)
           echoes == EchoesOf((posts \ {p}) \cup {flush})
           changes == {p.change}
<1>2. /\ p.step = "landed"
      /\ Dequeue(changes, echoes) \/ UNCHANGED <<queued, exposed>>
      /\ posts' = posts \ {p}
      /\ mutex' = IF Echo THEN Append(mutex, turn) ELSE mutex
      /\ UNCHANGED <<local, server, made, saves, flush, applied, gets, waiting>>
  BY DEF PostSettles
<1>3. changes \subseteq applied /\ p.rows \in Table /\ \A n \in changes : n = p.change
  BY <1>1, <1>2 DEF Posted, Shapes
<1> HIDE DEF changes, echoes
<1>4. /\ queued' \in [Ids -> {0} \cup DOMAIN made] /\ exposed' \subseteq DOMAIN made
      /\ \A n \in DOMAIN made : /\ Out(n)' => Out(n)
                                /\ Out(n) /\ ~Out(n)' => n \in changes
                                /\ Newest(n)' <=> Newest(n)
      /\ \A i \in Ids : queued'[i] # 0 => queued'[i] = queued[i]
      /\ \A n, m \in DOMAIN made :
           made[n].here /\ ~Out(n)' /\ Out(m)' /\ made[m].id = made[n].id => n < m
      /\ mutex' \in Seq(Merging \cup EchoTurns)
      /\ DOMAIN mutex \subseteq DOMAIN mutex' /\ \A a \in DOMAIN mutex : mutex'[a] = mutex[a]
      /\ \A a, b \in DOMAIN mutex' \ DOMAIN mutex : a = b
      /\ \A a \in DOMAIN mutex' \ DOMAIN mutex : mutex'[a] = turn
      /\ \A n \in DOMAIN made : Settled(n)' =>
           \/ Settled(n)
           \/ /\ n \in changes /\ Newest(n) /\ server[made[n].id] = n
              /\ \A r \in echoes : Fresh(n, r)
      /\ Shielded' /\ Held' /\ Showing'
  <2>1. Settling(changes, echoes, "post", p.rows)
    BY <1>2 DEF Settling
  <2> QED
    BY <1>3, <2>1, SettlementKeeps
<1>5. /\ turn.kind = "echo" /\ turn.held = FALSE /\ turn.query = "post" /\ turn.rows = p.rows
      /\ \A w \in waiting : w.kind # "echo"
  BY <1>1, <1>2 DEF EchoTurn, Shapes, Merging
<1>6. Echo => \A r \in {d.rows : d \in {e \in (posts \ {p}) \cup {flush} : e.step = "landed"}} \cup
                       {mutex[a].rows : a \in {b \in DOMAIN mutex : mutex[b].kind = "echo"}} :
                 r \in echoes
  BY DEF EchoesOf, Range, echoes
<1> HIDE DEF turn
<1>7. Shapes'
  BY <1>1, <1>2, <1>4 DEF Shapes
<1>8. Turns'
  <2>1. \A a, b \in DOMAIN mutex' :
          Same(mutex'[a], mutex'[b]) => a = b \/ mutex'[a].query = "post"
    BY <1>1, <1>4, <1>5 DEF Turns, Same
  <2>2. \A w \in waiting' : ~w.held /\ \A a \in DOMAIN mutex' : ~Same(w, mutex'[a])
    BY <1>1, <1>2, <1>4, <1>5 DEF Turns, Same
  <2>4. Echo \/ DOMAIN mutex' = DOMAIN mutex
    BY <1>2
  <2>3. \A a \in DOMAIN mutex' : /\ mutex'[a].held => a = 1
                                 /\ mutex'[a].kind = "echo" => Echo
                                 /\ mutex'[a].query = "flush" => flush'.step = "settled"
    BY <1>1, <1>2, <1>4, <1>5, <2>4 DEF Turns
  <2> QED
    BY <1>1, <1>2, <2>1, <2>2, <2>3 DEF Turns
<1>9. Ours'
  BY <1>1, <1>2, <1>4 DEF Ours
<1>10. Posted' /\ Delivered'
  <2>1. \A d \in posts : d.change \in DOMAIN made
    BY <1>1 DEF Shapes
  <2> QED
    BY <1>1, <1>2, <1>3, <1>4, <2>1 DEF Posted, Delivered, Fresh
<1>11. Echoed'
  <2> SUFFICES ASSUME Echo, NEW n \in DOMAIN made, Settled(n)'
               PROVE  /\ flush.step = "landed" => Fresh(n, flush.rows)
                      /\ \A d \in posts' : d.step = "landed" => Fresh(n, d.rows)
                      /\ \A a \in DOMAIN mutex' : mutex'[a].kind = "echo" => Fresh(n, mutex'[a].rows)
    BY <1>2 DEF Echoed, Fresh
  <2>1. CASE Settled(n)
    BY <1>1, <1>2, <1>4, <1>5, <2>1 DEF Echoed
  <2>2. CASE ~Settled(n)
    <3>1. /\ n = p.change /\ Newest(n) /\ server[made[n].id] = n
          /\ \A r \in echoes : Fresh(n, r)
      BY <1>3, <1>4, <2>2
    <3>2. Fresh(n, p.rows)
      BY <1>1, <1>2, <3>1 DEF Delivered
    <3> QED
      BY <1>2, <1>4, <1>5, <1>6, <3>1, <3>2
  <2> QED
    BY <2>1, <2>2
<1> QED
  BY <1>4, <1>7, <1>8, <1>9, <1>10, <1>11 DEF IInv

\* The rows go over whatever the store has: what is unsynced is exposed, what is
\* settled is among them or is not touched.
LEMMA ReconcileKeeps ==
  ASSUME IInv, Reconcile
  PROVE  IInv'
<1>1. /\ Shapes /\ Turns /\ Ours /\ Shielded /\ Held /\ Showing
      /\ Posted /\ Delivered /\ Echoed
  BY DEF IInv
<1> DEFINE turn == mutex[1]
           echoed == {i \in Ids : turn.rows[i] # 0}
<1>2. /\ mutex # <<>> /\ turn.kind = "echo"
      /\ local' = [i \in Ids |-> IF i \in echoed THEN turn.rows[i] ELSE local[i]]
      /\ exposed' = exposed \cup {n \in Unsynced : made[n].id \in echoed}
      /\ flush' = IF turn.query = "flush" THEN Idle ELSE flush
      /\ mutex' = Tail(mutex)
      /\ UNCHANGED <<server, made, saves, queued, posts, applied, gets, waiting>>
  BY <1>1, FirstTurn DEF Reconcile
<1>3. 1 \in DOMAIN mutex /\ turn \in EchoTurns /\ turn.rows \in Table
  BY <1>1, <1>2, FirstTurn DEF Merging, EchoTurns
<1>4. /\ mutex' \in Seq(Merging \cup EchoTurns)
      /\ \A a \in DOMAIN mutex' : a + 1 \in DOMAIN mutex /\ a + 1 # 1 /\ mutex'[a] = mutex[a + 1]
      /\ \A a, b \in DOMAIN mutex' : a + 1 = b + 1 => a = b
  BY <1>1, <1>2, TurnOver
<1>5. \A n \in DOMAIN made : /\ (Out(n)' <=> Out(n)) /\ (Newest(n)' <=> Newest(n))
                             /\ made[n].id \in Ids
  BY <1>1, <1>2, Numbers DEF Out, Newest, Change
<1>6. /\ exposed \subseteq exposed' /\ exposed' \subseteq DOMAIN made
      /\ \A n \in DOMAIN made : Out(n) /\ n \notin exposed' => made[n].id \notin echoed
  BY <1>1, <1>2, UnsyncedOut DEF Shapes
<1>7. local' \in Table
  BY <1>1, <1>2, <1>3 DEF Shapes, Table
<1>8. \A a \in DOMAIN mutex' : ~mutex'[a].held
  BY <1>1, <1>4 DEF Turns
<1>9. flush' = flush \/ (flush' = Idle /\ flush.step = "settled")
  <2>1. turn.query = "flush" => flush.step = "settled"
    BY <1>1, <1>3 DEF Turns
  <2>2. flush' = IF turn.query = "flush" THEN Idle ELSE flush
    BY <1>2
  <2>3. CASE turn.query = "flush"
    BY <2>1, <2>2, <2>3
  <2>4. CASE turn.query # "flush"
    BY <2>2, <2>4
  <2> QED
    BY <2>3, <2>4
<1>10. Shapes'
  BY <1>1, <1>2, <1>4, <1>6, <1>7, <1>9, IdleFlush DEF Shapes
<1>11. Turns'
  <2>1. \A a, b \in DOMAIN mutex' :
          Same(mutex'[a], mutex'[b]) => a = b \/ mutex'[a].query = "post"
    BY <1>1, <1>4 DEF Turns, Same
  <2>2. \A w \in waiting' : ~w.held /\ \A a \in DOMAIN mutex' : ~Same(w, mutex'[a])
    BY <1>1, <1>2, <1>4 DEF Turns, Same
  <2>3. ASSUME NEW a \in DOMAIN mutex', mutex'[a].query = "flush"
        PROVE  flush'.step = "settled"
    <3>1. a + 1 \in DOMAIN mutex /\ a + 1 # 1 /\ mutex[a + 1].query = "flush"
      BY <1>4, <2>3
    <3>2. mutex[a + 1] \in EchoTurns
      <4>1. mutex[a + 1] \in Merging \cup EchoTurns
        BY <1>1, <3>1 DEF Shapes
      <4>2. "flush" \notin Queries
        BY StoreAssumption
      <4> QED
        BY <3>1, <4>1, <4>2 DEF Merging
    <3>3. turn.query # "flush"
      BY <1>1, <1>3, <3>1, <3>2 DEF Turns, Same, EchoTurns
    <3> QED
      BY <1>1, <1>2, <3>1, <3>3 DEF Turns
  <2>4. \A a \in DOMAIN mutex' : mutex'[a].kind = "echo" => Echo
    BY <1>1, <1>4 DEF Turns
  <2> QED
    BY <1>1, <1>2, <1>8, <2>1, <2>2, <2>3, <2>4 DEF Turns
<1>12. Ours'
  BY <1>1, <1>2, <1>5, <1>9, IdleFlush DEF Ours
<1>13. Shielded'
  BY <1>1, <1>2, <1>5, <1>6 DEF Shielded
<1>14. Held'
  BY <1>4, <1>8, FirstTurn DEF Held, Turns
<1>15. \A n \in DOMAIN made : Settled(n)' => Settled(n)
  BY <1>2, <1>5, <1>6 DEF Settled
<1>16. Showing'
  <2>1. ASSUME NEW n \in DOMAIN made, Settled(n) PROVE local'[made[n].id] = made[n].row
    <3>1. Echo
      BY <1>1, <1>2, <1>3 DEF Turns
    <3>2. Fresh(n, turn.rows)
      BY <1>1, <1>2, <1>3, <2>1, <3>1 DEF Echoed
    <3> QED
      BY <1>1, <1>2, <1>5, <2>1, <3>2 DEF Showing, Fresh
  <2> QED
    BY <1>1, <1>2, <1>4, <1>15, <2>1 DEF Showing
<1>17. Posted'
  BY <1>1, <1>2, <1>5 DEF Posted, Shapes
<1>18. Delivered'
  BY <1>1, <1>2, <1>5, <1>9, IdleFlush DEF Delivered, Fresh
<1>19. Echoed'
  BY <1>1, <1>2, <1>4, <1>9, <1>15, IdleFlush DEF Echoed, Fresh
<1> QED
  BY <1>10, <1>11, <1>12, <1>13, <1>14, <1>16, <1>17, <1>18, <1>19 DEF IInv

LEMMA BuryKeeps ==
  ASSUME IInv, NEW i \in Ids, Bury(i)
  PROVE  IInv'
<1>1. /\ Shapes /\ Turns /\ Ours /\ Shielded /\ Held /\ Showing
      /\ Posted /\ Delivered /\ Echoed
  BY DEF IInv
<1>2. /\ flush.step = "idle" /\ queued[i] \notin applied
      /\ queued' = [queued EXCEPT ![i] = 0]
      /\ posts' = {p \in posts : p.change # queued[i]}
      /\ UNCHANGED <<local, server, made, saves, flush, applied, gets, waiting, mutex, exposed>>
  BY DEF Bury
<1>3. \A n \in DOMAIN made : n # 0 /\ made[n].id \in Ids
  BY <1>1, Numbers DEF Change
<1>4. \A n \in DOMAIN made : /\ Out(n)' => Out(n)
                             /\ Out(n) /\ ~Out(n)' => n = queued[i] /\ n \notin saves /\ made[n].id = i
                             /\ Newest(n)' <=> Newest(n)
  BY <1>1, <1>2, <1>3 DEF Out, Newest, Shapes
<1>5. Shapes' /\ Turns'
  BY <1>1, <1>2 DEF Shapes, Turns
<1>6. Ours'
  <2>1. \A j \in Ids : queued'[j] # 0 => queued'[j] = queued[j]
    BY <1>1, <1>2 DEF Shapes
  <2>2. ASSUME NEW n \in DOMAIN made, NEW m \in DOMAIN made, made[n].here, ~Out(n)', Out(m)',
               made[m].id = made[n].id
        PROVE  n < m
    <3>1. CASE ~Out(n)
      BY <1>1, <1>4, <2>2, <3>1 DEF Ours
    <3>2. CASE Out(n)
      <4>1. n = queued[i] /\ made[n].id = i /\ queued'[i] = 0
        BY <1>1, <1>2, <1>4, <2>2, <3>2 DEF Shapes
      <4>2. m \in saves
        BY <1>2, <1>3, <2>2, <4>1 DEF Out
      <4> QED
        BY <1>1, <1>3, <2>2, <4>1, <4>2 DEF Ours
    <3> QED
      BY <3>1, <3>2
  <2> QED
    BY <1>1, <1>2, <2>1, <2>2 DEF Ours
<1>7. Shielded' /\ Held'
  BY <1>1, <1>2, <1>4 DEF Shielded, Held
<1>8. \A n \in DOMAIN made : Settled(n)' => Settled(n)
  BY <1>2, <1>4 DEF Settled
<1>9. Showing' /\ Delivered' /\ Echoed'
  BY <1>1, <1>2, <1>4, <1>8 DEF Showing, Delivered, Echoed, Fresh
<1>10. Posted'
  BY <1>1, <1>2, <1>4 DEF Posted, Shapes
<1> QED
  BY <1>5, <1>6, <1>7, <1>9, <1>10 DEF IInv

-----------------------------------------------------------------------------
(* The server, as other clients and GETs see it.                            *)

LEMMA WriteElsewhereKeeps ==
  ASSUME IInv, NEW i \in Ids, WriteElsewhere(i)
  PROVE  IInv'
<1>0. PICK N : N = Len(made) + 1
  OBVIOUS
<1>1. /\ Shapes /\ Turns /\ Ours /\ Shielded /\ Held /\ Showing
      /\ Posted /\ Delivered /\ Echoed
  BY DEF IInv
<1>2. PICK row \in {N, 0} : made' = Append(made, [id |-> i, row |-> row, here |-> FALSE])
  BY <1>0 DEF WriteElsewhere
<1>3. /\ Len(made) < MaxChanges /\ server' = [server EXCEPT ![i] = N]
      /\ UNCHANGED <<local, saves, queued, flush, posts, applied, gets, waiting, mutex, exposed>>
  BY <1>0 DEF WriteElsewhere
<1> DEFINE c == [id |-> i, row |-> row, here |-> FALSE]
<1>4. N \in Rows /\ row \in Rows /\ c \in Change /\ N <= MaxChanges
  BY <1>0, <1>1, <1>2, <1>3, Numbers DEF Change
<1>5. /\ made' \in Seq(Change) /\ Len(made') = N /\ DOMAIN made' = DOMAIN made \cup {N}
      /\ made'[N] = c /\ N \notin DOMAIN made
      /\ \A n \in DOMAIN made : made'[n] = made[n] /\ n < N
  BY <1>0, <1>1, <1>2, <1>4, MadeGrows
<1>6. made'[N].here = FALSE
  BY <1>5
<1> HIDE DEF c
<1>7. /\ \A n \in DOMAIN made : (Out(n)' <=> Out(n)) /\ (Newest(n)' <=> Newest(n))
      /\ ~Out(N)'
  <2>1. made'[N].id \in Ids
    BY <1>5 DEF c
  <2>2. N \notin saves /\ N # 0
    BY <1>0, <1>1, <1>5, Numbers DEF Shapes
  <2> QED
    BY SMTT(60), <1>1, <1>3, <1>5, <1>6, <2>1, <2>2 DEF Out, Newest, Shapes
<1>8. Shapes'
  <2>1. server' \in Table
    BY <1>1, <1>3, <1>4 DEF Shapes, Table
  <2>2. DOMAIN made \subseteq DOMAIN made'
    BY <1>5
  <2>3. queued \in [Ids -> {0} \cup DOMAIN made']
    BY <1>1, <2>2 DEF Shapes
  <2>4. flush \in [step : {"idle", "landed", "settled"}, changes : SUBSET DOMAIN made',
                  rows : Table]
    BY <1>1, <2>2 DEF Shapes
  <2>5. posts \subseteq [step : {"asked", "landed"}, change : DOMAIN made', rows : Table]
    BY <1>1, <2>2 DEF Shapes
  <2> QED
    BY <1>1, <1>3, <1>4, <1>5, <2>1, <2>2, <2>3, <2>4, <2>5 DEF Shapes
<1>9. Turns'
  BY <1>1, <1>3 DEF Turns
<1>10. Ours'
  <2>1. /\ \A n \in saves' \cup applied' : made'[n].here
        /\ flush'.changes \subseteq applied'
    BY <1>1, <1>3, <1>5 DEF Ours, Shapes
  <2>2. \A j \in Ids : queued[j] # 0 =>
          /\ made'[queued[j]].here /\ made'[queued[j]].id = j
          /\ \A m \in saves' : made'[m].id = j => queued[j] < m
    BY <1>1, <1>3, <1>5 DEF Ours, Shapes
  <2>3. \A n, m \in DOMAIN made' :
          made'[n].here /\ ~Out(n)' /\ Out(m)' /\ made'[m].id = made'[n].id => n < m
    BY <1>1, <1>5, <1>6, <1>7 DEF Ours
  <2> QED
    BY <1>3, <2>1, <2>2, <2>3 DEF Ours
<1>11. Shielded'
  BY <1>1, <1>3, <1>5, <1>7 DEF Shielded
<1>12. Held'
  BY <1>1, <1>3, <1>5, <1>7 DEF Held
<1>13. \A n \in DOMAIN made : server'[made[n].id] = n => server[made[n].id] = n
  BY <1>1, <1>3, <1>5 DEF Shapes, Table
<1>14. Showing' /\ Echoed'
  <2>1. \A n \in DOMAIN made' : Settled(n)' => n \in DOMAIN made /\ Settled(n)
    BY <1>1, <1>3, <1>5, <1>7, <1>13 DEF Settled, Shapes
  <2> QED
    BY <1>1, <1>3, <1>5, <2>1 DEF Showing, Echoed, Fresh
<1>15. Posted' /\ Delivered'
  <2>1. flush.changes \subseteq DOMAIN made /\ \A p \in posts : p.change \in DOMAIN made
    BY <1>1 DEF Shapes
  <2>2. Posted'
    BY <1>1, <1>3, <1>5, <1>7, <2>1 DEF Posted
  <2>3. Delivered'
    BY <1>1, <1>3, <1>5, <1>7, <1>13, <2>1 DEF Delivered, Fresh
  <2> QED
    BY <2>2, <2>3
<1> QED
  BY <1>8, <1>9, <1>10, <1>11, <1>12, <1>14, <1>15 DEF IInv

LEMMA SelectedType ==
  ASSUME NEW q, NEW table \in Table
  PROVE  Selected(q, table) \in Table /\ \A i \in Ids : Selected(q, table)[i] = Of(q, table[i])
<1>1. 0 \in Rows
  BY StoreAssumption DEF Rows, Seed
<1> QED
  BY <1>1 DEF Selected, Of, Table

LEMMA ServerTableType ==
  ASSUME Shapes
  PROVE  /\ ServerTable \in Table
         /\ \A n \in DOMAIN made : server[made[n].id] = n => ServerTable[made[n].id] = made[n].row
BY Numbers DEF ServerTable, Shapes, Table, Change

LEMMA AnswerKeeps ==
  ASSUME IInv, NEW q \in Queries, Answer(q)
  PROVE  IInv'
<1>1. /\ Shapes /\ Turns /\ Ours /\ Shielded /\ Held /\ Showing
      /\ Posted /\ Delivered /\ Echoed
  BY DEF IInv
<1> DEFINE rows == Selected(q, ServerTable)
<1>2. /\ gets[q].step = "asked" /\ gets' = [gets EXCEPT ![q] = [step |-> "answered", rows |-> rows]]
      /\ UNCHANGED <<local, server, made, saves, queued, flush, posts, applied, waiting, mutex, exposed>>
  BY DEF Answer
<1>3. \A n \in DOMAIN made : made[n].id \in Ids
  BY <1>1, Numbers DEF Change
<1>4. /\ rows \in Table
      /\ \A n \in DOMAIN made : server[made[n].id] = n => rows[made[n].id] = Of(q, made[n].row)
  BY <1>1, <1>3, SelectedType, ServerTableType
<1> HIDE DEF rows
<1>5. \A n \in DOMAIN made : (Out(n)' <=> Out(n)) /\ (Newest(n)' <=> Newest(n))
  BY <1>2 DEF Out, Newest
<1>6. Shapes' /\ Turns'
  BY <1>1, <1>2, <1>4 DEF Shapes, Turns
<1>7. Ours' /\ Shielded' /\ Held'
  BY <1>1, <1>2, <1>5 DEF Ours, Shielded, Held
<1>9. Posted' /\ Delivered' /\ Echoed'
  BY <1>1, <1>2, <1>5 DEF Posted, Delivered, Echoed, Fresh, Settled, Shapes
<1>8. Showing'
  <2>1. \A n \in DOMAIN made : Settled(n)' => Settled(n) /\ server[made[n].id] = n
    BY <1>2, <1>5 DEF Settled
  <2> QED
    BY <1>1, <1>2, <1>4, <2>1 DEF Showing, Shapes
<1> QED
  BY <1>6, <1>7, <1>8, <1>9 DEF IInv

-----------------------------------------------------------------------------
(* Queries.                                                                 *)

LEMMA AskKeeps ==
  ASSUME IInv, NEW q \in Queries, Ask(q)
  PROVE  IInv'
<1>1. /\ Shapes /\ Turns /\ Ours /\ Shielded /\ Held /\ Showing
      /\ Posted /\ Delivered /\ Echoed
  BY DEF IInv
<1> DEFINE cached == Selected(q, local)
           kind == IF cached = Empty THEN "miss" ELSE "revalidate"
           w == [query |-> q, kind |-> kind, held |-> FALSE, rows |-> cached, kept |-> {}]
<1>2. /\ \A m \in Merges : ~(m.query = q /\ m.kind = kind)
      /\ waiting' = waiting \cup {w}
      /\ gets' = IF gets[q].step = "none"
                   THEN [gets EXCEPT ![q] = [step |-> "asked", rows |-> Empty]] ELSE gets
      /\ UNCHANGED <<local, server, made, saves, queued, flush, posts, applied, mutex, exposed>>
  BY DEF Ask
<1>3. w \in Merging /\ w.query = q /\ w.kind = kind /\ ~w.held /\ kind # "echo" /\ Empty \in Table
  <2>1. 0 \in Rows
    BY <1>1, Numbers
  <2> QED
    BY <1>1, <2>1, SelectedType DEF Shapes, Merging, Table, Empty
<1>4. /\ \A v \in waiting : ~Same(v, w) /\ ~Same(w, v)
      /\ \A a \in DOMAIN mutex : ~Same(w, mutex[a])
  BY <1>2, <1>3 DEF Merges, Range, Same
<1> HIDE DEF cached, kind, w
<1>5. \A n \in DOMAIN made : (Out(n)' <=> Out(n)) /\ (Newest(n)' <=> Newest(n))
  BY <1>2 DEF Out, Newest
<1>6. IsFiniteSet(waiting')
  BY <1>1, <1>2, FS_AddElement DEF Shapes
<1>7. /\ gets' \in [Queries -> [step : {"none", "asked", "answered"}, rows : Table]]
      /\ \A p \in Queries : p # q => gets'[p] = gets[p]
      /\ \A p \in Queries : gets'[p].step = "answered" => gets'[p] = gets[p]
  BY <1>1, <1>2, <1>3 DEF Shapes
<1>8. Shapes'
  BY <1>1, <1>2, <1>3, <1>6, <1>7 DEF Shapes
<1>9. Turns'
  BY <1>1, <1>2, <1>3, <1>4, <1>7 DEF Turns
<1>10. Ours' /\ Shielded' /\ Held'
  BY <1>1, <1>2, <1>5 DEF Ours, Shielded, Held
<1>12. Posted' /\ Delivered' /\ Echoed'
  BY <1>1, <1>2, <1>5 DEF Posted, Delivered, Echoed, Fresh, Settled, Shapes
<1>11. Showing'
  BY <1>1, <1>2, <1>5, <1>7 DEF Showing, Settled
<1> QED
  BY <1>8, <1>9, <1>10, <1>11, <1>12 DEF IInv

LEMMA GetFailsKeeps ==
  ASSUME IInv, NEW q \in Queries, GetFails(q)
  PROVE  IInv'
<1>1. /\ Shapes /\ Turns /\ Ours /\ Shielded /\ Held /\ Showing
      /\ Posted /\ Delivered /\ Echoed
  BY DEF IInv
<1>2. /\ waiting' = waiting \ Waiting(q) /\ gets' = [gets EXCEPT ![q] = NoGet]
      /\ UNCHANGED <<local, server, made, saves, queued, flush, posts, applied, mutex, exposed>>
  BY DEF GetFails, After
<1>3. NoGet.step = "none" /\ NoGet \in [step : {"none", "asked", "answered"}, rows : Table]
  <2>1. 0 \in Rows
    BY <1>1, Numbers
  <2> QED
    BY <2>1 DEF NoGet, Empty, Table
<1>4. \A n \in DOMAIN made : (Out(n)' <=> Out(n)) /\ (Newest(n)' <=> Newest(n))
  BY <1>2 DEF Out, Newest
<1>5. IsFiniteSet(waiting') /\ waiting' \subseteq waiting
  BY <1>1, <1>2, FS_Subset DEF Shapes
<1>6. Shapes'
  BY <1>1, <1>2, <1>3, <1>5 DEF Shapes
<1>7. Turns'
  BY <1>1, <1>2, <1>3, <1>5 DEF Turns, Waiting, Shapes
<1>8. Ours' /\ Shielded' /\ Held'
  BY <1>1, <1>2, <1>4 DEF Ours, Shielded, Held
<1>10. Posted' /\ Delivered' /\ Echoed'
  BY <1>1, <1>2, <1>4 DEF Posted, Delivered, Echoed, Fresh, Settled, Shapes
<1>9. Showing'
  BY <1>1, <1>2, <1>3, <1>4 DEF Showing, Settled, Shapes
<1> QED
  BY <1>6, <1>7, <1>8, <1>9, <1>10 DEF IInv

\* Those who waited for the GET come to wait for the lock, with its rows.
LEMMA ArriveKeeps ==
  ASSUME IInv, NEW q \in Queries, Arrive(q)
  PROVE  IInv'
<1>1. /\ Shapes /\ Turns /\ Ours /\ Shielded /\ Held /\ Showing
      /\ Posted /\ Delivered /\ Echoed
  BY DEF IInv
<1> DEFINE differing == {m \in Waiting(q) : m.kind = "revalidate" => m.rows # gets[q].rows}
<1>2. /\ gets[q].step = "answered"
      /\ waiting' = waiting \ Waiting(q) /\ gets' = [gets EXCEPT ![q] = NoGet]
      /\ UNCHANGED <<local, server, made, saves, queued, flush, posts, applied, exposed>>
  BY DEF Arrive, After
<1>3. PICK order \in SetToSeqs(differing) :
        mutex' = mutex \o [n \in DOMAIN order |-> [order[n] EXCEPT !.rows = gets[q].rows]]
  BY DEF Arrive
<1> DEFINE count == Cardinality(differing)
           come == [n \in DOMAIN order |-> [order[n] EXCEPT !.rows = gets[q].rows]]
<1>4. count \in Nat
  <2>1. IsFiniteSet(differing)
    BY <1>1, FS_Subset DEF Waiting, Shapes
  <2> QED
    BY <2>1, FS_CardinalityType
<1>5. /\ order \in [1..count -> differing] /\ DOMAIN order = 1..count
      /\ \A a, b \in 1..count : order[a] = order[b] => a = b
  BY DEF SetToSeqs
<1>6. \A w \in differing : w \in waiting /\ w \in Merging /\ w.query = q /\ ~w.held
  BY <1>1 DEF Waiting, Shapes, Turns
<1> HIDE DEF differing, count
<1>7. \A a \in 1..count : order[a] \in waiting /\ order[a] \in Merging /\ order[a].query = q
  BY <1>5, <1>6
<1>8. gets[q].rows \in Table
  BY <1>1 DEF Shapes
<1>9. \A a \in 1..count : /\ come[a] \in Merging /\ Same(come[a], order[a]) /\ ~come[a].held
                          /\ come[a].kind # "echo"
                          /\ come[a].query = q /\ come[a].rows = gets[q].rows
  <2> TAKE a \in 1..count
  <2>1. come[a] = [order[a] EXCEPT !.rows = gets[q].rows]
    BY <1>5
  <2>2. order[a] \in Merging /\ order[a].query = q /\ ~order[a].held
    BY <1>5, <1>6
  <2> QED
    BY <1>8, <2>1, <2>2 DEF Merging, Same
<1>10. come \in Seq(Merging \cup EchoTurns) /\ Len(come) = count
  <2>1. DOMAIN come = 1..count
    BY <1>5
  <2>2. come \in [1..count -> Merging \cup EchoTurns]
    BY <1>5, <1>9, <2>1
  <2> QED
    BY <1>4, <2>2, IsASeq, LenProperties
<1> HIDE DEF come
<1> DEFINE L == Len(mutex)
<1>11. mutex \in Seq(Merging \cup EchoTurns) /\ L \in Nat /\ DOMAIN mutex = 1..L
  BY <1>1 DEF Shapes
<1>12. /\ mutex' \in Seq(Merging \cup EchoTurns) /\ Len(mutex') = L + count
       /\ \A a \in 1..(L + count) : mutex'[a] = IF a <= L THEN mutex[a] ELSE come[a - L]
  <2>1. mutex' = mutex \o come
    BY <1>3 DEF come
  <2> QED
    BY <1>10, <1>11, <2>1, ConcatProperties
<1>13. DOMAIN mutex' = 1..(L + count)
  BY <1>12, LenProperties
<1> HIDE DEF L
<1>14. /\ \A a \in DOMAIN mutex : a \in DOMAIN mutex' /\ mutex'[a] = mutex[a]
       /\ \A a \in DOMAIN mutex' \ DOMAIN mutex : a - L \in 1..count /\ mutex'[a] = come[a - L]
       /\ \A a, b \in DOMAIN mutex' : a - L = b - L => a = b
  BY <1>4, <1>11, <1>12, <1>13
<1>15. \A a \in DOMAIN mutex' \ DOMAIN mutex :
         /\ ~mutex'[a].held /\ mutex'[a].kind # "echo" /\ mutex'[a].query # "flush"
         /\ mutex'[a].query = q /\ mutex'[a].rows = gets[q].rows
         /\ \A b \in DOMAIN mutex : ~Same(mutex'[a], mutex[b]) /\ ~Same(mutex[b], mutex'[a])
         /\ \A b \in DOMAIN mutex' \ DOMAIN mutex : Same(mutex'[a], mutex'[b]) => a = b
  <2> SUFFICES ASSUME NEW a \in DOMAIN mutex' \ DOMAIN mutex
               PROVE  /\ ~mutex'[a].held /\ mutex'[a].kind # "echo" /\ mutex'[a].query # "flush"
                      /\ mutex'[a].query = q /\ mutex'[a].rows = gets[q].rows
                      /\ \A b \in DOMAIN mutex : ~Same(mutex'[a], mutex[b]) /\ ~Same(mutex[b], mutex'[a])
                      /\ \A b \in DOMAIN mutex' \ DOMAIN mutex : Same(mutex'[a], mutex'[b]) => a = b
    OBVIOUS
  <2>1. a - L \in 1..count /\ mutex'[a] = come[a - L]
    BY <1>14
  <2>2. \A b \in DOMAIN mutex : ~Same(mutex'[a], mutex[b]) /\ ~Same(mutex[b], mutex'[a])
    BY <1>1, <1>7, <1>9, <2>1 DEF Turns, Same
  <2>3. ASSUME NEW b \in DOMAIN mutex' \ DOMAIN mutex, Same(mutex'[a], mutex'[b])
        PROVE  a = b
    <3>1. b - L \in 1..count /\ mutex'[b] = come[b - L]
      BY <1>14
    <3>2. Same(order[a - L], order[b - L])
      BY <1>9, <2>1, <2>3, <3>1 DEF Same
    <3>3. order[a - L] = order[b - L]
      BY <1>1, <1>7, <2>1, <3>1, <3>2 DEF Turns
    <3> QED
      BY <1>5, <1>14, <2>1, <3>1, <3>3
  <2> QED
    BY <1>9, <2>1, <2>2, <2>3, StoreAssumption
<1>16. NoGet.step = "none" /\ NoGet \in [step : {"none", "asked", "answered"}, rows : Table]
  <2>1. 0 \in Rows
    BY <1>1, Numbers
  <2> QED
    BY <2>1 DEF NoGet, Empty, Table
<1>17. \A n \in DOMAIN made : (Out(n)' <=> Out(n)) /\ (Newest(n)' <=> Newest(n))
  BY <1>2 DEF Out, Newest
<1>18. IsFiniteSet(waiting') /\ waiting' \subseteq waiting /\ \A w \in waiting' : w.query # q
  BY <1>1, <1>2, FS_Subset DEF Shapes, Waiting
<1>19. Shapes'
  BY <1>1, <1>2, <1>12, <1>16, <1>18 DEF Shapes
<1>20. Turns'
  <2>1. \A a, b \in DOMAIN mutex' :
          Same(mutex'[a], mutex'[b]) => a = b \/ mutex'[a].query = "post"
    BY <1>1, <1>14, <1>15 DEF Turns
  <2>2. \A w \in waiting' : ~w.held /\ \A a \in DOMAIN mutex' : ~Same(w, mutex'[a])
    BY <1>1, <1>14, <1>15, <1>18 DEF Turns, Same
  <2>3. \A a \in DOMAIN mutex' : /\ mutex'[a].held => a = 1
                                 /\ mutex'[a].kind = "echo" => Echo
                                 /\ mutex'[a].query = "flush" => flush'.step = "settled"
    BY <1>1, <1>2, <1>14, <1>15 DEF Turns
  <2>4. \A p \in Queries : gets'[p].step # "none" => \E w \in waiting' : w.query = p
    BY <1>1, <1>2, <1>16 DEF Turns, Shapes, Waiting
  <2> QED
    BY <1>1, <1>18, <2>1, <2>2, <2>3, <2>4 DEF Turns
<1>21. Ours' /\ Shielded' /\ Posted' /\ Delivered'
  BY <1>1, <1>2, <1>17 DEF Ours, Shielded, Posted, Delivered, Fresh, Shapes
<1>24. Echoed'
  <2>1. \A n \in DOMAIN made : Settled(n)' => Settled(n)
    BY <1>2, <1>17 DEF Settled
  <2>2. \A a \in DOMAIN mutex' : mutex'[a].kind = "echo" => a \in DOMAIN mutex /\ mutex'[a] = mutex[a]
    BY <1>14, <1>15
  <2> QED
    BY <1>1, <1>2, <2>1, <2>2 DEF Echoed, Fresh
<1>22. Held'
  <2> SUFFICES ASSUME mutex' # <<>>, mutex'[1].held
               PROVE  mutex # <<>> /\ mutex'[1] = mutex[1]
    BY <1>1, <1>2, <1>17 DEF Held
  <2>1. 1 \in DOMAIN mutex'
    BY <1>12, <1>13
  <2>2. 1 \in DOMAIN mutex
    BY <1>15, <2>1
  <2> QED
    BY <1>14, <2>2
<1>23. Showing'
  <2>1. \A n \in DOMAIN made : Settled(n)' => Settled(n)
    BY <1>2, <1>17 DEF Settled
  <2> QED
    BY SMTT(60), <1>1, <1>2, <1>14, <1>15, <1>16, <2>1 DEF Showing, Shapes
<1> QED
  BY <1>19, <1>20, <1>21, <1>22, <1>23, <1>24 DEF IInv

\* Whoever takes the lock keeps every unsynced change it found; the others are exposed.
LEMMA ClassifyKeeps ==
  ASSUME IInv, Classify
  PROVE  IInv'
<1>1. /\ Shapes /\ Turns /\ Ours /\ Shielded /\ Held /\ Showing
      /\ Posted /\ Delivered /\ Echoed
  BY DEF IInv
<1>2. PICK keys \in UnsyncedKeys :
        /\ mutex' = [mutex EXCEPT ![1].held = TRUE, ![1].kept = keys]
        /\ exposed' = exposed \cup {n \in Unsynced : made[n].id \notin keys}
  BY DEF Classify
<1>3. /\ mutex # <<>> /\ Head(mutex).kind # "echo"
      /\ UNCHANGED <<local, server, made, saves, queued, flush, posts, applied, gets, waiting>>
  BY DEF Classify
<1> DEFINE turn == [mutex[1] EXCEPT !.held = TRUE, !.kept = keys]
<1>4. keys \subseteq Ids
  BY DEF UnsyncedKeys
<1>5. 1 \in DOMAIN mutex /\ mutex[1] \in Merging /\ mutex \in Seq(Merging \cup EchoTurns)
  BY <1>1, <1>3, FirstTurn DEF EchoTurns, Shapes
<1>6. /\ turn \in Merging /\ Same(turn, mutex[1]) /\ turn.held = TRUE /\ turn.kept = keys
      /\ turn.rows = mutex[1].rows /\ turn.query = mutex[1].query /\ turn.kind = mutex[1].kind
  BY <1>4, <1>5 DEF Merging, Same
<1>7. mutex' = [mutex EXCEPT ![1] = turn]
  BY <1>2, <1>5
<1> HIDE DEF turn
<1>8. /\ mutex' \in Seq(Merging \cup EchoTurns) /\ Len(mutex') = Len(mutex)
      /\ \A a \in 1..Len(mutex) : mutex'[a] = IF a = 1 THEN turn ELSE mutex[a]
  <2>1. DOMAIN mutex = 1..Len(mutex)
    BY <1>5
  <2> QED
    BY <1>5, <1>6, <1>7, <2>1, ExceptSeq
<1>9. /\ DOMAIN mutex' = DOMAIN mutex
      /\ mutex'[1] = turn
      /\ \A a \in DOMAIN mutex : /\ a # 1 => mutex'[a] = mutex[a]
                                 /\ Same(mutex'[a], mutex[a]) /\ mutex'[a].rows = mutex[a].rows
  BY <1>5, <1>6, <1>8, LenProperties DEF Same
<1>10. \A n \in DOMAIN made : (Out(n)' <=> Out(n)) /\ (Newest(n)' <=> Newest(n))
  BY <1>3 DEF Out, Newest
<1>11. /\ exposed \subseteq exposed' /\ exposed' \subseteq DOMAIN made
       /\ \A n \in DOMAIN made : Out(n) /\ n \notin exposed' => made[n].id \in keys
  BY <1>1, <1>2, UnsyncedOut DEF Shapes
<1>12. Shapes'
  BY <1>1, <1>3, <1>8, <1>11 DEF Shapes
<1>13. Turns'
  BY <1>1, <1>3, <1>5, <1>9 DEF Turns, Same
<1>14. Ours' /\ Posted' /\ Delivered'
  BY <1>1, <1>3, <1>10 DEF Ours, Posted, Delivered, Fresh, Shapes
<1>15. Shielded' /\ Held'
  BY <1>1, <1>3, <1>6, <1>9, <1>10, <1>11 DEF Shielded, Held
<1>16. Showing' /\ Echoed'
  <2>1. \A n \in DOMAIN made : Settled(n)' => Settled(n)
    BY <1>3, <1>10, <1>11 DEF Settled
  <2> QED
    BY <1>1, <1>3, <1>9, <2>1 DEF Showing, Same, Echoed, Fresh
<1> QED
  BY <1>12, <1>13, <1>14, <1>15, <1>16 DEF IInv

\* What the holder writes keeps the unsynced changes it kept, and brings the settled
\* ones that the server has.
LEMMA MergeKeeps ==
  ASSUME IInv, Merge
  PROVE  IInv'
<1>1. /\ Shapes /\ Turns /\ Ours /\ Shielded /\ Held /\ Showing
      /\ Posted /\ Delivered /\ Echoed
  BY DEF IInv
<1> DEFINE m == mutex[1]
           existing == Existing(m)
<1>2. /\ mutex # <<>> /\ m.held /\ mutex' = Tail(mutex)
      /\ UNCHANGED <<server, made, saves, queued, flush, posts, applied, gets, waiting, exposed>>
      /\ Head(mutex) = m
  BY <1>1, FirstTurn DEF Merge, Unlocked
<1>3. local' = local \/ local' = Merged(m, existing)
  BY <1>2 DEF Merge
<1>4. 1 \in DOMAIN mutex /\ m \in Merging /\ m.kind # "echo" /\ m.rows \in Table
  BY <1>1, <1>2, FirstTurn DEF EchoTurns, Merging
<1>5. \A i \in Ids : existing[i] = IF m.kind = "miss" THEN 0 ELSE Of(m.query, local[i])
  BY <1>1, SelectedType DEF Existing, Empty, Shapes
<1> HIDE DEF existing
<1>6. /\ mutex' \in Seq(Merging \cup EchoTurns)
      /\ \A a \in DOMAIN mutex' : a + 1 \in DOMAIN mutex /\ a + 1 # 1 /\ mutex'[a] = mutex[a + 1]
      /\ \A a, b \in DOMAIN mutex' : a + 1 = b + 1 => a = b
  BY <1>1, <1>2, TurnOver
<1>7. \A n \in DOMAIN made : /\ (Out(n)' <=> Out(n)) /\ (Newest(n)' <=> Newest(n))
                             /\ made[n].id \in Ids /\ made[n].row \in Rows
  BY <1>1, <1>2, Numbers DEF Out, Newest, Change
<1>8. local' \in Table
  <2>1. 0 \in Rows
    BY <1>1, Numbers
  <2>2. Merged(m, existing) \in Table
    BY <1>1, <1>4, <2>1 DEF Merged, Shapes, Table
  <2> QED
    BY <1>1, <1>3, <2>2 DEF Shapes
<1>9. \A i \in m.kept : i \in Ids => local'[i] = local[i]
  BY <1>3 DEF Merged
<1>10. ASSUME NEW n \in DOMAIN made, Settled(n)
       PROVE  local'[made[n].id] = made[n].row
  <2> DEFINE i == made[n].id
             row == made[n].row
  <2>1. i \in Ids /\ local[i] = row /\ m.rows[i] = Of(m.query, row)
    BY <1>1, <1>4, <1>7, <1>10 DEF Showing
  <2>2. existing[i] # 0 => existing[i] = Of(m.query, row)
    BY <1>5, <2>1
  <2>3. Of(m.query, row) # 0 => Of(m.query, row) = row
    BY DEF Of
  <2> HIDE DEF i, row
  <2>4. Merged(m, existing)[i] = row
    BY <2>1, <2>2, <2>3 DEF Merged
  <2> QED
    BY <1>3, <2>1, <2>4 DEF i, row
<1>11. Shapes'
  BY <1>1, <1>2, <1>6, <1>8 DEF Shapes
<1>12. \A a \in DOMAIN mutex' : ~mutex'[a].held
  BY <1>1, <1>6 DEF Turns
<1>13. Turns'
  BY <1>1, <1>2, <1>6, <1>12 DEF Turns
<1>14. Ours' /\ Posted' /\ Delivered'
  BY <1>1, <1>2, <1>7 DEF Ours, Posted, Delivered, Fresh, Shapes
<1>15. Shielded'
  BY <1>1, <1>2, <1>7, <1>9 DEF Shielded, Held
<1>16. Held'
  <2>1. mutex' # <<>> => 1 \in DOMAIN mutex'
    BY <1>6
  <2> QED
    BY <1>12, <2>1 DEF Held
<1>17. Showing' /\ Echoed'
  <2>1. \A n \in DOMAIN made : Settled(n)' => Settled(n)
    BY <1>2, <1>7 DEF Settled
  <2> QED
    BY <1>1, <1>2, <1>6, <1>10, <2>1 DEF Showing, Echoed, Fresh
<1> QED
  BY <1>11, <1>13, <1>14, <1>15, <1>16, <1>17 DEF IInv

-----------------------------------------------------------------------------
(* The theorems.                                                            *)

LEMMA InitIInv == Init => IInv
<1> SUFFICES ASSUME Init PROVE IInv
  OBVIOUS
<1>1. 0 \in Rows /\ Seed \in Rows
  BY StoreAssumption DEF Rows, Seed
<1>2. Empty \in Table /\ server \in Table /\ local \in Table
  BY <1>1 DEF Init, Empty, Table
<1>3. /\ made = <<>> /\ saves = {} /\ applied = {} /\ exposed = {}
      /\ queued = Empty /\ flush = Idle /\ posts = {}
      /\ gets = [q \in Queries |-> NoGet] /\ waiting = {} /\ mutex = <<>>
  BY DEF Init
<1>4. /\ made \in Seq(Change) /\ Len(made) <= MaxChanges /\ DOMAIN made = {}
      /\ mutex \in Seq(Merging \cup EchoTurns) /\ DOMAIN mutex = {}
  BY <1>3, StoreAssumption
<1>5. flush \in [step : {"idle", "landed", "settled"}, changes : SUBSET DOMAIN made, rows : Table]
  BY <1>2, <1>3 DEF Idle
<1>6. Shapes
  BY <1>2, <1>3, <1>4, <1>5, FS_EmptySet DEF Shapes, NoGet, Empty, Table
<1>7. Turns
  BY <1>3, <1>4 DEF Turns, NoGet
<1>8. Ours /\ Shielded /\ Held /\ Showing /\ Posted /\ Delivered /\ Echoed
  BY <1>3, <1>4 DEF Ours, Shielded, Held, Showing, Posted, Delivered, Echoed, Empty, Idle
<1> QED
  BY <1>6, <1>7, <1>8 DEF IInv

LEMMA NextIInv == IInv /\ [Next]_vars => IInv'
<1> SUFFICES ASSUME IInv, [Next]_vars PROVE IInv'
  OBVIOUS
<1>1. ASSUME NEW i \in Ids, Save(i) PROVE IInv'
  BY <1>1, SaveKeeps
<1>2. ASSUME NEW i \in Ids, Bury(i) PROVE IInv'
  BY <1>2, BuryKeeps
<1>3. ASSUME NEW i \in Ids, WriteElsewhere(i) PROVE IInv'
  BY <1>3, WriteElsewhereKeeps
<1>4. CASE Record
  BY <1>4, RecordKeeps
<1>5. CASE FlushLands
  BY <1>5, FlushLandsKeeps
<1>6. CASE FlushUnheard
  BY <1>6, FlushUnheardKeeps
<1>7. CASE FlushSettles
  BY <1>7, FlushSettlesKeeps
<1>8. CASE Reconcile
  BY <1>8, ReconcileKeeps
<1>9. ASSUME NEW q \in Queries, Ask(q) PROVE IInv'
  BY <1>9, AskKeeps
<1>10. ASSUME NEW q \in Queries, Answer(q) PROVE IInv'
  BY <1>10, AnswerKeeps
<1>11. ASSUME NEW q \in Queries, Arrive(q) PROVE IInv'
  BY <1>11, ArriveKeeps
<1>12. ASSUME NEW q \in Queries, GetFails(q) PROVE IInv'
  BY <1>12, GetFailsKeeps
<1>13. CASE Classify
  BY <1>13, ClassifyKeeps
<1>14. CASE Merge
  BY <1>14, MergeKeeps
<1>15. ASSUME NEW p \in posts, PostLands(p) PROVE IInv'
  BY <1>15, PostLandsKeeps
<1>16. ASSUME NEW p \in posts, PostSettles(p) PROVE IInv'
  BY <1>16, PostSettlesKeeps
<1>17. CASE UNCHANGED vars
  BY <1>17 DEF vars, IInv, Shapes, Turns, Ours, Out, Shielded, Newest, Held, Showing, Settled,
               Posted, Delivered, Echoed, Fresh
<1> QED
  BY <1>1, <1>2, <1>3, <1>4, <1>5, <1>6, <1>7, <1>8, <1>9, <1>10, <1>11, <1>12, <1>13, <1>14,
     <1>15, <1>16, <1>17
  DEF Next

LEMMA Invariant == Spec => []IInv
BY InitIInv, NextIInv, PTL DEF Spec

\* Every variable has its type; storeMutex has at most one holder, the first of those
\* who came, and nobody awaits it twice (KeyedMutex.run, RequestPacer.share).
THEOREM TypeCorrect == Spec => []TypeOK
<1>1. IInv => TypeOK
  <2> SUFFICES ASSUME IInv PROVE TypeOK
    OBVIOUS
  <2>1. Shapes /\ Turns
    BY DEF IInv
  <2>2. Merges \subseteq Merging
    <3>1. \A a \in DOMAIN mutex : mutex[a].kind # "echo" => mutex[a] \in Merging
      <4>1. \A a \in DOMAIN mutex : mutex[a] \in Merging \cup EchoTurns
        BY <2>1 DEF Shapes
      <4>2. \A m \in EchoTurns : m.kind = "echo"
        BY DEF EchoTurns
      <4> QED
        BY <4>1, <4>2
    <3> QED
      BY <2>1, <3>1 DEF Merges, Range, Shapes
  <2>3. ASSUME mutex # <<>>, NEW m \in Range(Tail(mutex)) PROVE ~m.held
    <3>1. /\ Len(Tail(mutex)) = Len(mutex) - 1 /\ Len(mutex) \in Nat /\ DOMAIN mutex = 1..Len(mutex)
          /\ DOMAIN Tail(mutex) = 1..Len(Tail(mutex))
          /\ \A a \in 1..Len(Tail(mutex)) : Tail(mutex)[a] = mutex[a + 1]
      BY <2>1, <2>3, HeadTailProperties, LenProperties DEF Shapes
    <3>2. PICK a \in 1..Len(Tail(mutex)) : m = Tail(mutex)[a]
      BY <2>3, <3>1 DEF Range
    <3>3. a + 1 \in DOMAIN mutex /\ a + 1 # 1
      BY <3>1
    <3> QED
      BY <2>1, <3>1, <3>2, <3>3 DEF Turns
  <2> QED
    BY <2>1, <2>2, <2>3 DEF Shapes, Turns, Same, TypeOK, Table, Change, Merging
<1> QED
  BY <1>1, Invariant, PTL

\* classifyRevalidateChanges under storeMutex: but for the two named races, which expose
\* it, the newest change of an entity is what the store shows as long as it is unsynced,
\* whatever GETs answer and in whatever order merges and echoes come.
THEOREM UnsyncedIsShielded == Spec => []UnsyncedShielded
<1>1. IInv => UnsyncedShielded
  BY UnsyncedOut DEF IInv, Shielded, UnsyncedShielded
<1> QED
  BY <1>1, Invariant, PTL

\* flushUnsynced, bulkPersistAsync and runRevalidate: a confirmed change stays in the
\* store while the server holds it and nobody changes its entity here, unless, when it
\* was confirmed, a GET was out or another POST's echo of another row was on its way.
THEOREM ConfirmedStays == Spec => []ConfirmedStaysLocal
<1>1. IInv => ConfirmedStaysLocal
  <2> SUFFICES ASSUME IInv, NEW n \in applied, n \notin Unsynced, n \notin exposed, Newest(n),
                      server[made[n].id] = n
               PROVE  local[made[n].id] = made[n].row
    BY DEF ConfirmedStaysLocal
  <2>1. n \in DOMAIN made /\ ~Out(n)
    BY UnsyncedOut DEF IInv, Shapes
  <2> QED
    BY <2>1 DEF IInv, Showing, Settled
<1> QED
  BY <1>1, Invariant, PTL

-----------------------------------------------------------------------------
(* FlushScheduler, which decides when the unsynced changes are sent.        *)

Following == {"pass to follow", "follow"}
Clearing == {"pass to clear", "clear"}
Does == Following \cup Clearing \cup {"adopt", "resolve", "answer"}
JobSet == [do : Does, flush : Nat, who : Seq(Callers)]

-----------------------------------------------------------------------------
(* Tokens.                                                                  *)

Elements(s) == {s[n] : n \in DOMAIN s}
Distinct(s) == \A n, m \in DOMAIN s : n # m => s[n] # s[m]

Awaits(c) == <<"awaits", c>>
Follows == <<"follows", 0>>

Awaited(who) == {Awaits(c) : c \in Elements(who)}
Holds(j) == Awaited(j.who) \cup (IF j.do \in Following THEN {Follows} ELSE {})
HeldBy(s) == UNION {Holds(j) : j \in Elements(s)}

\* No token is held twice in one sequence of jobs.
Exclusive(s) ==
  /\ \A n, m \in DOMAIN s : n # m => Holds(s[n]) \cap Holds(s[m]) = {}
  /\ \A n \in DOMAIN s : Distinct(s[n].who)

Everything(q, rs) == HeldBy(q) \cup UNION {HeldBy(rs[f]) : f \in DOMAIN rs}
Free(tokens, q, rs, who) == tokens \cap (Everything(q, rs) \cup Awaited(who)) = {}

\* Nor in two of: the jobs q, the reactions rs of each flush, the follow-up.
Excl(q, rs, who) ==
  /\ Exclusive(q) /\ Distinct(who)
  /\ \A f \in DOMAIN rs : Exclusive(rs[f]) /\ HeldBy(q) \cap HeldBy(rs[f]) = {}
  /\ \A f, g \in DOMAIN rs : f # g => HeldBy(rs[f]) \cap HeldBy(rs[g]) = {}
  /\ Awaited(who) \cap Everything(q, rs) = {}

-----------------------------------------------------------------------------
(* The inductive invariant, of the jobs queued.                             *)

TypesHold ==
  /\ flushes \in Seq(Steps)
  /\ inFlight \in {0} \cup DOMAIN flushes
  /\ followUp \in [set : BOOLEAN, who : Seq(Callers)]
  /\ reactions \in Seq(Seq(JobSet)) /\ Len(reactions) = Len(flushes)
  /\ asked \in [Callers -> BOOLEAN]
  /\ begun \in [Callers -> SUBSET DOMAIN flushes]
  /\ destroyed \in BOOLEAN /\ jumped \in BOOLEAN

Bounded == Len(flushes) + (IF followUp.set THEN 1 ELSE 0) <= MaxFlushes

\* A job is of a flush that was started, its callers wait and asked before that
\* flush began; one that starts the follow-up is of the flush in flight, unless
\* it was cleared since.
JobOK(j) ==
  /\ j.flush \in DOMAIN flushes
  /\ j.do = "answer" => Len(j.who) = 1
  /\ \A c \in Elements(j.who) : asked[c] /\ j.flush \notin begun[c]
  /\ j.do \in Following /\ ~jumped => inFlight \in {0, j.flush}

\* What clears or follows a flush is queued when it has settled.
QueuedOK(j) ==
  JobOK(j) /\ (j.do \in Following \cup Clearing => flushes[j.flush] = "settled")
JobsOK(q) == q \in Seq(JobSet) /\ \A j \in Elements(q) : QueuedOK(j)

ReactionsOK ==
  \A f \in DOMAIN flushes :
    /\ flushes[f] = "settled" => reactions[f] = <<>>
    /\ \A j \in Elements(reactions[f]) : JobOK(j) /\ j.flush = f

Exclusion(q) == Excl(q, reactions, followUp.who)
OneFollows(q) == followUp.set <=> Follows \in Everything(q, reactions)
FollowersWait == \A c \in Elements(followUp.who) : asked[c]

\* Unless a caller jumped the follow-up, only the flush in flight is unsettled.
OneUnsettled ==
  ~jumped => \A f \in DOMAIN flushes : flushes[f] # "settled" => f = inFlight

Sound(q) ==
  /\ TypesHold /\ Bounded /\ JobsOK(q) /\ ReactionsOK /\ Exclusion(q) /\ OneFollows(q)
  /\ FollowersWait /\ OneUnsettled

SchedulerIInv == Sound(jobs)

-----------------------------------------------------------------------------
(* Lemmas about sequences of jobs and the tokens they hold.                 *)

LEMMA ConcatElements ==
  ASSUME NEW S, NEW s \in Seq(S), NEW t \in Seq(S)
  PROVE  /\ s \o t \in Seq(S)
         /\ Elements(s \o t) = Elements(s) \cup Elements(t)
<1>1. /\ s \o t \in Seq(S) /\ Len(s \o t) = Len(s) + Len(t)
      /\ Len(s) \in Nat /\ Len(t) \in Nat
      /\ DOMAIN s = 1..Len(s) /\ DOMAIN t = 1..Len(t) /\ DOMAIN (s \o t) = 1..Len(s \o t)
      /\ \A n \in 1..Len(s) + Len(t) :
           (s \o t)[n] = IF n <= Len(s) THEN s[n] ELSE t[n - Len(s)]
  BY ConcatProperties, LenProperties
<1>2. ASSUME NEW n \in DOMAIN (s \o t) PROVE (s \o t)[n] \in Elements(s) \cup Elements(t)
  <2>1. CASE n <= Len(s)
    BY <1>1, <2>1 DEF Elements
  <2>2. CASE ~(n <= Len(s))
    <3>1. n - Len(s) \in DOMAIN t /\ (s \o t)[n] = t[n - Len(s)]
      BY <1>1, <2>2
    <3>2. QED BY <3>1 DEF Elements
  <2>3. QED BY <2>1, <2>2
<1>3. ASSUME NEW n \in DOMAIN s PROVE s[n] \in Elements(s \o t)
  <2>1. n \in DOMAIN (s \o t) /\ (s \o t)[n] = s[n]
    BY <1>1
  <2>2. QED BY <2>1 DEF Elements
<1>4. ASSUME NEW n \in DOMAIN t PROVE t[n] \in Elements(s \o t)
  <2>1. n + Len(s) \in DOMAIN (s \o t) /\ (s \o t)[n + Len(s)] = t[n]
    BY <1>1
  <2>2. QED BY <2>1 DEF Elements
<1>5. QED BY <1>1, <1>2, <1>3, <1>4 DEF Elements

LEMMA OneElement ==
  ASSUME NEW S, NEW e \in S
  PROVE  <<e>> \in Seq(S) /\ Elements(<<e>>) = {e} /\ Len(<<e>>) = 1
BY DEF Elements

LEMMA AppendElements ==
  ASSUME NEW S, NEW s \in Seq(S), NEW e \in S
  PROVE  /\ Append(s, e) \in Seq(S)
         /\ Elements(Append(s, e)) = Elements(s) \cup {e}
<1>1. Append(s, e) = s \o <<e>>
  BY AppendIsConcat
<1>2. <<e>> \in Seq(S) /\ Elements(<<e>>) = {e}
  BY OneElement
<1>3. s \o <<e>> \in Seq(S) /\ Elements(s \o <<e>>) = Elements(s) \cup Elements(<<e>>)
  BY ZenonT(60), <1>2, ConcatElements
<1>4. QED BY <1>1, <1>2, <1>3

LEMMA PrependElements ==
  ASSUME NEW S, NEW e \in S, NEW t \in Seq(S)
  PROVE  Elements(<<e>> \o t) = {e} \cup Elements(t)
<1>1. ASSUME NEW s \in Seq(S), Elements(s) = {e}
      PROVE  Elements(s \o t) = {e} \cup Elements(t)
  BY <1>1, ConcatElements
<1>2. <<e>> \in Seq(S) /\ Elements(<<e>>) = {e}
  BY OneElement
<1>3. QED BY <1>1, <1>2

LEMMA HeadTailElements ==
  ASSUME NEW S, NEW s \in Seq(S), s # <<>>
  PROVE  /\ Head(s) \in S /\ Tail(s) \in Seq(S)
         /\ s = <<Head(s)>> \o Tail(s)
         /\ Elements(s) = {Head(s)} \cup Elements(Tail(s))
<1>1. Head(s) \in S /\ Tail(s) \in Seq(S)
  BY HeadTailProperties
<1>2. s = <<Head(s)>> \o Tail(s)
  BY HeadTailProperties, SubSeqRecursiveFirst, SubSeqFull, TailIsSubSeq
<1>3. Elements(<<Head(s)>> \o Tail(s)) = {Head(s)} \cup Elements(Tail(s))
  BY ZenonT(60), <1>1, PrependElements
<1>4. QED BY <1>1, <1>2, <1>3

LEMMA HeldByConcat ==
  ASSUME NEW s \in Seq(JobSet), NEW t \in Seq(JobSet)
  PROVE  HeldBy(s \o t) = HeldBy(s) \cup HeldBy(t)
BY ConcatElements DEF HeldBy

LEMMA HeldByOne ==
  ASSUME NEW j \in JobSet
  PROVE  HeldBy(<<j>>) = Holds(j)
<1>1. Elements(<<j>>) = {j}
  BY OneElement
<1>2. QED BY <1>1 DEF HeldBy

LEMMA HeldByNone == HeldBy(<<>>) = {} /\ Exclusive(<<>>) /\ Elements(<<>>) = {}
BY DEF HeldBy, Elements, Exclusive

LEMMA HeldByMember ==
  ASSUME NEW s, NEW n \in DOMAIN s
  PROVE  Holds(s[n]) \subseteq HeldBy(s)
BY DEF HeldBy, Elements

LEMMA ExclusiveConcat ==
  ASSUME NEW s \in Seq(JobSet), NEW t \in Seq(JobSet),
         Exclusive(s), Exclusive(t), HeldBy(s) \cap HeldBy(t) = {}
  PROVE  Exclusive(s \o t)
<1>1. /\ Len(s \o t) = Len(s) + Len(t)
      /\ Len(s) \in Nat /\ Len(t) \in Nat
      /\ DOMAIN s = 1..Len(s) /\ DOMAIN t = 1..Len(t) /\ DOMAIN (s \o t) = 1..Len(s \o t)
      /\ \A n \in 1..Len(s) + Len(t) :
           (s \o t)[n] = IF n <= Len(s) THEN s[n] ELSE t[n - Len(s)]
  BY ConcatProperties, LenProperties
<1>2. ASSUME NEW n \in DOMAIN (s \o t) 
      PROVE  \/ n \in DOMAIN s /\ (s \o t)[n] = s[n]
             \/ ~(n \in DOMAIN s) /\ n - Len(s) \in DOMAIN t /\ (s \o t)[n] = t[n - Len(s)]
  BY <1>1
<1>3. ASSUME NEW n \in DOMAIN (s \o t), NEW m \in DOMAIN (s \o t), n # m
      PROVE  Holds((s \o t)[n]) \cap Holds((s \o t)[m]) = {}
  <2>1. CASE n \in DOMAIN s /\ m \in DOMAIN s
    BY <1>2, <1>3, <2>1 DEF Exclusive
  <2>2. CASE n \in DOMAIN s /\ ~(m \in DOMAIN s)
    <3>1. /\ Holds((s \o t)[n]) \subseteq HeldBy(s)
          /\ Holds((s \o t)[m]) \subseteq HeldBy(t)
      BY <1>2, <2>2, HeldByMember
    <3>2. QED BY <3>1
  <2>3. CASE ~(n \in DOMAIN s) /\ m \in DOMAIN s
    <3>1. /\ Holds((s \o t)[m]) \subseteq HeldBy(s)
          /\ Holds((s \o t)[n]) \subseteq HeldBy(t)
      BY <1>2, <2>3, HeldByMember
    <3>2. QED BY <3>1
  <2>4. CASE ~(n \in DOMAIN s) /\ ~(m \in DOMAIN s)
    <3>1. /\ n - Len(s) \in DOMAIN t /\ (s \o t)[n] = t[n - Len(s)]
          /\ m - Len(s) \in DOMAIN t /\ (s \o t)[m] = t[m - Len(s)]
      BY <1>2, <2>4
    <3>2. n - Len(s) # m - Len(s)
      BY <1>1, <1>3
    <3>3. QED BY <3>1, <3>2 DEF Exclusive
  <2>5. QED BY <2>1, <2>2, <2>3, <2>4
<1>4. ASSUME NEW n \in DOMAIN (s \o t) PROVE Distinct((s \o t)[n].who)
  BY <1>2 DEF Exclusive
<1>5. QED BY <1>3, <1>4 DEF Exclusive

LEMMA ExclusiveOne ==
  ASSUME NEW j \in JobSet, Distinct(j.who)
  PROVE  Exclusive(<<j>>)
BY DEF Exclusive

LEMMA ExclusiveTail ==
  ASSUME NEW s \in Seq(JobSet), s # <<>>, Exclusive(s)
  PROVE  /\ Exclusive(Tail(s)) /\ Distinct(Head(s).who)
         /\ Holds(Head(s)) \cap HeldBy(Tail(s)) = {}
         /\ HeldBy(s) = Holds(Head(s)) \cup HeldBy(Tail(s))
<1>1. /\ Len(s) \in Nat /\ Len(s) > 0 /\ DOMAIN s = 1..Len(s) /\ Head(s) = s[1]
      /\ DOMAIN Tail(s) = 1..Len(s) - 1
      /\ \A n \in DOMAIN Tail(s) : Tail(s)[n] = s[n + 1]
  BY LenProperties, EmptySeq, HeadTailProperties
<1>2. \A n \in DOMAIN Tail(s) : n + 1 \in DOMAIN s /\ n + 1 # 1 /\ 1 \in DOMAIN s
  BY <1>1
<1>3. Exclusive(Tail(s))
  <2>1. ASSUME NEW n \in DOMAIN Tail(s), NEW m \in DOMAIN Tail(s), n # m
        PROVE  Holds(Tail(s)[n]) \cap Holds(Tail(s)[m]) = {}
    <3>1. n + 1 # m + 1
      BY <2>1, <1>1
    <3>2. QED BY <3>1, <1>1, <1>2 DEF Exclusive
  <2>2. \A n \in DOMAIN Tail(s) : Distinct(Tail(s)[n].who)
    BY <1>1, <1>2 DEF Exclusive
  <2>3. QED BY <2>1, <2>2 DEF Exclusive
<1>4. \A n \in DOMAIN Tail(s) : Holds(Head(s)) \cap Holds(Tail(s)[n]) = {}
  BY <1>1, <1>2 DEF Exclusive
<1>5. Holds(Head(s)) \cap HeldBy(Tail(s)) = {}
  BY <1>4 DEF HeldBy, Elements
<1>6. Distinct(Head(s).who)
  <2>1. 1 \in DOMAIN s
    BY <1>1
  <2>2. QED BY <1>1, <2>1 DEF Exclusive
<1>7. HeldBy(s) = Holds(Head(s)) \cup HeldBy(Tail(s))
  <2>1. Elements(s) = {Head(s)} \cup Elements(Tail(s))
    BY HeadTailElements
  <2>2. QED BY <2>1 DEF HeldBy
<1>8. QED BY <1>3, <1>5, <1>6, <1>7

-----------------------------------------------------------------------------
(* What a step does to the places tokens are held in: jobs are queued, a    *)
(* reaction is added or a flush's reactions are queued, a flush is started, *)
(* the first job is taken, a caller joins the follow-up.                    *)

LEMMA JobsQueued ==
  ASSUME NEW q \in Seq(JobSet), NEW rs \in Seq(Seq(JobSet)), NEW who, NEW s \in Seq(JobSet)
  PROVE  /\ Everything(q \o s, rs) = Everything(q, rs) \cup HeldBy(s)
         /\ Excl(q, rs, who) /\ Exclusive(s) /\ Free(HeldBy(s), q, rs, who)
              => Excl(q \o s, rs, who)
<1>1. HeldBy(q \o s) = HeldBy(q) \cup HeldBy(s)
  BY HeldByConcat
<1>2. Everything(q \o s, rs) = Everything(q, rs) \cup HeldBy(s)
  BY <1>1 DEF Everything
<1>3. ASSUME Excl(q, rs, who), Exclusive(s), Free(HeldBy(s), q, rs, who)
      PROVE  Excl(q \o s, rs, who)
  <2>1. Exclusive(q \o s)
    <3>1. Exclusive(q) /\ HeldBy(q) \cap HeldBy(s) = {}
      BY <1>3 DEF Excl, Free, Everything
    <3>2. QED BY <1>3, <3>1, ExclusiveConcat
  <2>2. \A f \in DOMAIN rs : HeldBy(q \o s) \cap HeldBy(rs[f]) = {}
    BY <1>1, <1>3 DEF Excl, Free, Everything
  <2>3. Awaited(who) \cap Everything(q \o s, rs) = {}
    BY <1>2, <1>3 DEF Excl, Free
  <2>4. QED BY <1>3, <2>1, <2>2, <2>3 DEF Excl
<1>4. QED BY <1>2, <1>3

WithReaction(rs, f, j) == [rs EXCEPT ![f] = Append(@, j)]

LEMMA ReactionAdded ==
  ASSUME NEW q \in Seq(JobSet), NEW rs \in Seq(Seq(JobSet)), NEW who,
         NEW f \in DOMAIN rs, NEW j \in JobSet
  PROVE  /\ WithReaction(rs, f, j) \in Seq(Seq(JobSet))
         /\ Len(WithReaction(rs, f, j)) = Len(rs)
         /\ Everything(q, WithReaction(rs, f, j)) = Everything(q, rs) \cup Holds(j)
         /\ Excl(q, rs, who) /\ Distinct(j.who) /\ Free(Holds(j), q, rs, who)
              => Excl(q, WithReaction(rs, f, j), who)
<1> DEFINE s == rs[f]
           t == Append(s, j)
           more == [rs EXCEPT ![f] = t]
<1>1. s \in Seq(JobSet)
  BY ElementOfSeq, LenProperties
<1>2. t = s \o <<j>> /\ t \in Seq(JobSet) /\ <<j>> \in Seq(JobSet)
  BY <1>1, AppendElements, AppendIsConcat, OneElement
<1>3. HeldBy(t) = HeldBy(s) \cup Holds(j)
  BY <1>1, <1>2, HeldByConcat, HeldByOne
<1>4. Exclusive(s) /\ Distinct(j.who) /\ HeldBy(s) \cap Holds(j) = {} => Exclusive(t)
  <2>1. ASSUME Exclusive(s), Distinct(j.who), HeldBy(s) \cap Holds(j) = {}
        PROVE  Exclusive(s \o <<j>>)
    BY <1>1, <1>2, <2>1, ExclusiveOne, HeldByOne, ExclusiveConcat
  <2>2. QED BY <1>2, <2>1
<1> HIDE DEF s, t
<1>5. /\ more \in Seq(Seq(JobSet)) /\ Len(more) = Len(rs)
      /\ DOMAIN more = DOMAIN rs
      /\ \A g \in DOMAIN rs : more[g] = IF g = f THEN t ELSE rs[g]
  BY <1>2, ExceptSeq
<1> HIDE DEF more
<1>6. rs[f] = s
  BY DEF s
<1>7. Everything(q, more) = Everything(q, rs) \cup Holds(j)
  <2>1. ASSUME NEW x PROVE x \in Everything(q, more) <=> x \in Everything(q, rs) \cup Holds(j)
    <3>1. x \in Everything(q, more) <=> x \in HeldBy(q) \/ \E g \in DOMAIN rs : x \in HeldBy(more[g])
      BY <1>5 DEF Everything
    <3>2. x \in Everything(q, rs) <=> x \in HeldBy(q) \/ \E g \in DOMAIN rs : x \in HeldBy(rs[g])
      BY DEF Everything
    <3>3. QED BY <3>1, <3>2, <1>5, <1>6, <1>3
  <2>2. QED BY <2>1
<1>8. ASSUME Excl(q, rs, who), Distinct(j.who), Free(Holds(j), q, rs, who)
      PROVE  Excl(q, more, who)
  <2>1. \A g \in DOMAIN rs : Holds(j) \cap HeldBy(rs[g]) = {}
    BY <1>8 DEF Free, Everything
  <2>2. Holds(j) \cap HeldBy(q) = {}
    BY <1>8 DEF Free, Everything
  <2>3. Exclusive(t)
    BY <1>4, <1>6, <1>8, <2>1 DEF Excl
  <2>4. ASSUME NEW g \in DOMAIN more
        PROVE  Exclusive(more[g]) /\ HeldBy(q) \cap HeldBy(more[g]) = {}
    BY <1>3, <1>5, <1>6, <1>8, <2>2, <2>3 DEF Excl
  <2>5. ASSUME NEW g \in DOMAIN more, NEW h \in DOMAIN more, g # h
        PROVE  HeldBy(more[g]) \cap HeldBy(more[h]) = {}
    BY <1>3, <1>5, <1>6, <1>8, <2>1, <2>5 DEF Excl
  <2>6. Awaited(who) \cap Everything(q, more) = {}
    BY <1>7, <1>8 DEF Excl, Free
  <2>7. QED BY <1>8, <2>4, <2>5, <2>6 DEF Excl
<1>9. more = WithReaction(rs, f, j)
  BY DEF more, t, s, WithReaction
<1>10. QED BY <1>5, <1>7, <1>8, <1>9

LEMMA FlushAdded ==
  ASSUME NEW q \in Seq(JobSet), NEW rs \in Seq(Seq(JobSet)), NEW who, NEW s \in Seq(JobSet)
  PROVE  /\ Everything(q, Append(rs, s)) = Everything(q, rs) \cup HeldBy(s)
         /\ Excl(q, rs, who) /\ Exclusive(s) /\ Free(HeldBy(s), q, rs, who)
              => Excl(q, Append(rs, s), who)
<1> DEFINE more == Append(rs, s)
           f == Len(rs) + 1
<1>1. /\ f \notin DOMAIN rs /\ DOMAIN more = DOMAIN rs \cup {f}
      /\ more[f] = s /\ \A g \in DOMAIN rs : more[g] = rs[g]
  BY AppendProperties, LenProperties
<1> HIDE DEF more, f
<1>2. Everything(q, more) = Everything(q, rs) \cup HeldBy(s)
  <2>1. ASSUME NEW x PROVE x \in Everything(q, more) <=> x \in Everything(q, rs) \cup HeldBy(s)
    <3>1. x \in Everything(q, more) <=> x \in HeldBy(q) \/ \E g \in DOMAIN more : x \in HeldBy(more[g])
      BY DEF Everything
    <3>2. x \in Everything(q, rs) <=> x \in HeldBy(q) \/ \E g \in DOMAIN rs : x \in HeldBy(rs[g])
      BY DEF Everything
    <3>3. QED BY <3>1, <3>2, <1>1
  <2>2. QED BY <2>1
<1>3. ASSUME Excl(q, rs, who), Exclusive(s), Free(HeldBy(s), q, rs, who)
      PROVE  Excl(q, more, who)
  <2>1. \A g \in DOMAIN rs : HeldBy(s) \cap HeldBy(rs[g]) = {}
    BY <1>3 DEF Free, Everything
  <2>2. HeldBy(q) \cap HeldBy(s) = {}
    BY <1>3 DEF Free, Everything
  <2>3. ASSUME NEW g \in DOMAIN more
        PROVE  Exclusive(more[g]) /\ HeldBy(q) \cap HeldBy(more[g]) = {}
    BY <1>1, <1>3, <2>2 DEF Excl
  <2>4. ASSUME NEW g \in DOMAIN more, NEW h \in DOMAIN more, g # h
        PROVE  HeldBy(more[g]) \cap HeldBy(more[h]) = {}
    BY <1>1, <1>3, <2>1, <2>4 DEF Excl
  <2>5. Awaited(who) \cap Everything(q, more) = {}
    BY <1>2, <1>3 DEF Excl, Free
  <2>6. QED BY <1>3, <2>3, <2>4, <2>5 DEF Excl
<1>4. QED BY <1>2, <1>3 DEF more

WithoutReactions(rs, f) == [rs EXCEPT ![f] = <<>>]

LEMMA ReactionsQueued ==
  ASSUME NEW q \in Seq(JobSet), NEW rs \in Seq(Seq(JobSet)), NEW who, NEW f \in DOMAIN rs
  PROVE  /\ rs[f] \in Seq(JobSet)
         /\ WithoutReactions(rs, f) \in Seq(Seq(JobSet))
         /\ Len(WithoutReactions(rs, f)) = Len(rs)
         /\ Everything(q \o rs[f], WithoutReactions(rs, f)) = Everything(q, rs)
         /\ Excl(q, rs, who) => Excl(q \o rs[f], WithoutReactions(rs, f), who)
<1> DEFINE s == rs[f]
           less == [rs EXCEPT ![f] = <<>>]
<1>1. s \in Seq(JobSet)
  BY ElementOfSeq, LenProperties
<1>2. rs[f] = s
  OBVIOUS
<1> HIDE DEF s
<1>3. HeldBy(q \o s) = HeldBy(q) \cup HeldBy(s)
  BY <1>1, HeldByConcat
<1>4. <<>> \in Seq(JobSet)
  BY EmptySeq
<1>5. /\ less \in Seq(Seq(JobSet)) /\ Len(less) = Len(rs)
      /\ DOMAIN less = DOMAIN rs
      /\ \A g \in DOMAIN rs : less[g] = IF g = f THEN <<>> ELSE rs[g]
  BY <1>4, ExceptSeq
<1> HIDE DEF less
<1>6. Everything(q \o s, less) = Everything(q, rs)
  <2>1. ASSUME NEW x PROVE x \in Everything(q \o s, less) <=> x \in Everything(q, rs)
    <3>1. x \in Everything(q \o s, less)
            <=> \/ x \in HeldBy(q) \/ x \in HeldBy(s)
                \/ \E g \in DOMAIN rs : x \in HeldBy(less[g])
      BY <1>3, <1>5 DEF Everything
    <3>2. x \in Everything(q, rs) <=> x \in HeldBy(q) \/ \E g \in DOMAIN rs : x \in HeldBy(rs[g])
      BY DEF Everything
    <3>3. QED BY <3>1, <3>2, <1>2, <1>5, HeldByNone
  <2>2. QED BY <2>1
<1>7. ASSUME Excl(q, rs, who)
      PROVE  Excl(q \o s, less, who)
  <2>1. Exclusive(q \o s)
    <3>1. Exclusive(q) /\ Exclusive(s) /\ HeldBy(q) \cap HeldBy(s) = {}
      BY <1>2, <1>7 DEF Excl
    <3>2. QED BY <1>1, <3>1, ExclusiveConcat
  <2>2. ASSUME NEW g \in DOMAIN less
        PROVE  Exclusive(less[g]) /\ HeldBy(q \o s) \cap HeldBy(less[g]) = {}
    <3>1. CASE g = f
      BY <1>5, <3>1, HeldByNone
    <3>2. CASE g # f
      <4>1. less[g] = rs[g] /\ g \in DOMAIN rs
        BY <1>5, <3>2
      <4>2. HeldBy(s) \cap HeldBy(rs[g]) = {}
        BY <1>2, <1>7, <3>2, <4>1 DEF Excl
      <4>3. QED BY <1>3, <1>7, <4>1, <4>2 DEF Excl
    <3>3. QED BY <3>1, <3>2
  <2>3. ASSUME NEW g \in DOMAIN less, NEW h \in DOMAIN less, g # h
        PROVE  HeldBy(less[g]) \cap HeldBy(less[h]) = {}
    BY <1>5, <1>7, <2>3, HeldByNone DEF Excl
  <2>4. Awaited(who) \cap Everything(q \o s, less) = {}
    BY <1>6, <1>7 DEF Excl
  <2>5. QED BY <1>7, <2>1, <2>2, <2>3, <2>4 DEF Excl
<1>8. less = WithoutReactions(rs, f) /\ s = rs[f]
  BY DEF less, s, WithoutReactions
<1>9. QED BY <1>1, <1>5, <1>6, <1>7, <1>8

LEMMA FirstTaken ==
  ASSUME NEW q \in Seq(JobSet), q # <<>>, NEW rs \in Seq(Seq(JobSet)), NEW who
  PROVE  /\ Everything(q, rs) = Holds(Head(q)) \cup Everything(Tail(q), rs)
         /\ Excl(q, rs, who) => /\ Excl(Tail(q), rs, who) /\ Distinct(Head(q).who)
                                /\ Free(Holds(Head(q)), Tail(q), rs, who)
<1>1. HeldBy(q) = Holds(Head(q)) \cup HeldBy(Tail(q))
  <2>1. Elements(q) = {Head(q)} \cup Elements(Tail(q))
    BY HeadTailElements
  <2>2. QED BY <2>1 DEF HeldBy
<1>2. Everything(q, rs) = Holds(Head(q)) \cup Everything(Tail(q), rs)
  BY <1>1 DEF Everything
<1>3. ASSUME Excl(q, rs, who)
      PROVE  /\ Excl(Tail(q), rs, who) /\ Distinct(Head(q).who)
             /\ Free(Holds(Head(q)), Tail(q), rs, who)
  <2>1. /\ Exclusive(Tail(q)) /\ Distinct(Head(q).who)
        /\ Holds(Head(q)) \cap HeldBy(Tail(q)) = {}
    BY <1>3, ExclusiveTail DEF Excl
  <2>2. \A f \in DOMAIN rs : /\ HeldBy(Tail(q)) \cap HeldBy(rs[f]) = {}
                             /\ Holds(Head(q)) \cap HeldBy(rs[f]) = {}
    BY <1>1, <1>3 DEF Excl
  <2>3. /\ Awaited(who) \cap Everything(Tail(q), rs) = {}
        /\ Awaited(who) \cap Holds(Head(q)) = {}
    BY <1>2, <1>3 DEF Excl
  <2>4. Holds(Head(q)) \cap Everything(Tail(q), rs) = {}
    BY <2>1, <2>2 DEF Everything
  <2>5. QED BY <1>3, <2>1, <2>2, <2>3, <2>4 DEF Excl, Free
<1>4. QED BY <1>2, <1>3

LEMMA FollowerJoins ==
  ASSUME NEW q, NEW rs, NEW who \in Seq(Callers), NEW c \in Callers
  PROVE  /\ Append(who, c) \in Seq(Callers)
         /\ Elements(Append(who, c)) = Elements(who) \cup {c}
         /\ Awaited(Append(who, c)) = Awaited(who) \cup {Awaits(c)}
         /\ Excl(q, rs, who) /\ Free({Awaits(c)}, q, rs, who) => Excl(q, rs, Append(who, c))
<1>1. /\ Append(who, c) \in Seq(Callers)
      /\ Elements(Append(who, c)) = Elements(who) \cup {c}
  BY AppendElements
<1>2. Awaited(Append(who, c)) = Awaited(who) \cup {Awaits(c)}
  BY <1>1 DEF Awaited
<1>3. ASSUME Excl(q, rs, who), Free({Awaits(c)}, q, rs, who)
      PROVE  Excl(q, rs, Append(who, c))
  <2>1. c \notin Elements(who)
    BY <1>3 DEF Free, Awaited
  <2>2. Distinct(Append(who, c))
    <3>1. /\ DOMAIN Append(who, c) = DOMAIN who \cup {Len(who) + 1}
          /\ Len(who) + 1 \notin DOMAIN who
          /\ Append(who, c)[Len(who) + 1] = c
          /\ \A n \in DOMAIN who : Append(who, c)[n] = who[n]
      BY AppendProperties, LenProperties
    <3>2. \A n \in DOMAIN who : who[n] # c
      BY <2>1 DEF Elements
    <3>3. Distinct(who)
      BY <1>3 DEF Excl
    <3>4. QED BY <3>1, <3>2, <3>3 DEF Distinct
  <2>3. Awaited(Append(who, c)) \cap Everything(q, rs) = {}
    BY <1>2, <1>3 DEF Excl, Free
  <2>4. QED BY <1>3, <2>2, <2>3 DEF Excl
<1>4. QED BY <1>1, <1>2, <1>3

LEMMA NobodyFollows ==
  ASSUME NEW q, NEW rs, NEW who, Excl(q, rs, who)
  PROVE  Excl(q, rs, <<>>) /\ Elements(<<>>) = {} /\ Awaited(<<>>) = {}
<1>1. Elements(<<>>) = {} /\ Distinct(<<>>)
  BY DEF Elements, Distinct
<1>2. Awaited(<<>>) = {}
  BY <1>1 DEF Awaited
<1>3. QED BY <1>1, <1>2 DEF Excl

\* One answer for each caller.
LEMMA AnswersProperties ==
  ASSUME NEW f \in Nat, NEW who \in Seq(Callers)
  PROVE  /\ Answers(f, who) \in Seq(JobSet)
         /\ \A j \in Elements(Answers(f, who)) :
              /\ j.do = "answer" /\ j.flush = f /\ Len(j.who) = 1
              /\ Elements(j.who) \subseteq Elements(who)
         /\ HeldBy(Answers(f, who)) = Awaited(who)
         /\ Distinct(who) => Exclusive(Answers(f, who))
<1> DEFINE s == Answers(f, who)
<1>1. Len(who) \in Nat /\ DOMAIN who = 1..Len(who)
  BY LenProperties
<1>2. \A n \in DOMAIN who : who[n] \in Callers
  BY ElementOfSeq, <1>1
<1>3. \A n \in DOMAIN who : Job("answer", f, <<who[n]>>) \in JobSet
  <2>1. \A c \in Callers : <<c>> \in Seq(Callers)
    BY OneElement
  <2>2. QED BY <1>2, <2>1 DEF Job, JobSet, Does
<1>4. DOMAIN s = DOMAIN who /\ \A n \in DOMAIN who : s[n] = Job("answer", f, <<who[n]>>)
  BY DEF Answers
<1>5. s \in Seq(JobSet)
  <2>1. s \in [1..Len(who) -> JobSet]
    BY <1>1, <1>3 DEF Answers
  <2>2. QED BY <1>1, <2>1, SeqDef
<1> HIDE DEF s
<1>6. ASSUME NEW n \in DOMAIN who
      PROVE  /\ s[n].do = "answer" /\ s[n].flush = f /\ s[n].who = <<who[n]>>
             /\ Elements(s[n].who) = {who[n]} /\ Len(s[n].who) = 1
             /\ Holds(s[n]) = {Awaits(who[n])} /\ Distinct(s[n].who)
  <2>1. s[n].do = "answer" /\ s[n].flush = f /\ s[n].who = <<who[n]>>
    BY <1>4 DEF Job
  <2>2. Elements(<<who[n]>>) = {who[n]} /\ Len(<<who[n]>>) = 1
    BY <1>2, OneElement
  <2>3. Distinct(<<who[n]>>)
    BY DEF Distinct
  <2>4. Awaited(<<who[n]>>) = {Awaits(who[n])}
    BY <2>2 DEF Awaited
  <2>5. QED BY <2>1, <2>2, <2>3, <2>4 DEF Holds, Following
<1>7. \A j \in Elements(s) :
        /\ j.do = "answer" /\ j.flush = f /\ Len(j.who) = 1
        /\ Elements(j.who) \subseteq Elements(who)
  BY <1>4, <1>6 DEF Elements
<1>8. HeldBy(s) = Awaited(who)
  <2>1. ASSUME NEW x PROVE x \in HeldBy(s) <=> x \in Awaited(who)
    <3>1. x \in HeldBy(s) <=> \E n \in DOMAIN who : x \in Holds(s[n])
      BY <1>4 DEF HeldBy, Elements
    <3>2. x \in Awaited(who) <=> \E n \in DOMAIN who : x = Awaits(who[n])
      BY DEF Awaited, Elements
    <3>3. QED BY <3>1, <3>2, <1>6
  <2>2. QED BY <2>1
<1>9. Distinct(who) => Exclusive(s)
  <2>1. \A c, d : Awaits(c) = Awaits(d) => c = d
    BY DEF Awaits
  <2>2. QED BY <1>4, <1>6, <2>1 DEF Exclusive, Distinct
<1>10. QED BY <1>5, <1>7, <1>8, <1>9 DEF s

-----------------------------------------------------------------------------
(* startFlush: a flush is added, with the jobs that clear it and answer its *)
(* callers.                                                                 *)

\* A job of flush f that startFlush adds for these callers.
StartedFor(j, f, callers) ==
  /\ j \in JobSet /\ j.flush = f /\ j.do \in {"pass to clear", "answer"}
  /\ j.do = "answer" => Len(j.who) = 1
  /\ Elements(j.who) \subseteq Elements(callers)

LEMMA StartedJobs ==
  ASSUME NEW f \in Nat, NEW callers \in Seq(Callers), Distinct(callers)
  PROVE  LET mine == <<Job("pass to clear", f, <<>>)>> \o Answers(f, callers)
         IN  /\ mine \in Seq(JobSet) /\ Exclusive(mine) /\ HeldBy(mine) = Awaited(callers)
             /\ \A j \in Elements(mine) : StartedFor(j, f, callers)
<1> DEFINE first == Job("pass to clear", f, <<>>)
           s == Answers(f, callers)
<1>1. /\ s \in Seq(JobSet) /\ HeldBy(s) = Awaited(callers) /\ Exclusive(s)
      /\ \A j \in Elements(s) : /\ j.do = "answer" /\ j.flush = f /\ Len(j.who) = 1
                                /\ Elements(j.who) \subseteq Elements(callers)
  BY AnswersProperties
<1> HIDE DEF s
<1>2. /\ first \in JobSet /\ first.do = "pass to clear" /\ first.flush = f
      /\ first.who = <<>>
  <2>1. <<>> \in Seq(Callers)
    BY EmptySeq
  <2>2. QED BY <2>1 DEF Job, JobSet, Does, Clearing
<1> HIDE DEF first
<1>3. Elements(<<>>) = {} /\ Distinct(<<>>)
  BY DEF Elements, Distinct
<1>4. Holds(first) = {}
  BY <1>2, <1>3 DEF Holds, Awaited, Following
<1>5. <<first>> \in Seq(JobSet) /\ HeldBy(<<first>>) = {} /\ Exclusive(<<first>>)
  BY <1>2, <1>3, <1>4, OneElement, HeldByOne, ExclusiveOne
<1>6. /\ <<first>> \o s \in Seq(JobSet) /\ HeldBy(<<first>> \o s) = Awaited(callers)
      /\ Exclusive(<<first>> \o s)
  <2>1. ASSUME NEW t \in Seq(JobSet), HeldBy(t) = {}, Exclusive(t)
        PROVE  /\ t \o s \in Seq(JobSet) /\ HeldBy(t \o s) = Awaited(callers)
               /\ Exclusive(t \o s)
    <3>1. t \o s \in Seq(JobSet)
      BY <1>1, ConcatElements
    <3>2. HeldBy(t \o s) = HeldBy(t) \cup HeldBy(s)
      BY <1>1, HeldByConcat
    <3>3. Exclusive(t \o s)
      BY <1>1, <2>1, ExclusiveConcat
    <3>4. QED BY <1>1, <2>1, <3>1, <3>2, <3>3
  <2>2. QED BY <1>5, <2>1
<1>7. Elements(<<first>> \o s) = {first} \cup Elements(s)
  BY <1>1, <1>2, PrependElements
<1>8. StartedFor(first, f, callers)
  BY <1>2, <1>3 DEF StartedFor
<1>9. \A j \in Elements(s) : StartedFor(j, f, callers)
  <2>1. \A j \in Elements(s) : j \in JobSet
    BY <1>1, ElementOfSeq, LenProperties DEF Elements
  <2>2. QED BY <1>1, <2>1 DEF StartedFor
<1>10. QED BY <1>6, <1>7, <1>8, <1>9 DEF s, first

LEMMA StartFlushProperties ==
  ASSUME TypesHold, NEW before \in Seq(JobSet), NEW callers \in Seq(Callers),
         NEW after \in Seq(JobSet), NEW who, Excl(before, reactions, who),
         Distinct(callers), Exclusive(after), Awaited(callers) \cap HeldBy(after) = {},
         Free(Awaited(callers) \cup HeldBy(after), before, reactions, who),
         StartFlush(before, callers, after)
  PROVE  LET f == Len(flushes) + 1
         IN  /\ f \in Nat \ {0} /\ f \notin DOMAIN flushes
             /\ flushes' \in Seq(Steps) /\ DOMAIN flushes' = DOMAIN flushes \cup {f}
             /\ Len(flushes') = f /\ inFlight' = f
             /\ \A g \in DOMAIN flushes : flushes'[g] = flushes[g] /\ reactions'[g] = reactions[g]
             /\ reactions' \in Seq(Seq(JobSet)) /\ Len(reactions') = f
             /\ flushes'[f] = "settled" => reactions'[f] = <<>>
             /\ \A j \in Elements(reactions'[f]) : StartedFor(j, f, callers)
             /\ jobs' \in Seq(JobSet)
             /\ \A j \in Elements(jobs') :
                  \/ j \in Elements(before) \cup Elements(after)
                  \/ StartedFor(j, f, callers) /\ flushes'[f] = "settled"
             /\ Everything(jobs', reactions')
                  = Everything(before, reactions) \cup Awaited(callers) \cup HeldBy(after)
             /\ Excl(jobs', reactions', who)
<1> DEFINE f == Len(flushes) + 1
           mine == <<Job("pass to clear", f, <<>>)>> \o Answers(f, callers)
<1>1. PICK step \in FirstSteps :
        /\ flushes' = Append(flushes, step) /\ inFlight' = f
        /\ reactions' = Append(reactions, IF step = "settled" THEN <<>> ELSE mine)
        /\ jobs' = before \o (IF step = "settled" THEN mine ELSE <<>>) \o after
  BY Zenon DEF StartFlush
<1>2. step \in Steps /\ flushes \in Seq(Steps) /\ reactions \in Seq(Seq(JobSet))
      /\ Len(reactions) = Len(flushes)
  BY DEF FirstSteps, Steps, TypesHold
<1>3. f \in Nat \ {0} /\ f \notin DOMAIN flushes /\ DOMAIN flushes = DOMAIN reactions
  BY <1>2, LenProperties
<1>4. /\ mine \in Seq(JobSet) /\ Exclusive(mine) /\ HeldBy(mine) = Awaited(callers)
      /\ \A j \in Elements(mine) : StartedFor(j, f, callers)
  BY <1>3, StartedJobs
<1> HIDE DEF mine
<1>5. /\ flushes' \in Seq(Steps) /\ DOMAIN flushes' = DOMAIN flushes \cup {f}
      /\ Len(flushes') = f /\ flushes'[f] = step
      /\ \A g \in DOMAIN flushes : flushes'[g] = flushes[g]
  BY <1>1, <1>2, AppendProperties, LenProperties
<1>6. ASSUME NEW s \in Seq(JobSet), reactions' = Append(reactions, s)
      PROVE  /\ reactions' \in Seq(Seq(JobSet)) /\ Len(reactions') = f
             /\ reactions'[f] = s /\ \A g \in DOMAIN flushes : reactions'[g] = reactions[g]
  BY <1>2, <1>3, <1>6, AppendProperties, LenProperties
<1>7. ASSUME NEW q \in Seq(JobSet), NEW s \in Seq(JobSet), Excl(q, reactions, who),
              Exclusive(s), Free(HeldBy(s), q, reactions, who)
       PROVE  /\ Everything(q, Append(reactions, s)) = Everything(q, reactions) \cup HeldBy(s)
              /\ Excl(q, Append(reactions, s), who)
  BY <1>2, <1>7, FlushAdded
<1> HIDE DEF f
<1>8. CASE step = "settled"
  <2>1. reactions' = Append(reactions, <<>>) /\ jobs' = (before \o mine) \o after
    BY <1>1, <1>8
  <2>2. /\ before \o mine \in Seq(JobSet)
        /\ Elements(before \o mine) = Elements(before) \cup Elements(mine)
        /\ Everything(before \o mine, reactions) = Everything(before, reactions) \cup Awaited(callers)
        /\ Excl(before \o mine, reactions, who)
    <3>1. Free(HeldBy(mine), before, reactions, who)
      BY <1>4 DEF Free
    <3>2. QED BY <1>2, <1>4, <3>1, ConcatElements, JobsQueued
  <2>3. Free(HeldBy(after), before \o mine, reactions, who)
    BY <2>2 DEF Free
  <2>4. ASSUME NEW b \in Seq(JobSet), Excl(b, reactions, who), Free(HeldBy(after), b, reactions, who)
        PROVE  /\ b \o after \in Seq(JobSet) /\ Elements(b \o after) = Elements(b) \cup Elements(after)
               /\ Everything(b \o after, reactions) = Everything(b, reactions) \cup HeldBy(after)
               /\ Excl(b \o after, reactions, who)
    BY <1>2, <2>4, ConcatElements, JobsQueued
  <2>5. /\ jobs' \in Seq(JobSet)
        /\ Elements(jobs') = Elements(before) \cup Elements(mine) \cup Elements(after)
        /\ Everything(jobs', reactions)
             = Everything(before, reactions) \cup Awaited(callers) \cup HeldBy(after)
        /\ Excl(jobs', reactions, who)
    BY <2>1, <2>2, <2>3, <2>4
  <2>6. /\ <<>> \in Seq(JobSet) /\ HeldBy(<<>>) = {} /\ Exclusive(<<>>)
        /\ Elements(<<>>) = {}
    BY HeldByNone, EmptySeq
  <2>7. /\ Everything(jobs', reactions') = Everything(jobs', reactions)
        /\ Excl(jobs', reactions', who)
    <3>1. Free(HeldBy(<<>>), jobs', reactions, who)
      BY <2>6 DEF Free
    <3>2. /\ Everything(jobs', Append(reactions, <<>>)) = Everything(jobs', reactions) \cup HeldBy(<<>>)
          /\ Excl(jobs', Append(reactions, <<>>), who)
      BY <1>7, <2>5, <2>6, <3>1
    <3>3. QED BY <2>1, <2>6, <3>2
  <2>8. /\ reactions' \in Seq(Seq(JobSet)) /\ Len(reactions') = f /\ reactions'[f] = <<>>
        /\ \A g \in DOMAIN flushes : reactions'[g] = reactions[g]
    BY <1>6, <2>1, <2>6
  <2>9. QED BY <1>1, <1>3, <1>4, <1>5, <1>8, <2>5, <2>6, <2>7, <2>8 DEF f
<1>9. CASE step # "settled"
  <2>1. reactions' = Append(reactions, mine) /\ jobs' = (before \o <<>>) \o after
    BY <1>1, <1>9
  <2>2. before \o <<>> = before
    BY ConcatEmptySeq
  <2>3. /\ jobs' \in Seq(JobSet) /\ Elements(jobs') = Elements(before) \cup Elements(after)
        /\ Everything(jobs', reactions) = Everything(before, reactions) \cup HeldBy(after)
        /\ Excl(jobs', reactions, who)
    <3>1. Free(HeldBy(after), before, reactions, who)
      BY DEF Free
    <3>2. QED BY <1>2, <2>1, <2>2, <3>1, ConcatElements, JobsQueued
  <2>4. Free(HeldBy(mine), jobs', reactions, who)
    BY <1>4, <2>3 DEF Free
  <2>5. /\ Everything(jobs', reactions') = Everything(jobs', reactions) \cup Awaited(callers)
        /\ Excl(jobs', reactions', who)
    <3>1. /\ Everything(jobs', Append(reactions, mine)) = Everything(jobs', reactions) \cup HeldBy(mine)
          /\ Excl(jobs', Append(reactions, mine), who)
      BY <1>4, <1>7, <2>3, <2>4
    <3>2. QED BY <1>4, <2>1, <3>1
  <2>6. /\ reactions' \in Seq(Seq(JobSet)) /\ Len(reactions') = f /\ reactions'[f] = mine
        /\ \A g \in DOMAIN flushes : reactions'[g] = reactions[g]
    BY <1>4, <1>6, <2>1
  <2>7. QED BY <1>1, <1>3, <1>4, <1>5, <1>9, <2>3, <2>5, <2>6 DEF f
<1>10. QED BY <1>8, <1>9

\* A reaction is queued or waits with its flush.
LEMMA ReactProperties ==
  ASSUME TypesHold, NEW rest \in Seq(JobSet), NEW f \in DOMAIN flushes, NEW j \in JobSet,
         NEW who, Excl(rest, reactions, who), Distinct(j.who),
         Free(Holds(j), rest, reactions, who), React(f, j, rest)
  PROVE  /\ reactions' \in Seq(Seq(JobSet)) /\ Len(reactions') = Len(reactions)
         /\ jobs' \in Seq(JobSet)
         /\ \A k \in Elements(jobs') :
              k \in Elements(rest) \/ (k = j /\ flushes[f] = "settled")
         /\ \A g \in DOMAIN flushes :
              /\ flushes[g] = "settled" => reactions'[g] = reactions[g]
              /\ \A k \in Elements(reactions'[g]) : k \in Elements(reactions[g]) \/ (k = j /\ g = f)
         /\ Everything(jobs', reactions') = Everything(rest, reactions) \cup Holds(j)
         /\ Excl(jobs', reactions', who)
<1>1. /\ reactions \in Seq(Seq(JobSet)) /\ Len(reactions) = Len(flushes)
      /\ flushes \in Seq(Steps)
  BY DEF TypesHold
<1>2. DOMAIN reactions = 1..Len(reactions) /\ DOMAIN flushes = DOMAIN reactions
  BY <1>1, LenProperties
<1>3. CASE flushes[f] = "settled"
  <2>1. jobs' = Append(rest, j) /\ reactions' = reactions
    BY <1>3 DEF React
  <2>2. Append(rest, j) = rest \o <<j>>
    BY AppendIsConcat
  <2>3. <<j>> \in Seq(JobSet) /\ HeldBy(<<j>>) = Holds(j) /\ Exclusive(<<j>>)
    BY OneElement, HeldByOne, ExclusiveOne
  <2>4. /\ Everything(rest \o <<j>>, reactions) = Everything(rest, reactions) \cup HeldBy(<<j>>)
        /\ Excl(rest \o <<j>>, reactions, who)
    BY <1>1, <2>3, JobsQueued
  <2>5. jobs' \in Seq(JobSet) /\ Elements(jobs') = Elements(rest) \cup {j}
    BY <2>1, AppendElements
  <2>6. QED BY <1>1, <1>3, <2>1, <2>2, <2>3, <2>4, <2>5
<1>4. CASE flushes[f] # "settled"
  <2>1. reactions' = WithReaction(reactions, f, j) /\ jobs' = rest
    BY <1>4 DEF React, WithReaction
  <2>2. /\ reactions' \in Seq(Seq(JobSet)) /\ Len(reactions') = Len(reactions)
        /\ Everything(jobs', reactions') = Everything(rest, reactions) \cup Holds(j)
        /\ Excl(jobs', reactions', who)
    <3>1. f \in DOMAIN reactions
      BY <1>2
    <3>2. /\ WithReaction(reactions, f, j) \in Seq(Seq(JobSet))
          /\ Len(WithReaction(reactions, f, j)) = Len(reactions)
          /\ Everything(rest, WithReaction(reactions, f, j)) = Everything(rest, reactions) \cup Holds(j)
          /\ Excl(rest, WithReaction(reactions, f, j), who)
      BY <1>1, <3>1, ReactionAdded
    <3>3. QED BY <2>1, <3>2
  <2>3. /\ reactions[f] \in Seq(JobSet)
        /\ \A g \in DOMAIN flushes :
             reactions'[g] = IF g = f THEN Append(reactions[f], j) ELSE reactions[g]
    BY <1>1, <1>2, <2>1, ElementOfSeq DEF WithReaction
  <2>4. Elements(Append(reactions[f], j)) = Elements(reactions[f]) \cup {j}
    BY <2>3, AppendElements
  <2>5. QED BY <1>4, <2>1, <2>2, <2>3, <2>4
<1>5. QED BY <1>3, <1>4

-----------------------------------------------------------------------------
(* The invariant is kept.                                                   *)

LEMMA FreeCaller ==
  ASSUME NEW c, NEW q, NEW rs, NEW who, Free({Awaits(c)}, q, rs, who)
  PROVE  /\ \A j \in Elements(q) : c \notin Elements(j.who)
         /\ \A f \in DOMAIN rs : \A j \in Elements(rs[f]) : c \notin Elements(j.who)
         /\ c \notin Elements(who)
<1>1. /\ Awaits(c) \notin HeldBy(q) /\ Awaits(c) \notin Awaited(who)
      /\ \A f \in DOMAIN rs : Awaits(c) \notin HeldBy(rs[f])
  BY DEF Free, Everything
<1>2. QED BY <1>1 DEF HeldBy, Holds, Awaited

LEMMA NothingFollows ==
  ASSUME NEW q, NEW rs, Follows \notin Everything(q, rs)
  PROVE  /\ \A j \in Elements(q) : j.do \notin Following
         /\ \A f \in DOMAIN rs : \A j \in Elements(rs[f]) : j.do \notin Following
BY DEF Everything, HeldBy, Holds

LEMMA JobCallers ==
  ASSUME NEW j \in JobSet
  PROVE  Elements(j.who) \subseteq Callers
<1>1. j.who \in Seq(Callers)
  BY DEF JobSet
<1>2. QED BY <1>1, ElementOfSeq, LenProperties DEF Elements

LEMMA JobsAreTyped ==
  ASSUME NEW q \in Seq(JobSet)
  PROVE  \A j \in Elements(q) : j \in JobSet
BY ElementOfSeq, LenProperties DEF Elements

LEMMA AskedNow ==
  ASSUME TypesHold, NEW c \in Callers, asked' = [asked EXCEPT ![c] = TRUE],
         begun' = [begun EXCEPT ![c] = {f \in DOMAIN flushes : flushes[f] # "waiting"}]
  PROVE  /\ asked' \in [Callers -> BOOLEAN] /\ asked'[c]
         /\ begun' \in [Callers -> SUBSET DOMAIN flushes]
         /\ \A d \in Callers : d # c => asked'[d] = asked[d] /\ begun'[d] = begun[d]
<1>1. asked \in [Callers -> BOOLEAN] /\ begun \in [Callers -> SUBSET DOMAIN flushes]
  BY DEF TypesHold
<1>2. {f \in DOMAIN flushes : flushes[f] # "waiting"} \in SUBSET DOMAIN flushes
  OBVIOUS
<1>3. QED BY <1>1, <1>2

\* A request while a flush is in flight joins the follow-up.
LEMMA JoinsFollowUp ==
  ASSUME NEW rest, Sound(rest), NEW c \in Callers,
         Free({Awaits(c)}, rest, reactions, followUp.who), Request(c, rest), Busy
  PROVE  SchedulerIInv'
<1>1. /\ TypesHold /\ Bounded /\ JobsOK(rest) /\ ReactionsOK /\ Exclusion(rest)
      /\ OneFollows(rest) /\ FollowersWait /\ OneUnsettled
  BY DEF Sound
<1>2. /\ Len(flushes) + (IF followUp.set THEN 1 ELSE 0) < MaxFlushes
      /\ asked' = [asked EXCEPT ![c] = TRUE]
      /\ begun' = [begun EXCEPT ![c] = {f \in DOMAIN flushes : flushes[f] # "waiting"}]
      /\ UNCHANGED <<flushes, inFlight, jumped, destroyed>>
      /\ followUp' = [set |-> TRUE, who |-> Append(followUp.who, c)]
      /\ IF followUp.set THEN jobs' = rest /\ UNCHANGED reactions
         ELSE React(inFlight, Job("pass to follow", inFlight, <<>>), rest)
  BY DEF Request, AwaitFollowUp
<1>3. /\ rest \in Seq(JobSet) /\ reactions \in Seq(Seq(JobSet)) /\ flushes \in Seq(Steps)
      /\ DOMAIN reactions = DOMAIN flushes /\ inFlight \in DOMAIN flushes
      /\ followUp.who \in Seq(Callers) /\ Len(flushes) \in Nat /\ inFlight \in Nat
  BY <1>1, LenProperties DEF TypesHold, JobsOK, Busy
<1>4. PICK new \in JobSet : /\ new = Job("pass to follow", inFlight, <<>>)
                            /\ new.do = "pass to follow" /\ new.flush = inFlight
                            /\ new.who = <<>>
  <2>1. <<>> \in Seq(Callers)
    BY EmptySeq
  <2>2. Job("pass to follow", inFlight, <<>>) \in JobSet
    BY <1>3, <2>1 DEF Job, JobSet, Does, Following
  <2>3. QED BY <2>2 DEF Job
<1>5. Elements(<<>>) = {} /\ Distinct(<<>>)
  BY DEF Elements, Distinct
<1>6. Holds(new) = {Follows}
  BY <1>4, <1>5 DEF Holds, Awaited, Following
<1>7. /\ \A j \in Elements(rest) : c \notin Elements(j.who)
      /\ \A f \in DOMAIN flushes : \A j \in Elements(reactions[f]) : c \notin Elements(j.who)
      /\ c \notin Elements(followUp.who)
  BY <1>3, FreeCaller
<1>8. /\ Append(followUp.who, c) \in Seq(Callers)
      /\ Elements(Append(followUp.who, c)) = Elements(followUp.who) \cup {c}
      /\ Awaited(Append(followUp.who, c)) = Awaited(followUp.who) \cup {Awaits(c)}
      /\ Excl(rest, reactions, Append(followUp.who, c))
  BY <1>1, <1>3, FollowerJoins DEF Exclusion
<1>9. /\ reactions' \in Seq(Seq(JobSet)) /\ Len(reactions') = Len(reactions)
      /\ jobs' \in Seq(JobSet)
      /\ \A k \in Elements(jobs') :
           k \in Elements(rest) \/ (k = new /\ flushes[inFlight] = "settled")
      /\ \A g \in DOMAIN flushes :
           /\ flushes[g] = "settled" => reactions'[g] = reactions[g]
           /\ \A k \in Elements(reactions'[g]) :
                k \in Elements(reactions[g]) \/ (k = new /\ g = inFlight)
      /\ Follows \in Everything(jobs', reactions')
      /\ Excl(jobs', reactions', Append(followUp.who, c))
  <2>1. CASE followUp.set
    <3>1. jobs' = rest /\ reactions' = reactions
      BY <1>2, <2>1
    <3>2. Follows \in Everything(rest, reactions)
      BY <1>1, <2>1 DEF OneFollows
    <3>3. QED BY <1>3, <1>8, <3>1, <3>2
  <2>2. CASE ~followUp.set
    <3>1. React(inFlight, new, rest)
      BY <1>2, <1>4, <2>2
    <3>2. Follows \notin Everything(rest, reactions)
      BY <1>1, <2>2 DEF OneFollows
    <3>3. Follows \notin Awaited(Append(followUp.who, c))
      BY DEF Follows, Awaits, Awaited
    <3>4. Free(Holds(new), rest, reactions, Append(followUp.who, c))
      BY <1>6, <3>2, <3>3 DEF Free
    <3>5. Distinct(new.who)
      BY <1>4, <1>5
    <3>6. /\ reactions' \in Seq(Seq(JobSet)) /\ Len(reactions') = Len(reactions)
          /\ jobs' \in Seq(JobSet)
          /\ \A k \in Elements(jobs') :
               k \in Elements(rest) \/ (k = new /\ flushes[inFlight] = "settled")
          /\ \A g \in DOMAIN flushes :
               /\ flushes[g] = "settled" => reactions'[g] = reactions[g]
               /\ \A k \in Elements(reactions'[g]) :
                    k \in Elements(reactions[g]) \/ (k = new /\ g = inFlight)
          /\ Everything(jobs', reactions') = Everything(rest, reactions) \cup Holds(new)
          /\ Excl(jobs', reactions', Append(followUp.who, c))
      BY <1>1, <1>3, <1>8, <3>1, <3>4, <3>5, ReactProperties
    <3>7. QED BY <1>6, <3>6
  <2>3. QED BY <2>1, <2>2
<1>10. /\ followUp'.set = TRUE /\ followUp'.who = Append(followUp.who, c)
       /\ followUp' \in [set : BOOLEAN, who : Seq(Callers)]
  BY <1>2, <1>8
<1>11. /\ asked' \in [Callers -> BOOLEAN] /\ asked'[c]
       /\ begun' \in [Callers -> SUBSET DOMAIN flushes]
       /\ \A d \in Callers : d # c => asked'[d] = asked[d] /\ begun'[d] = begun[d]
  BY <1>1, <1>2, AskedNow
<1>12. TypesHold'
  BY <1>1, <1>2, <1>9, <1>10, <1>11 DEF TypesHold
<1>13. Bounded'
  <2>1. Len(flushes) < MaxFlushes
    <3> DEFINE one == IF followUp.set THEN 1 ELSE 0
    <3>1. one \in {0, 1} /\ Len(flushes) + one < MaxFlushes
      BY <1>2
    <3> HIDE DEF one
    <3>2. QED BY <1>3, <3>1, FlushesAssumption
  <2>2. (IF followUp'.set THEN 1 ELSE 0) = 1 /\ flushes' = flushes
    BY <1>2, <1>10
  <2>3. QED BY <1>3, <2>1, <2>2, FlushesAssumption DEF Bounded
<1>14. ASSUME NEW j \in JobSet, JobOK(j), c \notin Elements(j.who) PROVE JobOK(j)'
  <2>1. Elements(j.who) \subseteq Callers
    BY JobCallers
  <2>2. \A d \in Elements(j.who) : asked'[d] /\ begun'[d] = begun[d]
    BY <1>11, <1>14, <2>1 DEF JobOK
  <2>3. QED BY <1>2, <1>14, <2>2 DEF JobOK
<1>15. JobOK(new)'
  BY <1>2, <1>3, <1>4, <1>5 DEF JobOK
<1>16. ASSUME NEW j \in Elements(jobs') PROVE QueuedOK(j)'
  <2>1. CASE j \in Elements(rest)
    <3>1. j \in JobSet
      BY <1>3, <2>1, JobsAreTyped
    <3>2. QED BY <1>1, <1>2, <1>7, <1>14, <2>1, <3>1 DEF JobsOK, QueuedOK
  <2>2. CASE j = new /\ flushes[inFlight] = "settled"
    BY <1>2, <1>4, <1>15, <2>2 DEF QueuedOK
  <2>3. QED BY <1>9, <2>1, <2>2
<1>17. JobsOK(jobs)'
  BY <1>9, <1>16 DEF JobsOK
<1>18. ASSUME NEW f \in DOMAIN flushes, NEW j \in Elements(reactions'[f])
       PROVE  JobOK(j)' /\ j.flush = f
  <2>1. CASE j \in Elements(reactions[f])
    <3>1. reactions[f] \in Seq(JobSet)
      BY <1>3, ElementOfSeq, LenProperties
    <3>2. j \in JobSet
      BY <2>1, <3>1, JobsAreTyped
    <3>3. QED BY <1>1, <1>7, <1>14, <2>1, <3>2 DEF ReactionsOK
  <2>2. CASE j = new /\ f = inFlight
    BY <1>4, <1>15, <2>2
  <2>3. QED BY <1>9, <2>1, <2>2
<1>19. ReactionsOK'
  BY <1>1, <1>2, <1>9, <1>18 DEF ReactionsOK
<1>20. Exclusion(jobs)' /\ OneFollows(jobs)'
  BY <1>9, <1>10 DEF Exclusion, OneFollows
<1>21. FollowersWait'
  <2>1. Elements(followUp.who) \subseteq Callers
    BY <1>3, ElementOfSeq, LenProperties DEF Elements
  <2>2. QED BY <1>1, <1>7, <1>8, <1>10, <1>11, <2>1 DEF FollowersWait
<1>22. OneUnsettled'
  BY <1>1, <1>2 DEF OneUnsettled
<1>23. QED
  BY <1>12, <1>13, <1>17, <1>19, <1>20, <1>21, <1>22 DEF SchedulerIInv, Sound

\* A request while none is in flight starts one.
LEMMA StartsFlush ==
  ASSUME NEW rest, Sound(rest), NEW c \in Callers,
         Free({Awaits(c)}, rest, reactions, followUp.who), Request(c, rest), ~Busy
  PROVE  SchedulerIInv'
<1> DEFINE f == Len(flushes) + 1
<1>1. /\ TypesHold /\ Bounded /\ JobsOK(rest) /\ ReactionsOK /\ Exclusion(rest)
      /\ OneFollows(rest) /\ FollowersWait /\ OneUnsettled
  BY DEF Sound
<1>2. /\ Len(flushes) + (IF followUp.set THEN 1 ELSE 0) < MaxFlushes
      /\ asked' = [asked EXCEPT ![c] = TRUE]
      /\ begun' = [begun EXCEPT ![c] = {g \in DOMAIN flushes : flushes[g] # "waiting"}]
      /\ StartFlush(rest, <<c>>, <<>>)
      /\ jumped' = (jumped \/ followUp.set)
      /\ followUp' = followUp /\ destroyed' = destroyed /\ inFlight = 0
  BY DEF Request, Busy
<1>3. /\ rest \in Seq(JobSet) /\ reactions \in Seq(Seq(JobSet)) /\ flushes \in Seq(Steps)
      /\ DOMAIN reactions = DOMAIN flushes /\ DOMAIN flushes = 1..Len(flushes)
      /\ followUp.who \in Seq(Callers) /\ Len(flushes) \in Nat
      /\ followUp.set \in BOOLEAN
  BY <1>1, LenProperties DEF TypesHold, JobsOK
<1>4. /\ <<c>> \in Seq(Callers) /\ Elements(<<c>>) = {c} /\ Distinct(<<c>>)
      /\ Awaited(<<c>>) = {Awaits(c)}
  <2>1. <<c>> \in Seq(Callers) /\ Elements(<<c>>) = {c}
    BY OneElement
  <2>2. QED BY <2>1 DEF Distinct, Awaited
<1>5. /\ <<>> \in Seq(JobSet) /\ HeldBy(<<>>) = {} /\ Exclusive(<<>>) /\ Elements(<<>>) = {}
  BY HeldByNone, EmptySeq
<1>6. /\ \A j \in Elements(rest) : c \notin Elements(j.who)
      /\ \A g \in DOMAIN flushes : \A j \in Elements(reactions[g]) : c \notin Elements(j.who)
      /\ c \notin Elements(followUp.who)
  BY <1>3, FreeCaller
<1>7. /\ f \in Nat \ {0} /\ f \notin DOMAIN flushes
      /\ flushes' \in Seq(Steps) /\ DOMAIN flushes' = DOMAIN flushes \cup {f}
      /\ Len(flushes') = f /\ inFlight' = f
      /\ \A g \in DOMAIN flushes : flushes'[g] = flushes[g] /\ reactions'[g] = reactions[g]
      /\ reactions' \in Seq(Seq(JobSet)) /\ Len(reactions') = f
      /\ flushes'[f] = "settled" => reactions'[f] = <<>>
      /\ \A j \in Elements(reactions'[f]) : StartedFor(j, f, <<c>>)
      /\ jobs' \in Seq(JobSet)
      /\ \A j \in Elements(jobs') :
           \/ j \in Elements(rest)
           \/ StartedFor(j, f, <<c>>) /\ flushes'[f] = "settled"
      /\ Everything(jobs', reactions') = Everything(rest, reactions) \cup {Awaits(c)}
      /\ Excl(jobs', reactions', followUp.who)
  <2>1. Awaited(<<c>>) \cap HeldBy(<<>>) = {}
    BY <1>5
  <2>2. Free(Awaited(<<c>>) \cup HeldBy(<<>>), rest, reactions, followUp.who)
    BY <1>4, <1>5
  <2>3. Excl(rest, reactions, followUp.who)
    BY <1>1 DEF Exclusion
  <2>4. Elements(rest) \cup Elements(<<>>) = Elements(rest)
    BY <1>5
  <2>5. Everything(rest, reactions) \cup Awaited(<<c>>) \cup HeldBy(<<>>)
          = Everything(rest, reactions) \cup {Awaits(c)}
    BY <1>4, <1>5
  <2>6. QED
    BY <1>1, <1>2, <1>3, <1>4, <1>5, <2>1, <2>2, <2>3, <2>4, <2>5, StartFlushProperties
<1> HIDE DEF f
<1>8. /\ asked' \in [Callers -> BOOLEAN] /\ asked'[c]
      /\ begun' \in [Callers -> SUBSET DOMAIN flushes]
      /\ \A d \in Callers : d # c => asked'[d] = asked[d] /\ begun'[d] = begun[d]
  BY <1>1, <1>2, AskedNow
<1>9. jumped' \in BOOLEAN /\ (~jumped' => ~jumped /\ ~followUp.set)
  BY <1>2, Zenon
<1>10. TypesHold'
  <2>1. begun' \in [Callers -> SUBSET DOMAIN flushes']
    BY <1>7, <1>8
  <2>2. QED BY <1>1, <1>2, <1>7, <1>8, <1>9, <2>1 DEF TypesHold
<1>11. Bounded'
  <2> DEFINE one == IF followUp.set THEN 1 ELSE 0
  <2>1. one \in {0, 1} /\ Len(flushes) + one < MaxFlushes
    BY <1>2
  <2>2. one' = one
    BY <1>2
  <2>3. Len(flushes') = Len(flushes) + 1
    BY <1>7 DEF f
  <2>4. Len(flushes') + one' <= MaxFlushes
    <3> HIDE DEF one
    <3>1. QED BY <1>3, <2>1, <2>2, <2>3, FlushesAssumption
  <2>5. QED BY <2>4 DEF Bounded
<1>12. ASSUME NEW j \in JobSet, JobOK(j), c \notin Elements(j.who),
              ~followUp.set => j.do \notin Following
       PROVE  JobOK(j)'
  <2>1. Elements(j.who) \subseteq Callers
    BY JobCallers
  <2>2. \A d \in Elements(j.who) : asked'[d] /\ begun'[d] = begun[d]
    BY <1>8, <1>12, <2>1 DEF JobOK
  <2>3. QED BY <1>7, <1>9, <1>12, <2>2 DEF JobOK
<1>13. ASSUME NEW j, StartedFor(j, f, <<c>>) PROVE JobOK(j)' /\ j.do \notin Following /\ j.flush = f
  <2>1. f \notin begun'[c]
    BY <1>7, <1>8
  <2>2. QED BY <1>4, <1>7, <1>8, <1>13, <2>1 DEF JobOK, StartedFor, Following
<1>14. ~followUp.set =>
         /\ \A j \in Elements(rest) : j.do \notin Following
         /\ \A g \in DOMAIN flushes : \A j \in Elements(reactions[g]) : j.do \notin Following
  BY <1>1, <1>3, NothingFollows DEF OneFollows
<1>15. ASSUME NEW j \in Elements(jobs') PROVE QueuedOK(j)'
  <2>1. CASE j \in Elements(rest)
    <3>1. j \in JobSet /\ QueuedOK(j)
      BY <1>1, <1>3, <2>1, JobsAreTyped DEF JobsOK
    <3>2. JobOK(j)'
      BY <1>6, <1>12, <1>14, <2>1, <3>1 DEF QueuedOK
    <3>3. j.flush \in DOMAIN flushes
      BY <3>1 DEF QueuedOK, JobOK
    <3>4. QED BY <1>7, <3>1, <3>2, <3>3 DEF QueuedOK
  <2>2. CASE StartedFor(j, f, <<c>>) /\ flushes'[f] = "settled"
    BY <1>13, <2>2 DEF QueuedOK
  <2>3. QED BY <1>7, <2>1, <2>2
<1>16. JobsOK(jobs)'
  BY <1>7, <1>15 DEF JobsOK
<1>17. ASSUME NEW g \in DOMAIN flushes, NEW j \in Elements(reactions'[g])
       PROVE  JobOK(j)' /\ j.flush = g
  <2>1. j \in Elements(reactions[g])
    BY <1>7
  <2>2. reactions[g] \in Seq(JobSet)
    BY <1>3, ElementOfSeq, LenProperties
  <2>3. j \in JobSet
    BY <2>1, <2>2, JobsAreTyped
  <2>4. QED BY <1>1, <1>6, <1>12, <1>14, <2>1, <2>3 DEF ReactionsOK
<1>18. ReactionsOK'
  <2>1. ASSUME NEW g \in DOMAIN flushes'
        PROVE  /\ flushes'[g] = "settled" => reactions'[g] = <<>>
               /\ \A j \in Elements(reactions'[g]) : JobOK(j)' /\ j.flush = g
    <3>1. CASE g \in DOMAIN flushes
      BY <1>1, <1>7, <1>17, <3>1 DEF ReactionsOK
    <3>2. CASE g = f
      BY <1>7, <1>13, <3>2
    <3>3. QED BY <1>7, <3>1, <3>2
  <2>2. QED BY <2>1 DEF ReactionsOK
<1>19. Exclusion(jobs)'
  BY <1>2, <1>7 DEF Exclusion
<1>20. OneFollows(jobs)'
  <2>1. Follows # Awaits(c)
    BY DEF Follows, Awaits
  <2>2. Follows \in Everything(jobs', reactions') <=> Follows \in Everything(rest, reactions)
    BY <1>7, <2>1
  <2>3. QED BY <1>1, <1>2, <2>2 DEF OneFollows
<1>21. FollowersWait'
  <2>1. Elements(followUp.who) \subseteq Callers
    BY <1>3, ElementOfSeq, LenProperties DEF Elements
  <2>2. QED BY <1>1, <1>2, <1>6, <1>8, <2>1 DEF FollowersWait
<1>22. OneUnsettled'
  <2>1. ASSUME ~jumped', NEW g \in DOMAIN flushes', flushes'[g] # "settled" PROVE g = inFlight'
    <3>1. CASE g \in DOMAIN flushes
      <4>1. g = inFlight
        BY <1>1, <1>7, <1>9, <2>1, <3>1 DEF OneUnsettled
      <4>2. QED BY <1>2, <1>3, <3>1, <4>1
    <3>2. CASE g = f
      BY <1>7, <3>2
    <3>3. QED BY <1>7, <2>1, <3>1, <3>2
  <2>2. QED BY <2>1 DEF OneUnsettled
<1>23. QED
  BY <1>10, <1>11, <1>16, <1>18, <1>19, <1>20, <1>21, <1>22 DEF SchedulerIInv, Sound

LEMMA RequestKeeps ==
  ASSUME NEW rest, Sound(rest), NEW c \in Callers,
         Free({Awaits(c)}, rest, reactions, followUp.who), Request(c, rest)
  PROVE  SchedulerIInv'
BY JoinsFollowUp, StartsFlush

\* What is known of the first job and of the rest.
LEMMA FirstJob ==
  ASSUME SchedulerIInv, jobs # <<>>
  PROVE  /\ Head(jobs) \in JobSet /\ Rest \in Seq(JobSet) /\ reactions \in Seq(Seq(JobSet))
         /\ DOMAIN reactions = DOMAIN flushes
         /\ QueuedOK(Head(jobs)) /\ JobsOK(Rest)
         /\ Distinct(Head(jobs).who) /\ Exclusion(Rest)
         /\ Free(Holds(Head(jobs)), Rest, reactions, followUp.who)
         /\ Everything(jobs, reactions) = Holds(Head(jobs)) \cup Everything(Rest, reactions)
         /\ Head(jobs).do \notin Following => Sound(Rest)
<1>1. /\ TypesHold /\ Bounded /\ JobsOK(jobs) /\ ReactionsOK /\ Exclusion(jobs)
      /\ OneFollows(jobs) /\ FollowersWait /\ OneUnsettled
  BY DEF SchedulerIInv, Sound
<1>2. /\ jobs \in Seq(JobSet) /\ reactions \in Seq(Seq(JobSet))
      /\ DOMAIN reactions = DOMAIN flushes
  BY <1>1, LenProperties DEF TypesHold, JobsOK
<1>3. /\ Head(jobs) \in JobSet /\ Tail(jobs) \in Seq(JobSet)
      /\ Elements(jobs) = {Head(jobs)} \cup Elements(Tail(jobs))
  BY <1>2, HeadTailElements
<1>4. /\ Everything(jobs, reactions) = Holds(Head(jobs)) \cup Everything(Tail(jobs), reactions)
      /\ Excl(Tail(jobs), reactions, followUp.who) /\ Distinct(Head(jobs).who)
      /\ Free(Holds(Head(jobs)), Tail(jobs), reactions, followUp.who)
  <2>1. Excl(jobs, reactions, followUp.who)
    BY <1>1 DEF Exclusion
  <2>2. QED BY <1>2, <2>1, FirstTaken
<1>5. QueuedOK(Head(jobs)) /\ JobsOK(Rest)
  BY <1>1, <1>3 DEF JobsOK, Rest
<1>6. ASSUME Head(jobs).do \notin Following PROVE OneFollows(Rest)
  <2>1. Follows \notin Holds(Head(jobs))
    BY <1>6 DEF Holds, Awaited, Awaits, Follows
  <2>2. QED BY <1>1, <1>4, <2>1 DEF OneFollows, Rest
<1>7. QED BY <1>1, <1>2, <1>3, <1>4, <1>5, <1>6 DEF Sound, Exclusion, Rest

LEMMA SchedulerAskKeeps ==
  ASSUME SchedulerIInv, NEW c \in Callers, AskForFlush(c)
  PROVE  SchedulerIInv'
<1>1. /\ TypesHold /\ JobsOK(jobs) /\ ReactionsOK /\ FollowersWait
      /\ jobs = <<>> /\ ~asked[c] /\ Request(c, <<>>)
  BY DEF SchedulerIInv, Sound, AskForFlush
<1>2. DOMAIN reactions = DOMAIN flushes
  BY <1>1, LenProperties DEF TypesHold
<1>3. Awaits(c) \notin HeldBy(jobs)
  BY <1>1, HeldByNone
<1>4. ASSUME NEW f \in DOMAIN reactions PROVE Awaits(c) \notin HeldBy(reactions[f])
  <2>1. \A j \in Elements(reactions[f]) : c \notin Elements(j.who)
    BY <1>1, <1>2 DEF ReactionsOK, JobOK
  <2>2. QED BY <2>1 DEF HeldBy, Holds, Awaited, Awaits, Follows
<1>5. Awaits(c) \notin Awaited(followUp.who)
  BY <1>1 DEF FollowersWait, Awaited, Awaits
<1>6. Free({Awaits(c)}, <<>>, reactions, followUp.who)
  BY <1>1, <1>3, <1>4, <1>5 DEF Free, Everything
<1>7. Sound(<<>>)
  BY <1>1 DEF SchedulerIInv
<1>8. QED BY <1>1, <1>6, <1>7, RequestKeeps

LEMMA GoOnKeeps ==
  ASSUME SchedulerIInv, GoOn
  PROVE  SchedulerIInv'
<1> DEFINE h == Head(jobs)
<1>1. jobs # <<>> /\ h.do = "answer"
  BY DEF GoOn, Runs
<1>2. /\ h \in JobSet /\ Rest \in Seq(JobSet) /\ reactions \in Seq(Seq(JobSet))
      /\ DOMAIN reactions = DOMAIN flushes
      /\ QueuedOK(h) /\ JobsOK(Rest) /\ Sound(Rest)
      /\ Free(Holds(h), Rest, reactions, followUp.who)
  BY <1>1, FirstJob DEF Following
<1>3. PICK c : c = h.who[1]
  OBVIOUS
<1>4. c \in Callers /\ Elements(h.who) = {c}
  <2>1. Len(h.who) = 1 /\ h.who \in Seq(Callers)
    BY <1>1, <1>2 DEF QueuedOK, JobOK, JobSet
  <2>2. DOMAIN h.who = {1}
    BY <2>1, LenProperties
  <2>3. QED BY <1>3, <2>1, <2>2, ElementOfSeq DEF Elements
<1>5. Holds(h) = {Awaits(c)}
  BY <1>1, <1>4 DEF Holds, Awaited, Following
<1>6. CASE Request(c, Rest)
  BY <1>2, <1>4, <1>5, <1>6, RequestKeeps
<1>7. CASE /\ asked' = [asked EXCEPT ![c] = FALSE] /\ jobs' = Rest
           /\ UNCHANGED <<flushes, inFlight, followUp, reactions, begun, destroyed, jumped>>
  <2>1. /\ TypesHold /\ Bounded /\ ReactionsOK /\ Exclusion(Rest)
        /\ OneFollows(Rest) /\ FollowersWait /\ OneUnsettled
    BY <1>2 DEF Sound
  <2>2. /\ asked' \in [Callers -> BOOLEAN]
        /\ \A d \in Callers : d # c => asked'[d] = asked[d]
    BY <1>7, <2>1 DEF TypesHold
  <2>3. /\ \A j \in Elements(Rest) : c \notin Elements(j.who)
        /\ \A f \in DOMAIN flushes : \A j \in Elements(reactions[f]) : c \notin Elements(j.who)
        /\ c \notin Elements(followUp.who)
    <3>1. Free({Awaits(c)}, Rest, reactions, followUp.who)
      BY <1>2, <1>5
    <3>2. QED BY <1>2, <3>1, FreeCaller
  <2>4. ASSUME NEW j \in JobSet, JobOK(j), c \notin Elements(j.who) PROVE JobOK(j)'
    <3>1. Elements(j.who) \subseteq Callers
      BY JobCallers
    <3>2. QED BY <1>7, <2>2, <2>4, <3>1 DEF JobOK
  <2>5. JobsOK(jobs)'
    <3>1. \A j \in Elements(Rest) : j \in JobSet /\ QueuedOK(j)
      BY <1>2, JobsAreTyped DEF JobsOK
    <3>2. ASSUME NEW j \in Elements(Rest) PROVE QueuedOK(j)'
      BY <1>7, <2>3, <2>4, <3>1 DEF QueuedOK
    <3>3. QED BY <1>2, <1>7, <3>2 DEF JobsOK
  <2>6. ReactionsOK'
    <3>1. ASSUME NEW f \in DOMAIN flushes, NEW j \in Elements(reactions[f])
          PROVE  JobOK(j)' /\ j.flush = f
      <4>1. reactions[f] \in Seq(JobSet)
        BY <1>2, ElementOfSeq, LenProperties
      <4>2. j \in JobSet
        BY <4>1, JobsAreTyped
      <4>3. QED BY <2>1, <2>3, <2>4, <4>2 DEF ReactionsOK
    <3>2. QED BY <1>7, <2>1, <3>1 DEF ReactionsOK
  <2>7. FollowersWait'
    <3>1. followUp.who \in Seq(Callers)
      BY <2>1 DEF TypesHold
    <3>2. Elements(followUp.who) \subseteq Callers
      BY <3>1, ElementOfSeq, LenProperties DEF Elements
    <3>3. QED BY <1>7, <2>1, <2>2, <2>3, <3>2 DEF FollowersWait
  <2>8. TypesHold' /\ Bounded'
    BY <1>7, <2>1, <2>2 DEF TypesHold, Bounded
  <2>9. Exclusion(jobs)' /\ OneFollows(jobs)'
    BY <1>7, <2>1 DEF Exclusion, OneFollows
  <2>10. OneUnsettled'
    BY <1>7, <2>1 DEF OneUnsettled
  <2>11. QED BY <2>5, <2>6, <2>7, <2>8, <2>9, <2>10 DEF SchedulerIInv, Sound
<1>8. QED BY <1>3, <1>6, <1>7 DEF GoOn

\* A step that moves jobs and reactions only, and loses no follow-up.
LEMMA JobsMove ==
  ASSUME SchedulerIInv, UNCHANGED <<flushes, inFlight, followUp, asked, begun, destroyed, jumped>>,
         jobs' \in Seq(JobSet), \A j \in Elements(jobs') : QueuedOK(j),
         reactions' \in Seq(Seq(JobSet)), Len(reactions') = Len(reactions),
         \A f \in DOMAIN flushes :
           /\ flushes[f] = "settled" => reactions'[f] = <<>>
           /\ \A j \in Elements(reactions'[f]) : JobOK(j) /\ j.flush = f,
         Excl(jobs', reactions', followUp.who),
         Follows \in Everything(jobs', reactions') <=> Follows \in Everything(jobs, reactions)
  PROVE  SchedulerIInv'
<1>1. /\ TypesHold /\ Bounded /\ OneFollows(jobs) /\ FollowersWait /\ OneUnsettled
  BY DEF SchedulerIInv, Sound
<1>2. \A j : JobOK(j) => JobOK(j)'
  BY DEF JobOK
<1>3. \A j : QueuedOK(j) => QueuedOK(j)'
  BY <1>2 DEF QueuedOK
<1>4. JobsOK(jobs)'
  BY <1>3 DEF JobsOK
<1>5. ReactionsOK'
  BY <1>2 DEF ReactionsOK
<1>6. Exclusion(jobs)' /\ OneFollows(jobs)'
  BY <1>1 DEF Exclusion, OneFollows
<1>7. TypesHold' /\ Bounded' /\ FollowersWait' /\ OneUnsettled'
  BY <1>1 DEF TypesHold, Bounded, FollowersWait, OneUnsettled
<1>8. QED BY <1>4, <1>5, <1>6, <1>7 DEF SchedulerIInv, Sound

\* The first job makes way for others that hold no more than it held.
LEMMA JobReplaced ==
  ASSUME SchedulerIInv, jobs # <<>>, NEW s \in Seq(JobSet), jobs' = Rest \o s,
         UNCHANGED <<flushes, inFlight, followUp, reactions, asked, begun, destroyed, jumped>>,
         Exclusive(s), HeldBy(s) \subseteq Holds(Head(jobs)),
         Follows \in HeldBy(s) <=> Follows \in Holds(Head(jobs)), \A j \in Elements(s) : QueuedOK(j)
  PROVE  SchedulerIInv'
<1>1. /\ Rest \in Seq(JobSet) /\ reactions \in Seq(Seq(JobSet)) /\ JobsOK(Rest)
      /\ Exclusion(Rest) /\ Free(HeldBy(s), Rest, reactions, followUp.who)
      /\ Everything(jobs, reactions) = Holds(Head(jobs)) \cup Everything(Rest, reactions)
  BY FirstJob DEF Free
<1>2. /\ Rest \o s \in Seq(JobSet) /\ Elements(Rest \o s) = Elements(Rest) \cup Elements(s)
  BY <1>1, ConcatElements
<1>3. /\ Everything(Rest \o s, reactions) = Everything(Rest, reactions) \cup HeldBy(s)
      /\ Excl(Rest \o s, reactions, followUp.who)
  BY <1>1, JobsQueued DEF Exclusion
<1>4. \A j \in Elements(jobs') : QueuedOK(j)
  BY <1>1, <1>2 DEF JobsOK
<1>5. ReactionsOK
  BY DEF SchedulerIInv, Sound
<1>6. \A f \in DOMAIN flushes :
        /\ flushes[f] = "settled" => reactions'[f] = <<>>
        /\ \A j \in Elements(reactions'[f]) : JobOK(j) /\ j.flush = f
  BY <1>5 DEF ReactionsOK
<1>7. /\ jobs' \in Seq(JobSet) /\ reactions' \in Seq(Seq(JobSet)) /\ Len(reactions') = Len(reactions)
      /\ Excl(jobs', reactions', followUp.who)
      /\ Follows \in Everything(jobs', reactions') <=> Follows \in Everything(jobs, reactions)
  BY <1>1, <1>2, <1>3
<1>8. QED BY <1>4, <1>6, <1>7, JobsMove

LEMMA PassKeeps ==
  ASSUME SchedulerIInv, Pass
  PROVE  SchedulerIInv'
<1>1. UNCHANGED <<flushes, inFlight, followUp, reactions, asked, begun, destroyed, jumped>>
  BY DEF Pass
<1>2. ASSUME NEW to \in Following \cup Clearing, jobs # <<>>,
              Head(jobs).do \in Following \cup Clearing,
              to \in Following <=> Head(jobs).do \in Following,
              NEW new, new = Job(to, Head(jobs).flush, <<>>), jobs' = Append(Rest, new)
      PROVE  SchedulerIInv'
  <2>1. Head(jobs) \in JobSet /\ Rest \in Seq(JobSet) /\ QueuedOK(Head(jobs))
    BY <1>2, FirstJob
  <2>2. Elements(<<>>) = {} /\ <<>> \in Seq(Callers) /\ Distinct(<<>>)
    BY EmptySeq DEF Elements, Distinct
  <2>3. /\ new \in JobSet /\ new.do = to /\ new.flush = Head(jobs).flush
        /\ new.who = <<>>
    BY <1>2, <2>1, <2>2 DEF Job, JobSet, Does
  <2>4. QueuedOK(new)
    BY <1>2, <2>1, <2>2, <2>3 DEF QueuedOK, JobOK, Following, Clearing
  <2>5. Awaited(new.who) = {}
    BY <2>2, <2>3 DEF Awaited
  <2>6. Follows \notin Awaited(Head(jobs).who)
    BY DEF Awaited, Awaits, Follows
  <2>7. /\ Holds(new) \subseteq Holds(Head(jobs))
        /\ Follows \in Holds(new) <=> Follows \in Holds(Head(jobs))
    BY <1>2, <2>3, <2>5, <2>6 DEF Holds
  <2>8. <<new>> \in Seq(JobSet) /\ Elements(<<new>>) = {new}
    BY <2>3, OneElement
  <2>9. HeldBy(<<new>>) = Holds(new)
    BY <2>3, HeldByOne
  <2>10. Exclusive(<<new>>)
    BY <2>2, <2>3, ExclusiveOne
  <2>11. jobs' = Rest \o <<new>>
    BY <1>2, <2>1, <2>3, AppendIsConcat
  <2>12. ASSUME NEW s \in Seq(JobSet), Elements(s) = {new}, HeldBy(s) = Holds(new),
                Exclusive(s), jobs' = Rest \o s
         PROVE  SchedulerIInv'
    BY <1>1, <1>2, <2>4, <2>7, <2>12, JobReplaced
  <2>13. QED BY <2>8, <2>9, <2>10, <2>11, <2>12
<1>3. CASE Runs("pass to clear") /\ jobs' = Append(Rest, Job("clear", Head(jobs).flush, <<>>))
  <2>1. /\ jobs # <<>> /\ "clear" \in Following \cup Clearing
        /\ Head(jobs).do \in Following \cup Clearing
        /\ "clear" \in Following <=> Head(jobs).do \in Following
    BY <1>3 DEF Runs, Following, Clearing
  <2>2. QED BY <1>2, <1>3, <2>1
<1>4. CASE Runs("pass to follow") /\ jobs' = Append(Rest, Job("follow", Head(jobs).flush, <<>>))
  <2>1. /\ jobs # <<>> /\ "follow" \in Following \cup Clearing
        /\ Head(jobs).do \in Following \cup Clearing
        /\ "follow" \in Following <=> Head(jobs).do \in Following
    BY <1>4 DEF Runs, Following, Clearing
  <2>2. QED BY <1>2, <1>4, <2>1
<1>5. QED BY <1>3, <1>4 DEF Pass

LEMMA ResolveKeeps ==
  ASSUME SchedulerIInv, Resolve
  PROVE  SchedulerIInv'
<1> DEFINE h == Head(jobs)
<1>1. /\ jobs # <<>> /\ h.do = "resolve" /\ jobs' = Rest \o Answers(h.flush, h.who)
      /\ UNCHANGED <<flushes, inFlight, followUp, reactions, asked, begun, destroyed, jumped>>
  BY DEF Resolve, Runs
<1>2. h \in JobSet /\ QueuedOK(h) /\ Distinct(h.who)
  BY <1>1, FirstJob
<1>3. h.flush \in Nat /\ h.who \in Seq(Callers)
  BY <1>2 DEF JobSet
<1> HIDE DEF h
<1>4. PICK s : s = Answers(h.flush, h.who)
  OBVIOUS
<1>5. /\ s \in Seq(JobSet) /\ HeldBy(s) = Awaited(h.who) /\ Exclusive(s)
      /\ \A j \in Elements(s) :
           /\ j.do = "answer" /\ j.flush = h.flush /\ Len(j.who) = 1
           /\ Elements(j.who) \subseteq Elements(h.who)
  BY <1>2, <1>3, <1>4, AnswersProperties
<1>6. HeldBy(s) = Holds(h)
  BY <1>1, <1>5 DEF Holds, Following
<1>7. \A j \in Elements(s) : QueuedOK(j)
  BY <1>2, <1>5 DEF QueuedOK, JobOK, Following, Clearing
<1>8. QED BY <1>1, <1>4, <1>5, <1>6, <1>7, JobReplaced DEF h

LEMMA AdoptKeeps ==
  ASSUME SchedulerIInv, Adopt
  PROVE  SchedulerIInv'
<1> DEFINE h == Head(jobs)
<1>1. /\ jobs # <<>> /\ h.do = "adopt" /\ React(h.flush, [h EXCEPT !.do = "resolve"], Rest)
      /\ UNCHANGED <<flushes, inFlight, followUp, asked, begun, destroyed, jumped>>
  BY DEF Adopt, Runs
<1>2. /\ h \in JobSet /\ Rest \in Seq(JobSet) /\ QueuedOK(h) /\ JobsOK(Rest)
      /\ Distinct(h.who) /\ Exclusion(Rest) /\ Free(Holds(h), Rest, reactions, followUp.who)
      /\ Everything(jobs, reactions) = Holds(h) \cup Everything(Rest, reactions)
  BY <1>1, FirstJob
<1> HIDE DEF h
<1>3. PICK j : j = [h EXCEPT !.do = "resolve"]
  OBVIOUS
<1>4. /\ j \in JobSet /\ j.do = "resolve" /\ j.flush = h.flush /\ j.who = h.who
  BY <1>2, <1>3 DEF JobSet, Does
<1>5. Holds(j) = Holds(h)
  BY <1>1, <1>4 DEF Holds, Following
<1>6. QueuedOK(j) /\ JobOK(j) /\ h.flush \in DOMAIN flushes
  BY <1>2, <1>4 DEF QueuedOK, JobOK, Following, Clearing
<1>7. TypesHold /\ ReactionsOK
  BY DEF SchedulerIInv, Sound
<1>8. /\ reactions' \in Seq(Seq(JobSet)) /\ Len(reactions') = Len(reactions)
      /\ jobs' \in Seq(JobSet)
      /\ \A k \in Elements(jobs') : k \in Elements(Rest) \/ k = j
      /\ \A g \in DOMAIN flushes :
           /\ flushes[g] = "settled" => reactions'[g] = reactions[g]
           /\ \A k \in Elements(reactions'[g]) :
                k \in Elements(reactions[g]) \/ (k = j /\ g = h.flush)
      /\ Everything(jobs', reactions') = Everything(Rest, reactions) \cup Holds(j)
      /\ Excl(jobs', reactions', followUp.who)
  <2>1. /\ React(h.flush, j, Rest) /\ Excl(Rest, reactions, followUp.who) /\ Distinct(j.who)
        /\ Free(Holds(j), Rest, reactions, followUp.who)
    BY <1>1, <1>2, <1>3, <1>4, <1>5 DEF Exclusion
  <2>2. PICK f \in DOMAIN flushes : f = h.flush
    BY <1>6
  <2>3. React(f, j, Rest)
    BY <2>1, <2>2
  <2>4. Rest \in Seq(JobSet) /\ j \in JobSet
    BY <1>2, <1>4
  <2>5. PICK rest \in Seq(JobSet) : rest = Rest
    BY <2>4
  <2>6. /\ TypesHold /\ Excl(rest, reactions, followUp.who) /\ React(f, j, rest)
        /\ Free(Holds(j), rest, reactions, followUp.who) /\ Distinct(j.who)
    BY <1>7, <2>1, <2>3, <2>5
  <2>7. /\ reactions' \in Seq(Seq(JobSet)) /\ Len(reactions') = Len(reactions)
        /\ jobs' \in Seq(JobSet)
        /\ \A k \in Elements(jobs') :
             k \in Elements(rest) \/ (k = j /\ flushes[f] = "settled")
        /\ \A g \in DOMAIN flushes :
             /\ flushes[g] = "settled" => reactions'[g] = reactions[g]
             /\ \A k \in Elements(reactions'[g]) :
                  k \in Elements(reactions[g]) \/ (k = j /\ g = f)
        /\ Everything(jobs', reactions') = Everything(rest, reactions) \cup Holds(j)
        /\ Excl(jobs', reactions', followUp.who)
    BY <2>4, <2>6, ReactProperties
  <2>8. QED BY <2>2, <2>5, <2>7
<1>9. \A k \in Elements(jobs') : QueuedOK(k)
  BY <1>2, <1>6, <1>8 DEF JobsOK
<1>10. \A g \in DOMAIN flushes :
         /\ flushes[g] = "settled" => reactions'[g] = <<>>
         /\ \A k \in Elements(reactions'[g]) : JobOK(k) /\ k.flush = g
  BY ZenonT(60), <1>4, <1>6, <1>7, <1>8 DEF ReactionsOK
<1>11. Follows \in Everything(jobs', reactions') <=> Follows \in Everything(jobs, reactions)
  BY <1>2, <1>5, <1>8
<1>12. QED BY <1>1, <1>8, <1>9, <1>10, <1>11, JobsMove

LEMMA ClearKeeps ==
  ASSUME SchedulerIInv, Clear
  PROVE  SchedulerIInv'
<1> DEFINE h == Head(jobs)
<1>1. /\ jobs # <<>> /\ h.do = "clear" /\ jobs' = Rest
      /\ inFlight' = (IF inFlight = h.flush THEN 0 ELSE inFlight)
      /\ UNCHANGED <<flushes, followUp, reactions, asked, begun, destroyed, jumped>>
  BY DEF Clear, Runs
<1>2. QueuedOK(h) /\ Sound(Rest)
  BY <1>1, FirstJob DEF Following
<1> HIDE DEF h
<1>3. /\ TypesHold /\ Bounded /\ JobsOK(Rest) /\ ReactionsOK /\ Exclusion(Rest)
      /\ OneFollows(Rest) /\ FollowersWait /\ OneUnsettled
  BY <1>2 DEF Sound
<1>4. h.flush \in DOMAIN flushes /\ flushes[h.flush] = "settled"
  BY <1>1, <1>2 DEF QueuedOK, JobOK, Clearing
<1>5. ASSUME NEW j, JobOK(j) PROVE JobOK(j)'
  BY <1>1, <1>5 DEF JobOK
<1>6. JobsOK(jobs)'
  BY <1>1, <1>3, <1>5 DEF JobsOK, QueuedOK
<1>7. ReactionsOK'
  BY <1>1, <1>3, <1>5 DEF ReactionsOK
<1>8. OneUnsettled'
  BY <1>1, <1>3, <1>4 DEF OneUnsettled
<1>9. TypesHold' /\ Bounded' /\ FollowersWait'
  BY <1>1, <1>3 DEF TypesHold, Bounded, FollowersWait
<1>10. Exclusion(jobs)' /\ OneFollows(jobs)'
  BY <1>1, <1>3 DEF Exclusion, OneFollows
<1>11. QED BY <1>6, <1>7, <1>8, <1>9, <1>10 DEF SchedulerIInv, Sound

\* The jobs of a flush that settles are queued.
LEMMA SettlingKeeps ==
  ASSUME SchedulerIInv, NEW f \in DOMAIN flushes,
         flushes' = [flushes EXCEPT ![f] = "settled"],
         jobs' = jobs \o reactions[f], reactions' = WithoutReactions(reactions, f),
         UNCHANGED <<inFlight, followUp, asked, begun, destroyed, jumped>>
  PROVE  SchedulerIInv'
<1>1. /\ TypesHold /\ Bounded /\ JobsOK(jobs) /\ ReactionsOK /\ Exclusion(jobs)
      /\ OneFollows(jobs) /\ FollowersWait /\ OneUnsettled
  BY DEF SchedulerIInv, Sound
<1>2. /\ jobs \in Seq(JobSet) /\ reactions \in Seq(Seq(JobSet)) /\ flushes \in Seq(Steps)
      /\ Len(reactions) = Len(flushes)
      /\ DOMAIN reactions = DOMAIN flushes /\ DOMAIN flushes = 1..Len(flushes)
  BY <1>1, LenProperties DEF TypesHold, JobsOK
<1>3. /\ flushes' \in Seq(Steps) /\ Len(flushes') = Len(flushes)
      /\ DOMAIN flushes' = DOMAIN flushes
      /\ \A g \in DOMAIN flushes : flushes'[g] = IF g = f THEN "settled" ELSE flushes[g]
  <2>1. "settled" \in Steps
    BY DEF Steps
  <2>2. QED BY <1>2, <2>1, ExceptSeq, LenProperties
<1>4. /\ reactions[f] \in Seq(JobSet)
      /\ reactions' \in Seq(Seq(JobSet)) /\ Len(reactions') = Len(reactions)
      /\ Everything(jobs', reactions') = Everything(jobs, reactions)
      /\ Excl(jobs', reactions', followUp.who)
  <2>1. f \in DOMAIN reactions /\ Excl(jobs, reactions, followUp.who)
    BY <1>1, <1>2 DEF Exclusion
  <2>2. QED BY <1>2, <2>1, ReactionsQueued
<1>5. \A g \in DOMAIN flushes : reactions'[g] = IF g = f THEN <<>> ELSE reactions[g]
  BY <1>2 DEF WithoutReactions
<1>6. jobs' \in Seq(JobSet) /\ Elements(jobs') = Elements(jobs) \cup Elements(reactions[f])
  BY <1>2, <1>4, ConcatElements
<1>7. ASSUME NEW j, JobOK(j) PROVE JobOK(j)'
  BY <1>3, <1>7 DEF JobOK
<1>8. ASSUME NEW j \in Elements(jobs') PROVE QueuedOK(j)'
  <2>1. CASE j \in Elements(jobs)
    <3>1. QueuedOK(j)
      BY <1>1, <2>1 DEF JobsOK
    <3>2. JobOK(j)' /\ j.flush \in DOMAIN flushes
      BY <1>7, <3>1 DEF QueuedOK, JobOK
    <3>3. QED BY <1>3, <3>1, <3>2 DEF QueuedOK
  <2>2. CASE j \in Elements(reactions[f])
    <3>1. JobOK(j)' /\ j.flush = f
      BY <1>1, <1>7, <2>2 DEF ReactionsOK
    <3>2. QED BY <1>3, <3>1 DEF QueuedOK
  <2>3. QED BY <1>6, <2>1, <2>2
<1>9. JobsOK(jobs)'
  BY <1>6, <1>8 DEF JobsOK
<1>10. ReactionsOK'
  <2>1. ASSUME NEW g \in DOMAIN flushes
        PROVE  /\ flushes'[g] = "settled" => reactions'[g] = <<>>
               /\ \A j \in Elements(reactions'[g]) : JobOK(j)' /\ j.flush = g
    <3>1. CASE g = f
      BY <1>5, <3>1, HeldByNone
    <3>2. CASE g # f
      BY <1>1, <1>3, <1>5, <1>7, <3>2 DEF ReactionsOK
    <3>3. QED BY <3>1, <3>2
  <2>2. QED BY <1>3, <2>1 DEF ReactionsOK
<1>11. Exclusion(jobs)' /\ OneFollows(jobs)'
  BY <1>1, <1>4 DEF Exclusion, OneFollows
<1>12. OneUnsettled'
  BY <1>1, <1>3 DEF OneUnsettled
<1>13. TypesHold' /\ Bounded' /\ FollowersWait'
  BY <1>1, <1>3, <1>4 DEF TypesHold, Bounded, FollowersWait
<1>14. QED BY <1>9, <1>10, <1>11, <1>12, <1>13 DEF SchedulerIInv, Sound

\* The follow-up starts: the first job was the one that followed, the flush it
\* followed has settled, and nobody started another unless by jumping.
LEMMA FollowKeeps ==
  ASSUME SchedulerIInv, Follow
  PROVE  SchedulerIInv'
<1> DEFINE h == Head(jobs)
           f == Len(flushes) + 1
<1>1. /\ TypesHold /\ Bounded /\ ReactionsOK /\ OneFollows(jobs) /\ FollowersWait
      /\ OneUnsettled
  BY DEF SchedulerIInv, Sound
<1>2. PICK adopt : adopt = Job("adopt", f, followUp.who)
  OBVIOUS
<1>3. /\ jobs # <<>> /\ h.do = "follow" /\ followUp' = NoFollowUp
      /\ StartFlush(Rest, <<>>, <<adopt>>)
      /\ UNCHANGED <<asked, begun, destroyed, jumped>>
  BY <1>2 DEF Follow, Runs
<1>4. /\ Rest \in Seq(JobSet) /\ reactions \in Seq(Seq(JobSet)) /\ QueuedOK(h) /\ JobsOK(Rest)
      /\ Excl(Rest, reactions, followUp.who)
      /\ Free(Holds(h), Rest, reactions, followUp.who)
      /\ Everything(jobs, reactions) = Holds(h) \cup Everything(Rest, reactions)
  BY <1>3, FirstJob DEF Exclusion
<1> HIDE DEF h
<1>5. /\ flushes \in Seq(Steps) /\ DOMAIN reactions = DOMAIN flushes
      /\ DOMAIN flushes = 1..Len(flushes) /\ Len(flushes) \in Nat
      /\ followUp \in [set : BOOLEAN, who : Seq(Callers)]
      /\ begun \in [Callers -> SUBSET DOMAIN flushes]
  BY <1>1, LenProperties DEF TypesHold
<1>6. followUp.set /\ Follows \notin Everything(Rest, reactions)
  <2>1. Follows \in Holds(h)
    BY <1>3 DEF Holds, Following
  <2>2. QED BY <1>1, <1>4, <2>1 DEF OneFollows, Free
<1>7. /\ \A j \in Elements(Rest) : j.do \notin Following
      /\ \A g \in DOMAIN flushes : \A j \in Elements(reactions[g]) : j.do \notin Following
  BY <1>5, <1>6, NothingFollows
<1>8. /\ adopt \in JobSet /\ adopt.do = "adopt" /\ adopt.flush = f
      /\ adopt.who = followUp.who
  BY <1>2, <1>5 DEF Job, JobSet, Does
<1>9. f \notin DOMAIN flushes
  BY <1>5
<1> HIDE DEF f
<1>10. Holds(adopt) = Awaited(followUp.who)
  BY <1>8 DEF Holds, Following
<1>11. /\ <<adopt>> \in Seq(JobSet) /\ Elements(<<adopt>>) = {adopt}
  BY <1>8, OneElement
<1>12. HeldBy(<<adopt>>) = Awaited(followUp.who)
  BY <1>8, <1>10, HeldByOne
<1>13. Exclusive(<<adopt>>)
  <2>1. Distinct(adopt.who)
    BY <1>4, <1>8 DEF Excl
  <2>2. QED BY <1>8, <2>1, ExclusiveOne
<1>14. /\ <<>> \in Seq(Callers) /\ Elements(<<>>) = {} /\ Awaited(<<>>) = {}
       /\ Distinct(<<>>) /\ Excl(Rest, reactions, <<>>)
  <2>1. Distinct(<<>>)
    BY DEF Distinct
  <2>2. QED BY <1>4, <2>1, NobodyFollows, EmptySeq
<1>15. PICK none \in Seq(Callers) : none = <<>>
  BY <1>14
<1>16. PICK after \in Seq(JobSet) : after = <<adopt>>
  BY <1>11
<1>17. /\ flushes' \in Seq(Steps) /\ DOMAIN flushes' = DOMAIN flushes \cup {f}
       /\ Len(flushes') = f /\ inFlight' = f
       /\ \A g \in DOMAIN flushes : flushes'[g] = flushes[g] /\ reactions'[g] = reactions[g]
       /\ reactions' \in Seq(Seq(JobSet)) /\ Len(reactions') = f
       /\ flushes'[f] = "settled" => reactions'[f] = <<>>
       /\ \A j \in Elements(reactions'[f]) : StartedFor(j, f, none)
       /\ jobs' \in Seq(JobSet)
       /\ \A j \in Elements(jobs') :
            \/ j \in Elements(Rest) \cup Elements(after)
            \/ StartedFor(j, f, none) /\ flushes'[f] = "settled"
       /\ Everything(jobs', reactions')
            = Everything(Rest, reactions) \cup Awaited(none) \cup HeldBy(after)
       /\ Excl(jobs', reactions', <<>>)
  <2>1. Awaited(none) \cap HeldBy(after) = {}
    BY <1>14, <1>15
  <2>2. Free(Awaited(none) \cup HeldBy(after), Rest, reactions, <<>>)
    BY <1>4, <1>12, <1>14, <1>15, <1>16 DEF Excl, Free
  <2>3. PICK rest \in Seq(JobSet) : rest = Rest
    BY <1>4
  <2>4. /\ Excl(rest, reactions, <<>>) /\ Distinct(none) /\ Exclusive(after)
        /\ StartFlush(rest, none, after)
        /\ Free(Awaited(none) \cup HeldBy(after), rest, reactions, <<>>)
    BY <1>3, <1>13, <1>14, <1>15, <1>16, <2>2, <2>3
  <2>5. QED BY <1>1, <2>1, <2>3, <2>4, StartFlushProperties DEF f
<1>18. TypesHold'
  <2>1. followUp' \in [set : BOOLEAN, who : Seq(Callers)]
    BY <1>3, <1>14 DEF NoFollowUp
  <2>2. begun' \in [Callers -> SUBSET DOMAIN flushes']
    BY <1>3, <1>5, <1>17
  <2>3. QED BY <1>1, <1>3, <1>17, <2>1, <2>2 DEF TypesHold
<1>19. Bounded'
  <2>1. Len(flushes) + 1 <= MaxFlushes
    BY <1>1, <1>6 DEF Bounded
  <2>2. ~followUp'.set
    BY <1>3 DEF NoFollowUp
  <2>3. Len(flushes') + 0 <= MaxFlushes
    BY <1>5, <1>17, <2>1 DEF f
  <2>4. QED BY <2>2, <2>3 DEF Bounded
<1>20. ASSUME NEW j, JobOK(j), j.do \notin Following PROVE JobOK(j)'
  BY <1>3, <1>17, <1>20 DEF JobOK
<1>21. ASSUME NEW j, StartedFor(j, f, none)
       PROVE  JobOK(j)' /\ j.flush = f
  BY <1>14, <1>15, <1>17, <1>21 DEF JobOK, StartedFor, Following
<1>22. JobOK(adopt)'
  <2>1. Elements(followUp.who) \subseteq Callers
    <3>1. followUp.who \in Seq(Callers)
      BY <1>5
    <3>2. QED BY <3>1, ElementOfSeq, LenProperties DEF Elements
  <2>2. \A c \in Elements(adopt.who) : asked'[c] /\ f \notin begun'[c]
    BY <1>1, <1>3, <1>5, <1>8, <1>9, <2>1 DEF FollowersWait
  <2>3. QED BY <1>8, <1>17, <2>2 DEF JobOK, Following
<1>23. ASSUME NEW j \in Elements(jobs') PROVE QueuedOK(j)'
  <2>1. CASE j \in Elements(Rest)
    <3>1. QueuedOK(j) /\ j.do \notin Following
      BY <1>4, <1>7, <2>1 DEF JobsOK
    <3>2. JobOK(j)' /\ j.flush \in DOMAIN flushes
      BY <1>20, <3>1 DEF QueuedOK, JobOK
    <3>3. QED BY <1>17, <3>1, <3>2 DEF QueuedOK
  <2>2. CASE j = adopt
    BY <1>8, <1>22, <2>2 DEF QueuedOK, Following, Clearing
  <2>3. CASE StartedFor(j, f, none) /\ flushes'[f] = "settled"
    BY <1>21, <2>3 DEF QueuedOK
  <2>4. QED BY <1>11, <1>16, <1>17, <2>1, <2>2, <2>3
<1>24. JobsOK(jobs)'
  BY <1>17, <1>23 DEF JobsOK
<1>25. ReactionsOK'
  <2>1. ASSUME NEW g \in DOMAIN flushes'
        PROVE  /\ flushes'[g] = "settled" => reactions'[g] = <<>>
               /\ \A j \in Elements(reactions'[g]) : JobOK(j)' /\ j.flush = g
    <3>1. CASE g \in DOMAIN flushes
      BY <1>1, <1>7, <1>17, <1>20, <3>1 DEF ReactionsOK
    <3>2. CASE g = f
      BY <1>17, <1>21, <3>2
    <3>3. QED BY <1>17, <3>1, <3>2
  <2>2. QED BY <2>1 DEF ReactionsOK
<1>26. Exclusion(jobs)' /\ FollowersWait'
  BY <1>3, <1>14, <1>17 DEF Exclusion, FollowersWait, NoFollowUp
<1>27. OneFollows(jobs)'
  <2>1. Follows \notin Awaited(followUp.who)
    BY DEF Awaited, Awaits, Follows
  <2>2. Follows \notin Everything(jobs', reactions')
    BY <1>6, <1>12, <1>14, <1>15, <1>16, <1>17, <2>1
  <2>3. ~followUp'.set
    BY <1>3 DEF NoFollowUp
  <2>4. QED BY <2>2, <2>3 DEF OneFollows
<1>28. OneUnsettled'
  <2>1. ASSUME ~jumped, NEW g \in DOMAIN flushes PROVE flushes[g] = "settled"
    <3>1. inFlight \in {0, h.flush} /\ flushes[h.flush] = "settled"
      BY <1>3, <1>4, <2>1 DEF QueuedOK, JobOK, Following
    <3>2. g # 0
      BY <1>5
    <3>3. QED BY <1>1, <2>1, <3>1, <3>2 DEF OneUnsettled
  <2>2. QED BY <1>3, <1>17, <2>1 DEF OneUnsettled
<1>29. QED
  BY <1>18, <1>19, <1>24, <1>25, <1>26, <1>27, <1>28 DEF SchedulerIInv, Sound

LEMMA WakeKeeps ==
  ASSUME SchedulerIInv, NEW f \in DOMAIN flushes, Wake(f)
  PROVE  SchedulerIInv'
<1>1. /\ TypesHold /\ Bounded /\ JobsOK(jobs) /\ ReactionsOK /\ Exclusion(jobs)
      /\ OneFollows(jobs) /\ FollowersWait /\ OneUnsettled
  BY DEF SchedulerIInv, Sound
<1>2. /\ reactions \in Seq(Seq(JobSet)) /\ flushes \in Seq(Steps)
      /\ DOMAIN reactions = DOMAIN flushes
  BY <1>1, LenProperties DEF TypesHold
<1>3. /\ jobs = <<>> /\ flushes[f] = "waiting"
      /\ UNCHANGED <<inFlight, followUp, asked, begun, destroyed, jumped>>
  BY DEF Wake, Timer
<1>4. CASE destroyed
  <2>1. reactions[f] \in Seq(JobSet)
    BY <1>2, ElementOfSeq, LenProperties
  <2>2. <<>> \o reactions[f] = reactions[f]
    BY <2>1, ConcatEmptySeq
  <2>3. /\ flushes' = [flushes EXCEPT ![f] = "settled"] /\ jobs' = jobs \o reactions[f]
        /\ reactions' = WithoutReactions(reactions, f)
    BY <1>3, <1>4, <2>2 DEF Wake, Timer, WithoutReactions
  <2>4. QED BY <1>3, <2>3, SettlingKeeps
<1>5. CASE ~destroyed
  <2>1. flushes' = [flushes EXCEPT ![f] = "reading"] /\ UNCHANGED <<jobs, reactions>>
    BY <1>5 DEF Wake, Timer
  <2>2. /\ flushes' \in Seq(Steps) /\ Len(flushes') = Len(flushes)
        /\ DOMAIN flushes' = DOMAIN flushes
        /\ \A g \in DOMAIN flushes : flushes'[g] = IF g = f THEN "reading" ELSE flushes[g]
    <3>1. "reading" \in Steps
      BY DEF Steps
    <3>2. QED BY <1>2, <2>1, <3>1, ExceptSeq, LenProperties
  <2>3. ASSUME NEW j, JobOK(j) PROVE JobOK(j)'
    BY <1>3, <2>2, <2>3 DEF JobOK
  <2>4. JobsOK(jobs)'
    <3>1. ASSUME NEW j \in Elements(jobs) PROVE QueuedOK(j)'
      BY <1>3, <3>1, HeldByNone
    <3>2. QED BY <1>1, <2>1, <3>1 DEF JobsOK
  <2>5. ReactionsOK'
    <3>1. ASSUME NEW g \in DOMAIN flushes
          PROVE  /\ flushes'[g] = "settled" => reactions'[g] = <<>>
                 /\ \A j \in Elements(reactions'[g]) : JobOK(j)' /\ j.flush = g
      BY <1>1, <2>1, <2>2, <2>3 DEF ReactionsOK
    <3>2. QED BY <2>2, <3>1 DEF ReactionsOK
  <2>6. OneUnsettled'
    BY <1>1, <1>3, <2>2 DEF OneUnsettled
  <2>7. TypesHold' /\ Bounded' /\ FollowersWait'
    BY <1>1, <1>3, <2>1, <2>2 DEF TypesHold, Bounded, FollowersWait
  <2>8. Exclusion(jobs)' /\ OneFollows(jobs)'
    BY <1>1, <1>3, <2>1 DEF Exclusion, OneFollows
  <2>9. QED BY <2>4, <2>5, <2>6, <2>7, <2>8 DEF SchedulerIInv, Sound
<1>6. QED BY <1>4, <1>5

LEMMA SettleKeeps ==
  ASSUME SchedulerIInv, NEW f \in DOMAIN flushes, Settle(f)
  PROVE  SchedulerIInv'
BY SettlingKeeps DEF Settle, WithoutReactions

\* A step of the plugin's end, or none at all.
LEMMA NothingMoves ==
  ASSUME SchedulerIInv, destroyed' \in BOOLEAN,
         UNCHANGED <<flushes, inFlight, followUp, reactions, jobs, asked, begun, jumped>>
  PROVE  SchedulerIInv'
<1>1. /\ TypesHold /\ Bounded /\ JobsOK(jobs) /\ ReactionsOK /\ Exclusion(jobs)
      /\ OneFollows(jobs) /\ FollowersWait /\ OneUnsettled
  BY DEF SchedulerIInv, Sound
<1>2. \A j : JobOK(j) => JobOK(j)'
  BY DEF JobOK
<1>3. JobsOK(jobs)' /\ ReactionsOK'
  BY <1>1, <1>2 DEF JobsOK, QueuedOK, ReactionsOK
<1>4. TypesHold' /\ Bounded' /\ FollowersWait' /\ OneUnsettled'
  BY <1>1 DEF TypesHold, Bounded, FollowersWait, OneUnsettled
<1>5. Exclusion(jobs)' /\ OneFollows(jobs)'
  BY <1>1 DEF Exclusion, OneFollows
<1>6. QED BY <1>3, <1>4, <1>5 DEF SchedulerIInv, Sound

LEMMA InitSound == SchedulerInit => SchedulerIInv
<1> SUFFICES ASSUME SchedulerInit PROVE SchedulerIInv
  OBVIOUS
<1>1. /\ flushes = <<>> /\ inFlight = 0 /\ followUp = NoFollowUp
      /\ reactions = <<>> /\ jobs = <<>>
      /\ asked = [c \in Callers |-> FALSE] /\ begun = [c \in Callers |-> {}]
      /\ destroyed = FALSE /\ jumped = FALSE
  BY DEF SchedulerInit
<1>2. /\ <<>> \in Seq(Steps) /\ <<>> \in Seq(Callers) /\ <<>> \in Seq(JobSet)
      /\ <<>> \in Seq(Seq(JobSet)) /\ DOMAIN <<>> = {} /\ Len(<<>>) = 0
  BY EmptySeq
<1>3. HeldBy(<<>>) = {} /\ Exclusive(<<>>) /\ Elements(<<>>) = {}
  BY HeldByNone
<1>4. TypesHold
  BY <1>1, <1>2 DEF TypesHold, NoFollowUp
<1>5. Bounded
  BY <1>1, <1>2, FlushesAssumption DEF Bounded, NoFollowUp
<1>6. JobsOK(jobs) /\ ReactionsOK /\ FollowersWait /\ OneUnsettled
  BY <1>1, <1>2, <1>3 DEF JobsOK, ReactionsOK, FollowersWait, OneUnsettled, NoFollowUp
<1>7. Everything(jobs, reactions) = {}
  BY <1>1, <1>2, <1>3 DEF Everything
<1>8. Exclusion(jobs) /\ OneFollows(jobs)
  <2>1. Distinct(followUp.who)
    BY <1>1, <1>2 DEF Distinct, NoFollowUp
  <2>2. QED BY <1>1, <1>2, <1>3, <1>7, <2>1 DEF Exclusion, Excl, OneFollows, NoFollowUp
<1>9. QED BY <1>4, <1>5, <1>6, <1>8 DEF SchedulerIInv, Sound

LEMMA NextKeeps == SchedulerIInv /\ [SchedulerNext]_schedulerVars => SchedulerIInv'
<1> SUFFICES ASSUME SchedulerIInv, [SchedulerNext]_schedulerVars PROVE SchedulerIInv'
  OBVIOUS
<1>1. destroyed \in BOOLEAN
  BY DEF SchedulerIInv, Sound, TypesHold
<1>2. CASE \E c \in Callers : AskForFlush(c)
  BY <1>2, SchedulerAskKeeps
<1>3. CASE \E f \in DOMAIN flushes : Wake(f) \/ Settle(f)
  BY <1>3, WakeKeeps, SettleKeeps
<1>4. CASE Destroy
  <2>1. /\ destroyed' \in BOOLEAN
        /\ UNCHANGED <<flushes, inFlight, followUp, reactions, jobs, asked, begun, jumped>>
    BY <1>4 DEF Destroy
  <2>2. QED BY <2>1, NothingMoves
<1>5. CASE Microtask
  BY <1>5, PassKeeps, ClearKeeps, FollowKeeps, AdoptKeeps, ResolveKeeps, GoOnKeeps DEF Microtask
<1>6. CASE UNCHANGED schedulerVars
  <2>1. /\ destroyed' \in BOOLEAN
        /\ UNCHANGED <<flushes, inFlight, followUp, reactions, jobs, asked, begun, jumped>>
    BY <1>1, <1>6 DEF schedulerVars
  <2>2. QED BY <2>1, NothingMoves
<1>7. QED BY <1>2, <1>3, <1>4, <1>5, <1>6 DEF SchedulerNext

-----------------------------------------------------------------------------
(* The theorems.                                                            *)

\* In every behaviour of the scheduler there is one of each token, and all that
\* rests on it.
LEMMA SchedulerInvariant == SchedulerSpec => []SchedulerIInv
BY InitSound, NextKeeps, PTL DEF SchedulerSpec

\* What a job of flush f's reactions or of the queue is.
LEMMA EveryJob ==
  ASSUME SchedulerIInv, NEW f, NEW j \in AllJobs(f)
  PROVE  JobOK(j)
<1>1. TypesHold /\ JobsOK(jobs) /\ ReactionsOK
  BY DEF SchedulerIInv, Sound
<1>2. DOMAIN reactions = DOMAIN flushes
  BY <1>1, LenProperties DEF TypesHold
<1>3. CASE j \in Elements(jobs)
  BY <1>1, <1>3 DEF JobsOK, QueuedOK
<1>4. CASE f \in DOMAIN reactions /\ j \in Elements(reactions[f])
  BY <1>1, <1>2, <1>4 DEF ReactionsOK
<1>5. QED BY <1>3, <1>4 DEF AllJobs, Elements

LEMMA BoundedFlushes ==
  ASSUME SchedulerIInv
  PROVE  Len(flushes) <= MaxFlushes /\ DOMAIN flushes \subseteq Flushes
<1>1. flushes \in Seq(Steps) /\ Bounded
  BY DEF SchedulerIInv, Sound, TypesHold
<1>2. Len(flushes) \in Nat /\ DOMAIN flushes = 1..Len(flushes)
  BY <1>1, LenProperties
<1>3. Len(flushes) <= MaxFlushes
  <2> DEFINE one == IF followUp.set THEN 1 ELSE 0
  <2>1. one \in {0, 1} /\ Len(flushes) + one <= MaxFlushes
    BY <1>1 DEF Bounded
  <2> HIDE DEF one
  <2>2. QED BY <1>2, <2>1, FlushesAssumption
<1>4. QED BY <1>2, <1>3, FlushesAssumption DEF Flushes

\* The follow-up is set exactly while a job to start it is queued or waits.
LEMMA FollowUpIsUnderWay ==
  ASSUME SchedulerIInv
  PROVE  followUp.set <=> \E f \in Flushes : \E j \in AllJobs(f) : j.do \in Following
<1>1. TypesHold /\ OneFollows(jobs) /\ JobsOK(jobs)
  BY DEF SchedulerIInv, Sound
<1>2. /\ DOMAIN reactions = DOMAIN flushes /\ DOMAIN flushes \subseteq Flushes
  BY <1>1, LenProperties, BoundedFlushes DEF TypesHold
<1>3. ASSUME followUp.set
      PROVE  \E f \in Flushes : \E j \in AllJobs(f) : j.do \in Following
  <2>1. ASSUME NEW j, Follows \in Holds(j) PROVE j.do \in Following
    BY <2>1 DEF Holds, Awaited, Awaits, Follows
  <2>2. CASE Follows \in HeldBy(jobs)
    <3>1. PICK j \in Elements(jobs) : j.do \in Following
      BY <2>1, <2>2 DEF HeldBy
    <3>2. j.flush \in Flushes
      BY <1>1, <1>2 DEF JobsOK, QueuedOK, JobOK
    <3>3. j \in AllJobs(j.flush)
      BY DEF AllJobs, Elements
    <3>4. QED BY <3>1, <3>2, <3>3
  <2>3. CASE \E f \in DOMAIN reactions : Follows \in HeldBy(reactions[f])
    <3>1. PICK f \in DOMAIN reactions : Follows \in HeldBy(reactions[f])
      BY <2>3
    <3>2. PICK j \in Elements(reactions[f]) : j.do \in Following
      BY <2>1, <3>1 DEF HeldBy
    <3>3. j \in AllJobs(f)
      BY DEF AllJobs, Elements
    <3>4. QED BY <1>2, <3>2, <3>3
  <2>4. QED BY <1>1, <1>3, <2>2, <2>3 DEF OneFollows, Everything
<1>4. ASSUME NEW f \in Flushes, NEW j \in AllJobs(f), j.do \in Following
      PROVE  followUp.set
  <2>1. Follows \in Holds(j)
    BY <1>4 DEF Holds
  <2>2. \/ j \in Elements(jobs)
        \/ f \in DOMAIN reactions /\ j \in Elements(reactions[f])
    BY DEF AllJobs, Elements
  <2>3. Follows \in Everything(jobs, reactions)
    BY <2>1, <2>2 DEF Everything, HeldBy
  <2>4. QED BY <1>1, <2>3 DEF OneFollows
<1>5. QED BY <1>3, <1>4

\* Every variable of requestFlush has its type: flushQueued is set exactly while
\* the start of one follow-up is under way.
THEOREM SchedulerTypeCorrect == SchedulerSpec => []SchedulerTypeOK
<1>1. ASSUME SchedulerIInv PROVE SchedulerTypeOK
  <2>1. /\ TypesHold /\ followUp.set \in BOOLEAN /\ followUp.who \in Seq(Callers)
    BY <1>1 DEF SchedulerIInv, Sound, TypesHold
  <2>2. Len(flushes) <= MaxFlushes /\ DOMAIN flushes \subseteq Flushes
    BY <1>1, BoundedFlushes
  <2>3. begun \in [Callers -> SUBSET Flushes]
    BY <2>1, <2>2 DEF TypesHold
  <2>4. followUp.set = \E f \in Flushes : \E j \in AllJobs(f) : j.do \in {"pass to follow", "follow"}
    <3>1. followUp.set <=> \E f \in Flushes : \E j \in AllJobs(f) : j.do \in {"pass to follow", "follow"}
      BY <1>1, FollowUpIsUnderWay DEF Following
    <3>2. QED BY <2>1, <3>1, Zenon
  <2>5. QED BY <2>1, <2>2, <2>3, <2>4 DEF SchedulerTypeOK, TypesHold
<1>2. QED BY <1>1, SchedulerInvariant, PTL

\* Two flushes read the unsynced queue at once only where a caller that was
\* answered asked again before the follow-up had started.
THEOREM OverlapsOnlyByJumping == SchedulerSpec => []OverlapOnlyByJumping
<1>1. ASSUME SchedulerIInv PROVE OverlapOnlyByJumping
  BY <1>1 DEF SchedulerIInv, Sound, OneUnsettled, OverlapOnlyByJumping, FlushesNeverOverlap, Reading
<1>2. QED BY <1>1, SchedulerInvariant, PTL

\* Whoever asks for a sync is answered by a flush that had not begun to read the
\* queue when it asked.
THEOREM AnsweredLater == SchedulerSpec => []AnsweredByALaterFlush
<1>1. ASSUME SchedulerIInv PROVE AnsweredByALaterFlush
  <2>1. ASSUME NEW f \in Flushes, NEW j \in AllJobs(f), NEW n \in DOMAIN j.who
        PROVE  j.flush \notin begun[j.who[n]]
    <3>1. j.who[n] \in Elements(j.who)
      BY DEF Elements
    <3>2. QED BY <1>1, <3>1, EveryJob DEF JobOK
  <2>2. QED BY <2>1 DEF AnsweredByALaterFlush
<1>2. QED BY <1>1, SchedulerInvariant, PTL
=============================================================================
