--------------------------- MODULE DataStoreProofs ---------------------------
(***************************************************************************)
(* Proofs about the saves of a store, for any rows, collections, bounds    *)
(* and calls made while a save is out: first of DataStore, which puts      *)
(* ChangeTracker and the search index together, then of BatchingDbPlugin,  *)
(* the queue such a save may pass through on its way to the database.      *)
(*                                                                         *)
(* DataStore.  Its three invariants follow from StoreInv.                  *)
(*   Tracked, while no call was made with a save out: before a save has    *)
(*     landed the database holds of each row what the collection believes  *)
(*     it does, and what is tracked is what the caller changed since       *)
(*     (Before); the save that is out was prepared from the rows as they   *)
(*     are (Underway); and once it has landed the database holds what was  *)
(*     asked of each row, so that merging it leads back to Before.         *)
(*   IndexKept, with disturbed collections too: the index has no row of a  *)
(*     document that is not stored, and lacks only those still to be       *)
(*     written, unless one of the causes of drift has occurred.            *)
(* Id by id (Applied, Agrees), a save written by SQL, which removes first, *)
(* and one written to memory, which removes last, come to the same.        *)
(*                                                                         *)
(* BatchingDbPlugin.  The argument runs over the sequence Unanswered:      *)
(* whatever the plugin does with groups, retries and batches, an action    *)
(* appends one write to Unanswered, cuts a prefix or a suffix off it and   *)
(* answers exactly those items, or leaves it as it is.  That needs two     *)
(* facts about the variables it is made of: the latch is up exactly while  *)
(* work is in hand, and an event of several items is out only when no item *)
(* is being re-run.  What a caller is told matches what was applied by the *)
(* invariant Effects on top of that: no two items of the event that is out *)
(* claim a schema, so that its merged operation carries all of both, and   *)
(* nothing applied is of a write that waits.                               *)
(***************************************************************************)
EXTENDS DataStore, BatchingDbPlugin, FiniteSetTheorems, SequenceTheorems, TLAPS

\* Callers who do none of the things that leave the collection's idea of a row wrong, but for
\* reading again what they edit.
Careful == Careless \subseteq {"reread"}

Quiet == saves = <<>>
\* The save that is out: there is one at most as long as nothing is disturbed.
Out == saves[1]
Landed == ~Quiet /\ Out.state # "sent"

Exempt == excused \cup outdated
Removed(r) == \E m \in removals : m.row = r

States == {"sent", "stored", "indexing"}
SavesShaped ==
  \E C, N, F : saves \in Seq([changes : C, state : States, first : N, follow : F])
Basic ==
  /\ kind \in Kinds
  /\ {disturbed, drift, crashed} \subseteq BOOLEAN
  /\ SavesShaped
  /\ kind.identity => indexedAdds = {}

IsStore(db) == db \in [DOMAIN db -> Values] /\ DOMAIN db \subseteq Ids
Typed ==
  /\ row \in [Rows -> RowState]
  /\ IsStore(stored) /\ \A found \in reads : IsStore(found)
  /\ nextId \in Nat
  /\ additions \in Seq([row : Rows, key : Nat])
  /\ removals \subseteq [row : Rows, as : ValuesOrNone]
  /\ wanted \in [Rows -> ValuesOrNone]
  /\ Exempt \subseteq Rows

RowShape(r) ==
  LET s == row[r]
  IN  /\ s.attached => s.id # 0 /\ s.held # 0 /\ ~Pending(r)
      /\ Pending(r) => /\ s.held # 0 /\ s.patch = 0 /\ s.id = IF kind.identity THEN 0 ELSE r
                       /\ Tracking # "proxy" => s.base = 0
      /\ (~s.attached /\ ~Pending(r)) => s.held = 0 /\ s.id = 0 /\ wanted[r] = 0 /\ s.base = 0 /\ s.patch = 0
      /\ s.slot = "pending" <=> Pending(r)
      /\ Tracking # "immutable" => s.patch = 0
      /\ Tracking = "immutable" => (s.base = 0 <=> s.patch = 0)
      /\ s.id < nextId
      /\ ~kind.identity => s.id \in {0, r}

DistinctRows ==
  /\ \A r, q \in Rows : row[r].id = row[q].id /\ row[r].id # 0 => r = q
  /\ \A m, n \in DOMAIN additions : additions[m].row = additions[n].row => m = n
  /\ \A m, n \in removals : m.row = n.row => m = n
RemovalShape(m) ==
  /\ wanted[m.row] = 0 /\ row[m.row].id # 0
  /\ m.as # 0 <=> Tracking = "immutable"
  /\ SQL => ~Pending(m.row) /\ ~Dirty(m.row)
  /\ Tracking = "immutable" => ~Dirty(m.row)
Shapes ==
  /\ \A r \in Rows : RowShape(r)
  /\ DistinctRows
  /\ \A m \in removals : RemovalShape(m)
  /\ \A r \in Exempt : row[r].attached
  /\ Cardinality(Rows) < nextId

\* Before a save has landed: what a row has to do with the database.
PendingBefore(r) ==
  Pending(r) =>
    /\ ~kind.identity => r \notin DOMAIN stored
    /\ wanted[r] # 0 => row[r].held = wanted[r]
    /\ wanted[r] = 0 => /\ Removed(r) /\ ~SQL
                        /\ Tracking = "immutable" => \A m \in removals : m.row = r => m.as = row[r].held
KnownBefore(r) ==
  LET s == row[r]
  IN  (s.attached /\ (wanted[r] # 0 \/ Removed(r))) =>
        /\ s.id \in DOMAIN stored
        /\ Dirty(r) => s.base = stored[s.id]
        /\ (~Dirty(r) \/ Tracking = "immutable") => s.held = stored[s.id]
        /\ wanted[r] # 0 => Current(r) = wanted[r]
        /\ Tracking = "immutable" => \A m \in removals : m.row = r => m.as = stored[s.id]
GoneBefore(r) ==
  (row[r].attached /\ wanted[r] = 0 /\ ~Removed(r)) => row[r].id \notin DOMAIN stored /\ ~Dirty(r)
RowBefore(r) == PendingBefore(r) /\ KnownBefore(r) /\ GoneBefore(r)

Before ==
  /\ \A r \in Rows \ Exempt : RowBefore(r)
  /\ DOMAIN stored \subseteq {row[r].id : r \in Rows}

\* What a prepared save says of the rows.
RemovedAs(m) == IF m.as # 0 THEN m.as ELSE row[m.row].held
FitsAdds(p) ==
  /\ p.adds \in Seq([key : Nat, content : Values])
  /\ DOMAIN p.adds = DOMAIN additions
  /\ \A n \in DOMAIN additions :
       p.adds[n].key = Key(additions[n].row) /\ p.adds[n].content = row[additions[n].row].held
FitsUpdates(p) ==
  /\ DOMAIN p.updates = {row[r].id : r \in {r \in Rows : Dirty(r)}}
  /\ \A i \in DOMAIN p.updates : p.updates[i] \in Values
  /\ \A r \in Rows \ Exempt : Dirty(r) => p.updates[row[r].id] = Current(r)
FitsRest(p) ==
  /\ DOMAIN p.previous = DOMAIN p.updates
  /\ \A r \in Rows \ Exempt : Dirty(r) => p.previous[row[r].id] = row[r].base
  /\ DOMAIN p.removes = {row[m.row].id : m \in removals}
  /\ \A m \in removals : m.row \notin Exempt => p.removes[row[m.row].id] = RemovedAs(m)
Reindexes == \A n \in DOMAIN additions : additions[n].key = Key(additions[n].row)

\* Once it has landed: the database holds of each row what was asked.
AskedOf(r, i, db) == IF wanted[r] = 0 THEN i \notin DOMAIN db ELSE i \in DOMAIN db /\ db[i] = wanted[r]
HoldsAsked(db, p, first) ==
  /\ \A n \in DOMAIN additions : AskedOf(additions[n].row, AddId(p, n, first), db)
  /\ \A r \in Rows \ Exempt : row[r].attached => AskedOf(r, row[r].id, db)
  /\ DOMAIN db \subseteq {row[r].id : r \in Rows} \cup {AddId(p, n, first) : n \in DOMAIN p.adds}
ShowsAsked ==
  \A r \in Rows \ Exempt :
    /\ row[r].attached /\ wanted[r] # 0 => Current(r) = wanted[r]
    /\ Pending(r) /\ wanted[r] # 0 => row[r].held = wanted[r]
    /\ Pending(r) /\ kind.identity => wanted[r] # 0
FreshIds(p, first) ==
  kind.identity => /\ first \in Nat /\ first + Len(p.adds) = nextId
                   /\ \A r \in Rows : row[r].id < first

AfterLanding ==
  /\ HoldsAsked(stored, Out.changes, Out.first)
  /\ ShowsAsked
  /\ FreshIds(Out.changes, Out.first)

Underway ==
  /\ FitsAdds(Out.changes) /\ FitsUpdates(Out.changes) /\ Reindexes
  /\ kind.indexed /\ ~kind.identity => indexedAdds = {a.key : a \in ToSet(Out.changes.adds)}
  /\ Out.state = "indexing" => Out.follow = DeferredRows(1)
  /\ IF Landed THEN AfterLanding ELSE FitsRest(Out.changes)

CleanShown ==
  \A r \in Rows \ Exempt : row[r].attached /\ wanted[r] # 0 /\ ~Dirty(r) =>
    row[r].id \in DOMAIN stored /\ row[r].held = stored[row[r].id]

Tracked ==
  /\ Typed /\ Shapes
  /\ Len(saves) <= 1
  /\ ~Landed /\ ~crashed => Before
  /\ ~Quiet => Underway /\ ~crashed
  /\ crashed => CleanShown

\* The index rows of added documents that are still to be written.
Awaited ==
  IF kind.identity
    THEN UNION {{<<saves[i].changes.adds[n].content, saves[i].first + n - 1>> : n \in DOMAIN saves[i].changes.adds} :
                  i \in {i \in DOMAIN saves : saves[i].state # "sent"}}
    ELSE {}
IndexKept == kind.indexed /\ ~drift => index \subseteq Documents /\ Documents \ index \subseteq Awaited

StoreInv == Basic /\ (~disturbed => Tracked) /\ IndexKept

-----------------------------------------------------------------------------
(* Kinds, rows and saves.                                                   *)

LEMMA KindIs ==
  ASSUME kind \in Kinds
  PROVE  /\ kind.tracking \in {"proxy", "diff", "immutable"} /\ kind.identity \in BOOLEAN
         /\ kind.backend \in {"memory", "sql"} /\ kind.indexed \in BOOLEAN
BY DEF Kinds, Trackings

LEMMA RowsAre ==
  /\ Rows \subseteq Nat \ {0} /\ Cardinality(Rows) \in Nat /\ Rows = 1..Cardinality(Rows)
  /\ \A Loaded \in Starts : Loaded \subseteq Rows
BY RowsAssumption, FS_CardinalityType

LEMMA RowIs ==
  ASSUME row \in [Rows -> RowState], NEW r \in Rows
  PROVE  /\ row[r] \in RowState
         /\ row[r].held \in ValuesOrNone /\ row[r].base \in ValuesOrNone /\ row[r].patch \in ValuesOrNone
         /\ row[r].id \in Nat /\ row[r].attached \in BOOLEAN
         /\ row[r].slot \in {"none", "pending", "saved", "discarded"}
BY DEF RowState

\* One element is removed, the others stay.
LEMMA RemovedAt ==
  ASSUME NEW S, NEW q \in Seq(S), NEW k \in DOMAIN q
  PROVE  /\ RemoveAt(q, k) \in Seq(S) /\ Len(RemoveAt(q, k)) = Len(q) - 1
         /\ \A j \in 1..(Len(q) - 1) : RemoveAt(q, k)[j] = q[IF j < k THEN j ELSE j + 1]
<1> DEFINE L == Len(q)
           a == SubSeq(q, 1, k - 1)
           b == SubSeq(q, k + 1, L)
<1>1. L \in Nat /\ k \in 1..L /\ DOMAIN q = 1..L /\ \A j \in 1..L : q[j] \in S
  BY LenProperties
<1>2. /\ a \in Seq(S) /\ Len(a) = k - 1
      /\ \A j \in 1..(k - 1) : a[j] = q[j]
  BY <1>1, SubSeqProperties
<1>3. /\ b \in Seq(S) /\ Len(b) = L - k
      /\ \A j \in 1..(L - k) : b[j] = q[k + j]
  BY <1>1, SubSeqProperties
<1>4. RemoveAt(q, k) = a \o b
  BY DEF RemoveAt
<1> HIDE DEF a, b
<1>5. /\ a \o b \in Seq(S) /\ Len(a \o b) = Len(a) + Len(b)
      /\ \A j \in 1..(Len(a) + Len(b)) :
           (a \o b)[j] = IF j <= Len(a) THEN a[j] ELSE b[j - Len(a)]
  BY <1>2, <1>3, ConcatProperties
<1> DEFINE c == a \o b
<1>10. Len(c) = L - 1
  BY <1>1, <1>2, <1>3, <1>5
<1>11. ASSUME NEW j \in 1..(L - 1)
       PROVE  c[j] = q[IF j < k THEN j ELSE j + 1]
  <2>1. CASE j < k
    BY <1>1, <1>2, <1>3, <1>5, <2>1
  <2>2. CASE ~(j < k)
    <3>3. j \in 1..(Len(a) + Len(b)) /\ ~(j <= Len(a)) /\ Len(a) = k - 1
      BY <1>1, <1>2, <1>3, <2>2
    <3>1. c[j] = b[j - (k - 1)]
      BY <1>5, <3>3
    <3>2. j - (k - 1) \in 1..(L - k) /\ k + (j - (k - 1)) = j + 1
      BY <1>1, <2>2
    <3> QED
      BY <1>3, <2>2, <3>1, <3>2
  <2> QED
    BY <2>1, <2>2
<1> QED
  BY <1>4, <1>5, <1>10, <1>11

SavesIn(C, N, F) == Seq([changes : C, state : States, first : N, follow : F])

LEMMA SaveTyped ==
  ASSUME NEW C, NEW N, NEW F, NEW q \in SavesIn(C, N, F)
  PROVE  /\ Len(q) \in Nat /\ DOMAIN q = 1..Len(q)
         /\ \A i \in DOMAIN q : q[i] \in [changes : C, state : States, first : N, follow : F]
<1> DEFINE S == [changes : C, state : States, first : N, follow : F]
<1>1. q \in Seq(S)
  BY DEF SavesIn
<1> HIDE DEF S
<1>2. /\ Len(q) \in Nat /\ DOMAIN q = 1..Len(q) /\ \A i \in DOMAIN q : q[i] \in S
  BY <1>1, LenProperties, ElementOfSeq
<1> QED
  BY <1>2 DEF S

LEMMA SaveIs ==
  ASSUME SavesShaped, NEW i \in DOMAIN saves
  PROVE  saves[i].state \in States
<1>1. PICK C, N, F : saves \in SavesIn(C, N, F)
  BY DEF SavesShaped, SavesIn
<1> QED
  BY <1>1, SaveTyped

LEMMA SavesAre == ASSUME SavesShaped PROVE Len(saves) \in Nat /\ DOMAIN saves = 1..Len(saves) /\ (Quiet <=> Len(saves) = 0)
<1>1. PICK C, N, F : saves \in SavesIn(C, N, F)
  BY DEF SavesShaped, SavesIn
<1> QED
  BY <1>1 DEF SavesIn, Quiet

LEMMA SavesGrow ==
  ASSUME SavesShaped, NEW c,
         saves' = Append(saves, [changes |-> c, state |-> "sent", first |-> 0, follow |-> {}])
  PROVE  /\ SavesShaped' /\ Len(saves') = Len(saves) + 1
         /\ \A i \in DOMAIN saves : saves'[i] = saves[i]
         /\ saves'[Len(saves')].changes = c /\ saves'[Len(saves')].state = "sent"
<1>1. PICK C, N, F : saves \in SavesIn(C, N, F)
  BY DEF SavesShaped, SavesIn
<1> DEFINE s == [changes |-> c, state |-> "sent", first |-> 0, follow |-> {}]
<1>2. saves \in SavesIn(C \cup {c}, N \cup {0}, F \cup {{}})
  BY <1>1, SeqMonotonic DEF SavesIn
<1>3. s \in [changes : C \cup {c}, state : States, first : N \cup {0}, follow : F \cup {{}}]
  BY DEF States
<1>4. s.changes = c /\ s.state = "sent"
  OBVIOUS
<1> HIDE DEF s
<1>5. /\ saves' \in SavesIn(C \cup {c}, N \cup {0}, F \cup {{}}) /\ Len(saves') = Len(saves) + 1
      /\ \A i \in DOMAIN saves : saves'[i] = saves[i]
      /\ saves'[Len(saves')] = s
  <2>1. saves' = Append(saves, s)
    BY DEF s
  <2> QED
    BY <1>2, <1>3, <2>1, AppendProperties, LenProperties DEF SavesIn
<1>6. SavesShaped'
  BY <1>5 DEF SavesShaped, SavesIn
<1> QED
  BY <1>4, <1>5, <1>6

LEMMA SavesStore ==
  ASSUME SavesShaped, NEW i \in DOMAIN saves, NEW n,
         saves' = [saves EXCEPT ![i].state = "stored", ![i].first = n]
  PROVE  /\ SavesShaped' /\ Len(saves') = Len(saves)
         /\ \A j \in DOMAIN saves : j # i => saves'[j] = saves[j]
         /\ saves'[i].changes = saves[i].changes /\ saves'[i].state = "stored" /\ saves'[i].first = n
<1>1. PICK C, N, F : saves \in SavesIn(C, N, F)
  BY DEF SavesShaped, SavesIn
<1>2. saves[i] \in [changes : C, state : States, first : N, follow : F]
  BY <1>1, SaveTyped
<1> DEFINE M == N \cup {n}
<1> DEFINE s == [saves[i] EXCEPT !.state = "stored", !.first = n]
<1>3. /\ s \in [changes : C, state : States, first : M, follow : F]
      /\ s.changes = saves[i].changes /\ s.state = "stored" /\ s.first = n
  BY <1>2 DEF States
<1>4. saves' = [saves EXCEPT ![i] = s]
  BY <1>1 DEF SavesIn
<1>7. saves \in SavesIn(C, M, F)
  BY <1>1, SeqMonotonic DEF SavesIn
<1> HIDE DEF s, M
<1>5. /\ saves' \in SavesIn(C, M, F) /\ Len(saves') = Len(saves) /\ saves'[i] = s
      /\ \A j \in DOMAIN saves : j # i => saves'[j] = saves[j]
  <2> DEFINE S == [changes : C, state : States, first : M, follow : F]
  <2>1. saves \in Seq(S) /\ s \in S
    BY <1>3, <1>7 DEF SavesIn
  <2>2. i \in 1..Len(saves) /\ DOMAIN saves = 1..Len(saves)
    BY SavesAre
  <2>3. SavesIn(C, M, F) = Seq(S)
    BY DEF SavesIn
  <2> HIDE DEF S
  <2> QED
    <3> DEFINE q == [saves EXCEPT ![i] = s]
    <3>1. /\ q \in Seq(S) /\ Len(q) = Len(saves)
          /\ \A j \in 1..Len(saves) : q[j] = IF j = i THEN s ELSE saves[j]
      BY <2>1, <2>2, ExceptSeq
    <3>2. saves' = q
      BY <1>4
    <3> HIDE DEF q
    <3> QED
      BY <2>2, <2>3, <3>1, <3>2
<1>6. SavesShaped'
  BY <1>5 DEF SavesShaped, SavesIn
<1> QED
  BY <1>3, <1>5, <1>6

LEMMA SavesIndex ==
  ASSUME SavesShaped, NEW i \in DOMAIN saves, NEW f,
         saves' = [saves EXCEPT ![i].state = "indexing", ![i].follow = f]
  PROVE  /\ SavesShaped' /\ Len(saves') = Len(saves)
         /\ \A j \in DOMAIN saves : j # i => saves'[j] = saves[j]
         /\ saves'[i].changes = saves[i].changes /\ saves'[i].state = "indexing"
         /\ saves'[i].first = saves[i].first /\ saves'[i].follow = f
<1>1. PICK C, N, F : saves \in SavesIn(C, N, F)
  BY DEF SavesShaped, SavesIn
<1>2. saves[i] \in [changes : C, state : States, first : N, follow : F]
  BY <1>1, SaveTyped
<1> DEFINE G == F \cup {f}
<1> DEFINE s == [saves[i] EXCEPT !.state = "indexing", !.follow = f]
<1>3. /\ s \in [changes : C, state : States, first : N, follow : G]
      /\ s.changes = saves[i].changes /\ s.state = "indexing" /\ s.first = saves[i].first /\ s.follow = f
  BY <1>2 DEF States
<1>4. saves' = [saves EXCEPT ![i] = s]
  BY <1>1 DEF SavesIn
<1>7. saves \in SavesIn(C, N, G)
  BY <1>1, SeqMonotonic DEF SavesIn
<1> HIDE DEF s, G
<1>5. /\ saves' \in SavesIn(C, N, G) /\ Len(saves') = Len(saves) /\ saves'[i] = s
      /\ \A j \in DOMAIN saves : j # i => saves'[j] = saves[j]
  BY <1>3, <1>4, <1>7, SaveTyped, ExceptSeq DEF SavesIn
<1>6. SavesShaped'
  BY <1>5 DEF SavesShaped, SavesIn
<1> QED
  BY <1>3, <1>5, <1>6

LEMMA SavesShrink ==
  ASSUME SavesShaped, NEW i \in DOMAIN saves, saves' = RemoveAt(saves, i)
  PROVE  /\ SavesShaped' /\ Len(saves') = Len(saves) - 1
         /\ \A j \in DOMAIN saves' : \E k \in DOMAIN saves \ {i} : saves'[j] = saves[k]
         /\ \A k \in DOMAIN saves \ {i} : \E j \in DOMAIN saves' : saves'[j] = saves[k]
<1>1. PICK C, N, F : saves \in SavesIn(C, N, F)
  BY DEF SavesShaped, SavesIn
<1>2. /\ Len(saves) \in Nat /\ DOMAIN saves = 1..Len(saves) /\ i \in 1..Len(saves)
  BY SavesAre
<1>3. /\ saves' \in SavesIn(C, N, F) /\ Len(saves') = Len(saves) - 1
      /\ \A j \in 1..(Len(saves) - 1) : saves'[j] = saves[IF j < i THEN j ELSE j + 1]
  BY <1>1, RemovedAt DEF SavesIn
<1>4. DOMAIN saves' = 1..(Len(saves) - 1)
  BY <1>3, LenProperties DEF SavesIn
<1>5. SavesShaped'
  BY <1>3 DEF SavesShaped, SavesIn
<1>6. ASSUME NEW j \in DOMAIN saves'
      PROVE  \E k \in DOMAIN saves \ {i} : saves'[j] = saves[k]
  <2>1. CASE j < i
    BY <1>2, <1>3, <1>4, <2>1
  <2>2. CASE ~(j < i)
    <3>1. saves'[j] = saves[j + 1] /\ j + 1 \in DOMAIN saves \ {i}
      BY <1>2, <1>3, <1>4, <2>2
    <3> QED BY <3>1
  <2> QED BY <2>1, <2>2
<1>7. ASSUME NEW k \in DOMAIN saves \ {i}
      PROVE  \E j \in DOMAIN saves' : saves'[j] = saves[k]
  <2>1. CASE k < i
    BY <1>2, <1>3, <1>4, <2>1
  <2>2. CASE k > i
    <3>1. k - 1 \in 1..(Len(saves) - 1) /\ ~(k - 1 < i) /\ (k - 1) + 1 = k
      BY <1>2, <2>2
    <3>2. saves'[k - 1] = saves[k] /\ k - 1 \in DOMAIN saves'
      BY <1>3, <1>4, <3>1
    <3> QED BY <3>2
  <2> QED BY <1>2, <2>1, <2>2
<1> QED
  BY <1>3, <1>5, <1>6, <1>7

-----------------------------------------------------------------------------
(* What one row says, as long as nothing of it changes.                     *)

Held(q) ==
  /\ row'[q] = row[q] /\ wanted'[q] = wanted[q]
  /\ Pending(q)' <=> Pending(q)
  /\ \A m \in removals' : m.row = q => m \in removals
  /\ \A m \in removals : m.row = q => m \in removals'

LEMMA DirtyHeld ==
  ASSUME kind' = kind, NEW q, row'[q] = row[q]
  PROVE  Dirty(q)' <=> Dirty(q)
BY DEF Dirty, Tracking

LEMMA ShapeHeld ==
  ASSUME kind' = kind, nextId' = nextId, NEW q, Held(q), RowShape(q)
  PROVE  RowShape(q)'
BY DEF RowShape, Held, Tracking

LEMMA RemovalHeld ==
  ASSUME kind' = kind, NEW q, Held(q), NEW m, m.row = q, RemovalShape(m)
  PROVE  RemovalShape(m)'
<1>1. Dirty(q)' <=> Dirty(q)
  BY DirtyHeld DEF Held
<1> QED
  BY <1>1 DEF RemovalShape, Held, Tracking, SQL

LEMMA BeforeHeld ==
  ASSUME kind' = kind, stored' = stored, NEW q, Held(q), RowBefore(q)
  PROVE  RowBefore(q)'
<1>1. Dirty(q)' <=> Dirty(q)
  BY DirtyHeld DEF Held
<1>2. Removed(q)' <=> Removed(q)
  BY DEF Held, Removed
<1>3. Current(q)' = Current(q)
  BY DEF Held, Current
<1>4. PendingBefore(q)'
  BY <1>2 DEF RowBefore, PendingBefore, Held, Tracking, SQL
<1>5. KnownBefore(q)'
  BY <1>1, <1>2, <1>3 DEF RowBefore, KnownBefore, Held, Tracking
<1>6. GoneBefore(q)'
  BY <1>1, <1>2 DEF RowBefore, GoneBefore, Held
<1> QED
  BY <1>4, <1>5, <1>6 DEF RowBefore

\* A call of the application on one row, with no save out.
LEMMA OneRow ==
  ASSUME Tracked, ~crashed, Quiet, NEW r \in Rows, Typed', DistinctRows', crashed' = crashed,
         kind' = kind, stored' = stored, nextId' = nextId, saves' = saves,
         excused' = excused, outdated' = outdated,
         \A q \in Rows \ {r} : Held(q),
         RowShape(r)', \A m \in removals' : m.row = r => RemovalShape(m)',
         r \in Exempt => row'[r].attached,
         r \notin Exempt => RowBefore(r)',
         row[r].id = 0 \/ row'[r].id = row[r].id
  PROVE  Tracked'
<1>1. ~Landed /\ Shapes /\ Before /\ Typed /\ Exempt' = Exempt /\ saves = <<>>
  BY DEF Tracked, Landed, Exempt, Quiet
<1>2. \A q \in Rows : RowShape(q)'
  BY <1>1, ShapeHeld DEF Shapes
<1>3. ASSUME NEW m \in removals' PROVE RemovalShape(m)'
  <2>1. m.row \in Rows
    BY DEF Typed
  <2>2. CASE m.row = r
    BY <2>2
  <2>3. CASE m.row # r
    <3>1. Held(m.row) /\ m \in removals
      BY <2>1, <2>3 DEF Held
    <3> QED
      BY <1>1, <3>1, RemovalHeld DEF Shapes
  <2> QED
    BY <2>2, <2>3
<1>4. \A q \in Exempt' : row'[q].attached
  BY <1>1 DEF Shapes, Held, Typed
<1>5. Shapes'
  BY <1>1, <1>2, <1>3, <1>4 DEF Shapes
<1>6. \A q \in Rows \ Exempt : RowBefore(q)'
  BY <1>1, BeforeHeld DEF Before
<1>7. ASSUME NEW i \in DOMAIN stored PROVE \E q \in Rows : row'[q].id = i
  <2>1. PICK q \in Rows : row[q].id = i
    BY <1>1 DEF Before
  <2>2. i # 0
    BY DEF Typed, IsStore, Ids
  <2> QED
    BY <2>1, <2>2 DEF Held
<1>8. Before'
  BY <1>1, <1>6, <1>7 DEF Before
<1>9. Quiet' /\ Len(saves') <= 1
  BY <1>1 DEF Quiet, Tracked
<1> QED
  BY <1>5, <1>8, <1>9 DEF Tracked, Landed

\* With a save out, or a process that ended, no call but a query leaves things undisturbed.
LEMMA CallIs ==
  ASSUME NEW name, Call(name), name # "read", disturbed \in BOOLEAN
  PROVE  (~disturbed' => Quiet /\ ~disturbed) /\ disturbed' \in BOOLEAN
BY DEF Call, Quiet

-----------------------------------------------------------------------------
(* add, edits and remove.                                                   *)

LEMMA Appended ==
  ASSUME NEW S, NEW q \in Seq(S), NEW e \in S
  PROVE  /\ Append(q, e) \in Seq(S) /\ Len(Append(q, e)) = Len(q) + 1
         /\ DOMAIN Append(q, e) = 1..(Len(q) + 1) /\ DOMAIN q = 1..Len(q) /\ Len(q) \in Nat
         /\ \A k \in DOMAIN q : Append(q, e)[k] = q[k]
         /\ Append(q, e)[Len(q) + 1] = e
<1>1. Append(q, e) \in Seq(S) /\ Len(Append(q, e)) = Len(q) + 1 /\ Len(q) \in Nat
  BY AppendProperties, LenProperties
<1>2. DOMAIN Append(q, e) = 1..(Len(q) + 1) /\ DOMAIN q = 1..Len(q)
  BY <1>1, LenProperties
<1> QED
  BY <1>1, <1>2, AppendProperties

LEMMA RowBelow ==
  ASSUME Typed, Shapes, NEW r \in Rows
  PROVE  r < nextId /\ 0 < nextId /\ r \in Nat
<1> DEFINE n == Cardinality(Rows)
<1>1. n \in Nat /\ r \in 1..n
  BY RowsAre
<1>2. n < nextId /\ nextId \in Nat
  BY DEF Typed, Shapes
<1> HIDE DEF n
<1> QED
  BY <1>1, <1>2

AddState(s, r, v) == [s EXCEPT !.held = v, !.slot = "pending", !.id = IF kind.identity THEN 0 ELSE r]

LEMMA AddKeeps ==
  ASSUME Careful, Basic, ~disturbed => Tracked, ~crashed, NEW r \in Rows, NEW v \in Values, Add(r, v),
         crashed' = crashed, ~disturbed'
  PROVE  Tracked'
<1>1. Tracked /\ Quiet /\ Basic /\ saves = <<>>
  BY CallIs DEF Add, Basic, Quiet
<1>3. Typed /\ Shapes /\ DistinctRows /\ row[r].held = 0 /\ row \in [Rows -> RowState] /\ RowShape(r)
  BY <1>1 DEF Add, Tracked, Typed, Shapes
<1>4. /\ ~row[r].attached /\ ~Pending(r) /\ wanted[r] = 0 /\ row[r].id = 0 /\ row[r].base = 0 /\ row[r].patch = 0
      /\ r \notin Exempt /\ ~Removed(r)
  <2>1. ~row[r].attached /\ ~Pending(r) /\ wanted[r] = 0 /\ row[r].id = 0 /\ row[r].base = 0 /\ row[r].patch = 0
    BY <1>3 DEF RowShape
  <2> QED
    BY <1>3, <2>1 DEF Shapes, Removed, RemovalShape
<1> DEFINE key == IF kind.identity THEN v ELSE r
           e == [row |-> r, key |-> key]
<1>5. /\ row' = [row EXCEPT ![r] = AddState(row[r], r, v)] /\ additions' = Append(additions, e)
      /\ wanted' = [wanted EXCEPT ![r] = v]
      /\ kind' = kind /\ stored' = stored /\ nextId' = nextId /\ removals' = removals /\ saves' = saves
      /\ reads' = reads /\ excused' = excused /\ outdated' = outdated
  BY <1>3 DEF Add, AddState
<1>6. AddState(row[r], r, v) \in RowState
  <2>1. row[r] \in RowState /\ r \in Nat /\ v \in ValuesOrNone
    BY <1>3, RowsAre DEF Values, ValuesOrNone
  <2> QED
    BY <2>1 DEF AddState, RowState
<1>7. e \in [row : Rows, key : Nat] /\ v # 0 /\ v \in ValuesOrNone
  BY <1>1, RowsAre, BoundAssumption DEF Values, ValuesOrNone
<1>8. Typed'
  <2>1. row' \in [Rows -> RowState]
    BY <1>3, <1>5, <1>6
  <2>2. additions' \in Seq([row : Rows, key : Nat])
    BY <1>3, <1>5, <1>7, Appended DEF Typed
  <2>3. wanted' \in [Rows -> ValuesOrNone]
    BY <1>3, <1>5, <1>7 DEF Typed
  <2> QED
    BY <1>3, <1>5, <2>1, <2>2, <2>3 DEF Typed, Exempt, IsStore
<1> HIDE DEF e
<1>9. e.row = r
  BY DEF e
<1>10. /\ Len(additions) \in Nat /\ DOMAIN additions = 1..Len(additions) /\ DOMAIN additions' = 1..(Len(additions) + 1)
       /\ \A n \in DOMAIN additions : additions'[n] = additions[n]
       /\ additions'[Len(additions) + 1] = e
  BY <1>3, <1>5, <1>7, Appended DEF Typed
<1>11. /\ row'[r] = AddState(row[r], r, v) /\ wanted'[r] = v /\ Pending(r)'
       /\ \A q \in Rows \ {r} : row'[q] = row[q] /\ wanted'[q] = wanted[q]
  BY <1>3, <1>5, <1>9, <1>10 DEF Typed, Pending
<1>12. \A q \in Rows \ {r} : Pending(q)' <=> Pending(q)
  BY <1>9, <1>10 DEF Pending
<1>13. \A q \in Rows \ {r} : Held(q)
  BY <1>5, <1>11, <1>12 DEF Held
<1>14. LET s == row'[r]
       IN  /\ s.held = v /\ s.slot = "pending" /\ s.id = (IF kind.identity THEN 0 ELSE r)
           /\ s.base = 0 /\ s.patch = 0 /\ s.attached = FALSE
  <2>1. row[r] \in RowState
    BY <1>3
  <2> QED
    BY <1>4, <1>11, <2>1 DEF AddState, RowState
<1>15. RowShape(r)'
  <2>1. r < nextId /\ 0 < nextId
    BY <1>1, <1>3, RowBelow
  <2> QED
    BY <1>5, <1>7, <1>11, <1>14, <2>1 DEF RowShape, Tracking
<1>16. DistinctRows'
  <2>1. \A q \in Rows : row'[q].id = row'[r].id /\ row'[r].id # 0 => q = r
    BY <1>1, <1>3, <1>11, <1>14, RowsAre DEF Shapes, RowShape
  <2>2. \A m, n \in DOMAIN additions' : additions'[m].row = additions'[n].row => m = n
    BY <1>3, <1>4, <1>9, <1>10 DEF DistinctRows, Pending
  <2>3. \A p, q \in Rows : row'[p].id = row'[q].id /\ row'[p].id # 0 => p = q
    BY <1>3, <1>11, <2>1 DEF DistinctRows
  <2> QED
    BY <1>3, <1>5, <2>2, <2>3 DEF DistinctRows
<1>17. \A m \in removals' : m.row = r => RemovalShape(m)'
  BY <1>4, <1>5 DEF Removed
<1>18. RowBefore(r)'
  <2>1. r \notin DOMAIN stored \/ kind.identity
    <3>1. SUFFICES ASSUME r \in DOMAIN stored, ~kind.identity PROVE FALSE
      OBVIOUS
    <3>2. PICK q \in Rows : row[q].id = r
      BY <1>1, <3>1 DEF Tracked, Before, Landed
    <3>3. q = r
      BY <1>3, <3>1, <3>2, RowsAre DEF Shapes, RowShape
    <3> QED
      BY <1>4, <3>2, <3>3, RowsAre
  <2> QED
    BY <1>5, <1>7, <1>11, <1>14, <2>1 DEF RowBefore, PendingBefore, KnownBefore, GoneBefore
<1> QED
  BY <1>1, <1>4, <1>5, <1>8, <1>13, <1>15, <1>16, <1>17, <1>18, OneRow

LEMMA PendingAt ==
  ASSUME Typed, DistinctRows, NEW r \in Rows, Pending(r)
  PROVE  \E n \in DOMAIN additions : additions[n].row = r /\ \A m \in DOMAIN additions : additions[m].row = r => m = n
BY DEF Pending, DistinctRows

\* update() of an unsaved row: it goes to the end, under its new key.
LEMMA Refiled ==
  ASSUME Typed, DistinctRows, NEW n \in DOMAIN additions, NEW key \in Nat,
         additions' = Append(RemoveAt(additions, n), [row |-> additions[n].row, key |-> key])
  PROVE  /\ additions' \in Seq([row : Rows, key : Nat])
         /\ \A i, j \in DOMAIN additions' : additions'[i].row = additions'[j].row => i = j
         /\ \A q : Pending(q)' <=> Pending(q)
<1> DEFINE S == [row : Rows, key : Nat]
           e == [row |-> additions[n].row, key |-> key]
           rest == RemoveAt(additions, n)
           L == Len(additions)
<1>1. additions \in Seq(S) /\ L \in Nat /\ DOMAIN additions = 1..L /\ n \in 1..L
  BY LenProperties DEF Typed
<1>2. additions[n] \in S /\ e \in S /\ e.row = additions[n].row
  <2>1. additions[n] \in S
    <3> HIDE DEF S
    <3> QED
      BY <1>1, ElementOfSeq
  <2> QED
    BY <2>1
<1>3. /\ rest \in Seq(S) /\ Len(rest) = L - 1
      /\ \A j \in 1..(L - 1) : rest[j] = additions[IF j < n THEN j ELSE j + 1]
  BY <1>1, RemovedAt
<1> HIDE DEF S, e, rest
<1>4. /\ additions' \in Seq(S) /\ Len(additions') = L /\ DOMAIN additions' = 1..L
      /\ \A j \in 1..(L - 1) : additions'[j] = rest[j]
      /\ additions'[L] = e
  <2>1. additions' = Append(rest, e)
    BY DEF rest, e
  <2>2. (L - 1) + 1 = L /\ L - 1 \in Nat
    BY <1>1
  <2>3. DOMAIN rest = 1..(L - 1)
    BY <1>3, LenProperties
  <2> HIDE DEF L
  <2>4. /\ additions' \in Seq(S) /\ Len(additions') = Len(rest) + 1
        /\ DOMAIN additions' = 1..(Len(rest) + 1) /\ additions'[Len(rest) + 1] = e
        /\ \A k \in DOMAIN rest : additions'[k] = rest[k]
    <3>1. rest \in Seq(S) /\ e \in S
      BY <1>2, <1>3
    <3>2. /\ Append(rest, e) \in Seq(S) /\ Len(Append(rest, e)) = Len(rest) + 1
          /\ DOMAIN Append(rest, e) = 1..(Len(rest) + 1) /\ Append(rest, e)[Len(rest) + 1] = e
          /\ \A k \in DOMAIN rest : Append(rest, e)[k] = rest[k]
      BY <3>1, Appended
    <3> QED
      BY <2>1, <3>2
  <2> QED
    BY <1>3, <2>2, <2>3, <2>4
<1> HIDE DEF L
<1> DEFINE Old(j) == IF j = L THEN n ELSE IF j < n THEN j ELSE j + 1
<1>5. \A j \in 1..L : Old(j) \in 1..L /\ additions'[j].row = additions[Old(j)].row
  <2>1. ASSUME NEW j \in 1..L, j # L PROVE Old(j) \in 1..L /\ additions'[j].row = additions[Old(j)].row
    <3>1. j \in 1..(L - 1) /\ j + 1 \in 1..L
      BY <1>1, <2>1
    <3>2. Old(j) = (IF j < n THEN j ELSE j + 1) /\ Old(j) \in 1..L
      BY <2>1, <3>1
    <3>3. additions'[j] = additions[Old(j)]
      BY <1>3, <1>4, <3>1, <3>2
    <3> QED
      BY <3>2, <3>3
  <2>2. Old(L) = n
    OBVIOUS
  <2> QED
    BY <1>1, <1>2, <1>4, <2>1, <2>2
<1>6. \A i, j \in 1..L : Old(i) = Old(j) => i = j
  BY <1>1
<1>7. \A k \in 1..L : \E j \in 1..L : Old(j) = k
  <2> SUFFICES ASSUME NEW k \in 1..L PROVE \E j \in 1..L : Old(j) = k
    OBVIOUS
  <2>1. CASE k = n
    BY <1>1, <2>1
  <2>2. CASE k < n
    BY <1>1, <2>2
  <2>3. CASE k > n
    <3>1. k - 1 \in 1..L /\ k - 1 # L /\ ~(k - 1 < n) /\ (k - 1) + 1 = k
      BY <1>1, <2>3
    <3> QED
      BY <3>1
  <2> QED
    BY <1>1, <2>1, <2>2, <2>3
<1> HIDE DEF Old
<1>8. \A i, j \in DOMAIN additions' : additions'[i].row = additions'[j].row => i = j
  <2> SUFFICES ASSUME NEW i \in 1..L, NEW j \in 1..L, additions'[i].row = additions'[j].row
               PROVE  i = j
    BY <1>4
  <2>1. additions[Old(i)].row = additions[Old(j)].row /\ Old(i) \in DOMAIN additions /\ Old(j) \in DOMAIN additions
    BY <1>1, <1>5
  <2>2. Old(i) = Old(j)
    BY <2>1 DEF DistinctRows
  <2> QED
    BY <1>6, <2>2
<1>9. \A q : Pending(q)' <=> Pending(q)
  <2> SUFFICES ASSUME NEW q
               PROVE  (\E j \in 1..L : additions'[j].row = q) <=> (\E k \in 1..L : additions[k].row = q)
    BY <1>1, <1>4 DEF Pending
  <2>1. ASSUME NEW j \in 1..L, additions'[j].row = q PROVE \E k \in 1..L : additions[k].row = q
    BY <1>5, <2>1
  <2>2. ASSUME NEW k \in 1..L, additions[k].row = q PROVE \E j \in 1..L : additions'[j].row = q
    BY <1>5, <1>7, <2>2
  <2> QED
    BY <2>1, <2>2
<1> QED
  BY <1>4, <1>8, <1>9 DEF S

LEMMA UnsavedKeeps ==
  ASSUME Careful, Basic, Tracked, ~crashed, Quiet, NEW r \in Rows, NEW v \in Values,
         UpdateUnsaved(r, v), wanted[r] # 0, crashed' = crashed,
         wanted' = [wanted EXCEPT ![r] = IF @ = 0 THEN 0 ELSE v],
         UNCHANGED <<kind, stored, nextId, removals, saves, reads, excused, outdated>>
  PROVE  Tracked'
<1>1. Typed /\ Shapes /\ DistinctRows /\ row \in [Rows -> RowState] /\ RowShape(r) /\ v # 0 /\ v \in ValuesOrNone /\ v \in Nat
  BY BoundAssumption DEF Tracked, Typed, Shapes, Values, ValuesOrNone
<1>2. Tracking = "immutable" /\ row[r].slot = "pending" /\ row' = [row EXCEPT ![r].held = v]
  BY DEF UpdateUnsaved
<1>3. Pending(r) /\ ~row[r].attached /\ r \notin Exempt /\ ~Removed(r)
  BY <1>1, <1>2, RowIs DEF RowShape, Shapes, Removed, RemovalShape
<1> DEFINE key == IF kind.identity THEN v ELSE r
<1>4. PICK n \in DOMAIN additions :
        additions[n].row = r /\ additions' = Append(RemoveAt(additions, n), [row |-> r, key |-> key])
  BY DEF UpdateUnsaved
<1>5. key \in Nat
  BY <1>1, RowsAre
<1> HIDE DEF key
<1>6. /\ additions' \in Seq([row : Rows, key : Nat])
      /\ \A i, j \in DOMAIN additions' : additions'[i].row = additions'[j].row => i = j
      /\ \A q : Pending(q)' <=> Pending(q)
  BY <1>1, <1>4, <1>5, Refiled
<1>7. [row[r] EXCEPT !.held = v] \in RowState /\ row' = [row EXCEPT ![r] = [row[r] EXCEPT !.held = v]]
  BY <1>1, <1>2 DEF RowState
<1>8. Typed'
  <2>1. row' \in [Rows -> RowState]
    BY <1>1, <1>7
  <2>2. wanted' \in [Rows -> ValuesOrNone]
    BY <1>1 DEF Typed
  <2> QED
    BY <1>1, <1>6, <2>1, <2>2 DEF Typed, Exempt, IsStore
<1>9. /\ \A q \in Rows \ {r} : row'[q] = row[q] /\ wanted'[q] = wanted[q]
      /\ row'[r] = [row[r] EXCEPT !.held = v] /\ wanted'[r] = v
  BY <1>1, <1>7 DEF Typed
<1>10. LET s == row'[r]
           o == row[r]
       IN  /\ s.held = v /\ s.slot = o.slot /\ s.id = o.id
           /\ s.base = o.base /\ s.patch = o.patch /\ s.attached = o.attached
  <2>1. row[r] \in RowState
    BY <1>1
  <2> QED
    BY <1>9, <2>1 DEF RowState
<1>11. \A q \in Rows \ {r} : Held(q)
  BY <1>6, <1>9 DEF Held
<1>12. RowShape(r)'
  BY <1>1, <1>2, <1>3, <1>6, <1>10 DEF RowShape, Tracking
<1>13. DistinctRows'
  <2>2. \A q \in Rows : row'[q].id = row[q].id
    BY <1>9, <1>10
  <2>1. \A p, q \in Rows : row'[p].id = row'[q].id /\ row'[p].id # 0 => p = q
    BY <1>1, <2>2 DEF DistinctRows
  <2> QED
    BY <1>1, <1>6, <2>1 DEF DistinctRows
<1>14. \A m \in removals' : m.row = r => RemovalShape(m)'
  BY <1>3 DEF Removed
<1>15. RowBefore(r)'
  <2>1. RowBefore(r)
    BY <1>3 DEF Tracked, Before, Landed
  <2> QED
    BY <1>1, <1>3, <1>6, <1>9, <1>10, <2>1 DEF RowBefore, PendingBefore, KnownBefore, GoneBefore
<1> QED
  BY <1>3, <1>8, <1>10, <1>11, <1>12, <1>13, <1>14, <1>15, OneRow

\* One row is written, and nothing is filed or removed.
LEMMA OneRowWritten ==
  ASSUME Tracked, NEW r \in Rows, NEW s \in RowState, row' = [row EXCEPT ![r] = s], s.id = row[r].id,
         wanted' \in [Rows -> ValuesOrNone], \A q \in Rows \ {r} : wanted'[q] = wanted[q],
         UNCHANGED <<kind, stored, nextId, additions, removals, saves, reads, excused, outdated>>
  PROVE  /\ Typed' /\ DistinctRows' /\ row'[r] = s
         /\ \A q \in Rows \ {r} : Held(q)
         /\ \A q : Pending(q)' <=> Pending(q)
<1>1. Typed /\ DistinctRows /\ row \in [Rows -> RowState]
  BY DEF Tracked, Typed, Shapes
<1>2. row' \in [Rows -> RowState] /\ row'[r] = s /\ \A q \in Rows \ {r} : row'[q] = row[q]
  BY <1>1
<1>3. Typed'
  BY <1>1, <1>2 DEF Typed, Exempt, IsStore
<1>4. \A q : Pending(q)' <=> Pending(q)
  BY DEF Pending
<1>5. \A q \in Rows \ {r} : Held(q)
  BY <1>2, <1>4 DEF Held
<1>6. DistinctRows'
  <2>1. \A q \in Rows : row'[q].id = row[q].id
    BY <1>2
  <2>2. \A p, q \in Rows : row'[p].id = row'[q].id /\ row'[p].id # 0 => p = q
    BY <1>1, <2>1 DEF DistinctRows
  <2> QED
    BY <1>1, <2>2 DEF DistinctRows
<1> QED
  BY <1>2, <1>3, <1>4, <1>5, <1>6

LEMMA AssignKeeps ==
  ASSUME Careful, Basic, Tracked, ~crashed, Quiet, NEW r \in Rows, NEW v \in Values,
         Assign(r, v), wanted[r] # 0, crashed' = crashed,
         wanted' = [wanted EXCEPT ![r] = IF @ = 0 THEN 0 ELSE v],
         UNCHANGED <<kind, stored, nextId, removals, saves, reads, excused, outdated>>
  PROVE  Tracked'
<1> DEFINE o == row[r]
           base == IF Tracking = "diff" THEN o.base
                   ELSE IF o.base = 0 THEN o.held ELSE IF o.base = v THEN 0 ELSE o.base
           s == [o EXCEPT !.held = v, !.base = base]
<1>1. /\ Typed /\ Shapes /\ DistinctRows /\ row \in [Rows -> RowState] /\ RowShape(r)
      /\ v # 0 /\ v \in ValuesOrNone /\ o \in RowState /\ ~Landed
  BY BoundAssumption DEF Tracked, Typed, Shapes, Values, ValuesOrNone, Landed
<1>2. Tracking # "immutable" /\ o.held # v /\ o.held # 0 /\ row' = [row EXCEPT ![r] = s] /\ additions' = additions
  BY <1>1 DEF Assign
<1>3. s \in RowState /\ s.held = v /\ s.base = base /\ s.id = o.id /\ s.slot = o.slot /\ s.patch = o.patch
      /\ s.attached = o.attached
  <2>1. base \in ValuesOrNone
    BY <1>1, RowIs, BoundAssumption DEF ValuesOrNone
  <2> HIDE DEF base
  <2> QED
    BY <1>1, <2>1 DEF RowState
<1>4. wanted' \in [Rows -> ValuesOrNone] /\ wanted'[r] = v /\ \A q \in Rows \ {r} : wanted'[q] = wanted[q]
  BY <1>1 DEF Typed
<1> HIDE DEF s
<1>5. /\ Typed' /\ DistinctRows' /\ row'[r] = s
      /\ \A q \in Rows \ {r} : Held(q)
      /\ \A q : Pending(q)' <=> Pending(q)
  BY <1>1, <1>2, <1>3, <1>4, OneRowWritten
<1>6. RowShape(r)'
  <2>1. (Tracking # "proxy" => base = o.base) /\ Tracking' = Tracking /\ wanted'[r] # 0
    BY <1>1, <1>2, <1>4, KindIs DEF Basic, Tracking
  <2>2. o.attached \/ Pending(r)
    BY <1>1, <1>2 DEF RowShape
  <2> HIDE DEF base
  <2> QED
    BY <1>1, <1>2, <1>3, <1>5, <2>1, <2>2 DEF RowShape
<1>7. ~Removed(r)
  BY <1>1 DEF Removed, Shapes, RemovalShape
<1>8. \A m \in removals' : m.row = r => RemovalShape(m)'
  BY <1>7 DEF Removed
<1>9. ASSUME r \notin Exempt PROVE RowBefore(r)'
  <2>1. RowBefore(r)
    BY <1>1, <1>9 DEF Tracked, Before
  <2>2. PendingBefore(r)'
    BY <1>2, <1>3, <1>4, <1>5, <2>1, <1>1 DEF RowBefore, PendingBefore
  <2>3. ASSUME o.attached
        PROVE  /\ o.id \in DOMAIN stored /\ o.patch = 0
               /\ Tracking = "proxy" /\ o.base = 0 => o.held = stored[o.id]
               /\ Tracking = "proxy" /\ o.base # 0 => o.base = stored[o.id]
               /\ Tracking = "diff" => o.base = stored[o.id]
    <3>1. Tracking \in {"proxy", "diff"}
      BY <1>2, KindIs DEF Basic, Tracking
    <3>2. /\ o.id \in DOMAIN stored /\ (Dirty(r) => o.base = stored[o.id]) /\ (~Dirty(r) => o.held = stored[o.id])
      BY <2>1, <2>3 DEF RowBefore, KnownBefore
    <3>3. Dirty(r) <=> IF Tracking = "proxy" THEN o.base # 0 ELSE o.base # o.held
      BY <2>3, <3>1 DEF Dirty
    <3> QED
      BY <1>1, <1>2, <3>1, <3>2, <3>3 DEF RowShape
  <2>4. ASSUME o.attached PROVE Dirty(r)' <=> IF Tracking = "proxy" THEN s.base # 0 ELSE s.base # v
    <3>1. Tracking \in {"proxy", "diff"} /\ Tracking' = Tracking
      BY <1>2, KindIs DEF Basic, Tracking
    <3> QED
      BY <1>3, <1>5, <2>4, <3>1 DEF Dirty
  <2>5. KnownBefore(r)'
    <3>1. Tracking \in {"proxy", "diff"} /\ Tracking' = Tracking
      BY <1>2, KindIs DEF Basic, Tracking
    <3>2. Current(r)' = v \/ ~o.attached
      BY <1>3, <1>5, <2>3 DEF Current
    <3> QED
      BY <1>2, <1>3, <1>4, <1>5, <2>3, <2>4, <3>1, <3>2 DEF KnownBefore
  <2>6. GoneBefore(r)'
    BY <1>1, <1>4 DEF GoneBefore
  <2> QED
    BY <2>2, <2>5, <2>6 DEF RowBefore
<1>10. r \in Exempt => row'[r].attached
  BY <1>1, <1>3, <1>5 DEF Shapes
<1> QED
  BY <1>3, <1>5, <1>6, <1>8, <1>9, <1>10, OneRow

LEMMA UpdateSavedKeeps ==
  ASSUME Careful, Basic, Tracked, ~crashed, Quiet, NEW r \in Rows, NEW v \in Values,
         UpdateSaved(r, v), wanted[r] # 0, crashed' = crashed,
         wanted' = [wanted EXCEPT ![r] = IF @ = 0 THEN 0 ELSE v],
         UNCHANGED <<kind, stored, nextId, removals, saves, reads, excused, outdated>>
  PROVE  Tracked'
<1> DEFINE o == row[r]
           base == IF o.patch = 0 THEN o.held ELSE o.base
           s == [o EXCEPT !.patch = v, !.base = base]
<1>1. /\ Typed /\ Shapes /\ DistinctRows /\ row \in [Rows -> RowState] /\ RowShape(r)
      /\ v # 0 /\ v \in ValuesOrNone /\ o \in RowState /\ ~Landed
  BY BoundAssumption DEF Tracked, Typed, Shapes, Values, ValuesOrNone, Landed
<1>2. Tracking = "immutable" /\ o.attached /\ row' = [row EXCEPT ![r] = s] /\ additions' = additions
  BY <1>1 DEF UpdateSaved
<1>3. s \in RowState /\ s.held = o.held /\ s.base = base /\ s.id = o.id /\ s.slot = o.slot /\ s.patch = v
      /\ s.attached = o.attached
  BY <1>1 DEF RowState
<1>4. wanted' \in [Rows -> ValuesOrNone] /\ wanted'[r] = v /\ \A q \in Rows \ {r} : wanted'[q] = wanted[q]
  BY <1>1 DEF Typed
<1> HIDE DEF s
<1>5. /\ Typed' /\ DistinctRows' /\ row'[r] = s
      /\ \A q \in Rows \ {r} : Held(q)
      /\ \A q : Pending(q)' <=> Pending(q)
  BY <1>1, <1>2, <1>3, <1>4, OneRowWritten
<1>6. RowShape(r)'
  BY <1>1, <1>2, <1>3, <1>4, <1>5 DEF RowShape, Tracking
<1>7. ~Removed(r)
  BY <1>1 DEF Removed, Shapes, RemovalShape
<1>8. \A m \in removals' : m.row = r => RemovalShape(m)'
  BY <1>7 DEF Removed
<1>9. ASSUME r \notin Exempt PROVE RowBefore(r)'
  <2>1. RowBefore(r) /\ ~Pending(r)
    BY <1>1, <1>2, <1>9 DEF Tracked, Before, RowShape
  <2>2. /\ o.id \in DOMAIN stored /\ o.held = stored[o.id] /\ (Dirty(r) => o.base = stored[o.id])
    BY <1>2, <2>1 DEF RowBefore, KnownBefore
  <2>3. Dirty(r) <=> o.patch # 0
    BY <1>2 DEF Dirty
  <2>4. base = stored[o.id]
    BY <2>2, <2>3
  <2>5. PendingBefore(r)' /\ GoneBefore(r)'
    BY <1>1, <1>4, <1>5, <2>1 DEF PendingBefore, GoneBefore
  <2>6. KnownBefore(r)'
    <3>1. Current(r)' = v
      BY <1>1, <1>3, <1>5 DEF Current
    <3>2. ~Removed(r)'
      BY <1>7 DEF Removed
    <3> QED
      BY <1>3, <1>4, <1>5, <2>2, <2>4, <3>1, <3>2 DEF KnownBefore, Removed
  <2> QED
    BY <2>5, <2>6 DEF RowBefore
<1>10. r \in Exempt => row'[r].attached
  BY <1>1, <1>3, <1>5 DEF Shapes
<1> QED
  BY <1>3, <1>5, <1>6, <1>8, <1>9, <1>10, OneRow

LEMMA EditKeeps ==
  ASSUME Careful, Basic, ~disturbed => Tracked, ~crashed, NEW r \in Rows, NEW v \in Values, Edit(r, v),
         crashed' = crashed, ~disturbed'
  PROVE  Tracked'
<1>1. Tracked /\ Quiet
  BY CallIs DEF Edit, Basic
<1>2. wanted[r] # 0
  BY DEF Edit, Careful
<1>3. CASE Assign(r, v)
  BY <1>1, <1>2, <1>3, AssignKeeps DEF Edit
<1>4. CASE UpdateUnsaved(r, v)
  BY <1>1, <1>2, <1>4, UnsavedKeeps DEF Edit
<1>5. CASE UpdateSaved(r, v)
  BY <1>1, <1>2, <1>5, UpdateSavedKeeps DEF Edit
<1> QED
  BY <1>3, <1>4, <1>5 DEF Edit

LEMMA RemoveKeeps ==
  ASSUME Careful, Basic, ~disturbed => Tracked, ~crashed, NEW r \in Rows, RemoveRow(r),
         crashed' = crashed, ~disturbed'
  PROVE  Tracked'
<1>1. Tracked /\ Quiet
  BY CallIs DEF RemoveRow, Basic
<1> DEFINE o == row[r]
           base == IF Tracking = "immutable" THEN 0 ELSE o.base
           s == [o EXCEPT !.patch = 0, !.base = base]
<1>2. /\ Typed /\ Shapes /\ DistinctRows /\ row \in [Rows -> RowState] /\ RowShape(r) /\ o \in RowState /\ ~Landed
      /\ wanted[r] # 0 /\ o.id # 0
  BY <1>1 DEF RemoveRow, Careful, Tracked, Typed, Shapes, Landed
<1>3. row' = [row EXCEPT ![r] = s]
  BY <1>2 DEF RemoveRow
<1>4. PICK g \in Generations(r) : removals' = removals \cup {[row |-> r, as |-> g]}
  BY DEF RemoveRow
<1>5. g = IF Tracking = "immutable" THEN o.held ELSE 0
  BY DEF Generations, Careful
<1>6. /\ wanted' = [wanted EXCEPT ![r] = 0]
      /\ UNCHANGED <<kind, stored, nextId, additions, saves, reads, excused, outdated>>
      /\ (SQL => ~Pending(r)) /\ (SQL /\ Tracking # "immutable" => ~Dirty(r))
  BY DEF RemoveRow, Careful
<1>7. s \in RowState /\ s.held = o.held /\ s.base = base /\ s.id = o.id /\ s.slot = o.slot /\ s.patch = 0
      /\ s.attached = o.attached
  <2>1. base \in ValuesOrNone /\ 0 \in ValuesOrNone
    BY <1>2, RowIs, BoundAssumption DEF ValuesOrNone
  <2> HIDE DEF base
  <2> QED
    BY <1>2, <2>1 DEF RowState
<1> HIDE DEF s
<1>8. ~Removed(r)
  BY <1>2 DEF Removed, Shapes, RemovalShape
<1> DEFINE n == [row |-> r, as |-> g]
<1>9. n.row = r /\ n.as = g /\ n \in [row : Rows, as : ValuesOrNone]
  BY <1>2, <1>5, RowIs, BoundAssumption DEF ValuesOrNone
<1> HIDE DEF n
<1>10. /\ removals' = removals \cup {n}
       /\ \A m \in removals' : m.row = r => m = n
  BY <1>4, <1>8 DEF Removed, n
<1>11. /\ row' \in [Rows -> RowState] /\ row'[r] = s /\ wanted' \in [Rows -> ValuesOrNone] /\ wanted'[r] = 0
       /\ \A q \in Rows \ {r} : row'[q] = row[q] /\ wanted'[q] = wanted[q]
  BY <1>2, <1>3, <1>6, <1>7, BoundAssumption DEF Typed, ValuesOrNone
<1>12. Typed'
  BY <1>2, <1>6, <1>9, <1>10, <1>11 DEF Typed, Exempt, IsStore
<1>13. \A q : Pending(q)' <=> Pending(q)
  BY <1>6 DEF Pending
<1>14. \A q \in Rows \ {r} : Held(q)
  BY <1>9, <1>10, <1>11, <1>13 DEF Held
<1>15. DistinctRows'
  <2>1. \A q \in Rows : row'[q].id = row[q].id
    BY <1>7, <1>11
  <2>2. \A p, q \in Rows : row'[p].id = row'[q].id /\ row'[p].id # 0 => p = q
    BY <1>2, <2>1 DEF DistinctRows
  <2>3. \A k, m \in removals' : k.row = m.row => k = m
    BY <1>2, <1>9, <1>10 DEF DistinctRows
  <2> QED
    BY <1>2, <1>6, <2>2, <2>3 DEF DistinctRows
<1>16. Tracking' = Tracking /\ (SQL' <=> SQL) /\ Tracking \in {"proxy", "diff", "immutable"}
  BY <1>6, KindIs DEF Basic, Tracking, SQL
<1>17. o.held # 0 /\ (o.attached \/ Pending(r))
  BY <1>2 DEF RowShape
<1>18. RowShape(r)'
  BY <1>2, <1>6, <1>7, <1>11, <1>13, <1>16, <1>17 DEF RowShape
<1>19. Dirty(r)' <=> Dirty(r) /\ Tracking # "immutable"
  BY <1>7, <1>11, <1>16 DEF Dirty
<1>20. \A m \in removals' : m.row = r => RemovalShape(m)'
  BY <1>2, <1>5, <1>6, <1>7, <1>9, <1>10, <1>11, <1>13, <1>16, <1>17, <1>19 DEF RemovalShape
<1>21. ASSUME r \notin Exempt PROVE RowBefore(r)'
  <2>1. RowBefore(r)
    BY <1>1, <1>2, <1>21 DEF Tracked, Before
  <2>2. Removed(r)'
    BY <1>9, <1>10 DEF Removed
  <2>3. PendingBefore(r)'
    BY <1>5, <1>6, <1>7, <1>9, <1>10, <1>11, <1>13, <1>16, <2>1, <2>2 DEF RowBefore, PendingBefore
  <2>4. KnownBefore(r)'
    BY <1>2, <1>5, <1>6, <1>7, <1>9, <1>10, <1>11, <1>16, <1>19, <2>1 DEF RowBefore, KnownBefore
  <2>5. GoneBefore(r)'
    BY <2>2 DEF GoneBefore
  <2> QED
    BY <2>3, <2>4, <2>5 DEF RowBefore
<1>22. r \in Exempt => row'[r].attached
  BY <1>2, <1>7, <1>11 DEF Shapes
<1>23. /\ kind' = kind /\ stored' = stored /\ nextId' = nextId /\ saves' = saves
       /\ excused' = excused /\ outdated' = outdated /\ row'[r].id = row[r].id
  BY <1>6, <1>7, <1>11
<1> QED
  BY <1>1, <1>12, <1>14, <1>15, <1>18, <1>20, <1>21, <1>22, <1>23, OneRow

-----------------------------------------------------------------------------
(* The initial states.                                                      *)

LEMMA StartsWell ==
  ASSUME StoreInit
  PROVE  StoreInv
<1> DEFINE Row(Loaded, r) ==
       IF r \in Loaded
         THEN [held |-> 1, base |-> IF kind.tracking = "diff" THEN 1 ELSE 0, patch |-> 0,
               id |-> r, slot |-> "none", attached |-> TRUE]
         ELSE [held |-> 0, base |-> 0, patch |-> 0, id |-> 0, slot |-> "none", attached |-> FALSE]
<1>0. PICK Loaded \in Starts :
        /\ stored = [i \in Loaded |-> 1]
        /\ row = [r \in Rows |-> Row(Loaded, r)]
        /\ wanted = [r \in Rows |-> IF r \in Loaded THEN 1 ELSE 0]
  BY DEF StoreInit, TrackerInit
<1>1. /\ kind \in Kinds /\ stored = [i \in Loaded |-> 1] /\ nextId = 1 + Cardinality(Rows)
      /\ additions = <<>> /\ removals = {} /\ saves = <<>> /\ reads = {}
      /\ disturbed = FALSE /\ excused = {} /\ outdated = {}
      /\ wanted = [r \in Rows |-> IF r \in Loaded THEN 1 ELSE 0]
      /\ indexedAdds = {} /\ crashed = FALSE /\ drift = FALSE
      /\ index = IF kind.indexed THEN Documents ELSE {}
      /\ Loaded \subseteq Rows
  BY <1>0, ChoiceAssumption, RowsAre DEF StoreInit, TrackerInit, Documents
<1>3. ASSUME NEW r \in Rows
      PROVE  /\ row[r].held = (IF r \in Loaded THEN 1 ELSE 0) /\ row[r].patch = 0
             /\ row[r].base = (IF r \in Loaded /\ Tracking = "diff" THEN 1 ELSE 0)
             /\ row[r].id = (IF r \in Loaded THEN r ELSE 0) /\ row[r].slot = "none"
             /\ row[r].attached = (r \in Loaded) /\ row[r] \in RowState
  <2>1. row[r] = Row(Loaded, r)
    BY <1>0
  <2>2. r \in Nat \ {0} /\ 0 \in ValuesOrNone /\ 1 \in ValuesOrNone
    BY RowsAre, BoundAssumption DEF ValuesOrNone
  <2> DEFINE in == r \in Loaded
             held == IF in THEN 1 ELSE 0
             base == IF in /\ Tracking = "diff" THEN 1 ELSE 0
             id == IF in THEN r ELSE 0
             s == [held |-> held, base |-> base, patch |-> 0, id |-> id, slot |-> "none", attached |-> in]
  <2>3. Row(Loaded, r) = s
    <3>1. CASE r \in Loaded
      <4>1. in = TRUE
        BY <3>1
      <4>2. held = 1 /\ id = r /\ base = IF kind.tracking = "diff" THEN 1 ELSE 0
        BY <3>1 DEF Tracking
      <4> HIDE DEF held, base, id, in
      <4> QED
        BY <3>1, <4>1, <4>2 DEF Row
    <3>2. CASE r \notin Loaded
      <4>1. in = FALSE
        BY <3>2
      <4>2. held = 0 /\ id = 0 /\ base = 0
        BY <3>2
      <4> HIDE DEF held, base, id, in
      <4> QED
        BY <3>2, <4>1, <4>2 DEF Row
    <3> QED
      BY <3>1, <3>2
  <2>4. held \in ValuesOrNone /\ base \in ValuesOrNone /\ id \in Nat /\ in \in BOOLEAN
    BY <2>2
  <2> HIDE DEF held, base, id, in
  <2>5. s \in RowState
    BY <2>2, <2>4 DEF RowState
  <2>6. /\ s.held = held /\ s.patch = 0 /\ s.base = base /\ s.id = id /\ s.slot = "none" /\ s.attached = in
    OBVIOUS
  <2> QED
    BY <2>1, <2>3, <2>5, <2>6 DEF held, base, id, in
<1> HIDE DEF Row
<1>4. \A r : ~Pending(r) /\ ~Removed(r)
  BY <1>1 DEF Pending, Removed
<1>5. SavesShaped
  <2>1. saves \in Seq([changes : {}, state : States, first : {}, follow : {}])
    BY <1>1
  <2> QED
    BY <2>1 DEF SavesShaped
<1>6. Basic
  BY <1>1, <1>5 DEF Basic
<1>7. Typed
  <2>1. row \in [Rows -> RowState]
    BY <1>0, <1>3
  <2>2. IsStore(stored)
    BY <1>1, RowsAre, BoundAssumption DEF IsStore, Values, Ids
  <2>3. wanted \in [Rows -> ValuesOrNone] /\ nextId \in Nat
    BY <1>1, BoundAssumption, RowsAre DEF ValuesOrNone
  <2> QED
    BY <1>1, <2>1, <2>2, <2>3 DEF Typed, Exempt
<1>8. Shapes
  <2>1. ASSUME NEW r \in Rows PROVE RowShape(r)
    <3>1. r < nextId /\ 0 < nextId /\ r # 0
      BY <1>1, RowsAre
    <3>2. wanted[r] = IF r \in Loaded THEN 1 ELSE 0
      BY <1>1
    <3>5. Tracking = "immutable" => Tracking # "diff"
      OBVIOUS
    <3>3. CASE r \in Loaded
      <4>1. /\ row[r].held = 1 /\ row[r].patch = 0 /\ row[r].id = r /\ row[r].slot = "none" /\ row[r].attached
            /\ Tracking = "immutable" => row[r].base = 0
        BY <1>3, <3>3, <3>5
      <4> QED
        BY <1>4, <3>1, <4>1 DEF RowShape
    <3>4. CASE r \notin Loaded
      BY <1>3, <1>4, <3>1, <3>2, <3>4 DEF RowShape
    <3> QED
      BY <3>3, <3>4
  <2>2. DistinctRows
    BY <1>1, <1>3 DEF DistinctRows
  <2>3. Cardinality(Rows) < nextId
    BY <1>1, RowsAre
  <2> QED
    BY <1>1, <2>1, <2>2, <2>3 DEF Shapes, Exempt
<1>9. Before
  <2>1. ASSUME NEW r \in Rows PROVE RowBefore(r)
    <3>1. (wanted[r] # 0 <=> r \in Loaded) /\ (r \in Loaded => wanted[r] = 1)
      BY <1>1
    <3>2. ~Dirty(r) /\ (r \in Loaded => Current(r) = 1)
      BY <1>1, <1>3, KindIs DEF Dirty, Tracking, Current
    <3> QED
      BY <1>1, <1>3, <1>4, <3>1, <3>2 DEF RowBefore, PendingBefore, KnownBefore, GoneBefore
  <2>2. \A i \in DOMAIN stored : i \in Rows /\ row[i].id = i
    BY <1>1, <1>3, RowsAre
  <2> QED
    BY <2>1, <2>2 DEF Before
<1>10. Tracked
  BY <1>1, <1>7, <1>8, <1>9 DEF Tracked, Quiet, Landed
<1>11. IndexKept
  BY <1>1 DEF IndexKept
<1> QED
  BY <1>6, <1>10, <1>11 DEF StoreInv

-----------------------------------------------------------------------------
(* Steps that leave rows and database alone.                                *)

RowsAlone == UNCHANGED <<kind, stored, nextId, row, additions, removals, wanted, excused, outdated>>

LEMMA AloneHeld ==
  ASSUME RowsAlone
  PROVE  /\ \A q : Held(q) /\ (Pending(q)' <=> Pending(q)) /\ (Dirty(q)' <=> Dirty(q))
         /\ \A q : Current(q)' = Current(q) /\ Key(q)' = Key(q)
         /\ Exempt' = Exempt /\ Tracking' = Tracking
BY DEF RowsAlone, Held, Pending, Dirty, Tracking, Current, Key, Exempt

LEMMA ShapesAlone ==
  ASSUME RowsAlone, Shapes, Typed
  PROVE  Shapes'
<1>1. \A r \in Rows : RowShape(r)'
  BY AloneHeld, ShapeHeld DEF RowsAlone, Shapes
<1>2. \A m \in removals' : RemovalShape(m)'
  BY AloneHeld, RemovalHeld DEF RowsAlone, Shapes
<1>3. DistinctRows'
  BY DEF RowsAlone, Shapes, DistinctRows
<1> QED
  BY <1>1, <1>2, <1>3, AloneHeld DEF RowsAlone, Shapes

LEMMA BeforeAlone ==
  ASSUME RowsAlone, Before
  PROVE  Before'
BY AloneHeld, BeforeHeld DEF RowsAlone, Before

LEMMA CleanAlone ==
  ASSUME RowsAlone, CleanShown
  PROVE  CleanShown'
BY AloneHeld DEF RowsAlone, CleanShown

LEMMA FitsAlone ==
  ASSUME RowsAlone, NEW p
  PROVE  /\ FitsAdds(p)' <=> FitsAdds(p)
         /\ FitsUpdates(p)' <=> FitsUpdates(p)
         /\ FitsRest(p)' <=> FitsRest(p)
         /\ Reindexes' <=> Reindexes
<1>1. /\ \A q : (Dirty(q)' <=> Dirty(q)) /\ Current(q)' = Current(q) /\ Key(q)' = Key(q)
      /\ Exempt' = Exempt /\ additions' = additions /\ row' = row /\ removals' = removals
  BY AloneHeld DEF RowsAlone
<1>2. FitsAdds(p)' <=> FitsAdds(p)
  BY <1>1 DEF FitsAdds
<1>3. FitsUpdates(p)' <=> FitsUpdates(p)
  BY <1>1 DEF FitsUpdates
<1>4. FitsRest(p)' <=> FitsRest(p)
  BY <1>1 DEF FitsRest, RemovedAs
<1>5. Reindexes' <=> Reindexes
  BY <1>1 DEF Reindexes
<1> QED
  BY <1>2, <1>3, <1>4, <1>5

LEMMA LandingAlone ==
  ASSUME RowsAlone, NEW p, NEW first
  PROVE  /\ HoldsAsked(stored, p, first)' <=> HoldsAsked(stored, p, first)
         /\ ShowsAsked' <=> ShowsAsked
         /\ FreshIds(p, first)' <=> FreshIds(p, first)
<1>1. /\ \A q : (Pending(q)' <=> Pending(q)) /\ Current(q)' = Current(q)
      /\ Exempt' = Exempt /\ additions' = additions /\ row' = row /\ wanted' = wanted
      /\ stored' = stored /\ nextId' = nextId /\ kind' = kind
  BY AloneHeld DEF RowsAlone
<1>2. \A n : AddId(p, n, first)' = AddId(p, n, first)
  BY <1>1 DEF AddId
<1>3. HoldsAsked(stored, p, first)' <=> HoldsAsked(stored, p, first)
  BY <1>1, <1>2 DEF HoldsAsked, AskedOf
<1>4. ShowsAsked' <=> ShowsAsked
  BY <1>1 DEF ShowsAsked
<1>5. FreshIds(p, first)' <=> FreshIds(p, first)
  BY <1>1 DEF FreshIds
<1> QED
  BY <1>3, <1>4, <1>5

\* The save that is out goes on, or stays as it is.
LEMMA UnderwayAlone ==
  ASSUME RowsAlone, Underway, ~Quiet, ~Quiet', indexedAdds' = indexedAdds,
         Landed' <=> Landed, Out.changes' = Out.changes, Out.first' = Out.first,
         Out.state' = "indexing" => Out.follow' = DeferredRows(1)'
  PROVE  Underway'
<1> PICK p, first : p = Out.changes /\ first = Out.first
  OBVIOUS
<1>1. /\ FitsAdds(p) /\ FitsUpdates(p) /\ Reindexes
      /\ kind.indexed /\ ~kind.identity => indexedAdds = {a.key : a \in ToSet(p.adds)}
      /\ Landed => HoldsAsked(stored, p, first) /\ ShowsAsked /\ FreshIds(p, first)
      /\ ~Landed => FitsRest(p)
  BY DEF Underway, AfterLanding
<1>2. Out.changes' = p /\ Out.first' = first /\ kind' = kind
  BY DEF RowsAlone
<1>3. /\ FitsAdds(p)' /\ FitsUpdates(p)' /\ Reindexes'
  BY <1>1, FitsAlone
<1>4. Landed => HoldsAsked(stored, p, first)' /\ ShowsAsked' /\ FreshIds(p, first)'
  BY <1>1, LandingAlone
<1>5. ~Landed => FitsRest(p)'
  BY <1>1, FitsAlone
<1> QED
  BY <1>1, <1>2, <1>3, <1>4, <1>5 DEF Underway, AfterLanding

LEMMA TypedAlone ==
  ASSUME RowsAlone, Typed, \A found \in reads' : IsStore(found)
  PROVE  Typed'
BY DEF RowsAlone, Typed, Exempt, IsStore

LEMMA TrackedAlone ==
  ASSUME RowsAlone, Tracked, saves' = saves, indexedAdds' = indexedAdds, crashed' = crashed,
         \A found \in reads' : IsStore(found)
  PROVE  Tracked'
<1>1. Typed' /\ Shapes' /\ (Quiet' <=> Quiet) /\ (Landed' <=> Landed) /\ Len(saves') <= 1
  BY TypedAlone, ShapesAlone DEF Tracked, Quiet, Landed, Out
<1>2. ~Quiet => Underway'
  <2>1. SUFFICES ASSUME ~Quiet PROVE Underway'
    OBVIOUS
  <2>2. Underway /\ Out' = Out
    BY <2>1 DEF Tracked, Out
  <2>3. Out.state' = "indexing" => Out.follow' = DeferredRows(1)'
    BY <2>2 DEF Underway, DeferredRows, AddId, RowsAlone, Out
  <2> QED
    BY <1>1, <2>1, <2>2, <2>3, UnderwayAlone
<1> QED
  BY <1>1, <1>2, BeforeAlone, CleanAlone DEF Tracked

\* A query reads the database.
LEMMA ReadKeeps ==
  ASSUME Tracked, Read, UNCHANGED indexVars
  PROVE  Tracked'
<1>1. RowsAlone /\ reads' = {stored} /\ saves' = saves /\ indexedAdds' = indexedAdds /\ crashed' = crashed
  BY DEF Read, RowsAlone, indexVars
<1> QED
  BY <1>1, TrackedAlone DEF Tracked, Typed

-----------------------------------------------------------------------------
(* A query's answer is written into the rows.                               *)

\* What resolve makes of an attached row: its identity and its unsaved edits are kept.
LEMMA ResolvedIs ==
  ASSUME Basic, Typed, NEW r \in Rows, RowShape(r), row[r].attached, NEW v \in Values
  PROVE  LET s == row[r]
             t == Resolved(s, v)
         IN  /\ t \in RowState
             /\ t.id = s.id /\ t.slot = s.slot /\ t.attached = s.attached /\ t.patch = s.patch
             /\ t.held # 0 /\ (Dirty(r) /\ Tracking = "diff" => t = s)
             /\ Tracking # "diff" => t.base = s.base
             /\ t.held = IF Tracking = "diff" /\ Dirty(r) THEN s.held ELSE v
             /\ Tracking = "diff" /\ ~Dirty(r) => t.base = v
<1> DEFINE s == row[r]
<1>1. /\ s \in RowState /\ v \in ValuesOrNone /\ v # 0 /\ s.held # 0
      /\ Tracking \in {"proxy", "diff", "immutable"}
  BY KindIs, BoundAssumption DEF Typed, Basic, Values, ValuesOrNone, Tracking, RowShape
<1>2. CASE Tracking = "diff"
  <2>1. Dirty(r) <=> s.base # s.held
    BY <1>2 DEF Dirty
  <2>2. CASE Dirty(r)
    BY <1>1, <1>2, <2>1, <2>2 DEF Resolved
  <2>3. CASE ~Dirty(r)
    <3>1. Resolved(s, v) = [s EXCEPT !.held = v, !.base = v]
      BY <1>2, <2>1, <2>3 DEF Resolved
    <3> QED
      BY <1>1, <1>2, <2>3, <3>1 DEF RowState
  <2> QED
    BY <2>2, <2>3
<1>3. CASE Tracking # "diff"
  <2>1. Resolved(s, v) = [s EXCEPT !.held = v]
    BY <1>1, <1>3 DEF Resolved
  <2> QED
    BY <1>1, <1>3, <2>1 DEF RowState
<1> QED
  BY <1>2, <1>3

LEMMA AdditionIs ==
  ASSUME Typed
  PROVE  /\ DOMAIN additions = 1..Len(additions) /\ Len(additions) \in Nat
         /\ \A n \in DOMAIN additions : additions[n] \in [row : Rows, key : Nat] /\ additions[n].row \in Rows /\ additions[n].key \in Nat
<1> DEFINE S == [row : Rows, key : Nat]
<1>1. additions \in Seq(S)
  BY DEF Typed
<1> HIDE DEF S
<1>2. DOMAIN additions = 1..Len(additions) /\ Len(additions) \in Nat /\ \A n \in DOMAIN additions : additions[n] \in S
  BY <1>1, ElementOfSeq, LenProperties
<1> QED
  BY <1>2 DEF S

LEMMA DeliverKeeps ==
  ASSUME Careful, Basic, Tracked, ~crashed, Deliver, UNCHANGED indexVars
  PROVE  Tracked'
<1>1. PICK found \in reads : 
        LET known == {r \in Rows : row[r].attached /\ row[r].id \in DOMAIN found}
        IN  /\ row' = [r \in Rows |-> IF r \in known THEN Resolved(row[r], found[row[r].id]) ELSE row[r]]
            /\ excused' = excused \cup {r \in known : Tracking = "proxy" /\ Dirty(r)}
            /\ outdated' = outdated \cup
                 {r \in known : row[r].id \in DOMAIN stored => found[row[r].id] # stored[row[r].id]}
  BY DEF Deliver
<1>2. /\ reads' = {} /\ kind' = kind /\ stored' = stored /\ nextId' = nextId /\ additions' = additions
      /\ removals' = removals /\ saves' = saves /\ wanted' = wanted /\ indexedAdds' = indexedAdds /\ crashed' = crashed
  BY DEF Deliver, indexVars
<1> DEFINE known == {r \in Rows : row[r].attached /\ row[r].id \in DOMAIN found}
<1>3. /\ Typed /\ Shapes /\ IsStore(found) /\ DistinctRows
      /\ \A i \in DOMAIN found : found[i] \in Values
  BY DEF Tracked, Typed, Shapes, IsStore
<1>4. ASSUME NEW r \in known
      PROVE  LET s == row[r]
                 t == row'[r]
             IN  /\ t = Resolved(s, found[s.id]) /\ t \in RowState
                 /\ t.id = s.id /\ t.slot = s.slot /\ t.attached = s.attached /\ t.patch = s.patch
                 /\ t.held # 0 /\ (Dirty(r) /\ Tracking = "diff" => t = s)
                 /\ Tracking # "diff" => t.base = s.base
                 /\ t.held = IF Tracking = "diff" /\ Dirty(r) THEN s.held ELSE found[s.id]
                 /\ Tracking = "diff" /\ ~Dirty(r) => t.base = found[s.id]
  <2>1. r \in Rows /\ row[r].attached /\ RowShape(r) /\ found[row[r].id] \in Values
    BY <1>3 DEF Shapes
  <2>2. row'[r] = Resolved(row[r], found[row[r].id])
    BY <1>1, <2>1
  <2> PICK v : v = found[row[r].id]
    OBVIOUS
  <2>3. row[r].attached /\ RowShape(r) /\ v \in Values /\ row'[r] = Resolved(row[r], v)
    BY <2>1, <2>2
  <2>4. LET s == row[r]
            t == Resolved(s, v)
        IN  /\ t \in RowState
            /\ t.id = s.id /\ t.slot = s.slot /\ t.attached = s.attached /\ t.patch = s.patch
            /\ t.held # 0 /\ (Dirty(r) /\ Tracking = "diff" => t = s)
            /\ Tracking # "diff" => t.base = s.base
            /\ t.held = IF Tracking = "diff" /\ Dirty(r) THEN s.held ELSE v
            /\ Tracking = "diff" /\ ~Dirty(r) => t.base = v
    BY <1>3, <2>1, <2>3, ResolvedIs
  <2> QED
    BY <2>3, <2>4
<1>5. /\ \A r \in Rows \ known : row'[r] = row[r]
      /\ row' \in [Rows -> RowState]
  <2>1. \A r \in Rows \ known : row'[r] = row[r] /\ row[r] \in RowState
    BY <1>1, <1>3 DEF Typed
  <2> HIDE DEF known
  <2>2. \A r \in Rows : row'[r] \in RowState
    BY <1>4, <2>1
  <2>3. row' = [r \in Rows |-> row'[r]]
    BY <1>1
  <2> QED
    BY <2>1, <2>2, <2>3
<1>6. \A r \in known : row[r].attached /\ row[r].id \in DOMAIN found /\ r \in Rows
  OBVIOUS
<1>7. /\ excused \subseteq excused' /\ outdated \subseteq outdated'
      /\ \A r \in known : r \notin excused' => ~(Tracking = "proxy" /\ Dirty(r))
      /\ \A r \in known : r \notin outdated' => row[r].id \in DOMAIN stored /\ found[row[r].id] = stored[row[r].id]
      /\ Exempt' \subseteq Exempt \cup known
  BY <1>1, <1>6 DEF Exempt
<1> HIDE DEF known
<1>8. Tracking' = Tracking /\ Tracking \in {"proxy", "diff", "immutable"} /\ (SQL' <=> SQL)
  BY <1>2, KindIs DEF Basic, Tracking, SQL
<1>9. ASSUME NEW r \in Rows PROVE Dirty(r)' <=> Dirty(r)
  <2>1. CASE r \notin known
    BY <1>2, <1>5, <2>1, DirtyHeld
  <2>2. CASE r \in known
    <3>1. row'[r].attached /\ row[r].attached
      BY <1>4, <1>6, <2>2
    <3>2. CASE Tracking = "diff"
      <4>1. CASE Dirty(r)
        <5>1. row'[r] = row[r]
          BY <1>4, <2>2, <3>2, <4>1
        <5> QED
          BY <1>2, <5>1, DirtyHeld
      <4>2. CASE ~Dirty(r)
        <5>1. row'[r].base = row'[r].held
          BY <1>4, <2>2, <3>2, <4>2
        <5> QED
          BY <1>8, <3>2, <4>2, <5>1 DEF Dirty
      <4> QED
        BY <4>1, <4>2
    <3>3. CASE Tracking # "diff"
      <4>1. row'[r].base = row[r].base /\ row'[r].patch = row[r].patch
        BY <1>4, <2>2, <3>3
      <4> QED
        BY <1>8, <3>1, <3>3, <4>1 DEF Dirty
    <3> QED
      BY <3>2, <3>3
  <2> QED
    BY <2>1, <2>2
<1>10. \A q : (Pending(q)' <=> Pending(q)) /\ (Removed(q)' <=> Removed(q))
  BY <1>2 DEF Pending, Removed
<1>11. ASSUME NEW r \in Rows
       PROVE  row'[r].id = row[r].id /\ row'[r].attached = row[r].attached /\ row'[r].slot = row[r].slot
  BY <1>4, <1>5
<1>12. Typed'
  <2>1. Exempt' \subseteq Rows
    BY <1>3, <1>6, <1>7 DEF Typed
  <2> QED
    BY <1>2, <1>3, <1>5, <2>1 DEF Typed, IsStore
<1>13. ASSUME NEW r \in Rows PROVE RowShape(r)'
  <2>1. RowShape(r)
    BY <1>3 DEF Shapes
  <2>2. CASE r \notin known
    BY <1>2, <1>5, <1>8, <1>10, <2>1, <2>2 DEF RowShape
  <2>3. CASE r \in known
    <3>1. /\ row[r].attached /\ row'[r].attached /\ row'[r].held # 0 /\ row'[r].id = row[r].id
          /\ row'[r].patch = row[r].patch /\ row'[r].slot = row[r].slot
          /\ Tracking # "diff" => row'[r].base = row[r].base
      BY <1>4, <1>6, <2>3
    <3>2. ~Pending(r) /\ ~Pending(r)'
      BY <1>10, <2>1, <3>1 DEF RowShape
    <3> QED
      BY <1>2, <1>8, <2>1, <3>1, <3>2 DEF RowShape
  <2> QED
    BY <2>2, <2>3
<1>14. ASSUME NEW m \in removals' PROVE RemovalShape(m)'
  <2>1. m \in removals /\ m.row \in Rows
    BY <1>2, <1>3 DEF Typed
  <2> QED
    BY <1>2, <1>3, <1>8, <1>9, <1>10, <1>11, <2>1 DEF Shapes, RemovalShape
<1>15. Shapes'
  <2>1. DistinctRows'
    <3>1. \A r, q \in Rows : row'[r].id = row'[q].id /\ row'[r].id # 0 => r = q
      BY <1>3, <1>11 DEF DistinctRows
    <3> QED
      BY <1>2, <1>3, <3>1 DEF DistinctRows
  <2>2. \A r \in Exempt' : row'[r].attached
    BY <1>3, <1>6, <1>7, <1>11 DEF Shapes, Typed
  <2> QED
    BY <1>2, <1>3, <1>13, <1>14, <2>1, <2>2 DEF Shapes
<1>16. ASSUME NEW r \in known, r \notin Exempt'
       PROVE  /\ row[r].id \in DOMAIN stored /\ found[row[r].id] = stored[row[r].id]
              /\ ~(Tracking = "proxy" /\ Dirty(r)) /\ r \notin Exempt /\ r \in Rows
  BY <1>6, <1>7, <1>16 DEF Exempt
<1>17. ASSUME ~Landed, NEW r \in Rows \ Exempt'
       PROVE  row'[r] = row[r] /\ r \notin Exempt /\ RowBefore(r)
  <2>1. r \notin Exempt
    BY <1>7 DEF Exempt
  <2>2. RowBefore(r)
    BY <1>17, <2>1 DEF Tracked, Before
  <2>3. CASE r \notin known
    BY <1>5, <2>1, <2>2, <2>3
  <2>4. CASE r \in known
    <3> DEFINE s == row[r]
               t == row'[r]
    <3>1. /\ s.attached /\ s.id \in DOMAIN stored /\ found[s.id] = stored[s.id]
          /\ ~(Tracking = "proxy" /\ Dirty(r))
      BY <1>6, <1>16, <2>4
    <3>2. wanted[r] # 0 \/ Removed(r)
      BY <2>2, <3>1 DEF RowBefore, GoneBefore
    <3>3. ~Dirty(r) \/ Tracking = "immutable" => s.held = stored[s.id]
      BY <2>2, <3>1, <3>2 DEF RowBefore, KnownBefore
    <3>4. /\ s \in RowState /\ t \in RowState
          /\ t.id = s.id /\ t.slot = s.slot /\ t.attached = s.attached /\ t.patch = s.patch
          /\ (Dirty(r) /\ Tracking = "diff" => t = s)
          /\ Tracking # "diff" => t.base = s.base
          /\ t.held = IF Tracking = "diff" /\ Dirty(r) THEN s.held ELSE stored[s.id]
          /\ Tracking = "diff" /\ ~Dirty(r) => t.base = stored[s.id]
      BY <1>3, <1>4, <2>4, <3>1 DEF Typed
    <3>5. t.held = s.held
      BY <1>8, <3>1, <3>3, <3>4
    <3>6. t.base = s.base
      <4>1. Tracking = "diff" /\ ~Dirty(r) => s.base = s.held
        BY <3>1 DEF Dirty
      <4> QED
        BY <3>3, <3>4, <4>1
    <3>7. t = s
      <4> HIDE DEF s, t
      <4> QED
        BY <3>4, <3>5, <3>6 DEF RowState
    <3> QED
      BY <2>1, <2>2, <3>7
  <2> QED
    BY <2>3, <2>4
<1>18. ASSUME ~Landed PROVE Before'
  <2>1. ASSUME NEW r \in Rows \ Exempt' PROVE RowBefore(r)'
    <3>1. Held(r) /\ RowBefore(r)
      BY <1>2, <1>10, <1>17, <1>18 DEF Held
    <3> QED
      BY <1>2, <3>1, BeforeHeld
  <2>2. DOMAIN stored \subseteq {row'[r].id : r \in Rows}
    BY <1>11, <1>18 DEF Tracked, Before
  <2> QED
    BY <1>2, <2>1, <2>2 DEF Before
<1>19. ASSUME NEW n \in DOMAIN additions
       PROVE  /\ additions[n].row \in Rows /\ Pending(additions[n].row) /\ row'[additions[n].row] = row[additions[n].row]
              /\ ~row[additions[n].row].attached
              /\ Key(additions[n].row)' = Key(additions[n].row)
  <2> DEFINE q == additions[n].row
  <2>1. q \in Rows
    BY <1>3, AdditionIs
  <2>2. Pending(q)
    BY DEF Pending
  <2>3. ~row[q].attached
    BY <1>3, <2>1, <2>2 DEF Shapes, RowShape
  <2>4. row'[q] = row[q]
    BY <1>5, <1>6, <2>1, <2>3
  <2> QED
    BY <1>2, <2>1, <2>2, <2>3, <2>4 DEF Key
<1>20. ASSUME NEW r \in Rows \ Exempt', Dirty(r)
       PROVE  r \notin Exempt /\ Current(r)' = Current(r)
  <2>1. r \notin Exempt
    BY <1>7 DEF Exempt
  <2>2. CASE r \notin known
    BY <1>5, <2>1, <2>2 DEF Current
  <2>3. CASE r \in known
    <3>1. Tracking # "proxy"
      BY <1>16, <1>20, <2>3
    <3>2. CASE Tracking = "diff"
      BY <1>4, <1>20, <2>1, <2>3, <3>2 DEF Current
    <3>3. CASE Tracking = "immutable"
      <4>1. row[r].patch # 0 /\ row'[r].patch = row[r].patch
        BY <1>4, <1>20, <2>3, <3>3 DEF Dirty
      <4> QED
        BY <2>1, <4>1 DEF Current
    <3> QED
      BY <1>8, <3>1, <3>2, <3>3
  <2> QED
    BY <2>2, <2>3
<1>21. ASSUME ~Quiet PROVE Underway'
  <2>1. Underway
    BY <1>21 DEF Tracked
  <2> PICK p, first : p = Out.changes /\ first = Out.first
    OBVIOUS
  <2>2. Out' = Out /\ (Landed' <=> Landed) /\ Out.changes' = p /\ Out.first' = first
    BY <1>2 DEF Out, Landed, Quiet
  <2>3. FitsAdds(p)' /\ Reindexes'
    BY <1>2, <1>19, <2>1 DEF Underway, FitsAdds, Reindexes
  <2>4. FitsUpdates(p)'
    <3>1. FitsUpdates(p)
      BY <2>1 DEF Underway
    <3>2. {row'[r].id : r \in {r \in Rows : Dirty(r)'}} = {row[r].id : r \in {r \in Rows : Dirty(r)}}
      BY <1>9, <1>11
    <3>3. \A r \in Rows \ Exempt' : Dirty(r)' => p.updates[row'[r].id] = Current(r)'
      BY <1>9, <1>11, <1>20, <3>1 DEF FitsUpdates
    <3> QED
      BY <3>1, <3>2, <3>3 DEF FitsUpdates
  <2>5. ASSUME ~Landed PROVE FitsRest(p)'
    <3>1. FitsRest(p)
      BY <2>1, <2>5 DEF Underway
    <3>2. \A r \in Rows \ Exempt' : Dirty(r)' => p.previous[row'[r].id] = row'[r].base
      BY <1>9, <1>17, <2>5, <3>1 DEF FitsRest
    <3>3. \A m \in removals : m.row \in Rows
      BY <1>3 DEF Typed
    <3>4. {row'[m.row].id : m \in removals} = {row[m.row].id : m \in removals}
      BY <1>11, <3>3
    <3>5. \A m \in removals : m.row \notin Exempt' => p.removes[row'[m.row].id] = RemovedAs(m)'
      BY <1>17, <2>5, <3>1, <3>3 DEF FitsRest, RemovedAs
    <3> QED
      BY <1>2, <3>1, <3>2, <3>4, <3>5 DEF FitsRest
  <2>6. ASSUME Landed PROVE AfterLanding'
    <3>1. HoldsAsked(stored, p, first) /\ ShowsAsked /\ FreshIds(p, first)
      BY <2>1, <2>6 DEF Underway, AfterLanding
    <3>2. \A n : AddId(p, n, first)' = AddId(p, n, first)
      BY <1>2 DEF AddId
    <3>3. \A r \in Rows \ Exempt' : r \notin Exempt
      BY <1>7 DEF Exempt
    <3>4. HoldsAsked(stored, p, first)'
      <4>1. {row'[r].id : r \in Rows} = {row[r].id : r \in Rows}
        BY <1>11
      <4> QED
        BY <1>2, <1>11, <3>1, <3>2, <3>3, <4>1 DEF HoldsAsked, AskedOf
    <3>5. ASSUME NEW r \in Rows \ Exempt'
          PROVE  /\ row'[r].attached /\ wanted[r] # 0 => Current(r)' = wanted[r]
                 /\ Pending(r)' /\ wanted[r] # 0 => row'[r].held = wanted[r]
      <4>1. CASE r \notin known
        BY <1>5, <1>10, <3>1, <3>3, <4>1 DEF ShowsAsked, Current
      <4>2. CASE r \in known
        <5>1. row[r].attached /\ ~Pending(r) /\ r \notin Exempt
          BY <1>3, <1>6, <3>3, <4>2 DEF Shapes, RowShape
        <5>2. Dirty(r) => Current(r)' = Current(r)
          BY <1>20
        <5>3. ~Dirty(r) => row'[r].held = stored[row[r].id] /\ row'[r].patch = row[r].patch
          BY <1>4, <1>16, <4>2
        <5>4. ~Dirty(r) => row[r].patch = 0
          BY <1>3, <1>8, <5>1 DEF Dirty, Shapes, RowShape
        <5>5. wanted[r] # 0 => stored[row[r].id] = wanted[r] /\ Current(r) = wanted[r]
          BY <3>1, <5>1 DEF HoldsAsked, AskedOf, ShowsAsked
        <5> QED
          BY <1>10, <5>1, <5>2, <5>3, <5>4, <5>5 DEF Current
      <4> QED
        BY <4>1, <4>2
    <3>6. ShowsAsked'
      <4>1. \A r \in Rows \ Exempt' : Pending(r)' /\ kind.identity => wanted[r] # 0
        BY <1>2, <3>1, <3>3 DEF ShowsAsked, Pending
      <4> QED
        BY <1>2, <3>5, <4>1 DEF ShowsAsked
    <3>7. FreshIds(p, first)'
      BY <1>2, <1>11, <3>1 DEF FreshIds
    <3> QED
      BY <2>2, <3>4, <3>6, <3>7 DEF AfterLanding
  <2>7. Out.state' = "indexing" => Out.follow' = DeferredRows(1)'
    BY <1>2, <2>1, <2>2 DEF Underway, DeferredRows, AddId, Out
  <2>8. kind.indexed' /\ ~kind.identity' => indexedAdds' = {a.key : a \in ToSet(p.adds)}
    BY <1>2, <2>1 DEF Underway
  <2> QED
    BY <2>2, <2>3, <2>4, <2>5, <2>6, <2>7, <2>8 DEF Underway
<1>22. Len(saves') <= 1 /\ (Quiet' <=> Quiet) /\ (Landed' <=> Landed)
  BY <1>2 DEF Tracked, Quiet, Landed, Out
<1> QED
  BY <1>2, <1>12, <1>15, <1>18, <1>21, <1>22 DEF Tracked

-----------------------------------------------------------------------------
(* What a save leaves in the database.                                      *)

AddIds(p, first) == {AddId(p, n, first) : n \in DOMAIN p.adds}

Applied(new, db, p, first) ==
  /\ SQL => /\ DOMAIN new = AddIds(p, first) \cup (DOMAIN db \ DOMAIN p.removes)
            /\ \A n \in DOMAIN p.adds : new[AddId(p, n, first)] = p.adds[n].content
            /\ \A i \in (DOMAIN db \ DOMAIN p.removes) \ AddIds(p, first) :
                 new[i] = IF i \in DOMAIN p.updates THEN p.updates[i] ELSE db[i]
  /\ ~SQL => /\ DOMAIN new = (DOMAIN p.updates \cup AddIds(p, first) \cup DOMAIN db) \ DOMAIN p.removes
             /\ \A i \in DOMAIN p.updates \ DOMAIN p.removes : new[i] = p.updates[i]
             /\ \A n \in DOMAIN p.adds :
                  LET i == AddId(p, n, first)
                  IN  i \notin DOMAIN p.updates \cup DOMAIN p.removes => new[i] = p.adds[n].content
             /\ \A i \in DOMAIN db \ (DOMAIN p.updates \cup AddIds(p, first) \cup DOMAIN p.removes) :
                  new[i] = db[i]

LEMMA PersistedIs ==
  ASSUME NEW db, NEW p, NEW first,
         \A m, n \in DOMAIN p.adds : AddId(p, m, first) = AddId(p, n, first) => m = n
  PROVE  Applied(Persisted(db, p, first), db, p, first)
<1> DEFINE added == AddIds(p, first)
           content(i) == p.adds[CHOOSE n \in DOMAIN p.adds : AddId(p, n, first) = i].content
<1>1. added = {AddId(p, n, first) : n \in DOMAIN p.adds}
  BY DEF AddIds
<1>2. ASSUME NEW n \in DOMAIN p.adds
      PROVE  AddId(p, n, first) \in added /\ content(AddId(p, n, first)) = p.adds[n].content
  <2>1. n = CHOOSE k \in DOMAIN p.adds : AddId(p, k, first) = AddId(p, n, first)
    OBVIOUS
  <2> QED
    BY <1>1, <2>1
<1>3. Persisted(db, p, first) =
        IF SQL
          THEN [i \in added \cup (DOMAIN db \ DOMAIN p.removes) |->
                  IF i \in added THEN content(i)
                  ELSE IF i \in DOMAIN p.updates THEN p.updates[i] ELSE db[i]]
          ELSE [i \in (added \cup DOMAIN p.updates \cup DOMAIN db) \ DOMAIN p.removes |->
                  IF i \in DOMAIN p.updates THEN p.updates[i]
                  ELSE IF i \in added THEN content(i) ELSE db[i]]
  BY <1>1 DEF Persisted
<1> HIDE DEF added, content
<1>4. AddIds(p, first) = added
  BY DEF added
<1>5. CASE SQL
  BY <1>2, <1>3, <1>4, <1>5 DEF Applied
<1>6. CASE ~SQL
  BY <1>2, <1>3, <1>4, <1>6 DEF Applied
<1> QED
  BY <1>5, <1>6

\* The ids of the added rows are new, and none is given twice.
LEMMA AddIdIs ==
  ASSUME Basic, Typed, Shapes, NEW p, FitsAdds(p), NEW first, kind.identity => first \in Nat
  PROVE  /\ DOMAIN p.adds = 1..Len(p.adds) /\ Len(p.adds) \in Nat
         /\ \A n \in DOMAIN p.adds :
              /\ additions[n].row \in Rows /\ Pending(additions[n].row) /\ ~row[additions[n].row].attached
              /\ p.adds[n].content \in Values /\ p.adds[n].content = row[additions[n].row].held
              /\ AddId(p, n, first) = IF kind.identity THEN first + n - 1 ELSE additions[n].row
              /\ ~kind.identity => p.adds[n].key = additions[n].row /\ row[additions[n].row].id = additions[n].row
              /\ kind.identity => row[additions[n].row].id = 0
         /\ \A m, n \in DOMAIN p.adds : AddId(p, m, first) = AddId(p, n, first) => m = n
<1> DEFINE S == [key : Nat, content : Values]
<1>1. p.adds \in Seq(S)
  BY DEF FitsAdds
<1> HIDE DEF S
<1>2. DOMAIN p.adds = 1..Len(p.adds) /\ Len(p.adds) \in Nat /\ \A n \in DOMAIN p.adds : p.adds[n] \in S
  BY <1>1, ElementOfSeq, LenProperties
<1>3. \A n \in DOMAIN p.adds : p.adds[n].content \in Values
  BY <1>2 DEF S
<1>4. ASSUME NEW n \in DOMAIN p.adds
      PROVE  /\ additions[n].row \in Rows /\ Pending(additions[n].row) /\ ~row[additions[n].row].attached
             /\ p.adds[n].content = row[additions[n].row].held
             /\ AddId(p, n, first) = IF kind.identity THEN first + n - 1 ELSE additions[n].row
             /\ ~kind.identity => p.adds[n].key = additions[n].row /\ row[additions[n].row].id = additions[n].row
             /\ kind.identity => row[additions[n].row].id = 0
  <2> DEFINE q == additions[n].row
  <2>1. n \in DOMAIN additions /\ q \in Rows
    BY AdditionIs DEF FitsAdds
  <2>2. Pending(q)
    BY <2>1 DEF Pending
  <2>3. ~row[q].attached /\ row[q].id = IF kind.identity THEN 0 ELSE q
    BY <2>1, <2>2 DEF Shapes, RowShape
  <2>4. p.adds[n].content = row[q].held /\ p.adds[n].key = Key(q)
    BY <2>1 DEF FitsAdds
  <2>5. ~kind.identity => p.adds[n].key = q
    BY <2>4 DEF Key
  <2> QED
    BY <2>1, <2>2, <2>3, <2>4, <2>5 DEF AddId
<1>5. ASSUME NEW m \in DOMAIN p.adds, NEW n \in DOMAIN p.adds, AddId(p, m, first) = AddId(p, n, first)
      PROVE  m = n
  <2>1. CASE kind.identity
    <3>1. first + m - 1 = first + n - 1 /\ m \in Nat /\ n \in Nat /\ first \in Nat
      BY <1>2, <1>4, <1>5, <2>1
    <3> QED
      BY <3>1
  <2>2. CASE ~kind.identity
    <3>1. additions[m].row = additions[n].row /\ m \in DOMAIN additions /\ n \in DOMAIN additions
      BY <1>4, <1>5, <2>2 DEF FitsAdds
    <3> QED
      BY <3>1 DEF Shapes, DistinctRows
  <2> QED
    BY <2>1, <2>2
<1> QED
  BY <1>2, <1>3, <1>4, <1>5

\* Before it lands, a save that fits the rows adds, updates and removes different rows, and
\* adds none that is stored.
\* What each addition is given, and that no two are given the same.
AddIdsAre(p, first) ==
  /\ DOMAIN p.adds = 1..Len(p.adds) /\ Len(p.adds) \in Nat
  /\ \A n \in DOMAIN p.adds :
       /\ additions[n].row \in Rows /\ Pending(additions[n].row) /\ ~row[additions[n].row].attached
       /\ AddId(p, n, first) = IF kind.identity THEN first + n - 1 ELSE additions[n].row
       /\ ~kind.identity => row[additions[n].row].id = additions[n].row
       /\ kind.identity => row[additions[n].row].id = 0
  /\ \A m, n \in DOMAIN p.adds : AddId(p, m, first) = AddId(p, n, first) => m = n

LEMMA AddIdsGiven ==
  ASSUME Basic, Typed, Shapes, NEW p, FitsAdds(p), NEW first, kind.identity => first \in Nat
  PROVE  AddIdsAre(p, first)
BY AddIdIs DEF AddIdsAre

LEMMA SaveParts ==
  ASSUME Basic, Typed, Shapes, Before, NEW p, FitsAdds(p), FitsUpdates(p), FitsRest(p)
  PROVE  /\ \A i \in AddIds(p, nextId) : i \notin DOMAIN stored /\ i \notin DOMAIN p.updates /\ i \in Ids
         /\ \A r \in Rows : row[r].attached => row[r].id \notin AddIds(p, nextId)
         /\ \A r \in Rows : row[r].attached => (row[r].id \in DOMAIN p.updates <=> Dirty(r))
         /\ \A r \in Rows : row[r].id # 0 => (row[r].id \in DOMAIN p.removes <=> Removed(r))
         /\ \A i \in AddIds(p, nextId) : kind.identity => i \notin DOMAIN p.removes
<1>1. \A r \in Rows : RowShape(r)
  BY DEF Shapes
<1>2. nextId \in Nat
  BY DEF Typed
<1>3. /\ DOMAIN p.adds = 1..Len(p.adds) /\ Len(p.adds) \in Nat
      /\ \A n \in DOMAIN p.adds :
           /\ additions[n].row \in Rows /\ Pending(additions[n].row) /\ ~row[additions[n].row].attached
           /\ AddId(p, n, nextId) = IF kind.identity THEN nextId + n - 1 ELSE additions[n].row
           /\ ~kind.identity => row[additions[n].row].id = additions[n].row
  BY <1>2, AddIdIs
<1>4. \A r \in Rows : row[r].id < nextId /\ row[r].id \in Nat
  BY <1>1, RowIs DEF RowShape, Typed
<1>5. ASSUME NEW r \in Rows, row[r].attached PROVE row[r].id \notin AddIds(p, nextId)
  <2> SUFFICES ASSUME NEW n \in DOMAIN p.adds, row[r].id = AddId(p, n, nextId) PROVE FALSE
    BY DEF AddIds
  <2>1. CASE kind.identity
    BY <1>2, <1>3, <1>4, <2>1
  <2>2. CASE ~kind.identity
    <3> DEFINE q == additions[n].row
    <3>1. q \in Rows /\ row[q].id = row[r].id /\ row[q].id # 0 /\ ~row[q].attached
      BY <1>3, <2>2, RowsAre
    <3>2. q = r
      BY <1>5, <3>1 DEF Shapes, DistinctRows
    <3> QED
      BY <1>5, <3>1, <3>2
  <2> QED
    BY <2>1, <2>2
<1>6. ASSUME NEW r \in Rows, row[r].attached PROVE row[r].id \in DOMAIN p.updates <=> Dirty(r)
  <2>1. row[r].id # 0
    BY <1>1, <1>6 DEF RowShape
  <2> QED
    BY <2>1 DEF FitsUpdates, Shapes, DistinctRows
<1>7. ASSUME NEW r \in Rows, row[r].id # 0 PROVE row[r].id \in DOMAIN p.removes <=> Removed(r)
  <2>1. \A m \in removals : m.row \in Rows
    BY DEF Typed
  <2> QED
    BY <1>7, <2>1 DEF FitsRest, Shapes, DistinctRows, Removed
<1>8. ASSUME NEW i \in AddIds(p, nextId)
      PROVE  i \notin DOMAIN stored /\ i \notin DOMAIN p.updates /\ i \in Ids /\ (kind.identity => i \notin DOMAIN p.removes)
  <2> PICK n \in DOMAIN p.adds : i = AddId(p, n, nextId)
    BY DEF AddIds
  <2>1. i \notin DOMAIN p.updates
    <3> SUFFICES ASSUME i \in DOMAIN p.updates PROVE FALSE
      OBVIOUS
    <3>1. PICK r \in Rows : Dirty(r) /\ row[r].id = i
      BY DEF FitsUpdates
    <3> QED
      BY <1>5, <3>1 DEF Dirty
  <2>2. CASE kind.identity
    <3>1. n \in Nat /\ 1 <= n /\ i = nextId + n - 1
      BY <1>3, <2>2
    <3>2. Cardinality(Rows) < nextId /\ Cardinality(Rows) \in Nat
      BY RowsAre DEF Shapes
    <3>3. i \in Ids /\ \A r \in Rows : row[r].id # i
      BY <1>2, <1>4, <3>1, <3>2 DEF Ids
    <3>4. i \notin DOMAIN p.removes
      BY <3>3 DEF FitsRest, Typed
    <3>5. i \notin DOMAIN stored
      BY <3>3 DEF Before
    <3> QED
      BY <2>1, <3>3, <3>4, <3>5
  <2>3. CASE ~kind.identity
    <3> DEFINE q == additions[n].row
    <3>1. q \in Rows /\ q = i /\ Pending(q) /\ q \notin Exempt
      BY <1>3, <2>3 DEF Shapes
    <3>2. q \notin DOMAIN stored
      BY <2>3, <3>1 DEF Before, RowBefore, PendingBefore
    <3> QED
      BY <2>1, <2>3, <3>1, <3>2, RowsAre DEF Ids
  <2> QED
    BY <2>2, <2>3
<1> QED
  BY <1>5, <1>6, <1>7, <1>8

LEMMA NoKeyClashes ==
  ASSUME Basic, Typed, Shapes, Before, NEW p, FitsAdds(p)
  PROVE  ~Clashes(stored, p)
<1> SUFFICES ASSUME ~kind.identity, NEW n \in DOMAIN p.adds PROVE p.adds[n].key \notin DOMAIN stored
  BY DEF Clashes
<1> DEFINE q == additions[n].row
<1>1. q \in Rows /\ p.adds[n].key = q /\ Pending(q) /\ q \notin Exempt
  BY AddIdIs DEF Shapes
<1> QED
  BY <1>1 DEF Before, RowBefore, PendingBefore

\* Once such a save is stored, the database holds of each row what was asked.
LEMMA WillHold ==
  ASSUME Basic, Typed, Shapes, Before, NEW p, FitsAdds(p), FitsUpdates(p), FitsRest(p)
  PROVE  IsStore(Persisted(stored, p, nextId)) /\ HoldsAsked(Persisted(stored, p, nextId), p, nextId)
<1>1. /\ \A i \in AddIds(p, nextId) : i \notin DOMAIN stored /\ i \notin DOMAIN p.updates /\ i \in Ids
      /\ \A r \in Rows : row[r].attached => row[r].id \notin AddIds(p, nextId)
      /\ \A r \in Rows : row[r].attached => (row[r].id \in DOMAIN p.updates <=> Dirty(r))
      /\ \A r \in Rows : row[r].id # 0 => (row[r].id \in DOMAIN p.removes <=> Removed(r))
      /\ \A i \in AddIds(p, nextId) : kind.identity => i \notin DOMAIN p.removes
  BY SaveParts
<1>2. /\ \A n \in DOMAIN p.adds :
           /\ additions[n].row \in Rows /\ Pending(additions[n].row) /\ ~row[additions[n].row].attached
           /\ p.adds[n].content \in Values /\ p.adds[n].content = row[additions[n].row].held
           /\ AddId(p, n, nextId) = IF kind.identity THEN nextId + n - 1 ELSE additions[n].row
           /\ ~kind.identity => row[additions[n].row].id = additions[n].row
           /\ kind.identity => row[additions[n].row].id = 0
      /\ \A m, n \in DOMAIN p.adds : AddId(p, m, nextId) = AddId(p, n, nextId) => m = n
  BY AddIdIs DEF Typed
<1> PICK new : new = Persisted(stored, p, nextId)
  OBVIOUS
<1>3. /\ SQL => /\ DOMAIN new = AddIds(p, nextId) \cup (DOMAIN stored \ DOMAIN p.removes)
                /\ \A n \in DOMAIN p.adds : new[AddId(p, n, nextId)] = p.adds[n].content
                /\ \A i \in (DOMAIN stored \ DOMAIN p.removes) \ AddIds(p, nextId) :
                     new[i] = IF i \in DOMAIN p.updates THEN p.updates[i] ELSE stored[i]
      /\ ~SQL => /\ DOMAIN new = (DOMAIN p.updates \cup AddIds(p, nextId) \cup DOMAIN stored) \ DOMAIN p.removes
                 /\ \A i \in DOMAIN p.updates \ DOMAIN p.removes : new[i] = p.updates[i]
                 /\ \A n \in DOMAIN p.adds : 
                      LET i == AddId(p, n, nextId)
                      IN  i \notin DOMAIN p.updates \cup DOMAIN p.removes => new[i] = p.adds[n].content
                 /\ \A i \in DOMAIN stored \ (DOMAIN p.updates \cup AddIds(p, nextId) \cup DOMAIN p.removes) :
                      new[i] = stored[i]
  <2>1. Applied(new, stored, p, nextId)
    BY <1>2, PersistedIs
  <2> QED
    BY <2>1 DEF Applied
<1>4. \A i : i \in AddIds(p, nextId) <=> \E n \in DOMAIN p.adds : i = AddId(p, n, nextId)
  BY DEF AddIds
<1>5. \A r \in Rows : RowShape(r)
  BY DEF Shapes
<1>6. ASSUME NEW i \in DOMAIN p.updates PROVE i \in Ids /\ p.updates[i] \in Values
  <2>1. PICK r \in Rows : Dirty(r) /\ row[r].id = i
    BY DEF FitsUpdates
  <2>2. row[r].id # 0 /\ row[r].id \in Nat
    BY <1>5, <2>1, RowIs DEF Dirty, RowShape, Typed
  <2> QED
    BY <2>1, <2>2 DEF FitsUpdates, Ids
<1>7. \A i \in DOMAIN stored : i \in Ids /\ stored[i] \in Values
  BY DEF Typed, IsStore
<1>8. ASSUME NEW i \in DOMAIN new PROVE i \in Ids /\ new[i] \in Values
  <2>1. CASE i \in AddIds(p, nextId)
    <3>1. PICK n \in DOMAIN p.adds : i = AddId(p, n, nextId)
      BY <1>4, <2>1
    <3>2. i \notin DOMAIN p.updates /\ (SQL \/ i \notin DOMAIN p.removes)
      BY <1>1, <1>3, <1>8, <2>1
    <3>3. new[i] = p.adds[n].content
      BY <1>3, <3>1, <3>2
    <3> QED
      BY <1>1, <1>2, <2>1, <3>3
  <2>2. CASE i \notin AddIds(p, nextId)
    BY <1>3, <1>6, <1>7, <1>8, <2>2
  <2> QED
    BY <2>1, <2>2
<1>9. IsStore(new)
  <2>1. new = [i \in DOMAIN new |-> new[i]]
    <3>1. CASE SQL
      BY <3>1 DEF Persisted
    <3>2. CASE ~SQL
      BY <3>2 DEF Persisted
    <3> QED
      BY <3>1, <3>2
  <2> QED
    BY <1>8, <2>1 DEF IsStore
<1>10. ASSUME NEW n \in DOMAIN p.adds PROVE AskedOf(additions[n].row, AddId(p, n, nextId), new)
  <2> DEFINE q == additions[n].row
             a == AddId(p, n, nextId)
  <2>1. /\ q \in Rows /\ Pending(q) /\ ~row[q].attached /\ q \notin Exempt
        /\ a \in AddIds(p, nextId) /\ a \notin DOMAIN p.updates /\ p.adds[n].content = row[q].held
    BY <1>1, <1>2, <1>4 DEF Shapes
  <2>2. PendingBefore(q)
    BY <2>1 DEF Before, RowBefore
  <2>3. ~kind.identity => a = q /\ row[q].id = q /\ (q \in DOMAIN p.removes <=> Removed(q))
    BY <1>1, <1>2, <2>1, RowsAre
  <2>4. CASE wanted[q] # 0
    <3>1. ~Removed(q)
      BY <2>4 DEF Removed, Shapes, RemovalShape
    <3>2. a \notin DOMAIN p.removes
      BY <1>1, <2>1, <2>3, <3>1
    <3>3. a \in DOMAIN new /\ new[a] = p.adds[n].content
      BY <1>3, <2>1, <3>2
    <3> QED
      BY <2>1, <2>2, <2>4, <3>3 DEF PendingBefore, AskedOf
  <2>5. CASE wanted[q] = 0
    <3>1. Removed(q) /\ ~SQL
      BY <2>1, <2>2, <2>5 DEF PendingBefore
    <3>2. ~kind.identity
      BY <1>2, <3>1 DEF Removed, Shapes, RemovalShape
    <3>3. a \in DOMAIN p.removes
      BY <2>3, <3>1, <3>2
    <3> QED
      BY <1>3, <2>5, <3>1, <3>3 DEF AskedOf
  <2> QED
    BY <2>4, <2>5
<1>11. ASSUME NEW r \in Rows \ Exempt, row[r].attached PROVE AskedOf(r, row[r].id, new)
  <2> DEFINE i == row[r].id
  <2>1. /\ RowBefore(r) /\ RowShape(r) /\ i # 0 /\ i \notin AddIds(p, nextId)
        /\ (i \in DOMAIN p.updates <=> Dirty(r)) /\ (i \in DOMAIN p.removes <=> Removed(r))
    BY <1>1, <1>5, <1>11 DEF Before, RowShape
  <2>2. CASE wanted[r] # 0
    <3>1. ~Removed(r)
      BY <2>2 DEF Removed, Shapes, RemovalShape
    <3>2. /\ i \in DOMAIN stored /\ Current(r) = wanted[r]
          /\ ~Dirty(r) => row[r].held = stored[i]
      BY <1>11, <2>1, <2>2 DEF RowBefore, KnownBefore
    <3>3. Dirty(r) => p.updates[i] = Current(r)
      BY <1>11 DEF FitsUpdates
    <3>4. ~Dirty(r) => Current(r) = row[r].held
      <4>1. Tracking \in {"proxy", "diff", "immutable"}
        BY KindIs DEF Basic, Tracking
      <4> QED
        BY <1>11, <2>1, <4>1 DEF Dirty, Current, RowShape
    <3>5. i \in DOMAIN new /\ new[i] = IF Dirty(r) THEN p.updates[i] ELSE stored[i]
      BY <1>3, <2>1, <3>1, <3>2
    <3> QED
      BY <2>2, <3>2, <3>3, <3>4, <3>5 DEF AskedOf
  <2>3. CASE wanted[r] = 0 /\ Removed(r)
    BY <1>3, <2>1, <2>3 DEF AskedOf
  <2>4. CASE wanted[r] = 0 /\ ~Removed(r)
    <3>1. i \notin DOMAIN stored /\ ~Dirty(r)
      BY <1>11, <2>1, <2>4 DEF RowBefore, GoneBefore
    <3> QED
      BY <1>3, <2>1, <2>4, <3>1 DEF AskedOf
  <2> QED
    BY <2>2, <2>3, <2>4
<1>12. DOMAIN new \subseteq {row[r].id : r \in Rows} \cup {AddId(p, n, nextId) : n \in DOMAIN p.adds}
  BY <1>3 DEF AddIds, Before, FitsUpdates
<1> QED
  BY <1>9, <1>10, <1>11, <1>12 DEF HoldsAsked, FitsAdds

-----------------------------------------------------------------------------
(* A save is prepared and sent.                                             *)

LEMMA PreparedFits ==
  ASSUME Basic, Typed, Shapes
  PROVE  FitsAdds(Prepared) /\ FitsUpdates(Prepared) /\ FitsRest(Prepared)
<1> DEFINE updates == {r \in Rows : Dirty(r)}
           updated(i) == CHOOSE r \in updates : row[r].id = i
           ids == {row[r].id : r \in updates}
           removed(i) == CHOOSE m \in removals : row[m.row].id = i
           add(n) == [key |-> Key(additions[n].row), content |-> row[additions[n].row].held]
<1> PICK p : p = Prepared
  OBVIOUS
<1>1. /\ p.adds = [n \in DOMAIN additions |-> add(n)]
      /\ p.updates = [i \in ids |-> Current(updated(i))]
      /\ p.previous = [i \in ids |-> Previous(updated(i))]
      /\ p.removes = [i \in {row[m.row].id : m \in removals} |->
                        IF removed(i).as # 0 THEN removed(i).as ELSE row[removed(i).row].held]
  BY DEF Prepared
<1>2. \A r \in Rows : RowShape(r)
  BY DEF Shapes
<1>3. ASSUME NEW n \in DOMAIN additions
      PROVE  /\ add(n) \in [key : Nat, content : Values]
             /\ add(n).key = Key(additions[n].row) /\ add(n).content = row[additions[n].row].held
  <2> DEFINE q == additions[n].row
  <2>1. q \in Rows /\ q \in Nat
    BY AdditionIs, RowsAre
  <2>2. Pending(q)
    BY DEF Pending
  <2>3. row[q].held # 0 /\ row[q].held \in ValuesOrNone
    BY <1>2, <2>1, <2>2, RowIs DEF RowShape, Typed
  <2>4. row[q].held \in Values /\ row[q].held \in Nat
    BY <2>3, BoundAssumption DEF Values, ValuesOrNone
  <2>5. Key(q) \in Nat
    BY <2>1, <2>4 DEF Key
  <2> QED
    BY <2>4, <2>5
<1>4. FitsAdds(p)
  <2> DEFINE S == [key : Nat, content : Values]
  <2>1. DOMAIN additions = 1..Len(additions) /\ Len(additions) \in Nat
    BY AdditionIs
  <2> HIDE DEF add
  <2>2. p.adds \in [1..Len(additions) -> S]
    BY <1>1, <1>3, <2>1
  <2>3. p.adds \in Seq(S)
    <3> HIDE DEF S
    <3> QED
      BY <2>1, <2>2
  <2>4. DOMAIN p.adds = DOMAIN additions /\ \A n \in DOMAIN additions : p.adds[n] = add(n)
    BY <1>1
  <2> QED
    BY <1>3, <2>3, <2>4 DEF FitsAdds
<1>5. ASSUME NEW r \in updates PROVE updated(row[r].id) = r
  <2>1. row[r].id # 0
    BY <1>2 DEF Dirty, RowShape
  <2>2. \A q \in updates : row[q].id = row[r].id => q = r
    BY <2>1 DEF Shapes, DistinctRows
  <2> HIDE DEF updates
  <2> QED
    BY <2>2
<1>6. FitsUpdates(p)
  <2>1. DOMAIN p.updates = ids
    BY <1>1
  <2>2. ASSUME NEW r \in updates PROVE p.updates[row[r].id] = Current(r) /\ Current(r) \in Values
    <3>1. p.updates[row[r].id] = Current(r)
      <4> HIDE DEF updates, updated
      <4> QED
        BY <1>1, <1>5
    <3>2. row[r].attached /\ r \in Rows /\ row[r].held # 0 /\ row[r].held \in ValuesOrNone /\ row[r].patch \in ValuesOrNone
      BY <1>2, RowIs DEF Dirty, RowShape, Typed
    <3> QED
      BY <3>1, <3>2, BoundAssumption DEF Current, Values, ValuesOrNone
  <2>3. \A i \in DOMAIN p.updates : p.updates[i] \in Values
    <3> HIDE DEF updates
    <3> QED
      BY <2>1, <2>2
  <2> QED
    BY <2>1, <2>2, <2>3 DEF FitsUpdates
<1>7. ASSUME NEW m \in removals PROVE p.removes[row[m.row].id] = RemovedAs(m)
  <2>1. m.row \in Rows /\ row[m.row].id # 0 /\ \A k \in removals : k.row \in Rows
    BY DEF Shapes, RemovalShape, Typed
  <2>2. \A k \in removals : row[k.row].id = row[m.row].id => k = m
    BY <2>1 DEF Shapes, DistinctRows
  <2>3. removed(row[m.row].id) = m
    BY <2>2
  <2> HIDE DEF removed
  <2> QED
    BY <1>1, <2>3 DEF RemovedAs
<1>8. FitsRest(p)
  <2>1. \A r \in updates : p.previous[row[r].id] = row[r].base
    <3> HIDE DEF updates, updated
    <3> QED
      BY <1>1, <1>5 DEF Previous
  <2>2. DOMAIN p.previous = DOMAIN p.updates /\ DOMAIN p.removes = {row[m.row].id : m \in removals}
    BY <1>1
  <2> QED
    BY <1>7, <2>1, <2>2 DEF FitsRest
<1> QED
  BY <1>4, <1>6, <1>8

LEMMA SaveKeeps ==
  ASSUME Basic, ~disturbed => Tracked, ~crashed, SaveAll, ~disturbed'
  PROVE  Tracked'
<1>1. Tracked /\ Quiet
  BY CallIs DEF SaveAll, SaveChanges, Basic
<1> PICK p : p = Prepared
  OBVIOUS
<1>2. /\ saves' = Append(saves, [changes |-> p, state |-> "sent", first |-> 0, follow |-> {}])
      /\ additions' = Reindexed
      /\ UNCHANGED <<kind, stored, nextId, row, removals, reads, wanted, excused, outdated, crashed>>
      /\ indexedAdds' = IF kind.indexed /\ ~kind.identity THEN {a.key : a \in ToSet(p.adds)} ELSE {}
  BY DEF SaveAll, SaveChanges
<1>3. Typed /\ Shapes /\ DistinctRows /\ Before
  BY <1>1 DEF Tracked, Shapes, Landed
<1>4. FitsAdds(p) /\ FitsUpdates(p) /\ FitsRest(p)
  BY <1>3, PreparedFits
<1>5. /\ Len(saves') = 1 /\ Out.changes' = p /\ Out.state' = "sent" /\ ~Quiet' /\ ~Landed'
  <2>1. Len(saves) = 0
    BY <1>1, SavesAre DEF Basic
  <2>2. Len(saves') = 1 /\ saves'[1].changes = p /\ saves'[1].state = "sent"
    BY <1>2, <2>1, SavesGrow DEF Basic
  <2>3. ~Quiet'
    BY <2>2 DEF Quiet
  <2> QED
    BY <2>2, <2>3 DEF Out, Landed
<1>6. /\ DOMAIN additions' = DOMAIN additions
      /\ \A n \in DOMAIN additions :
           /\ additions'[n].row = additions[n].row /\ additions'[n].key = Key(additions[n].row)
           /\ additions'[n] \in [row : Rows, key : Nat]
  <2>1. ASSUME NEW n \in DOMAIN additions
        PROVE  /\ additions'[n].row = additions[n].row /\ additions'[n].key = Key(additions[n].row)
               /\ additions'[n] \in [row : Rows, key : Nat]
    <3>1. additions[n] \in [row : Rows, key : Nat] /\ additions[n].row \in Rows
      BY <1>3, AdditionIs
    <3>2. additions'[n] = [additions[n] EXCEPT !.key = Key(additions[n].row)]
      BY <1>2 DEF Reindexed
    <3>3. row[additions[n].row].held \in Nat
      BY <1>3, <3>1, RowIs, BoundAssumption DEF Typed, ValuesOrNone
    <3>4. Key(additions[n].row) \in Nat
      BY <3>1, <3>3, RowsAre DEF Key
    <3> QED
      BY <3>1, <3>2, <3>4
  <2> QED
    BY <1>2, <2>1 DEF Reindexed
<1>7. additions' \in Seq([row : Rows, key : Nat])
  <2> DEFINE S == [row : Rows, key : Nat]
  <2>1. DOMAIN additions = 1..Len(additions) /\ Len(additions) \in Nat
    BY <1>3, AdditionIs
  <2>2. additions' \in [1..Len(additions) -> S]
    <3>1. additions' = [n \in DOMAIN additions |-> additions'[n]]
      BY <1>2 DEF Reindexed
    <3> QED
      BY <1>6, <2>1, <3>1
  <2>3. additions' \in Seq(S)
    <3> HIDE DEF S
    <3> QED
      BY <2>1, <2>2
  <2> QED
    BY <2>3
<1>8. \A q : Held(q)
  BY <1>2, <1>6 DEF Held, Pending
<1>9. Typed'
  BY <1>2, <1>3, <1>7 DEF Typed, Exempt, IsStore
<1>10. Shapes'
  <2>1. \A r \in Rows : RowShape(r)'
    BY <1>2, <1>3, <1>8, ShapeHeld DEF Shapes
  <2>2. \A m \in removals' : RemovalShape(m)'
    BY <1>2, <1>3, <1>8, RemovalHeld DEF Shapes
  <2>3. DistinctRows'
    BY <1>2, <1>3, <1>6 DEF DistinctRows
  <2> QED
    BY <1>2, <1>3, <2>1, <2>2, <2>3 DEF Shapes, Exempt
<1>11. Before'
  BY <1>2, <1>3, <1>8, BeforeHeld DEF Before, Exempt
<1>12. \A q : Key(q)' = Key(q) /\ Current(q)' = Current(q) /\ (Dirty(q)' <=> Dirty(q))
  BY <1>2 DEF Key, Current, Dirty, Tracking
<1>13. FitsAdds(p)' /\ Reindexes'
  BY <1>2, <1>4, <1>6, <1>12 DEF FitsAdds, Reindexes
<1>14. FitsUpdates(p)' /\ FitsRest(p)'
  <2>1. Exempt' = Exempt /\ row' = row /\ removals' = removals
    BY <1>2 DEF Exempt
  <2>2. FitsUpdates(p)'
    BY <1>4, <1>12, <2>1 DEF FitsUpdates
  <2>3. FitsRest(p)'
    BY <1>4, <1>12, <2>1 DEF FitsRest, RemovedAs
  <2> QED
    BY <2>2, <2>3
<1>15. Underway'
  BY <1>2, <1>5, <1>13, <1>14 DEF Underway
<1> QED
  BY <1>2, <1>5, <1>9, <1>10, <1>11, <1>15 DEF Tracked

\* The save that is out, when nothing is disturbed, is the only one.
LEMMA OneOut ==
  ASSUME Basic, Tracked, NEW i \in DOMAIN saves
  PROVE  i = 1 /\ Len(saves) = 1 /\ ~Quiet /\ Underway /\ ~crashed
<1>1. Len(saves) \in Nat /\ i \in 1..Len(saves) /\ (Quiet <=> Len(saves) = 0) /\ Len(saves) <= 1
  BY SavesAre DEF Basic, Tracked
<1>2. i = 1 /\ Len(saves) = 1
  <2> DEFINE l == Len(saves)
  <2>1. l \in Nat /\ i \in 1..l /\ l <= 1
    BY <1>1
  <2> HIDE DEF l
  <2>2. i = 1 /\ l = 1
    BY <2>1
  <2> QED
    BY <2>2 DEF l
<1> QED
  BY <1>1, <1>2 DEF Tracked

LEMMA NoneOut ==
  ASSUME Basic, Tracked, NEW i \in DOMAIN saves, saves' = RemoveAt(saves, i)
  PROVE  Quiet' /\ Len(saves') = 0
<1>1. Len(saves') = 0 /\ SavesShaped'
  <2>1. Len(saves) = 1 /\ Len(saves') = Len(saves) - 1 /\ SavesShaped'
    BY OneOut, SavesShrink DEF Basic
  <2> QED
    BY <2>1
<1>2. PICK C, N, F : saves' \in SavesIn(C, N, F)
  BY <1>1 DEF SavesShaped, SavesIn
<1>3. saves' = <<>>
  BY <1>1, <1>2, EmptySeq DEF SavesIn
<1> QED
  BY <1>3 DEF Quiet

LEMMA RefuseKeeps ==
  ASSUME Basic, Tracked, NEW i \in DOMAIN saves, RefuseAll(i)
  PROVE  Tracked'
<1>1. /\ RowsAlone /\ reads' = reads /\ saves' = RemoveAt(saves, i) /\ crashed' = crashed /\ saves[i].state = "sent"
  BY DEF RefuseAll, RefuseSave, RowsAlone, indexVars
<1>2. Quiet' /\ Len(saves') = 0 /\ ~crashed /\ Out.state = "sent"
  BY <1>1, OneOut, NoneOut DEF Out
<1>3. Before /\ Typed /\ Shapes
  BY <1>2 DEF Tracked, Landed
<1>4. Typed' /\ Shapes' /\ Before'
  BY <1>1, <1>3, TypedAlone, ShapesAlone, BeforeAlone DEF Typed
<1> QED
  BY <1>1, <1>2, <1>4 DEF Tracked

-----------------------------------------------------------------------------
(* A save is stored.                                                        *)

LEMMA StoreKeeps ==
  ASSUME Basic, Tracked, NEW i \in DOMAIN saves, StoreAll(i)
  PROVE  Tracked'
<1>1. i = 1 /\ Len(saves) = 1 /\ ~Quiet /\ Underway /\ ~crashed
  BY OneOut
<1> PICK p, first : p = Out.changes /\ first = nextId
  OBVIOUS
<1>2. /\ Out.state = "sent" /\ stored' = Persisted(stored, p, first)
      /\ nextId' = first + IF kind.identity THEN Len(p.adds) ELSE 0
      /\ UNCHANGED <<kind, row, additions, removals, reads, wanted, excused, outdated, indexedAdds, crashed>>
  <2>1. saves[1].state = "sent" /\ stored' = Persisted(stored, p, first)
    BY <1>1 DEF StoreAll, Store, Out
  <2>2. nextId' = first + IF kind.identity THEN Len(p.adds) ELSE 0
    BY <1>1 DEF StoreAll, Store, Out
  <2>4. UNCHANGED <<kind, row, additions, removals, reads, wanted, excused, outdated, indexedAdds, crashed>>
    BY DEF StoreAll, Store
  <2> QED
    BY <2>1, <2>2, <2>4 DEF Out
<1>22. saves' = [saves EXCEPT ![i].state = "stored", ![i].first = nextId]
  <2>1. Store(i)
    BY DEF StoreAll
  <2> QED
    BY <2>1, Zenon DEF Store
<1>3. Typed /\ Shapes /\ DistinctRows /\ Before /\ ~Landed
  BY <1>1, <1>2 DEF Tracked, Shapes, Landed
<1>4. FitsAdds(p) /\ FitsUpdates(p) /\ FitsRest(p) /\ Reindexes
  BY <1>1, <1>3 DEF Underway
<1>5. /\ Len(saves') = 1 /\ ~Quiet' /\ Out.changes' = p /\ Out.state' = "stored" /\ Out.first' = first /\ Landed'
  <2>1. Len(saves') = 1 /\ saves'[1].changes = p /\ saves'[1].state = "stored" /\ saves'[1].first = first
    <3>1. SavesShaped
      BY DEF Basic
    <3>2. /\ Len(saves') = Len(saves) /\ saves'[i].changes = saves[i].changes
          /\ saves'[i].state = "stored" /\ saves'[i].first = nextId
      BY <1>22, <3>1, SavesStore
    <3>3. /\ Len(saves') = Len(saves) /\ saves'[1].changes = saves[1].changes
          /\ saves'[1].state = "stored" /\ saves'[1].first = nextId
      BY <1>1, <3>2
    <3>4. saves[1].changes = p /\ first = nextId
      BY DEF Out
    <3> QED
      BY <1>1, <3>3, <3>4
  <2>2. ~Quiet'
    BY <2>1, EmptySeq DEF Quiet
  <2> QED
    BY <2>1, <2>2 DEF Out, Landed
<1>6. Len(p.adds) \in Nat /\ first \in Nat
  BY <1>3, <1>4, AdditionIs, AddIdIs DEF Typed
<1>7. nextId' \in Nat /\ first <= nextId' /\ (kind.identity => nextId' = first + Len(p.adds))
  BY <1>2, <1>6
<1>8. IsStore(stored') /\ HoldsAsked(stored', p, first)
  BY <1>2, <1>3, <1>4, WillHold
<1>9. Typed'
  BY <1>2, <1>3, <1>7, <1>8 DEF Typed, Exempt, IsStore
<1>10. \A q : (Pending(q)' <=> Pending(q)) /\ (Dirty(q)' <=> Dirty(q)) /\ Current(q)' = Current(q) /\ Key(q)' = Key(q)
  BY <1>2 DEF Pending, Dirty, Tracking, Current, Key
<1>11. Exempt' = Exempt /\ Tracking' = Tracking /\ (SQL' <=> SQL)
  BY <1>2 DEF Exempt, Tracking, SQL
<1>12. ASSUME NEW r \in Rows PROVE RowShape(r)' /\ row[r].id < first /\ row[r].id < nextId'
  <2>1. RowShape(r) /\ row[r].id < first /\ row[r].id \in Nat
    BY <1>3, RowIs DEF Shapes, RowShape, Typed
  <2>2. row[r].id < nextId'
    BY <1>6, <1>7, <2>1
  <2> QED
    BY <1>2, <1>10, <1>11, <2>1, <2>2 DEF RowShape
<1>13. Cardinality(Rows) < first /\ Cardinality(Rows) < nextId'
  BY <1>3, <1>6, <1>7, RowsAre DEF Shapes
<1>14. Shapes'
  <2>1. \A m \in removals' : RemovalShape(m)'
    BY <1>2, <1>3, <1>10, <1>11 DEF Shapes, RemovalShape
  <2>2. DistinctRows'
    BY <1>2, <1>3 DEF DistinctRows
  <2> QED
    BY <1>2, <1>3, <1>11, <1>12, <1>13, <2>1, <2>2 DEF Shapes
<1>15. FitsAdds(p)' /\ FitsUpdates(p)' /\ Reindexes'
  BY <1>2, <1>4, <1>10, <1>11 DEF FitsAdds, FitsUpdates, Reindexes
<1>16. HoldsAsked(stored, p, first)'
  <2>1. \A n : AddId(p, n, first)' = AddId(p, n, first)
    BY <1>2 DEF AddId
  <2> QED
    BY <1>2, <1>8, <1>11, <2>1 DEF HoldsAsked, AskedOf
<1>17. ShowsAsked'
  <2>1. ASSUME NEW r \in Rows \ Exempt
        PROVE  /\ row[r].attached /\ wanted[r] # 0 => Current(r) = wanted[r]
               /\ Pending(r) /\ wanted[r] # 0 => row[r].held = wanted[r]
    BY <1>3 DEF Before, RowBefore, KnownBefore, PendingBefore
  <2>2. ASSUME NEW r \in Rows \ Exempt, Pending(r), kind.identity
        PROVE  wanted[r] # 0
    <3>1. row[r].id = 0 /\ \A m \in removals : row[m.row].id # 0
      BY <1>3, <2>2 DEF Shapes, RowShape, RemovalShape
    <3>2. wanted[r] = 0 => Removed(r)
      BY <1>3, <2>2 DEF Before, RowBefore, PendingBefore
    <3> QED
      BY <3>1, <3>2 DEF Removed
  <2> QED
    BY <1>2, <1>10, <1>11, <2>1, <2>2 DEF ShowsAsked
<1>18. FreshIds(p, first)'
  BY <1>2, <1>6, <1>7, <1>12, <1>13 DEF FreshIds
<1>19. kind.indexed' /\ ~kind.identity' => indexedAdds' = {a.key : a \in ToSet(p.adds)}
  BY <1>1, <1>2 DEF Underway
<1>20. AfterLanding'
  BY <1>5, <1>16, <1>17, <1>18 DEF AfterLanding
<1>21. Underway'
  BY <1>5, <1>15, <1>19, <1>20 DEF Underway
<1> QED
  BY <1>1, <1>2, <1>5, <1>9, <1>14, <1>21 DEF Tracked

\* The index is about to be written of a save that is stored.
LEMMA IndexingKeeps ==
  ASSUME Basic, Tracked, NEW i \in DOMAIN saves, saves[i].state = "stored",
         RowsAlone, reads' = reads, indexedAdds' = indexedAdds, crashed' = crashed,
         saves' = [saves EXCEPT ![i].state = "indexing", ![i].follow = DeferredRows(i)]
  PROVE  Tracked'
<1>1. i = 1 /\ Len(saves) = 1 /\ ~Quiet /\ Underway /\ ~crashed /\ Landed
  BY OneOut DEF Landed, Out
<1> PICK f : f = DeferredRows(1)
  OBVIOUS
<1>2. saves' = [saves EXCEPT ![1].state = "indexing", ![1].follow = f]
  BY <1>1
<1>3. /\ Len(saves') = 1 /\ saves'[1].changes = saves[1].changes /\ saves'[1].state = "indexing"
      /\ saves'[1].first = saves[1].first /\ saves'[1].follow = f
  BY <1>1, <1>2, SavesIndex DEF Basic
<1>4. ~Quiet'
  BY <1>3 DEF Quiet
<1>5. DeferredRows(1)' = f
  <2> PICK p, first : p = saves[1].changes /\ first = saves[1].first
    OBVIOUS
  <2>1. saves'[1].changes = p /\ saves'[1].first = first /\ kind' = kind /\ indexedAdds' = indexedAdds
    BY <1>3 DEF RowsAlone
  <2>2. \A n : AddId(p, n, first)' = AddId(p, n, first)
    BY <2>1 DEF AddId
  <2> DEFINE fresh == {n \in DOMAIN p.adds : AddId(p, n, first) \notin indexedAdds}
             rows == IF kind.indexed THEN {<<p.adds[n].content, AddId(p, n, first)>> : n \in fresh} ELSE {}
  <2>3. DeferredRows(1) = rows
    BY DEF DeferredRows
  <2>4. DeferredRows(1)' = rows
    <3> PICK q, a : q = saves'[1].changes /\ a = saves'[1].first
      OBVIOUS
    <3>1. DeferredRows(1)' = IF kind'.indexed
                               THEN {<<q.adds[n].content, AddId(q, n, a)'>> :
                                       n \in {n \in DOMAIN q.adds : AddId(q, n, a)' \notin indexedAdds'}}
                               ELSE {}
      BY DEF DeferredRows
    <3>2. q = p /\ a = first
      BY <2>1
    <3>3. {n \in DOMAIN p.adds : AddId(p, n, first)' \notin indexedAdds'} = fresh
      BY <2>1, <2>2
    <3>4. {<<p.adds[n].content, AddId(p, n, first)'>> : n \in fresh}
            = {<<p.adds[n].content, AddId(p, n, first)>> : n \in fresh}
      BY <2>2
    <3> HIDE DEF fresh
    <3>5. kind.indexed => DeferredRows(1)' = {<<p.adds[n].content, AddId(p, n, first)'>> : n \in fresh}
      BY <2>1, <3>1, <3>2, <3>3
    <3>6. ~kind.indexed => DeferredRows(1)' = {}
      BY <2>1, <3>1
    <3> QED
      BY <3>4, <3>5, <3>6
  <2> QED
    BY <2>3, <2>4
<1>6. Underway'
  BY <1>1, <1>3, <1>4, <1>5, UnderwayAlone DEF Landed, Out
<1>7. Typed' /\ Shapes'
  BY TypedAlone, ShapesAlone DEF Tracked, Typed
<1> QED
  BY <1>1, <1>3, <1>4, <1>6, <1>7 DEF Tracked, Landed, Out

-----------------------------------------------------------------------------
(* The answer of a save is merged.                                          *)

\* Strictly fewer of a set's members lie in a shorter prefix.
LEMMA FewerBefore ==
  ASSUME NEW m \in Nat, NEW n \in Nat, m < n, NEW S, n \in S
  PROVE  Cardinality((1..m) \cap S) # Cardinality((1..n) \cap S)
<1> DEFINE A == (1..m) \cap S
           B == (1..n) \cap S
<1>0. n \in 1..n /\ n \notin 1..m /\ \A k \in 1..m : k \in 1..n
  OBVIOUS
<1>1. A \subseteq B /\ n \in B /\ n \notin A
  BY <1>0
<1>2. B \subseteq 1..n /\ IsFiniteSet(1..n)
  BY FS_Interval
<1>3. IsFiniteSet(B)
  BY <1>2, FS_Subset
<1> HIDE DEF A, B
<1>4. Cardinality(A) = Cardinality(B) => A = B
  BY <1>1, <1>3, FS_Subset
<1> QED
  BY <1>1, <1>4 DEF A, B

\* Each added row of the answer takes the addition it came from.
LEMMA TakenIs ==
  ASSUME Typed, NEW p, FitsAdds(p), Reindexes, NEW n \in DOMAIN p.adds
  PROVE  Taken(p, n) = {n}
<1>1. /\ DOMAIN additions = 1..Len(additions) /\ Len(additions) \in Nat /\ DOMAIN p.adds = DOMAIN additions
      /\ \A k \in DOMAIN additions : additions[k].key = p.adds[k].key
  BY AdditionIs DEF FitsAdds, Reindexes
<1> DEFINE key == p.adds[n].key
           S == {k \in DOMAIN additions : additions[k].key = key}
<1>2. n \in S
  BY <1>1
<1>3. ASSUME NEW m \in DOMAIN additions
      PROVE  /\ {k \in 1..m : additions[k].key = key} = (1..m) \cap S
             /\ {k \in 1..m : p.adds[k].key = key} = (1..m) \cap S
  <2>1. \A k \in 1..m : k \in DOMAIN additions
    BY <1>1
  <2> QED
    BY <1>1, <2>1
<1>4. Taken(p, n) = {m \in S : Cardinality((1..m) \cap S) = Cardinality((1..n) \cap S)}
  <2>1. Taken(p, n) = {m \in DOMAIN additions :
                         /\ additions[m].key = key
                         /\ Cardinality({k \in 1..m : additions[k].key = key})
                              = Cardinality({k \in 1..n : p.adds[k].key = key})}
    BY DEF Taken
  <2> HIDE DEF key
  <2>2. n \in DOMAIN additions
    BY <1>1
  <2> QED
    BY <1>3, <2>1, <2>2
<1>5. \A m \in S : m \in Nat
  BY <1>1
<1> HIDE DEF S
<1>6. ASSUME NEW m \in S, Cardinality((1..m) \cap S) = Cardinality((1..n) \cap S) PROVE m = n
  <2>1. m \in Nat /\ n \in Nat
    BY <1>2, <1>5
  <2>2. ~(m < n)
    BY <1>2, <1>6, <2>1, FewerBefore
  <2>3. ~(n < m)
    BY <1>6, <2>1, FewerBefore
  <2> QED
    BY <2>1, <2>2, <2>3
<1> QED
  BY <1>2, <1>4, <1>6

\* So none is lost, and a row is taken by its addition.
LEMMA TakenByIs ==
  ASSUME Typed, NEW p, FitsAdds(p), Reindexes
  PROVE  /\ Lost(p) = {}
         /\ \A r : TakenBy(p, r) = {n \in DOMAIN additions : additions[n].row = r}
         /\ \A r : TakenBy(p, r) # {} <=> Pending(r)
<1>1. DOMAIN p.adds = DOMAIN additions /\ DOMAIN additions = 1..Len(additions) /\ Len(additions) \in Nat
  BY AdditionIs DEF FitsAdds
<1>2. Lost(p) = {}
  BY TakenIs DEF Lost
<1>3. Matched(p) = DOMAIN additions
  BY <1>1, <1>2 DEF Matched
<1>4. \A r : TakenBy(p, r) = {n \in DOMAIN additions : additions[n].row = r}
  BY <1>1, <1>3, TakenIs DEF TakenBy
<1> QED
  BY <1>2, <1>4 DEF Pending

\* What the merge makes of a row.
Settles(t, r, p, first) ==
  LET s == row[r]
  IN  /\ t \in RowState
      /\ \A n \in DOMAIN additions : additions[n].row = r =>
           /\ t.held = s.held /\ t.id = AddId(p, n, first) /\ t.patch = 0 /\ t.slot = "saved" /\ t.attached
           /\ t.base = IF Tracking = "diff" THEN s.held ELSE IF Tracking = "immutable" THEN 0 ELSE s.base
      /\ ~Pending(r) /\ Dirty(r) =>
           /\ t.held = p.updates[s.id] /\ t.id = s.id /\ t.patch = 0 /\ t.slot = s.slot /\ t.attached
           /\ t.base = IF Tracking = "diff" THEN t.held ELSE 0
      /\ ~Pending(r) /\ ~Dirty(r) => t = s

LEMMA MergedIs ==
  ASSUME Basic, Typed, Shapes, NEW p, FitsAdds(p), FitsUpdates(p), Reindexes,
         NEW first, kind.identity => first \in Nat, NEW r \in Rows
  PROVE  Settles(Cleared(Merged(p, first))[r], r, p, first)
<1> DEFINE s == row[r]
<1> PICK u : u = Merged(p, first)[r]
  OBVIOUS
<1> PICK t : t = Cleared(Merged(p, first))[r]
  OBVIOUS
<1>1. /\ s \in RowState /\ RowShape(r) /\ Tracking \in {"proxy", "diff", "immutable"}
      /\ 0 \in ValuesOrNone /\ \A v \in Values : v \in ValuesOrNone
  BY KindIs, BoundAssumption DEF Typed, Shapes, Basic, Tracking, Values, ValuesOrNone
<1>2. t = [u EXCEPT !.patch = 0, !.base = IF Tracking = "immutable" THEN 0 ELSE u.base,
                    !.slot = IF u.slot = "pending" THEN "discarded" ELSE u.slot]
  <2> PICK rows : rows = Merged(p, first)
    OBVIOUS
  <2>1. t = Cleared(rows)[r] /\ u = rows[r]
    OBVIOUS
  <2> QED
    BY <2>1 DEF Cleared
<1>3. u \in RowState =>
        /\ t \in RowState /\ t.held = u.held /\ t.id = u.id /\ t.attached = u.attached /\ t.patch = 0
        /\ t.base = (IF Tracking = "immutable" THEN 0 ELSE u.base)
        /\ t.slot = IF u.slot = "pending" THEN "discarded" ELSE u.slot
  <2> SUFFICES ASSUME u \in RowState
               PROVE  /\ t \in RowState /\ t.held = u.held /\ t.id = u.id /\ t.attached = u.attached /\ t.patch = 0
                      /\ t.base = (IF Tracking = "immutable" THEN 0 ELSE u.base)
                      /\ t.slot = IF u.slot = "pending" THEN "discarded" ELSE u.slot
    OBVIOUS
  <2> DEFINE b == IF Tracking = "immutable" THEN 0 ELSE u.base
             l == IF u.slot = "pending" THEN "discarded" ELSE u.slot
  <2>1. b \in ValuesOrNone /\ l \in {"none", "pending", "saved", "discarded"}
    BY <1>1 DEF RowState
  <2> HIDE DEF b, l
  <2>2. t = [u EXCEPT !.patch = 0, !.base = b, !.slot = l]
    BY <1>2 DEF b, l
  <2>3. t \in RowState /\ t.held = u.held /\ t.id = u.id /\ t.attached = u.attached /\ t.patch = 0 /\ t.base = b /\ t.slot = l
    BY <1>1, <2>1, <2>2 DEF RowState
  <2> QED
    BY <2>3 DEF b, l
<1>4. /\ TakenBy(p, r) = {n \in DOMAIN additions : additions[n].row = r}
      /\ TakenBy(p, r) # {} <=> Pending(r)
      /\ DOMAIN p.adds = DOMAIN additions
  BY TakenByIs DEF FitsAdds
<1>5. u = IF TakenBy(p, r) # {}
            THEN LET n == CHOOSE n \in TakenBy(p, r) : TRUE
                 IN  MergedAdd(s, p.adds[n].content, AddId(p, n, first))
          ELSE IF s.attached /\ s.id \in DOMAIN p.updates
            THEN MergedUpdate(s, p.updates[s.id])
          ELSE s
  BY DEF Merged
<1>6. ASSUME NEW n \in DOMAIN additions, additions[n].row = r
      PROVE  /\ u = MergedAdd(s, s.held, AddId(p, n, first))
             /\ AddId(p, n, first) \in Nat /\ Pending(r)
  <2>1. TakenBy(p, r) = {n}
    BY <1>4, <1>6 DEF Shapes, DistinctRows
  <2>2. (CHOOSE k \in TakenBy(p, r) : TRUE) = n
    BY <2>1
  <2>3. p.adds[n].content = s.held
    BY <1>6 DEF FitsAdds
  <2>4. AddId(p, n, first) \in Nat
    <3>1. AddIdsAre(p, first)
      BY AddIdsGiven
    <3>2. /\ n \in 1..Len(p.adds) /\ Len(p.adds) \in Nat
          /\ AddId(p, n, first) = IF kind.identity THEN first + n - 1 ELSE r
      BY <1>4, <1>6, <3>1 DEF AddIdsAre
    <3>3. r \in Nat
      BY RowsAre
    <3>4. kind.identity => first + n - 1 \in Nat
      BY <3>2
    <3> QED
      BY <3>2, <3>3, <3>4
  <2> QED
    BY <1>5, <1>6, <2>1, <2>2, <2>3, <2>4 DEF Pending
<1>7. ASSUME NEW n \in DOMAIN additions, additions[n].row = r
      PROVE  /\ u \in RowState /\ u.held = s.held /\ u.id = AddId(p, n, first) /\ u.slot = "saved" /\ u.attached = TRUE
             /\ u.base = IF Tracking = "diff" THEN s.held ELSE s.base
  <2> DEFINE b == IF Tracking = "diff" THEN s.held ELSE s.base
             a == AddId(p, n, first)
  <2>1. b \in ValuesOrNone /\ s.held \in ValuesOrNone /\ a \in Nat
    BY <1>1, <1>6, <1>7 DEF RowState
  <2>2. u = [s EXCEPT !.held = s.held, !.id = a, !.slot = "saved", !.attached = TRUE, !.base = b]
    BY <1>6, <1>7 DEF MergedAdd
  <2> HIDE DEF a, b
  <2>3. u \in RowState /\ u.held = s.held /\ u.id = a /\ u.slot = "saved" /\ u.attached = TRUE /\ u.base = b
    BY <1>1, <2>1, <2>2 DEF RowState
  <2> QED
    BY <2>3 DEF a, b
<1>8. ASSUME ~Pending(r), Dirty(r)
      PROVE  /\ u \in RowState /\ u.held = p.updates[s.id] /\ u.id = s.id /\ u.slot = s.slot /\ u.attached = TRUE
             /\ u.base = IF Tracking = "diff" THEN u.held ELSE 0
  <2> PICK v : v = p.updates[s.id]
    OBVIOUS
  <2>1. s.id \in DOMAIN p.updates /\ s.attached /\ v \in Values
    BY <1>8 DEF FitsUpdates, Dirty
  <2>2. u = MergedUpdate(s, v)
    BY <1>4, <1>5, <1>8, <2>1
  <2> DEFINE b == IF Tracking = "diff" THEN v ELSE 0
  <2>3. u = [s EXCEPT !.held = v, !.base = b] /\ b \in ValuesOrNone /\ v \in ValuesOrNone
    BY <1>1, <2>1, <2>2 DEF MergedUpdate
  <2> HIDE DEF b
  <2>4. u \in RowState /\ u.held = v /\ u.id = s.id /\ u.slot = s.slot /\ u.attached = s.attached /\ u.base = b
    BY <1>1, <2>3 DEF RowState
  <2> QED
    BY <1>1, <2>1, <2>4 DEF b, RowState
<1>9. ASSUME ~Pending(r), ~Dirty(r) PROVE u = s
  <2>1. ~(s.attached /\ s.id \in DOMAIN p.updates)
    <3> SUFFICES ASSUME s.attached, s.id \in DOMAIN p.updates PROVE FALSE
      OBVIOUS
    <3>1. PICK q \in Rows : Dirty(q) /\ row[q].id = s.id
      BY DEF FitsUpdates
    <3>2. s.id # 0
      BY <1>1 DEF RowShape
    <3>3. q = r
      BY <3>1, <3>2 DEF Shapes, DistinctRows
    <3> QED
      BY <1>9, <3>1, <3>3
  <2> QED
    BY <1>4, <1>5, <1>9, <2>1
<1>10. ASSUME ~Pending(r), ~Dirty(r) PROVE t = s
  <2>1. /\ t \in RowState /\ t.held = s.held /\ t.id = s.id /\ t.attached = s.attached /\ t.patch = 0
        /\ t.base = (IF Tracking = "immutable" THEN 0 ELSE s.base)
        /\ t.slot = IF s.slot = "pending" THEN "discarded" ELSE s.slot
    BY <1>1, <1>3, <1>9, <1>10
  <2>2. s.slot # "pending" /\ s.patch = 0 /\ (Tracking = "immutable" => s.base = 0)
    <3>1. Tracking = "immutable" /\ s.attached => s.patch = 0
      BY <1>10 DEF Dirty
    <3> QED
      BY <1>1, <1>10, <3>1 DEF RowShape
  <2>3. t.base = s.base /\ t.patch = s.patch /\ t.slot = s.slot
    BY <2>1, <2>2
  <2> HIDE DEF s
  <2> QED
    BY <1>1, <2>1, <2>3 DEF RowState
<1>11. ASSUME ~Pending(r), Dirty(r)
       PROVE  /\ t \in RowState /\ t.held = p.updates[s.id] /\ t.id = s.id /\ t.patch = 0 /\ t.slot = s.slot /\ t.attached
              /\ t.base = IF Tracking = "diff" THEN t.held ELSE 0
  <2>1. s.slot # "pending"
    BY <1>1, <1>11 DEF RowShape
  <2> QED
    BY <1>3, <1>8, <1>11, <2>1
<1>12. ASSUME NEW n \in DOMAIN additions, additions[n].row = r
       PROVE  /\ t \in RowState /\ t.held = s.held /\ t.id = AddId(p, n, first) /\ t.patch = 0 /\ t.slot = "saved" /\ t.attached
              /\ t.base = IF Tracking = "diff" THEN s.held ELSE IF Tracking = "immutable" THEN 0 ELSE s.base
  <2>1. /\ t \in RowState /\ t.held = u.held /\ t.id = u.id /\ t.attached = u.attached /\ t.patch = 0
        /\ t.base = (IF Tracking = "immutable" THEN 0 ELSE u.base)
        /\ t.slot = IF u.slot = "pending" THEN "discarded" ELSE u.slot
    BY <1>3, <1>7, <1>12
  <2>2. Tracking = "diff" => Tracking # "immutable"
    OBVIOUS
  <2> QED
    BY <1>7, <1>12, <2>1, <2>2
<1>13. Pending(r) <=> \E n \in DOMAIN additions : additions[n].row = r
  BY DEF Pending
<1>14. t \in RowState
  BY <1>1, <1>10, <1>11, <1>12, <1>13
<1>15. Settles(t, r, p, first)
  BY <1>10, <1>11, <1>12, <1>13, <1>14 DEF Settles
<1> QED
  BY <1>15

LEMMA AnswerKeeps ==
  ASSUME Basic, Tracked, NEW i \in DOMAIN saves, Answer(i), crashed' = crashed
  PROVE  Tracked'
<1>1. i = 1 /\ ~Quiet /\ Underway /\ ~crashed /\ Out.state # "sent" /\ Landed
  BY OneOut DEF Answer, Landed, Out
<1> PICK p, first : p = Out.changes /\ first = Out.first
  OBVIOUS
<1>2. /\ Typed /\ Shapes /\ DistinctRows /\ FitsAdds(p) /\ FitsUpdates(p) /\ Reindexes
      /\ HoldsAsked(stored, p, first) /\ ShowsAsked /\ FreshIds(p, first)
  BY <1>1 DEF Tracked, Underway, AfterLanding, Shapes
<1>3. kind.identity => first \in Nat
  BY <1>2 DEF FreshIds
<1>4. /\ Lost(p) = {}
      /\ \A r : TakenBy(p, r) # {} <=> Pending(r)
  BY <1>2, TakenByIs
<1>5. /\ row' = Cleared(Merged(p, first)) /\ additions' = <<>> /\ removals' = {}
      /\ excused' = excused \cup {r \in Rows : Tracking = "proxy" /\ TakenBy(p, r) # {} /\ row[r].base # 0}
      /\ UNCHANGED <<kind, stored, nextId, reads, wanted, outdated>>
      /\ saves' = RemoveAt(saves, i)
  BY <1>1, <1>4 DEF Answer, Out
<1>6. Quiet' /\ Len(saves') = 0
  BY <1>5, NoneOut
<1>7. \A r \in Rows : Settles(row'[r], r, p, first)
  BY <1>2, <1>3, <1>5, MergedIs
<1>8. /\ DOMAIN p.adds = DOMAIN additions /\ DOMAIN p.adds = 1..Len(p.adds) /\ Len(p.adds) \in Nat
      /\ \A n \in DOMAIN p.adds :
           /\ additions[n].row \in Rows /\ Pending(additions[n].row) /\ ~row[additions[n].row].attached
           /\ AddId(p, n, first) = IF kind.identity THEN first + n - 1 ELSE additions[n].row
           /\ ~kind.identity => row[additions[n].row].id = additions[n].row
           /\ kind.identity => row[additions[n].row].id = 0
      /\ \A m, n \in DOMAIN p.adds : AddId(p, m, first) = AddId(p, n, first) => m = n
  <2>1. DOMAIN p.adds = DOMAIN additions
    BY <1>2 DEF FitsAdds
  <2>2. AddIdsAre(p, first)
    BY <1>2, <1>3, AddIdsGiven
  <2> QED
    BY <2>1, <2>2 DEF AddIdsAre
<1>9. Tracking' = Tracking /\ Tracking \in {"proxy", "diff", "immutable"}
  BY <1>5, KindIs DEF Basic, Tracking
<1>10. \A r \in Rows : row[r] \in RowState /\ RowShape(r) /\ row[r].id \in Nat
  BY <1>2, RowIs DEF Typed, Shapes
<1>11. row' \in [Rows -> RowState]
  <2>1. row' = [r \in Rows |-> row'[r]]
    BY <1>5 DEF Cleared
  <2> QED
    BY <1>7, <2>1 DEF Settles
<1>12. /\ Exempt \subseteq Exempt' /\ Exempt' \subseteq Rows
       /\ \A r \in Exempt' : r \in Exempt \/ Pending(r)
       /\ \A r \in Rows : Pending(r) /\ Tracking = "proxy" /\ r \notin Exempt' => row[r].base = 0
  BY <1>2, <1>4, <1>5 DEF Typed, Exempt
<1>13. \A r : ~Pending(r)' /\ ~Removed(r)'
  BY <1>5 DEF Pending, Removed
<1>14. nextId' \in Nat /\ nextId' = nextId /\ 0 < nextId /\ Cardinality(Rows) < nextId
  BY <1>2, <1>5, RowsAre DEF Typed, Shapes
\* The added rows.
<1>15. ASSUME NEW n \in DOMAIN additions, NEW r \in Rows, additions[n].row = r
       PROVE  LET t == row'[r]
                  s == row[r]
                  a == AddId(p, n, first)
              IN  /\ t.held = s.held /\ t.id = a /\ t.patch = 0 /\ t.slot = "saved" /\ t.attached
                  /\ t.base = IF Tracking = "diff" THEN s.held ELSE IF Tracking = "immutable" THEN 0 ELSE s.base
                  /\ s.held # 0 /\ a # 0 /\ a < nextId /\ (~kind.identity => a = r /\ a = s.id)
                  /\ AskedOf(r, a, stored) /\ (wanted[r] # 0 /\ r \notin Exempt => s.held = wanted[r])
                  /\ a \in Nat
  <2>1. Pending(r) /\ RowShape(r)
    BY <1>10, <1>15 DEF Pending
  <2>2. /\ row'[r].held = row[r].held /\ row'[r].id = AddId(p, n, first) /\ row'[r].patch = 0
        /\ row'[r].slot = "saved" /\ row'[r].attached
        /\ row'[r].base = IF Tracking = "diff" THEN row[r].held ELSE IF Tracking = "immutable" THEN 0 ELSE row[r].base
    BY <1>7, <1>15 DEF Settles
  <2>3. row[r].held # 0 /\ row[r].id < nextId
    BY <2>1 DEF RowShape
  <2>4. AskedOf(r, AddId(p, n, first), stored) /\ (wanted[r] # 0 /\ r \notin Exempt => row[r].held = wanted[r])
    BY <1>2, <1>15, <2>1 DEF HoldsAsked, ShowsAsked
  <2>5. CASE kind.identity
    <3>1. AddId(p, n, first) = first + n - 1 /\ n \in 1..Len(p.adds) /\ first \in Nat /\ first + Len(p.adds) = nextId
          /\ row[r].id < first /\ row[r].id \in Nat /\ Len(p.adds) \in Nat
      BY <1>2, <1>8, <1>10, <2>5 DEF FreshIds
    <3>2. AddId(p, n, first) # 0 /\ AddId(p, n, first) < nextId /\ AddId(p, n, first) \in Nat
      BY <3>1
    <3> QED
      BY <2>2, <2>3, <2>4, <2>5, <3>2
  <2>6. CASE ~kind.identity
    <3>1. AddId(p, n, first) = r /\ row[r].id = r /\ r # 0 /\ r \in Nat
      BY <1>8, <1>15, <2>6, RowsAre
    <3> QED
      BY <2>2, <2>3, <2>4, <2>6, <3>1
  <2> QED
    BY <2>5, <2>6
\* The other rows.
<1>16. ASSUME NEW r \in Rows, ~Pending(r)
       PROVE  LET t == row'[r]
                  s == row[r]
              IN  /\ t.id = s.id /\ t.attached = s.attached /\ t.slot = s.slot
                  /\ ~Dirty(r) => t = s
                  /\ Dirty(r) => /\ t.held = p.updates[s.id] /\ t.patch = 0 /\ t.held # 0
                                 /\ t.base = IF Tracking = "diff" THEN t.held ELSE 0
  <2>1. CASE Dirty(r)
    <3>1. p.updates[row[r].id] \in Values /\ row[r].attached
      BY <1>2, <2>1 DEF FitsUpdates, Dirty
    <3>2. /\ row'[r].held = p.updates[row[r].id] /\ row'[r].id = row[r].id /\ row'[r].patch = 0
          /\ row'[r].slot = row[r].slot /\ row'[r].attached
          /\ row'[r].base = IF Tracking = "diff" THEN row'[r].held ELSE 0
      BY <1>7, <1>16, <2>1 DEF Settles
    <3>3. row'[r].attached = row[r].attached
      <4>1. row'[r].attached \in BOOLEAN /\ row[r].attached \in BOOLEAN
        BY <1>10, <1>11 DEF RowState
      <4> QED
        BY <3>1, <3>2, <4>1
    <3>4. row'[r].held # 0
      BY <3>1, <3>2, BoundAssumption DEF Values
    <3> QED
      BY <2>1, <3>2, <3>3, <3>4
  <2>2. CASE ~Dirty(r)
    BY <1>7, <1>16, <2>2 DEF Settles
  <2> QED
    BY <2>1, <2>2
<1>17. ASSUME NEW r \in Rows PROVE Pending(r) <=> \E n \in DOMAIN additions : additions[n].row = r
  BY DEF Pending
<1>18. Typed'
  <2>1. additions' \in Seq([row : Rows, key : Nat])
    BY <1>5
  <2> QED
    BY <1>2, <1>5, <1>11, <1>12, <1>14, <2>1 DEF Typed, IsStore
<1>19. ASSUME NEW r \in Rows PROVE RowShape(r)'
  <2>1. CASE Pending(r)
    <3>1. PICK n \in DOMAIN additions : additions[n].row = r
      BY <1>17, <2>1
    <3>2. /\ row'[r].held # 0 /\ row'[r].id # 0 /\ row'[r].patch = 0 /\ row'[r].slot = "saved" /\ row'[r].attached
          /\ (Tracking = "immutable" => row'[r].base = 0) /\ row'[r].id < nextId /\ (~kind.identity => row'[r].id = r)
      BY <1>9, <1>15, <3>1
    <3> QED
      BY <1>5, <1>9, <1>13, <1>14, <3>2 DEF RowShape
  <2>2. CASE ~Pending(r)
    <3>1. RowShape(r)
      BY <1>10
    <3>2. CASE Dirty(r)
      <4>1. /\ row'[r].held # 0 /\ row'[r].id = row[r].id /\ row'[r].patch = 0 /\ row'[r].slot = row[r].slot
            /\ row'[r].attached /\ row[r].attached /\ (Tracking = "immutable" => row'[r].base = 0)
        BY <1>9, <1>16, <2>2, <3>2 DEF Dirty
      <4> QED
        BY <1>5, <1>9, <1>13, <1>14, <2>2, <3>1, <4>1 DEF RowShape
    <3>3. CASE ~Dirty(r)
      <4>1. row'[r] = row[r]
        BY <1>16, <2>2, <3>3
      <4> QED
        BY <1>5, <1>9, <1>13, <1>14, <2>2, <3>1, <4>1 DEF RowShape
    <3> QED
      BY <3>2, <3>3
  <2> QED
    BY <2>1, <2>2
<1>20. ASSUME NEW r \in Rows, NEW q \in Rows, row'[r].id = row'[q].id PROVE r = q \/ row'[r].id = 0
  <2>1. ASSUME NEW a \in Rows, NEW b \in Rows, Pending(a), ~Pending(b), row'[a].id = row'[b].id
        PROVE  a = b \/ row'[a].id = 0
    <3>1. PICK n \in DOMAIN additions : additions[n].row = a
      BY <1>17, <2>1
    <3>2. row'[a].id = AddId(p, n, first) /\ row'[b].id = row[b].id /\ (~kind.identity => row'[a].id = row[a].id)
      BY <1>15, <1>16, <2>1, <3>1
    <3>3. CASE kind.identity
      <4>1. AddId(p, n, first) = first + n - 1 /\ n \in Nat /\ 1 <= n /\ first \in Nat
        BY <1>3, <1>8, <3>3
      <4>2. row[b].id < first /\ row[b].id \in Nat
        BY <1>2, <1>10, <3>3 DEF FreshIds
      <4>3. AddId(p, n, first) = row[b].id
        BY <2>1, <3>2
      <4> QED
        BY <4>1, <4>2, <4>3
    <3>4. CASE ~kind.identity
      BY <1>2, <2>1, <3>2, <3>4 DEF DistinctRows
    <3> QED
      BY <3>3, <3>4
  <2>2. CASE Pending(r) /\ Pending(q)
    <3>1. PICK m \in DOMAIN additions : additions[m].row = r
      BY <1>17, <2>2
    <3>2. PICK n \in DOMAIN additions : additions[n].row = q
      BY <1>17, <2>2
    <3>3. row'[r].id = AddId(p, m, first) /\ row'[q].id = AddId(p, n, first)
      BY <1>15, <3>1, <3>2
    <3>4. m \in DOMAIN p.adds /\ n \in DOMAIN p.adds /\ AddId(p, m, first) = AddId(p, n, first)
      BY <1>8, <1>20, <3>3
    <3>5. m = n
      BY <1>8, <3>4
    <3> QED
      BY <3>1, <3>2, <3>5
  <2>3. CASE ~Pending(r) /\ ~Pending(q)
    BY <1>2, <1>16, <1>20, <2>3 DEF DistinctRows
  <2> QED
    BY <1>20, <2>1, <2>2, <2>3
<1>21. Shapes'
  <2>1. DistinctRows'
    BY <1>5, <1>20 DEF DistinctRows
  <2>2. ASSUME NEW r \in Exempt' PROVE row'[r].attached
    <3>1. r \in Rows /\ (r \in Exempt \/ Pending(r))
      BY <1>12
    <3>2. CASE Pending(r)
      BY <1>15, <1>17, <3>1, <3>2
    <3>3. CASE ~Pending(r)
      <4>1. row[r].attached
        BY <1>2, <3>1, <3>3 DEF Shapes
      <4> QED
        BY <1>16, <3>1, <3>3, <4>1
    <3> QED
      BY <3>2, <3>3
  <2> QED
    BY <1>5, <1>14, <1>19, <2>1, <2>2 DEF Shapes
<1>22. ASSUME NEW r \in Rows \ Exempt' PROVE RowBefore(r)'
  <2>1. r \notin Exempt
    BY <1>12
  <2>2. CASE Pending(r)
    <3>1. PICK n \in DOMAIN additions : additions[n].row = r
      BY <1>17, <2>2
    <3>2. /\ row'[r].held = row[r].held /\ row'[r].patch = 0 /\ row'[r].attached
          /\ row'[r].base = IF Tracking = "diff" THEN row[r].held ELSE IF Tracking = "immutable" THEN 0 ELSE row[r].base
          /\ AskedOf(r, row'[r].id, stored) /\ (wanted[r] # 0 => row[r].held = wanted[r])
      BY <1>15, <2>1, <3>1
    <3>3. ~Dirty(r)'
      BY <1>9, <1>12, <2>2, <3>2 DEF Dirty
    <3>4. Current(r)' = row'[r].held
      BY <3>2 DEF Current
    <3>5. KnownBefore(r)' /\ GoneBefore(r)'
      BY <1>5, <1>13, <3>2, <3>3, <3>4 DEF KnownBefore, GoneBefore, AskedOf
    <3> QED
      BY <1>13, <3>5 DEF RowBefore, PendingBefore
  <2>3. CASE ~Pending(r)
    <3>1. row'[r].id = row[r].id /\ row'[r].attached = row[r].attached
      BY <1>16, <2>3
    <3>2. row[r].attached => AskedOf(r, row[r].id, stored) /\ (wanted[r] # 0 => Current(r) = wanted[r])
      BY <1>2, <2>1 DEF HoldsAsked, ShowsAsked
    <3>3. CASE Dirty(r)
      <4>1. p.updates[row[r].id] = Current(r)
        BY <1>2, <2>1, <3>3 DEF FitsUpdates
      <4>2. /\ row'[r].held = Current(r) /\ row'[r].patch = 0
            /\ row'[r].base = IF Tracking = "diff" THEN row'[r].held ELSE 0
        BY <1>16, <2>3, <3>3, <4>1
      <4>3. ~Dirty(r)' /\ Current(r)' = row'[r].held
        BY <1>9, <4>2 DEF Dirty, Current
      <4>4. KnownBefore(r)' /\ GoneBefore(r)'
        BY <1>5, <1>13, <3>1, <3>2, <4>2, <4>3 DEF KnownBefore, GoneBefore, AskedOf
      <4> QED
        BY <1>13, <4>4 DEF RowBefore, PendingBefore
    <3>4. CASE ~Dirty(r)
      <4>1. row'[r] = row[r]
        BY <1>16, <2>3, <3>4
      <4>2. ~Dirty(r)' /\ Current(r)' = Current(r)
        BY <1>5, <3>4, <4>1, DirtyHeld DEF Current
      <4>3. row[r].attached => row[r].patch = 0
        <5>1. RowShape(r)
          BY <1>10
        <5> QED
          BY <1>9, <3>4, <5>1 DEF Dirty, RowShape
      <4>4. KnownBefore(r)' /\ GoneBefore(r)'
        BY <1>5, <1>13, <3>2, <4>1, <4>2, <4>3 DEF KnownBefore, GoneBefore, AskedOf, Current
      <4> QED
        BY <1>13, <4>4 DEF RowBefore, PendingBefore
    <3> QED
      BY <3>3, <3>4
  <2> QED
    BY <2>2, <2>3
<1>23. DOMAIN stored \subseteq {row'[r].id : r \in Rows}
  <2> SUFFICES ASSUME NEW a \in DOMAIN stored PROVE \E r \in Rows : row'[r].id = a
    OBVIOUS
  <2>1. a # 0
    BY <1>2 DEF Typed, IsStore, Ids
  <2>2. CASE \E r \in Rows : row[r].id = a
    <3>1. PICK r \in Rows : row[r].id = a
      BY <2>2
    <3>2. CASE Pending(r)
      <4>1. ~kind.identity
        BY <1>10, <2>1, <3>1, <3>2 DEF RowShape
      <4> QED
        BY <1>15, <1>17, <3>1, <3>2, <4>1
    <3>3. CASE ~Pending(r)
      BY <1>16, <3>1, <3>3
    <3> QED
      BY <3>2, <3>3
  <2>3. CASE \E n \in DOMAIN p.adds : a = AddId(p, n, first)
    <3>1. PICK n \in DOMAIN additions : a = AddId(p, n, first)
      BY <1>8, <2>3
    <3>2. additions[n].row \in Rows
      BY <1>8
    <3>3. row'[additions[n].row].id = a
      BY <1>15, <3>1, <3>2
    <3> QED
      BY <3>2, <3>3
  <2> QED
    BY <1>2, <2>2, <2>3 DEF HoldsAsked
<1>24. Before'
  BY <1>5, <1>22, <1>23 DEF Before
<1> QED
  BY <1>1, <1>6, <1>18, <1>21, <1>24 DEF Tracked

-----------------------------------------------------------------------------
(* Every step keeps the rows tracked.                                       *)

\* A row with nothing to save shows what is stored, whether a save has landed or not.
LEMMA CleanHolds ==
  ASSUME Basic, Tracked
  PROVE  CleanShown
<1>1. CASE crashed
  BY <1>1 DEF Tracked
<1>2. CASE ~crashed /\ ~Landed
  BY <1>2 DEF Tracked, Before, RowBefore, KnownBefore, CleanShown
<1>3. CASE ~crashed /\ Landed
  <2>1. HoldsAsked(stored, Out.changes, Out.first) /\ ShowsAsked /\ \A r \in Rows : RowShape(r)
    BY <1>3 DEF Landed, Tracked, Underway, AfterLanding, Shapes
  <2> SUFFICES ASSUME NEW r \in Rows \ Exempt, row[r].attached, wanted[r] # 0, ~Dirty(r)
               PROVE  row[r].id \in DOMAIN stored /\ row[r].held = stored[row[r].id]
    BY DEF CleanShown
  <2>2. AskedOf(r, row[r].id, stored) /\ Current(r) = wanted[r]
    BY <2>1 DEF HoldsAsked, ShowsAsked
  <2>3. row[r].patch = 0
    BY <2>1, KindIs DEF Basic, RowShape, Dirty, Tracking
  <2> QED
    BY <2>2, <2>3 DEF AskedOf, Current
<1> QED
  BY <1>1, <1>2, <1>3

LEMMA CrashKeeps ==
  ASSUME Basic, Tracked, Crash
  PROVE  Tracked'
<1>1. RowsAlone /\ saves' = <<>> /\ reads' = {} /\ crashed'
  BY DEF Crash, RowsAlone
<1>2. Typed' /\ Shapes'
  BY <1>1, TypedAlone, ShapesAlone DEF Tracked
<1>3. CleanShown'
  BY <1>1, CleanHolds, CleanAlone
<1>4. Len(saves') = 0 /\ Quiet'
  BY <1>1 DEF Quiet
<1> QED
  BY <1>1, <1>2, <1>3, <1>4 DEF Tracked, Landed

LEMMA HeardKeeps ==
  ASSUME Basic, Tracked, NEW i \in DOMAIN saves, Heard(i)
  PROVE  Tracked'
<1>1. saves[i].state = "stored" /\ crashed' = crashed /\ indexedAdds' = indexedAdds
  BY DEF Heard, indexVars
<1>2. CASE DeferredRows(i) = {}
  BY <1>1, <1>2, AnswerKeeps DEF Heard
<1>3. CASE DeferredRows(i) # {}
  <2>1. saves' = [saves EXCEPT ![i].state = "indexing", ![i].follow = DeferredRows(i)]
    BY <1>3 DEF Heard
  <2>2. RowsAlone /\ reads' = reads
    BY <1>3 DEF Heard, RowsAlone
  <2> QED
    BY <1>1, <2>1, <2>2, IndexingKeeps
<1> QED
  BY <1>2, <1>3

\* What makes a step disturbed stays.
LEMMA StaysCalm ==
  ASSUME Basic, [StoreNext]_allVars, ~disturbed'
  PROVE  ~disturbed
<1>1. CASE Caller
  BY <1>1 DEF Caller, Add, Edit, RemoveRow, Read, Deliver, Call, Basic
<1>2. CASE SaveAll
  BY <1>2 DEF SaveAll, SaveChanges, Call, Basic
<1>3. ASSUME NEW i \in DOMAIN saves,
             StoreAll(i) \/ RefuseAll(i) \/ Heard(i) \/ IndexWritten(i) \/ IndexFailed(i)
      PROVE  ~disturbed
  BY <1>3 DEF StoreAll, Store, RefuseAll, RefuseSave, Heard, Answer, IndexWritten, IndexFailed, Unfinished
<1>4. CASE Crash \/ ReadDocuments \/ ReadIndex \/ WriteDifference
  BY <1>4 DEF Crash, ReadDocuments, ReadIndex, WriteDifference, trackerVars
<1>5. CASE UNCHANGED allVars
  BY <1>5 DEF allVars, trackerVars
<1> QED
  BY <1>1, <1>2, <1>3, <1>4, <1>5 DEF StoreNext

LEMMA TrackedStep ==
  ASSUME Careful, Basic, ~disturbed => Tracked, [StoreNext]_allVars, ~disturbed'
  PROVE  Tracked'
<1>1. Tracked
  BY StaysCalm
<1>2. CASE Caller
  <2>1. ~crashed /\ crashed' = crashed
    BY <1>2 DEF Caller, indexVars
  <2>2. ASSUME NEW r \in Rows, NEW v \in Values, Add(r, v) PROVE Tracked'
    BY <2>1, <2>2, AddKeeps
  <2>3. ASSUME NEW r \in Rows, NEW v \in Values, Edit(r, v) PROVE Tracked'
    BY <2>1, <2>3, EditKeeps
  <2>4. ASSUME NEW r \in Rows, RemoveRow(r) PROVE Tracked'
    BY <2>1, <2>4, RemoveKeeps
  <2>5. CASE Read
    BY <1>1, <1>2, <2>5, ReadKeeps DEF Caller
  <2>6. CASE Deliver
    BY <1>1, <1>2, <2>6, DeliverKeeps DEF Caller
  <2> QED
    BY <1>2, <2>2, <2>3, <2>4, <2>5, <2>6 DEF Caller
<1>3. CASE SaveAll
  BY <1>3, SaveKeeps DEF SaveAll
<1>4. ASSUME NEW i \in DOMAIN saves, StoreAll(i) PROVE Tracked'
  BY <1>1, <1>4, StoreKeeps
<1>5. ASSUME NEW i \in DOMAIN saves, RefuseAll(i) PROVE Tracked'
  BY <1>1, <1>5, RefuseKeeps
<1>6. ASSUME NEW i \in DOMAIN saves, Heard(i) PROVE Tracked'
  BY <1>1, <1>6, HeardKeeps
<1>7. ASSUME NEW i \in DOMAIN saves, IndexWritten(i) PROVE Tracked'
  BY <1>1, <1>7, AnswerKeeps DEF IndexWritten
<1>8. ASSUME NEW i \in DOMAIN saves, IndexFailed(i) PROVE Tracked'
  BY <1>8 DEF IndexFailed, Unfinished
<1>9. CASE Crash
  BY <1>1, <1>9, CrashKeeps
<1>10. CASE ReadDocuments \/ ReadIndex \/ WriteDifference \/ UNCHANGED allVars
  <2>1. /\ RowsAlone /\ saves' = saves /\ indexedAdds' = indexedAdds /\ crashed' = crashed /\ reads' = reads
    BY <1>10 DEF ReadDocuments, ReadIndex, WriteDifference, trackerVars, indexVars, allVars, RowsAlone
  <2>2. \A found \in reads : IsStore(found)
    BY <1>1 DEF Tracked, Typed
  <2> QED
    BY <1>1, <2>1, <2>2, TrackedAlone
<1> QED
  BY <1>2, <1>3, <1>4, <1>5, <1>6, <1>7, <1>8, <1>9, <1>10 DEF StoreNext

-----------------------------------------------------------------------------
(* The shapes that hold also when a collection was disturbed.               *)

LEMMA BasicStep ==
  ASSUME Basic, [StoreNext]_allVars
  PROVE  Basic'
<1>1. SavesShaped /\ kind \in Kinds /\ kind' = kind
  BY DEF Basic, StoreNext, Caller, Add, Edit, RemoveRow, Read, Deliver, SaveAll, SaveChanges, StoreAll, Store,
         RefuseAll, RefuseSave, Heard, Answer, IndexWritten, IndexFailed, Unfinished, Crash, ReadDocuments,
         ReadIndex, WriteDifference, allVars, trackerVars
<1>2. CASE Caller
  <2>1. saves' = saves /\ disturbed' \in BOOLEAN /\ UNCHANGED indexVars
    BY <1>2 DEF Caller, Add, Edit, RemoveRow, Read, Deliver, Call, Basic
  <2> QED
    BY <1>1, <2>1 DEF Basic, SavesShaped, indexVars
<1>3. CASE SaveAll
  <2>1. saves' = Append(saves, [changes |-> Prepared, state |-> "sent", first |-> 0, follow |-> {}])
    BY <1>3 DEF SaveAll, SaveChanges
  <2>2. SavesShaped'
    BY <1>1, <2>1, SavesGrow
  <2> QED
    BY <1>1, <1>3, <2>2 DEF SaveAll, SaveChanges, Basic, Call
<1>4. ASSUME NEW i \in DOMAIN saves, StoreAll(i) PROVE Basic'
  <2>1. saves' = [saves EXCEPT ![i].state = "stored", ![i].first = nextId]
    BY <1>4 DEF StoreAll, Store
  <2>2. SavesShaped'
    BY <1>1, <2>1, SavesStore
  <2> QED
    BY <1>1, <1>4, <2>2 DEF StoreAll, Store, Basic, Suspect
<1>5. ASSUME NEW i \in DOMAIN saves, RefuseAll(i) PROVE Basic'
  <2>1. SavesShaped'
    BY <1>1, <1>5, SavesShrink DEF RefuseAll, RefuseSave
  <2> QED
    BY <1>1, <1>5, <2>1 DEF RefuseAll, RefuseSave, Basic, indexVars
<1>6. ASSUME NEW i \in DOMAIN saves, Heard(i) PROVE Basic'
  <2>1. UNCHANGED <<disturbed, indexVars>>
    BY <1>6 DEF Heard, Answer
  <2>2. CASE DeferredRows(i) = {}
    <3>1. SavesShaped'
      BY <1>1, <1>6, <2>2, SavesShrink DEF Heard, Answer
    <3> QED
      BY <1>1, <2>1, <3>1 DEF Basic, indexVars
  <2>3. CASE DeferredRows(i) # {}
    <3>1. saves' = [saves EXCEPT ![i].state = "indexing", ![i].follow = DeferredRows(i)]
      BY <1>6, <2>3 DEF Heard
    <3>2. SavesShaped'
      BY <1>1, <3>1, SavesIndex
    <3> QED
      BY <1>1, <2>1, <3>2 DEF Basic, indexVars
  <2> QED
    BY <2>2, <2>3
<1>7. ASSUME NEW i \in DOMAIN saves, IndexWritten(i) PROVE Basic'
  <2>1. SavesShaped'
    BY <1>1, <1>7, SavesShrink DEF IndexWritten, Answer
  <2> QED
    BY <1>1, <1>7, <2>1 DEF IndexWritten, Answer, Basic, Suspect
<1>8. ASSUME NEW i \in DOMAIN saves, IndexFailed(i) PROVE Basic'
  <2>1. SavesShaped'
    BY <1>1, <1>8, SavesShrink DEF IndexFailed, Unfinished
  <2> QED
    BY <1>1, <1>8, <2>1 DEF IndexFailed, Unfinished, Basic
<1>9. CASE Crash
  <2>1. saves' = <<>> /\ drift' \in BOOLEAN /\ crashed' = TRUE /\ disturbed' = disturbed /\ indexedAdds' = indexedAdds
    BY <1>9 DEF Crash, Basic
  <2>2. SavesShaped'
    BY <2>1 DEF SavesShaped
  <2> QED
    BY <1>1, <2>1, <2>2 DEF Basic
<1>10. CASE ReadDocuments \/ ReadIndex \/ WriteDifference \/ UNCHANGED allVars
  <2>1. /\ saves' = saves /\ kind' = kind /\ indexedAdds' = indexedAdds /\ disturbed' = disturbed /\ crashed' = crashed
    BY <1>10 DEF ReadDocuments, ReadIndex, WriteDifference, trackerVars, indexVars, allVars
  <2>2. drift' \in BOOLEAN
    BY <1>10 DEF ReadDocuments, ReadIndex, WriteDifference, indexVars, allVars, Basic
  <2>3. SavesShaped'
    BY <1>1, <2>1 DEF SavesShaped
  <2> QED
    BY <1>1, <2>1, <2>2, <2>3 DEF Basic
<1> QED
  BY <1>2, <1>3, <1>4, <1>5, <1>6, <1>7, <1>8, <1>9, <1>10 DEF StoreNext

-----------------------------------------------------------------------------
(* The index beside the documents.                                          *)

\* Steps that write neither documents nor index, and forget no rows still to be written.
LEMMA IndexAlone ==
  ASSUME IndexKept, kind' = kind, stored' = stored, index' = index,
         kind.indexed /\ ~drift' => ~drift /\ Awaited \subseteq Awaited'
  PROVE  IndexKept'
BY DEF IndexKept, Documents

\* The rows that are to follow one save.
Follows(q, i) == {<<q[i].changes.adds[n].content, q[i].first + n - 1>> : n \in DOMAIN q[i].changes.adds}

LEMMA AwaitedIs ==
  /\ kind.identity => Awaited = UNION {Follows(saves, i) : i \in {i \in DOMAIN saves : saves[i].state # "sent"}}
  /\ ~kind.identity => Awaited = {}
BY DEF Awaited, Follows

LEMMA AwaitedMore ==
  ASSUME kind' = kind,
         \A i \in DOMAIN saves : kind.identity /\ saves[i].state # "sent" =>
           Follows(saves, i) = {} \/ \E j \in DOMAIN saves' : saves'[j].state # "sent" /\ Follows(saves', j) = Follows(saves, i)
  PROVE  Awaited \subseteq Awaited'
<1>1. CASE kind.identity
  <2>1. Awaited = UNION {Follows(saves, i) : i \in {i \in DOMAIN saves : saves[i].state # "sent"}}
    BY <1>1, AwaitedIs
  <2>2. Awaited' = UNION {Follows(saves', i) : i \in {i \in DOMAIN saves' : saves'[i].state # "sent"}}
    BY <1>1 DEF Awaited, Follows
  <2> QED
    BY <1>1, <2>1, <2>2
<1>2. CASE ~kind.identity
  BY <1>2, AwaitedIs
<1> QED
  BY <1>1, <1>2

LEMMA CallerKeepsIndex ==
  ASSUME IndexKept, Caller
  PROVE  IndexKept'
<1>1. kind' = kind /\ stored' = stored /\ saves' = saves /\ index' = index /\ drift' = drift
  BY DEF Caller, Add, Edit, RemoveRow, Read, Deliver, indexVars
<1>2. Awaited' = Awaited
  BY <1>1 DEF Awaited
<1> QED
  BY <1>1, <1>2, IndexAlone

LEMMA SaveKeepsIndex ==
  ASSUME Basic, IndexKept, SaveAll
  PROVE  IndexKept'
<1>1. kind' = kind /\ stored' = stored /\ index' = index /\ drift' = drift
  BY DEF SaveAll, SaveChanges
<1>2. saves' = Append(saves, [changes |-> Prepared, state |-> "sent", first |-> 0, follow |-> {}])
  BY DEF SaveAll, SaveChanges
<1>3. SavesShaped
  BY DEF Basic
<1>4. /\ SavesShaped' /\ Len(saves') = Len(saves) + 1 /\ \A i \in DOMAIN saves : saves'[i] = saves[i]
  BY <1>2, <1>3, SavesGrow
<1>5. DOMAIN saves \subseteq DOMAIN saves'
  <2>1. DOMAIN saves = 1..Len(saves) /\ Len(saves) \in Nat
    BY <1>3, SavesAre
  <2>2. DOMAIN saves' = 1..Len(saves')
    BY <1>4, SavesAre
  <2> QED
    BY <1>4, <2>1, <2>2
<1>6. \A i \in DOMAIN saves : Follows(saves', i) = Follows(saves, i)
  BY <1>4 DEF Follows
<1>7. Awaited \subseteq Awaited'
  BY <1>1, <1>4, <1>5, <1>6, AwaitedMore
<1> QED
  BY <1>1, <1>7, IndexAlone

\* A save leaves: its rows are forgotten only if it had none to write.
LEMMA AwaitedShrinks ==
  ASSUME Basic, kind' = kind, NEW i \in DOMAIN saves, saves' = RemoveAt(saves, i),
         kind.identity /\ saves[i].state # "sent" => Follows(saves, i) = {}
  PROVE  Awaited \subseteq Awaited'
<1>1. \A k \in DOMAIN saves \ {i} : \E j \in DOMAIN saves' : saves'[j] = saves[k]
  BY SavesShrink DEF Basic
<1>2. ASSUME NEW k \in DOMAIN saves \ {i}
      PROVE  \E j \in DOMAIN saves' : saves'[j].state = saves[k].state /\ Follows(saves', j) = Follows(saves, k)
  BY <1>1 DEF Follows
<1> QED
  BY <1>2, AwaitedMore

LEMMA RefuseKeepsIndex ==
  ASSUME Basic, IndexKept, NEW i \in DOMAIN saves, RefuseAll(i)
  PROVE  IndexKept'
<1>1. kind' = kind /\ stored' = stored /\ index' = index /\ drift' = drift /\ saves' = RemoveAt(saves, i)
      /\ saves[i].state = "sent"
  BY DEF RefuseAll, RefuseSave, indexVars
<1> QED
  BY <1>1, AwaitedShrinks, IndexAlone

LEMMA HeardKeepsIndex ==
  ASSUME Basic, IndexKept, NEW i \in DOMAIN saves, Heard(i)
  PROVE  IndexKept'
<1>1. kind' = kind /\ stored' = stored /\ index' = index /\ drift' = drift /\ saves[i].state = "stored"
  BY DEF Heard, Answer, indexVars
<1>2. CASE DeferredRows(i) = {}
  <2>1. saves' = RemoveAt(saves, i)
    BY <1>2 DEF Heard, Answer
  <2>2. kind.indexed /\ kind.identity => Follows(saves, i) = {}
    BY <1>2 DEF DeferredRows, AddId, Follows, Basic
  <2>3. kind.indexed => Awaited \subseteq Awaited'
    BY <1>1, <2>1, <2>2, AwaitedShrinks
  <2> QED
    BY <1>1, <2>3, IndexAlone
<1>3. CASE DeferredRows(i) # {}
  <2>1. saves' = [saves EXCEPT ![i].state = "indexing", ![i].follow = DeferredRows(i)]
    BY <1>3 DEF Heard
  <2>2. SavesShaped
    BY DEF Basic
  <2>3. /\ SavesShaped' /\ Len(saves') = Len(saves)
        /\ \A j \in DOMAIN saves : j # i => saves'[j] = saves[j]
        /\ saves'[i].changes = saves[i].changes /\ saves'[i].state = "indexing"
        /\ saves'[i].first = saves[i].first
    BY <2>1, <2>2, SavesIndex
  <2>4. DOMAIN saves' = DOMAIN saves
    <3>1. DOMAIN saves = 1..Len(saves)
      BY <2>2, SavesAre
    <3>2. DOMAIN saves' = 1..Len(saves')
      BY <2>3, SavesAre
    <3> QED
      BY <2>3, <3>1, <3>2
  <2>5. \A j \in DOMAIN saves : Follows(saves', j) = Follows(saves, j)
    BY <2>3 DEF Follows
  <2>6. \A j \in DOMAIN saves : saves[j].state # "sent" => saves'[j].state # "sent"
    BY <2>3
  <2>7. Awaited \subseteq Awaited'
    BY <1>1, <2>4, <2>5, <2>6, AwaitedMore
  <2> QED
    BY <1>1, <2>7, IndexAlone
<1> QED
  BY <1>2, <1>3

LEMMA CrashKeepsIndex ==
  ASSUME IndexKept, Crash
  PROVE  IndexKept'
<1>1. /\ kind' = kind /\ stored' = stored /\ index' = index /\ saves' = <<>>
      /\ drift' = (drift \/ \E i \in DOMAIN saves : saves[i].state # "sent" /\ kind.identity /\ saves[i].changes.adds # <<>>)
  BY DEF Crash
<1>2. ASSUME ~drift' PROVE Awaited \subseteq Awaited'
  <2>1. \A i \in DOMAIN saves : kind.identity /\ saves[i].state # "sent" => saves[i].changes.adds = <<>>
    BY <1>1, <1>2
  <2>2. \A i \in DOMAIN saves : saves[i].changes.adds = <<>> => Follows(saves, i) = {}
    BY DEF Follows
  <2> QED
    BY <1>1, <2>1, <2>2, AwaitedMore
<1> QED
  BY <1>1, <1>2, IndexAlone

\* A rebuild: the difference of what it read, or nothing.
LEMMA RebuildKeepsIndex ==
  ASSUME IndexKept, ReadDocuments \/ ReadIndex \/ WriteDifference \/ UNCHANGED allVars
  PROVE  IndexKept'
<1>1. kind' = kind /\ stored' = stored /\ saves' = saves
  BY DEF ReadDocuments, ReadIndex, WriteDifference, allVars, trackerVars
<1>2. Awaited' = Awaited /\ Documents' = Documents
  BY <1>1 DEF Awaited, Documents
<1>3. CASE index' = index /\ drift' = drift
  BY <1>1, <1>2, <1>3, IndexAlone
<1>4. CASE ~(index' = index /\ drift' = drift)
  <2>1. /\ index' = Rebuilt
        /\ drift' = ~(rebuild.documents = Documents /\ rebuild.rows = index)
    BY <1>4 DEF ReadDocuments, ReadIndex, WriteDifference, allVars, indexVars
  <2>2. ~drift' => index' = Written(index, Documents \ index, index \ Documents)
    BY <2>1 DEF Rebuilt
  <2>3. ~drift' => index' = Documents
    BY <2>2 DEF Written
  <2> QED
    BY <1>2, <2>3 DEF IndexKept
<1> QED
  BY <1>3, <1>4

\* The rows that followed are those of documents the database holds.
LEMMA FollowIs ==
  ASSUME Basic, Tracked, Exempt = {}, NEW i \in DOMAIN saves, saves[i].state = "indexing", kind.indexed
  PROVE  saves[i].follow \subseteq Documents /\ Awaited \subseteq saves[i].follow
<1>1. i = 1 /\ Len(saves) = 1 /\ ~Quiet /\ Underway /\ ~crashed
  BY OneOut
<1> PICK p, first : p = Out.changes /\ first = Out.first
  OBVIOUS
<1>2. /\ Typed /\ Shapes /\ FitsAdds(p) /\ HoldsAsked(stored, p, first) /\ ShowsAsked /\ FreshIds(p, first)
      /\ Out.follow = DeferredRows(1) /\ (~kind.identity => indexedAdds = {a.key : a \in ToSet(p.adds)})
  BY <1>1 DEF Landed, Out, Tracked, Underway, AfterLanding
<1>3. AddIdsAre(p, first)
  <2>1. kind.identity => first \in Nat
    BY <1>2 DEF FreshIds
  <2> QED
    BY <1>2, <2>1, AddIdsGiven
<1>4. DeferredRows(1) = {<<p.adds[n].content, AddId(p, n, first)>> : n \in {n \in DOMAIN p.adds : AddId(p, n, first) \notin indexedAdds}}
  BY DEF DeferredRows, Out
<1>5. ASSUME NEW n \in DOMAIN p.adds, AddId(p, n, first) \notin indexedAdds
      PROVE  <<p.adds[n].content, AddId(p, n, first)>> \in Documents
  <2>1. kind.identity
    <3> SUFFICES ASSUME ~kind.identity PROVE FALSE
      OBVIOUS
    <3>1. AddId(p, n, first) = p.adds[n].key
      BY DEF AddId
    <3>2. p.adds[n] \in ToSet(p.adds)
      BY DEF ToSet
    <3> QED
      BY <1>2, <1>5, <3>1, <3>2
  <2>2. /\ additions[n].row \in Rows /\ Pending(additions[n].row) /\ n \in DOMAIN additions
        /\ p.adds[n].content = row[additions[n].row].held
    BY <1>2, <1>3 DEF AddIdsAre, FitsAdds
  <2>3. wanted[additions[n].row] # 0 /\ p.adds[n].content = wanted[additions[n].row]
    BY <1>2, <2>1, <2>2 DEF ShowsAsked
  <2>4. AskedOf(additions[n].row, AddId(p, n, first), stored)
    BY <1>2, <2>2 DEF HoldsAsked
  <2>5. AddId(p, n, first) \in DOMAIN stored /\ stored[AddId(p, n, first)] = p.adds[n].content
    BY <2>3, <2>4 DEF AskedOf
  <2> QED
    BY <2>5 DEF Documents
<1>6. Awaited \subseteq DeferredRows(1)
  <2>1. CASE kind.identity
    <3>1. indexedAdds = {} /\ \A n : AddId(p, n, first) = first + n - 1
      BY <2>1 DEF Basic, AddId
    <3>2. DOMAIN saves = {1}
      BY <1>1, SavesAre DEF Basic
    <3>3. Awaited \subseteq {<<p.adds[n].content, first + n - 1>> : n \in DOMAIN p.adds}
      BY <2>1, <3>2 DEF Awaited, Out
    <3> QED
      BY <1>4, <3>1, <3>3
  <2>2. CASE ~kind.identity
    BY <2>2 DEF Awaited
  <2> QED
    BY <2>1, <2>2
<1> QED
  BY <1>1, <1>2, <1>4, <1>5, <1>6 DEF Out

LEMMA WrittenKeepsIndex ==
  ASSUME Basic, ~disturbed => Tracked, IndexKept, NEW i \in DOMAIN saves, IndexWritten(i)
  PROVE  IndexKept'
<1>1. /\ index' = index \cup saves[i].follow /\ drift' = (drift \/ Suspect) /\ kind' = kind /\ stored' = stored
      /\ saves[i].state = "indexing"
  BY DEF IndexWritten, Answer
<1>2. Documents' = Documents
  BY <1>1 DEF Documents
<1> SUFFICES ASSUME kind.indexed, ~drift' PROVE index' = Documents
  BY <1>1, <1>2 DEF IndexKept
<1>3. ~disturbed /\ Exempt = {} /\ ~drift
  BY <1>1 DEF Suspect, Exempt, Basic
<1>4. saves[i].follow \subseteq Documents /\ Awaited \subseteq saves[i].follow
  BY <1>1, <1>3, FollowIs
<1>5. index \subseteq Documents /\ Documents \ index \subseteq Awaited
  BY <1>3 DEF IndexKept
<1> QED
  BY <1>1, <1>4, <1>5

-----------------------------------------------------------------------------
(* What a save does to the index, id by id.                                 *)

\* The parts of a prepared save agree with each other and with what is stored.
Agrees(p) ==
  /\ \A n \in DOMAIN p.adds :
       LET i == AddId(p, n, nextId)
       IN  /\ i \notin DOMAIN stored /\ i \notin DOMAIN p.updates
           /\ kind.identity => i \notin DOMAIN p.removes
           /\ ~kind.identity /\ i \in DOMAIN p.removes => ~SQL /\ p.removes[i] = p.adds[n].content
  /\ \A i \in DOMAIN p.updates :
       /\ i \in DOMAIN stored /\ p.previous[i] = stored[i]
       /\ i \in DOMAIN p.removes => ~SQL /\ p.removes[i] = p.updates[i]
  /\ \A i \in DOMAIN stored \cap DOMAIN p.removes : i \notin DOMAIN p.updates => p.removes[i] = stored[i]

\* A removal names what its row holds.
LEMMA RemovalNames ==
  ASSUME Basic, Typed, Shapes, Before, Exempt = {}, NEW p, FitsRest(p), NEW r \in Rows, row[r].id # 0,
         row[r].id \in DOMAIN p.removes
  PROVE  /\ Removed(r)
         /\ SQL => ~Pending(r) /\ ~Dirty(r)
         /\ Tracking = "immutable" => ~Dirty(r)
         /\ Pending(r) => p.removes[row[r].id] = row[r].held
         /\ Dirty(r) => p.removes[row[r].id] = Current(r)
         /\ row[r].attached /\ ~Dirty(r) => p.removes[row[r].id] = stored[row[r].id]
<1>1. PICK m \in removals : row[m.row].id = row[r].id
  BY DEF FitsRest
<1>2. m.row = r
  <2>1. m.row \in Rows
    BY DEF Typed
  <2> QED
    BY <1>1, <2>1 DEF Shapes, DistinctRows
<1>3. Removed(r) /\ RemovalShape(m) /\ RowShape(r) /\ RowBefore(r)
  BY <1>2 DEF Removed, Shapes, Before
<1>4. p.removes[row[r].id] = RemovedAs(m)
  BY <1>2 DEF FitsRest
<1>5. wanted[r] = 0 /\ (m.as # 0 <=> Tracking = "immutable") /\ (SQL => ~Pending(r) /\ ~Dirty(r))
      /\ (Tracking = "immutable" => ~Dirty(r))
  BY <1>2, <1>3 DEF RemovalShape
<1>6. Pending(r) => RemovedAs(m) = row[r].held
  BY <1>2, <1>3, <1>5 DEF RowBefore, PendingBefore, RemovedAs
<1>7. Dirty(r) => RemovedAs(m) = Current(r)
  <2>1. Tracking # "immutable" => row[r].patch = 0
    BY <1>3 DEF RowShape
  <2> QED
    BY <1>2, <1>5, <2>1 DEF RemovedAs, Current
<1>8. row[r].attached /\ ~Dirty(r) => RemovedAs(m) = stored[row[r].id]
  BY <1>2, <1>3, <1>5 DEF RowBefore, KnownBefore, RemovedAs
<1> QED
  BY <1>3, <1>4, <1>5, <1>6, <1>7, <1>8

LEMMA SaveAgrees ==
  ASSUME Basic, Typed, Shapes, Before, Exempt = {}, NEW p, FitsAdds(p), FitsUpdates(p), FitsRest(p)
  PROVE  Agrees(p)
<1>1. /\ \A i \in AddIds(p, nextId) : i \notin DOMAIN stored /\ i \notin DOMAIN p.updates /\ i \in Ids
      /\ \A r \in Rows : row[r].attached => (row[r].id \in DOMAIN p.updates <=> Dirty(r))
      /\ \A i \in AddIds(p, nextId) : kind.identity => i \notin DOMAIN p.removes
  BY SaveParts
<1>2. AddIdsAre(p, nextId)
  BY AddIdsGiven DEF Typed
<1>3. ASSUME NEW n \in DOMAIN p.adds
      PROVE  LET i == AddId(p, n, nextId)
             IN  /\ i \notin DOMAIN stored /\ i \notin DOMAIN p.updates
                 /\ kind.identity => i \notin DOMAIN p.removes
                 /\ ~kind.identity /\ i \in DOMAIN p.removes => ~SQL /\ p.removes[i] = p.adds[n].content
  <2>1. AddId(p, n, nextId) \in AddIds(p, nextId)
    BY DEF AddIds
  <2>2. ASSUME ~kind.identity, AddId(p, n, nextId) \in DOMAIN p.removes
        PROVE  ~SQL /\ p.removes[AddId(p, n, nextId)] = p.adds[n].content
    <3> DEFINE r == additions[n].row
    <3>1. /\ n \in DOMAIN additions /\ r \in Rows /\ Pending(r) /\ AddId(p, n, nextId) = r /\ row[r].id = r
          /\ p.adds[n].content = row[r].held
      BY <1>2, <2>2 DEF AddIdsAre, FitsAdds
    <3>2. r # 0
      BY <3>1, RowsAre
    <3> HIDE DEF r
    <3> QED
      BY <2>2, <3>1, <3>2, RemovalNames
  <2> QED
    BY <1>1, <2>1, <2>2
<1>4. ASSUME NEW i \in DOMAIN p.updates
      PROVE  /\ i \in DOMAIN stored /\ p.previous[i] = stored[i]
             /\ i \in DOMAIN p.removes => ~SQL /\ p.removes[i] = p.updates[i]
  <2>1. PICK r \in Rows : Dirty(r) /\ i = row[r].id
    BY DEF FitsUpdates
  <2>2. RowShape(r) /\ RowBefore(r) /\ row[r].attached /\ row[r].id # 0
    BY <2>1 DEF Shapes, Before, Dirty, RowShape
  <2>3. wanted[r] # 0 \/ Removed(r)
    BY <2>1, <2>2 DEF RowBefore, GoneBefore
  <2>4. i \in DOMAIN stored /\ row[r].base = stored[i]
    BY <2>1, <2>2, <2>3 DEF RowBefore, KnownBefore
  <2>5. p.previous[i] = row[r].base /\ p.updates[i] = Current(r)
    BY <2>1 DEF FitsRest, FitsUpdates
  <2>6. i \in DOMAIN p.removes => ~SQL /\ p.removes[i] = Current(r)
    BY <2>1, <2>2, RemovalNames
  <2> QED
    BY <2>4, <2>5, <2>6
<1>5. ASSUME NEW i \in DOMAIN stored \cap DOMAIN p.removes, i \notin DOMAIN p.updates
      PROVE  p.removes[i] = stored[i]
  <2>1. PICK m \in removals : i = row[m.row].id
    BY DEF FitsRest
  <2> DEFINE r == m.row
  <2>2. r \in Rows /\ row[r].id # 0 /\ i = row[r].id /\ RowShape(r)
    BY <2>1 DEF Typed, Shapes, RemovalShape
  <2>3. ~Pending(r)
    BY <2>2 DEF RowShape, Before, RowBefore, PendingBefore
  <2>4. row[r].attached
    BY <2>2, <2>3 DEF RowShape
  <2>5. ~Dirty(r)
    BY <1>1, <1>5, <2>2, <2>4
  <2> HIDE DEF r
  <2> QED
    BY <2>2, <2>4, <2>5, RemovalNames
<1> QED
  BY <1>3, <1>4, <1>5 DEF Agrees

\* The rows of the index as sets of pairs.
LEMMA RowsOf ==
  ASSUME NEW p
  PROVE  /\ \A v, i : <<v, i>> \in Documents <=> i \in DOMAIN stored /\ v = stored[i]
         /\ \A v, i : <<v, i>> \in AddedRows(p) <=>
              \/ i \in DOMAIN p.updates /\ p.updates[i] # p.previous[i] /\ v = p.updates[i]
              \/ ~kind.identity /\ \E n \in DOMAIN p.adds : v = p.adds[n].content /\ i = p.adds[n].key
         /\ \A v, i : <<v, i>> \in RemovedRows(p) <=>
              \/ i \in DOMAIN p.updates /\ p.updates[i] # p.previous[i] /\ v = p.previous[i]
              \/ i \in DOMAIN p.removes /\ v = p.removes[i]
         /\ \A x \in Documents \cup AddedRows(p) : \E v, i : x = <<v, i>>
<1>1. \A v, i : <<v, i>> \in Documents <=> i \in DOMAIN stored /\ v = stored[i]
  BY DEF Documents
<1>2. \A v, i : <<v, i>> \in AddedRows(p) <=>
        \/ i \in DOMAIN p.updates /\ p.updates[i] # p.previous[i] /\ v = p.updates[i]
        \/ ~kind.identity /\ \E n \in DOMAIN p.adds : v = p.adds[n].content /\ i = p.adds[n].key
  BY DEF AddedRows, EditedIds, ToSet
<1>3. \A v, i : <<v, i>> \in RemovedRows(p) <=>
        \/ i \in DOMAIN p.updates /\ p.updates[i] # p.previous[i] /\ v = p.previous[i]
        \/ i \in DOMAIN p.removes /\ v = p.removes[i]
  BY DEF RemovedRows, EditedIds
<1>4. \A x \in Documents \cup AddedRows(p) : \E v, i : x = <<v, i>>
  BY DEF Documents, AddedRows
<1> QED
  BY <1>1, <1>2, <1>3, <1>4

\* With the index the documents' before, a save finds none of its new rows in it.
LEMMA NoRowClashes ==
  ASSUME NEW p, Agrees(p), index = Documents
  PROVE  ~ClashesInIndex(index, AddedRows(p), RemovedRows(p))
<1> SUFFICES ASSUME NEW x \in AddedRows(p), x \in Documents PROVE FALSE
  BY DEF ClashesInIndex
<1>1. PICK v, i : x = <<v, i>>
  BY RowsOf
<1>2. i \in DOMAIN stored /\ v = stored[i]
  BY <1>1, RowsOf
<1>3. ASSUME i \in DOMAIN p.updates, p.updates[i] # p.previous[i], v = p.updates[i] PROVE FALSE
  BY <1>2, <1>3 DEF Agrees
<1>4. ASSUME ~kind.identity, NEW n \in DOMAIN p.adds, i = p.adds[n].key PROVE FALSE
  BY <1>2, <1>4 DEF Agrees, AddId
<1> QED
  BY <1>1, <1>3, <1>4, RowsOf

\* What an index says of one value and id, once a save has left new in the database.
Describes(rows, new, p, v, i) ==
  /\ <<v, i>> \in rows => i \in DOMAIN new /\ v = new[i]
  /\ i \in DOMAIN new /\ v = new[i] =>
       \/ <<v, i>> \in rows
       \/ kind.identity /\ \E n \in DOMAIN p.adds : i = AddId(p, n, nextId) /\ v = p.adds[n].content

\* Id by id: the written index holds the row of what is stored now, or, for an
\* identity just assigned, none yet.
LEMMA WrittenIs ==
  ASSUME Basic, NEW p, Agrees(p), index = Documents, AddIdsAre(p, nextId),
         NEW new, Applied(new, stored, p, nextId), NEW v, NEW i
  PROVE  Describes(Written(index, AddedRows(p), RemovedRows(p)), new, p, v, i)
<1> DEFINE Stored == i \in DOMAIN stored
           Edited == i \in DOMAIN p.updates /\ p.updates[i] # p.previous[i]
           InAdds == \E n \in DOMAIN p.adds : i = p.adds[n].key /\ v = p.adds[n].content
           rows == Written(index, AddedRows(p), RemovedRows(p))
           In == <<v, i>> \in rows
           Has == i \in DOMAIN new /\ v = new[i]
           Later == kind.identity /\ \E n \in DOMAIN p.adds : i = AddId(p, n, nextId) /\ v = p.adds[n].content
<1> SUFFICES (In => Has) /\ (Has => In \/ Later)
  BY DEF Describes
<1>1. /\ <<v, i>> \in index <=> Stored /\ v = stored[i]
      /\ <<v, i>> \in AddedRows(p) <=> (Edited /\ v = p.updates[i]) \/ (~kind.identity /\ InAdds)
      /\ <<v, i>> \in RemovedRows(p) <=> (Edited /\ v = p.previous[i]) \/ (i \in DOMAIN p.removes /\ v = p.removes[i])
  <2>1. <<v, i>> \in index <=> Stored /\ v = stored[i]
    BY RowsOf
  <2>2. <<v, i>> \in AddedRows(p) <=> (Edited /\ v = p.updates[i]) \/ (~kind.identity /\ InAdds)
    BY RowsOf
  <2>3. <<v, i>> \in RemovedRows(p) <=> (Edited /\ v = p.previous[i]) \/ (i \in DOMAIN p.removes /\ v = p.removes[i])
    BY RowsOf
  <2> QED
    BY <2>1, <2>2, <2>3
<1>2. In <=> IF SQL THEN <<v, i>> \in AddedRows(p) \/ (<<v, i>> \in index /\ <<v, i>> \notin RemovedRows(p))
                    ELSE (<<v, i>> \in AddedRows(p) \/ <<v, i>> \in index) /\ <<v, i>> \notin RemovedRows(p)
  BY DEF Written
<1>3. SQL \in BOOLEAN /\ kind.identity \in BOOLEAN
  BY KindIs DEF SQL, Basic
\* An id just given.
<1>4. CASE i \in AddIds(p, nextId)
  <2>1. PICK n \in DOMAIN p.adds : i = AddId(p, n, nextId)
    BY <1>4 DEF AddIds
  <2>2. /\ ~Stored /\ i \notin DOMAIN p.updates
        /\ kind.identity => i \notin DOMAIN p.removes
        /\ ~kind.identity /\ i \in DOMAIN p.removes => ~SQL /\ p.removes[i] = p.adds[n].content
    BY <2>1 DEF Agrees
  <2>3. i \in DOMAIN p.removes => i \notin DOMAIN new
    BY <1>3, <1>4, <2>2 DEF Applied
  <2>4. i \notin DOMAIN p.removes => i \in DOMAIN new /\ new[i] = p.adds[n].content
    <3> SUFFICES ASSUME i \notin DOMAIN p.removes PROVE i \in DOMAIN new /\ new[i] = p.adds[n].content
      OBVIOUS
    <3>1. i \in DOMAIN new
      BY <1>3, <1>4, <2>2 DEF Applied
    <3>2. new[i] = p.adds[n].content
      BY <1>3, <2>1, <2>2 DEF Applied
    <3> QED
      BY <3>1, <3>2
  <2>5. CASE kind.identity
    <3>1. ~In
      BY <1>1, <1>2, <2>2, <2>5
    <3>2. Has => Later
      BY <2>1, <2>2, <2>4, <2>5
    <3> QED
      BY <3>1, <3>2
  <2>6. CASE ~kind.identity
    <3>1. InAdds <=> v = p.adds[n].content
      <4>1. ASSUME NEW m \in DOMAIN p.adds, i = p.adds[m].key PROVE m = n
        BY <2>1, <2>6, <4>1 DEF AddIdsAre, AddId
      <4>2. i = p.adds[n].key
        BY <2>1, <2>6 DEF AddId
      <4> QED
        BY <4>1, <4>2
    <3>2. In <=> Has
      BY <1>1, <1>2, <1>3, <2>2, <2>3, <2>4, <2>6, <3>1
    <3> QED
      BY <3>2
  <2> QED
    BY <2>5, <2>6
\* Any other id.
<1>5. CASE i \notin AddIds(p, nextId)
  <2>1. ~kind.identity => ~InAdds
    BY <1>5 DEF AddIds, AddId
  <2>2. i \in DOMAIN p.updates => Stored /\ p.previous[i] = stored[i] /\ (i \in DOMAIN p.removes => ~SQL /\ p.removes[i] = p.updates[i])
    BY DEF Agrees
  <2>3. Stored /\ i \in DOMAIN p.removes /\ i \notin DOMAIN p.updates => p.removes[i] = stored[i]
    BY DEF Agrees
  <2>4. i \in DOMAIN new <=> Stored /\ i \notin DOMAIN p.removes
    BY <1>3, <1>5, <2>2 DEF Applied
  <2>5. i \in DOMAIN new => new[i] = IF i \in DOMAIN p.updates THEN p.updates[i] ELSE stored[i]
    BY <1>3, <1>5, <2>2, <2>4 DEF Applied
  <2>6. In <=> Has
    BY <1>1, <1>2, <1>3, <2>1, <2>2, <2>3, <2>4, <2>5
  <2> QED
    BY <2>6
<1> QED
  BY <1>4, <1>5

LEMMA StoreKeepsIndex ==
  ASSUME Basic, ~disturbed => Tracked, IndexKept, NEW i \in DOMAIN saves, StoreAll(i)
  PROVE  IndexKept'
<1> SUFFICES ASSUME kind.indexed, ~drift' PROVE index' \subseteq Documents' /\ Documents' \ index' \subseteq Awaited'
  BY DEF IndexKept, StoreAll, Store
<1>1. ~disturbed /\ Exempt = {} /\ ~drift
  BY DEF Suspect, Exempt, Basic, StoreAll
<1>2. i = 1 /\ Len(saves) = 1 /\ ~Quiet /\ Underway /\ ~crashed /\ Tracked
  BY <1>1, OneOut
<1> PICK p, first : p = Out.changes /\ first = nextId
  OBVIOUS
<1>3. /\ Out.state = "sent" /\ stored' = Persisted(stored, p, nextId) /\ kind' = kind
      /\ index' = Written(index, AddedRows(p), RemovedRows(p))
  <2>1. saves[1].state = "sent" /\ stored' = Persisted(stored, p, nextId) /\ kind' = kind
    BY <1>2 DEF StoreAll, Store, Out
  <2>2. index' = Written(index, AddedRows(p), RemovedRows(p))
    BY <1>2 DEF StoreAll, Out
  <2> QED
    BY <2>1, <2>2 DEF Out
<1>4. Typed /\ Shapes /\ Before /\ FitsAdds(p) /\ FitsUpdates(p) /\ FitsRest(p)
  BY <1>2, <1>3 DEF Tracked, Landed, Underway
<1>5. Agrees(p) /\ AddIdsAre(p, nextId)
  BY <1>1, <1>4, SaveAgrees, AddIdsGiven DEF Typed
<1>6. Applied(stored', stored, p, nextId)
  BY <1>3, <1>5, PersistedIs DEF AddIdsAre
<1>7. DOMAIN saves = {1}
  BY <1>2, SavesAre DEF Basic
<1>8. index = Documents
  <2>1. Awaited = {}
    BY <1>3, <1>7 DEF Awaited, Out
  <2> QED
    BY <1>1, <2>1 DEF IndexKept
<1> PICK new, rows : new = stored' /\ rows = index'
  OBVIOUS
<1>9. \A v, j : /\ <<v, j>> \in rows => j \in DOMAIN new /\ v = new[j]
                /\ j \in DOMAIN new /\ v = new[j] =>
                     \/ <<v, j>> \in rows
                     \/ kind.identity /\ \E n \in DOMAIN p.adds : j = AddId(p, n, nextId) /\ v = p.adds[n].content
  <2>1. Applied(new, stored, p, nextId) /\ rows = Written(index, AddedRows(p), RemovedRows(p))
    BY <1>3, <1>6
  <2>2. \A v, j : Describes(rows, new, p, v, j)
    BY <1>5, <1>8, <2>1, WrittenIs
  <2> QED
    BY <2>2 DEF Describes
<1>10. \A x \in rows : \E v, j : x = <<v, j>>
  <2>1. rows \subseteq Documents \cup AddedRows(p)
    BY <1>3, <1>8 DEF Written
  <2> QED
    BY <2>1, RowsOf
<1>11. Documents' = {<<new[j], j>> : j \in DOMAIN new}
  BY DEF Documents
<1>12. rows \subseteq Documents'
  <2> SUFFICES ASSUME NEW x \in rows PROVE x \in Documents'
    OBVIOUS
  <2>1. PICK v, j : x = <<v, j>>
    BY <1>10
  <2> QED
    BY <1>9, <1>11, <2>1
<1>13. kind.identity => \A n \in DOMAIN p.adds : <<p.adds[n].content, AddId(p, n, nextId)>> \in Awaited'
  <2>1. SavesShaped /\ saves' = [saves EXCEPT ![i].state = "stored", ![i].first = nextId]
    <3>1. Store(i)
      BY DEF StoreAll
    <3> QED
      BY <3>1, Zenon DEF Store, Basic
  <2>2. /\ SavesShaped' /\ Len(saves') = Len(saves) /\ saves'[i].changes = saves[i].changes
        /\ saves'[i].state = "stored" /\ saves'[i].first = nextId
    BY <2>1, SavesStore
  <2>3. /\ 1 \in DOMAIN saves' /\ saves'[1].changes = p /\ saves'[1].state = "stored" /\ saves'[1].first = nextId
    <3>1. DOMAIN saves' = 1..1
      BY <1>2, <2>2, SavesAre
    <3> QED
      BY <1>2, <2>2, <3>1 DEF Out
  <2>4. SUFFICES ASSUME kind.identity, NEW n \in DOMAIN p.adds
                 PROVE  <<p.adds[n].content, nextId + n - 1>> \in Awaited'
    BY DEF AddId
  <2>5. <<p.adds[n].content, nextId + n - 1>> \in
          {<<saves'[1].changes.adds[k].content, saves'[1].first + k - 1>> : k \in DOMAIN saves'[1].changes.adds}
    BY <2>3
  <2> QED
    <3>1. kind'.identity
      BY <1>3, <2>4
    <3>2. Awaited' = UNION {{<<saves'[j].changes.adds[k].content, saves'[j].first + k - 1>> : k \in DOMAIN saves'[j].changes.adds} :
                              j \in {j \in DOMAIN saves' : saves'[j].state # "sent"}}
      BY <3>1 DEF Awaited
    <3>3. 1 \in {j \in DOMAIN saves' : saves'[j].state # "sent"}
      BY <2>3
    <3> QED
      BY <2>5, <3>2, <3>3
<1>14. Documents' \ rows \subseteq Awaited'
  <2> SUFFICES ASSUME NEW j \in DOMAIN new, <<new[j], j>> \notin rows PROVE <<new[j], j>> \in Awaited'
    BY <1>11
  <2> QED
    BY <1>9, <1>13
<1> QED
  BY <1>12, <1>14

LEMMA IndexStep ==
  ASSUME StoreInv, [StoreNext]_allVars
  PROVE  IndexKept'
<1>1. Basic /\ (~disturbed => Tracked) /\ IndexKept
  BY DEF StoreInv
<1>2. CASE Caller
  BY <1>1, <1>2, CallerKeepsIndex
<1>3. CASE SaveAll
  BY <1>1, <1>3, SaveKeepsIndex
<1>4. ASSUME NEW i \in DOMAIN saves, StoreAll(i) PROVE IndexKept'
  BY <1>1, <1>4, StoreKeepsIndex
<1>5. ASSUME NEW i \in DOMAIN saves, RefuseAll(i) PROVE IndexKept'
  BY <1>1, <1>5, RefuseKeepsIndex
<1>6. ASSUME NEW i \in DOMAIN saves, Heard(i) PROVE IndexKept'
  BY <1>1, <1>6, HeardKeepsIndex
<1>7. ASSUME NEW i \in DOMAIN saves, IndexWritten(i) PROVE IndexKept'
  BY <1>1, <1>7, WrittenKeepsIndex
<1>8. ASSUME NEW i \in DOMAIN saves, IndexFailed(i) PROVE IndexKept'
  BY <1>8 DEF IndexFailed, IndexKept
<1>9. CASE Crash
  BY <1>1, <1>9, CrashKeepsIndex
<1>10. CASE ReadDocuments \/ ReadIndex \/ WriteDifference \/ UNCHANGED allVars
  BY <1>1, <1>10, RebuildKeepsIndex
<1> QED
  BY <1>2, <1>3, <1>4, <1>5, <1>6, <1>7, <1>8, <1>9, <1>10 DEF StoreNext

LEMMA InductiveInvariant ==
  ASSUME Careful
  PROVE  StoreSpec => []StoreInv
<1>1. StoreInit => StoreInv
  BY StartsWell
<1>2. StoreInv /\ [StoreNext]_allVars => StoreInv'
  <2> SUFFICES ASSUME StoreInv, [StoreNext]_allVars PROVE StoreInv'
    OBVIOUS
  <2>1. Basic'
    BY BasicStep DEF StoreInv
  <2>2. ~disturbed' => Tracked'
    BY TrackedStep DEF StoreInv
  <2>3. IndexKept'
    BY IndexStep
  <2> QED
    BY <2>1, <2>2, <2>3 DEF StoreInv
<1> QED
  BY <1>1, <1>2, PTL DEF StoreSpec

-----------------------------------------------------------------------------
(* What the collection and its index promise.                               *)

\* Between saves the index has a row for each document and no other, of whatever
\* saves, answers, ends of the process and rebuilds went before (apply and
\* indexDeferredAdds of FullTextSearchIndexer), unless one of the known causes
\* of drift has occurred since the last rebuild that ran alone.
THEOREM IndexDescribes ==
  ASSUME Careful
  PROVE  StoreSpec => []IndexDescribesDocuments
<1>1. StoreInv => IndexDescribesDocuments
  <2> SUFFICES ASSUME IndexKept, kind.indexed, saves = <<>>, ~drift PROVE index = Documents
    BY DEF StoreInv, IndexDescribesDocuments
  <2>1. Awaited = {}
    BY DEF Awaited
  <2> QED
    BY <2>1 DEF IndexKept
<1> QED
  BY <1>1, InductiveInvariant, PTL

\* A row that has nothing to save shows what the database holds, for the three
\* ways of tracking edits (mergeChanges and clearChanges of the trackers, and
\* resolve of an answer), as long as no call was made while a save was out.
THEOREM CleanIsStored ==
  ASSUME Careful
  PROVE  StoreSpec => []CleanMeansStored
<1>1. StoreInv => CleanMeansStored
  BY CleanHolds DEF StoreInv, CleanMeansStored, CleanShown, Exempt
<1> QED
  BY <1>1, InductiveInvariant, PTL

\* Between saves, after refusals and answers read late too, prepare describes a
\* save that the database's unique keys let in and that leaves of each row what
\* the caller last gave it, and no document without a row.
THEOREM SavesAsAsked ==
  ASSUME Careful
  PROVE  StoreSpec => []SavedAsAsked
<1>1. StoreInv => SavedAsAsked
  <2> SUFFICES ASSUME StoreInv, ~crashed, saves = <<>>, ~disturbed
               PROVE  /\ \A r \in Rows \ (excused \cup outdated) : NextStored(r) = Asked(r)
                      /\ DOMAIN stored \subseteq {row[r].id : r \in Rows}
                      /\ ~Suspect /\ ~drift => ~Refused(Prepared)
    BY DEF SavedAsAsked, TrackedBetweenSaves, Suspect, StoreInv, Basic
  <2>1. Basic /\ Tracked /\ Typed /\ Shapes /\ Before /\ Quiet
    BY DEF StoreInv, Tracked, Landed, Quiet
  <2> PICK p : p = Prepared
    OBVIOUS
  <2>2. FitsAdds(p) /\ FitsUpdates(p) /\ FitsRest(p)
    BY <2>1, PreparedFits
  <2>3. HoldsAsked(Persisted(stored, p, nextId), p, nextId)
    BY <2>1, <2>2, WillHold
  <2>4. AddIdsAre(p, nextId)
    BY <2>1, <2>2, AddIdsGiven DEF Typed
  <2>5. ASSUME NEW r \in Rows \ Exempt PROVE NextStored(r) = Asked(r)
    <3> DEFINE db == Persisted(stored, p, nextId)
               new == {AddId(p, n, nextId) : n \in {m \in DOMAIN additions : additions[m].row = r}}
               ids == IF row[r].id # 0 THEN {row[r].id} ELSE new
    <3>1. NextStored(r) = {db[j] : j \in ids \cap DOMAIN db}
      BY DEF NextStored
    <3>2. RowShape(r) /\ 0 \notin DOMAIN db /\ DOMAIN p.adds = DOMAIN additions
      <4>1. IsStore(db)
        BY <2>1, <2>2, WillHold
      <4> QED
        BY <2>1, <2>2, <4>1 DEF Shapes, IsStore, Ids, FitsAdds
    <3>3. CASE row[r].attached
      <4>1. ids = {row[r].id} /\ AskedOf(r, row[r].id, db)
        BY <2>3, <3>2, <3>3 DEF RowShape, HoldsAsked
      <4> HIDE DEF db, ids
      <4> QED
        BY <3>1, <4>1 DEF AskedOf, Asked
    <3>4. CASE Pending(r)
      <4>1. PICK n \in DOMAIN additions : additions[n].row = r /\ \A m \in DOMAIN additions : additions[m].row = r => m = n
        BY <2>1, <3>4 DEF Pending, Shapes, DistinctRows
      <4>2. ids = {AddId(p, n, nextId)}
        <5>1. CASE kind.identity
          BY <3>2, <3>4, <4>1, <5>1 DEF RowShape
        <5>2. CASE ~kind.identity
          <6>1. AddId(p, n, nextId) = r /\ row[r].id = r /\ r # 0
            BY <2>4, <3>2, <4>1, <5>2, RowsAre DEF AddIdsAre
          <6> QED
            BY <6>1
        <5> QED
          BY <5>1, <5>2
      <4>3. AskedOf(r, AddId(p, n, nextId), db)
        BY <2>3, <4>1 DEF HoldsAsked
      <4> HIDE DEF db, ids
      <4> QED
        BY <3>1, <4>2, <4>3 DEF AskedOf, Asked
    <3>5. CASE ~row[r].attached /\ ~Pending(r)
      <4>1. ids = {} /\ wanted[r] = 0
        BY <3>2, <3>5 DEF RowShape, Pending
      <4> QED
        BY <3>1, <4>1 DEF Asked
    <3> QED
      BY <3>3, <3>4, <3>5
  <2>6. ASSUME ~Suspect, ~drift PROVE ~Refused(p)
    <3>1. ~Clashes(stored, p)
      BY <2>1, <2>2, NoKeyClashes
    <3>2. kind.indexed => ~ClashesInIndex(index, AddedRows(p), RemovedRows(p))
      <4> SUFFICES ASSUME kind.indexed PROVE ~ClashesInIndex(index, AddedRows(p), RemovedRows(p))
        OBVIOUS
      <4>1. Exempt = {}
        BY <2>6 DEF Suspect, Exempt
      <4>2. Awaited = {}
        BY <2>1 DEF Awaited, Quiet
      <4>3. index = Documents
        BY <2>6, <4>2 DEF StoreInv, IndexKept
      <4> QED
        BY <2>1, <2>2, <4>1, <4>3, SaveAgrees, NoRowClashes
    <3> QED
      BY <3>1, <3>2 DEF Refused
  <2> QED
    BY <2>1, <2>5, <2>6 DEF Before, Exempt
<1> QED
  BY <1>1, InductiveInvariant, PTL

-----------------------------------------------------------------------------
(* The queue of BatchingDbPlugin.                                          *)

\* While a failed group is re-run item by item no group is out.
GroupsOnlyBetweenRetries == Len(inFlight) > 1 => retry = <<>>

-----------------------------------------------------------------------------
(* Type correctness.                                                       *)

LEMMA CutIsSeq ==
  ASSUME NEW S, NEW s \in Seq(S), NEW n \in 0..Len(s)
  PROVE  /\ SubSeq(s, 1, n) \in Seq(S)
         /\ SubSeq(s, n + 1, Len(s)) \in Seq(S)
         /\ SubSeq(s, 1, n) \o SubSeq(s, n + 1, Len(s)) = s
         /\ Len(SubSeq(s, 1, n)) = n
         /\ n > 0 => SubSeq(s, 1, n) # <<>>
<1>1. SubSeq(s, 1, n) \in Seq(S) /\ Len(SubSeq(s, 1, n)) = n
  BY ElementOfSeq, SubSeqProperties
<1>2. SubSeq(s, n + 1, Len(s)) \in Seq(S)
  BY ElementOfSeq, SubSeqProperties
<1>3. SubSeq(s, 1, n) \o SubSeq(s, n + 1, Len(s)) = SubSeq(s, 1, Len(s))
  <2>1. /\ Len(s) \in Nat /\ 1 \in 1..Len(s) + 1
        /\ n \in 1 - 1..Len(s) /\ Len(s) \in n..Len(s)
    BY LenProperties
  <2>2. QED BY <2>1, ConcatAdjacentSubSeq
<1>4. n > 0 => SubSeq(s, 1, n) # <<>>
  BY <1>1, EmptySeq
<1>5. QED BY <1>1, <1>2, <1>3, <1>4, SubSeqFull

LEMMA ThreeWayConcat ==
  ASSUME NEW S, NEW s \in Seq(S), NEW t \in Seq(S), NEW u \in Seq(S)
  PROVE  /\ (s \o t) \o u = s \o (t \o u)
         /\ s \o t \in Seq(S) /\ (s \o t) \o u \in Seq(S)
BY ConcatAssociative, ConcatProperties, SMTT(60)

LEMMA AnsweredType ==
  ASSUME TypeOK, NEW ws, NEW o \in Outcomes \cup {"destroyed"}
  PROVE  Answered(ws, o) \in [Writes -> Seq(Outcomes \cup {"destroyed"})]
BY AppendProperties DEF TypeOK, Answered

LEMMA DrainType ==
  ASSUME TypeOK, retry = <<>>,
         NEW waiting \in Seq(Writes), waiting # <<>>, Drain(waiting)
  PROVE  /\ queue' \in Seq(Writes) /\ batch' \in Seq(Writes)
         /\ retry' \in Seq(Writes) /\ inFlight' \in Seq(Writes)
         /\ isWriting' = TRUE
         /\ inFlight' \o retry' \o batch' \o queue' = waiting
         /\ inFlight' # <<>>
         /\ Len(inFlight') > 1 => retry' = <<>>
<1> DEFINE size == IF Len(waiting) < MaxBatchSize THEN Len(waiting) ELSE MaxBatchSize
           taken == SubSeq(waiting, 1, size)
           rest == SubSeq(waiting, size + 1, Len(waiting))
<1>1. size \in 1..Len(waiting)
  BY BatchSizeAssumption, LenProperties, EmptySeq
<1> HIDE DEF size
<1>2. taken \in Seq(Writes) /\ rest \in Seq(Writes) /\ taken \o rest = waiting
      /\ Len(taken) = size
  BY <1>1, CutIsSeq
<1>3. queue' = rest /\ isWriting' = TRUE
  BY DEF Drain, size
<1> HIDE DEF taken, rest
<1>4. CASE SendGroup(taken)
  <2>1. PICK n \in 1..Len(taken) :
          /\ inFlight' = SubSeq(taken, 1, n)
          /\ batch' = SubSeq(taken, n + 1, Len(taken))
          /\ retry' = <<>>
    BY <1>4 DEF SendGroup
  <2>2. /\ inFlight' \in Seq(Writes) /\ batch' \in Seq(Writes)
        /\ inFlight' \o batch' = taken
        /\ inFlight' # <<>>
    <3>1. n \in 0..Len(taken) /\ n > 0 /\ taken \in Seq(Writes)
      BY <1>2, LenProperties
    <3>2. /\ SubSeq(taken, 1, n) \in Seq(Writes)
          /\ SubSeq(taken, n + 1, Len(taken)) \in Seq(Writes)
          /\ SubSeq(taken, 1, n) \o SubSeq(taken, n + 1, Len(taken)) = taken
          /\ SubSeq(taken, 1, n) # <<>>
      BY <3>1, CutIsSeq
    <3>3. QED BY <2>1, <3>2
  <2>3. inFlight' \o retry' \o batch' \o queue' = waiting
    BY <2>1, <2>2, <1>2, <1>3, ConcatEmptySeq
  <2>4. retry' \in Seq(Writes)
    BY <2>1
  <2>5. QED BY <2>1, <2>2, <2>3, <2>4, <1>2, <1>3
<1>5. CASE SendAlone(taken) /\ batch' = <<>>
  <2>1. taken # <<>>
    BY <1>1, <1>2
  <2>2. inFlight' = <<Head(taken)>> /\ retry' = Tail(taken)
    BY <1>5 DEF SendAlone
  <2>3. /\ Head(taken) \in Writes
        /\ Tail(taken) \in Seq(Writes)
        /\ <<Head(taken)>> \o Tail(taken) = taken
    BY <2>1, <1>2, HeadTailProperties, SubSeqRecursiveFirst, SubSeqFull, TailIsSubSeq
  <2>4. inFlight' \o retry' \o batch' \o queue' = waiting
    BY <2>2, <2>3, <1>5, <1>2, <1>3, ConcatEmptySeq
  <2>5. QED BY <2>2, <2>3, <2>4, <1>2, <1>3, <1>5
<1>6. QED BY <1>4, <1>5 DEF Drain, size, taken

(* What each operation does to the type invariant, the two facts and       *)
(* Unanswered.                                                             *)

Shape == TypeOK /\ LatchUpExactlyWhileWorking /\ GroupsOnlyBetweenRetries

LEMMA BulkPersistShape ==
  ASSUME Shape, NEW w \in Writes, BulkPersist(w)
  PROVE  Shape' /\ Unanswered' = Append(Unanswered, w)
<1> USE DEF Shape, BulkPersist
<1>1. /\ TypeOK
      /\ UNCHANGED <<continuing, isDestroyed, onSettled, destroying, forwarded, answer, log>>
      /\ arrived' = Append(arrived, w) /\ arrived' \in Seq(Writes)
      /\ Append(queue, w) \in Seq(Writes) /\ Append(queue, w) # <<>>
      /\ Append(queue, w) = queue \o <<w>>
  BY ZenonT(60), AppendProperties, AppendIsConcat DEF TypeOK
<1>2. CASE isWriting
  <2>1. queue' = Append(queue, w) /\ UNCHANGED <<batch, retry, inFlight, isWriting>>
    BY <1>2
  <2>2. Shape'
    <3>1. TypeOK'
      BY <1>1, <2>1, <1>2 DEF TypeOK
    <3>2. LatchUpExactlyWhileWorking' /\ GroupsOnlyBetweenRetries'
      BY <1>1, <2>1, <1>2 DEF LatchUpExactlyWhileWorking, GroupsOnlyBetweenRetries
    <3>3. QED BY <3>1, <3>2
  <2>3. inFlight \o retry \o batch \in Seq(Writes)
    BY <1>1, ConcatProperties, SMTT(60) DEF TypeOK
  <2>4. (inFlight \o retry \o batch) \o (queue \o <<w>>)
          = ((inFlight \o retry \o batch) \o queue) \o <<w>>
    <3>1. queue \in Seq(Writes) /\ <<w>> \in Seq(Writes)
      BY <1>1 DEF TypeOK
    <3>2. QED BY <2>3, <3>1, ThreeWayConcat, SMTT(60)
  <2>5. Unanswered \in Seq(Writes)
    BY <2>3, ConcatProperties, SMTT(60) DEF TypeOK, Unanswered
  <2>6. Unanswered' = Append(Unanswered, w)
    BY <1>1, <2>1, <2>4, <2>5, AppendIsConcat DEF Unanswered
  <2>7. QED BY <2>2, <2>6
<1>3. CASE ~isWriting
  <2>1. /\ inFlight = <<>> /\ retry = <<>> /\ batch = <<>> /\ queue = <<>>
        /\ Drain(Append(queue, w))
    BY <1>3 DEF LatchUpExactlyWhileWorking
  <2>2. /\ queue' \in Seq(Writes) /\ batch' \in Seq(Writes)
        /\ retry' \in Seq(Writes) /\ inFlight' \in Seq(Writes)
        /\ isWriting' = TRUE
        /\ inFlight' \o retry' \o batch' \o queue' = Append(queue, w)
        /\ inFlight' # <<>>
        /\ Len(inFlight') > 1 => retry' = <<>>
    BY <1>1, <2>1, DrainType
  <2>3. Shape'
    <3>1. TypeOK'
      BY <1>1, <2>2 DEF TypeOK
    <3>2. ~continuing /\ continuing' = continuing
      BY <1>1, <1>3 DEF LatchUpExactlyWhileWorking
    <3>3. LatchUpExactlyWhileWorking'
      BY <2>2, <3>2 DEF LatchUpExactlyWhileWorking
    <3>4. GroupsOnlyBetweenRetries'
      BY <2>2 DEF GroupsOnlyBetweenRetries
    <3>5. QED BY <3>1, <3>3, <3>4
  <2>4. Unanswered = queue
    BY <2>1, ConcatEmptySeq DEF Unanswered, TypeOK
  <2>5. QED BY <2>2, <2>3, <2>4 DEF Unanswered
<1>4. QED BY <1>2, <1>3

LEMMA RefusedShape ==
  ASSUME Shape, NEW w \in Writes, BulkPersistDestroyed(w)
  PROVE  Shape' /\ Unanswered' = Unanswered
<1>1. answer' \in [Writes -> Seq(Outcomes \cup {"destroyed"})]
  BY AnsweredType DEF Shape, BulkPersistDestroyed
<1>2. UNCHANGED <<plugin, destroying, forwarded, arrived, log>>
  BY DEF BulkPersistDestroyed
<1>3. QED
  BY <1>1, <1>2
     DEF Shape, TypeOK, LatchUpExactlyWhileWorking, GroupsOnlyBetweenRetries, Unanswered, plugin

LEMMA DestroyShape ==
  ASSUME Shape, NEW d \in Destroyers, Destroy(d)
  PROVE  /\ Shape'
         /\ Unanswered' \in Seq(Writes)
         /\ Unanswered = Unanswered' \o queue
<1>1. answer' \in [Writes -> Seq(Outcomes \cup {"destroyed"})]
  BY AnsweredType DEF Shape, Destroy
<1>2. /\ isDestroyed' = TRUE /\ queue' = <<>>
      /\ destroying' = destroying \cup {d}
      /\ UNCHANGED <<batch, retry, inFlight, isWriting, continuing, arrived, log>>
      /\ onSettled' \in {onSettled, d}
      /\ forwarded' \in {forwarded, Append(forwarded, d)}
  BY DEF Destroy
<1>3. Shape'
  <2>1. TypeOK /\ LatchUpExactlyWhileWorking /\ GroupsOnlyBetweenRetries
    BY DEF Shape
  <2>2. forwarded' \in Seq(Destroyers)
    <3>1. forwarded \in Seq(Destroyers)
      BY <2>1 DEF TypeOK
    <3>2. Append(forwarded, d) \in Seq(Destroyers)
      BY <3>1, AppendProperties
    <3>3. QED BY <1>2, <3>1, <3>2
  <2>3. queue' \in Seq(Writes)
    BY <1>2
  <2>4. TypeOK'
    BY <1>1, <1>2, <2>1, <2>2, <2>3 DEF TypeOK
  <2>5. LatchUpExactlyWhileWorking' /\ GroupsOnlyBetweenRetries'
    BY <1>2, <2>1 DEF LatchUpExactlyWhileWorking, GroupsOnlyBetweenRetries
  <2>6. QED BY <2>4, <2>5 DEF Shape
<1>4. inFlight \o retry \o batch \in Seq(Writes)
  BY ConcatProperties DEF Shape, TypeOK
<1>5. Unanswered' = inFlight \o retry \o batch
  BY <1>2, <1>4, ConcatEmptySeq DEF Unanswered
<1>6. QED BY <1>3, <1>4, <1>5 DEF Unanswered

LEMMA InnerAnswersShape ==
  ASSUME Shape, NEW o \in Outcomes, InnerAnswers(o)
  PROVE  /\ Shape'
         /\ \/ UNCHANGED <<Unanswered, answer>>
            \/ /\ Unanswered' \in Seq(Writes)
               /\ Unanswered = inFlight \o Unanswered'
               /\ inFlight # <<>>
               /\ answer' = Answered(inFlight, o)
<1> USE DEF Shape
<1>1. /\ inFlight # <<>> /\ inFlight' = <<>> /\ continuing' = TRUE
      /\ UNCHANGED <<queue, batch, isWriting, isDestroyed, onSettled,
                     destroying, forwarded, arrived>>
  BY DEF InnerAnswers
<1>2. EventOperation(inFlight) \subseteq Writes \X Schemas
  BY DEF EventOperation
<1>3. \A applied \in MayApply(o) : applied \in SUBSET (Writes \X Schemas)
  BY <1>2, AtomicAssumption DEF MayApply, Outcomes
<1>4. log' \in Seq(SUBSET (Writes \X Schemas))
  BY <1>3, AppendProperties DEF InnerAnswers, TypeOK
<1>5. /\ queue \in Seq(Writes) /\ batch \in Seq(Writes)
      /\ retry \in Seq(Writes) /\ inFlight \in Seq(Writes)
  BY DEF TypeOK
<1>6. CASE o = "error" /\ Len(inFlight) > 1
  <2>1. retry' = inFlight /\ answer' = answer /\ retry = <<>>
    BY <1>6 DEF InnerAnswers, GroupsOnlyBetweenRetries
  <2>2. Shape'
    BY <1>1, <1>4, <1>5, <2>1
       DEF TypeOK, LatchUpExactlyWhileWorking, GroupsOnlyBetweenRetries
  <2>3. inFlight \o <<>> = <<>> \o inFlight
    BY <1>5, ConcatEmptySeq
  <2>4. Unanswered' = Unanswered
    BY <1>1, <2>1, <2>3 DEF Unanswered
  <2>5. QED BY <2>1, <2>2, <2>4
<1>7. CASE ~(o = "error" /\ Len(inFlight) > 1)
  <2>1. answer' = Answered(inFlight, o) /\ retry' = retry
    BY <1>7 DEF InnerAnswers
  <2>2. answer' \in [Writes -> Seq(Outcomes \cup {"destroyed"})]
    BY <2>1, AnsweredType
  <2>3. Shape'
    BY <1>1, <1>4, <1>5, <2>1, <2>2
       DEF TypeOK, LatchUpExactlyWhileWorking, GroupsOnlyBetweenRetries
  <2>4. Unanswered' = (retry \o batch) \o queue
    BY <1>1, <2>1, <1>5, ConcatEmptySeq DEF Unanswered
  <2>5. retry \o batch \in Seq(Writes)
    BY <1>5, ConcatProperties, SMTT(60)
  <2>6. (inFlight \o retry) \o batch = inFlight \o (retry \o batch)
    BY <1>5, ConcatAssociative, SMTT(60)
  <2>7. (inFlight \o (retry \o batch)) \o queue = inFlight \o ((retry \o batch) \o queue)
    <3>1. inFlight \in Seq(Writes) /\ queue \in Seq(Writes)
      BY <1>5
    <3>2. QED BY <2>5, <3>1, ThreeWayConcat, SMTT(60)
  <2>8. Unanswered' \in Seq(Writes)
    BY <2>4, <2>5, <1>5, ConcatProperties, SMTT(60)
  <2>9. QED BY <1>1, <2>1, <2>3, <2>4, <2>6, <2>7, <2>8 DEF Unanswered
<1>8. QED BY <1>6, <1>7

LEMMA AdvanceShape ==
  ASSUME Shape, Advance
  PROVE  Shape' /\ Unanswered' = Unanswered
<1> USE DEF Shape
<1>1. /\ isWriting /\ inFlight = <<>> /\ continuing' = FALSE
      /\ UNCHANGED <<isDestroyed, destroying, answer, arrived, log>>
  BY DEF Advance, LatchUpExactlyWhileWorking
<1>2. /\ queue \in Seq(Writes) /\ batch \in Seq(Writes)
      /\ retry \in Seq(Writes) /\ inFlight \in Seq(Writes)
  BY DEF TypeOK
<1>3. CASE /\ retry # <<>> /\ SendAlone(retry)
           /\ UNCHANGED <<queue, batch, isWriting, onSettled, forwarded>>
  <2>1. /\ Head(retry) \in Writes /\ Tail(retry) \in Seq(Writes)
        /\ <<Head(retry)>> \o Tail(retry) = retry
    BY <1>2, <1>3, HeadTailProperties, SubSeqRecursiveFirst, SubSeqFull, TailIsSubSeq
  <2>2. inFlight' = <<Head(retry)>> /\ retry' = Tail(retry)
    BY <1>3 DEF SendAlone
  <2>3. inFlight' \in Seq(Writes) /\ Len(inFlight') = 1 /\ retry' \in Seq(Writes)
    BY <2>1, <2>2
  <2>4. Shape'
    <3>1. TypeOK'
      BY <1>1, <1>2, <1>3, <2>3 DEF TypeOK
    <3>2. inFlight' # <<>> /\ isWriting' = isWriting
      BY <1>3, <2>3
    <3>3. LatchUpExactlyWhileWorking'
      BY <1>1, <3>2 DEF LatchUpExactlyWhileWorking
    <3>4. GroupsOnlyBetweenRetries'
      BY <2>3 DEF GroupsOnlyBetweenRetries
    <3>5. QED BY <3>1, <3>3, <3>4
  <2>5. <<>> \o retry = retry
    BY <1>2, ConcatEmptySeq
  <2>6. inFlight' \o retry' = inFlight \o retry
    BY <1>1, <2>1, <2>2, <2>5
  <2>7. Unanswered' = Unanswered
    BY <1>3, <2>6 DEF Unanswered
  <2>8. QED BY <2>4, <2>7
<1>4. CASE /\ retry = <<>> /\ batch # <<>> /\ SendGroup(batch)
           /\ UNCHANGED <<queue, isWriting, onSettled, forwarded>>
  <2>1. PICK n \in 1..Len(batch) :
          /\ inFlight' = SubSeq(batch, 1, n)
          /\ batch' = SubSeq(batch, n + 1, Len(batch))
          /\ retry' = retry
    BY <1>4 DEF SendGroup
  <2>2. /\ inFlight' \in Seq(Writes) /\ batch' \in Seq(Writes)
        /\ inFlight' \o batch' = batch
        /\ inFlight' # <<>>
    <3>1. n \in 0..Len(batch) /\ n > 0 /\ batch \in Seq(Writes)
      BY <1>2, LenProperties
    <3>2. /\ SubSeq(batch, 1, n) \in Seq(Writes)
          /\ SubSeq(batch, n + 1, Len(batch)) \in Seq(Writes)
          /\ SubSeq(batch, 1, n) \o SubSeq(batch, n + 1, Len(batch)) = batch
          /\ SubSeq(batch, 1, n) # <<>>
      BY <3>1, CutIsSeq
    <3>3. QED BY <2>1, <3>2
  <2>3. Shape'
    BY <1>1, <1>2, <1>4, <2>1, <2>2
       DEF TypeOK, LatchUpExactlyWhileWorking, GroupsOnlyBetweenRetries
  <2>4. inFlight' \o retry' \o batch' = batch
    BY <1>4, <2>1, <2>2, ConcatEmptySeq
  <2>5. inFlight \o retry \o batch = batch
    BY <1>1, <1>2, <1>4, ConcatEmptySeq
  <2>6. Unanswered' = Unanswered
    BY <1>4, <2>4, <2>5 DEF Unanswered
  <2>7. QED BY <2>3, <2>6
<1>5. CASE /\ retry = <<>> /\ batch = <<>> /\ queue # <<>> /\ Drain(queue)
           /\ UNCHANGED <<onSettled, forwarded>>
  <2>1. /\ queue' \in Seq(Writes) /\ batch' \in Seq(Writes)
        /\ retry' \in Seq(Writes) /\ inFlight' \in Seq(Writes)
        /\ isWriting' = TRUE
        /\ inFlight' \o retry' \o batch' \o queue' = queue
        /\ inFlight' # <<>>
        /\ Len(inFlight') > 1 => retry' = <<>>
    BY <1>2, <1>5, DrainType
  <2>2. Shape'
    BY <1>1, <1>5, <2>1 DEF TypeOK, LatchUpExactlyWhileWorking, GroupsOnlyBetweenRetries
  <2>3. Unanswered = queue
    BY <1>1, <1>2, <1>5, ConcatEmptySeq DEF Unanswered
  <2>4. QED BY <2>1, <2>2, <2>3 DEF Unanswered
<1>6. CASE retry = <<>> /\ batch = <<>> /\ queue = <<>> /\ Settle
  <2>1. /\ isWriting' = FALSE /\ onSettled' = NoDestroyer
        /\ UNCHANGED <<queue, batch, retry, inFlight>>
        /\ forwarded' \in Seq(Destroyers)
    BY <1>6, AppendProperties DEF Settle, TypeOK
  <2>2. Shape'
    BY <1>1, <1>2, <1>6, <2>1
       DEF TypeOK, LatchUpExactlyWhileWorking, GroupsOnlyBetweenRetries
  <2>3. QED BY <2>1, <2>2 DEF Unanswered
<1>7. QED BY <1>3, <1>4, <1>5, <1>6 DEF Advance

-----------------------------------------------------------------------------
(* The invariant.                                                          *)

Distinct(s) == \A i, j \in DOMAIN s : i # j => s[i] # s[j]

\* What is held was accepted, once, and is not answered; what was accepted
\* and is not held was answered once.
Ledger ==
  /\ EachWriteHeldOrAnsweredOnce
  /\ Elements(Unanswered) \subseteq Elements(arrived)

IInv == Shape /\ Ledger

LEMMA ElementsOfConcat ==
  ASSUME NEW S, NEW s \in Seq(S), NEW t \in Seq(S)
  PROVE  Elements(s \o t) = Elements(s) \cup Elements(t)
<1>1. /\ Len(s) \in Nat /\ Len(t) \in Nat
      /\ DOMAIN s = 1..Len(s) /\ DOMAIN t = 1..Len(t)
      /\ DOMAIN (s \o t) = 1..(Len(s) + Len(t))
      /\ \A i \in 1..Len(s) + Len(t) :
           (s \o t)[i] = IF i <= Len(s) THEN s[i] ELSE t[i - Len(s)]
  BY ConcatProperties, LenProperties
<1>2. ASSUME NEW x \in Elements(s) PROVE x \in Elements(s \o t)
  BY <1>1 DEF Elements
<1>3. ASSUME NEW x \in Elements(t) PROVE x \in Elements(s \o t)
  <2>1. PICK i \in 1..Len(t) : x = t[i]
    BY <1>1 DEF Elements
  <2>2. /\ i + Len(s) \in 1..Len(s) + Len(t) /\ ~(i + Len(s) <= Len(s))
        /\ (i + Len(s)) - Len(s) = i
    BY <1>1
  <2>3. QED BY <1>1, <2>1, <2>2 DEF Elements
<1>4. ASSUME NEW x \in Elements(s \o t) PROVE x \in Elements(s) \cup Elements(t)
  BY <1>1 DEF Elements
<1>5. QED BY <1>2, <1>3, <1>4

LEMMA DistinctParts ==
  ASSUME NEW S, NEW s \in Seq(S), NEW t \in Seq(S), Distinct(s \o t)
  PROVE  Distinct(s) /\ Distinct(t) /\ Elements(s) \cap Elements(t) = {}
<1>1. /\ Len(s) \in Nat /\ Len(t) \in Nat
      /\ DOMAIN s = 1..Len(s) /\ DOMAIN t = 1..Len(t)
      /\ DOMAIN (s \o t) = 1..(Len(s) + Len(t))
      /\ \A i \in 1..Len(s) + Len(t) :
           (s \o t)[i] = IF i <= Len(s) THEN s[i] ELSE t[i - Len(s)]
  BY ConcatProperties, LenProperties
<1>2. \A i \in 1..Len(s) : i \in 1..Len(s) + Len(t) /\ (s \o t)[i] = s[i]
  BY <1>1
<1>3. \A i \in 1..Len(t) : /\ i + Len(s) \in 1..Len(s) + Len(t)
                           /\ (s \o t)[i + Len(s)] = t[i]
  BY <1>1
<1>4. Distinct(s)
  BY <1>1, <1>2 DEF Distinct
<1>5. Distinct(t)
  <2>1. \A i, j \in 1..Len(t) : i # j => i + Len(s) # j + Len(s)
    BY <1>1
  <2>2. SUFFICES ASSUME NEW i \in 1..Len(t), NEW j \in 1..Len(t), i # j
                 PROVE  t[i] # t[j]
    BY <1>1 DEF Distinct
  <2>3. (s \o t)[i + Len(s)] # (s \o t)[j + Len(s)]
    BY <1>1, <1>3, <2>1, <2>2 DEF Distinct
  <2>4. QED BY <1>3, <2>3
<1>6. \A i \in 1..Len(s), j \in 1..Len(t) : s[i] # t[j]
  <2>1. \A i \in 1..Len(s), j \in 1..Len(t) : i # j + Len(s)
    BY <1>1
  <2>2. QED BY <1>1, <1>2, <1>3, <2>1 DEF Distinct
<1>7. QED BY <1>1, <1>4, <1>5, <1>6 DEF Elements

LEMMA AppendedElements ==
  ASSUME NEW S, NEW s \in Seq(S), NEW x \in S
  PROVE  /\ Elements(Append(s, x)) = Elements(s) \cup {x}
         /\ Distinct(s) /\ x \notin Elements(s) => Distinct(Append(s, x))
<1>1. /\ Len(s) \in Nat /\ DOMAIN s = 1..Len(s)
      /\ DOMAIN Append(s, x) = 1..Len(s) + 1
      /\ \A i \in 1..Len(s) : Append(s, x)[i] = s[i]
      /\ Append(s, x)[Len(s) + 1] = x
  BY AppendProperties, LenProperties
<1>2. QED BY <1>1 DEF Elements, Distinct

LEMMA UnansweredType == Shape => Unanswered \in Seq(Writes)
<1> SUFFICES ASSUME Shape PROVE Unanswered \in Seq(Writes)
  OBVIOUS
<1>1. /\ queue \in Seq(Writes) /\ batch \in Seq(Writes)
      /\ retry \in Seq(Writes) /\ inFlight \in Seq(Writes)
  BY DEF Shape, TypeOK
<1>2. inFlight \o retry \in Seq(Writes)
  BY <1>1, ConcatProperties
<1>3. (inFlight \o retry) \o batch \in Seq(Writes)
  BY <1>1, <1>2, ConcatProperties
<1>4. QED BY <1>1, <1>3, ConcatProperties DEF Unanswered

\* A sequence without repetitions, cut in two.
LEMMA CutElements ==
  ASSUME NEW S, NEW whole, NEW cut \in Seq(S), NEW left \in Seq(S),
         whole = cut \o left \/ whole = left \o cut, Distinct(whole)
  PROVE  /\ Elements(whole) = Elements(cut) \cup Elements(left)
         /\ Elements(cut) \cap Elements(left) = {}
         /\ Distinct(left)
<1>1. CASE whole = cut \o left
  BY <1>1, ElementsOfConcat, DistinctParts
<1>2. CASE whole = left \o cut
  <2>1. Distinct(left \o cut)
    BY <1>2
  <2>2. Distinct(left) /\ Elements(left) \cap Elements(cut) = {}
    BY <2>1, DistinctParts
  <2>3. Elements(left \o cut) = Elements(left) \cup Elements(cut)
    BY ElementsOfConcat
  <2>4. QED BY <1>2, <2>2, <2>3
<1>3. QED BY <1>1, <1>2

\* Cutting a part of Unanswered off and answering exactly that part keeps the
\* ledger, whichever end the part is cut from.
LEMMA CutKeepsLedger ==
  ASSUME IInv, NEW o \in Outcomes \cup {"destroyed"},
         NEW cut \in Seq(Writes), Unanswered' \in Seq(Writes),
         Unanswered = cut \o Unanswered' \/ Unanswered = Unanswered' \o cut,
         answer' = Answered(cut, o), arrived' = arrived
  PROVE  Ledger'
<1>1. Distinct(Unanswered)
  BY DEF IInv, Ledger, EachWriteHeldOrAnsweredOnce, Distinct
<1>2. /\ Elements(Unanswered) = Elements(cut) \cup Elements(Unanswered')
      /\ Elements(cut) \cap Elements(Unanswered') = {}
      /\ Distinct(Unanswered')
  BY <1>1, CutElements
<1>3. /\ Elements(Unanswered) \subseteq Elements(arrived)
      /\ \A w \in Elements(arrived) :
           (answer[w] = <<>>) <=> (w \in Elements(Unanswered))
      /\ \A w \in Writes : Len(answer[w]) <= 1
  BY DEF IInv, Ledger, EachWriteHeldOrAnsweredOnce
<1>4. arrived \in Seq(Writes)
  BY DEF IInv, Shape, TypeOK
<1>5. Elements(arrived) \subseteq Writes
  BY <1>4, ElementOfSeq, LenProperties DEF Elements
<1>6. ASSUME NEW w \in Writes
      PROVE  answer'[w] = IF w \in Elements(cut) THEN <<o>> ELSE answer[w]
  <2>1. CASE w \in Elements(cut)
    <3>1. answer[w] = <<>>
      BY <1>2, <1>3, <2>1
    <3>2. answer'[w] = Append(answer[w], o)
      BY <2>1 DEF Answered
    <3>3. QED BY <3>1, <3>2, <2>1
  <2>2. CASE w \notin Elements(cut)
    BY <2>2 DEF Answered
  <2>3. QED BY <2>1, <2>2
<1>7. \A w \in Writes : Len(answer'[w]) <= 1
  <2>1. Len(<<o>>) <= 1
    OBVIOUS
  <2>2. QED BY <1>3, <1>6, <2>1
<1>8. \A w \in Elements(arrived) :
        (answer'[w] = <<>>) <=> (w \in Elements(Unanswered'))
  <2>1. <<o>> # <<>>
    OBVIOUS
  <2>2. SUFFICES ASSUME NEW w \in Elements(arrived)
                 PROVE  (answer'[w] = <<>>) <=> (w \in Elements(Unanswered'))
    OBVIOUS
  <2>3. answer'[w] = IF w \in Elements(cut) THEN <<o>> ELSE answer[w]
    BY <1>5, <1>6
  <2>4. (answer[w] = <<>>) <=> (w \in Elements(cut) \/ w \in Elements(Unanswered'))
    BY <1>2, <1>3
  <2>5. QED BY <1>2, <2>1, <2>3, <2>4
<1>9. /\ Elements(Unanswered)' = Elements(Unanswered')
      /\ Elements(arrived)' = Elements(arrived)
  BY DEF Elements
<1>10. EachWriteHeldOrAnsweredOnce'
  BY <1>2, <1>7, <1>8, <1>9 DEF EachWriteHeldOrAnsweredOnce, Distinct
<1>11. QED BY <1>2, <1>3, <1>9, <1>10 DEF Ledger

LEMMA SameLedger ==
  ASSUME Ledger, UNCHANGED <<Unanswered, answer, arrived>>
  PROVE  Ledger'
BY DEF Ledger, EachWriteHeldOrAnsweredOnce, Elements

LEMMA BulkPersistLedger ==
  ASSUME IInv, NEW w \in Writes, BulkPersist(w)
  PROVE  Ledger'
<1>1. Unanswered' = Append(Unanswered, w)
  BY BulkPersistShape DEF IInv
<1>2. /\ Unanswered \in Seq(Writes) /\ arrived \in Seq(Writes)
  BY UnansweredType DEF IInv, Shape, TypeOK
<1>3. /\ answer[w] = <<>> /\ w \notin Elements(arrived)
      /\ arrived' = Append(arrived, w) /\ answer' = answer
  BY DEF BulkPersist, Submitted
<1>4. /\ Elements(Unanswered) \subseteq Elements(arrived)
      /\ Distinct(Unanswered)
      /\ \A v \in Elements(arrived) :
           (answer[v] = <<>>) <=> (v \in Elements(Unanswered))
      /\ \A v \in Writes : Len(answer[v]) <= 1
  BY DEF IInv, Ledger, EachWriteHeldOrAnsweredOnce, Distinct
<1>5. /\ Elements(Unanswered') = Elements(Unanswered) \cup {w}
      /\ Distinct(Unanswered')
      /\ Elements(arrived') = Elements(arrived) \cup {w}
  BY <1>1, <1>2, <1>3, <1>4, AppendedElements
<1>6. /\ Elements(Unanswered)' = Elements(Unanswered')
      /\ Elements(arrived)' = Elements(arrived')
  BY DEF Elements
<1>7. \A v \in Elements(arrived') :
        (answer'[v] = <<>>) <=> (v \in Elements(Unanswered'))
  BY <1>3, <1>4, <1>5
<1>8. EachWriteHeldOrAnsweredOnce'
  BY <1>3, <1>4, <1>5, <1>6, <1>7 DEF EachWriteHeldOrAnsweredOnce, Distinct
<1>9. QED BY <1>4, <1>5, <1>6, <1>8 DEF Ledger

LEMMA RefusedLedger ==
  ASSUME IInv, NEW w \in Writes, BulkPersistDestroyed(w)
  PROVE  Ledger'
<1>1. /\ Unanswered' = Unanswered /\ arrived' = arrived
      /\ answer[w] = <<>> /\ w \notin Elements(arrived)
      /\ answer' = Answered(<<w>>, "destroyed")
  BY RefusedShape DEF IInv, BulkPersistDestroyed, Submitted
<1>2. /\ Elements(Unanswered) \subseteq Elements(arrived)
      /\ \A i, j \in DOMAIN Unanswered : i # j => Unanswered[i] # Unanswered[j]
      /\ \A v \in Elements(arrived) :
           (answer[v] = <<>>) <=> (v \in Elements(Unanswered))
      /\ \A v \in Writes : Len(answer[v]) <= 1
  BY DEF IInv, Ledger, EachWriteHeldOrAnsweredOnce
<1>3. Elements(<<w>>) = {w}
  BY DEF Elements
<1>4. Elements(arrived) \subseteq Writes
  <2>1. arrived \in Seq(Writes)
    BY DEF IInv, Shape, TypeOK
  <2>2. QED BY <2>1, ElementOfSeq, LenProperties DEF Elements
<1>5. ASSUME NEW v \in Writes
      PROVE  answer'[v] = IF v = w THEN <<"destroyed">> ELSE answer[v]
  <2>1. CASE v = w
    <3>1. answer'[v] = Append(answer[v], "destroyed")
      BY <1>1, <1>3, <2>1 DEF Answered
    <3>2. QED BY <1>1, <2>1, <3>1
  <2>2. CASE v # w
    BY <1>1, <1>3, <2>2 DEF Answered
  <2>3. QED BY <2>1, <2>2
<1>6. \A v \in Writes : Len(answer'[v]) <= 1
  <2>1. Len(<<"destroyed">>) <= 1
    OBVIOUS
  <2>2. QED BY <1>2, <1>5, <2>1
<1>7. \A v \in Elements(arrived) :
        (answer'[v] = <<>>) <=> (v \in Elements(Unanswered))
  BY <1>1, <1>2, <1>4, <1>5
<1>8. /\ Elements(Unanswered)' = Elements(Unanswered)
      /\ Elements(arrived)' = Elements(arrived)
  BY <1>1 DEF Elements
<1>9. QED
  BY <1>1, <1>2, <1>6, <1>7, <1>8 DEF Ledger, EachWriteHeldOrAnsweredOnce

LEMMA InitInvariant == Init => IInv
<1> SUFFICES ASSUME Init PROVE IInv
  OBVIOUS
<1>1. TypeOK
  BY EmptySeq DEF Init, TypeOK
<1>2. Shape
  BY <1>1 DEF Init, Shape, LatchUpExactlyWhileWorking, GroupsOnlyBetweenRetries
<1>3. <<>> \o <<>> = <<>>
  BY EmptySeq, ConcatEmptySeq
<1>4. Unanswered = <<>>
  BY <1>3 DEF Init, Unanswered
<1>5. Elements(Unanswered) = {} /\ Elements(arrived) = {}
  BY <1>4 DEF Elements, Init
<1>6. Ledger
  BY <1>4, <1>5 DEF Ledger, EachWriteHeldOrAnsweredOnce, Init
<1>7. QED BY <1>2, <1>6 DEF IInv

LEMMA NextInvariant == IInv /\ [Next]_vars => IInv'
<1> SUFFICES ASSUME IInv, [Next]_vars PROVE Shape' /\ Ledger'
  BY DEF IInv
<1> USE DEF IInv
<1>1. ASSUME NEW w \in Writes, BulkPersist(w) PROVE Shape' /\ Ledger'
  BY <1>1, BulkPersistShape, BulkPersistLedger
<1>2. ASSUME NEW w \in Writes, BulkPersistDestroyed(w) PROVE Shape' /\ Ledger'
  BY <1>2, RefusedShape, RefusedLedger
<1>3. ASSUME NEW d \in Destroyers, Destroy(d) PROVE Shape' /\ Ledger'
  <2>1. /\ Shape' /\ Unanswered' \in Seq(Writes)
        /\ Unanswered = Unanswered' \o queue
    BY <1>3, DestroyShape
  <2>2. /\ answer' = Answered(queue, "destroyed") /\ arrived' = arrived
        /\ queue \in Seq(Writes)
    BY <1>3 DEF Destroy, Shape, TypeOK
  <2>3. QED BY <2>1, <2>2, CutKeepsLedger
<1>4. ASSUME NEW o \in Outcomes, InnerAnswers(o) PROVE Shape' /\ Ledger'
  <2>1. arrived' = arrived /\ inFlight \in Seq(Writes)
    BY <1>4 DEF InnerAnswers, Shape, TypeOK
  <2>2. Shape'
    BY <1>4, InnerAnswersShape
  <2>3. CASE UNCHANGED <<Unanswered, answer>>
    BY <2>1, <2>2, <2>3, SameLedger
  <2>4. CASE /\ Unanswered' \in Seq(Writes)
             /\ Unanswered = inFlight \o Unanswered'
             /\ answer' = Answered(inFlight, o)
    BY <2>1, <2>2, <2>4, CutKeepsLedger
  <2>5. QED BY <1>4, <2>3, <2>4, InnerAnswersShape
<1>5. ASSUME Advance PROVE Shape' /\ Ledger'
  <2>1. UNCHANGED <<answer, arrived>>
    BY <1>5 DEF Advance
  <2>2. QED BY <1>5, <2>1, AdvanceShape, SameLedger
<1>6. CASE UNCHANGED vars
  <2>1. UNCHANGED <<queue, batch, retry, inFlight, isWriting, continuing, isDestroyed,
                    onSettled, destroying, forwarded, answer, arrived, log>>
    BY <1>6 DEF vars, plugin
  <2>2. Shape' /\ UNCHANGED Unanswered
    BY <2>1 DEF Shape, TypeOK, LatchUpExactlyWhileWorking, GroupsOnlyBetweenRetries, Unanswered
  <2>3. QED BY <2>1, <2>2, SameLedger
<1>7. QED BY <1>1, <1>2, <1>3, <1>4, <1>5, <1>6 DEF Next

-----------------------------------------------------------------------------
\* The inductive invariant holds in every reachable state.
THEOREM Invariant == Spec => []IInv
<1>1. Init => IInv
  BY InitInvariant
<1>2. IInv /\ [Next]_vars => IInv'
  BY NextInvariant
<1>3. QED BY <1>1, <1>2, PTL DEF Spec

\* Every variable keeps its type (the state of BatchingDbPlugin).
THEOREM TypeCorrect == Spec => []TypeOK
<1>1. IInv => TypeOK
  BY DEF IInv, Shape
<1>2. QED BY <1>1, Invariant, PTL

\* The latch of drain is never stuck up and never down with work left.
THEOREM LatchCorrect == Spec => []LatchUpExactlyWhileWorking
<1>1. IInv => LatchUpExactlyWhileWorking
  BY DEF IInv, Shape
<1>2. QED BY <1>1, Invariant, PTL

\* bulkPersist, drain, writeGroups, writeIndividually and destroy never drop
\* an accepted write and never run a caller's done twice.
THEOREM HeldOrAnsweredOnce == Spec => []EachWriteHeldOrAnsweredOnce
<1>1. IInv => EachWriteHeldOrAnsweredOnce
  BY DEF IInv, Ledger
<1>2. QED BY <1>1, Invariant, PTL

-----------------------------------------------------------------------------
(* The batcher is a serial writer: every step of it is a step of           *)
(* SerialWriter on Unanswered, or changes nothing there.                   *)

LEMMA PartsOfConcat ==
  ASSUME NEW S, NEW s \in Seq(S), NEW t \in Seq(S)
  PROVE  /\ SubSeq(s \o t, 1, Len(s)) = s
         /\ SubSeq(s \o t, Len(s) + 1, Len(s \o t)) = t
         /\ Len(s) \in 0..Len(s \o t)
         /\ s # <<>> => Len(s) \in 1..Len(s \o t)
<1>1. /\ Len(s) \in Nat /\ Len(t) \in Nat /\ s \o t \in Seq(S)
      /\ Len(s \o t) = Len(s) + Len(t)
      /\ \A i \in 1..Len(s) + Len(t) :
           (s \o t)[i] = IF i <= Len(s) THEN s[i] ELSE t[i - Len(s)]
  BY ConcatProperties, LenProperties
<1>2. \A i \in 1..Len(s) + Len(t) : (s \o t)[i] \in S
  BY <1>1, ElementOfSeq
<1>3. SubSeq(s \o t, 1, Len(s)) = s
  <2>1. /\ SubSeq(s \o t, 1, Len(s)) \in Seq(S)
        /\ Len(SubSeq(s \o t, 1, Len(s))) = Len(s)
        /\ \A i \in 1..Len(s) : SubSeq(s \o t, 1, Len(s))[i] = (s \o t)[i]
    BY <1>1, <1>2, SubSeqProperties
  <2>2. QED BY <1>1, <2>1, SeqEqual
<1>4. SubSeq(s \o t, Len(s) + 1, Len(s \o t)) = t
  <2>1. /\ SubSeq(s \o t, Len(s) + 1, Len(s \o t)) \in Seq(S)
        /\ Len(SubSeq(s \o t, Len(s) + 1, Len(s \o t))) = Len(t)
        /\ \A i \in 1..Len(t) :
             SubSeq(s \o t, Len(s) + 1, Len(s \o t))[i] = (s \o t)[i + Len(s)]
    BY <1>1, <1>2, SubSeqProperties
  <2>2. \A i \in 1..Len(t) : (s \o t)[i + Len(s)] = t[i]
    BY <1>1
  <2>3. QED BY <1>1, <2>1, <2>2, SeqEqual
<1>5. QED BY <1>1, <1>3, <1>4, EmptySeq

LEMMA ToldIsAnswered ==
  ASSUME NEW ws, NEW o
  PROVE  Serial!Told(ws, o) = Answered(ws, o)
<1>1. \A w : (\E i \in DOMAIN ws : ws[i] = w) <=> w \in Elements(ws)
  BY DEF Elements
<1>2. QED BY <1>1 DEF Serial!Told, Answered

LEMMA InitRefines == Init => Serial!Init
<1>1. <<>> \o <<>> = <<>>
  BY EmptySeq, ConcatEmptySeq
<1>2. QED BY <1>1 DEF Init, Serial!Init, Unanswered

LEMMA StepRefines == IInv /\ [Next]_vars => [Serial!Next]_(Serial!vars)
<1> SUFFICES ASSUME IInv, [Next]_vars PROVE [Serial!Next]_(Serial!vars)
  OBVIOUS
<1> USE DEF IInv
<1>1. Unanswered \in Seq(Writes) /\ Elements(Unanswered) \subseteq Elements(arrived)
  BY UnansweredType DEF Ledger
<1>2. ASSUME NEW w, w \notin Elements(arrived) PROVE ~Serial!InPending(w)
  BY <1>1, <1>2 DEF Serial!InPending, Elements
<1>3. ASSUME NEW w \in Writes, BulkPersist(w) PROVE Serial!Accept(w)
  <2>1. Unanswered' = Append(Unanswered, w)
    BY <1>3, BulkPersistShape
  <2>2. /\ ~isDestroyed /\ answer[w] = <<>> /\ w \notin Elements(arrived)
        /\ UNCHANGED <<answer, isDestroyed>>
    BY <1>3 DEF BulkPersist, Submitted
  <2>3. QED BY <1>2, <2>1, <2>2 DEF Serial!Accept
<1>4. ASSUME NEW w \in Writes, BulkPersistDestroyed(w) PROVE Serial!Refuse(w)
  <2>1. Unanswered' = Unanswered
    BY <1>4, RefusedShape
  <2>2. /\ isDestroyed /\ answer[w] = <<>> /\ w \notin Elements(arrived)
        /\ answer' = Answered(<<w>>, "destroyed") /\ isDestroyed' = isDestroyed
    BY <1>4 DEF BulkPersistDestroyed, Submitted, plugin
  <2>3. QED BY <1>2, <2>1, <2>2, ToldIsAnswered DEF Serial!Refuse
<1>5. ASSUME NEW d \in Destroyers, Destroy(d)
      PROVE  \E n \in 0..Len(Unanswered) : Serial!Close(n)
  <2>1. /\ Unanswered' \in Seq(Writes) /\ Unanswered = Unanswered' \o queue
        /\ queue \in Seq(Writes)
    BY <1>5, DestroyShape DEF Shape, TypeOK
  <2>2. isDestroyed' = TRUE /\ answer' = Answered(queue, "destroyed")
    BY <1>5 DEF Destroy
  <2>3. /\ SubSeq(Unanswered, 1, Len(Unanswered')) = Unanswered'
        /\ SubSeq(Unanswered, Len(Unanswered') + 1, Len(Unanswered)) = queue
        /\ Len(Unanswered') \in 0..Len(Unanswered)
    BY <2>1, PartsOfConcat
  <2>4. Serial!Close(Len(Unanswered'))
    BY <2>2, <2>3, ToldIsAnswered DEF Serial!Close
  <2>5. QED BY <2>3, <2>4
<1>6. ASSUME NEW o \in Outcomes, InnerAnswers(o)
      PROVE  \/ \E n \in 1..Len(Unanswered) : Serial!Serve(n, o)
             \/ UNCHANGED Serial!vars
  <2>1. isDestroyed' = isDestroyed /\ inFlight \in Seq(Writes)
    BY <1>6 DEF InnerAnswers, Shape, TypeOK
  <2>2. CASE UNCHANGED <<Unanswered, answer>>
    BY <2>1, <2>2 DEF Serial!vars
  <2>3. CASE /\ Unanswered' \in Seq(Writes)
             /\ Unanswered = inFlight \o Unanswered'
             /\ inFlight # <<>>
             /\ answer' = Answered(inFlight, o)
    <3>1. /\ SubSeq(Unanswered, 1, Len(inFlight)) = inFlight
          /\ SubSeq(Unanswered, Len(inFlight) + 1, Len(Unanswered)) = Unanswered'
          /\ Len(inFlight) \in 1..Len(Unanswered)
      BY <2>1, <2>3, PartsOfConcat
    <3>2. Serial!Serve(Len(inFlight), o)
      BY <2>1, <2>3, <3>1, ToldIsAnswered DEF Serial!Serve
    <3>3. QED BY <3>1, <3>2
  <2>4. QED BY <1>6, <2>2, <2>3, InnerAnswersShape
<1>7. ASSUME Advance PROVE UNCHANGED Serial!vars
  <2>1. UNCHANGED <<answer, isDestroyed>>
    BY <1>7 DEF Advance
  <2>2. QED BY <1>7, <2>1, AdvanceShape DEF Serial!vars
<1>8. CASE UNCHANGED vars
  BY <1>8 DEF vars, plugin, Serial!vars, Unanswered
<1>9. QED
  BY <1>3, <1>4, <1>5, <1>6, <1>7, <1>8 DEF Next, Serial!Next

\* The safety part of the refinement: initial states map to initial states of
\* the serial writer and every step maps to a step of it or to none.
THEOREM ImplementsSerialWriter ==
  Spec => Serial!Init /\ [][Serial!Next]_(Serial!vars)
<1>1. Init => Serial!Init
  BY InitRefines
<1>2. IInv /\ [Next]_vars => [Serial!Next]_(Serial!vars)
  BY StepRefines
<1>3. QED BY <1>1, <1>2, Invariant, PTL DEF Spec

-----------------------------------------------------------------------------
(* What callers are told against what the inner plugin applied.            *)

\* No two items of the event that is out claim the same schema, so the merged
\* operation carries every item's changes.
NothingOverwritten ==
  \A i, j \in DOMAIN inFlight :
    i # j => SchemasOf[inFlight[i]] \cap SchemasOf[inFlight[j]] = {}

ToldSuccessIsWritten ==
  \A w \in Writes : answer[w] = <<"success">> =>
    \A s \in SchemasOf[w] : <<w, s>> \in AppliedOps

\* Nothing is applied for a write that is still waiting, was told of an error
\* or was failed by destroy, as long as a failed event applies nothing.
AppliedIsAcknowledged ==
  IsAtomic => \A op \in AppliedOps :
    answer[op[1]] \notin {<<>>, <<"error">>, <<"destroyed">>}

\* The inner plugin is destroyed at rest, and only by a destroy received.
DestroyedAtRest ==
  /\ forwarded # <<>> => isDestroyed /\ ~isWriting
  /\ onSettled # NoDestroyer => isDestroyed

Effects ==
  /\ NothingOverwritten
  /\ ToldSuccessIsWritten
  /\ AppliedIsAcknowledged
  /\ DestroyedAtRest

AppliedType == AppliedOps \subseteq Writes \X Schemas

\* An event of one item overwrites nothing; nor does a group, by Mergeable.
LEMMA SendGroupDisjoint ==
  ASSUME NEW items \in Seq(Writes), SendGroup(items)
  PROVE  NothingOverwritten'
<1>1. PICK n \in 1..Len(items) :
        /\ IsNextGroup(items, n)
        /\ inFlight' = SubSeq(items, 1, n)
  BY DEF SendGroup
<1>2. /\ DOMAIN SubSeq(items, 1, n) = 1..n
      /\ \A i \in 1..n : SubSeq(items, 1, n)[i] = items[i]
  <2>1. n \in 0..Len(items) /\ Len(items) \in Nat
    BY LenProperties
  <2>2. QED BY <2>1
<1>3. \A i, j \in 1..n : i # j => SchemasOf[items[i]] \cap SchemasOf[items[j]] = {}
  <2>1. CASE n = 1
    BY <2>1
  <2>2. CASE n # 1
    BY <1>1, <2>2 DEF IsNextGroup, Mergeable
  <2>3. QED BY <2>1, <2>2
<1>4. QED BY <1>1, <1>2, <1>3 DEF NothingOverwritten

LEMMA SendAloneDisjoint ==
  ASSUME NEW items, SendAlone(items)
  PROVE  NothingOverwritten'
BY DEF SendAlone, NothingOverwritten

LEMMA DrainDisjoint ==
  ASSUME NEW waiting \in Seq(Writes), Drain(waiting)
  PROVE  NothingOverwritten'
<1> DEFINE size == IF Len(waiting) < MaxBatchSize THEN Len(waiting) ELSE MaxBatchSize
           taken == SubSeq(waiting, 1, size)
<1>1. taken \in Seq(Writes)
  <2>1. size \in 0..Len(waiting)
    BY BatchSizeAssumption, LenProperties
  <2> HIDE DEF size
  <2>2. QED BY <2>1, CutIsSeq
<1>2. SendGroup(taken) \/ SendAlone(taken)
  BY DEF Drain
<1> HIDE DEF taken
<1>3. QED BY <1>1, <1>2, SendGroupDisjoint, SendAloneDisjoint

LEMMA LogType == Shape => AppliedType
<1> SUFFICES ASSUME Shape PROVE AppliedType
  OBVIOUS
<1>1. log \in Seq(SUBSET (Writes \X Schemas))
  BY DEF Shape, TypeOK
<1>2. \A i \in DOMAIN log : log[i] \in SUBSET (Writes \X Schemas)
  BY <1>1, ElementOfSeq, LenProperties
<1>3. QED BY <1>2 DEF AppliedType, AppliedOps, Elements

\* A write that is held has no answer yet.
LEMMA QueuedUnanswered ==
  ASSUME IInv, NEW w \in Elements(queue)
  PROVE  w \in Writes /\ answer[w] = <<>>
<1>1. /\ queue \in Seq(Writes) /\ batch \in Seq(Writes)
      /\ retry \in Seq(Writes) /\ inFlight \in Seq(Writes)
  BY DEF IInv, Shape, TypeOK
<1>2. (inFlight \o retry) \o batch \in Seq(Writes)
  BY <1>1, ConcatProperties
<1>3. w \in Elements(Unanswered)
  <2>1. Elements(((inFlight \o retry) \o batch) \o queue)
          = Elements((inFlight \o retry) \o batch) \cup Elements(queue)
    BY ZenonT(60), <1>1, <1>2, ElementsOfConcat
  <2>2. QED BY <2>1 DEF Unanswered
<1>4. w \in Elements(arrived) /\ answer[w] = <<>>
  BY <1>3 DEF IInv, Ledger, EachWriteHeldOrAnsweredOnce
<1>5. w \in Writes
  BY <1>1, ElementOfSeq, LenProperties DEF Elements
<1>6. QED BY <1>4, <1>5

LEMMA OutUnanswered ==
  ASSUME IInv, NEW w \in Elements(inFlight)
  PROVE  w \in Writes /\ answer[w] = <<>>
<1>1. /\ queue \in Seq(Writes) /\ batch \in Seq(Writes)
      /\ retry \in Seq(Writes) /\ inFlight \in Seq(Writes)
  BY DEF IInv, Shape, TypeOK
<1>2. inFlight \o retry \in Seq(Writes) /\ (inFlight \o retry) \o batch \in Seq(Writes)
  BY <1>1, ConcatProperties
<1>3. w \in Elements(Unanswered)
  <2>1. Elements(inFlight \o retry) = Elements(inFlight) \cup Elements(retry)
    BY <1>1, ElementsOfConcat
  <2>2. Elements((inFlight \o retry) \o batch)
          = Elements(inFlight \o retry) \cup Elements(batch)
    BY ZenonT(60), <1>1, <1>2, ElementsOfConcat
  <2>3. Elements(((inFlight \o retry) \o batch) \o queue)
          = Elements((inFlight \o retry) \o batch) \cup Elements(queue)
    BY ZenonT(60), <1>1, <1>2, ElementsOfConcat
  <2>4. QED BY <2>1, <2>2, <2>3 DEF Unanswered
<1>4. w \in Elements(arrived) /\ answer[w] = <<>>
  BY <1>3 DEF IInv, Ledger, EachWriteHeldOrAnsweredOnce
<1>5. w \in Writes
  BY <1>1, ElementOfSeq, LenProperties DEF Elements
<1>6. QED BY <1>4, <1>5

\* Failing writes that have no answer, with "destroyed", disturbs no claim.
LEMMA FailedKeepsClaims ==
  ASSUME IInv, Effects, NEW ws, answer' = Answered(ws, "destroyed"), log' = log,
         \A w \in Elements(ws) : w \in Writes /\ answer[w] = <<>>
  PROVE  ToldSuccessIsWritten' /\ AppliedIsAcknowledged'
<1>1. AppliedOps' = AppliedOps
  BY DEF AppliedOps, Elements
<1>2. \A w \in Writes : answer'[w] = IF w \in Elements(ws) THEN <<"destroyed">> ELSE answer[w]
  <2>1. Append(<<>>, "destroyed") = <<"destroyed">>
    OBVIOUS
  <2>2. QED BY <2>1 DEF Answered
<1>3. <<"destroyed">> # <<"success">>
  OBVIOUS
<1>4. ToldSuccessIsWritten'
  BY <1>1, <1>2, <1>3 DEF Effects, ToldSuccessIsWritten
<1>5. \A op \in AppliedOps : op[1] \in Writes
  BY LogType DEF IInv, AppliedType
<1>6. AppliedIsAcknowledged'
  BY <1>1, <1>2, <1>5 DEF Effects, AppliedIsAcknowledged
<1>7. QED BY <1>4, <1>6

LEMMA SameClaims ==
  ASSUME Effects, UNCHANGED <<answer, log>>
  PROVE  ToldSuccessIsWritten' /\ AppliedIsAcknowledged'
<1>1. AppliedOps' = AppliedOps
  BY DEF AppliedOps, Elements
<1>2. QED BY <1>1 DEF Effects, ToldSuccessIsWritten, AppliedIsAcknowledged

\* The event's operation names items of the event, and all of each of them.
LEMMA OperationOfEvent ==
  ASSUME Shape, NothingOverwritten
  PROVE  /\ \A op \in EventOperation(inFlight) : op[1] \in Elements(inFlight)
         /\ \A w \in Elements(inFlight) : \A s \in SchemasOf[w] :
              <<w, s>> \in EventOperation(inFlight)
<1>1. \A op \in EventOperation(inFlight) : op[1] \in Elements(inFlight)
  BY DEF EventOperation, Elements
<1>2. ASSUME NEW w \in Elements(inFlight), NEW s \in SchemasOf[w]
      PROVE  <<w, s>> \in EventOperation(inFlight)
  <2>1. PICK i \in DOMAIN inFlight : w = inFlight[i]
    BY DEF Elements
  <2>2. w \in Writes
    <3>1. inFlight \in Seq(Writes)
      BY DEF Shape, TypeOK
    <3>2. QED BY <2>1, <3>1, ElementOfSeq, LenProperties
  <2>3. s \in Schemas
    BY <1>2, <2>2, SchemasAssumption
  <2>4. \A j \in DOMAIN inFlight : j > i => s \notin SchemasOf[inFlight[j]]
    <3>1. inFlight \in Seq(Writes) /\ DOMAIN inFlight = 1..Len(inFlight) /\ Len(inFlight) \in Nat
      BY LenProperties DEF Shape, TypeOK
    <3>2. \A j \in DOMAIN inFlight : j > i => i # j
      BY <3>1
    <3>3. QED BY <1>2, <2>1, <3>2 DEF NothingOverwritten
  <2>5. QED BY <1>2, <2>1, <2>2, <2>3, <2>4 DEF EventOperation
<1>3. QED BY <1>1, <1>2

LEMMA InnerAnswersEffects ==
  ASSUME IInv, Effects, NEW o \in Outcomes, InnerAnswers(o)
  PROVE  Effects'
<1>1. /\ inFlight' = <<>> /\ UNCHANGED <<isWriting, isDestroyed, onSettled, forwarded>>
  BY DEF InnerAnswers
<1>2. NothingOverwritten' /\ DestroyedAtRest'
  BY <1>1 DEF Effects, NothingOverwritten, DestroyedAtRest
<1>3. PICK applied \in MayApply(o) :
        log' = IF applied = {} THEN log ELSE Append(log, applied)
  BY DEF InnerAnswers
<1>4. AppliedOps' = AppliedOps \cup applied
  <2>1. log \in Seq(SUBSET (Writes \X Schemas))
    BY DEF IInv, Shape, TypeOK
  <2>2. EventOperation(inFlight) \subseteq Writes \X Schemas
    BY DEF EventOperation
  <2>3. applied \in SUBSET (Writes \X Schemas)
    BY <2>2, AtomicAssumption DEF MayApply, Outcomes
  <2>4. CASE applied = {}
    BY <1>3, <2>4 DEF AppliedOps, Elements
  <2>5. CASE applied # {}
    <3>1. Elements(Append(log, applied)) = Elements(log) \cup {applied}
      BY <2>1, <2>3, AppendedElements
    <3>2. Elements(log)' = Elements(Append(log, applied))
      BY <1>3, <2>5 DEF Elements
    <3>3. QED BY <3>1, <3>2 DEF AppliedOps
  <2>6. QED BY <2>4, <2>5
<1>5. applied \subseteq EventOperation(inFlight)
  BY AtomicAssumption DEF MayApply, Outcomes
<1>6. /\ \A op \in EventOperation(inFlight) : op[1] \in Elements(inFlight)
      /\ \A w \in Elements(inFlight) : \A s \in SchemasOf[w] :
           <<w, s>> \in EventOperation(inFlight)
  BY OperationOfEvent DEF IInv, Effects
<1>7. \A w \in Elements(inFlight) : w \in Writes /\ answer[w] = <<>>
  BY OutUnanswered
<1>8. \A op \in AppliedOps : op[1] \in Writes
  BY LogType DEF IInv, AppliedType
<1>9. CASE o = "error" /\ Len(inFlight) > 1
  <2>1. answer' = answer
    BY <1>9 DEF InnerAnswers
  <2>2. IsAtomic => applied = {}
    BY <1>9 DEF MayApply
  <2>3. ToldSuccessIsWritten'
    BY <1>4, <2>1 DEF Effects, ToldSuccessIsWritten
  <2>4. AppliedIsAcknowledged'
    BY <1>4, <2>1, <2>2 DEF Effects, AppliedIsAcknowledged
  <2>5. QED BY <1>2, <2>3, <2>4 DEF Effects
<1>10. CASE ~(o = "error" /\ Len(inFlight) > 1)
  <2>1. \A w \in Writes : answer'[w] = IF w \in Elements(inFlight) THEN <<o>> ELSE answer[w]
    <3>1. answer' = Answered(inFlight, o)
      BY <1>10 DEF InnerAnswers
    <3>2. Append(<<>>, o) = <<o>>
      OBVIOUS
    <3>3. QED BY <1>7, <3>1, <3>2 DEF Answered
  <2>2. ToldSuccessIsWritten'
    <3>1. SUFFICES ASSUME NEW w \in Writes, answer'[w] = <<"success">>,
                          NEW s \in SchemasOf[w]
                   PROVE  <<w, s>> \in AppliedOps \cup applied
      BY <1>4 DEF ToldSuccessIsWritten
    <3>2. CASE w \in Elements(inFlight)
      <4>1. o = "success"
        BY <2>1, <3>1, <3>2
      <4>2. applied = EventOperation(inFlight)
        BY <4>1 DEF MayApply
      <4>3. QED BY <1>6, <3>2, <4>2
    <3>3. CASE w \notin Elements(inFlight)
      BY <2>1, <3>1, <3>3 DEF Effects, ToldSuccessIsWritten
    <3>4. QED BY <3>2, <3>3
  <2>3. AppliedIsAcknowledged'
    <3>1. SUFFICES ASSUME IsAtomic, NEW op \in AppliedOps \cup applied
                   PROVE  answer'[op[1]] \notin {<<>>, <<"error">>, <<"destroyed">>}
      BY <1>4 DEF AppliedIsAcknowledged
    <3>2. CASE op \in applied
      <4>1. o # "error"
        BY <3>1, <3>2 DEF MayApply
      <4>2. answer'[op[1]] = <<o>>
        BY <1>5, <1>6, <1>7, <2>1, <3>2
      <4>3. o # "destroyed"
        BY DEF Outcomes
      <4>4. <<o>> # <<>> /\ <<o>> # <<"error">> /\ <<o>> # <<"destroyed">>
        BY <4>1, <4>3
      <4>5. QED BY <4>2, <4>4
    <3>3. CASE op \in AppliedOps
      <4>1. answer[op[1]] \notin {<<>>, <<"error">>, <<"destroyed">>}
        BY <3>1, <3>3 DEF Effects, AppliedIsAcknowledged
      <4>2. op[1] \notin Elements(inFlight)
        BY <1>7, <4>1
      <4>3. QED BY <1>8, <2>1, <3>3, <4>1, <4>2
    <3>4. QED BY <3>1, <3>2, <3>3
  <2>4. QED BY <1>2, <2>2, <2>3 DEF Effects
<1>11. QED BY <1>9, <1>10

LEMMA AdvanceEffects ==
  ASSUME IInv, Effects, Advance
  PROVE  Effects'
<1>1. isWriting /\ UNCHANGED <<isDestroyed, answer, log>> /\ inFlight = <<>>
  BY DEF Advance, IInv, Shape, LatchUpExactlyWhileWorking
<1>2. forwarded = <<>>
  BY <1>1 DEF Effects, DestroyedAtRest
<1>3. /\ queue \in Seq(Writes) /\ batch \in Seq(Writes)
  BY DEF IInv, Shape, TypeOK
<1>4. ToldSuccessIsWritten' /\ AppliedIsAcknowledged'
  BY <1>1, SameClaims
<1>5. CASE Settle
  <2>1. NothingOverwritten'
    BY <1>1, <1>5 DEF Settle, NothingOverwritten
  <2>2. DestroyedAtRest'
    BY <1>1, <1>2, <1>5 DEF Settle, DestroyedAtRest, Effects
  <2>3. QED BY <1>4, <2>1, <2>2 DEF Effects
<1>6. CASE /\ SendAlone(retry) \/ SendGroup(batch) \/ Drain(queue)
           /\ UNCHANGED <<onSettled, forwarded>>
  <2>1. NothingOverwritten'
    BY <1>3, <1>6, SendAloneDisjoint, SendGroupDisjoint, DrainDisjoint
  <2>2. DestroyedAtRest'
    BY <1>1, <1>2, <1>6 DEF DestroyedAtRest, Effects
  <2>3. QED BY <1>4, <2>1, <2>2 DEF Effects
<1>7. QED BY <1>5, <1>6 DEF Advance

LEMMA NextEffects == IInv /\ Effects /\ [Next]_vars => Effects'
<1> SUFFICES ASSUME IInv, Effects, [Next]_vars PROVE Effects'
  OBVIOUS
<1>1. ASSUME NEW w \in Writes, BulkPersist(w) PROVE Effects'
  <2>1. /\ ~isDestroyed
        /\ UNCHANGED <<continuing, isDestroyed, onSettled, forwarded, answer, log>>
    BY <1>1 DEF BulkPersist
  <2>2. ToldSuccessIsWritten' /\ AppliedIsAcknowledged'
    BY <2>1, SameClaims
  <2>3. DestroyedAtRest'
    BY <2>1 DEF Effects, DestroyedAtRest
  <2>4. NothingOverwritten'
    <3>1. CASE isWriting
      BY <1>1, <3>1 DEF BulkPersist, Effects, NothingOverwritten
    <3>2. CASE ~isWriting
      <4>1. Drain(Append(queue, w))
        BY <1>1, <3>2 DEF BulkPersist
      <4>2. queue \in Seq(Writes) /\ Append(queue, w) \in Seq(Writes)
        BY AppendProperties DEF IInv, Shape, TypeOK
      <4>3. QED BY <4>1, <4>2, DrainDisjoint
    <3>3. QED BY <3>1, <3>2
  <2>5. QED BY <2>2, <2>3, <2>4 DEF Effects
<1>2. ASSUME NEW w \in Writes, BulkPersistDestroyed(w) PROVE Effects'
  <2>1. /\ UNCHANGED <<inFlight, isWriting, isDestroyed, onSettled, forwarded, log>>
        /\ answer[w] = <<>> /\ answer' = Answered(<<w>>, "destroyed")
    BY <1>2 DEF BulkPersistDestroyed, Submitted, plugin
  <2>2. Elements(<<w>>) = {w}
    BY DEF Elements
  <2>3. ToldSuccessIsWritten' /\ AppliedIsAcknowledged'
    BY <2>1, <2>2, FailedKeepsClaims
  <2>4. NothingOverwritten' /\ DestroyedAtRest'
    BY <2>1 DEF Effects, NothingOverwritten, DestroyedAtRest
  <2>5. QED BY <2>3, <2>4 DEF Effects
<1>3. ASSUME NEW d \in Destroyers, Destroy(d) PROVE Effects'
  <2>1. /\ UNCHANGED <<inFlight, isWriting, log>> /\ isDestroyed' = TRUE
        /\ answer' = Answered(queue, "destroyed")
        /\ IF isWriting THEN forwarded' = forwarded
                        ELSE forwarded' = Append(forwarded, d)
    BY <1>3 DEF Destroy
  <2>2. ToldSuccessIsWritten' /\ AppliedIsAcknowledged'
    BY <2>1, QueuedUnanswered, FailedKeepsClaims
  <2>3. NothingOverwritten' /\ DestroyedAtRest'
    BY <2>1 DEF Effects, NothingOverwritten, DestroyedAtRest
  <2>4. QED BY <2>2, <2>3 DEF Effects
<1>4. ASSUME NEW o \in Outcomes, InnerAnswers(o) PROVE Effects'
  BY <1>4, InnerAnswersEffects
<1>5. ASSUME Advance PROVE Effects'
  BY <1>5, AdvanceEffects
<1>6. CASE UNCHANGED vars
  <2>1. UNCHANGED <<inFlight, isWriting, isDestroyed, onSettled, forwarded, answer, log>>
    BY <1>6 DEF vars, plugin
  <2>2. ToldSuccessIsWritten' /\ AppliedIsAcknowledged'
    BY <2>1, SameClaims
  <2>3. NothingOverwritten' /\ DestroyedAtRest'
    BY <2>1 DEF Effects, NothingOverwritten, DestroyedAtRest
  <2>4. QED BY <2>2, <2>3 DEF Effects
<1>7. QED BY <1>1, <1>2, <1>3, <1>4, <1>5, <1>6 DEF Next

LEMMA InitEffects == Init => Effects
<1> SUFFICES ASSUME Init PROVE Effects
  OBVIOUS
<1>1. AppliedOps = {}
  BY DEF Init, AppliedOps, Elements
<1>2. \A w \in Writes : answer[w] # <<"success">>
  <2>1. <<>> # <<"success">>
    OBVIOUS
  <2>2. QED BY <2>1 DEF Init
<1>3. QED
  BY <1>1, <1>2
     DEF Init, Effects, NothingOverwritten, ToldSuccessIsWritten,
         AppliedIsAcknowledged, DestroyedAtRest

LEMMA EffectsMatch == IInv /\ Effects => AnswersMatchEffects
<1> SUFFICES ASSUME IInv, Effects PROVE AnswersMatchEffects
  OBVIOUS
<1>1. \A w \in Writes : answer[w] = <<"success">> =>
        \A s \in SchemasOf[w] : <<w, s>> \in AppliedOps
  BY DEF Effects, ToldSuccessIsWritten
<1>2. IsAtomic => \A w \in Writes : answer[w] \in {<<"error">>, <<"destroyed">>} =>
        \A op \in AppliedOps : op[1] # w
  BY DEF Effects, AppliedIsAcknowledged
<1>3. ASSUME forwarded # <<>>
      PROVE  inFlight = <<>> /\ \A w \in Elements(arrived) : answer[w] # <<>>
  <2>1. inFlight = <<>> /\ retry = <<>> /\ batch = <<>> /\ queue = <<>>
    BY <1>3 DEF Effects, DestroyedAtRest, IInv, Shape, LatchUpExactlyWhileWorking
  <2>2. Unanswered = <<>>
    BY <2>1, EmptySeq, ConcatEmptySeq DEF Unanswered
  <2>3. Elements(Unanswered) = {}
    BY <2>2 DEF Elements
  <2>4. QED BY <2>1, <2>3 DEF IInv, Ledger, EachWriteHeldOrAnsweredOnce
<1>4. QED BY <1>1, <1>2, <1>3 DEF AnswersMatchEffects

\* What bulkPersist's callers are told is what the inner plugin did: a success
\* has every schema of the write applied, an error or a destroyed write has
\* none of them under isAtomic, and destroy reaches the inner plugin only
\* when no write is out and every accepted one was answered.
THEOREM ToldWhatHappened == Spec => []AnswersMatchEffects
<1>1. Init => Effects
  BY InitEffects
<1>2. IInv /\ Effects /\ [Next]_vars => Effects'
  BY NextEffects
<1>3. IInv /\ Effects => AnswersMatchEffects
  BY EffectsMatch
<1>4. QED BY <1>1, <1>2, <1>3, Invariant, PTL DEF Spec

=============================================================================
