-------------------------- MODULE HttpSwrWritesProofs --------------------------
(***************************************************************************)
(* Theorems about the write path of HttpSwrWrites, for any entities, any   *)
(* number of changes and faults and whatever the server refuses.           *)
(*                                                                         *)
(* There are three invariants, each under what it needs:                   *)
(*   Typed   the shapes, in every mode and with every race,                *)
(*   Keeps   why the newest intent stays, with direct POSTs or without,    *)
(*           when queue operations do not overlap and no snapshot of a row *)
(*           is written back over an edit (Calm),                          *)
(*   Paced   why no edit is lost and both sides come to agree, when the    *)
(*           queue alone talks to the server (PacedQueue).                 *)
(***************************************************************************)
EXTENDS HttpSwrWrites, SequenceTheorems, WellFoundedInduction, TLAPS

-----------------------------------------------------------------------------
(* Types.                                                                   *)

Kinds == {"add", "update", "remove"}
RowRec == [id : Ids, kind : Kinds, change : Changes, entity : SUBSET Fields,
           fields : SUBSET Fields, seq : Nat, dead : BOOLEAN]
ChangeRec == [id : Ids, kind : Kinds, change : Changes, entity : SUBSET Fields,
              fields : SUBSET Fields]
SaveRec == [change : Changes, seq : Nat, step : {"record", "recording", "posting", "dequeue"}]
WriteRec == [type : {"put", "delete", "replace"}, by : {"save", "flush", "other"},
             change : 0..MaxChanges, rows : SUBSET RowRec]
UnitRec == [id : Ids, change : Changes, kind : Kinds, whole : BOOLEAN,
            carries : SUBSET Fields, rows : SUBSET RowRec]
ItemRec == [id : Ids, change : Changes, kind : Kinds, whole : BOOLEAN,
            carries : SUBSET Fields]
FlushRec == [step : Sending \cup {"idle", "settle", "settling", "burying"},
             now : SUBSET UnitRec, todo : SUBSET UnitRec]

Keyed(set) == \A r, q \in set : SameRow(r, q) => r = q

\* The change a row, a unit or an item stands for was issued for its entity.
Genuine(x) == x.change \in DOMAIN issued /\ issued[x.change].id = x.id

\* A row is what addMany made of its change.
Made(r) ==
  /\ Genuine(r) /\ r.kind = issued[r.change].kind /\ r.entity = issued[r.change].entity
  /\ r.seq <= seqCounter

Units == flush.now \cup flush.todo
UnitRows == UNION {u.rows : u \in Units}

IssuedOK ==
  /\ issued \in Seq(ChangeRec) /\ Len(issued) <= MaxChanges
  /\ \A n \in DOMAIN issued : issued[n].change = n

StoresOK ==
  /\ local \in [Ids -> SUBSET Fields] /\ server \in [Ids -> SUBSET Fields]
  /\ seqCounter \in Nat /\ faults \in 0..MaxFaults

SavesOK ==
  /\ saves \subseteq SaveRec /\ acked \subseteq DOMAIN issued
  /\ \A s \in saves : s.change \in DOMAIN issued
  /\ \A s, t \in saves : s.change = t.change => s = t

RowsOK == rows \subseteq RowRec /\ Keyed(rows) /\ \A r \in rows : Made(r)

WriteOK(w) == Keyed(w.rows) /\ \A r \in w.rows : Made(r)
MutexOK == mutex \in Seq(WriteRec) /\ \A k \in DOMAIN mutex : WriteOK(mutex[k])

UnitOK(u) == Genuine(u) /\ \A r \in u.rows : r.id = u.id

FlushOK ==
  /\ flush \in FlushRec
  /\ Keyed(UnitRows) /\ \A r \in UnitRows : Made(r)
  /\ \A u \in Units : UnitOK(u)
  /\ \A u, v \in Units : u.id = v.id => u = v
  /\ flush.step = "burying" => flush.todo = {}

AppliedOK == applied \subseteq ItemRec /\ \A a \in applied : Genuine(a)

Typed == IssuedOK /\ StoresOK /\ SavesOK /\ RowsOK /\ MutexOK /\ FlushOK /\ AppliedOK

-----------------------------------------------------------------------------
(* Numbers, sequences, and the parts that a step leaves alone.              *)

LEMMA Numbers ==
  /\ MaxChanges \in Nat /\ MaxFaults \in Nat
  /\ Changes = 1..MaxChanges /\ Fields = 0..MaxChanges
  /\ Changes \subseteq Nat /\ 0 \notin Changes /\ Changes \subseteq Fields
BY BoundsAssumption DEF Changes, Fields

LEMMA IssuedNumbers ==
  ASSUME IssuedOK
  PROVE  /\ Len(issued) \in Nat /\ DOMAIN issued = 1..Len(issued)
         /\ DOMAIN issued \subseteq Changes /\ DOMAIN issued \subseteq Nat
         /\ \A n \in DOMAIN issued : issued[n] \in ChangeRec
<1>1. Len(issued) \in Nat /\ DOMAIN issued = 1..Len(issued)
  BY LenProperties DEF IssuedOK
<1>2. \A n \in DOMAIN issued : issued[n] \in ChangeRec
  BY <1>1, ElementOfSeq DEF IssuedOK
<1> QED
  BY <1>1, <1>2, Numbers DEF IssuedOK

LEMMA FirstOfMany ==
  ASSUME NEW S, NEW q \in Seq(S), q # <<>>
  PROVE  /\ 1 \in DOMAIN q /\ Head(q) = q[1] /\ Head(q) \in S
         /\ Tail(q) \in Seq(S)
         /\ \A k \in DOMAIN Tail(q) : k + 1 \in DOMAIN q /\ Tail(q)[k] = q[k + 1]
<1>1. /\ Len(q) \in Nat \ {0} /\ DOMAIN q = 1..Len(q)
  BY EmptySeq, LenProperties
<1>2. /\ Head(q) \in S /\ Tail(q) \in Seq(S) /\ Len(Tail(q)) = Len(q) - 1
      /\ \A i \in 1..Len(Tail(q)) : Tail(q)[i] = q[i + 1]
  BY HeadTailProperties
<1>3. DOMAIN Tail(q) = 1..Len(Tail(q))
  BY <1>2, LenProperties
<1>4. Head(q) = q[1]
  OBVIOUS
<1> QED
  BY <1>1, <1>2, <1>3, <1>4

LEMMA OneMore ==
  ASSUME NEW S, NEW q \in Seq(S), NEW e \in S
  PROVE  /\ Append(q, e) \in Seq(S)
         /\ \A k \in DOMAIN Append(q, e) :
              (k \in DOMAIN q /\ Append(q, e)[k] = q[k]) \/ Append(q, e)[k] = e
<1>1. /\ Len(q) \in Nat /\ DOMAIN q = 1..Len(q)
  BY LenProperties
<1>2. /\ Append(q, e) \in Seq(S) /\ Len(Append(q, e)) = Len(q) + 1
      /\ \A i \in 1..Len(q) : Append(q, e)[i] = q[i]
      /\ Append(q, e)[Len(q) + 1] = e
  BY AppendProperties
<1>3. DOMAIN Append(q, e) = 1..Len(Append(q, e))
  BY <1>2, LenProperties
<1> QED
  BY <1>1, <1>2, <1>3

LEMMA MadeStays ==
  ASSUME UNCHANGED <<issued, seqCounter>>
  PROVE  \A r : Made(r) => Made(r)'
BY DEF Made, Genuine

LEMMA Frames ==
  /\ IssuedOK /\ UNCHANGED issued => IssuedOK'
  /\ StoresOK /\ UNCHANGED <<local, server, seqCounter, faults>> => StoresOK'
  /\ SavesOK /\ UNCHANGED <<saves, acked, issued>> => SavesOK'
  /\ RowsOK /\ UNCHANGED <<rows, issued, seqCounter>> => RowsOK'
  /\ MutexOK /\ UNCHANGED <<mutex, issued, seqCounter>> => MutexOK'
  /\ FlushOK /\ UNCHANGED <<flush, issued, seqCounter>> => FlushOK'
  /\ AppliedOK /\ UNCHANGED <<applied, issued>> => AppliedOK'
<1>1. IssuedOK /\ UNCHANGED issued => IssuedOK'
  BY DEF IssuedOK
<1>2. StoresOK /\ UNCHANGED <<local, server, seqCounter, faults>> => StoresOK'
  BY DEF StoresOK
<1>3. SavesOK /\ UNCHANGED <<saves, acked, issued>> => SavesOK'
  BY DEF SavesOK
<1>4. RowsOK /\ UNCHANGED <<rows, issued, seqCounter>> => RowsOK'
  BY DEF RowsOK, Made, Genuine, Keyed
<1>5. MutexOK /\ UNCHANGED <<mutex, issued, seqCounter>> => MutexOK'
  BY DEF MutexOK, WriteOK, Made, Genuine, Keyed
<1>6. FlushOK /\ UNCHANGED <<flush, issued, seqCounter>> => FlushOK'
  BY DEF FlushOK, UnitRows, Units, UnitOK, Made, Genuine, Keyed
<1>7. AppliedOK /\ UNCHANGED <<applied, issued>> => AppliedOK'
  BY DEF AppliedOK, Genuine
<1> QED
  BY <1>1, <1>2, <1>3, <1>4, <1>5, <1>6, <1>7

LEMMA MutexStep ==
  ASSUME MutexOK, mutex' \in Seq(WriteRec), \A r : Made(r) => Made(r)',
         \A k \in DOMAIN mutex' :
           \/ \E j \in DOMAIN mutex : mutex'[k] = mutex[j]
           \/ Keyed(mutex'[k].rows) /\ \A r \in mutex'[k].rows : Made(r)'
  PROVE  MutexOK'
BY DEF MutexOK, WriteOK, Keyed

LEMMA MutexGrows ==
  ASSUME MutexOK, \A r : Made(r) => Made(r)', NEW w \in WriteRec, mutex' = Append(mutex, w),
         Keyed(w.rows), \A r \in w.rows : Made(r)'
  PROVE  MutexOK'
<1>1. mutex' \in Seq(WriteRec)
  BY OneMore DEF MutexOK
<1>2. \A k \in DOMAIN mutex' : (k \in DOMAIN mutex /\ mutex'[k] = mutex[k]) \/ mutex'[k] = w
  BY OneMore DEF MutexOK
<1> QED
  BY <1>1, <1>2, MutexStep

LEMMA MutexMovesOn ==
  ASSUME MutexOK, \A r : Made(r) => Made(r)', mutex # <<>>, mutex' = Tail(mutex)
  PROVE  MutexOK'
<1>1. /\ mutex' \in Seq(WriteRec)
      /\ \A k \in DOMAIN mutex' : k + 1 \in DOMAIN mutex /\ mutex'[k] = mutex[k + 1]
  BY FirstOfMany DEF MutexOK
<1> QED
  BY <1>1, MutexStep

LEMMA FlushShrinks ==
  ASSUME FlushOK, \A r : Made(r) => Made(r)', UNCHANGED issued,
         flush' \in FlushRec, Units' \subseteq Units,
         flush'.step = "burying" => flush'.todo = {}
  PROVE  FlushOK'
<1>1. UnitRows' \subseteq UnitRows
  BY DEF UnitRows
<1>2. Keyed(UnitRows)' /\ \A r \in UnitRows' : Made(r)'
  BY <1>1 DEF FlushOK, Keyed
<1>3. \A u \in Units' : UnitOK(u)'
  BY DEF FlushOK, UnitOK, Genuine
<1> QED
  BY <1>2, <1>3 DEF FlushOK

-----------------------------------------------------------------------------
(* What addMany makes of a change, and coalesceGroup of the rows of one     *)
(* entity.                                                                  *)

LEMMA PayloadIs ==
  ASSUME RowsOK, NEW read, read \subseteq rows, NEW c \in ChangeRec
  PROVE  /\ PayloadFor(read, c) \in SUBSET Fields
         /\ \A r \in read : c.kind = "update" /\ SameRow(r, c) =>
              PayloadFor(read, c) = MergeFields(r.fields, c.fields)
         /\ c.kind # "update" \/ (\A r \in read : ~SameRow(r, c)) => PayloadFor(read, c) = c.fields
<1>1. \A r \in read : r.fields \in SUBSET Fields
  BY DEF RowsOK, RowRec
<1>2. c.fields \in SUBSET Fields
  BY DEF ChangeRec
<1>3. CASE c.kind = "update" /\ \E r \in read : SameRow(r, c)
  <2>1. PICK q \in read : SameRow(q, c)
    BY <1>3
  <2>2. \A r \in read : SameRow(r, c) => r = q
    BY <2>1 DEF RowsOK, Keyed, SameRow
  <2>3. (CHOOSE r \in read : SameRow(r, c)) = q
    BY <2>1, <2>2
  <2>4. PayloadFor(read, c) = MergeFields(q.fields, c.fields)
    BY <1>3, <2>3 DEF PayloadFor
  <2>5. MergeFields(q.fields, c.fields) \in SUBSET Fields
    BY <1>1, <1>2 DEF MergeFields
  <2> QED
    BY <1>3, <2>1, <2>2, <2>4, <2>5
<1>4. CASE ~(c.kind = "update" /\ \E r \in read : SameRow(r, c))
  BY <1>2, <1>4 DEF PayloadFor
<1> QED
  BY <1>3, <1>4

LEMMA NewestIs ==
  ASSUME RowsOK, NEW group, group \subseteq rows, group # {}, NEW i, \A r \in group : r.id = i
  PROVE  Newest(group) \in group /\ \A q \in group : q.seq <= Newest(group).seq
<1>1. \A r \in group : r.seq \in Nat /\ r.kind \in {"add", "update", "remove"}
  BY DEF RowsOK, RowRec, Kinds
<1>2. \A r, q \in group : r.kind = q.kind => r.seq = q.seq
  BY DEF RowsOK, Keyed, SameRow
<1>3. \E r \in group : \A q \in group : q.seq <= r.seq
  <2>1. SUFFICES ASSUME \A r \in group : \E q \in group : r.seq < q.seq
                 PROVE  FALSE
    BY <1>1
  <2>2. PICK a \in group : TRUE
    OBVIOUS
  <2>3. PICK b \in group : a.seq < b.seq
    BY <2>1
  <2>4. PICK c \in group : b.seq < c.seq
    BY <2>1
  <2>5. PICK d \in group : c.seq < d.seq
    BY <2>1
  <2> QED
    BY <1>1, <1>2, <2>3, <2>4, <2>5
<1> QED
  BY <1>3 DEF Newest

\* What coalesceGroup makes of the rows of an entity: the newest, n, gives the body.
Coalesced(u, group) ==
  \E n \in group :
    /\ \A q \in group : q.seq <= n.seq
    /\ u.change = n.change
    /\ u.kind = IF n.kind # "remove" /\ \E r \in group : r.kind = "add" THEN "add" ELSE n.kind
    /\ u.whole <=> u.kind # "update" \/ n.fields = {}
    /\ u.carries = IF u.whole THEN n.entity ELSE n.fields

LEMMA UnitIs ==
  ASSUME RowsOK, IssuedOK, NEW i, NEW group, group \subseteq rows, group # {},
         \A r \in group : r.id = i
  PROVE  /\ Unit(group) \in UnitRec /\ UnitOK(Unit(group))
         /\ Unit(group).id = i /\ Unit(group).rows = group
         /\ Coalesced(Unit(group), group)
<1>1. PICK n \in group : n = Newest(group) /\ \A q \in group : q.seq <= n.seq
  BY NewestIs
<1>2. n \in RowRec /\ Made(n) /\ n.id = i
  BY <1>1 DEF RowsOK
<1>3. PICK kind : kind = IF n.kind # "remove" /\ \E r \in group : r.kind = "add"
                           THEN "add" ELSE n.kind
  OBVIOUS
<1>4. kind \in Kinds
  BY <1>2, <1>3 DEF RowRec, Kinds
<1>5. PICK whole \in BOOLEAN : whole <=> kind # "update" \/ n.fields = {}
  OBVIOUS
<1>6. PICK carries : carries = IF whole THEN n.entity ELSE n.fields
  OBVIOUS
<1>7. carries \in SUBSET Fields
  BY <1>2, <1>6 DEF RowRec
<1>8. (kind # "update" \/ n.fields = {}) = whole
  BY <1>5
<1>9. Unit(group) = [id |-> n.id, change |-> n.change, kind |-> kind, whole |-> whole,
                     carries |-> carries, rows |-> group]
  BY <1>1, <1>3, <1>6, <1>8 DEF Unit
<1>10. Unit(group) \in UnitRec
  <2>1. n.id \in Ids /\ n.change \in Changes /\ group \in SUBSET RowRec
    BY <1>2 DEF RowRec, RowsOK
  <2> QED
    BY <1>4, <1>7, <1>9, <2>1 DEF UnitRec
<1>11. UnitOK(Unit(group))
  BY <1>2, <1>9 DEF UnitOK, Made, Genuine
<1>12. Coalesced(Unit(group), group)
  BY <1>1, <1>3, <1>5, <1>6, <1>9 DEF Coalesced
<1> QED
  BY <1>2, <1>9, <1>10, <1>11, <1>12

LEMMA UnitsRead ==
  ASSUME RowsOK, IssuedOK, NEW u \in FlushUnits(rows)
  PROVE  /\ u \in UnitRec /\ UnitOK(u)
         /\ u.rows = {r \in Pending(rows) : r.id = u.id}
         /\ Coalesced(u, u.rows)
         /\ \A v \in FlushUnits(rows) : v.id = u.id => v = u
<1>1. \A v \in FlushUnits(rows) : \E i \in {r.id : r \in Pending(rows)} :
        v = Unit({r \in Pending(rows) : r.id = i})
  BY DEF FlushUnits
<1>2. ASSUME NEW i \in {r.id : r \in Pending(rows)}, NEW v,
             v = Unit({r \in Pending(rows) : r.id = i})
      PROVE  /\ v \in UnitRec /\ UnitOK(v)
             /\ v.id = i /\ v.rows = {r \in Pending(rows) : r.id = i}
             /\ Coalesced(v, v.rows)
  <2>1. PICK group : group = {r \in Pending(rows) : r.id = i}
    OBVIOUS
  <2>2. group \subseteq rows /\ group # {} /\ \A r \in group : r.id = i
    BY <2>1 DEF Pending
  <2>3. /\ Unit(group) \in UnitRec /\ UnitOK(Unit(group))
        /\ Unit(group).id = i /\ Unit(group).rows = group
        /\ Coalesced(Unit(group), group)
    BY <2>2, UnitIs
  <2> QED
    BY <1>2, <2>1, <2>3
<1>3. PICK i \in {r.id : r \in Pending(rows)} : u = Unit({r \in Pending(rows) : r.id = i})
  BY <1>1
<1>4. /\ u \in UnitRec /\ UnitOK(u) /\ u.id = i
      /\ u.rows = {r \in Pending(rows) : r.id = i}
      /\ Coalesced(u, u.rows)
  BY <1>2, <1>3
<1>5. ASSUME NEW v \in FlushUnits(rows), v.id = u.id PROVE v = u
  <2>1. PICK j \in {r.id : r \in Pending(rows)} : v = Unit({r \in Pending(rows) : r.id = j})
    BY <1>1
  <2>2. v.id = j
    BY <1>2, <2>1
  <2> QED
    BY <1>3, <1>4, <1>5, <2>1, <2>2
<1> QED
  BY <1>4, <1>5

-----------------------------------------------------------------------------
(* What the server makes of a body.                                         *)

LEMMA Greatest ==
  ASSUME NEW S \in SUBSET Fields, S # {}
  PROVE  \E x \in S : \A y \in S : y <= x
<1> DEFINE Gap == {MaxChanges - x : x \in S}
<1>1. Gap \subseteq Nat /\ Gap # {}
  <2>1. \A x \in S : MaxChanges - x \in Nat
    BY Numbers
  <2>2. PICK x \in S : TRUE
    OBVIOUS
  <2>3. MaxChanges - x \in Gap
    OBVIOUS
  <2> QED
    BY <2>1, <2>3
<1>2. \E t \in Gap : \A u \in Gap : ~(u < t)
  <2> HIDE DEF Gap
  <2>1. \E t \in Gap : \A u \in Gap : <<u, t>> \notin OpToRel(<, Nat)
    BY <1>1, NatLessThanWellFounded, WFMin, Zenon
  <2> QED
    BY <1>1, <2>1 DEF OpToRel
<1>3. PICK x \in S : \A u \in Gap : ~(u < MaxChanges - x)
  BY <1>2
<1>4. ASSUME NEW y \in S PROVE y <= x
  <2>1. MaxChanges - y \in Gap
    OBVIOUS
  <2>2. ~(MaxChanges - y < MaxChanges - x)
    BY <1>3, <2>1
  <2> QED
    BY <2>2, Numbers
<1> QED
  BY <1>4

LEMMA LastOf ==
  ASSUME NEW S, S \subseteq ItemRec, S # {}
  PROVE  LET last == CHOOSE x \in S : \A y \in S : y.change <= x.change
         IN  last \in S /\ \A y \in S : y.change <= last.change
<1>1. PICK numbers : numbers = {x.change : x \in S}
  OBVIOUS
<1>2. numbers \in SUBSET Fields /\ numbers # {}
  BY <1>1, Numbers DEF ItemRec
<1>3. PICK top \in numbers : \A y \in numbers : y <= top
  BY <1>2, Greatest
<1>4. PICK x \in S : x.change = top
  BY <1>1
<1>5. \A y \in S : y.change <= x.change
  BY <1>1, <1>3, <1>4
<1> QED
  BY <1>5

Mine(items, i, kind) == {x \in Fresh(items) : x.id = i /\ x.kind = kind}

LEMMA ApplyIs ==
  ASSUME NEW i, NEW items
  PROVE  ApplyTo(i, items) =
           IF Mine(items, i, "remove") # {} THEN {}
           ELSE Updated(IF Mine(items, i, "add") = {} THEN server[i]
                        ELSE (CHOOSE x \in Mine(items, i, "add") :
                                \A y \in Mine(items, i, "add") : y.change <= x.change).carries,
                        Mine(items, i, "update"))
BY DEF ApplyTo, Mine

LEMMA UpdatedTyped ==
  ASSUME NEW start \in SUBSET Fields, NEW updates \in SUBSET ItemRec
  PROVE  Updated(start, updates) \in SUBSET Fields
<1>1. PICK resets : resets = {x \in updates : x.whole \/ UpdateReplaces}
  OBVIOUS
<1>2. \A x \in updates : x.carries \in SUBSET Fields
  BY DEF ItemRec
<1>3. CASE resets = {}
  <2>1. Updated(start, updates) = start \cup UNION {x.carries : x \in updates}
    BY <1>1, <1>3 DEF Updated
  <2> QED
    BY <1>2, <2>1
<1>4. CASE resets # {}
  <2>1. resets \subseteq ItemRec
    BY <1>1
  <2>2. PICK last : last = CHOOSE x \in resets : \A y \in resets : y.change <= x.change
    OBVIOUS
  <2>3. last \in resets
    BY <1>4, <2>1, <2>2, LastOf
  <2>4. last.carries \in SUBSET Fields
    BY <1>1, <1>2, <2>3
  <2>5. Updated(start, updates) =
          last.carries \cup UNION {x.carries : x \in {y \in updates : y.change > last.change}}
    BY <1>1, <1>4, <2>2 DEF Updated
  <2> QED
    BY <1>2, <2>4, <2>5
<1> QED
  BY <1>3, <1>4

LEMMA ApplyTyped ==
  ASSUME StoresOK, NEW i \in Ids, NEW items, items \subseteq ItemRec
  PROVE  ApplyTo(i, items) \in SUBSET Fields
<1>1. \A kind : Mine(items, i, kind) \subseteq ItemRec
  BY DEF Mine, Fresh
<1>2. CASE Mine(items, i, "remove") # {}
  BY <1>2, ApplyIs
<1>3. CASE Mine(items, i, "remove") = {}
  <2> DEFINE adds == Mine(items, i, "add")
             last == CHOOSE x \in adds : \A y \in adds : y.change <= x.change
             start == IF adds = {} THEN server[i] ELSE last.carries
  <2>1. ApplyTo(i, items) = Updated(start, Mine(items, i, "update"))
    BY <1>3, ApplyIs
  <2>2. adds \subseteq ItemRec
    BY <1>1
  <2> HIDE DEF adds
  <2>3. adds # {} => last \in ItemRec
    BY <2>2, LastOf
  <2> HIDE DEF last
  <2>4. start \in SUBSET Fields
    BY <2>3 DEF StoresOK, ItemRec
  <2> HIDE DEF start
  <2> QED
    BY <1>1, <2>1, <2>4, UpdatedTyped
<1> QED
  BY <1>2, <1>3

LEMMA DeliverTyped ==
  ASSUME StoresOK, AppliedOK, NEW items, items \subseteq ItemRec, \A x \in items : Genuine(x),
         Deliver(items), UNCHANGED <<local, issued, seqCounter, faults>>
  PROVE  StoresOK' /\ AppliedOK'
<1>1. StoresOK'
  <2>1. server' = [i \in Ids |-> ApplyTo(i, items)]
    BY DEF Deliver
  <2>2. server' \in [Ids -> SUBSET Fields]
    BY <2>1, ApplyTyped
  <2> QED
    BY <2>2 DEF StoresOK
<1>2. applied' = applied \cup Fresh(items) /\ Fresh(items) \subseteq items
  BY DEF Deliver, Fresh
<1> QED
  BY <1>1, <1>2 DEF AppliedOK, Genuine


-----------------------------------------------------------------------------
(* Every step keeps the types.                                              *)

LEMMA PostItemsAre ==
  ASSUME Typed, NEW group, group \subseteq saves
  PROVE  PostItems(group) \subseteq ItemRec /\ \A x \in PostItems(group) : Genuine(x)
<1>1. ASSUME NEW s \in group PROVE DirectItem(issued[s.change]) \in ItemRec
                                   /\ Genuine(DirectItem(issued[s.change]))
  <2>1. s.change \in DOMAIN issued /\ s \in SaveRec
    BY DEF Typed, SavesOK
  <2>2. PICK c \in ChangeRec : c = issued[s.change] /\ c.change = s.change
    BY <2>1, IssuedNumbers DEF Typed, IssuedOK
  <2>3. PICK whole \in BOOLEAN : whole <=> c.kind # "update" \/ c.fields = {}
    OBVIOUS
  <2>4. PICK carries \in SUBSET Fields : carries = IF whole THEN c.entity ELSE c.fields
    BY DEF ChangeRec
  <2>5. (c.kind # "update" \/ c.fields = {}) = whole
    BY <2>3
  <2>6. DirectItem(c) = [id |-> c.id, change |-> c.change, kind |-> c.kind, whole |-> whole,
                         carries |-> carries]
    BY <2>4, <2>5 DEF DirectItem
  <2>7. DirectItem(c) \in ItemRec
    BY <2>2, <2>6 DEF ItemRec, ChangeRec
  <2> QED
    BY <2>1, <2>2, <2>6, <2>7 DEF Genuine
<1> QED
  BY <1>1 DEF PostItems

LEMMA FlushItemsAre ==
  ASSUME FlushOK
  PROVE  FlushItems \subseteq ItemRec /\ \A x \in FlushItems : Genuine(x)
<1>1. \A u \in flush.now : u \in UnitRec /\ UnitOK(u)
  BY DEF FlushOK, FlushRec, Units
<1> QED
  BY <1>1 DEF FlushItems, FlushItem, ItemRec, UnitRec, UnitOK, Genuine

\* A save issues change c.
Saves(c, i, kind) ==
  /\ c.id = i /\ c.kind = kind /\ c.change = Len(issued) + 1
  /\ c.entity = CASE kind = "add" -> {c.change}
                  [] kind = "update" -> local[i] \cup {c.change}
                  [] OTHER -> local[i]
  /\ c.fields = {} \/ (kind = "update" /\ TRUE \in Trims /\ c.fields = {c.change})
  /\ local' = [local EXCEPT ![i] = IF kind = "remove" THEN {} ELSE c.entity]
  /\ issued' \in Seq(ChangeRec) /\ Len(issued') = c.change
  /\ DOMAIN issued' = DOMAIN issued \cup {c.change} /\ issued'[c.change] = c
  /\ \A m \in DOMAIN issued : issued'[m] = issued[m] /\ m < c.change
  /\ saves' = saves \cup {[change |-> c.change, seq |-> 0, step |-> "record"]}

LEMMA SaveIs ==
  ASSUME Typed, NEW i \in Ids, NEW kind \in Kinds, Save(i, kind)
  PROVE  \E c \in ChangeRec : Saves(c, i, kind)
<1>1. PICK n : n = Len(issued) + 1
  OBVIOUS
<1>2. PICK entity : entity = CASE kind = "add" -> {n}
                               [] kind = "update" -> local[i] \cup {n}
                               [] OTHER -> local[i]
  OBVIOUS
<1>3. PICK trimmed \in Trims :
        /\ local' = [local EXCEPT ![i] = IF kind = "remove" THEN {} ELSE entity]
        /\ issued' = Append(issued,
             [id |-> i, kind |-> kind, change |-> n, entity |-> entity,
              fields |-> IF kind = "update" /\ trimmed THEN {n} ELSE {}])
        /\ saves' = saves \cup {[change |-> n, seq |-> 0, step |-> "record"]}
  BY <1>1, <1>2 DEF Save
<1>4. trimmed \in BOOLEAN /\ (trimmed => TRUE \in Trims)
  BY ModesAssumption
<1>5. PICK fields : fields = IF kind = "update" /\ trimmed THEN {n} ELSE {}
  OBVIOUS
<1>6. fields = {} \/ (kind = "update" /\ TRUE \in Trims /\ fields = {n})
  <2>1. CASE kind = "update" /\ trimmed
    <3>1. fields = {n}
      BY <1>5, <2>1, Zenon
    <3> QED
      BY <1>4, <2>1, <3>1, Zenon
  <2>2. CASE ~(kind = "update" /\ trimmed)
    <3>1. fields = {}
      BY <1>5, <2>2
    <3> QED
      BY <3>1
  <2> QED
    BY <2>1, <2>2
<1>7. n \in Changes /\ n \in Fields /\ Len(issued) < MaxChanges
  BY <1>1, Numbers, IssuedNumbers DEF Save, Typed
<1>8. entity \in SUBSET Fields /\ fields \in SUBSET Fields
  <2>1. local[i] \in SUBSET Fields
    BY DEF Typed, StoresOK
  <2> QED
    BY <1>2, <1>6, <1>7, <2>1
<1>9. PICK c \in ChangeRec : c = [id |-> i, kind |-> kind, change |-> n, entity |-> entity,
                                  fields |-> fields]
  BY <1>7, <1>8 DEF ChangeRec
<1>10. issued' = Append(issued, c) /\ issued \in Seq(ChangeRec)
  BY <1>3, <1>5, <1>9 DEF Typed, IssuedOK
<1>11. /\ issued' \in Seq(ChangeRec) /\ Len(issued') = n
       /\ \A m \in 1..Len(issued) : issued'[m] = issued[m]
       /\ issued'[n] = c
  BY <1>1, <1>10, AppendProperties
<1>12. DOMAIN issued' = 1..n /\ DOMAIN issued = 1..Len(issued) /\ Len(issued) \in Nat
  BY <1>11, <1>10, LenProperties
<1>13. /\ DOMAIN issued' = DOMAIN issued \cup {n}
       /\ \A m \in DOMAIN issued : issued'[m] = issued[m] /\ m < n
  BY <1>1, <1>11, <1>12
<1>14. c.change = n /\ c.id = i /\ c.kind = kind /\ c.entity = entity /\ c.fields = fields
  BY <1>9
<1>15. /\ c.entity = CASE kind = "add" -> {c.change}
                       [] kind = "update" -> local[i] \cup {c.change}
                       [] OTHER -> local[i]
       /\ local' = [local EXCEPT ![i] = IF kind = "remove" THEN {} ELSE c.entity]
       /\ saves' = saves \cup {[change |-> c.change, seq |-> 0, step |-> "record"]}
  BY <1>2, <1>3, <1>14
<1>16. c.fields = {} \/ (kind = "update" /\ TRUE \in Trims /\ c.fields = {c.change})
  BY <1>6, <1>14
<1>17. Saves(c, i, kind)
  BY <1>1, <1>11, <1>13, <1>14, <1>15, <1>16 DEF Saves
<1> QED
  BY <1>17

LEMMA SaveTyped ==
  ASSUME Typed, NEW i \in Ids, NEW kind \in Kinds, Save(i, kind)
  PROVE  Typed'
<1>1. PICK c \in ChangeRec : Saves(c, i, kind)
  BY SaveIs
<1>2. UNCHANGED <<acked, seqCounter, rows, mutex, flush, server, applied, faults>>
  BY DEF Save, remote
<1>3. c.change \in Changes /\ c.entity \in SUBSET Fields
  BY DEF ChangeRec
<1>4. IssuedOK'
  BY <1>1, <1>3, Numbers DEF Typed, IssuedOK, Save, Saves
<1>5. StoresOK'
  BY <1>1, <1>2, <1>3 DEF Typed, StoresOK, Saves
<1>6. SavesOK'
  BY <1>1, <1>2, <1>3 DEF Typed, SavesOK, SaveRec, Saves
<1>7. \A r : Genuine(r) => Genuine(r)'
  BY <1>1 DEF Genuine, Saves
<1>8. \A r : Made(r) => Made(r)'
  BY <1>1, <1>2, <1>7 DEF Made, Genuine, Saves
<1>9. RowsOK' /\ MutexOK' /\ FlushOK' /\ AppliedOK'
  <2>1. RowsOK'
    BY <1>2, <1>8 DEF Typed, RowsOK, Keyed
  <2>2. MutexOK'
    BY <1>2, <1>8, MutexStep DEF Typed, MutexOK
  <2>3. FlushOK'
    BY <1>2, <1>7, <1>8 DEF Typed, FlushOK, UnitRows, Units, UnitOK, Keyed
  <2>4. AppliedOK'
    BY <1>2, <1>7 DEF Typed, AppliedOK
  <2> QED
    BY <2>1, <2>2, <2>3, <2>4
<1> QED
  BY <1>4, <1>5, <1>6, <1>9 DEF Typed


LEMMA ReadsTyped == ASSUME NEW read \in Reads PROVE read \subseteq rows /\ ("unread" \notin Races => read = rows)
BY DEF Reads

LEMMA RecordIs ==
  ASSUME Typed, NEW s \in saves, Record(s)
  PROVE  \E read \in Reads, row \in RowRec, w \in WriteRec, t \in SaveRec :
           /\ row.id = issued[s.change].id /\ row.kind = issued[s.change].kind
           /\ row.change = s.change /\ row.entity = issued[s.change].entity
           /\ row.fields = PayloadFor(read, issued[s.change])
           /\ row.seq = seqCounter + 1 /\ ~row.dead
           /\ w = [type |-> "put", by |-> "save", change |-> s.change, rows |-> {row}]
           /\ mutex' = Append(mutex, w)
           /\ seqCounter' = seqCounter + 1
           /\ t.change = s.change /\ t.seq = seqCounter + 1 /\ t.step = "recording"
           /\ saves' = (saves \ {s}) \cup {t}
<1>1. s \in SaveRec /\ s.change \in DOMAIN issued
  BY DEF Typed, SavesOK
<1>2. PICK c \in ChangeRec : c = issued[s.change] /\ c.change = s.change
  BY <1>1, IssuedNumbers DEF Typed, IssuedOK
<1>3. PICK read \in Reads :
        mutex' = Append(mutex, [type |-> "put", by |-> "save", change |-> s.change,
                                rows |-> {RowOf(c, PayloadFor(read, c), seqCounter + 1)}])
  BY <1>2 DEF Record
<1>4. PayloadFor(read, c) \in SUBSET Fields
  BY <1>2, ReadsTyped, PayloadIs DEF Typed
<1>5. PICK fields \in SUBSET Fields : fields = PayloadFor(read, c)
  BY <1>4
<1>6. seqCounter + 1 \in Nat
  BY DEF Typed, StoresOK
<1>7. PICK row \in RowRec : row = RowOf(c, fields, seqCounter + 1)
  BY <1>6 DEF RowOf, RowRec, ChangeRec
<1>8. PICK w \in WriteRec : w = [type |-> "put", by |-> "save", change |-> s.change, rows |-> {row}]
  <2>1. s.change \in 0..MaxChanges
    BY <1>1, Numbers DEF SaveRec
  <2> QED
    BY <2>1 DEF WriteRec
<1>9. PICK t \in SaveRec : t = [s EXCEPT !.seq = seqCounter + 1, !.step = "recording"]
  BY <1>1, <1>6 DEF SaveRec
<1>10. /\ row.id = c.id /\ row.kind = c.kind /\ row.change = s.change /\ row.entity = c.entity
       /\ row.fields = PayloadFor(read, c) /\ row.seq = seqCounter + 1 /\ ~row.dead
  BY <1>2, <1>5, <1>7 DEF RowOf
<1>11. mutex' = Append(mutex, w)
  BY <1>3, <1>5, <1>7, <1>8
<1>12. /\ t.change = s.change /\ t.seq = seqCounter + 1 /\ t.step = "recording"
       /\ saves' = (saves \ {s}) \cup {t}
  BY <1>1, <1>9 DEF Record, SaveRec
<1>13. seqCounter' = seqCounter + 1
  BY DEF Record
<1> QED
  BY <1>2, <1>8, <1>10, <1>11, <1>12, <1>13

LEMMA RecordTyped ==
  ASSUME Typed, NEW s \in saves, Record(s)
  PROVE  Typed'
<1>1. PICK row \in RowRec, w \in WriteRec, t \in SaveRec :
           /\ row.id = issued[s.change].id /\ row.kind = issued[s.change].kind
           /\ row.change = s.change /\ row.entity = issued[s.change].entity
           /\ row.seq = seqCounter + 1
           /\ w = [type |-> "put", by |-> "save", change |-> s.change, rows |-> {row}]
           /\ mutex' = Append(mutex, w)
           /\ seqCounter' = seqCounter + 1
           /\ t.change = s.change
           /\ saves' = (saves \ {s}) \cup {t}
  BY RecordIs, SMTT(60)
<1>2. UNCHANGED <<local, issued, acked, rows, flush, server, applied, faults>>
  BY DEF Record, remote
<1>3. s.change \in DOMAIN issued
  BY DEF Typed, SavesOK
<1>4. seqCounter \in Nat
  BY DEF Typed, StoresOK
<1>5. \A r : r \in RowRec /\ Made(r) => Made(r)'
  BY <1>1, <1>2, <1>4 DEF Made, Genuine, RowRec
<1>6. Made(row)' /\ w.rows = {row}
  BY <1>1, <1>2, <1>3, <1>4 DEF Made, Genuine
<1>7. IssuedOK' /\ AppliedOK'
  BY <1>2, Frames DEF Typed
<1>8. StoresOK' /\ SavesOK'
  BY <1>1, <1>2, <1>3, <1>4 DEF Typed, StoresOK, SavesOK
<1>9. RowsOK'
  BY <1>2, <1>5 DEF Typed, RowsOK, Keyed
<1>10. MutexOK'
  <2>1. /\ mutex' \in Seq(WriteRec)
        /\ \A k \in DOMAIN mutex' : (k \in DOMAIN mutex /\ mutex'[k] = mutex[k]) \/ mutex'[k] = w
    BY <1>1, OneMore DEF Typed, MutexOK
  <2>2. \A k \in DOMAIN mutex : mutex[k].rows \subseteq RowRec
    <3>1. \A k \in DOMAIN mutex : mutex[k] \in WriteRec
      BY LenProperties, ElementOfSeq DEF Typed, MutexOK
    <3> QED
      BY <3>1 DEF WriteRec
  <2>3. \A k \in DOMAIN mutex' : Keyed(mutex'[k].rows) /\ \A r \in mutex'[k].rows : Made(r)'
    BY <1>5, <1>6, <2>1, <2>2 DEF Typed, MutexOK, WriteOK, Keyed
  <2> QED
    BY <2>1, <2>3 DEF MutexOK, WriteOK, Keyed
<1>11. FlushOK'
  <2>1. UnitRows \subseteq RowRec
    BY DEF Typed, FlushOK, FlushRec, UnitRec, UnitRows, Units
  <2> QED
    BY <1>2, <1>5, <2>1 DEF Typed, FlushOK, UnitRows, Units, UnitOK, Genuine, Keyed
<1> QED
  BY <1>7, <1>8, <1>9, <1>10, <1>11 DEF Typed


\* A POST takes a save to its dequeue, or ends it.
PostsEnd(group) ==
  \A s \in saves' : \/ s \in saves /\ (s \notin group \/ saves' \subseteq saves)
                    \/ \E t \in group : s = [t EXCEPT !.step = "dequeue"]

LEMMA PostTyped ==
  ASSUME Typed, NEW group \in Groups,
         PostSucceeds(group) \/ PostUnheard(group) \/ PostFails(group)
  PROVE  Typed'
<1>1. UNCHANGED <<local, issued, acked, seqCounter, rows, mutex, flush, faults>>
  BY DEF PostSucceeds, PostUnheard, PostFails
<1>2. group \subseteq saves
  BY DEF Groups, Posting
<1>3. PostsEnd(group)
  BY <1>2 DEF PostSucceeds, PostUnheard, PostFails, PostsEnd
<1>4. SavesOK'
  <2>1. \A t \in SaveRec : [t EXCEPT !.step = "dequeue"] \in SaveRec
    BY DEF SaveRec
  <2>2. \A t \in SaveRec : [t EXCEPT !.step = "dequeue"].change = t.change
    BY DEF SaveRec
  <2>3. saves' \subseteq SaveRec /\ \A s \in saves' : \E t \in saves : t.change = s.change
    <3>1. saves \subseteq SaveRec
      BY DEF Typed, SavesOK
    <3>2. \A s \in saves' : s \in saves \/ \E t \in saves : s = [t EXCEPT !.step = "dequeue"]
      BY <1>2, <1>3 DEF PostsEnd
    <3> QED
      BY <2>1, <2>2, <3>1, <3>2
  <2>4. \A s, t \in saves' : s.change = t.change => s = t
    <3>1. CASE saves' \subseteq saves
      BY <3>1 DEF Typed, SavesOK
    <3>2. CASE ~(saves' \subseteq saves)
      <4>1. \A s \in saves' : \E t \in saves : /\ t.change = s.change
                                               /\ s = IF t \in group THEN [t EXCEPT !.step = "dequeue"] ELSE t
        BY <1>2, <1>3, <2>2, <3>2 DEF Typed, SavesOK, PostsEnd
      <4> QED
        BY <4>1 DEF Typed, SavesOK
    <3> QED
      BY <3>1, <3>2
  <2> QED
    BY <1>1, <2>3, <2>4 DEF Typed, SavesOK
<1>5. StoresOK' /\ AppliedOK'
  <2>1. CASE Deliver(PostItems(group))
    BY <1>1, <1>2, <2>1, PostItemsAre, DeliverTyped DEF Typed
  <2>2. CASE UNCHANGED remote
    BY <1>1, <2>2, Frames DEF Typed, remote
  <2> QED
    BY <2>1, <2>2 DEF PostSucceeds, PostUnheard, PostFails
<1> QED
  BY <1>1, <1>4, <1>5, Frames DEF Typed

LEMMA DequeueTyped ==
  ASSUME Typed, NEW s \in saves, Dequeue(s)
  PROVE  Typed'
<1>1. UNCHANGED <<local, issued, acked, seqCounter, rows, flush, server, applied, faults>>
      /\ saves' \subseteq saves
  BY DEF Dequeue, remote
<1>2. PICK gone : mutex' = Append(mutex, [type |-> "delete", by |-> "other", change |-> 0,
                                          rows |-> gone]) /\ gone \subseteq rows
  <2>1. PICK c : c = issued[s.change]
    OBVIOUS
  <2>2. PICK done : done = [id |-> c.id, kind |-> c.kind, change |-> c.change, seq |-> s.seq]
    OBVIOUS
  <2>3. PICK read \in Reads :
          mutex' = Append(mutex, [type |-> "delete", by |-> "other", change |-> 0,
                                  rows |-> Retired(read, done)])
    BY <2>1, <2>2 DEF Dequeue
  <2>4. Retired(read, done) \subseteq rows
    BY ReadsTyped DEF Retired
  <2> QED
    BY <2>3, <2>4
<1>3. PICK w \in WriteRec : w = [type |-> "delete", by |-> "other", change |-> 0, rows |-> gone]
  BY <1>2, Numbers DEF WriteRec, Typed, RowsOK
<1>4. MutexOK'
  BY <1>1, <1>2, <1>3, MadeStays, MutexGrows DEF Typed, RowsOK, Keyed
<1>5. SavesOK'
  BY <1>1 DEF Typed, SavesOK
<1> QED
  BY <1>1, <1>4, <1>5, Frames DEF Typed

LEMMA FlushReadTyped ==
  ASSUME Typed, FlushRead
  PROVE  Typed'
<1>1. UNCHANGED <<local, issued, acked, seqCounter, saves, rows, mutex, server, applied, faults>>
  BY DEF FlushRead, remote
<1>2. flush' = [step |-> "batch", now |-> FlushUnits(rows), todo |-> {}]
  BY DEF FlushRead
<1>3. /\ FlushUnits(rows) \subseteq UnitRec
      /\ \A u \in FlushUnits(rows) : UnitOK(u) /\ u.rows \subseteq rows
      /\ \A u, v \in FlushUnits(rows) : v.id = u.id => v = u
  BY UnitsRead DEF Typed, Pending
<1>4. Units' = FlushUnits(rows) /\ flush' \in FlushRec /\ flush'.step = "batch"
  BY <1>2, <1>3 DEF Units, FlushRec, Sending
<1>5. UnitRows' \subseteq rows
  BY <1>3, <1>4 DEF UnitRows
<1>6. FlushOK'
  <2>1. Keyed(UnitRows)' /\ \A r \in UnitRows' : Made(r)'
    BY <1>1, <1>5 DEF Typed, RowsOK, Keyed, Made, Genuine
  <2>2. \A u \in Units' : UnitOK(u)'
    BY <1>1, <1>3, <1>4 DEF UnitOK, Genuine
  <2> QED
    BY <1>3, <1>4, <2>1, <2>2 DEF FlushOK
<1> QED
  BY <1>1, <1>6, Frames DEF Typed

LEMMA FlushRowsAre ==
  ASSUME FlushOK
  PROVE  /\ FlushRows \subseteq UnitRows /\ FlushRows \subseteq RowRec /\ Keyed(FlushRows)
         /\ \A r \in FlushRows : Made(r)
<1>1. FlushRows \subseteq UnitRows
  BY DEF FlushRows, UnitRows, Units
<1>2. UnitRows \subseteq RowRec
  BY DEF FlushOK, FlushRec, UnitRec, UnitRows, Units
<1> QED
  BY <1>1, <1>2 DEF FlushOK, Keyed

LEMMA FlushSettleTyped ==
  ASSUME Typed, FlushSettle
  PROVE  Typed'
<1>1. UNCHANGED <<local, issued, acked, seqCounter, saves, rows, server, applied, faults>>
  BY DEF FlushSettle, remote
<1>2. flush' = [flush EXCEPT !.step = "settling"]
  BY DEF FlushSettle
<1>3. PICK gone : mutex' = Append(mutex, [type |-> "delete", by |-> "flush", change |-> 0,
                                          rows |-> gone]) /\ gone \subseteq rows
  BY ReadsTyped DEF FlushSettle, Settled
<1>4. PICK w \in WriteRec : w = [type |-> "delete", by |-> "flush", change |-> 0, rows |-> gone]
  BY <1>3, Numbers DEF WriteRec, Typed, RowsOK
<1>5. MutexOK'
  BY <1>1, <1>3, <1>4, MadeStays, MutexGrows DEF Typed, RowsOK, Keyed
<1>6. flush' \in FlushRec /\ Units' = Units /\ flush'.step = "settling"
  BY <1>2 DEF Typed, FlushOK, FlushRec, Units
<1>7. FlushOK'
  BY <1>1, <1>6, MadeStays, FlushShrinks DEF Typed
<1> QED
  BY <1>1, <1>5, <1>7, Frames DEF Typed

LEMMA FlushSucceedsTyped ==
  ASSUME Typed, FlushSucceeds
  PROVE  Typed'
<1>1. UNCHANGED <<local, issued, acked, seqCounter, saves, rows, mutex, faults>>
  BY DEF FlushSucceeds
<1>2. flush' = [flush EXCEPT !.step = "settle"]
  BY DEF FlushSucceeds
<1>3. StoresOK' /\ AppliedOK'
  BY <1>1, FlushItemsAre, DeliverTyped DEF Typed, FlushSucceeds
<1>4. flush' \in FlushRec /\ Units' = Units /\ flush'.step = "settle"
  BY <1>2 DEF Typed, FlushOK, FlushRec, Units
<1>5. FlushOK'
  BY <1>1, <1>4, MadeStays, FlushShrinks DEF Typed
<1> QED
  BY <1>1, <1>3, <1>5, Frames DEF Typed

LEMMA WriteBackTyped ==
  ASSUME Typed, NEW news, news \subseteq RowRec, Keyed(news), \A r \in news : Made(r),
         UNCHANGED <<issued, seqCounter>>,
         mutex' = Append(mutex, [type |-> "replace", by |-> "flush", change |-> 0, rows |-> news])
  PROVE  MutexOK'
<1>1. PICK w \in WriteRec : w = [type |-> "replace", by |-> "flush", change |-> 0, rows |-> news]
  BY Numbers DEF WriteRec
<1> QED
  BY <1>1, MadeStays, MutexGrows DEF Typed

LEMMA FlushFailsTyped ==
  ASSUME Typed, FlushFails
  PROVE  Typed'
<1>1. /\ UNCHANGED <<local, issued, acked, seqCounter, saves, rows, faults>>
      /\ flush' = [flush EXCEPT !.step = "settling"]
      /\ mutex' = Append(mutex, [type |-> "replace", by |-> "flush", change |-> 0,
                                 rows |-> FlushRows])
  BY DEF FlushFails, WriteBack
<1>2. MutexOK'
  BY <1>1, FlushRowsAre, WriteBackTyped DEF Typed
<1>3. flush' \in FlushRec /\ Units' = Units /\ flush'.step = "settling"
  BY <1>1 DEF Typed, FlushOK, FlushRec, Units
<1>4. FlushOK'
  BY <1>1, <1>3, MadeStays, FlushShrinks DEF Typed
<1>5. StoresOK' /\ AppliedOK'
  <2>1. CASE Deliver(FlushItems)
    BY <1>1, <2>1, FlushItemsAre, DeliverTyped DEF Typed
  <2>2. CASE UNCHANGED remote
    BY <1>1, <2>2, Frames DEF Typed, remote
  <2> QED
    BY <2>1, <2>2 DEF FlushFails
<1> QED
  BY <1>1, <1>2, <1>4, <1>5, Frames DEF Typed

LEMMA FlushIsolatesTyped ==
  ASSUME Typed, FlushIsolates
  PROVE  Typed'
<1>1. UNCHANGED <<local, issued, acked, seqCounter, saves, rows, mutex, server, applied, faults>>
  BY DEF FlushIsolates, remote
<1>2. PICK u \in flush.now : flush' = [step |-> "single", now |-> {u}, todo |-> flush.now \ {u}]
  BY DEF FlushIsolates
<1>3. flush' \in FlushRec /\ Units' \subseteq Units /\ flush'.step = "single"
  BY <1>2 DEF Typed, FlushOK, FlushRec, Units, Sending
<1>4. FlushOK'
  BY <1>1, <1>3, MadeStays, FlushShrinks DEF Typed
<1> QED
  BY <1>1, <1>4, Frames DEF Typed


LEMMA MarkedRows ==
  ASSUME NEW set, set \subseteq RowRec, Keyed(set), \A r \in set : Made(r), NEW mark \in BOOLEAN
  PROVE  /\ {[r EXCEPT !.dead = mark] : r \in set} \subseteq RowRec
         /\ Keyed({[r EXCEPT !.dead = mark] : r \in set})
         /\ \A r \in {[r EXCEPT !.dead = mark] : r \in set} : Made(r)
<1>1. \A r \in set : /\ [r EXCEPT !.dead = mark] \in RowRec
                     /\ [r EXCEPT !.dead = mark].id = r.id
                     /\ [r EXCEPT !.dead = mark].kind = r.kind
                     /\ [r EXCEPT !.dead = mark].change = r.change
                     /\ [r EXCEPT !.dead = mark].entity = r.entity
                     /\ [r EXCEPT !.dead = mark].seq = r.seq
  BY DEF RowRec
<1>2. PICK news : news = {[r EXCEPT !.dead = mark] : r \in set}
  OBVIOUS
<1>3. \A x \in news : \E r \in set :
        /\ x = [r EXCEPT !.dead = mark] /\ x \in RowRec
        /\ x.id = r.id /\ x.kind = r.kind /\ x.change = r.change /\ x.entity = r.entity
        /\ x.seq = r.seq
  <2>1. TAKE x \in news
  <2>2. PICK r \in set : x = [r EXCEPT !.dead = mark]
    BY <1>2
  <2>3. /\ x \in RowRec /\ x.id = r.id /\ x.kind = r.kind /\ x.change = r.change
        /\ x.entity = r.entity /\ x.seq = r.seq
    BY <1>1, <2>2
  <2> QED
    BY <2>2, <2>3
<1>4. Keyed(news)
  BY <1>3 DEF Keyed, SameRow
<1>5. news \subseteq RowRec /\ \A r \in news : Made(r)
  BY <1>3 DEF Made, Genuine
<1> QED
  BY <1>2, <1>4, <1>5

LEMMA FlushBuriesIs ==
  ASSUME FlushBuries
  PROVE  \E buried \in SUBSET flush.now :
           /\ mutex' = Append(mutex, [type |-> "replace", by |-> "flush", change |-> 0,
                                      rows |-> Dead(UNION {u.rows : u \in buried})])
           /\ flush' = IF buried = flush.now THEN [flush EXCEPT !.step = "settling"]
                       ELSE [step |-> "burying", now |-> flush.now \ buried, todo |-> {}]
<1>1. PICK buried \in {{u \in flush.now : FlushItem(u) \in Unacceptable(FlushItems)}, flush.now} :
        WriteBack(Dead(UNION {u.rows : u \in buried}),
         IF buried = flush.now THEN [flush EXCEPT !.step = "settling"]
         ELSE [step |-> "burying", now |-> flush.now \ buried, todo |-> {}])
  BY DEF FlushBuries
<1>2. buried \in SUBSET flush.now
  BY <1>1
<1> QED
  BY <1>1, <1>2 DEF WriteBack

LEMMA FlushBuriesTyped ==
  ASSUME Typed, FlushBuries
  PROVE  Typed'
<1>1. UNCHANGED <<local, issued, acked, seqCounter, saves, rows, server, applied, faults>>
  BY DEF FlushBuries, WriteBack, remote
<1>2. PICK buried \in SUBSET flush.now :
        /\ mutex' = Append(mutex, [type |-> "replace", by |-> "flush", change |-> 0,
                                   rows |-> Dead(UNION {u.rows : u \in buried})])
        /\ flush' = IF buried = flush.now THEN [flush EXCEPT !.step = "settling"]
                    ELSE [step |-> "burying", now |-> flush.now \ buried, todo |-> {}]
  BY FlushBuriesIs
<1>3. PICK old : old = UNION {u.rows : u \in buried}
  OBVIOUS
<1>4. old \subseteq FlushRows
  BY <1>3 DEF FlushRows
<1>5. old \subseteq RowRec /\ Keyed(old) /\ \A r \in old : Made(r)
  BY <1>4, FlushRowsAre DEF Typed, Keyed
<1>6. PICK news : news = Dead(old)
  OBVIOUS
<1>7. news \subseteq RowRec /\ Keyed(news) /\ \A r \in news : Made(r)
  BY <1>5, <1>6, MarkedRows DEF Dead
<1>8. MutexOK'
  BY <1>1, <1>2, <1>3, <1>6, <1>7, WriteBackTyped
<1>9. /\ flush' \in FlushRec /\ Units' \subseteq Units
      /\ flush'.step = "burying" => flush'.todo = {}
  <2>1. flush \in FlushRec
    BY DEF Typed, FlushOK
  <2>2. CASE buried = flush.now
    <3>1. flush' = [flush EXCEPT !.step = "settling"]
      BY <1>2, <2>2
    <3> QED
      BY <2>1, <3>1 DEF FlushRec, Units
  <2>3. CASE buried # flush.now
    <3>1. flush' = [step |-> "burying", now |-> flush.now \ buried, todo |-> {}]
      BY <1>2, <2>3
    <3> QED
      BY <2>1, <3>1 DEF FlushRec, Units
  <2> QED
    BY <2>2, <2>3
<1>10. FlushOK'
  BY <1>1, <1>9, MadeStays, FlushShrinks DEF Typed
<1> QED
  BY <1>1, <1>8, <1>10, Frames DEF Typed

LEMMA ReviveTyped ==
  ASSUME Typed, Revive
  PROVE  Typed'
<1>1. UNCHANGED <<local, issued, acked, seqCounter, saves, rows, flush, server, applied>>
      /\ faults' = faults + 1 /\ faults < MaxFaults
  BY DEF Revive
<1>2. PICK old : old = rows \ Pending(rows)
  OBVIOUS
<1>3. PICK news : news = {[r EXCEPT !.dead = FALSE] : r \in old}
  OBVIOUS
<1>4. old \subseteq RowRec /\ Keyed(old) /\ \A r \in old : Made(r)
  BY <1>2 DEF Typed, RowsOK, Keyed
<1>5. news \subseteq RowRec /\ Keyed(news) /\ \A r \in news : Made(r)
  BY <1>3, <1>4, MarkedRows
<1>6. PICK w \in WriteRec : w = [type |-> "replace", by |-> "other", change |-> 0, rows |-> news]
  <2>1. news \in SUBSET RowRec /\ 0 \in 0..MaxChanges
    BY <1>5, Numbers
  <2> QED
    BY <2>1 DEF WriteRec
<1>7. mutex' = Append(mutex, w)
  BY <1>2, <1>3, <1>6 DEF Revive
<1>8. MutexOK'
  BY <1>1, <1>5, <1>6, <1>7, MadeStays, MutexGrows DEF Typed
<1>9. StoresOK'
  BY <1>1, Numbers DEF Typed, StoresOK
<1> QED
  BY <1>1, <1>8, <1>9, Frames DEF Typed

LEMMA GoesOn ==
  ASSUME FlushOK, NEW next \in FlushGoesOn
  PROVE  /\ next \in FlushRec /\ next.now \cup next.todo \subseteq Units
         /\ \/ flush.step = "burying" /\ next = [flush EXCEPT !.step = "rest"]
            \/ flush.step # "burying" /\ next.step = "single"
               /\ \E u \in flush.todo : next.now = {u} /\ next.todo = flush.todo \ {u}
            \/ flush.step # "burying" /\ next = Idle
<1>1. flush \in FlushRec
  BY DEF FlushOK
<1>2. CASE flush.step = "burying"
  <2>1. next = [flush EXCEPT !.step = "rest"]
    BY <1>2 DEF FlushGoesOn, FlushOK
  <2> QED
    BY <1>1, <1>2, <2>1 DEF FlushRec, Units, Sending
<1>3. CASE flush.step # "burying" /\ flush.todo # {}
  <2>1. PICK u \in flush.todo : next = [step |-> "single", now |-> {u}, todo |-> flush.todo \ {u}]
    BY <1>3 DEF FlushGoesOn
  <2> QED
    BY <1>1, <1>3, <2>1 DEF FlushRec, Units, Sending
<1>4. CASE flush.step # "burying" /\ flush.todo = {}
  <2>1. next = Idle
    BY <1>4 DEF FlushGoesOn
  <2> QED
    BY <1>4, <2>1 DEF FlushRec, Idle
<1> QED
  BY <1>2, <1>3, <1>4

\* The head of the mutex.
LEMMA HeadIs ==
  ASSUME MutexOK, mutex # <<>>
  PROVE  /\ 1 \in DOMAIN mutex /\ Head(mutex) = mutex[1] /\ Head(mutex) \in WriteRec
         /\ WriteOK(Head(mutex))
BY FirstOfMany DEF MutexOK

LEMMA WriteTyped ==
  ASSUME Typed, Write
  PROVE  Typed'
<1>1. UNCHANGED <<local, seqCounter, issued, server, applied, faults>>
      /\ mutex # <<>> /\ mutex' = Tail(mutex)
  BY DEF Write, remote
<1>2. PICK w \in WriteRec : w = Head(mutex) /\ WriteOK(w)
  BY <1>1, HeadIs DEF Typed
<1>3. /\ rows' = IF w.type = "delete" THEN DeleteById(rows, w.rows) ELSE Upsert(rows, w.rows)
      /\ acked' = acked \cup {s.change : s \in Owner(w)}
      /\ saves' = (saves \ Owner(w)) \cup
           (IF Direct THEN {[s EXCEPT !.step = "posting"] : s \in Owner(w)} ELSE {})
      /\ flush' \in (IF w.by = "flush" THEN FlushGoesOn ELSE {flush})
  BY <1>2 DEF Write
<1>4. Owner(w) \subseteq saves
  BY DEF Owner
<1>5. RowsOK'
  <2>1. rows' \subseteq rows \cup w.rows
    BY <1>3 DEF DeleteById, Upsert
  <2>2. Keyed(DeleteById(rows, w.rows)) /\ Keyed(Upsert(rows, w.rows))
    BY <1>2 DEF Typed, RowsOK, WriteOK, Keyed, DeleteById, Upsert, SameRow
  <2>3. Keyed(rows)'
    BY <1>3, <2>2 DEF Keyed
  <2>4. w.rows \subseteq RowRec
    BY DEF WriteRec
  <2> QED
    BY <1>1, <1>2, <2>1, <2>3, <2>4 DEF Typed, RowsOK, WriteOK, Made, Genuine
<1>6. SavesOK'
  <2>1. \A s \in SaveRec : [s EXCEPT !.step = "posting"] \in SaveRec
                           /\ [s EXCEPT !.step = "posting"].change = s.change
    BY DEF SaveRec
  <2>2. saves \subseteq SaveRec
    BY DEF Typed, SavesOK
  <2>3. \A s \in saves' : \E t \in saves :
          s = IF t \in Owner(w) THEN [t EXCEPT !.step = "posting"] ELSE t
    BY <1>3, <1>4
  <2>4. \A s \in saves' : s \in SaveRec /\ \E t \in saves :
          /\ s.change = t.change
          /\ s = IF t \in Owner(w) THEN [t EXCEPT !.step = "posting"] ELSE t
    BY <2>1, <2>2, <2>3
  <2>5. \A n \in acked' : n \in acked \/ \E t \in saves : t.change = n
    BY <1>3, <1>4
  <2>6. \A s, t \in saves' : s.change = t.change => s = t
    BY <2>4 DEF Typed, SavesOK
  <2> QED
    BY <1>1, <2>4, <2>5, <2>6 DEF Typed, SavesOK
<1>7. MutexOK'
  BY <1>1, MadeStays, MutexMovesOn DEF Typed
<1>8. FlushOK'
  <2>1. flush' = flush \/ flush' \in FlushGoesOn
    BY <1>3
  <2>2. /\ flush' \in FlushRec /\ Units' \subseteq Units
        /\ flush'.step = "burying" => flush'.todo = {}
    BY <2>1, GoesOn DEF Typed, FlushOK, Units, Idle, FlushRec
  <2> QED
    BY <1>1, <2>2, MadeStays, FlushShrinks DEF Typed
<1> QED
  BY <1>1, <1>5, <1>6, <1>7, <1>8, Frames DEF Typed

LEMMA WriteFailsTyped ==
  ASSUME Typed, WriteFails
  PROVE  Typed'
<1>1. /\ UNCHANGED <<local, issued, acked, seqCounter, rows, server, applied>>
      /\ mutex # <<>> /\ faults < MaxFaults /\ faults' = faults + 1
      /\ saves' \subseteq saves
  BY DEF WriteFails, remote
<1>2. MutexOK'
  <2>1. Tail(mutex) \in Seq(WriteRec)
        /\ \A k \in DOMAIN Tail(mutex) : k + 1 \in DOMAIN mutex /\ Tail(mutex)[k] = mutex[k + 1]
    BY <1>1, FirstOfMany DEF Typed, MutexOK
  <2>2. PICK w \in WriteRec :
          w = [type |-> "replace", by |-> "flush", change |-> 0, rows |-> FlushRows]
    <3>1. FlushRows \in SUBSET RowRec /\ 0 \in 0..MaxChanges
      BY FlushRowsAre, Numbers DEF Typed
    <3> QED
      BY <3>1 DEF WriteRec
  <2>3. mutex' = Tail(mutex) \/ mutex' = Append(Tail(mutex), w)
    BY <2>2 DEF WriteFails
  <2>4. CASE mutex' = Tail(mutex)
    BY <1>1, <2>4, MadeStays, MutexMovesOn DEF Typed
  <2>5. CASE mutex' = Append(Tail(mutex), w)
    <3>1. /\ mutex' \in Seq(WriteRec)
          /\ \A k \in DOMAIN mutex' :
               (k \in DOMAIN Tail(mutex) /\ mutex'[k] = Tail(mutex)[k]) \/ mutex'[k] = w
      BY <2>1, <2>5, OneMore
    <3>2. w.rows = FlushRows
      BY <2>2
    <3>3. Keyed(FlushRows) /\ \A r \in FlushRows : Made(r)'
      BY <1>1, MadeStays, FlushRowsAre DEF Typed
    <3> QED
      BY <1>1, <2>1, <3>1, <3>2, <3>3, MadeStays, MutexStep DEF Typed
  <2> QED
    BY <2>3, <2>4, <2>5
<1>3. FlushOK'
  <2>1. flush' = flush \/ flush' = Idle \/ flush' \in FlushGoesOn
    BY DEF WriteFails
  <2>2. /\ flush' \in FlushRec /\ Units' \subseteq Units
        /\ flush'.step = "burying" => flush'.todo = {}
    BY <2>1, GoesOn DEF Typed, FlushOK, Units, Idle, FlushRec
  <2> QED
    BY <1>1, <2>2, MadeStays, FlushShrinks DEF Typed
<1>4. StoresOK' /\ SavesOK'
  BY <1>1, Numbers DEF Typed, StoresOK, SavesOK
<1> QED
  BY <1>1, <1>2, <1>3, <1>4, Frames DEF Typed

LEMMA CrashTyped ==
  ASSUME Typed, Crash
  PROVE  Typed'
<1>1. /\ UNCHANGED <<local, issued, acked, seqCounter, rows, server, applied>>
      /\ saves' = {} /\ mutex' = <<>> /\ flush' = Idle
      /\ faults < MaxFaults /\ faults' = faults + 1
  BY DEF Crash, remote
<1>2. MutexOK'
  BY <1>1, EmptySeq, LenProperties DEF MutexOK
<1>3. FlushOK'
  BY <1>1 DEF FlushOK, FlushRec, Idle, Units, UnitRows, Keyed
<1>4. StoresOK' /\ SavesOK'
  BY <1>1, Numbers DEF Typed, StoresOK, SavesOK
<1> QED
  BY <1>1, <1>2, <1>3, <1>4, Frames DEF Typed

LEMMA InitTyped == Init => Typed
<1> SUFFICES ASSUME Init PROVE Typed
  OBVIOUS
<1>1. 0 \in Fields /\ MaxFaults \in Nat
  BY Numbers
<1>2. StoresOK
  BY <1>1 DEF Init, StoresOK
<1>3. issued = <<>> /\ mutex = <<>>
  BY DEF Init
<1>4. IssuedOK
  <2>1. <<>> \in Seq(ChangeRec) /\ Len(<<>>) = 0 /\ DOMAIN <<>> = {}
    BY EmptySeq
  <2> QED
    BY <1>3, <2>1, Numbers DEF IssuedOK
<1>5. MutexOK
  BY <1>3, EmptySeq, LenProperties DEF MutexOK
<1>6. FlushOK
  BY DEF Init, FlushOK, FlushRec, Idle, Units, UnitRows, Keyed
<1>7. SavesOK /\ RowsOK /\ AppliedOK
  BY DEF Init, SavesOK, RowsOK, AppliedOK, Keyed
<1> QED
  BY <1>2, <1>4, <1>5, <1>6, <1>7 DEF Typed

LEMMA NextTyped == Typed /\ [Next]_vars => Typed'
<1> SUFFICES ASSUME Typed, [Next]_vars PROVE Typed'
  OBVIOUS
<1>1. CASE UNCHANGED vars
  BY <1>1, Frames DEF Typed, vars, client, remote
<1>2. ASSUME NEW i \in Ids, NEW kind \in {"add", "update", "remove"}, Save(i, kind) PROVE Typed'
  BY <1>2, SaveTyped DEF Kinds
<1>3. ASSUME NEW s \in saves, Record(s) \/ Dequeue(s) PROVE Typed'
  BY <1>3, RecordTyped, DequeueTyped
<1>4. ASSUME NEW group \in Groups,
             PostSucceeds(group) \/ PostUnheard(group) \/ PostFails(group) PROVE Typed'
  BY <1>4, PostTyped
<1>5. CASE FlushRead \/ FlushSucceeds \/ FlushSettle \/ FlushFails
  BY <1>5, FlushReadTyped, FlushSucceedsTyped, FlushSettleTyped, FlushFailsTyped
<1>6. CASE FlushIsolates \/ FlushBuries
  BY <1>6, FlushIsolatesTyped, FlushBuriesTyped
<1>7. CASE Revive
  BY <1>7, ReviveTyped
<1>8. CASE Write \/ WriteFails \/ Crash
  BY <1>8, WriteTyped, WriteFailsTyped, CrashTyped
<1> QED
  BY <1>1, <1>2, <1>3, <1>4, <1>5, <1>6, <1>7, <1>8 DEF Next

LEMMA TypedSays == Typed => TypeOK
<1> SUFFICES ASSUME Typed PROVE TypeOK
  OBVIOUS
<1>1. \A r \in rows : r.id \in Ids /\ r.change \in DOMAIN issued /\ r.seq <= seqCounter
  BY DEF Typed, RowsOK, RowRec, Made, Genuine
<1>2. \A k \in DOMAIN mutex : mutex[k].type \in {"put", "delete", "replace"}
  <2>1. \A k \in DOMAIN mutex : mutex[k] \in WriteRec
    BY LenProperties, ElementOfSeq DEF Typed, MutexOK
  <2> QED
    BY <2>1 DEF WriteRec
<1>3. flush.step \in Sending \cup {"idle", "settle", "settling", "burying"}
  BY DEF Typed, FlushOK, FlushRec
<1>4. \A s \in saves : /\ s.change \in DOMAIN issued
                       /\ s.step \in {"record", "recording", "posting", "dequeue"}
  BY DEF Typed, SavesOK, SaveRec
<1> QED
  BY <1>1, <1>2, <1>3, <1>4 DEF Typed, TypeOK, StoresOK, IssuedOK, SavesOK, RowsOK, Keyed

\* Every variable of the write path keeps its type, in every mode and with every race: the
\* queue's store (UnsyncedQueue.ts) has one row for each kind and entity, and its
\* mutex, the flush and the server's memory speak of changes that were made.
THEOREM TypeCorrect == Spec => []TypeOK
<1>1. Spec => []Typed
  BY InitTyped, NextTyped, PTL DEF Spec
<1> QED
  BY <1>1, TypedSays, PTL
-----------------------------------------------------------------------------
(* What keeps the newest intent.                                            *)

\* Queue operations take turns, and no snapshot is written back over an edit.
Calm == {"overlap", "writeBack"} \cap Races = {}

InMutex == UNION {mutex[k].rows : k \in DOMAIN mutex}

\* Whatever bears the stamps of a recorded change.
Stamped == rows \cup InMutex \cup UnitRows \cup {s \in saves : s.step # "record"}

\* Changes are stamped in the order they were made.
Ordered ==
  /\ \A p, q \in Stamped : p.change < q.change => p.seq < q.seq
  /\ \A p \in Stamped : p.seq <= seqCounter
  /\ \A s \in saves : s.step = "record" => \A p \in Stamped : p.change < s.change

\* The server has a change, or a later one of its entity says more.
Superseded(n) == \E m \in DOMAIN issued : m > n /\ issued[m].id = issued[n].id
Done(n) == n \in Seen \/ Superseded(n)

\* What waits in the mutex knows the rows as they are.
Puts(w) ==
  \E r \in w.rows : /\ w.rows = {r} /\ r.change = w.change /\ ~r.dead
                    /\ \A q \in rows \cup UnitRows : q.change < r.change
Rewrites(w) == \A x \in w.rows : \E r \in rows : x = [r EXCEPT !.dead = x.dead]
Deletes(w) == w.rows \subseteq rows /\ \A x \in w.rows : Done(x.change)

Behind(w) ==
  /\ w.type = "put" => w.by = "save" /\ Puts(w)
  /\ w.type = "replace" => w.by # "save" /\ w.change = 0 /\ Rewrites(w)
  /\ w.type = "delete" => w.by # "save" /\ w.change = 0 /\ Deletes(w)
  /\ w.by = "flush" => flush.step \in {"settling", "burying"}

MutexKeeps == Len(mutex) <= 1 /\ \A k \in DOMAIN mutex : Behind(mutex[k])

\* A unit's opId is that of its newest row; once it is answered the server has it.
UnitsKeep ==
  /\ \A u \in Units : \A r \in u.rows : r.change <= u.change
  /\ flush.step = "settle" => \A u \in flush.now : u.change \in Seen

SavesKeep == \A s \in saves : s.step = "dequeue" => s.change \in Seen

Keeps == Ordered /\ MutexKeeps /\ UnitsKeep /\ SavesKeep /\ NewestIntentKept

-----------------------------------------------------------------------------
(* The mutex holds one write at most.                                       *)

LEMMA OneWrite ==
  ASSUME MutexOK, Len(mutex) <= 1
  PROVE  /\ mutex = <<>> => InMutex = {} /\ DOMAIN mutex = {}
         /\ mutex # <<>> => /\ DOMAIN mutex = {1} /\ Head(mutex) = mutex[1]
                            /\ InMutex = Head(mutex).rows /\ Tail(mutex) = <<>>
<1>1. mutex \in Seq(WriteRec) /\ Len(mutex) \in Nat /\ DOMAIN mutex = 1..Len(mutex)
  BY LenProperties DEF MutexOK
<1>2. CASE mutex = <<>>
  BY <1>1, <1>2, EmptySeq DEF InMutex
<1>3. CASE mutex # <<>>
  <2>1. Len(mutex) = 1 /\ DOMAIN mutex = {1}
    BY <1>1, <1>3, EmptySeq
  <2>2. Head(mutex) = mutex[1]
    BY <1>1, <1>3, FirstOfMany
  <2>3. Tail(mutex) \in Seq(WriteRec) /\ Len(Tail(mutex)) = 0
    BY <1>1, <1>3, <2>1, HeadTailProperties
  <2>4. Tail(mutex) = <<>>
    BY <2>3, EmptySeq
  <2>5. InMutex = mutex[1].rows
    BY <2>1 DEF InMutex
  <2> QED
    BY <1>3, <2>1, <2>2, <2>4, <2>5
<1> QED
  BY <1>2, <1>3

LEMMA OneInTurn ==
  ASSUME mutex = <<>>, NEW w \in WriteRec, mutex' = Append(mutex, w)
  PROVE  DOMAIN mutex' = {1} /\ mutex'[1] = w /\ Len(mutex') = 1 /\ InMutex' = w.rows
<1>1. <<>> \in Seq(WriteRec) /\ Len(<<>>) = 0
  BY EmptySeq
<1>2. mutex' \in Seq(WriteRec) /\ Len(mutex') = 1 /\ mutex'[1] = w
  BY <1>1, AppendProperties
<1>3. DOMAIN mutex' = {1}
  BY <1>2, LenProperties
<1> QED
  BY <1>2, <1>3 DEF InMutex

LEMMA EmptyMutex == ASSUME mutex' = <<>> PROVE DOMAIN mutex' = {} /\ Len(mutex') = 0 /\ InMutex' = {}
<1>1. Len(<<>>) = 0 /\ <<>> \in Seq(WriteRec)
  BY EmptySeq
<1>2. DOMAIN mutex' = {}
  BY <1>1, LenProperties
<1> QED
  BY <1>1, <1>2 DEF InMutex

LEMMA QuietIs == Calm /\ Quiet => mutex = <<>>
BY DEF Calm, Quiet

-----------------------------------------------------------------------------
(* What is done stays done.                                                 *)

Onward ==
  /\ applied \subseteq applied'
  /\ \A m \in DOMAIN issued : m \in DOMAIN issued' /\ issued'[m] = issued[m]

LEMMA DoneStays ==
  ASSUME Onward
  PROVE  Seen \subseteq Seen' /\ \A n \in DOMAIN issued : Done(n) => Done(n)'
<1>1. Seen \subseteq Seen'
  BY DEF Onward, Seen
<1> QED
  BY <1>1 DEF Onward, Done, Superseded

LEMMA DeliverSees ==
  ASSUME NEW items, Deliver(items)
  PROVE  applied \subseteq applied' /\ \A x \in items : x.change \in Seen'
<1>1. applied' = applied \cup Fresh(items)
  BY DEF Deliver
<1>2. \A x \in items : x \in Fresh(items) \/ x.change \in Seen
  BY DEF Fresh
<1> QED
  BY <1>1, <1>2 DEF Seen

LEMMA StampedIs ==
  ASSUME Typed
  PROVE  \A p \in Stamped : p.change \in Nat /\ p.change \in DOMAIN issued /\ p.seq \in Nat
<1>1. \A r \in rows : r \in RowRec /\ Made(r)
  BY DEF Typed, RowsOK
<1>2. \A r \in UnitRows : r \in RowRec /\ Made(r)
  BY DEF Typed, FlushOK, FlushRec, UnitRec, UnitRows, Units
<1>3. \A k \in DOMAIN mutex : mutex[k] \in WriteRec /\ WriteOK(mutex[k])
  BY LenProperties, ElementOfSeq DEF Typed, MutexOK
<1>4. \A r \in InMutex : r \in RowRec /\ Made(r)
  BY <1>3 DEF InMutex, WriteOK, WriteRec
<1>5. \A s \in saves : s \in SaveRec /\ s.change \in DOMAIN issued
  BY DEF Typed, SavesOK
<1> QED
  BY <1>1, <1>2, <1>4, <1>5, Numbers DEF Stamped, RowRec, SaveRec, Made, Genuine

LEMMA OrderedStays ==
  ASSUME Ordered, UNCHANGED seqCounter,
         \A p \in Stamped' : \E q \in Stamped : q.change = p.change /\ q.seq = p.seq,
         \A s \in saves' : s.step = "record" => s \in saves
  PROVE  Ordered'
BY DEF Ordered

\* A step that moves the saves on and makes no stamp.
LEMMA SavesMove ==
  ASSUME Ordered, UNCHANGED seqCounter,
         rows' \cup InMutex' \cup UnitRows' \subseteq rows \cup InMutex \cup UnitRows,
         \A s \in saves' : \/ s \in saves
                           \/ s.step # "record" /\ \E t \in saves : t.step # "record"
                                                  /\ t.change = s.change /\ t.seq = s.seq
  PROVE  Ordered'
<1>1. \A p \in Stamped' : \E q \in Stamped : q.change = p.change /\ q.seq = p.seq
  BY DEF Stamped
<1>2. \A s \in saves' : s.step = "record" => s \in saves
  OBVIOUS
<1> QED
  BY <1>1, <1>2, OrderedStays

LEMMA NewestStays ==
  ASSUME NewestIntentKept, Onward, UNCHANGED <<acked, rows>>, acked \subseteq DOMAIN issued
  PROVE  NewestIntentKept'
<1>1. Seen \subseteq Seen'
  BY DoneStays
<1> QED
  BY <1>1 DEF NewestIntentKept, Onward

LEMMA BehindStays ==
  ASSUME Onward, UNCHANGED rows, UnitRows' \subseteq rows \cup UnitRows,
         NEW w, WriteOK(w), Behind(w),
         w.by = "flush" => flush'.step \in {"settling", "burying"}
  PROVE  Behind(w)'
<1>1. Puts(w) => Puts(w)'
  BY DEF Puts
<1>2. Rewrites(w) => Rewrites(w)'
  BY DEF Rewrites
<1>3. Deletes(w) => Deletes(w)'
  BY DoneStays DEF Deletes, WriteOK, Made, Genuine
<1> QED
  BY <1>1, <1>2, <1>3 DEF Behind

LEMMA MutexStays ==
  ASSUME MutexOK, MutexKeeps, Onward, UNCHANGED <<rows, mutex>>,
         UnitRows' \subseteq rows \cup UnitRows,
         flush.step \in {"settling", "burying"} => flush'.step \in {"settling", "burying"}
  PROVE  MutexKeeps'
<1>1. ASSUME NEW k \in DOMAIN mutex PROVE Behind(mutex[k])'
  <2>1. WriteOK(mutex[k]) /\ Behind(mutex[k])
    BY DEF MutexOK, MutexKeeps
  <2>2. PICK w : w = mutex[k]
    OBVIOUS
  <2>3. w.by = "flush" => flush'.step \in {"settling", "burying"}
    BY <2>1, <2>2 DEF Behind
  <2>4. Behind(w)'
    BY <2>1, <2>2, <2>3, BehindStays
  <2> QED
    BY <2>2, <2>4
<1> QED
  BY <1>1 DEF MutexKeeps

LEMMA MutexTakes ==
  ASSUME mutex = <<>>, NEW w \in WriteRec, mutex' = Append(mutex, w), Behind(w)'
  PROVE  MutexKeeps'
BY OneInTurn DEF MutexKeeps

LEMMA UnitsStay ==
  ASSUME UnitsKeep, Onward, Units' \subseteq Units,
         flush'.step = "settle" => flush'.now \subseteq flush.now /\ flush.step = "settle"
  PROVE  UnitsKeep'
BY DoneStays DEF UnitsKeep

LEMMA UnitRowsShrink == Units' \subseteq Units => UnitRows' \subseteq UnitRows
BY DEF UnitRows

-----------------------------------------------------------------------------
(* Every step keeps the newest intent.                                      *)

LEMMA SaveKeeps ==
  ASSUME Typed, Keeps, NEW i \in Ids, NEW kind \in Kinds, Save(i, kind)
  PROVE  Keeps'
<1>1. PICK c \in ChangeRec : Saves(c, i, kind)
  BY SaveIs
<1>2. UNCHANGED <<acked, seqCounter, rows, mutex, flush, applied>>
  BY DEF Save, remote
<1>3. Onward
  BY <1>1, <1>2 DEF Onward, Saves
<1>4. saves' = saves \cup {[change |-> c.change, seq |-> 0, step |-> "record"]}
  BY <1>1 DEF Saves
<1>5. Ordered'
  <2>1. Stamped' = Stamped
    BY <1>2, <1>4 DEF Stamped, InMutex, UnitRows, Units
  <2>2. \A p \in Stamped : p.change < c.change
    BY <1>1, StampedIs DEF Saves
  <2> QED
    BY <1>2, <1>4, <2>1, <2>2 DEF Keeps, Ordered
<1>6. MutexKeeps'
  BY <1>2, <1>3, MutexStays DEF Typed, Keeps, UnitRows, Units
<1>7. UnitsKeep'
  BY <1>2, <1>3, UnitsStay DEF Keeps, Units
<1>8. SavesKeep'
  BY <1>2, <1>4 DEF Keeps, SavesKeep, Seen
<1>9. NewestIntentKept'
  BY <1>2, <1>3, NewestStays DEF Typed, SavesOK, Keeps
<1> QED
  BY <1>5, <1>6, <1>7, <1>8, <1>9 DEF Keeps

LEMMA RecordKeeps ==
  ASSUME Calm, Typed, Keeps, NEW s \in saves, Record(s)
  PROVE  Keeps'
<1>1. PICK row \in RowRec, w \in WriteRec, t \in SaveRec :
        /\ row.change = s.change /\ row.seq = seqCounter + 1 /\ ~row.dead
        /\ w = [type |-> "put", by |-> "save", change |-> s.change, rows |-> {row}]
        /\ mutex' = Append(mutex, w)
        /\ seqCounter' = seqCounter + 1
        /\ t.change = s.change /\ t.seq = seqCounter + 1 /\ t.step = "recording"
        /\ saves' = (saves \ {s}) \cup {t}
  BY RecordIs, SMTT(60)
<1>2. UNCHANGED <<issued, acked, rows, flush, applied>>
  BY DEF Record, remote
<1>3. Onward
  BY <1>2 DEF Onward
<1>4. mutex = <<>> /\ InMutex = {}
  BY QuietIs, OneWrite DEF Record, Typed, Keeps, MutexKeeps
<1>5. w.rows = {row} /\ w.type = "put" /\ w.by = "save" /\ w.change = s.change
  BY <1>1
<1>6. InMutex' = {row}
  BY <1>1, <1>4, <1>5, OneInTurn
<1>7. s.step = "record" /\ \A p \in Stamped : p.change < s.change
  BY DEF Record, Keeps, Ordered
<1>8. \A r \in saves : r.step = "record" /\ r # s => s.change < r.change
  <2>1. \A r \in saves : r.change \in Nat
    BY Numbers DEF Typed, SavesOK, SaveRec
  <2>2. \A r \in saves : r.step = "record" => ~(r.change < s.change)
    BY DEF Record, MayRecord, Calm
  <2>3. \A r \in saves : r.step = "record" /\ r # s => r.change # s.change
    BY DEF Typed, SavesOK
  <2> QED
    BY <2>1, <2>2, <2>3
<1>9. Ordered'
  <2>1. UnitRows' = UnitRows
    BY <1>2 DEF UnitRows, Units
  <2>2. \A p \in Stamped' : p \in Stamped \/ (p.change = s.change /\ p.seq = seqCounter + 1)
    BY <1>1, <1>2, <1>4, <1>6, <2>1 DEF Stamped
  <2>3. \A p \in Stamped : p.change \in Nat /\ p.seq \in Nat /\ p.seq <= seqCounter
    BY StampedIs DEF Keeps, Ordered
  <2>4. seqCounter \in Nat /\ s.change \in Nat
    BY Numbers DEF Typed, StoresOK, SavesOK, SaveRec
  <2>5. \A p, q \in Stamped' : p.change < q.change => p.seq < q.seq
    BY <1>7, <2>2, <2>3, <2>4 DEF Keeps, Ordered
  <2>6. \A p \in Stamped' : p.seq <= seqCounter'
    BY <1>1, <2>2, <2>3, <2>4
  <2>7. \A r \in saves' : r.step = "record" => \A p \in Stamped' : p.change < r.change
    BY <1>1, <1>8, <2>2 DEF Keeps, Ordered
  <2> QED
    BY <2>5, <2>6, <2>7 DEF Ordered
<1>10. MutexKeeps'
  <2>1. Puts(w)'
    BY <1>1, <1>2, <1>5, <1>7 DEF Puts, Stamped, UnitRows, Units
  <2>2. Behind(w)'
    BY <1>5, <2>1 DEF Behind
  <2> QED
    BY <1>1, <1>4, <2>2, MutexTakes
<1>11. UnitsKeep'
  BY <1>2, <1>3, UnitsStay DEF Keeps, Units
<1>12. SavesKeep'
  BY <1>1, <1>2 DEF Keeps, SavesKeep, Seen
<1>13. NewestIntentKept'
  BY <1>2, <1>3, NewestStays DEF Typed, SavesOK, Keeps
<1> QED
  BY <1>9, <1>10, <1>11, <1>12, <1>13 DEF Keeps

LEMMA PostKeeps ==
  ASSUME Typed, Keeps, NEW group \in Groups,
         PostSucceeds(group) \/ PostUnheard(group) \/ PostFails(group)
  PROVE  Keeps'
<1>1. UNCHANGED <<issued, acked, seqCounter, rows, mutex, flush>>
  BY DEF PostSucceeds, PostUnheard, PostFails
<1>2. group \subseteq saves /\ \A s \in group : s.step = "posting"
  BY DEF Groups, Posting
<1>3. applied \subseteq applied'
  BY DeliverSees DEF PostSucceeds, PostUnheard, PostFails, remote
<1>4. Onward
  BY <1>1, <1>3 DEF Onward
<1>5. \A s \in saves' : s \in saves
        \/ \E t \in group : s = [t EXCEPT !.step = "dequeue"] /\ t.change \in Seen'
  <2>1. CASE PostSucceeds(group)
    <3>1. \A x \in PostItems(group) : x.change \in Seen'
      BY <2>1, DeliverSees DEF PostSucceeds
    <3>2. ASSUME NEW t \in group PROVE t.change \in Seen'
      <4>1. issued[t.change].change = t.change
        BY <1>2 DEF Typed, SavesOK, IssuedOK
      <4>2. DirectItem(issued[t.change]) \in PostItems(group)
        BY DEF PostItems
      <4>3. DirectItem(issued[t.change]).change = t.change
        BY <4>1 DEF DirectItem
      <4> QED
        BY <3>1, <4>2, <4>3
    <3> QED
      BY <2>1, <3>2 DEF PostSucceeds
  <2>2. CASE PostUnheard(group) \/ PostFails(group)
    BY <2>2 DEF PostUnheard, PostFails
  <2> QED
    BY <2>1, <2>2
<1>6. \A t \in SaveRec : /\ [t EXCEPT !.step = "dequeue"].change = t.change
                         /\ [t EXCEPT !.step = "dequeue"].seq = t.seq
                         /\ [t EXCEPT !.step = "dequeue"].step = "dequeue"
  BY DEF SaveRec
<1>7. saves \subseteq SaveRec
  BY DEF Typed, SavesOK
<1> DEFINE Moved(s, t) == /\ s.change = t.change /\ s.seq = t.seq /\ s.step = "dequeue"
                          /\ t.step = "posting" /\ t.change \in Seen'
<1>moves. \A s \in saves' : s \in saves \/ \E t \in saves : Moved(s, t)
  BY <1>2, <1>5, <1>6, <1>7
<1>8. Ordered'
  <2>1. UnitRows' = UnitRows /\ InMutex' = InMutex
    BY <1>1 DEF UnitRows, Units, InMutex
  <2>2. \A s \in saves' : \/ s \in saves
                          \/ s.step # "record" /\ \E t \in saves : t.step # "record"
                                                 /\ t.change = s.change /\ t.seq = s.seq
    BY <1>moves
  <2> QED
    BY <1>1, <2>1, <2>2, SavesMove DEF Keeps
<1>9. MutexKeeps'
  BY <1>1, <1>4, MutexStays DEF Typed, Keeps, UnitRows, Units
<1>10. UnitsKeep'
  BY <1>1, <1>4, UnitsStay DEF Keeps, Units
<1>11. SavesKeep'
  <2>1. Seen \subseteq Seen'
    BY <1>4, DoneStays
  <2> QED
    BY <1>moves, <2>1 DEF Keeps, SavesKeep
<1>12. NewestIntentKept'
  BY <1>1, <1>4, NewestStays DEF Typed, SavesOK, Keeps
<1> QED
  BY <1>8, <1>9, <1>10, <1>11, <1>12 DEF Keeps

LEMMA DequeueKeeps ==
  ASSUME Calm, Typed, Keeps, NEW s \in saves, Dequeue(s)
  PROVE  Keeps'
<1>1. UNCHANGED <<issued, acked, seqCounter, rows, flush, applied>> /\ saves' = saves \ {s}
  BY DEF Dequeue, remote
<1>2. Onward
  BY <1>1 DEF Onward
<1>3. PICK c \in ChangeRec : c = issued[s.change] /\ c.change = s.change /\ s.change \in DOMAIN issued
  BY IssuedNumbers DEF Typed, SavesOK, IssuedOK
<1>4. PICK done : done = [id |-> c.id, kind |-> c.kind, change |-> c.change, seq |-> s.seq]
  OBVIOUS
<1>5. PICK read \in Reads :
        mutex' = Append(mutex, [type |-> "delete", by |-> "other", change |-> 0,
                                rows |-> Retired(read, done)])
  BY <1>3, <1>4 DEF Dequeue
<1>6. PICK gone : gone = Retired(read, done)
  OBVIOUS
<1>7. gone \subseteq rows /\ \A r \in gone : r.id = c.id /\ (r.change = c.change \/ r.seq <= s.seq)
  BY <1>4, <1>6, ReadsTyped DEF Retired
<1>8. PICK w \in WriteRec : w = [type |-> "delete", by |-> "other", change |-> 0, rows |-> gone]
  <2>1. gone \in SUBSET RowRec /\ 0 \in 0..MaxChanges
    BY <1>7, Numbers DEF Typed, RowsOK
  <2> QED
    BY <2>1 DEF WriteRec
<1>9. w.type = "delete" /\ w.by = "other" /\ w.change = 0 /\ w.rows = gone
  BY <1>8
<1>10. mutex = <<>> /\ InMutex = {} /\ mutex' = Append(mutex, w)
  BY <1>5, <1>6, <1>8, QuietIs, OneWrite DEF Dequeue, Typed, Keeps, MutexKeeps
<1>11. InMutex' = gone
  BY <1>9, <1>10, OneInTurn
<1>12. ASSUME NEW r \in gone PROVE Done(r.change)
  <2>1. s \in Stamped /\ r \in Stamped
    BY <1>7 DEF Stamped, Dequeue
  <2>2. r.change <= c.change
    <3>1. s.change < r.change => s.seq < r.seq
      BY <2>1 DEF Keeps, Ordered
    <3> QED
      BY <1>3, <1>7, <2>1, <3>1, StampedIs
  <2>3. c.change \in Seen
    BY <1>3 DEF Keeps, SavesKeep, Dequeue
  <2>4. issued[r.change].id = c.id
    BY <1>7 DEF Typed, RowsOK, Made, Genuine
  <2> QED
    BY <1>3, <2>1, <2>2, <2>3, <2>4, StampedIs DEF Done, Superseded
<1>13. MutexKeeps'
  <2>1. Deletes(w)
    BY <1>7, <1>9, <1>12 DEF Deletes
  <2>2. Deletes(w)'
    BY <1>1, <2>1 DEF Deletes, Done, Superseded, Seen
  <2>3. Behind(w)'
    BY <1>9, <2>2 DEF Behind
  <2> QED
    BY <1>10, <2>3, MutexTakes
<1>14. Ordered'
  <2>1. UnitRows' = UnitRows
    BY <1>1 DEF UnitRows, Units
  <2> QED
    BY <1>1, <1>7, <1>11, <2>1, SavesMove DEF Keeps
<1>15. UnitsKeep'
  BY <1>1, <1>2, UnitsStay DEF Keeps, Units
<1>16. SavesKeep'
  BY <1>1 DEF Keeps, SavesKeep, Seen
<1>17. NewestIntentKept'
  BY <1>1, <1>2, NewestStays DEF Typed, SavesOK, Keeps
<1> QED
  BY <1>13, <1>14, <1>15, <1>16, <1>17 DEF Keeps

LEMMA FlushReadKeeps ==
  ASSUME Typed, Keeps, FlushRead
  PROVE  Keeps'
<1>1. UNCHANGED <<issued, acked, seqCounter, saves, rows, mutex, applied>>
      /\ flush' = [step |-> "batch", now |-> FlushUnits(rows), todo |-> {}]
      /\ flush.step = "idle"
  BY DEF FlushRead, remote
<1>2. Onward
  BY <1>1 DEF Onward
<1>3. Units' = FlushUnits(rows) /\ flush'.step = "batch"
  BY <1>1 DEF Units
<1>4. \A u \in FlushUnits(rows) : u.rows \subseteq rows /\ Coalesced(u, u.rows)
  BY UnitsRead DEF Typed, Pending
<1>5. UnitRows' \subseteq rows
  BY <1>3, <1>4 DEF UnitRows
<1>6. Ordered'
  <2>1. InMutex' = InMutex
    BY <1>1 DEF InMutex
  <2> QED
    BY <1>1, <1>5, <2>1, SavesMove DEF Keeps
<1>7. MutexKeeps'
  <2>1. flush.step \notin {"settling", "burying"}
    BY <1>1
  <2> QED
    BY <1>1, <1>2, <1>5, <2>1, MutexStays DEF Typed, Keeps
<1>8. UnitsKeep'
  <2>1. ASSUME NEW u \in FlushUnits(rows), NEW r \in u.rows PROVE r.change <= u.change
    <3>1. PICK n \in u.rows : (\A q \in u.rows : q.seq <= n.seq) /\ u.change = n.change
      BY <1>4 DEF Coalesced
    <3>2. r \in Stamped /\ n \in Stamped
      BY <1>4 DEF Stamped
    <3>3. r.seq <= n.seq /\ (n.change < r.change => n.seq < r.seq)
      BY <3>1, <3>2 DEF Keeps, Ordered
    <3> QED
      BY <3>1, <3>2, <3>3, StampedIs
  <2> QED
    BY <1>3, <2>1 DEF UnitsKeep
<1>9. SavesKeep' /\ NewestIntentKept'
  BY <1>1, <1>2, NewestStays DEF Keeps, SavesKeep, Seen, Typed, SavesOK
<1> QED
  BY <1>6, <1>7, <1>8, <1>9 DEF Keeps

LEMMA FlushSettleKeeps ==
  ASSUME Calm, Typed, Keeps, FlushSettle
  PROVE  Keeps'
<1>1. UNCHANGED <<issued, acked, seqCounter, saves, rows, applied>>
      /\ flush' = [flush EXCEPT !.step = "settling"] /\ flush.step = "settle"
  BY DEF FlushSettle, remote
<1>2. Onward
  BY <1>1 DEF Onward
<1>3. PICK read \in Reads :
        mutex' = Append(mutex, [type |-> "delete", by |-> "flush", change |-> 0,
                                rows |-> Settled(read, FlushRows)])
  BY DEF FlushSettle
<1>4. PICK gone : gone = Settled(read, FlushRows)
  OBVIOUS
<1>5. gone \subseteq rows /\ \A r \in gone : \E f \in FlushRows : SameRow(r, f) /\ r.change = f.change
  BY <1>4, ReadsTyped DEF Settled
<1>6. PICK w \in WriteRec : w = [type |-> "delete", by |-> "flush", change |-> 0, rows |-> gone]
  <2>1. gone \in SUBSET RowRec /\ 0 \in 0..MaxChanges
    BY <1>5, Numbers DEF Typed, RowsOK
  <2> QED
    BY <2>1 DEF WriteRec
<1>7. w.type = "delete" /\ w.by = "flush" /\ w.change = 0 /\ w.rows = gone
  BY <1>6
<1>8. mutex = <<>> /\ InMutex = {} /\ mutex' = Append(mutex, w)
  BY <1>3, <1>4, <1>6, QuietIs, OneWrite DEF FlushSettle, Typed, Keeps, MutexKeeps
<1>9. InMutex' = gone
  BY <1>7, <1>8, OneInTurn
<1>10. flush'.step = "settling" /\ Units' = Units
  BY <1>1 DEF Typed, FlushOK, FlushRec, Units
<1>11. ASSUME NEW r \in gone PROVE Done(r.change)
  <2>1. PICK f \in FlushRows : SameRow(r, f) /\ r.change = f.change
    BY <1>5
  <2>2. PICK u \in flush.now : f \in u.rows
    BY DEF FlushRows
  <2>3. u \in Units
    BY DEF Units
  <2>4. u.change \in Seen /\ f.change <= u.change
    BY <1>1, <2>2, <2>3 DEF Keeps, UnitsKeep
  <2>5. /\ u.change \in DOMAIN issued /\ issued[u.change].id = u.id
        /\ f.id = u.id
    BY <2>2, <2>3 DEF Typed, FlushOK, UnitOK, Genuine
  <2>6. issued[r.change].id = r.id /\ r.change \in DOMAIN issued /\ r.id = f.id
    BY <1>5, <2>1 DEF Typed, RowsOK, Made, Genuine, SameRow
  <2>7. r.change \in Nat /\ u.change \in Nat
    BY <2>5, <2>6, IssuedNumbers DEF Typed
  <2> QED
    BY <2>1, <2>4, <2>5, <2>6, <2>7 DEF Done, Superseded
<1>12. MutexKeeps'
  <2>1. Deletes(w)'
    BY <1>1, <1>5, <1>7, <1>11 DEF Deletes, Done, Superseded, Seen
  <2>2. Behind(w)'
    BY <1>7, <1>10, <2>1 DEF Behind
  <2> QED
    BY <1>8, <2>2, MutexTakes
<1>13. Ordered'
  <2>1. UnitRows' = UnitRows
    BY <1>10 DEF UnitRows
  <2> QED
    BY <1>1, <1>5, <1>9, <2>1, SavesMove DEF Keeps
<1>14. UnitsKeep'
  BY <1>2, <1>10, UnitsStay DEF Keeps
<1>15. SavesKeep' /\ NewestIntentKept'
  BY <1>1, <1>2, NewestStays DEF Keeps, SavesKeep, Seen, Typed, SavesOK
<1> QED
  BY <1>12, <1>13, <1>14, <1>15 DEF Keeps

LEMMA FlushSucceedsKeeps ==
  ASSUME Typed, Keeps, FlushSucceeds
  PROVE  Keeps'
<1>1. UNCHANGED <<issued, acked, seqCounter, saves, rows, mutex>>
      /\ flush' = [flush EXCEPT !.step = "settle"] /\ flush.step \in Sending
  BY DEF FlushSucceeds
<1>2. applied \subseteq applied' /\ \A x \in FlushItems : x.change \in Seen'
  BY DeliverSees DEF FlushSucceeds
<1>3. Onward /\ Seen \subseteq Seen'
  BY <1>1, <1>2, DoneStays DEF Onward
<1>4. flush'.step = "settle" /\ Units' = Units /\ flush'.now = flush.now
  BY <1>1 DEF Typed, FlushOK, FlushRec, Units
<1>5. UnitRows' = UnitRows /\ InMutex' = InMutex
  BY <1>1, <1>4 DEF UnitRows, InMutex
<1>6. Ordered'
  BY <1>1, <1>5, SavesMove DEF Keeps
<1>7. MutexKeeps'
  <2>1. flush.step \notin {"settling", "burying"}
    BY <1>1 DEF Sending
  <2> QED
    BY <1>1, <1>3, <1>5, <2>1, MutexStays DEF Typed, Keeps
<1>8. UnitsKeep'
  <2>1. \A u \in flush.now : u.change \in Seen'
    <3>1. \A u \in flush.now : FlushItem(u) \in FlushItems /\ FlushItem(u).change = u.change
      BY DEF FlushItems, FlushItem
    <3> QED
      BY <1>2, <3>1
  <2> QED
    BY <1>4, <2>1 DEF Keeps, UnitsKeep
<1>9. SavesKeep' /\ NewestIntentKept'
  BY <1>1, <1>3, NewestStays DEF Keeps, SavesKeep, Typed, SavesOK
<1> QED
  BY <1>6, <1>7, <1>8, <1>9 DEF Keeps

LEMMA FlushFailsKeeps ==
  ASSUME Calm, Typed, Keeps, FlushFails
  PROVE  Keeps'
<1>1. UNCHANGED <<issued, acked, seqCounter, saves, rows>>
      /\ flush' = [flush EXCEPT !.step = "settling"]
      /\ mutex' = Append(mutex, [type |-> "replace", by |-> "flush", change |-> 0,
                                 rows |-> FlushRows])
      /\ Quiet /\ Untouched
  BY DEF FlushFails, WriteBack
<1>2. applied \subseteq applied'
  BY DeliverSees DEF FlushFails, remote
<1>3. Onward /\ Seen \subseteq Seen'
  BY <1>1, <1>2, DoneStays DEF Onward
<1>4. FlushRows \subseteq rows
  BY <1>1 DEF Untouched, Calm
<1>5. PICK w \in WriteRec : w = [type |-> "replace", by |-> "flush", change |-> 0, rows |-> FlushRows]
  <2>1. FlushRows \in SUBSET RowRec /\ 0 \in 0..MaxChanges
    BY <1>4, Numbers DEF Typed, RowsOK
  <2> QED
    BY <2>1 DEF WriteRec
<1>6. w.type = "replace" /\ w.by = "flush" /\ w.change = 0 /\ w.rows = FlushRows
  BY <1>5
<1>7. mutex = <<>> /\ InMutex = {} /\ mutex' = Append(mutex, w)
  BY <1>1, <1>5, QuietIs, OneWrite DEF Typed, Keeps, MutexKeeps
<1>8. InMutex' = FlushRows
  BY <1>6, <1>7, OneInTurn
<1>9. flush'.step = "settling" /\ Units' = Units
  BY <1>1 DEF Typed, FlushOK, FlushRec, Units
<1>10. MutexKeeps'
  <2>1. \A x \in FlushRows : x = [x EXCEPT !.dead = x.dead]
    BY <1>4 DEF Typed, RowsOK, RowRec
  <2>2. Rewrites(w)'
    BY <1>1, <1>4, <1>6, <2>1 DEF Rewrites
  <2>3. Behind(w)'
    BY <1>6, <1>9, <2>2 DEF Behind
  <2> QED
    BY <1>7, <2>3, MutexTakes
<1>11. Ordered'
  <2>1. UnitRows' = UnitRows
    BY <1>9 DEF UnitRows
  <2> QED
    BY <1>1, <1>4, <1>8, <2>1, SavesMove DEF Keeps
<1>12. UnitsKeep'
  BY <1>3, <1>9, UnitsStay DEF Keeps
<1>13. SavesKeep' /\ NewestIntentKept'
  BY <1>1, <1>3, NewestStays DEF Keeps, SavesKeep, Typed, SavesOK
<1> QED
  BY <1>10, <1>11, <1>12, <1>13 DEF Keeps

LEMMA FlushIsolatesKeeps ==
  ASSUME Typed, Keeps, FlushIsolates
  PROVE  Keeps'
<1>1. UNCHANGED <<issued, acked, seqCounter, saves, rows, mutex, applied>> /\ flush.step = "batch"
  BY DEF FlushIsolates, remote
<1>2. PICK u \in flush.now : flush' = [step |-> "single", now |-> {u}, todo |-> flush.now \ {u}]
  BY DEF FlushIsolates
<1>3. Onward
  BY <1>1 DEF Onward
<1>4. Units' \subseteq Units /\ flush'.step = "single"
  BY <1>2 DEF Units
<1>5. UnitRows' \subseteq UnitRows /\ InMutex' = InMutex
  BY <1>1, <1>4, UnitRowsShrink DEF InMutex
<1>6. Ordered'
  BY <1>1, <1>5, SavesMove DEF Keeps
<1>7. MutexKeeps'
  <2>1. flush.step \notin {"settling", "burying"}
    BY <1>1
  <2> QED
    BY <1>1, <1>3, <1>5, <2>1, MutexStays DEF Typed, Keeps
<1>8. UnitsKeep'
  BY <1>3, <1>4, UnitsStay DEF Keeps
<1>9. SavesKeep' /\ NewestIntentKept'
  BY <1>1, <1>3, NewestStays DEF Keeps, SavesKeep, Seen, Typed, SavesOK
<1> QED
  BY <1>6, <1>7, <1>8, <1>9 DEF Keeps

\* Rows marked dead or alive again are the rows that are there, but for the mark.
LEMMA MarksRewrite ==
  ASSUME Typed, NEW old, old \subseteq rows, NEW mark \in BOOLEAN, NEW news,
         news = {[r EXCEPT !.dead = mark] : r \in old}, NEW w, w.rows = news
  PROVE  Rewrites(w)
<1>1. \A r \in rows : [r EXCEPT !.dead = mark].dead = mark
  BY DEF Typed, RowsOK, RowRec
<1>2. \A x \in news : \E r \in rows : x = [r EXCEPT !.dead = mark] /\ x.dead = mark
  BY <1>1
<1> QED
  BY <1>2 DEF Rewrites

\* What a rewrite brings bears stamps that are there.
LEMMA RewritesStamped ==
  ASSUME Typed, NEW w, Rewrites(w)
  PROVE  \A x \in w.rows : \E r \in rows :
           /\ x = [r EXCEPT !.dead = x.dead] /\ x.id = r.id /\ x.kind = r.kind
           /\ x.change = r.change /\ x.seq = r.seq /\ x.entity = r.entity /\ x.fields = r.fields
<1>1. ASSUME NEW x \in w.rows, NEW r \in rows, x = [r EXCEPT !.dead = x.dead]
      PROVE  /\ x.id = r.id /\ x.kind = r.kind
             /\ x.change = r.change /\ x.seq = r.seq /\ x.entity = r.entity /\ x.fields = r.fields
  <2>1. r \in RowRec
    BY DEF Typed, RowsOK
  <2>2. PICK b : b = x.dead
    OBVIOUS
  <2>3. x = [r EXCEPT !.dead = b]
    BY <1>1, <2>2
  <2> QED
    BY <2>1, <2>3 DEF RowRec
<1> QED
  BY <1>1 DEF Rewrites

LEMMA FlushBuriesKeeps ==
  ASSUME Calm, Typed, Keeps, FlushBuries
  PROVE  Keeps'
<1>1. UNCHANGED <<issued, acked, seqCounter, saves, rows, applied>> /\ Quiet /\ Untouched
      /\ flush.step \in {"batch", "single"}
  BY DEF FlushBuries, WriteBack, remote
<1>2. PICK buried \in SUBSET flush.now :
        /\ mutex' = Append(mutex, [type |-> "replace", by |-> "flush", change |-> 0,
                                   rows |-> Dead(UNION {u.rows : u \in buried})])
        /\ flush' = IF buried = flush.now THEN [flush EXCEPT !.step = "settling"]
                    ELSE [step |-> "burying", now |-> flush.now \ buried, todo |-> {}]
  BY FlushBuriesIs
<1>3. Onward
  BY <1>1 DEF Onward
<1>4. PICK old : old = UNION {u.rows : u \in buried}
  OBVIOUS
<1>5. old \subseteq rows
  BY <1>1, <1>4 DEF FlushRows, Untouched, Calm
<1>6. PICK news : news = {[r EXCEPT !.dead = TRUE] : r \in old}
  OBVIOUS
<1>7. old \subseteq RowRec /\ Keyed(old) /\ \A r \in old : Made(r)
  BY <1>5 DEF Typed, RowsOK, Keyed
<1>8. news \subseteq RowRec
  BY <1>6, <1>7, MarkedRows
<1>9. PICK w \in WriteRec : w = [type |-> "replace", by |-> "flush", change |-> 0, rows |-> news]
  <2>1. news \in SUBSET RowRec /\ 0 \in 0..MaxChanges
    BY <1>8, Numbers
  <2> QED
    BY <2>1 DEF WriteRec
<1>10. w.type = "replace" /\ w.by = "flush" /\ w.change = 0 /\ w.rows = news
  BY <1>9
<1>11. mutex = <<>> /\ InMutex = {} /\ mutex' = Append(mutex, w)
  BY <1>1, <1>2, <1>4, <1>6, <1>9, QuietIs, OneWrite DEF Typed, Keeps, MutexKeeps, Dead
<1>12. InMutex' = news
  BY <1>10, <1>11, OneInTurn
<1>13. flush'.step \in {"settling", "burying"} /\ Units' \subseteq Units
  <2>1. CASE buried = flush.now
    <3>1. flush' = [flush EXCEPT !.step = "settling"]
      BY <1>2, <2>1
    <3> QED
      BY <3>1 DEF Typed, FlushOK, FlushRec, Units
  <2>2. CASE buried # flush.now
    <3>1. flush' = [step |-> "burying", now |-> flush.now \ buried, todo |-> {}]
      BY <1>2, <2>2
    <3> QED
      BY <3>1 DEF Units
  <2> QED
    BY <2>1, <2>2
<1>14. Rewrites(w)
  BY <1>5, <1>6, <1>10, MarksRewrite
<1>15. MutexKeeps'
  <2>1. Rewrites(w)'
    BY <1>1, <1>14 DEF Rewrites
  <2>2. Behind(w)'
    BY <1>10, <1>13, <2>1 DEF Behind
  <2> QED
    BY <1>11, <2>2, MutexTakes
<1>16. Ordered'
  <2>1. UnitRows' \subseteq UnitRows
    BY <1>13, UnitRowsShrink
  <2>2. \A p \in Stamped' : \E q \in Stamped : q.change = p.change /\ q.seq = p.seq
    BY <1>1, <1>10, <1>12, <1>14, <2>1, RewritesStamped DEF Stamped
  <2> QED
    BY <1>1, <2>2, OrderedStays DEF Keeps
<1>17. UnitsKeep'
  BY <1>3, <1>13, UnitsStay DEF Keeps
<1>18. SavesKeep' /\ NewestIntentKept'
  BY <1>1, <1>3, NewestStays DEF Keeps, SavesKeep, Seen, Typed, SavesOK
<1> QED
  BY <1>15, <1>16, <1>17, <1>18 DEF Keeps

LEMMA ReviveKeeps ==
  ASSUME Calm, Typed, Keeps, Revive
  PROVE  Keeps'
<1>1. UNCHANGED <<issued, acked, seqCounter, saves, rows, flush, applied>> /\ Quiet
  BY DEF Revive
<1>2. Onward
  BY <1>1 DEF Onward
<1>3. PICK old : old = rows \ Pending(rows)
  OBVIOUS
<1>4. PICK news : news = {[r EXCEPT !.dead = FALSE] : r \in old}
  OBVIOUS
<1>5. old \subseteq RowRec /\ old \subseteq rows /\ Keyed(old) /\ \A r \in old : Made(r)
  BY <1>3 DEF Typed, RowsOK, Keyed
<1>6. news \subseteq RowRec
  BY <1>4, <1>5, MarkedRows
<1>7. PICK w \in WriteRec : w = [type |-> "replace", by |-> "other", change |-> 0, rows |-> news]
  <2>1. news \in SUBSET RowRec /\ 0 \in 0..MaxChanges
    BY <1>6, Numbers
  <2> QED
    BY <2>1 DEF WriteRec
<1>8. w.type = "replace" /\ w.by = "other" /\ w.change = 0 /\ w.rows = news
  BY <1>7
<1>9. mutex = <<>> /\ InMutex = {} /\ mutex' = Append(mutex, w)
  BY <1>1, <1>3, <1>4, <1>7, QuietIs, OneWrite DEF Revive, Typed, Keeps, MutexKeeps
<1>10. InMutex' = news
  BY <1>8, <1>9, OneInTurn
<1>11. Rewrites(w)
  BY <1>4, <1>5, <1>8, MarksRewrite
<1>12. MutexKeeps'
  <2>1. Rewrites(w)'
    BY <1>1, <1>11 DEF Rewrites
  <2>2. Behind(w)'
    BY <1>8, <2>1 DEF Behind
  <2> QED
    BY <1>9, <2>2, MutexTakes
<1>13. Ordered'
  <2>1. UnitRows' = UnitRows
    BY <1>1 DEF UnitRows, Units
  <2>2. \A p \in Stamped' : \E q \in Stamped : q.change = p.change /\ q.seq = p.seq
    BY <1>1, <1>8, <1>10, <1>11, <2>1, RewritesStamped DEF Stamped
  <2> QED
    BY <1>1, <2>2, OrderedStays DEF Keeps
<1>14. UnitsKeep'
  BY <1>1, <1>2, UnitsStay DEF Keeps, Units
<1>15. SavesKeep' /\ NewestIntentKept'
  BY <1>1, <1>2, NewestStays DEF Keeps, SavesKeep, Seen, Typed, SavesOK
<1> QED
  BY <1>12, <1>13, <1>14, <1>15 DEF Keeps

\* What a write at the head of the mutex leaves of the rows.
LEMMA WriteIs ==
  ASSUME Typed, MutexKeeps, Write
  PROVE  \E w \in WriteRec :
           /\ w = mutex[1] /\ 1 \in DOMAIN mutex /\ mutex # <<>> /\ mutex' = <<>>
           /\ InMutex = w.rows /\ InMutex' = {} /\ WriteOK(w) /\ Behind(w)
           /\ rows' = IF w.type = "delete" THEN DeleteById(rows, w.rows) ELSE Upsert(rows, w.rows)
           /\ acked' = acked \cup {s.change : s \in Owner(w)}
           /\ saves' = (saves \ Owner(w)) \cup
                (IF Direct THEN {[s EXCEPT !.step = "posting"] : s \in Owner(w)} ELSE {})
           /\ flush' \in (IF w.by = "flush" THEN FlushGoesOn ELSE {flush})
<1>1. mutex # <<>> /\ mutex' = Tail(mutex) /\ mutex \in Seq(WriteRec)
  BY DEF Write, Typed, MutexOK
<1>2. PICK w : w = Head(mutex)
  OBVIOUS
<1>3. w \in WriteRec /\ 1 \in DOMAIN mutex /\ w = mutex[1] /\ WriteOK(w)
  BY <1>1, <1>2, HeadIs DEF Typed
<1>4. Behind(w)
  BY <1>3 DEF MutexKeeps
<1>5. InMutex = w.rows /\ Tail(mutex) = <<>>
  BY <1>1, <1>2, OneWrite DEF Typed, MutexKeeps
<1>6. InMutex' = {}
  BY <1>1, <1>5, EmptyMutex
<1>7. /\ rows' = IF w.type = "delete" THEN DeleteById(rows, w.rows) ELSE Upsert(rows, w.rows)
      /\ acked' = acked \cup {s.change : s \in Owner(w)}
      /\ saves' = (saves \ Owner(w)) \cup
           (IF Direct THEN {[s EXCEPT !.step = "posting"] : s \in Owner(w)} ELSE {})
      /\ flush' \in (IF w.by = "flush" THEN FlushGoesOn ELSE {flush})
  BY <1>2 DEF Write
<1> QED
  BY <1>1, <1>3, <1>4, <1>5, <1>6, <1>7

\* A write owns a save only when it is the put of that save.
LEMMA OwnerIs ==
  ASSUME Typed, NEW w \in WriteRec, Behind(w), NEW s \in Owner(w)
  PROVE  /\ s \in saves /\ s.step = "recording" /\ s.change = w.change /\ w.type = "put"
<1>1. s \in saves /\ s.step = "recording" /\ s.change = w.change
  BY DEF Owner
<1>2. s.change # 0
  BY <1>1, Numbers DEF Typed, SavesOK, SaveRec
<1>3. w.type \in {"put", "delete", "replace"}
  BY DEF WriteRec
<1> QED
  BY <1>1, <1>2, <1>3 DEF Behind

LEMMA SavesPosted ==
  ASSUME Typed, NEW w \in WriteRec, Behind(w),
         saves' = (saves \ Owner(w)) \cup
                (IF Direct THEN {[s EXCEPT !.step = "posting"] : s \in Owner(w)} ELSE {})
  PROVE  \A s \in saves' : \/ s \in saves
                           \/ s.step = "posting" /\ \E t \in saves : t.step = "recording"
                                                  /\ t.change = s.change /\ t.seq = s.seq
<1>1. \A t \in Owner(w) : t \in SaveRec /\ t \in saves /\ t.step = "recording"
  BY OwnerIs DEF Typed, SavesOK
<1>2. \A t \in SaveRec : /\ [t EXCEPT !.step = "posting"].change = t.change
                         /\ [t EXCEPT !.step = "posting"].seq = t.seq
                         /\ [t EXCEPT !.step = "posting"].step = "posting"
  BY DEF SaveRec
<1>3. ASSUME NEW s \in saves', s \notin saves
      PROVE  s.step = "posting" /\ \E t \in saves : t.step = "recording"
                                                  /\ t.change = s.change /\ t.seq = s.seq
  <2>1. PICK t \in Owner(w) : s = [t EXCEPT !.step = "posting"]
    BY <1>3
  <2> QED
    BY <1>1, <1>2, <2>1
<1> QED
  BY <1>3

LEMMA WriteKeeps ==
  ASSUME Typed, Keeps, Write
  PROVE  Keeps'
<1>1. PICK w \in WriteRec :
           /\ w = mutex[1] /\ 1 \in DOMAIN mutex /\ mutex # <<>> /\ mutex' = <<>>
           /\ InMutex = w.rows /\ InMutex' = {} /\ WriteOK(w) /\ Behind(w)
           /\ rows' = IF w.type = "delete" THEN DeleteById(rows, w.rows) ELSE Upsert(rows, w.rows)
           /\ acked' = acked \cup {s.change : s \in Owner(w)}
           /\ saves' = (saves \ Owner(w)) \cup
                (IF Direct THEN {[s EXCEPT !.step = "posting"] : s \in Owner(w)} ELSE {})
           /\ flush' \in (IF w.by = "flush" THEN FlushGoesOn ELSE {flush})
  BY WriteIs DEF Keeps
<1>2. UNCHANGED <<issued, seqCounter, applied>>
  BY DEF Write, remote
<1>3. Onward /\ Seen' = Seen
  BY <1>2 DEF Onward, Seen
<1>4. rows' \subseteq rows \cup w.rows
  BY <1>1 DEF DeleteById, Upsert
<1>5. Units' \subseteq Units /\ (flush'.step = "settle" => flush' = flush)
  <2>1. CASE flush' = flush
    BY <2>1 DEF Units
  <2>2. CASE flush' \in FlushGoesOn
    <3>1. flush'.now \cup flush'.todo \subseteq Units
          /\ (flush'.step = "rest" \/ flush'.step = "single" \/ flush' = Idle)
      BY <2>2, GoesOn DEF Typed, FlushOK, FlushRec
    <3> QED
      BY <3>1 DEF Units, Idle
  <2> QED
    BY <1>1, <2>1, <2>2
<1>6. Ordered'
  <2>1. UnitRows' \subseteq UnitRows
    BY <1>5, UnitRowsShrink
  <2>2. \A s \in saves' : \/ s \in saves
                          \/ s.step # "record" /\ \E t \in saves : t.step # "record"
                                                 /\ t.change = s.change /\ t.seq = s.seq
    BY <1>1, SavesPosted
  <2>3. rows' \cup InMutex' \cup UnitRows' \subseteq rows \cup InMutex \cup UnitRows
    BY <1>1, <1>4, <2>1
  <2> QED
    BY <1>2, <2>2, <2>3, SavesMove DEF Keeps
<1>7. MutexKeeps'
  BY <1>1, EmptyMutex DEF MutexKeeps
<1>8. UnitsKeep'
  BY <1>3, <1>5, UnitsStay DEF Keeps
<1>9. SavesKeep'
  BY <1>1, <1>3, SavesPosted DEF Keeps, SavesKeep
<1>10. NewestIntentKept'
  <2>1. ASSUME NEW n \in acked' PROVE n \in DOMAIN issued /\ (n \in Seen \/ Superseded(n) \/ \E r \in rows' : r.change = n)
    <3>1. CASE n \in acked
      <4>1. n \in DOMAIN issued
        BY <3>1 DEF Typed, SavesOK
      <4>2. CASE \E r \in rows : r.change = n
        <5>1. PICK r \in rows : r.change = n
          BY <4>2
        <5>2. CASE w.type = "put"
          <6>1. PICK p \in w.rows : w.rows = {p} /\ \A q \in rows : q.change < p.change
            BY <1>1, <5>2 DEF Behind, Puts
          <6>2. issued[p.change].id = p.id /\ p.change \in DOMAIN issued
            BY <1>1 DEF WriteOK, Made, Genuine
          <6>3. issued[r.change].id = r.id /\ n < p.change
            BY <5>1, <6>1 DEF Typed, RowsOK, Made, Genuine
          <6>4. CASE SameRow(r, p)
            BY <4>1, <5>1, <6>2, <6>3, <6>4, IssuedNumbers DEF SameRow, Superseded, Typed
          <6>5. CASE ~SameRow(r, p)
            BY <1>1, <4>1, <5>1, <5>2, <6>1, <6>5 DEF Upsert, DeleteById
          <6> QED
            BY <6>4, <6>5
        <5>3. CASE w.type = "replace"
          <6>1. CASE \E x \in w.rows : SameRow(r, x)
            <7>1. PICK x \in w.rows : SameRow(r, x)
              BY <6>1
            <7>2. PICK q \in rows : x.id = q.id /\ x.kind = q.kind /\ x.change = q.change
              BY <1>1, <5>3, RewritesStamped DEF Behind
            <7>3. q = r
              BY <7>1, <7>2 DEF SameRow, Typed, RowsOK, Keyed
            <7> QED
              BY <1>1, <4>1, <5>1, <5>3, <7>2, <7>3 DEF Upsert
          <6>2. CASE ~\E x \in w.rows : SameRow(r, x)
            BY <1>1, <4>1, <5>1, <5>3, <6>2 DEF Upsert, DeleteById
          <6> QED
            BY <6>1, <6>2
        <5>4. CASE w.type = "delete"
          <6>1. w.rows \subseteq rows /\ \A x \in w.rows : Done(x.change)
            BY <1>1, <5>4 DEF Behind, Deletes
          <6>2. CASE r \in w.rows
            BY <4>1, <5>1, <6>1, <6>2 DEF Done
          <6>3. CASE r \notin w.rows
            <7>1. \A x \in w.rows : ~SameRow(r, x)
              BY <6>1, <6>3 DEF Typed, RowsOK, Keyed
            <7> QED
              BY <1>1, <4>1, <5>1, <5>4, <7>1 DEF DeleteById
          <6> QED
            BY <6>2, <6>3
        <5> QED
          BY <5>2, <5>3, <5>4 DEF WriteRec
      <4> QED
        BY <3>1, <4>1, <4>2 DEF Keeps, NewestIntentKept, Superseded
    <3>2. CASE n \notin acked
      <4>1. PICK s \in Owner(w) : n = s.change
        BY <1>1, <3>2
      <4>2. s \in saves /\ s.change = w.change /\ w.type = "put"
        BY <1>1, <4>1, OwnerIs
      <4>3. PICK p \in w.rows : p.change = w.change
        BY <1>1, <4>2 DEF Behind, Puts
      <4>4. p \in rows'
        BY <1>1, <4>2 DEF Upsert
      <4> QED
        BY <4>1, <4>2, <4>3, <4>4 DEF Typed, SavesOK
    <3> QED
      BY <3>1, <3>2
  <2> QED
    BY <1>2, <1>3, <2>1 DEF NewestIntentKept, Superseded
<1> QED
  BY <1>6, <1>7, <1>8, <1>9, <1>10 DEF Keeps

\* A write that fails leaves the mutex empty, or with the flush's failed attempt in it.
LEMMA WriteFailsKeeps ==
  ASSUME Calm, Typed, Keeps, WriteFails
  PROVE  Keeps'
<1>1. /\ UNCHANGED <<issued, acked, seqCounter, rows, applied>> /\ mutex # <<>>
      /\ saves' \subseteq saves
  BY DEF WriteFails, remote
<1>2. PICK h : h = Head(mutex)
  OBVIOUS
<1>3. h \in WriteRec /\ 1 \in DOMAIN mutex /\ h = mutex[1]
  BY <1>1, <1>2, HeadIs DEF Typed
<1>4. Behind(h) /\ Tail(mutex) = <<>>
  BY <1>1, <1>3, OneWrite DEF Typed, Keeps, MutexKeeps
<1>5. Onward /\ Seen' = Seen
  BY <1>1 DEF Onward, Seen
<1>6. \/ mutex' = <<>> /\ (flush' = flush \/ flush' = Idle \/ flush' \in FlushGoesOn)
      \/ /\ mutex' = Append(<<>>, [type |-> "replace", by |-> "flush", change |-> 0,
                                   rows |-> FlushRows])
         /\ h.by = "flush" /\ Untouched /\ flush' = flush
  BY <1>2, <1>4 DEF WriteFails
<1>7. Units' \subseteq Units /\ (flush'.step = "settle" => flush' = flush)
  <2>1. CASE flush' = flush
    BY <2>1 DEF Units
  <2>2. CASE flush' \in FlushGoesOn
    <3>1. flush'.now \cup flush'.todo \subseteq Units
          /\ (flush'.step = "rest" \/ flush'.step = "single" \/ flush' = Idle)
      BY <2>2, GoesOn DEF Typed, FlushOK, FlushRec
    <3> QED
      BY <3>1 DEF Units, Idle
  <2>3. CASE flush' = Idle
    BY <2>3 DEF Units, Idle
  <2> QED
    BY <1>6, <2>1, <2>2, <2>3
<1>8. UnitRows' \subseteq UnitRows
  BY <1>7, UnitRowsShrink
<1>9. InMutex' \subseteq rows /\ MutexKeeps'
  <2>1. CASE mutex' = <<>>
    BY <2>1, EmptyMutex DEF MutexKeeps
  <2>2. CASE mutex' # <<>>
    <3>1. /\ mutex' = Append(<<>>, [type |-> "replace", by |-> "flush", change |-> 0,
                                   rows |-> FlushRows])
          /\ h.by = "flush" /\ Untouched /\ flush' = flush
      BY <1>6, <2>2
    <3>2. FlushRows \subseteq rows
      BY <3>1 DEF Untouched, Calm
    <3>3. PICK w \in WriteRec : w = [type |-> "replace", by |-> "flush", change |-> 0, rows |-> FlushRows]
      <4>1. FlushRows \in SUBSET RowRec /\ 0 \in 0..MaxChanges
        BY <3>2, Numbers DEF Typed, RowsOK
      <4> QED
        BY <4>1 DEF WriteRec
    <3>4. w.type = "replace" /\ w.by = "flush" /\ w.change = 0 /\ w.rows = FlushRows
      BY <3>3
    <3>5. <<>> \in Seq(WriteRec) /\ Len(<<>>) = 0
      BY EmptySeq
    <3>6. mutex' = Append(<<>>, w)
      BY <3>1, <3>3
    <3>7. mutex' \in Seq(WriteRec) /\ Len(mutex') = 1 /\ mutex'[1] = w
      BY <3>5, <3>6, AppendProperties
    <3>8. DOMAIN mutex' = {1}
      BY <3>7, LenProperties
    <3>9. InMutex' = FlushRows
      BY <3>4, <3>7, <3>8 DEF InMutex
    <3>10. \A x \in FlushRows : x = [x EXCEPT !.dead = x.dead]
      BY <3>2 DEF Typed, RowsOK, RowRec
    <3>11. Rewrites(w)'
      BY <1>1, <3>2, <3>4, <3>10 DEF Rewrites
    <3>12. flush'.step \in {"settling", "burying"}
      BY <1>4, <3>1 DEF Behind
    <3>13. Behind(w)'
      BY <3>4, <3>11, <3>12 DEF Behind
    <3> QED
      BY <3>2, <3>7, <3>8, <3>9, <3>13 DEF MutexKeeps
  <2> QED
    BY <2>1, <2>2
<1>10. Ordered'
  BY <1>1, <1>8, <1>9, SavesMove DEF Keeps
<1>11. UnitsKeep'
  BY <1>5, <1>7, UnitsStay DEF Keeps
<1>12. SavesKeep' /\ NewestIntentKept'
  BY <1>1, <1>5, NewestStays DEF Keeps, SavesKeep, Typed, SavesOK
<1> QED
  BY <1>9, <1>10, <1>11, <1>12 DEF Keeps

LEMMA CrashKeeps ==
  ASSUME Typed, Keeps, Crash
  PROVE  Keeps'
<1>1. /\ UNCHANGED <<issued, acked, seqCounter, rows, applied>>
      /\ saves' = {} /\ mutex' = <<>> /\ flush' = Idle
  BY DEF Crash, remote
<1>2. Onward /\ Seen' = Seen
  BY <1>1 DEF Onward, Seen
<1>3. Units' = {} /\ UnitRows' = {} /\ flush'.step = "idle"
  BY <1>1 DEF Units, UnitRows, Idle
<1>4. InMutex' = {} /\ MutexKeeps'
  BY <1>1, EmptyMutex DEF MutexKeeps
<1>5. Ordered'
  BY <1>1, <1>3, <1>4, SavesMove DEF Keeps
<1>6. UnitsKeep'
  BY <1>3 DEF UnitsKeep
<1>7. SavesKeep' /\ NewestIntentKept'
  BY <1>1, <1>2, NewestStays DEF Keeps, SavesKeep, Typed, SavesOK
<1> QED
  BY <1>4, <1>5, <1>6, <1>7 DEF Keeps

LEMMA InitKeeps == Init => Keeps
<1> SUFFICES ASSUME Init PROVE Keeps
  OBVIOUS
<1>1. mutex = <<>> /\ saves = {} /\ rows = {} /\ acked = {} /\ flush = Idle
  BY DEF Init
<1>2. InMutex = {} /\ DOMAIN mutex = {} /\ Len(mutex) = 0
  <2>1. <<>> \in Seq(WriteRec) /\ Len(<<>>) = 0 /\ DOMAIN <<>> = {}
    BY EmptySeq
  <2> QED
    BY <1>1, <2>1 DEF InMutex
<1>3. Units = {} /\ UnitRows = {} /\ flush.step = "idle"
  BY <1>1 DEF Units, UnitRows, Idle
<1>4. Stamped = {}
  BY <1>1, <1>2, <1>3 DEF Stamped
<1> QED
  BY <1>1, <1>2, <1>3, <1>4 DEF Keeps, Ordered, MutexKeeps, UnitsKeep, SavesKeep, NewestIntentKept

LEMMA NextKeeps ==
  ASSUME Calm, Typed, Keeps, [Next]_vars
  PROVE  Keeps'
<1>1. CASE UNCHANGED vars
  <2>1. Onward /\ Units' = Units /\ UnitRows' = UnitRows /\ Stamped' = Stamped
        /\ flush' = flush /\ UNCHANGED <<rows, mutex, saves, acked, seqCounter, applied>>
    BY <1>1 DEF vars, client, remote, Onward, Units, UnitRows, Stamped, InMutex
  <2>2. Ordered'
    BY <2>1 DEF Keeps, Ordered
  <2>3. MutexKeeps' /\ UnitsKeep'
    BY <2>1, MutexStays, UnitsStay DEF Typed, Keeps
  <2>4. SavesKeep' /\ NewestIntentKept'
    BY <2>1, NewestStays DEF Keeps, SavesKeep, Seen, Typed, SavesOK
  <2> QED
    BY <2>2, <2>3, <2>4 DEF Keeps
<1>2. ASSUME NEW i \in Ids, NEW kind \in {"add", "update", "remove"}, Save(i, kind) PROVE Keeps'
  BY <1>2, SaveKeeps DEF Kinds
<1>3. ASSUME NEW s \in saves, Record(s) \/ Dequeue(s) PROVE Keeps'
  BY <1>3, RecordKeeps, DequeueKeeps
<1>4. ASSUME NEW group \in Groups,
             PostSucceeds(group) \/ PostUnheard(group) \/ PostFails(group) PROVE Keeps'
  BY <1>4, PostKeeps
<1>5. CASE FlushRead \/ FlushSucceeds \/ FlushSettle \/ FlushFails
  BY <1>5, FlushReadKeeps, FlushSucceedsKeeps, FlushSettleKeeps, FlushFailsKeeps
<1>6. CASE FlushIsolates \/ FlushBuries
  BY <1>6, FlushIsolatesKeeps, FlushBuriesKeeps
<1>7. CASE Revive
  BY <1>7, ReviveKeeps
<1>8. CASE Write \/ WriteFails \/ Crash
  BY <1>8, WriteKeeps, WriteFailsKeeps, CrashKeeps
<1> QED
  BY <1>1, <1>2, <1>3, <1>4, <1>5, <1>6, <1>7, <1>8 DEF Next

\* While queue operations take turns and no snapshot is written back over an edit, an
\* acknowledged change that nothing supersedes has its own row until the server has it:
\* whatever recordFailedAttempt, removeRows, the dead letters (UnsyncedQueue.ts), direct
\* POSTs, failed writes and crashes do (HttpSwrDbPlugin.ts, bulkPersist and flush).
THEOREM NewestIntentStays == ASSUME Calm PROVE Spec => []NewestIntentKept
<1>1. Init => Typed /\ Keeps
  BY InitTyped, InitKeeps
<1>2. Typed /\ Keeps /\ [Next]_vars => (Typed /\ Keeps)'
  BY NextTyped, NextKeeps
<1>3. Typed /\ Keeps => NewestIntentKept
  BY DEF Keeps
<1>4. Spec => [](Typed /\ Keeps)
  BY <1>1, <1>2, PTL DEF Spec
<1> QED
  BY <1>3, <1>4, PTL

-----------------------------------------------------------------------------
(* What keeps every edit while the queue alone talks to the server.         *)

\* Nothing is reused, retried or read in vain, and an update that replaces the row is
\* never trimmed.
PacedQueue ==
  /\ {"overlap", "writeBack", "unread", "reuse", "retry"} \cap Races = {}
  /\ ~Direct
  /\ UpdateReplaces => TRUE \notin Trims

Removed(i) == \E n \in ChangesOf(i) : issued[n].kind = "remove"
SeenOf(i) == Seen \cap ChangesOf(i)

\* An entity's add comes first, its remove last, and each change has what the entity
\* held when it was made.
Grows(m, n) ==
  /\ m <= n => issued[m].entity \subseteq issued[n].entity
  /\ issued[m].kind = "add" => m <= n
  /\ issued[n].kind = "remove" => m <= n
Tells(n) ==
  /\ issued[n].kind # "remove" => n \in issued[n].entity
  /\ issued[n].kind # "update" \/ UpdateReplaces => issued[n].fields = {}
  /\ issued[n].fields \subseteq {n} /\ issued[n].entity \subseteq 0..n
Past(i) ==
  /\ \A m, n \in ChangesOf(i) : Grows(m, n)
  /\ \A n \in ChangesOf(i) : /\ Tells(n)
                             /\ \A x \in local[i] : x <= n => x \in issued[n].entity
                             /\ Removed(i) \/ issued[n].entity \subseteq local[i]
  /\ local[i] \subseteq {0} \cup ChangesOf(i)
  /\ Removed(i) => local[i] = {}

\* A row carries its own change, and nothing its change did not know.
Says(r) ==
  /\ CarriedBy(r) \subseteq r.entity
  /\ r.kind # "remove" => r.change \in CarriedBy(r)
  /\ r.kind # "update" \/ UpdateReplaces => r.fields = {}

AllRows == rows \cup InMutex \cup UnitRows
RowsSay ==
  /\ \A r \in AllRows : Says(r)
  /\ \A r, q \in AllRows : r.change = q.change => r.fields = q.fields

\* Nothing pending of an entity lies behind what the server has seen.
NeverBehind ==
  \A r \in Pending(rows) : \A m \in SeenOf(r.id) :
    \E q \in Pending(rows) : q.id = r.id /\ m <= q.change

Arrived(x) == CarriedBy(x) \cap local[x.id] \subseteq server[x.id]

\* What a unit says of its rows.
UnitSays(u) ==
  /\ \E r \in u.rows : /\ r.change = u.change
                       /\ u.whole = (u.kind # "update" \/ r.fields = {})
                       /\ u.carries = IF u.whole THEN r.entity ELSE r.fields
                       /\ u.kind = "remove" <=> r.kind = "remove"
                       /\ u.kind = "update" => r.kind = "update"
  /\ u.kind = "update" => \A r \in u.rows : r.kind # "add"
  /\ u.kind # "remove" => \A r \in u.rows : CarriedBy(r) \subseteq u.carries

\* The units whose rows are not being settled or buried.
Open == flush.todo \cup (IF flush.step = "settling" THEN {} ELSE flush.now)

UnitPaced(u) ==
  /\ UnitSays(u)
  /\ \A m \in SeenOf(u.id) : m <= u.change
  /\ \A r \in Pending(rows) : r.id = u.id => r \in u.rows \/ u.change < r.change
  /\ u \in Open => \E q \in Pending(rows) : q.id = u.id /\ u.change <= q.change
  /\ flush.step = "settle" /\ u \in flush.now => \A r \in u.rows : Arrived(r)

FlushPaced == flush.now \cap flush.todo = {} /\ \A u \in Units : UnitPaced(u)

\* What is dropped or buried leaves nothing pending behind the server, and nothing of
\* the units still to be sent.
Clears(w) ==
  /\ \A x \in w.rows : \A r \in Pending(rows) :
       r.id = x.id /\ (\A y \in w.rows : ~SameRow(r, y)) => \A m \in SeenOf(r.id) : m <= r.change
  /\ \A x \in w.rows : \A u \in Open : u.id # x.id

PutPaced(w) ==
  \A x \in w.rows : /\ \A m \in Seen : m < x.change
                    /\ \A r \in rows : SameRow(r, x) => CarriedBy(r) \subseteq CarriedBy(x)

WritePaced(w) ==
  /\ w.type = "put" => PutPaced(w)
  /\ w.type # "put" => Clears(w) /\ w.by = "flush"
  /\ w.type = "replace" => (\A x \in w.rows : x.dead) \/ w.rows \subseteq rows
  /\ w.type = "delete" => flush.step = "settling" /\ \A x \in w.rows : Arrived(x)

MutexPaced == \A k \in DOMAIN mutex : WritePaced(mutex[k])

\* What the server holds of an entity.
ServerHas(i) ==
  /\ \A x \in server[i] : x = 0 \/ \E m \in SeenOf(i) : x <= m
  /\ Removed(i) \/ server[i] \subseteq local[i]
  /\ ~Removed(i) /\ 0 \in local[i] => 0 \in server[i]
  /\ (\E n \in SeenOf(i) : issued[n].kind = "remove") => server[i] = {}

\* What the server applied under an opId is all that will go out under it.
Trimmed(a) ==
  /\ issued[a.change].kind = "update" /\ a.carries # {}
  /\ \A r \in AllRows : r.change = a.change => r.fields = a.carries
  /\ \A r \in rows : r.id = a.id /\ r.kind = "add" => r.dead
  /\ \A u \in Units : u.id = a.id => u.kind # "add"
Recalled(a) ==
  /\ a.carries \subseteq issued[a.change].entity
  /\ a.carries \cap local[a.id] \subseteq server[a.id]
  /\ a.whole => a.carries = issued[a.change].entity
  /\ ~a.whole => Trimmed(a)

SavesPaced ==
  /\ \A s \in saves : s.step \in {"record", "recording"}
  /\ \A s \in saves : s.step = "record" => \A m \in Seen : m < s.change

Paced ==
  /\ SavesPaced /\ RowsSay /\ NeverBehind /\ FlushPaced /\ MutexPaced
  /\ \A i \in Ids : Past(i) /\ ServerHas(i)
  /\ \A a \in applied : Recalled(a)
  /\ EditsKept /\ OpIdDescribesBytes

-----------------------------------------------------------------------------
(* What the parts are made of, and steps that leave them alone.             *)

LEMMA PacedMode ==
  PacedQueue => /\ Calm /\ "unread" \notin Races /\ "reuse" \notin Races
                /\ "retry" \notin Races /\ ~Direct
BY DEF PacedQueue, Calm

LEMMA ChangeIs ==
  ASSUME Typed, NEW i, NEW n \in ChangesOf(i)
  PROVE  /\ n \in Nat /\ n > 0 /\ n \in DOMAIN issued /\ issued[n] \in ChangeRec
         /\ issued[n].id = i /\ i \in Ids /\ issued[n].kind \in Kinds
<1>1. n \in DOMAIN issued /\ issued[n].id = i
  BY DEF ChangesOf
<1>2. n \in Changes /\ issued[n] \in ChangeRec
  BY <1>1, IssuedNumbers DEF Typed
<1> QED
  BY <1>1, <1>2, Numbers DEF ChangeRec

LEMMA SeenIs ==
  ASSUME Typed
  PROVE  /\ Seen \subseteq DOMAIN issued /\ Seen \subseteq Nat
         /\ \A a \in applied : a.change \in SeenOf(a.id) /\ a.id \in Ids
<1>1. \A a \in applied : Genuine(a) /\ a \in ItemRec
  BY DEF Typed, AppliedOK
<1> QED
  BY <1>1, IssuedNumbers DEF Seen, SeenOf, ChangesOf, Genuine, Typed, ItemRec

LEMMA RowIs ==
  ASSUME Typed, NEW r \in AllRows
  PROVE  /\ r \in RowRec /\ r.id \in Ids /\ r.change \in ChangesOf(r.id) /\ r.change \in Nat
         /\ r.kind = issued[r.change].kind /\ r.entity = issued[r.change].entity
<1>1. \A x \in rows : x \in RowRec /\ Made(x)
  BY DEF Typed, RowsOK
<1>2. \A x \in UnitRows : x \in RowRec /\ Made(x)
  BY DEF Typed, FlushOK, FlushRec, UnitRec, UnitRows, Units
<1>3. \A k \in DOMAIN mutex : mutex[k] \in WriteRec /\ WriteOK(mutex[k])
  BY LenProperties, ElementOfSeq DEF Typed, MutexOK
<1>4. \A x \in InMutex : x \in RowRec /\ Made(x)
  BY <1>3 DEF InMutex, WriteOK, WriteRec
<1>5. r \in RowRec /\ Made(r)
  BY <1>1, <1>2, <1>4 DEF AllRows
<1> QED
  BY <1>5, IssuedNumbers DEF Made, Genuine, ChangesOf, RowRec, Typed

LEMMA UnitOf ==
  ASSUME Typed, NEW u \in Units
  PROVE  /\ u \in UnitRec /\ u.id \in Ids /\ u.change \in ChangesOf(u.id) /\ u.change \in Nat
         /\ \A r \in u.rows : r.id = u.id /\ r \in UnitRows /\ r \in AllRows
<1>1. u \in UnitRec /\ UnitOK(u)
  BY DEF Typed, FlushOK, FlushRec, Units
<1> QED
  BY <1>1, IssuedNumbers DEF UnitOK, Genuine, ChangesOf, UnitRec, UnitRows, AllRows, Typed

\* Rows that say the same.
Alike(x, r) ==
  /\ x.id = r.id /\ x.kind = r.kind /\ x.change = r.change
  /\ x.entity = r.entity /\ x.fields = r.fields

LEMMA RowsStillSay ==
  ASSUME RowsSay, \A x \in AllRows' : \E r \in AllRows : Alike(x, r)
  PROVE  RowsSay'
BY DEF RowsSay, Says, CarriedBy, Alike

LEMMA StillRecalled ==
  ASSUME UNCHANGED <<local, issued, server>>, Units' \subseteq Units,
         \A x \in AllRows' : \E r \in AllRows : Alike(x, r),
         \A x \in rows' : x.dead \/ x \in rows,
         NEW a, Recalled(a)
  PROVE  Recalled(a)'
<1>1. Trimmed(a) => Trimmed(a)'
  BY DEF Trimmed, Alike
<1> QED
  BY <1>1 DEF Recalled

LEMMA StoresStay ==
  ASSUME Paced, UNCHANGED <<local, issued, acked, rows, server, applied, withheld>>
  PROVE  /\ NeverBehind' /\ (\A i \in Ids : Past(i) /\ ServerHas(i))'
         /\ EditsKept' /\ OpIdDescribesBytes'
<1>1. Seen' = Seen /\ \A i : ChangesOf(i)' = ChangesOf(i) /\ SeenOf(i)' = SeenOf(i)
                              /\ Removed(i)' = Removed(i)
  BY DEF Seen, ChangesOf, SeenOf, Removed
<1>2. NeverBehind'
  BY <1>1 DEF Paced, NeverBehind
<1>3. \A i \in Ids : Past(i)'
  BY <1>1 DEF Paced, Past, Grows, Tells
<1>4. \A i \in Ids : ServerHas(i)'
  BY <1>1 DEF Paced, ServerHas
<1> QED
  BY <1>2, <1>3, <1>4 DEF Paced, EditsKept, OpIdDescribesBytes

LEMMA UnitStays ==
  ASSUME UNCHANGED <<local, issued, rows, server, applied>>, NEW u, UnitPaced(u),
         u \in Open' => u \in Open,
         flush'.step = "settle" /\ u \in flush'.now => flush.step = "settle" /\ u \in flush.now
  PROVE  UnitPaced(u)'
<1>1. SeenOf(u.id)' = SeenOf(u.id) /\ Pending(rows)' = Pending(rows)
  BY DEF Seen, ChangesOf, SeenOf
<1> QED
  BY <1>1 DEF UnitPaced, Arrived

LEMMA FlushStays ==
  ASSUME FlushPaced, UNCHANGED <<local, issued, rows, server, applied>>,
         Units' \subseteq Units, Open' \subseteq Open, flush'.now \cap flush'.todo = {},
         flush'.step = "settle" => flush = flush'
  PROVE  FlushPaced'
<1>1. ASSUME NEW u \in Units' PROVE UnitPaced(u)'
  BY UnitStays DEF FlushPaced
<1> QED
  BY <1>1 DEF FlushPaced

LEMMA SavesStay ==
  ASSUME SavesPaced, UNCHANGED applied, \A s \in saves' : s \in saves \/ s.step = "recording"
  PROVE  SavesPaced'
BY DEF SavesPaced, Seen

-----------------------------------------------------------------------------
(* Every step of a paced queue keeps every edit.                            *)

\* What a save makes of its own entity's past.
LEMMA SaveMakesPast ==
  ASSUME PacedQueue, Typed, NEW i \in Ids, Past(i), NEW kind \in Kinds, Save(i, kind),
         NEW c \in ChangeRec, Saves(c, i, kind)
  PROVE  /\ Past(i)' /\ ChangesOf(i)' = ChangesOf(i) \cup {c.change}
         /\ ~Removed(i) /\ (Removed(i)' <=> kind = "remove")
         /\ kind = "add" => ChangesOf(i) = {}
         /\ local[i]' = IF kind = "remove" THEN {} ELSE local[i] \cup {c.change}
<1>1. PICK n : n = c.change
  OBVIOUS
<1>2. /\ n = Len(issued) + 1 /\ n \in Nat /\ n > 0 /\ issued'[n] = c
      /\ \A m \in ChangesOf(i) : m < n /\ m \in Nat /\ m > 0 /\ issued'[m] = issued[m]
      /\ c.id = i /\ c.kind = kind
  BY <1>1, ChangeIs, IssuedNumbers DEF Saves, Typed, ChangesOf
<1>3. ChangesOf(i)' = ChangesOf(i) \cup {n}
  BY <1>1, <1>2 DEF ChangesOf, Saves
<1>4. kind = "add" => ChangesOf(i) = {} /\ local[i] = {}
  BY PacedMode DEF Save
<1>5. ~Removed(i)
  <2>1. SUFFICES ASSUME Removed(i) PROVE FALSE
    OBVIOUS
  <2>2. local[i] = {} /\ ChangesOf(i) # {}
    BY <2>1 DEF Past, Removed
  <2>3. kind = "add"
    BY <2>2 DEF Save
  <2> QED
    BY <1>4, <2>2, <2>3
<1>6. Removed(i)' <=> kind = "remove"
  BY <1>2, <1>3, <1>5 DEF Removed
<1>7. local[i]' = IF kind = "remove" THEN {} ELSE local[i] \cup {n}
  <2>1. local[i]' = IF kind = "remove" THEN {} ELSE c.entity
    BY DEF Saves, Typed, StoresOK
  <2>2. kind = "add" => c.entity = {n}
    BY <1>1 DEF Saves
  <2>3. kind = "update" => c.entity = local[i] \cup {n}
    BY <1>1 DEF Saves
  <2> QED
    BY <1>4, <2>1, <2>2, <2>3 DEF Kinds
<1>8. c.entity = IF kind = "remove" THEN local[i] ELSE local[i] \cup {n}
  <2>1. kind = "add" => c.entity = {n}
    BY <1>1 DEF Saves
  <2>2. kind = "update" => c.entity = local[i] \cup {n}
    BY <1>1 DEF Saves
  <2>3. kind = "remove" => c.entity = local[i]
    BY DEF Saves
  <2> QED
    BY <1>4, <2>1, <2>2, <2>3 DEF Kinds
<1>9. local[i] \subseteq {0} \cup ChangesOf(i) /\ \A m \in ChangesOf(i) : issued[m].entity \subseteq local[i]
  BY <1>5 DEF Past
<1>10. \A m \in ChangesOf(i) : issued[m].kind # "remove"
  BY <1>5 DEF Removed
<1>11. ASSUME NEW a \in ChangesOf(i)', NEW b \in ChangesOf(i)' PROVE Grows(a, b)'
  <2>1. CASE a \in ChangesOf(i) /\ b \in ChangesOf(i)
    <3>1. Grows(a, b)
      BY <2>1 DEF Past
    <3> QED
      BY <1>2, <2>1, <3>1 DEF Grows
  <2>2. CASE a \in ChangesOf(i) /\ b = n
    <3>1. issued'[a].entity \subseteq issued'[b].entity
      BY <1>2, <1>8, <1>9, <2>2
    <3> QED
      BY <1>2, <2>2, <3>1 DEF Grows
  <2>3. CASE a = n /\ b \in ChangesOf(i)
    <3>1. ~(a <= b) /\ issued'[a].kind # "add" /\ issued'[b].kind # "remove"
      BY <1>2, <1>4, <1>10, <2>3
    <3> QED
      BY <3>1 DEF Grows
  <2>4. CASE a = n /\ b = n
    BY <1>2, <2>4 DEF Grows
  <2> QED
    BY <1>3, <2>1, <2>2, <2>3, <2>4
<1>12. Tells(n)'
  <2>1. c.entity \subseteq 0..n
    BY <1>2, <1>8, <1>9
  <2>2. c.fields = {} \/ (kind = "update" /\ TRUE \in Trims /\ c.fields = {n})
    BY <1>1 DEF Saves
  <2>3. kind # "remove" => n \in c.entity
    BY <1>8
  <2> QED
    BY <1>2, <2>1, <2>2, <2>3 DEF Tells, PacedQueue
<1>13. ASSUME NEW m \in ChangesOf(i)
       PROVE  /\ Tells(m)' /\ (\A x \in local'[i] : x <= m => x \in issued'[m].entity)
              /\ (Removed(i)' \/ issued'[m].entity \subseteq local'[i])
  <2>1. Tells(m) /\ \A x \in local[i] : x <= m => x \in issued[m].entity
    BY DEF Past
  <2> QED
    BY <1>2, <1>6, <1>7, <1>9, <2>1 DEF Tells
<1>14. /\ \A x \in local'[i] : x <= n => x \in issued'[n].entity
       /\ Removed(i)' \/ issued'[n].entity \subseteq local'[i]
  BY <1>2, <1>6, <1>7, <1>8
<1>15. local'[i] \subseteq {0} \cup ChangesOf(i)' /\ (Removed(i)' => local'[i] = {})
  BY <1>3, <1>6, <1>7, <1>9
<1>16. Past(i)'
  BY <1>3, <1>11, <1>12, <1>13, <1>14, <1>15 DEF Past
<1> QED
  BY <1>1, <1>3, <1>4, <1>5, <1>6, <1>7, <1>16

LEMMA SavePaces ==
  ASSUME PacedQueue, Typed, Keeps, Paced, NEW i \in Ids, NEW kind \in Kinds, Save(i, kind)
  PROVE  Paced'
<1>1. PICK c \in ChangeRec : Saves(c, i, kind)
  BY SaveIs
<1>2. UNCHANGED <<acked, rows, mutex, flush, server, applied, withheld>>
  BY DEF Save, remote
<1>3. /\ Past(i)' /\ ChangesOf(i)' = ChangesOf(i) \cup {c.change}
      /\ ~Removed(i) /\ (Removed(i)' <=> kind = "remove")
      /\ kind = "add" => ChangesOf(i) = {}
      /\ local[i]' = IF kind = "remove" THEN {} ELSE local[i] \cup {c.change}
  BY <1>1, SaveMakesPast DEF Paced
<1>4. PICK n : n = c.change
  OBVIOUS
<1>5. /\ n \in Nat /\ n > 0 /\ n \notin DOMAIN issued
      /\ \A m \in DOMAIN issued : m \in DOMAIN issued' /\ issued'[m] = issued[m] /\ m < n
  BY <1>1, <1>4, IssuedNumbers DEF Saves, Typed
<1>6. Seen' = Seen /\ \A m \in Seen : m < n /\ m # n
  BY <1>2, <1>5, SeenIs DEF Seen
<1>7. \A j \in Ids : j # i => ChangesOf(j)' = ChangesOf(j) /\ local'[j] = local[j]
  <2>1. DOMAIN issued' = DOMAIN issued \cup {n} /\ issued'[n].id = i
    BY <1>1, <1>4 DEF Saves
  <2>2. \A j \in Ids : j # i => local'[j] = local[j]
    BY <1>1 DEF Saves, Typed, StoresOK
  <2> QED
    BY <1>5, <2>1, <2>2 DEF ChangesOf
<1>8. \A j \in Ids : SeenOf(j)' = SeenOf(j) /\ \A m \in ChangesOf(j) : issued'[m] = issued[m]
  BY <1>3, <1>4, <1>5, <1>6, <1>7 DEF SeenOf, ChangesOf
<1>9. \A j \in Ids : j # i => (Removed(j)' <=> Removed(j))
  BY <1>7, <1>8 DEF Removed
<1>10. \A j \in Ids : Past(j)'
  <2>1. ASSUME NEW j \in Ids, j # i PROVE Past(j)'
    <3>1. Past(j)
      BY DEF Paced
    <3>2. \A m, p \in ChangesOf(j) : Grows(m, p) => Grows(m, p)'
      BY <1>8 DEF Grows
    <3>3. \A m \in ChangesOf(j) : Tells(m) => Tells(m)'
      BY <1>8 DEF Tells
    <3> QED
      BY <1>7, <1>8, <1>9, <2>1, <3>1, <3>2, <3>3 DEF Past
  <2> QED
    BY <1>3, <2>1
<1>11. \A j \in Ids : ServerHas(j)'
  <2>1. ASSUME NEW j \in Ids PROVE ServerHas(j)'
    <3>1. ServerHas(j)
      BY DEF Paced
    <3>2. CASE j # i
      BY <1>2, <1>7, <1>8, <1>9, <3>1, <3>2 DEF ServerHas, SeenOf
    <3>3. CASE j = i
      <4>1. Removed(j)' \/ (server[j] \subseteq local'[j] /\ (0 \in local'[j] => 0 \in local[j]))
        BY <1>3, <1>4, <1>5, <3>1, <3>3 DEF ServerHas
      <4>2. \A m \in SeenOf(j) : issued'[m].kind = issued[m].kind
        BY <1>8 DEF SeenOf
      <4>3. ~Removed(j)
        BY <1>3, <3>3
      <4> QED
        BY <1>2, <1>8, <3>1, <4>1, <4>2, <4>3 DEF ServerHas
    <3> QED
      BY <3>2, <3>3
  <2> QED
    BY <2>1
<1>12. \A x \in AllRows : n \notin CarriedBy(x) /\ x.id \in Ids
  <2>1. ASSUME NEW x \in AllRows PROVE n \notin CarriedBy(x) /\ x.id \in Ids
    <3>1. /\ x.id \in Ids /\ x.change \in ChangesOf(x.id) /\ x.change \in Nat
          /\ x.entity = issued[x.change].entity /\ x.change \in DOMAIN issued
      BY RowIs, ChangeIs
    <3>2. CarriedBy(x) \subseteq x.entity /\ x.entity \subseteq 0..x.change
      BY <3>1 DEF Paced, RowsSay, Says, Past, Tells
    <3> QED
      BY <1>5, <3>1, <3>2
  <2> QED
    BY <2>1
<1>13. \A j \in Ids : local'[j] \subseteq local[j] \cup {n}
  BY <1>3, <1>4, <1>7
<1>14. \A x \in AllRows : Arrived(x) => Arrived(x)'
  BY <1>2, <1>12, <1>13 DEF Arrived
<1>15. AllRows' = AllRows /\ RowsSay'
  <2>1. AllRows' = AllRows
    BY <1>2 DEF AllRows, InMutex, UnitRows, Units
  <2> QED
    BY <2>1 DEF Paced, RowsSay
<1>16. NeverBehind'
  <2>1. \A r \in rows : r.id \in Ids
    BY <1>12 DEF AllRows
  <2> QED
    BY <1>2, <1>8, <2>1 DEF Paced, NeverBehind, Pending
<1>17. FlushPaced'
  <2>1. Units' = Units /\ Open' = Open
    BY <1>2 DEF Units, Open
  <2>2. ASSUME NEW u \in Units PROVE UnitPaced(u)'
    <3>1. UnitPaced(u) /\ SeenOf(u.id)' = SeenOf(u.id)
      BY <1>8, UnitOf DEF Paced, FlushPaced
    <3>2. \A r \in u.rows : r \in AllRows
      BY UnitOf
    <3> QED
      BY <1>2, <1>14, <2>1, <3>1, <3>2 DEF UnitPaced
  <2> QED
    BY <1>2, <2>1, <2>2 DEF Paced, FlushPaced
<1>18. MutexPaced'
  <2>1. ASSUME NEW k \in DOMAIN mutex PROVE WritePaced(mutex[k])'
    <3>1. PICK w : w = mutex[k]
      OBVIOUS
    <3>2. WritePaced(w) /\ \A x \in w.rows : x \in AllRows
      BY <3>1 DEF Paced, MutexPaced, AllRows, InMutex
    <3>3. PutPaced(w) => PutPaced(w)'
      BY <1>2, <1>6 DEF PutPaced
    <3>4. Clears(w) => Clears(w)'
      <4>1. \A r \in Pending(rows) : SeenOf(r.id)' = SeenOf(r.id)
        BY <1>8, <1>12 DEF Pending, AllRows
      <4>2. Open' = Open
        BY <1>2 DEF Open
      <4> QED
        BY <1>2, <4>1, <4>2 DEF Clears
    <3>5. WritePaced(w)'
      BY <1>2, <1>14, <3>2, <3>3, <3>4 DEF WritePaced
    <3> QED
      BY <1>2, <3>1, <3>5
  <2> QED
    BY <1>2, <2>1 DEF MutexPaced
<1>19. \A a \in applied : Recalled(a)'
  <2>1. ASSUME NEW a \in applied PROVE Recalled(a)'
    <3>1. Recalled(a) /\ a.change \in ChangesOf(a.id) /\ a.id \in Ids
      BY SeenIs DEF Paced, SeenOf
    <3>2. issued'[a.change] = issued[a.change]
      BY <1>8, <3>1
    <3>3. n \notin a.carries
      <4>1. Tells(a.change) /\ a.change \in DOMAIN issued /\ a.change \in Nat
        BY <3>1, ChangeIs DEF Paced, Past
      <4> QED
        BY <1>5, <3>1, <4>1 DEF Recalled, Tells
    <3>4. Trimmed(a) => Trimmed(a)'
      BY <1>2, <1>15, <3>2 DEF Trimmed, Units
    <3> QED
      BY <1>2, <1>13, <3>1, <3>2, <3>3, <3>4 DEF Recalled
  <2> QED
    BY <2>1
<1>20. EditsKept'
  <2>1. n \notin acked
    BY <1>5 DEF Typed, SavesOK
  <2> QED
    BY <1>2, <1>13, <2>1 DEF Paced, EditsKept
<1>21. SavesPaced' /\ OpIdDescribesBytes'
  <2>1. saves' = saves \cup {[change |-> n, seq |-> 0, step |-> "record"]}
    BY <1>1, <1>4 DEF Saves
  <2> QED
    BY <1>2, <1>6, <2>1 DEF Paced, SavesPaced, OpIdDescribesBytes
<1> QED
  BY <1>2, <1>10, <1>11, <1>15, <1>16, <1>17, <1>18, <1>19, <1>20, <1>21 DEF Paced

\* What addMany queues says all that the row it replaces said (mergeUpdatePayloads).
LEMMA RecordSays ==
  ASSUME PacedQueue, Typed, Keeps, Paced, NEW c \in ChangeRec, NEW n \in DOMAIN issued,
         c = issued[n], \A p \in rows : p.change < n,
         NEW row \in RowRec, row.id = c.id, row.kind = c.kind, row.change = n,
         row.entity = c.entity, row.fields = PayloadFor(rows, c)
  PROVE  Says(row) /\ \A r \in rows : SameRow(r, row) => CarriedBy(r) \subseteq CarriedBy(row)
<1>1. n \in ChangesOf(c.id) /\ c.id \in Ids /\ n \in Nat
  BY IssuedNumbers DEF ChangesOf, ChangeRec, Typed
<1>2. Past(c.id) /\ Tells(n)
  BY <1>1 DEF Paced, Past
<1>3. ASSUME NEW r \in rows, SameRow(r, row)
      PROVE  CarriedBy(r) \subseteq c.entity
  <2>1. r \in AllRows /\ r.id = c.id
    BY <1>3 DEF AllRows, SameRow
  <2>2. r.change \in ChangesOf(c.id) /\ r.change \in Nat /\ r.entity = issued[r.change].entity
    BY <2>1, RowIs
  <2>3. r.entity \subseteq c.entity
    BY <1>1, <1>2, <2>2 DEF Past, Grows
  <2> QED
    BY <2>1, <2>3 DEF Paced, RowsSay, Says
<1>4. c.kind # "remove" => n \in c.entity
  BY <1>2 DEF Tells
<1>5. c.fields \subseteq {n} /\ (c.kind # "update" \/ UpdateReplaces => c.fields = {})
  BY <1>2 DEF Tells
<1>6. CASE c.kind = "update" /\ \E r \in rows : SameRow(r, c)
  <2>1. PICK r \in rows : SameRow(r, c)
    BY <1>6
  <2>2. row.fields = MergeFields(r.fields, c.fields)
    BY <1>6, <2>1, PayloadIs DEF Typed
  <2>3. \A q \in rows : SameRow(q, row) => q = r
    BY <2>1 DEF SameRow, Typed, RowsOK, Keyed
  <2>4. CarriedBy(r) \subseteq c.entity
    BY <1>3, <2>1 DEF SameRow
  <2>5. CASE row.fields = {}
    BY <1>4, <1>6, <2>3, <2>4, <2>5 DEF Says, CarriedBy
  <2>6. CASE row.fields # {}
    <3>1. row.fields = r.fields \cup c.fields /\ r.fields # {} /\ c.fields # {}
      BY <2>2, <2>6 DEF MergeFields
    <3>2. CarriedBy(r) = r.fields /\ CarriedBy(row) = r.fields \cup {n} /\ ~UpdateReplaces
      BY <1>5, <2>6, <3>1 DEF CarriedBy
    <3> QED
      BY <1>4, <1>6, <2>3, <2>4, <3>2 DEF Says
  <2> QED
    BY <2>5, <2>6
<1>7. CASE ~(c.kind = "update" /\ \E r \in rows : SameRow(r, c))
  <2>1. row.fields = c.fields
    BY <1>7, PayloadIs DEF Typed
  <2>2. CASE c.fields = {}
    BY <1>3, <1>4, <2>1, <2>2 DEF Says, CarriedBy
  <2>3. CASE c.fields # {}
    <3>1. c.kind = "update" /\ ~UpdateReplaces /\ CarriedBy(row) = {n}
      BY <1>5, <2>1, <2>3 DEF CarriedBy
    <3>2. \A r \in rows : ~SameRow(r, row)
      BY <1>7, <3>1 DEF SameRow
    <3> QED
      BY <1>4, <3>1, <3>2 DEF Says
  <2> QED
    BY <2>2, <2>3
<1> QED
  BY <1>6, <1>7

LEMMA RecordPaces ==
  ASSUME PacedQueue, Typed, Keeps, Paced, NEW s \in saves, Record(s)
  PROVE  Paced'
<1>1. PICK read \in Reads, row \in RowRec, w \in WriteRec, t \in SaveRec :
           /\ row.id = issued[s.change].id /\ row.kind = issued[s.change].kind
           /\ row.change = s.change /\ row.entity = issued[s.change].entity
           /\ row.fields = PayloadFor(read, issued[s.change])
           /\ row.seq = seqCounter + 1 /\ ~row.dead
           /\ w = [type |-> "put", by |-> "save", change |-> s.change, rows |-> {row}]
           /\ mutex' = Append(mutex, w)
           /\ seqCounter' = seqCounter + 1
           /\ t.change = s.change /\ t.seq = seqCounter + 1 /\ t.step = "recording"
           /\ saves' = (saves \ {s}) \cup {t}
  BY RecordIs, SMTT(60)
<1>2. UNCHANGED <<local, issued, acked, rows, flush, server, applied, withheld>>
      /\ s.step = "record" /\ Quiet
  BY DEF Record, remote
<1>3. read = rows
  BY ReadsTyped, PacedMode
<1>4. mutex = <<>> /\ InMutex = {}
  BY <1>2, PacedMode, QuietIs, OneWrite DEF Typed, Keeps, MutexKeeps
<1>5. w.rows = {row} /\ w.type = "put"
  BY <1>1
<1>6. DOMAIN mutex' = {1} /\ mutex'[1] = w /\ InMutex' = {row}
  BY <1>1, <1>4, <1>5, OneInTurn
<1>7. /\ \A p \in AllRows : p.change < s.change
      /\ \A m \in Seen : m < s.change
  <2>1. AllRows \subseteq Stamped
    BY DEF AllRows, Stamped
  <2> QED
    BY <1>2, <2>1 DEF Keeps, Ordered, Paced, SavesPaced
<1>8. s.change \in DOMAIN issued /\ issued[s.change] \in ChangeRec /\ s.change \in Nat
  BY IssuedNumbers DEF Typed, SavesOK
<1>9. Says(row) /\ \A r \in rows : SameRow(r, row) => CarriedBy(r) \subseteq CarriedBy(row)
  BY <1>1, <1>3, <1>7, <1>8, RecordSays DEF AllRows
<1>10. AllRows' = AllRows \cup {row} /\ \A p \in AllRows : p.change # row.change
  BY <1>1, <1>2, <1>4, <1>6, <1>7, <1>8 DEF AllRows, UnitRows, Units
<1>11. RowsSay'
  BY <1>9, <1>10 DEF Paced, RowsSay
<1>12. MutexPaced'
  <2>1. Seen' = Seen
    BY <1>2 DEF Seen
  <2>2. PutPaced(w)'
    BY <1>1, <1>2, <1>5, <1>7, <1>9, <2>1 DEF PutPaced
  <2>3. WritePaced(w)'
    BY <1>5, <2>2 DEF WritePaced
  <2> QED
    BY <1>6, <2>3 DEF MutexPaced
<1>13. \A a \in applied : Recalled(a)'
  <2>1. ASSUME NEW a \in applied PROVE Recalled(a)'
    <3>1. a.change < row.change /\ a.change \in Nat
      BY <1>1, <1>7, SeenIs DEF Seen
    <3>2. Trimmed(a) => Trimmed(a)'
      BY <1>1, <1>2, <1>8, <1>10, <3>1 DEF Trimmed, Units
    <3> QED
      BY <1>2, <3>2 DEF Paced, Recalled
  <2> QED
    BY <2>1
<1>14. FlushPaced'
  BY <1>2, FlushStays DEF Paced, Units, Open, FlushPaced
<1>15. SavesPaced'
  BY <1>1, <1>2, SavesStay DEF Paced
<1> QED
  BY <1>2, <1>11, <1>12, <1>13, <1>14, <1>15, StoresStay DEF Paced

\* What the flush reads of an entity says all that its rows say (coalesceGroup).
LEMMA ReadSays ==
  ASSUME PacedQueue, Typed, Keeps, Paced, NEW u \in FlushUnits(rows)
  PROVE  /\ UnitSays(u) /\ u.id \in Ids
         /\ u.rows = {r \in Pending(rows) : r.id = u.id}
         /\ \A r \in u.rows : r.change <= u.change
         /\ \E q \in u.rows : q.change = u.change
         /\ u.kind = "add" => \E r \in u.rows : r.kind = "add"
<1>1. /\ u \in UnitRec /\ u.rows = {r \in Pending(rows) : r.id = u.id}
      /\ Coalesced(u, u.rows)
  BY UnitsRead DEF Typed
<1>2. PICK n \in u.rows :
        /\ \A q \in u.rows : q.seq <= n.seq
        /\ u.change = n.change
        /\ u.kind = IF n.kind # "remove" /\ \E r \in u.rows : r.kind = "add" THEN "add" ELSE n.kind
        /\ u.whole <=> u.kind # "update" \/ n.fields = {}
        /\ u.carries = IF u.whole THEN n.entity ELSE n.fields
  BY <1>1 DEF Coalesced
<1>3. u.id \in Ids
  BY <1>1 DEF UnitRec
<1>4. \A r \in u.rows : r \in rows /\ r \in AllRows /\ r \in Stamped /\ r.id = u.id
  BY <1>1 DEF Pending, AllRows, Stamped
<1>5. \A r \in u.rows : r.change <= u.change
  <2>1. ASSUME NEW r \in u.rows PROVE r.change <= n.change
    <3>1. r.seq <= n.seq /\ (n.change < r.change => n.seq < r.seq)
      BY <1>2, <1>4 DEF Keeps, Ordered
    <3> QED
      BY <1>4, <3>1, StampedIs
  <2> QED
    BY <1>2, <2>1
<1>6. \A r \in u.rows : /\ r.change \in ChangesOf(u.id) /\ r.kind = issued[r.change].kind
                        /\ r.entity = issued[r.change].entity /\ r.kind \in Kinds
                        /\ Says(r) /\ r.change \in Nat
  BY <1>4, RowIs DEF Paced, RowsSay, RowRec
<1>7. u.whole = (u.kind # "update" \/ n.fields = {})
  <2>1. u.whole \in BOOLEAN
    BY <1>1 DEF UnitRec
  <2> QED
    BY <1>2, <2>1, Zenon
<1>8. \A r \in u.rows : r.entity \subseteq n.entity /\ (r.kind = "remove" => r.change = n.change)
  <2>1. ASSUME NEW r \in u.rows
        PROVE  r.entity \subseteq n.entity /\ (r.kind = "remove" => r.change = n.change)
    <3>1. Grows(r.change, n.change) /\ Grows(n.change, r.change)
      BY <1>3, <1>6 DEF Paced, Past
    <3>2. r.change <= n.change
      BY <1>2, <1>5
    <3> QED
      BY <1>6, <3>1, <3>2 DEF Grows
  <2> QED
    BY <2>1
<1>9. u.kind = "remove" <=> n.kind = "remove"
  BY <1>2, <1>6 DEF Kinds
<1>10. u.kind = "update" => n.kind = "update" /\ \A r \in u.rows : r.kind # "add"
  BY <1>2, <1>6 DEF Kinds
<1>11. ASSUME u.kind # "remove", NEW r \in u.rows PROVE CarriedBy(r) \subseteq u.carries
  <2>1. CASE u.whole
    BY <1>2, <1>6, <1>8, <2>1 DEF Says
  <2>2. CASE ~u.whole
    <3>1. u.kind = "update" /\ n.fields # {} /\ u.carries = n.fields
      BY <1>2, <2>2
    <3>2. r.kind # "remove"
      BY <1>6, <1>8, <1>10, <3>1
    <3>3. r.kind = "update" /\ n.kind = "update"
      BY <1>6, <1>10, <3>1, <3>2 DEF Kinds
    <3>4. r = n
      BY <1>4, <3>3 DEF Typed, RowsOK, Keyed, SameRow
    <3> QED
      BY <3>1, <3>4 DEF CarriedBy
  <2> QED
    BY <2>1, <2>2
<1>12. UnitSays(u)
  BY <1>2, <1>7, <1>9, <1>10, <1>11 DEF UnitSays
<1> QED
  BY <1>1, <1>2, <1>3, <1>5, <1>6, <1>12 DEF Kinds

LEMMA FlushReadPaces ==
  ASSUME PacedQueue, Typed, Keeps, Paced, FlushRead
  PROVE  Paced'
<1>1. UNCHANGED <<local, issued, acked, saves, rows, mutex, server, applied, withheld>>
      /\ flush' = [step |-> "batch", now |-> FlushUnits(rows), todo |-> {}]
      /\ flush.step = "idle"
  BY DEF FlushRead, remote
<1>2. Units' = FlushUnits(rows) /\ Open' = FlushUnits(rows)
      /\ flush'.now \cap flush'.todo = {} /\ flush'.step = "batch"
  BY <1>1 DEF Units, Open
<1>3. \A u \in FlushUnits(rows) :
         /\ UnitSays(u) /\ u.id \in Ids
         /\ u.rows = {r \in Pending(rows) : r.id = u.id}
         /\ \A r \in u.rows : r.change <= u.change
         /\ \E q \in u.rows : q.change = u.change
         /\ u.kind = "add" => \E r \in u.rows : r.kind = "add"
  BY ReadSays
<1>4. UnitRows' \subseteq rows /\ AllRows' \subseteq AllRows
  BY <1>1, <1>2, <1>3 DEF UnitRows, AllRows, InMutex, Pending
<1>5. \A r \in rows : r.change \in Nat
  BY RowIs DEF AllRows
<1>6. Seen \subseteq Nat /\ Seen' = Seen /\ \A i : SeenOf(i)' = SeenOf(i) /\ SeenOf(i) \subseteq Seen
  BY <1>1, SeenIs DEF Seen, SeenOf, ChangesOf
<1>7. ASSUME NEW u \in FlushUnits(rows) PROVE UnitPaced(u)'
  <2>1. \A m \in SeenOf(u.id) : m <= u.change
    <3>1. ASSUME NEW m \in SeenOf(u.id) PROVE m <= u.change
      <4>1. PICK n \in u.rows : n.change = u.change
        BY <1>3
      <4>2. n \in Pending(rows) /\ n.id = u.id
        BY <1>3
      <4>3. PICK q \in Pending(rows) : q.id = u.id /\ m <= q.change
        BY <3>1, <4>2 DEF Paced, NeverBehind
      <4>4. q.change <= u.change
        BY <1>3, <4>3
      <4>5. m \in Nat /\ q.change \in Nat /\ u.change \in Nat
        BY <1>5, <1>6, <4>1, <4>2, <4>3 DEF Pending
      <4> QED
        BY <4>3, <4>4, <4>5
    <3> QED
      BY <3>1
  <2>2. \E q \in Pending(rows) : q.id = u.id /\ u.change <= q.change
    <3>1. PICK q \in u.rows : q.change = u.change
      BY <1>3
    <3>2. q \in Pending(rows) /\ q.id = u.id /\ q.change \in Nat
      BY <1>3, <1>5, <3>1 DEF Pending
    <3> QED
      BY <3>1, <3>2
  <2>3. \A r \in Pending(rows) : r.id = u.id => r \in u.rows
    BY <1>3
  <2> QED
    BY <1>1, <1>2, <1>3, <1>6, <2>1, <2>2, <2>3 DEF UnitPaced
<1>8. FlushPaced'
  BY <1>2, <1>7 DEF FlushPaced
<1>9. \A a \in applied : Recalled(a)'
  <2>1. ASSUME NEW a \in applied PROVE Recalled(a)'
    <3>1. Recalled(a)
      BY DEF Paced
    <3>2. Trimmed(a) => Trimmed(a)'
      <4>1. ASSUME Trimmed(a), NEW u \in FlushUnits(rows), u.id = a.id, u.kind = "add" PROVE FALSE
        BY <1>3, <4>1 DEF Trimmed, Pending
      <4> QED
        BY <1>1, <1>2, <1>4, <4>1 DEF Trimmed
    <3> QED
      BY <1>1, <3>1, <3>2 DEF Recalled
  <2> QED
    BY <2>1
<1>10. MutexPaced'
  <2>1. ASSUME NEW k \in DOMAIN mutex PROVE WritePaced(mutex[k])'
    <3>1. PICK w : w = mutex[k]
      OBVIOUS
    <3>2. WritePaced(w) /\ Behind(w) /\ w \in WriteRec
      BY <3>1, LenProperties, ElementOfSeq DEF Paced, MutexPaced, Keeps, MutexKeeps, Typed, MutexOK
    <3>3. w.type = "put"
      BY <1>1, <3>2 DEF WritePaced, Behind
    <3>4. PutPaced(w)'
      BY <1>1, <1>6, <3>2, <3>3 DEF WritePaced, PutPaced
    <3>5. WritePaced(w)'
      BY <3>3, <3>4 DEF WritePaced
    <3> QED
      BY <1>1, <3>1, <3>5
  <2> QED
    BY <1>1, <2>1 DEF MutexPaced
<1>11. RowsSay'
  BY <1>4, RowsStillSay DEF Paced, Alike
<1>12. SavesPaced'
  BY <1>1, SavesStay DEF Paced
<1> QED
  BY <1>1, <1>8, <1>9, <1>10, <1>11, <1>12, StoresStay DEF Paced

\* Taking the rows of some units out of the queue, or out of sight.
LEMMA ClearsPart ==
  ASSUME Typed, UNCHANGED rows, NEW part, part \subseteq Units, Open' \subseteq Units \ part,
         \A u \in part : \A m \in SeenOf(u.id)' : m <= u.change /\ m \in Nat,
         \A u \in part : UnitPaced(u),
         NEW w, \A x \in w.rows : \E u \in part : x.id = u.id,
         \A u \in part : \A r \in u.rows : r \in rows => \E y \in w.rows : SameRow(r, y)
  PROVE  Clears(w)'
<1>1. ASSUME NEW x \in w.rows, NEW r \in Pending(rows), r.id = x.id,
             \A y \in w.rows : ~SameRow(r, y), NEW m \in SeenOf(r.id)'
      PROVE  m <= r.change
  <2>1. PICK u \in part : x.id = u.id
    OBVIOUS
  <2>2. r \in rows /\ r \in AllRows
    BY DEF Pending, AllRows
  <2>3. r \notin u.rows
    BY <1>1, <2>2
  <2>4. u.change < r.change
    BY <1>1, <2>1, <2>3 DEF UnitPaced
  <2>5. r.change \in Nat /\ u.change \in Nat /\ u.id = r.id
    BY <1>1, <2>1, <2>2, RowIs, UnitOf
  <2>6. m <= u.change /\ m \in Nat
    BY <2>1, <2>5
  <2> QED
    BY <2>4, <2>5, <2>6
<1>2. \A x \in w.rows : \A u \in Open' : u.id # x.id
  BY DEF Typed, FlushOK
<1>3. Pending(rows)' = Pending(rows)
  OBVIOUS
<1> QED
  BY <1>1, <1>2, <1>3 DEF Clears

LEMMA SeenStays ==
  ASSUME Typed, Paced, UNCHANGED <<issued, applied>>
  PROVE  \A u \in Units : UnitPaced(u) /\ \A m \in SeenOf(u.id)' : m <= u.change /\ m \in Nat
<1>1. \A i : SeenOf(i)' = SeenOf(i) /\ SeenOf(i) \subseteq Nat
  BY SeenIs DEF Seen, SeenOf, ChangesOf
<1> QED
  BY <1>1 DEF Paced, FlushPaced, UnitPaced

LEMMA MutexTakesPaced ==
  ASSUME mutex = <<>>, NEW w \in WriteRec, mutex' = Append(mutex, w), WritePaced(w)'
  PROVE  MutexPaced'
BY OneInTurn DEF MutexPaced

LEMMA FlushSettlePaces ==
  ASSUME PacedQueue, Typed, Keeps, Paced, FlushSettle
  PROVE  Paced'
<1>1. UNCHANGED <<local, issued, acked, saves, rows, server, applied, withheld>>
      /\ flush' = [flush EXCEPT !.step = "settling"] /\ flush.step = "settle" /\ Quiet
  BY DEF FlushSettle, remote
<1>2. PICK read \in Reads :
        mutex' = Append(mutex, [type |-> "delete", by |-> "flush", change |-> 0,
                                rows |-> Settled(read, FlushRows)])
  BY DEF FlushSettle
<1>3. read = rows
  BY ReadsTyped, PacedMode
<1>4. PICK gone : gone = Settled(rows, FlushRows)
  OBVIOUS
<1>5. gone \subseteq rows /\ \A r \in gone : \E f \in FlushRows : SameRow(r, f) /\ r.change = f.change
  BY <1>4 DEF Settled
<1>6. \A r \in FlushRows : r \in rows => r \in gone
  BY <1>4 DEF Settled, SameRow
<1>7. PICK w \in WriteRec : w = [type |-> "delete", by |-> "flush", change |-> 0, rows |-> gone]
  <2>1. gone \in SUBSET RowRec /\ 0 \in 0..MaxChanges
    BY <1>5, Numbers DEF Typed, RowsOK
  <2> QED
    BY <2>1 DEF WriteRec
<1>8. w.type = "delete" /\ w.by = "flush" /\ w.rows = gone
  BY <1>7
<1>9. mutex = <<>> /\ mutex' = Append(mutex, w)
  BY <1>1, <1>2, <1>3, <1>4, <1>7, PacedMode, QuietIs
<1>10. InMutex' = gone
  BY <1>8, <1>9, OneInTurn
<1>11. /\ flush'.step = "settling" /\ Units' = Units
       /\ flush'.now = flush.now /\ flush'.todo = flush.todo /\ Open' = flush.todo
  BY <1>1 DEF Typed, FlushOK, FlushRec, Units, Open
<1>12. AllRows' \subseteq AllRows
  BY <1>1, <1>5, <1>10, <1>11 DEF AllRows, UnitRows
<1>13. Open' \subseteq Units \ flush.now /\ Open' \subseteq Open
  BY <1>11 DEF Paced, FlushPaced, Units, Open
<1>14. \A x \in gone : \E u \in flush.now : \E f \in u.rows : SameRow(x, f) /\ x.change = f.change
  BY <1>5 DEF FlushRows
<1>15. Clears(w)'
  <2>1. flush.now \subseteq Units
    BY DEF Units
  <2>2. \A x \in w.rows : \E u \in flush.now : x.id = u.id
    BY <1>8, <1>14, <2>1, UnitOf DEF SameRow
  <2>3. \A u \in flush.now : \A r \in u.rows : r \in rows => \E y \in w.rows : SameRow(r, y)
    BY <1>6, <1>8 DEF FlushRows, SameRow
  <2> QED
    BY <1>1, <1>13, <2>1, <2>2, <2>3, SeenStays, ClearsPart
<1>16. \A x \in gone : Arrived(x)
  <2>1. ASSUME NEW x \in gone PROVE Arrived(x)
    <3>1. PICK u \in flush.now : \E f \in u.rows : SameRow(x, f) /\ x.change = f.change
      BY <1>14
    <3>2. PICK f \in u.rows : SameRow(x, f) /\ x.change = f.change
      BY <3>1
    <3>3. Arrived(f)
      BY <1>1, <3>1, <3>2 DEF Paced, FlushPaced, UnitPaced, Units
    <3>4. f \in AllRows /\ x \in AllRows
      BY <1>5, <3>2, UnitOf DEF Units, AllRows
    <3>5. f.fields = x.fields /\ f.entity = x.entity
      BY <3>2, <3>4, RowIs DEF Paced, RowsSay
    <3> QED
      BY <3>2, <3>3, <3>5 DEF Arrived, CarriedBy, SameRow
  <2> QED
    BY <2>1
<1>17. MutexPaced'
  <2>1. \A x \in w.rows : Arrived(x)'
    BY <1>1, <1>8, <1>16 DEF Arrived
  <2>2. WritePaced(w)'
    BY <1>8, <1>11, <1>15, <2>1 DEF WritePaced
  <2> QED
    BY <1>9, <2>2, MutexTakesPaced
<1>18. FlushPaced'
  BY <1>1, <1>11, <1>13, FlushStays DEF Paced, FlushPaced
<1>19. RowsSay' /\ \A a \in applied : Recalled(a)'
  <2>1. \A x \in AllRows' : \E r \in AllRows : Alike(x, r)
    BY <1>12 DEF Alike
  <2> QED
    BY <1>1, <1>11, <2>1, RowsStillSay, StillRecalled DEF Paced
<1>20. SavesPaced'
  BY <1>1, SavesStay DEF Paced
<1> QED
  BY <1>1, <1>17, <1>18, <1>19, <1>20, StoresStay DEF Paced

LEMMA FlushIsolatesPaces ==
  ASSUME Typed, Keeps, Paced, FlushIsolates
  PROVE  Paced'
<1>1. UNCHANGED <<local, issued, acked, saves, rows, mutex, server, applied, withheld>>
      /\ flush.step = "batch"
  BY DEF FlushIsolates, remote
<1>2. PICK u \in flush.now : flush' = [step |-> "single", now |-> {u}, todo |-> flush.now \ {u}]
  BY DEF FlushIsolates
<1>3. /\ Units' \subseteq Units /\ Open' \subseteq Open /\ flush'.step = "single"
      /\ flush'.now \cap flush'.todo = {}
  BY <1>1, <1>2 DEF Units, Open
<1>4. AllRows' \subseteq AllRows
  BY <1>1, <1>3, UnitRowsShrink DEF AllRows, InMutex
<1>5. FlushPaced'
  BY <1>1, <1>3, FlushStays DEF Paced
<1>6. RowsSay' /\ \A a \in applied : Recalled(a)'
  <2>1. \A x \in AllRows' : \E r \in AllRows : Alike(x, r)
    BY <1>4 DEF Alike
  <2> QED
    BY <1>1, <1>3, <2>1, RowsStillSay, StillRecalled DEF Paced
<1>7. MutexPaced'
  <2>1. ASSUME NEW k \in DOMAIN mutex PROVE WritePaced(mutex[k])'
    <3>1. PICK w : w = mutex[k]
      OBVIOUS
    <3>2. WritePaced(w) /\ Behind(w) /\ w \in WriteRec
      BY <3>1, LenProperties, ElementOfSeq DEF Paced, MutexPaced, Keeps, MutexKeeps, Typed, MutexOK
    <3>3. w.type = "put"
      BY <1>1, <3>2 DEF WritePaced, Behind
    <3>4. PutPaced(w)'
      BY <1>1, <3>2, <3>3 DEF WritePaced, PutPaced, Seen
    <3>5. WritePaced(w)'
      BY <3>3, <3>4 DEF WritePaced
    <3> QED
      BY <1>1, <3>1, <3>5
  <2> QED
    BY <1>1, <2>1 DEF MutexPaced
<1>8. SavesPaced'
  BY <1>1, SavesStay DEF Paced
<1> QED
  BY <1>1, <1>5, <1>6, <1>7, <1>8, StoresStay DEF Paced

LEMMA FlushBuriesPaces ==
  ASSUME PacedQueue, Typed, Keeps, Paced, FlushBuries
  PROVE  Paced'
<1>1. UNCHANGED <<local, issued, acked, saves, rows, server, applied, withheld>>
      /\ Quiet /\ Untouched /\ flush.step \in {"batch", "single"}
  BY DEF FlushBuries, WriteBack, remote
<1>2. PICK buried \in SUBSET flush.now :
        /\ mutex' = Append(mutex, [type |-> "replace", by |-> "flush", change |-> 0,
                                   rows |-> Dead(UNION {u.rows : u \in buried})])
        /\ flush' = IF buried = flush.now THEN [flush EXCEPT !.step = "settling"]
                    ELSE [step |-> "burying", now |-> flush.now \ buried, todo |-> {}]
  BY FlushBuriesIs
<1>3. PICK old : old = UNION {u.rows : u \in buried}
  OBVIOUS
<1>4. old \subseteq rows
  BY <1>1, <1>3, PacedMode DEF FlushRows, Untouched, Calm, PacedQueue
<1>5. PICK news : news = {[r EXCEPT !.dead = TRUE] : r \in old}
  OBVIOUS
<1>6. old \subseteq RowRec /\ Keyed(old) /\ \A r \in old : Made(r)
  BY <1>4 DEF Typed, RowsOK, Keyed
<1>7. news \subseteq RowRec
  BY <1>5, <1>6, MarkedRows
<1>8. PICK w \in WriteRec : w = [type |-> "replace", by |-> "flush", change |-> 0, rows |-> news]
  <2>1. news \in SUBSET RowRec /\ 0 \in 0..MaxChanges
    BY <1>7, Numbers
  <2> QED
    BY <2>1 DEF WriteRec
<1>9. w.type = "replace" /\ w.by = "flush" /\ w.change = 0 /\ w.rows = news
  BY <1>8
<1>10. mutex = <<>> /\ InMutex = {} /\ mutex' = Append(mutex, w)
  BY <1>1, <1>2, <1>3, <1>5, <1>8, PacedMode, QuietIs, OneWrite DEF Typed, Keeps, MutexKeeps, Dead
<1>11. InMutex' = news
  BY <1>9, <1>10, OneInTurn
<1>12. \A r \in old : [r EXCEPT !.dead = TRUE] \in news /\ [r EXCEPT !.dead = TRUE].dead
                      /\ Alike([r EXCEPT !.dead = TRUE], r)
  BY <1>5, <1>6 DEF RowRec, Alike
<1>13. \A x \in news : x.dead /\ \E r \in old : Alike(x, r)
  BY <1>5, <1>12
<1>14. /\ flush'.step # "settle" /\ Units' \subseteq Units /\ Open' \subseteq Units \ buried
       /\ Open' \subseteq Open /\ flush'.now \cap flush'.todo = {}
  <2>1. flush.now \cap flush.todo = {}
    BY DEF Paced, FlushPaced
  <2>2. CASE buried = flush.now
    <3>1. flush'.step = "settling" /\ flush'.now = flush.now /\ flush'.todo = flush.todo
      BY <1>2, <2>2 DEF Typed, FlushOK, FlushRec
    <3> QED
      BY <2>1, <2>2, <3>1 DEF Units, Open
  <2>3. CASE buried # flush.now
    <3>1. flush' = [step |-> "burying", now |-> flush.now \ buried, todo |-> {}]
      BY <1>2, <2>3
    <3>2. flush.step # "settling"
      BY <1>1
    <3> QED
      BY <3>1, <3>2 DEF Units, Open
  <2> QED
    BY <2>2, <2>3
<1>15. \A x \in AllRows' : \E r \in AllRows : Alike(x, r)
  <2>1. UnitRows' \subseteq UnitRows
    BY <1>14, UnitRowsShrink
  <2>2. \A x \in AllRows' : x \in AllRows \/ x \in news
    BY <1>1, <1>11, <2>1 DEF AllRows
  <2>3. old \subseteq AllRows
    BY <1>4 DEF AllRows
  <2>4. \A x \in AllRows : Alike(x, x)
    BY DEF Alike
  <2> QED
    BY <1>13, <2>2, <2>3, <2>4
<1>16. Clears(w)'
  <2>1. buried \subseteq Units
    BY DEF Units
  <2>2. \A x \in w.rows : \E u \in buried : x.id = u.id
    <3>1. \A r \in old : \E u \in buried : r.id = u.id
      BY <1>3, <2>1, UnitOf
    <3> QED
      BY <1>9, <1>13, <3>1 DEF Alike
  <2>3. \A u \in buried : \A r \in u.rows : r \in rows => \E y \in w.rows : SameRow(r, y)
    <3>1. \A r \in old : \E y \in news : SameRow(r, y)
      BY <1>12 DEF Alike, SameRow
    <3> QED
      BY <1>3, <1>9, <3>1
  <2> QED
    BY <1>1, <1>14, <2>1, <2>2, <2>3, SeenStays, ClearsPart
<1>17. MutexPaced'
  <2>1. WritePaced(w)'
    BY <1>9, <1>13, <1>16 DEF WritePaced
  <2> QED
    BY <1>10, <2>1, MutexTakesPaced
<1>18. FlushPaced'
  BY <1>1, <1>14, FlushStays DEF Paced
<1>19. RowsSay' /\ \A a \in applied : Recalled(a)'
  BY <1>1, <1>14, <1>15, RowsStillSay, StillRecalled DEF Paced
<1>20. SavesPaced'
  BY <1>1, SavesStay DEF Paced
<1> QED
  BY <1>1, <1>17, <1>18, <1>19, <1>20, StoresStay DEF Paced

LEMMA CrashPaces ==
  ASSUME Typed, Paced, Crash
  PROVE  Paced'
<1>1. /\ UNCHANGED <<local, issued, acked, rows, server, applied, withheld>>
      /\ saves' = {} /\ mutex' = <<>> /\ flush' = Idle
  BY DEF Crash, remote
<1>2. Units' = {} /\ UnitRows' = {} /\ Open' = {} /\ flush'.now = {} /\ flush'.step = "idle"
  BY <1>1 DEF Units, UnitRows, Idle, Open
<1>3. DOMAIN mutex' = {} /\ InMutex' = {}
  BY <1>1, EmptyMutex
<1>4. FlushPaced' /\ MutexPaced' /\ SavesPaced'
  BY <1>1, <1>2, <1>3 DEF FlushPaced, MutexPaced, SavesPaced
<1>5. RowsSay' /\ \A a \in applied : Recalled(a)'
  <2>1. \A x \in AllRows' : \E r \in AllRows : Alike(x, r)
    BY <1>1, <1>2, <1>3 DEF Alike, AllRows
  <2> QED
    BY <1>1, <1>2, <2>1, RowsStillSay, StillRecalled DEF Paced
<1> QED
  BY <1>1, <1>4, <1>5, StoresStay DEF Paced

\* Where the flush goes from a write of its own.
LEMMA GoesOnPaced ==
  ASSUME Typed, FlushPaced, flush' \in FlushGoesOn \/ flush' = Idle,
         flush.step \in {"settling", "burying"}
  PROVE  /\ Units' \subseteq Units /\ Open' \subseteq Open /\ flush'.now \cap flush'.todo = {}
         /\ flush'.step # "settle"
<1>1. CASE flush' = Idle
  BY <1>1 DEF Idle, Units, Open
<1>2. CASE flush' \in FlushGoesOn
  <2>1. /\ flush'.now \cup flush'.todo \subseteq Units
        /\ \/ flush.step = "burying" /\ flush' = [flush EXCEPT !.step = "rest"]
           \/ flush.step # "burying" /\ flush'.step = "single"
              /\ \E u \in flush.todo : flush'.now = {u} /\ flush'.todo = flush.todo \ {u}
           \/ flush.step # "burying" /\ flush' = Idle
    BY <1>2, GoesOn DEF Typed
  <2>2. CASE flush.step = "burying" /\ flush' = [flush EXCEPT !.step = "rest"]
    <3>1. flush'.step = "rest" /\ flush'.now = flush.now /\ flush'.todo = flush.todo
      BY <2>2 DEF Typed, FlushOK, FlushRec
    <3> QED
      BY <2>2, <3>1 DEF Units, Open, FlushPaced
  <2>3. CASE flush.step # "burying" /\ flush'.step = "single"
              /\ \E u \in flush.todo : flush'.now = {u} /\ flush'.todo = flush.todo \ {u}
    BY <2>3 DEF Units, Open
  <2> QED
    BY <1>1, <2>1, <2>2, <2>3
<1> QED
  BY <1>1, <1>2

LEMMA WriteFailsPaces ==
  ASSUME PacedQueue, Typed, Keeps, Paced, WriteFails
  PROVE  Paced'
<1>1. /\ UNCHANGED <<local, issued, acked, rows, server, applied, withheld>> /\ mutex # <<>>
      /\ saves' \subseteq saves
  BY DEF WriteFails, remote
<1>2. PICK h : h = Head(mutex)
  OBVIOUS
<1>3. h \in WriteRec /\ 1 \in DOMAIN mutex /\ h = mutex[1]
  BY <1>1, <1>2, HeadIs DEF Typed
<1>4. Behind(h) /\ WritePaced(h) /\ Tail(mutex) = <<>>
  BY <1>1, <1>3, OneWrite DEF Typed, Keeps, MutexKeeps, Paced, MutexPaced
<1>5. \/ /\ mutex' = <<>>
         /\ flush' = flush \/ (h.by = "flush" /\ (flush' = Idle \/ flush' \in FlushGoesOn))
      \/ /\ mutex' = Append(<<>>, [type |-> "replace", by |-> "flush", change |-> 0,
                                   rows |-> FlushRows])
         /\ h.by = "flush" /\ h.type = "delete" /\ Untouched /\ flush' = flush
  BY <1>2, <1>4 DEF WriteFails
<1>6. /\ Units' \subseteq Units /\ Open' \subseteq Open /\ flush'.now \cap flush'.todo = {}
      /\ flush'.step = "settle" => flush' = flush
  <2>1. CASE flush' = flush
    BY <2>1 DEF Units, Open, Paced, FlushPaced
  <2>2. CASE flush' # flush
    <3>1. h.by = "flush" /\ (flush' = Idle \/ flush' \in FlushGoesOn)
      BY <1>5, <2>2
    <3> QED
      BY <1>4, <3>1, GoesOnPaced DEF Paced, Behind
  <2> QED
    BY <2>1, <2>2
<1>7. InMutex' \subseteq rows /\ MutexPaced'
  <2>1. CASE mutex' = <<>>
    BY <2>1, EmptyMutex DEF MutexPaced
  <2>2. CASE mutex' # <<>>
    <3>1. /\ mutex' = Append(<<>>, [type |-> "replace", by |-> "flush", change |-> 0,
                                   rows |-> FlushRows])
          /\ h.type = "delete" /\ Untouched /\ flush' = flush
      BY <1>5, <2>2
    <3>2. FlushRows \subseteq rows
      BY <3>1 DEF Untouched, PacedQueue
    <3>3. PICK w \in WriteRec : w = [type |-> "replace", by |-> "flush", change |-> 0, rows |-> FlushRows]
      <4>1. FlushRows \in SUBSET RowRec /\ 0 \in 0..MaxChanges
        BY <3>2, Numbers DEF Typed, RowsOK
      <4> QED
        BY <4>1 DEF WriteRec
    <3>4. w.type = "replace" /\ w.by = "flush" /\ w.change = 0 /\ w.rows = FlushRows
      BY <3>3
    <3>5. <<>> \in Seq(WriteRec) /\ Len(<<>>) = 0
      BY EmptySeq
    <3>6. mutex' = Append(<<>>, w)
      BY <3>1, <3>3
    <3>7. mutex' \in Seq(WriteRec) /\ Len(mutex') = 1 /\ mutex'[1] = w
      BY <3>5, <3>6, AppendProperties
    <3>8. DOMAIN mutex' = {1}
      BY <3>7, LenProperties
    <3>9. InMutex' = FlushRows
      BY <3>4, <3>7, <3>8 DEF InMutex
    <3>10. Clears(w)'
      <4>1. flush.now \subseteq Units /\ Open' \subseteq Units \ flush.now
        BY <1>4, <3>1 DEF WritePaced, Units, Open, Paced, FlushPaced
      <4>2. \A x \in w.rows : \E u \in flush.now : x.id = u.id
        BY <3>4, <4>1, UnitOf DEF FlushRows
      <4>3. \A u \in flush.now : \A r \in u.rows : r \in rows => \E y \in w.rows : SameRow(r, y)
        BY <3>4 DEF FlushRows, SameRow
      <4> QED
        BY <1>1, <4>1, <4>2, <4>3, SeenStays, ClearsPart
    <3>11. WritePaced(w)'
      BY <1>1, <3>2, <3>4, <3>10 DEF WritePaced
    <3> QED
      BY <3>2, <3>7, <3>8, <3>9, <3>11 DEF MutexPaced
  <2> QED
    BY <2>1, <2>2
<1>8. AllRows' \subseteq AllRows
  BY <1>1, <1>6, <1>7, UnitRowsShrink DEF AllRows
<1>9. FlushPaced'
  BY <1>1, <1>6, FlushStays DEF Paced
<1>10. RowsSay' /\ \A a \in applied : Recalled(a)'
  <2>1. \A x \in AllRows' : \E r \in AllRows : Alike(x, r)
    BY <1>8 DEF Alike
  <2> QED
    BY <1>1, <1>6, <2>1, RowsStillSay, StillRecalled DEF Paced
<1>11. SavesPaced'
  BY <1>1, SavesStay DEF Paced
<1> QED
  BY <1>1, <1>7, <1>9, <1>10, <1>11, StoresStay DEF Paced

-----------------------------------------------------------------------------
(* What the server makes of a flush: an entity has one unit, so one item.   *)

LEMMA UpdatedByOne ==
  ASSUME NEW start, NEW x \in ItemRec
  PROVE  /\ Updated(start, {}) = start
         /\ Updated(start, {x}) = IF x.whole \/ UpdateReplaces THEN x.carries
                                  ELSE start \cup x.carries
<1>1. Updated(start, {}) = start
  <2>1. {y \in {} : y.whole \/ UpdateReplaces} = {} /\ UNION {y.carries : y \in {}} = {}
    OBVIOUS
  <2> QED
    BY <2>1 DEF Updated
<1>2. PICK resets : resets = {y \in {x} : y.whole \/ UpdateReplaces}
  OBVIOUS
<1>3. CASE x.whole \/ UpdateReplaces
  <2>1. resets = {x}
    BY <1>2, <1>3
  <2>2. x.change \in Nat
    BY Numbers DEF ItemRec
  <2>3. PICK last : last = CHOOSE z \in resets : \A y \in resets : y.change <= z.change
    OBVIOUS
  <2>4. last = x
    BY <2>1, <2>2, <2>3, SMTT(60)
  <2>5. {y \in {x} : y.change > last.change} = {}
    BY <2>2, <2>4
  <2>6. Updated(start, {x}) = last.carries \cup UNION {z.carries : z \in {y \in {x} : y.change > last.change}}
    BY <1>2, <2>1, <2>3, ZenonT(60) DEF Updated
  <2>7. UNION {z.carries : z \in {}} = {}
    OBVIOUS
  <2> QED
    BY <1>1, <1>3, <2>4, <2>5, <2>6, <2>7
<1>4. CASE ~(x.whole \/ UpdateReplaces)
  <2>1. resets = {}
    BY <1>2, <1>4
  <2>2. Updated(start, {x}) = start \cup UNION {z.carries : z \in {x}}
    BY <1>2, <2>1 DEF Updated
  <2> QED
    BY <1>1, <1>4, <2>2
<1> QED
  BY <1>1, <1>3, <1>4

\* Entity i after unit u.
Applied(i, u) ==
  server'[i] = IF u.kind = "remove" THEN {}
               ELSE IF u.whole THEN u.carries ELSE server[i] \cup u.carries

LEMMA FreshItems ==
  ASSUME Typed
  PROVE  /\ \A x \in Fresh(FlushItems) : \E u \in flush.now : x = FlushItem(u) /\ u.change \notin Seen
         /\ \A u \in flush.now : u.change \notin Seen => FlushItem(u) \in Fresh(FlushItems)
         /\ \A u \in flush.now :
              /\ u \in Units /\ FlushItem(u) \in ItemRec
              /\ FlushItem(u).id = u.id /\ FlushItem(u).change = u.change
              /\ FlushItem(u).kind = u.kind /\ FlushItem(u).whole = u.whole
              /\ FlushItem(u).carries = u.carries
<1>1. \A u \in flush.now :
        /\ u \in Units
        /\ FlushItem(u).id = u.id /\ FlushItem(u).change = u.change
        /\ FlushItem(u).kind = u.kind /\ FlushItem(u).whole = u.whole
        /\ FlushItem(u).carries = u.carries
  BY DEF FlushItem, Units
<1>2. \A u \in flush.now : FlushItem(u) \in FlushItems
  BY DEF FlushItems
<1>3. FlushItems \subseteq ItemRec
  BY FlushItemsAre DEF Typed
<1>4. \A x \in FlushItems : \E u \in flush.now : x = FlushItem(u)
  BY DEF FlushItems
<1> QED
  BY <1>1, <1>2, <1>3, <1>4 DEF Fresh

LEMMA UnitApplied ==
  ASSUME Typed, FlushPaced, RowsSay, Deliver(FlushItems), UNCHANGED issued, NEW i \in Ids
  PROVE  \/ /\ server'[i] = server[i] /\ SeenOf(i)' = SeenOf(i)
            /\ \A u \in flush.now : u.id = i => u.change \in Seen
         \/ \E u \in flush.now :
              /\ u.id = i /\ u.change \notin Seen /\ SeenOf(i)' = SeenOf(i) \cup {u.change}
              /\ Applied(i, u)
<1>1. server'[i] = ApplyTo(i, FlushItems) /\ applied' = applied \cup Fresh(FlushItems)
  BY DEF Deliver
<1>2. Seen' = Seen \cup {x.change : x \in Fresh(FlushItems)}
  BY <1>1 DEF Seen
<1>3. ChangesOf(i)' = ChangesOf(i)
  BY DEF ChangesOf
<1>4. ASSUME NEW u \in flush.now, u.change \in ChangesOf(i) PROVE u.id = i
  <2>1. u.change \in ChangesOf(u.id)
    BY UnitOf DEF Units
  <2> QED
    BY <1>4, <2>1 DEF ChangesOf
<1>5. CASE \A u \in flush.now : u.id = i => u.change \in Seen
  <2>1. \A x \in Fresh(FlushItems) : x.id # i /\ x.change \notin ChangesOf(i)
    BY <1>4, <1>5, FreshItems
  <2>2. \A kind : Mine(FlushItems, i, kind) = {}
    BY <2>1 DEF Mine
  <2>3. SeenOf(i)' = SeenOf(i)
    BY <1>2, <1>3, <2>1 DEF SeenOf
  <2>4. ApplyTo(i, FlushItems) = Updated(server[i], {})
    BY <2>2, ApplyIs
  <2>5. Updated(server[i], {}) = server[i]
    <3>1. {y \in {} : y.whole \/ UpdateReplaces} = {} /\ UNION {y.carries : y \in {}} = {}
      OBVIOUS
    <3> QED
      BY <3>1 DEF Updated
  <2> QED
    BY <1>1, <1>5, <2>3, <2>4, <2>5
<1>6. CASE \E u \in flush.now : u.id = i /\ u.change \notin Seen
  <2>1. PICK u \in flush.now : u.id = i /\ u.change \notin Seen
    BY <1>6
  <2>2. PICK x \in ItemRec : /\ x = FlushItem(u) /\ x.id = i /\ x.change = u.change
                             /\ x.kind = u.kind /\ x.whole = u.whole /\ x.carries = u.carries
    BY <2>1, FreshItems
  <2>3. \A v \in flush.now : v.id = i => v = u
    BY <2>1 DEF Typed, FlushOK, Units
  <2>4. x \in Fresh(FlushItems) /\ \A y \in Fresh(FlushItems) : y.id = i => y = x
    BY <2>1, <2>2, <2>3, FreshItems
  <2>5. \A kind : Mine(FlushItems, i, kind) = IF kind = u.kind THEN {x} ELSE {}
    BY <2>2, <2>4 DEF Mine
  <2>6. SeenOf(i)' = SeenOf(i) \cup {u.change}
    <3>1. \A y \in Fresh(FlushItems) : y.change \in ChangesOf(i) => y = x
      BY <1>4, <2>4, FreshItems
    <3>2. u.change \in ChangesOf(i)
      BY <2>1, UnitOf DEF Units
    <3> QED
      BY <1>2, <1>3, <2>2, <2>4, <3>1, <3>2 DEF SeenOf
  <2>7. UnitSays(u) /\ u.kind \in Kinds
    BY UnitOf DEF FlushPaced, UnitPaced, Units, UnitRec
  <2>8. CASE u.kind = "remove"
    BY <1>1, <2>1, <2>5, <2>6, <2>8, ApplyIs DEF Applied
  <2>9. CASE u.kind = "add"
    <3>1. u.whole
      BY <2>7, <2>9 DEF UnitSays
    <3>2. x.change \in Nat
      BY Numbers DEF ItemRec
    <3>3. PICK last : last = CHOOSE z \in {x} : \A y \in {x} : y.change <= z.change
      OBVIOUS
    <3>4. last = x
      BY <3>2, <3>3
    <3>5. ApplyTo(i, FlushItems) = Updated(last.carries, {})
      BY <2>5, <2>9, <3>3, ApplyIs
    <3>6. ApplyTo(i, FlushItems) = u.carries
      BY <2>2, <3>4, <3>5, UpdatedByOne
    <3> QED
      BY <1>1, <2>1, <2>6, <2>9, <3>1, <3>6 DEF Applied
  <2>10. CASE u.kind = "update"
    <3>1. ApplyTo(i, FlushItems) = Updated(server[i], {x})
      BY <2>5, <2>10, ApplyIs
    <3>2. ApplyTo(i, FlushItems) = IF u.whole \/ UpdateReplaces THEN u.carries
                                   ELSE server[i] \cup u.carries
      <4>1. Updated(server[i], {x}) = IF x.whole \/ UpdateReplaces THEN x.carries
                                      ELSE server[i] \cup x.carries
        BY UpdatedByOne
      <4>2. x.whole = u.whole /\ x.carries = u.carries
        BY <2>2
      <4> QED
        BY <3>1, <4>1, <4>2
    <3>3. ~u.whole => ~UpdateReplaces
      <4>1. PICK r \in u.rows : u.whole = (u.kind # "update" \/ r.fields = {})
        BY <2>7 DEF UnitSays
      <4> QED
        <5>1. r \in AllRows
          BY UnitOf DEF Units
        <5>2. UpdateReplaces => r.fields = {}
          BY <5>1 DEF RowsSay, Says
        <5> QED
          BY <4>1, <5>2
    <3> QED
      BY <1>1, <2>1, <2>6, <2>10, <3>2, <3>3 DEF Applied
  <2> QED
    BY <2>7, <2>8, <2>9, <2>10 DEF Kinds
<1> QED
  BY <1>5, <1>6

LEMMA UnitCarries ==
  ASSUME Typed, RowsSay, NEW u \in Units, UnitSays(u)
  PROVE  /\ u.carries \subseteq issued[u.change].entity
         /\ u.whole => u.carries = issued[u.change].entity
         /\ u.kind = "remove" <=> issued[u.change].kind = "remove"
         /\ ~u.whole => /\ u.kind = "update" /\ issued[u.change].kind = "update"
                        /\ u.carries # {}
                        /\ \A r \in AllRows : r.change = u.change => r.fields = u.carries
         /\ u.whole /\ u.kind = "update" =>
              \A r \in AllRows : r.change = u.change => r.fields = {}
         /\ \E r \in UnitRows : r.change = u.change
<1>1. PICK n \in u.rows : /\ n.change = u.change
                          /\ u.whole = (u.kind # "update" \/ n.fields = {})
                          /\ u.carries = IF u.whole THEN n.entity ELSE n.fields
                          /\ u.kind = "remove" <=> n.kind = "remove"
                          /\ u.kind = "update" => n.kind = "update"
  BY DEF UnitSays
<1>2. n \in AllRows /\ n \in UnitRows
  BY UnitOf
<1>3. n.kind = issued[u.change].kind /\ n.entity = issued[u.change].entity
  BY <1>1, <1>2, RowIs
<1>4. Says(n) /\ \A r \in AllRows : r.change = u.change => r.fields = n.fields
  BY <1>1, <1>2 DEF RowsSay
<1>5. n.fields \subseteq n.entity
  BY <1>4 DEF Says, CarriedBy
<1>6. CASE u.whole
  BY <1>1, <1>2, <1>3, <1>4, <1>6
<1>7. CASE ~u.whole
  BY <1>1, <1>2, <1>3, <1>4, <1>5, <1>7
<1> QED
  BY <1>6, <1>7

LEMMA UnitArrives ==
  ASSUME Typed, Paced, UNCHANGED <<local, issued>>, NEW i \in Ids, NEW u \in flush.now,
         u.id = i, u.change \notin Seen, SeenOf(i)' = SeenOf(i) \cup {u.change}, Applied(i, u)
  PROVE  /\ server[i] \cap local[i] \subseteq server'[i]
         /\ u.carries \cap local[i] \subseteq server'[i]
         /\ \A r \in u.rows : CarriedBy(r) \cap local[i] \subseteq server'[i]
         /\ ServerHas(i)'
<1>1. u \in Units /\ UnitPaced(u) /\ UnitSays(u) /\ RowsSay
  BY DEF Units, Paced, FlushPaced, UnitPaced
<1>2. /\ u.carries \subseteq issued[u.change].entity
      /\ u.whole => u.carries = issued[u.change].entity
      /\ u.kind = "remove" <=> issued[u.change].kind = "remove"
      /\ ~u.whole => u.kind = "update"
  BY <1>1, UnitCarries
<1>3. u.change \in ChangesOf(i) /\ u.change \in Nat
  BY <1>1, UnitOf
<1>4. Past(i) /\ ServerHas(i) /\ Tells(u.change)
  BY <1>3 DEF Paced, Past
<1>5. Removed(i) => local[i] = {}
  BY <1>4 DEF Past
<1>6. u.kind = "remove" => Removed(i)
  BY <1>2, <1>3 DEF Removed
<1>7. \A x \in local[i] : x <= u.change => x \in issued[u.change].entity
  BY <1>3, <1>4 DEF Past
<1>8. Removed(i) \/ issued[u.change].entity \subseteq local[i]
  BY <1>3, <1>4 DEF Past
<1>9. issued[u.change].entity \subseteq 0..u.change
  BY <1>4 DEF Tells
<1>10. \A x \in server[i] : x <= u.change
  <2>1. ASSUME NEW x \in server[i] PROVE x <= u.change
    <3>1. x \in Nat
      BY Numbers DEF Typed, StoresOK
    <3>2. CASE x = 0
      BY <1>3, <3>2
    <3>3. CASE x # 0
      <4>1. PICK m \in SeenOf(i) : x <= m
        BY <1>4, <3>3 DEF ServerHas
      <4>2. m <= u.change /\ m \in Nat
        BY <1>1, SeenIs DEF UnitPaced, SeenOf
      <4> QED
        BY <1>3, <3>1, <4>1, <4>2
    <3> QED
      BY <3>2, <3>3
  <2> QED
    BY <2>1
<1>11. u.kind # "remove" => /\ u.carries \subseteq server'[i] /\ server'[i] \subseteq server[i] \cup u.carries
                            /\ u.whole => server'[i] = u.carries
                            /\ ~u.whole => server[i] \subseteq server'[i]
  BY DEF Applied
<1>12. u.kind = "remove" => server'[i] = {}
  BY DEF Applied
<1>13. server[i] \cap local[i] \subseteq server'[i]
  <2>1. CASE u.kind = "remove"
    BY <1>5, <1>6, <2>1
  <2>2. CASE u.kind # "remove"
    BY <1>2, <1>7, <1>10, <1>11, <2>2
  <2> QED
    BY <2>1, <2>2
<1>14. u.carries \cap local[i] \subseteq server'[i]
  BY <1>5, <1>6, <1>11
<1>15. \A r \in u.rows : CarriedBy(r) \cap local[i] \subseteq server'[i]
  BY <1>1, <1>5, <1>6, <1>11 DEF UnitSays
<1>16. ServerHas(i)'
  <2>1. ChangesOf(i)' = ChangesOf(i) /\ (Removed(i)' <=> Removed(i))
    BY DEF ChangesOf, Removed
  <2>2. \A x \in server'[i] : x = 0 \/ \E m \in SeenOf(i)' : x <= m
    <3>1. \A x \in server'[i] : x \in server[i] \/ x \in u.carries
      BY <1>11, <1>12
    <3> QED
      BY <1>2, <1>9, <1>10, <3>1
  <2>3. Removed(i)' \/ server'[i] \subseteq local'[i]
    BY <1>2, <1>4, <1>6, <1>8, <1>11, <2>1 DEF ServerHas
  <2>4. ~Removed(i)' /\ 0 \in local'[i] => 0 \in server'[i]
    BY <1>4, <1>13, <2>1 DEF ServerHas
  <2>5. (\E n \in SeenOf(i)' : issued'[n].kind = "remove") => server'[i] = {}
    <3>1. SUFFICES ASSUME NEW n \in SeenOf(i)', issued[n].kind = "remove" PROVE server'[i] = {}
      OBVIOUS
    <3>2. n # u.change => n \in SeenOf(i) /\ n \in ChangesOf(i) /\ n <= u.change /\ n \in Nat
      BY <1>1, SeenIs DEF UnitPaced, SeenOf
    <3>3. n # u.change => u.change <= n
      BY <1>3, <1>4, <3>1, <3>2 DEF Past, Grows
    <3>4. n = u.change
      BY <1>3, <3>2, <3>3
    <3> QED
      BY <1>2, <1>12, <3>1, <3>4
  <2> QED
    BY <2>2, <2>3, <2>4, <2>5 DEF ServerHas
<1> QED
  BY <1>13, <1>14, <1>15, <1>16

LEMMA DeliverHolds ==
  ASSUME Typed, Paced, Deliver(FlushItems), UNCHANGED <<local, issued>>
  PROVE  \A i \in Ids : server[i] \cap local[i] \subseteq server'[i] /\ ServerHas(i)'
<1>1. ASSUME NEW i \in Ids PROVE server[i] \cap local[i] \subseteq server'[i] /\ ServerHas(i)'
  <2>1. \/ server'[i] = server[i] /\ SeenOf(i)' = SeenOf(i)
        \/ \E u \in flush.now :
              /\ u.id = i /\ u.change \notin Seen /\ SeenOf(i)' = SeenOf(i) \cup {u.change}
              /\ Applied(i, u)
    BY UnitApplied DEF Paced
  <2>2. CASE server'[i] = server[i] /\ SeenOf(i)' = SeenOf(i)
    <3>1. ServerHas(i) /\ (Removed(i)' <=> Removed(i))
      BY DEF Paced, Removed, ChangesOf
    <3> QED
      BY <2>2, <3>1 DEF ServerHas
  <2>3. CASE \E u \in flush.now :
              /\ u.id = i /\ u.change \notin Seen /\ SeenOf(i)' = SeenOf(i) \cup {u.change}
              /\ Applied(i, u)
    BY <2>3, UnitArrives
  <2> QED
    BY <2>1, <2>2, <2>3
<1> QED
  BY <1>1

\* What the flush sent has arrived, now or before.
LEMMA DeliverArrives ==
  ASSUME Typed, Paced, Deliver(FlushItems), UNCHANGED <<local, issued>>, NEW u \in flush.now
  PROVE  /\ u.carries \cap local[u.id] \subseteq server'[u.id]
         /\ \A r \in u.rows : Arrived(r)'
         /\ u.change \in Seen =>
              \A a \in applied : a.change = u.change => u.carries \subseteq a.carries
<1>1. u \in Units /\ u.id \in Ids /\ UnitSays(u) /\ RowsSay /\ u.change \in ChangesOf(u.id)
      /\ \A r \in u.rows : r.id = u.id
  BY UnitOf DEF Units, Paced, FlushPaced, UnitPaced
<1>2. ASSUME NEW a \in applied, a.change = u.change PROVE u.carries \subseteq a.carries
  <2>1. Recalled(a) /\ a.id = u.id
    <3>1. a.change \in ChangesOf(a.id)
      BY SeenIs DEF SeenOf
    <3> QED
      BY <1>1, <1>2, <3>1 DEF Paced, ChangesOf
  <2>2. CASE a.whole
    BY <1>1, <1>2, <2>1, <2>2, UnitCarries DEF Recalled
  <2>3. CASE ~a.whole
    <3>1. Trimmed(a)
      BY <2>1, <2>3 DEF Recalled
    <3>2. PICK n \in UnitRows : n.change = u.change
      BY <1>1, UnitCarries
    <3>3. n \in AllRows /\ n.fields = a.carries /\ n.fields # {}
      BY <1>2, <3>1, <3>2 DEF Trimmed, AllRows
    <3>4. u.kind = "update"
      <4>1. u.kind # "add" /\ u.kind # "remove"
        BY <1>1, <1>2, <2>1, <3>1, UnitCarries DEF Trimmed
      <4> QED
        BY <1>1, <4>1, UnitOf DEF UnitRec, Kinds
    <3>5. ~u.whole
      BY <1>1, <3>2, <3>3, <3>4, UnitCarries
    <3>6. u.carries = n.fields
      BY <1>1, <3>2, <3>3, <3>5, UnitCarries
    <3> QED
      BY <3>3, <3>6
  <2> QED
    BY <2>2, <2>3
<1>3. CASE u.change \in Seen
  <2>1. PICK a \in applied : a.change = u.change
    BY <1>3 DEF Seen
  <2>2. Recalled(a) /\ a.id = u.id
    <3>1. a.change \in ChangesOf(a.id)
      BY SeenIs DEF SeenOf
    <3> QED
      BY <1>1, <2>1, <3>1 DEF Paced, ChangesOf
  <2>3. u.carries \cap local[u.id] \subseteq server[u.id]
    BY <1>2, <2>1, <2>2 DEF Recalled
  <2>4. server[u.id] \cap local[u.id] \subseteq server'[u.id]
    BY <1>1, DeliverHolds
  <2>5. u.kind = "remove" => local[u.id] = {}
    BY <1>1, UnitCarries DEF Paced, Past, Removed
  <2>6. \A r \in u.rows : CarriedBy(r) \cap local[u.id] \subseteq server'[u.id]
    BY <1>1, <2>3, <2>4, <2>5 DEF UnitSays
  <2> QED
    BY <1>1, <1>2, <2>3, <2>4, <2>6 DEF Arrived
<1>4. CASE u.change \notin Seen
  <2>1. PICK v \in flush.now :
              /\ v.id = u.id /\ v.change \notin Seen /\ SeenOf(u.id)' = SeenOf(u.id) \cup {v.change}
              /\ Applied(u.id, v)
    BY <1>1, <1>4, UnitApplied DEF Paced
  <2>2. v = u
    BY <2>1 DEF Typed, FlushOK, Units
  <2>3. /\ u.carries \cap local[u.id] \subseteq server'[u.id]
        /\ \A r \in u.rows : CarriedBy(r) \cap local[u.id] \subseteq server'[u.id]
    BY <1>1, <1>4, <2>1, <2>2, UnitArrives
  <2> QED
    BY <1>1, <1>4, <2>3 DEF Arrived
<1> QED
  BY <1>3, <1>4

\* What the delivery of a flush leaves of the invariant's parts about the server.
LEMMA DeliverPaces ==
  ASSUME PacedQueue, Typed, Keeps, Paced, Deliver(FlushItems), flush.step \in Sending,
         UNCHANGED <<local, issued, acked, saves, rows>>
  PROVE  /\ (\A i \in Ids : Past(i) /\ ServerHas(i))'
         /\ NeverBehind' /\ SavesPaced' /\ EditsKept' /\ OpIdDescribesBytes'
         /\ \A u \in Units : \A m \in SeenOf(u.id)' : m <= u.change /\ m \in Nat
         /\ \A m \in Seen' : m \in Seen \/ \E r \in UnitRows : r.change = m
<1>1. applied' = applied \cup Fresh(FlushItems)
  BY DEF Deliver
<1>2. \A m \in Seen' : m \in Seen \/ \E u \in flush.now : m = u.change
  <2>1. \A x \in Fresh(FlushItems) : \E u \in flush.now : x.change = u.change
    BY FreshItems
  <2> QED
    BY <1>1, <2>1 DEF Seen
<1>3. \A u \in flush.now : /\ u \in Units /\ UnitPaced(u) /\ u \in Open
                           /\ u.change \in ChangesOf(u.id) /\ u.change \in Nat
  BY UnitOf DEF Units, Open, Sending, Paced, FlushPaced
<1>4. \A u \in flush.now : \E r \in UnitRows : r.change = u.change
  BY <1>3, UnitCarries DEF Paced, UnitPaced
<1>5. \A m \in Seen' : m \in Seen \/ \E r \in UnitRows : r.change = m
  BY <1>2, <1>4
<1>6. \A i : ChangesOf(i)' = ChangesOf(i)
  BY DEF ChangesOf
<1>7. ASSUME NEW i, NEW m \in SeenOf(i)'
      PROVE  m \in SeenOf(i) \/ \E u \in flush.now : m = u.change /\ u.id = i
  <2>1. m \in Seen' /\ m \in ChangesOf(i)
    BY <1>6 DEF SeenOf
  <2>2. CASE m \in Seen
    BY <2>1, <2>2 DEF SeenOf
  <2>3. CASE m \notin Seen
    <3>1. PICK u \in flush.now : m = u.change
      BY <1>2, <2>1, <2>3
    <3> QED
      BY <1>3, <2>1, <3>1 DEF ChangesOf
  <2> QED
    BY <2>2, <2>3
<1>8. (\A i \in Ids : Past(i) /\ ServerHas(i))'
  <2>1. \A i \in Ids : Past(i)'
    <3>1. \A i : Removed(i)' <=> Removed(i)
      BY DEF ChangesOf, Removed
    <3> QED
      BY <1>6, <3>1 DEF Paced, Past, Grows, Tells
  <2> QED
    BY <2>1, DeliverHolds
<1>9. NeverBehind'
  <2>1. ASSUME NEW r \in Pending(rows), NEW m \in SeenOf(r.id)'
        PROVE  \E q \in Pending(rows) : q.id = r.id /\ m <= q.change
    <3>1. CASE m \in SeenOf(r.id)
      BY <3>1 DEF Paced, NeverBehind
    <3>2. CASE \E u \in flush.now : m = u.change /\ u.id = r.id
      BY <1>3, <3>2 DEF UnitPaced
    <3> QED
      BY <1>7, <3>1, <3>2
  <2> QED
    BY <2>1 DEF NeverBehind
<1>10. SavesPaced'
  <2>1. ASSUME NEW s \in saves, s.step = "record", NEW m \in Seen' PROVE m < s.change
    <3>1. CASE m \in Seen
      BY <2>1, <3>1 DEF Paced, SavesPaced
    <3>2. CASE \E r \in UnitRows : r.change = m
      BY <2>1, <3>2 DEF Keeps, Ordered, Stamped
    <3> QED
      BY <1>5, <3>1, <3>2
  <2> QED
    BY <2>1 DEF Paced, SavesPaced
<1>11. EditsKept'
  BY DeliverHolds DEF Paced, EditsKept
<1>12. OpIdDescribesBytes'
  <2>1. withheld' = withheld \cup
          UNION {x.carries \ UNION {a.carries : a \in {b \in applied : b.change = x.change}} :
                   x \in FlushItems \ Fresh(FlushItems)}
    BY DEF Deliver
  <2>2. ASSUME NEW x \in FlushItems \ Fresh(FlushItems)
        PROVE  x.carries \ UNION {a.carries : a \in {b \in applied : b.change = x.change}} = {}
    <3>1. PICK u \in flush.now : x = FlushItem(u)
      BY DEF FlushItems
    <3>2. x.change = u.change /\ x.carries = u.carries
      BY <3>1 DEF FlushItem
    <3>3. x.change \in Seen
      BY <2>2 DEF Fresh
    <3>4. PICK a \in applied : a.change = x.change
      BY <3>3 DEF Seen
    <3>5. u.carries \subseteq a.carries
      BY <3>2, <3>3, <3>4, DeliverArrives
    <3> QED
      BY <3>2, <3>4, <3>5
  <2>3. UNION {x.carries \ UNION {a.carries : a \in {b \in applied : b.change = x.change}} :
                   x \in FlushItems \ Fresh(FlushItems)} = {}
    BY <2>2
  <2> QED
    BY <2>1, <2>3 DEF Paced, OpIdDescribesBytes
<1>13. \A u \in Units : \A m \in SeenOf(u.id)' : m <= u.change /\ m \in Nat
  <2>1. ASSUME NEW u \in Units, NEW m \in SeenOf(u.id)' PROVE m <= u.change /\ m \in Nat
    <3>1. CASE m \in SeenOf(u.id)
      BY <3>1, SeenIs DEF Paced, FlushPaced, UnitPaced, SeenOf
    <3>2. CASE \E v \in flush.now : m = v.change /\ v.id = u.id
      <4>1. PICK v \in flush.now : m = v.change /\ v.id = u.id
        BY <3>2
      <4>2. v = u
        BY <1>3, <4>1 DEF Typed, FlushOK
      <4> QED
        BY <1>3, <4>1, <4>2
    <3> QED
      BY <1>7, <3>1, <3>2
  <2> QED
    BY <2>1
<1> QED
  BY <1>5, <1>8, <1>9, <1>10, <1>11, <1>12, <1>13

LEMMA DeliverRecalled ==
  ASSUME Typed, Paced, Deliver(FlushItems), flush.step \in Sending,
         UNCHANGED <<local, issued, rows>>, Units' = Units, AllRows' \subseteq AllRows
  PROVE  \A a \in applied' : Recalled(a)'
<1>1. applied' = applied \cup Fresh(FlushItems)
  BY DEF Deliver
<1>2. ASSUME NEW a \in applied PROVE Recalled(a)'
  <2>1. Recalled(a) /\ a.id \in Ids
    BY SeenIs DEF Paced
  <2>2. server[a.id] \cap local[a.id] \subseteq server'[a.id]
    BY <2>1, DeliverHolds
  <2>3. Trimmed(a) => Trimmed(a)'
    BY DEF Trimmed
  <2> QED
    BY <2>1, <2>2, <2>3 DEF Recalled
<1>3. ASSUME NEW u \in flush.now, NEW x \in ItemRec, x.id = u.id, x.change = u.change,
             x.whole = u.whole, x.carries = u.carries
      PROVE  Recalled(x)'
  <2>1. /\ u \in Units /\ UnitPaced(u) /\ UnitSays(u) /\ RowsSay
        /\ u.change \in ChangesOf(u.id) /\ u.change \in Nat /\ u.id \in Ids
    BY UnitOf DEF Units, Paced, FlushPaced, UnitPaced
  <2>2. x.carries \cap local[x.id] \subseteq server'[x.id]
    BY <1>3, DeliverArrives
  <2>3. CASE x.whole
    <3>1. u.whole
      BY <1>3, <2>3
    <3>2. x.carries = issued[x.change].entity
      BY <1>3, <2>1, <3>1, UnitCarries
    <3> QED
      BY <2>2, <2>3, <3>2 DEF Recalled
  <2>4. CASE ~x.whole
    <3>1. ~u.whole
      BY <1>3, <2>4
    <3>2. /\ u.kind = "update" /\ issued[u.change].kind = "update" /\ u.carries # {}
          /\ u.carries \subseteq issued[u.change].entity
          /\ \A r \in AllRows : r.change = u.change => r.fields = u.carries
      BY <2>1, <3>1, UnitCarries
    <3>3. \A r \in rows : r.id = x.id /\ r.kind = "add" => r.dead
      <4>1. SUFFICES ASSUME NEW r \in Pending(rows), r.id = u.id, r.kind = "add" PROVE FALSE
        BY <1>3 DEF Pending
      <4>2. r \in AllRows
        BY DEF Pending, AllRows
      <4>3. r.change \in ChangesOf(u.id) /\ issued[r.change].kind = "add" /\ r.change \in Nat
        BY <4>1, <4>2, RowIs
      <4>4. r.change <= u.change
        BY <2>1, <4>3 DEF Paced, Past, Grows
      <4>5. r \in u.rows
        BY <2>1, <4>1, <4>3, <4>4 DEF UnitPaced
      <4> QED
        BY <2>1, <3>2, <4>1, <4>5 DEF UnitSays
    <3>4. \A v \in Units : v.id = x.id => v.kind # "add"
      BY <1>3, <2>1, <3>2 DEF Typed, FlushOK
    <3>5. Trimmed(x)'
      BY <1>3, <3>2, <3>3, <3>4 DEF Trimmed
    <3> QED
      BY <1>3, <2>2, <2>4, <3>2, <3>5 DEF Recalled
  <2> QED
    BY <2>3, <2>4
<1>4. ASSUME NEW x \in Fresh(FlushItems) PROVE Recalled(x)'
  <2>1. PICK u \in flush.now : x = FlushItem(u)
    BY FreshItems
  <2> QED
    BY <1>3, <2>1, FreshItems
<1> QED
  BY <1>1, <1>2, <1>4

LEMMA FlushSucceedsPaces ==
  ASSUME PacedQueue, Typed, Keeps, Paced, FlushSucceeds
  PROVE  Paced'
<1>1. UNCHANGED <<local, issued, acked, saves, rows, mutex>> /\ Deliver(FlushItems)
      /\ flush' = [flush EXCEPT !.step = "settle"] /\ flush.step \in Sending
  BY DEF FlushSucceeds
<1>2. /\ flush'.step = "settle" /\ Units' = Units /\ flush'.now = flush.now
      /\ flush'.todo = flush.todo /\ Open' = Open
  BY <1>1 DEF Typed, FlushOK, FlushRec, Units, Open, Sending
<1>3. AllRows' = AllRows
  BY <1>1, <1>2 DEF AllRows, InMutex, UnitRows
<1>4. /\ (\A i \in Ids : Past(i) /\ ServerHas(i))'
      /\ NeverBehind' /\ SavesPaced' /\ EditsKept' /\ OpIdDescribesBytes'
      /\ \A u \in Units : \A m \in SeenOf(u.id)' : m <= u.change /\ m \in Nat
      /\ \A m \in Seen' : m \in Seen \/ \E r \in UnitRows : r.change = m
  BY <1>1, DeliverPaces
<1>5. \A a \in applied' : Recalled(a)'
  BY <1>1, <1>2, <1>3, DeliverRecalled
<1>6. RowsSay'
  BY <1>3, RowsStillSay DEF Paced, Alike
<1>7. FlushPaced'
  <2>1. ASSUME NEW u \in Units PROVE UnitPaced(u)'
    <3>1. UnitPaced(u)
      BY DEF Paced, FlushPaced
    <3>2. u \in flush.now => \A r \in u.rows : Arrived(r)'
      BY <1>1, DeliverArrives
    <3> QED
      BY <1>1, <1>2, <1>4, <3>1, <3>2 DEF UnitPaced
  <2> QED
    BY <1>2, <2>1 DEF Paced, FlushPaced
<1>8. MutexPaced'
  <2>1. ASSUME NEW k \in DOMAIN mutex PROVE WritePaced(mutex[k])'
    <3>1. PICK w : w = mutex[k]
      OBVIOUS
    <3>2. WritePaced(w) /\ Behind(w) /\ w \in WriteRec
      BY <3>1, LenProperties, ElementOfSeq DEF Paced, MutexPaced, Keeps, MutexKeeps, Typed, MutexOK
    <3>3. w.type = "put"
      BY <1>1, <3>2 DEF WritePaced, Behind, Sending
    <3>4. PutPaced(w)'
      <4>1. \A x \in w.rows : \A q \in UnitRows : q.change < x.change
        BY <3>2, <3>3 DEF Behind, Puts
      <4> QED
        BY <1>1, <1>4, <3>2, <3>3, <4>1 DEF WritePaced, PutPaced
    <3>5. WritePaced(w)'
      BY <3>3, <3>4 DEF WritePaced
    <3> QED
      BY <1>1, <3>1, <3>5
  <2> QED
    BY <1>1, <2>1 DEF MutexPaced
<1> QED
  BY <1>4, <1>5, <1>6, <1>7, <1>8 DEF Paced

LEMMA FlushFailsPaces ==
  ASSUME PacedQueue, Typed, Keeps, Paced, FlushFails
  PROVE  Paced'
<1>1. UNCHANGED <<local, issued, acked, saves, rows>>
      /\ flush' = [flush EXCEPT !.step = "settling"] /\ flush.step \in Sending
      /\ mutex' = Append(mutex, [type |-> "replace", by |-> "flush", change |-> 0,
                                 rows |-> FlushRows])
      /\ Quiet /\ Untouched
  BY DEF FlushFails, WriteBack
<1>2. FlushRows \subseteq rows
  BY <1>1 DEF Untouched, PacedQueue
<1>3. PICK w \in WriteRec : w = [type |-> "replace", by |-> "flush", change |-> 0, rows |-> FlushRows]
  <2>1. FlushRows \in SUBSET RowRec /\ 0 \in 0..MaxChanges
    BY <1>2, Numbers DEF Typed, RowsOK
  <2> QED
    BY <2>1 DEF WriteRec
<1>4. w.type = "replace" /\ w.by = "flush" /\ w.change = 0 /\ w.rows = FlushRows
  BY <1>3
<1>5. mutex = <<>> /\ mutex' = Append(mutex, w)
  BY <1>1, <1>3, PacedMode, QuietIs
<1>6. InMutex' = FlushRows
  BY <1>4, <1>5, OneInTurn
<1>7. /\ flush'.step = "settling" /\ Units' = Units /\ flush'.now = flush.now
      /\ flush'.todo = flush.todo /\ Open' = flush.todo /\ Open' \subseteq Open
  BY <1>1 DEF Typed, FlushOK, FlushRec, Units, Open
<1>8. AllRows' \subseteq AllRows
  BY <1>1, <1>2, <1>6, <1>7 DEF AllRows, UnitRows
<1>9. /\ (\A i \in Ids : Past(i) /\ ServerHas(i))'
      /\ NeverBehind' /\ SavesPaced' /\ EditsKept' /\ OpIdDescribesBytes'
      /\ \A u \in Units : \A m \in SeenOf(u.id)' : m <= u.change /\ m \in Nat
      /\ \A a \in applied' : Recalled(a)'
  <2>1. CASE Deliver(FlushItems)
    BY <1>1, <1>7, <1>8, <2>1, DeliverPaces, DeliverRecalled
  <2>2. CASE UNCHANGED remote
    <3>1. UNCHANGED <<server, applied, withheld>>
      BY <2>2 DEF remote
    <3>2. \A x \in AllRows' : \E r \in AllRows : Alike(x, r)
      BY <1>8 DEF Alike
    <3>3. \A a \in applied' : Recalled(a)'
      BY <1>1, <1>7, <3>1, <3>2, StillRecalled DEF Paced
    <3>4. SavesPaced'
      BY <1>1, <3>1, SavesStay DEF Paced
    <3> QED
      BY <1>1, <3>1, <3>3, <3>4, StoresStay, SeenStays
  <2> QED
    BY <2>1, <2>2 DEF FlushFails
<1>10. RowsSay'
  BY <1>8, RowsStillSay DEF Paced, Alike
<1>11. FlushPaced'
  <2>1. ASSUME NEW u \in Units PROVE UnitPaced(u)'
    <3>1. UnitPaced(u)
      BY DEF Paced, FlushPaced
    <3> QED
      BY <1>1, <1>7, <1>9, <3>1 DEF UnitPaced
  <2> QED
    BY <1>7, <2>1 DEF Paced, FlushPaced
<1>12. MutexPaced'
  <2>1. flush.now \subseteq Units /\ Open' \subseteq Units \ flush.now
    BY <1>7 DEF Units, Paced, FlushPaced
  <2>2. \A x \in w.rows : \E u \in flush.now : x.id = u.id
    BY <1>4, <2>1, UnitOf DEF FlushRows
  <2>3. \A u \in flush.now : \A r \in u.rows : r \in rows => \E y \in w.rows : SameRow(r, y)
    BY <1>4 DEF FlushRows, SameRow
  <2>4. \A u \in flush.now : UnitPaced(u)
    BY <2>1 DEF Paced, FlushPaced
  <2>5. Clears(w)'
    BY <1>1, <1>9, <2>1, <2>2, <2>3, <2>4, ClearsPart
  <2>6. WritePaced(w)'
    BY <1>1, <1>2, <1>4, <2>5 DEF WritePaced
  <2> QED
    BY <1>5, <2>6, MutexTakesPaced
<1> QED
  BY <1>9, <1>10, <1>11, <1>12 DEF Paced

-----------------------------------------------------------------------------
(* A write at the head of the mutex.                                        *)

LEMMA PastStays ==
  ASSUME Paced, UNCHANGED <<local, issued, server, applied>>
  PROVE  /\ (\A i \in Ids : Past(i) /\ ServerHas(i))'
         /\ Seen' = Seen /\ \A i : SeenOf(i)' = SeenOf(i)
<1>1. Seen' = Seen /\ \A i : ChangesOf(i)' = ChangesOf(i) /\ SeenOf(i)' = SeenOf(i)
                              /\ Removed(i)' = Removed(i)
  BY DEF Seen, ChangesOf, SeenOf, Removed
<1>2. \A i \in Ids : Past(i)'
  BY <1>1 DEF Paced, Past, Grows, Tells
<1>3. \A i \in Ids : ServerHas(i)'
  BY <1>1 DEF Paced, ServerHas
<1> QED
  BY <1>1, <1>2, <1>3

\* The row of a save, put in the place of the one it was merged with.
LEMMA PutPaces ==
  ASSUME Typed, Paced, UNCHANGED <<local, issued, server, applied, flush>>,
         NEW w, w.type = "put", WritePaced(w), Behind(w), w.rows \subseteq AllRows,
         rows' = Upsert(rows, w.rows), AllRows' \subseteq AllRows,
         acked' \subseteq acked \cup {w.change}
  PROVE  NeverBehind' /\ FlushPaced' /\ EditsKept' /\ \A a \in applied : Recalled(a)'
<1>1. PICK p \in w.rows : /\ w.rows = {p} /\ p.change = w.change /\ ~p.dead
                          /\ \A q \in rows \cup UnitRows : q.change < p.change
  BY DEF Behind, Puts
<1>2. /\ \A m \in Seen : m < p.change
      /\ \A r \in rows : SameRow(r, p) => CarriedBy(r) \subseteq CarriedBy(p)
  BY <1>1 DEF WritePaced, PutPaced
<1>3. rows' = {r \in rows : ~SameRow(r, p)} \cup {p}
  BY <1>1 DEF Upsert, DeleteById
<1>4. /\ p.id \in Ids /\ p.change \in ChangesOf(p.id) /\ p.change \in Nat
      /\ p.kind = issued[p.change].kind /\ p.entity = issued[p.change].entity /\ Says(p)
  BY <1>1, RowIs DEF Paced, RowsSay
<1>5. Pending(rows)' = {r \in Pending(rows) : ~SameRow(r, p)} \cup {p}
  BY <1>1, <1>3 DEF Pending
<1>6. Seen' = Seen /\ \A i : SeenOf(i)' = SeenOf(i) /\ SeenOf(i) \subseteq Seen
  BY PastStays DEF SeenOf
<1>7. Seen \subseteq Nat
  BY SeenIs
<1>8. NeverBehind'
  <2>1. ASSUME NEW r \in Pending(rows)', NEW m \in SeenOf(r.id)
        PROVE  \E q \in Pending(rows)' : q.id = r.id /\ m <= q.change
    <3>1. CASE r.id = p.id
      <4>1. m < p.change /\ m \in Nat
        BY <1>2, <1>6, <1>7
      <4> QED
        BY <1>4, <1>5, <3>1, <4>1
    <3>2. CASE r.id # p.id
      <4>1. r \in Pending(rows)
        BY <1>5, <3>2
      <4>2. PICK q \in Pending(rows) : q.id = r.id /\ m <= q.change
        BY <4>1 DEF Paced, NeverBehind
      <4> QED
        BY <1>5, <3>2, <4>2 DEF SameRow
    <3> QED
      BY <3>1, <3>2
  <2> QED
    BY <1>6, <2>1 DEF NeverBehind
<1>9. FlushPaced'
  <2>1. Units' = Units /\ Open' = Open
    BY DEF Units, Open
  <2>2. ASSUME NEW u \in Units PROVE UnitPaced(u)'
    <3>1. UnitPaced(u) /\ UnitSays(u)
      BY DEF Paced, FlushPaced, UnitPaced
    <3>2. u.change < p.change /\ u.change \in Nat
      BY <1>1, <3>1, UnitOf, UnitCarries DEF Paced
    <3>3. \A r \in Pending(rows)' : r.id = u.id => r \in u.rows \/ u.change < r.change
      BY <1>5, <3>1, <3>2 DEF UnitPaced
    <3>4. u \in Open => \E q \in Pending(rows)' : q.id = u.id /\ u.change <= q.change
      <4>1. SUFFICES ASSUME u \in Open PROVE \E q \in Pending(rows)' : q.id = u.id /\ u.change <= q.change
        OBVIOUS
      <4>2. PICK q \in Pending(rows) : q.id = u.id /\ u.change <= q.change
        BY <3>1, <4>1 DEF UnitPaced
      <4>3. CASE SameRow(q, p)
        BY <1>4, <1>5, <3>2, <4>2, <4>3 DEF SameRow
      <4>4. CASE ~SameRow(q, p)
        BY <1>5, <4>2, <4>4
      <4> QED
        BY <4>3, <4>4
    <3> QED
      BY <1>6, <2>1, <3>1, <3>3, <3>4 DEF UnitPaced, Arrived
  <2> QED
    BY <2>1, <2>2 DEF Paced, FlushPaced
<1>10. EditsKept'
  <2>1. ASSUME NEW i \in Ids, NEW n \in local[i], n \in acked'
        PROVE  n \in server[i] \/ \E r \in rows' : r.id = i /\ n \in CarriedBy(r)
    <3>1. CASE n \in acked
      <4>1. CASE \E r \in rows : r.id = i /\ n \in CarriedBy(r)
        <5>1. PICK r \in rows : r.id = i /\ n \in CarriedBy(r)
          BY <4>1
        <5>2. CASE SameRow(r, p)
          BY <1>2, <1>3, <5>1, <5>2 DEF SameRow
        <5>3. CASE ~SameRow(r, p)
          BY <1>3, <5>1, <5>3
        <5> QED
          BY <5>2, <5>3
      <4> QED
        BY <1>3, <3>1, <4>1 DEF Paced, EditsKept
    <3>2. CASE n \notin acked
      <4>1. n = p.change /\ n > 0
        BY <1>1, <1>4, <2>1, <3>2, ChangeIs
      <4>2. n \in ChangesOf(i)
        BY <4>1 DEF Paced, Past
      <4>3. p.id = i
        BY <1>4, <4>1, <4>2 DEF ChangesOf
      <4>4. p.kind # "remove"
        BY <1>4, <2>1, <4>3 DEF Paced, Past, Removed
      <4> QED
        BY <1>3, <1>4, <4>1, <4>3, <4>4 DEF Says
    <3> QED
      BY <3>1, <3>2
  <2> QED
    BY <2>1 DEF EditsKept
<1>11. ASSUME NEW a \in applied PROVE Recalled(a)'
  <2>1. Recalled(a) /\ a.change \in ChangesOf(a.id) /\ a.id \in Ids /\ a.change < p.change
        /\ a.change \in Nat
    BY <1>2, <1>7, SeenIs DEF Paced, SeenOf
  <2>2. ASSUME Trimmed(a) PROVE Trimmed(a)'
    <3>1. ~(p.id = a.id /\ p.kind = "add")
      <4>1. SUFFICES ASSUME p.id = a.id, p.kind = "add" PROVE FALSE
        OBVIOUS
      <4>2. Grows(p.change, a.change)
        BY <1>4, <2>1, <4>1 DEF Paced, Past
      <4>3. p.change <= a.change
        BY <1>4, <4>1, <4>2 DEF Grows
      <4> QED
        BY <1>4, <2>1, <4>3
    <3>2. \A r \in rows' : r.id = a.id /\ r.kind = "add" => r.dead
      BY <1>3, <2>2, <3>1 DEF Trimmed
    <3> QED
      BY <2>2, <3>2 DEF Trimmed, Units
  <2> QED
    BY <2>1, <2>2 DEF Recalled
<1> QED
  BY <1>8, <1>9, <1>10, <1>11

\* Rows of units that are not open any more leave the queue, or its pending part.
LEMMA ClearPaces ==
  ASSUME Typed, Paced, UNCHANGED <<local, issued, server, applied>>,
         NEW w, Clears(w), Pending(rows)' = {r \in Pending(rows) : \A y \in w.rows : ~SameRow(r, y)},
         Units' \subseteq Units, Open' \subseteq Open, flush'.now \cap flush'.todo = {},
         flush'.step = "settle" => flush' = flush
  PROVE  NeverBehind' /\ FlushPaced'
<1>1. Seen' = Seen /\ \A i : SeenOf(i)' = SeenOf(i)
  BY PastStays
<1>2. NeverBehind'
  <2>1. ASSUME NEW r \in Pending(rows)', NEW m \in SeenOf(r.id)
        PROVE  \E q \in Pending(rows)' : q.id = r.id /\ m <= q.change
    <3>1. r \in Pending(rows) /\ \A y \in w.rows : ~SameRow(r, y)
      OBVIOUS
    <3>2. PICK q \in Pending(rows) : q.id = r.id /\ m <= q.change
      BY <3>1 DEF Paced, NeverBehind
    <3>3. CASE \A y \in w.rows : ~SameRow(q, y)
      BY <3>2, <3>3
    <3>4. CASE \E y \in w.rows : SameRow(q, y)
      <4>1. PICK y \in w.rows : y.id = r.id
        BY <3>2, <3>4 DEF SameRow
      <4>2. m <= r.change
        BY <3>1, <4>1 DEF Clears
      <4> QED
        BY <4>2
    <3> QED
      BY <3>3, <3>4
  <2> QED
    BY <1>1, <2>1 DEF NeverBehind
<1>3. FlushPaced'
  <2>1. ASSUME NEW u \in Units' PROVE UnitPaced(u)'
    <3>1. UnitPaced(u)
      BY DEF Paced, FlushPaced
    <3>2. \A r \in Pending(rows)' : r.id = u.id => r \in u.rows \/ u.change < r.change
      BY <3>1 DEF UnitPaced
    <3>3. u \in Open' => \E q \in Pending(rows)' : q.id = u.id /\ u.change <= q.change
      <4>1. SUFFICES ASSUME u \in Open PROVE \E q \in Pending(rows)' : q.id = u.id /\ u.change <= q.change
        OBVIOUS
      <4>2. PICK q \in Pending(rows) : q.id = u.id /\ u.change <= q.change
        BY <3>1, <4>1 DEF UnitPaced
      <4>3. \A y \in w.rows : ~SameRow(q, y)
        BY <4>1, <4>2 DEF Clears, SameRow
      <4> QED
        BY <4>2, <4>3
    <3>4. flush'.step = "settle" /\ u \in flush'.now => flush.step = "settle" /\ u \in flush.now
      OBVIOUS
    <3> QED
      BY <1>1, <3>1, <3>2, <3>3, <3>4 DEF UnitPaced, Arrived
  <2> QED
    BY <2>1 DEF FlushPaced
<1> QED
  BY <1>2, <1>3

\* Rows that are only marked say what they said.
LEMMA MarkedStay ==
  ASSUME Typed, NEW w, Rewrites(w), rows' = Upsert(rows, w.rows)
  PROVE  \A r \in rows : \E x \in rows' : Alike(x, r)
<1>1. \A x \in w.rows : \E r \in rows : Alike(x, r)
  BY RewritesStamped DEF Alike
<1>2. ASSUME NEW r \in rows PROVE \E x \in rows' : Alike(x, r)
  <2>1. CASE \E y \in w.rows : SameRow(r, y)
    <3>1. PICK y \in w.rows : SameRow(r, y)
      BY <2>1
    <3>2. PICK q \in rows : Alike(y, q)
      BY <1>1
    <3>3. q = r
      BY <3>1, <3>2 DEF Typed, RowsOK, Keyed, SameRow, Alike
    <3> QED
      BY <3>2, <3>3 DEF Upsert
  <2>2. CASE \A y \in w.rows : ~SameRow(r, y)
    BY <2>2 DEF Upsert, DeleteById, Alike
  <2> QED
    BY <2>1, <2>2
<1> QED
  BY <1>2

LEMMA SettlePaces ==
  ASSUME Typed, Paced, UNCHANGED <<local, issued, acked, server, applied>>,
         NEW w, w.type # "put", WritePaced(w), Behind(w), WriteOK(w),
         w.type \in {"delete", "replace"},
         rows' = IF w.type = "delete" THEN DeleteById(rows, w.rows) ELSE Upsert(rows, w.rows),
         Units' \subseteq Units, Open' \subseteq Open, flush'.now \cap flush'.todo = {},
         flush'.step = "settle" => flush' = flush
  PROVE  NeverBehind' /\ FlushPaced' /\ EditsKept' /\ \A x \in rows' : x.dead \/ x \in rows
<1>1. Clears(w)
  BY DEF WritePaced
<1>2. CASE w.type = "delete"
  <2>1. rows' = {r \in rows : \A y \in w.rows : ~SameRow(r, y)}
    BY <1>2 DEF DeleteById
  <2>2. Pending(rows)' = {r \in Pending(rows) : \A y \in w.rows : ~SameRow(r, y)}
    BY <2>1 DEF Pending
  <2>3. w.rows \subseteq rows /\ \A x \in w.rows : Arrived(x)
    BY <1>2 DEF WritePaced, Behind, Deletes
  <2>4. ASSUME NEW i \in Ids, NEW n \in local[i] \cap acked, NEW r \in rows, r.id = i,
               n \in CarriedBy(r), n \notin server[i]
        PROVE  r \in rows'
    <3>1. \A y \in w.rows : SameRow(r, y) => r = y
      BY <2>3 DEF Typed, RowsOK, Keyed
    <3>2. r \notin w.rows
      BY <2>3, <2>4 DEF Arrived
    <3> QED
      BY <2>1, <3>1, <3>2
  <2>5. EditsKept'
    BY <2>4 DEF Paced, EditsKept
  <2> QED
    BY <1>1, <2>1, <2>2, <2>5, ClearPaces
<1>3. CASE w.type = "replace"
  <2>1. rows' = Upsert(rows, w.rows) /\ Rewrites(w)
    BY <1>3 DEF Behind
  <2>2. \A r \in rows : \E x \in rows' : Alike(x, r)
    BY <2>1, MarkedStay
  <2>3. EditsKept'
    BY <2>2 DEF Paced, EditsKept, Alike, CarriedBy
  <2>4. CASE \A x \in w.rows : x.dead
    <3>1. \A x \in rows' : x.dead \/ x \in rows
      BY <2>1, <2>4 DEF Upsert, DeleteById
    <3>2. Pending(rows)' = {r \in Pending(rows) : \A y \in w.rows : ~SameRow(r, y)}
      BY <2>1, <2>4 DEF Pending, Upsert, DeleteById
    <3> QED
      BY <1>1, <2>3, <3>1, <3>2, ClearPaces
  <2>5. CASE w.rows \subseteq rows
    <3>1. rows' = rows
      <4>1. \A r \in rows : \A y \in w.rows : SameRow(r, y) => r = y
        BY <2>5 DEF Typed, RowsOK, Keyed
      <4> QED
        BY <2>1, <2>5, <4>1 DEF Upsert, DeleteById
    <3>2. FlushPaced'
      BY <3>1, FlushStays DEF Paced
    <3>3. NeverBehind'
      BY <3>1, PastStays DEF Paced, NeverBehind
    <3> QED
      BY <2>3, <3>1, <3>2, <3>3
  <2> QED
    BY <1>3, <2>4, <2>5 DEF WritePaced
<1> QED
  BY <1>2, <1>3

LEMMA WritePaces ==
  ASSUME PacedQueue, Typed, Keeps, Paced, Write
  PROVE  Paced'
<1>1. PICK w \in WriteRec :
           /\ w = mutex[1] /\ 1 \in DOMAIN mutex /\ mutex # <<>> /\ mutex' = <<>>
           /\ InMutex = w.rows /\ InMutex' = {} /\ WriteOK(w) /\ Behind(w)
           /\ rows' = IF w.type = "delete" THEN DeleteById(rows, w.rows) ELSE Upsert(rows, w.rows)
           /\ acked' = acked \cup {s.change : s \in Owner(w)}
           /\ saves' = (saves \ Owner(w)) \cup
                (IF Direct THEN {[s EXCEPT !.step = "posting"] : s \in Owner(w)} ELSE {})
           /\ flush' \in (IF w.by = "flush" THEN FlushGoesOn ELSE {flush})
  BY WriteIs DEF Keeps
<1>2. UNCHANGED <<local, issued, server, applied, withheld>>
  BY DEF Write, remote
<1>3. WritePaced(w)
  BY <1>1 DEF Paced, MutexPaced
<1>4. saves' \subseteq saves /\ w.type \in {"put", "delete", "replace"}
  BY <1>1, PacedMode DEF WriteRec
<1>5. /\ Units' \subseteq Units /\ Open' \subseteq Open /\ flush'.now \cap flush'.todo = {}
      /\ flush'.step = "settle" => flush' = flush
  <2>1. CASE w.by = "flush"
    BY <1>1, <2>1, GoesOnPaced DEF Behind, Paced
  <2>2. CASE w.by # "flush"
    BY <1>1, <2>2 DEF Units, Open, Paced, FlushPaced
  <2> QED
    BY <2>1, <2>2
<1>6. AllRows' \subseteq AllRows
  <2>1. rows' \subseteq rows \cup w.rows
    BY <1>1 DEF DeleteById, Upsert
  <2> QED
    BY <1>1, <1>5, <2>1, UnitRowsShrink DEF AllRows
<1>7. NeverBehind' /\ FlushPaced' /\ EditsKept' /\ \A a \in applied : Recalled(a)'
  <2>1. CASE w.type = "put"
    <3>1. flush' = flush /\ rows' = Upsert(rows, w.rows) /\ w.rows \subseteq AllRows
      BY <1>1, <2>1 DEF Behind, AllRows
    <3>2. acked' \subseteq acked \cup {w.change}
      BY <1>1 DEF Owner
    <3> QED
      BY <1>1, <1>2, <1>3, <1>6, <2>1, <3>1, <3>2, PutPaces
  <2>2. CASE w.type # "put"
    <3>1. Owner(w) = {}
      BY <1>1, <2>2, OwnerIs
    <3>2. acked' = acked
      BY <1>1, <3>1
    <3>3. NeverBehind' /\ FlushPaced' /\ EditsKept' /\ \A x \in rows' : x.dead \/ x \in rows
      BY <1>1, <1>2, <1>3, <1>4, <1>5, <2>2, <3>2, SettlePaces
    <3>4. \A x \in AllRows' : \E r \in AllRows : Alike(x, r)
      BY <1>6 DEF Alike
    <3> QED
      BY <1>2, <1>5, <3>3, <3>4, StillRecalled DEF Paced
  <2> QED
    BY <2>1, <2>2
<1>8. RowsSay'
  BY <1>6, RowsStillSay DEF Paced, Alike
<1>9. MutexPaced' /\ SavesPaced'
  <2>1. DOMAIN mutex' = {}
    BY <1>1, EmptyMutex
  <2> QED
    BY <1>2, <1>4, <2>1, SavesStay DEF MutexPaced, Paced
<1>10. OpIdDescribesBytes'
  BY <1>2 DEF Paced, OpIdDescribesBytes
<1> QED
  BY <1>2, <1>7, <1>8, <1>9, <1>10, PastStays DEF Paced


LEMMA InitPaces == Init => Paced
<1> SUFFICES ASSUME Init PROVE Paced
  OBVIOUS
<1>1. /\ issued = <<>> /\ acked = {} /\ saves = {} /\ rows = {} /\ mutex = <<>> /\ flush = Idle
      /\ applied = {} /\ withheld = {}
  BY DEF Init
<1>2. DOMAIN mutex = {} /\ DOMAIN issued = {}
  BY <1>1, EmptySeq
<1>3. InMutex = {} /\ Units = {} /\ UnitRows = {} /\ AllRows = {} /\ flush.now = {}
  BY <1>1, <1>2 DEF InMutex, Units, UnitRows, AllRows, Idle
<1>4. Seen = {} /\ \A i : ChangesOf(i) = {} /\ SeenOf(i) = {} /\ ~Removed(i)
  BY <1>1, <1>2 DEF Seen, ChangesOf, SeenOf, Removed
<1>5. \A i \in Ids : local[i] \subseteq {0} /\ server[i] = local[i]
  BY DEF Init
<1>6. \A i \in Ids : Past(i) /\ ServerHas(i)
  BY <1>4, <1>5 DEF Past, ServerHas
<1>7. SavesPaced /\ RowsSay /\ MutexPaced
  BY <1>1, <1>2, <1>3 DEF SavesPaced, RowsSay, MutexPaced
<1>8. NeverBehind /\ FlushPaced
  BY <1>1, <1>3 DEF NeverBehind, Pending, FlushPaced
<1> QED
  BY <1>1, <1>6, <1>7, <1>8 DEF Paced, EditsKept, OpIdDescribesBytes

LEMMA StutterPaces ==
  ASSUME Paced, UNCHANGED vars
  PROVE  Paced'
<1>1. UNCHANGED <<local, issued, acked, saves, rows, mutex, flush, server, applied, withheld>>
  BY DEF vars, client, remote
<1>2. Units' = Units /\ Open' = Open /\ UnitRows' = UnitRows /\ InMutex' = InMutex
      /\ AllRows' = AllRows /\ Seen' = Seen
  BY <1>1 DEF Units, Open, UnitRows, InMutex, AllRows, Seen
<1>3. FlushPaced'
  BY <1>1, <1>2, FlushStays DEF Paced, FlushPaced
<1>4. SavesPaced'
  BY <1>1, SavesStay DEF Paced
<1>5. RowsSay' /\ \A a \in applied : Recalled(a)'
  <2>1. \A x \in AllRows' : \E r \in AllRows : Alike(x, r)
    BY <1>2 DEF Alike
  <2> QED
    BY <1>1, <1>2, <2>1, RowsStillSay, StillRecalled DEF Paced
<1>6. MutexPaced'
  <2>1. \A i : SeenOf(i)' = SeenOf(i)
    BY <1>1 DEF SeenOf, Seen, ChangesOf
  <2>2. ASSUME NEW w, WritePaced(w) PROVE WritePaced(w)'
    <3>1. PutPaced(w)' <=> PutPaced(w)
      BY <1>1, <1>2 DEF PutPaced
    <3>2. Clears(w)' <=> Clears(w)
      BY <1>1, <1>2, <2>1 DEF Clears
    <3> QED
      BY <1>1, <2>2, <3>1, <3>2 DEF WritePaced, Arrived
  <2> QED
    BY <1>1, <2>2 DEF Paced, MutexPaced
<1> QED
  BY <1>1, <1>3, <1>4, <1>5, <1>6, StoresStay DEF Paced

LEMMA NextPaces ==
  ASSUME PacedQueue, Typed, Keeps, Paced, [Next]_vars
  PROVE  Paced'
<1>1. CASE UNCHANGED vars
  BY <1>1, StutterPaces
<1>2. ASSUME NEW i \in Ids, NEW kind \in {"add", "update", "remove"}, Save(i, kind) PROVE Paced'
  BY <1>2, SavePaces DEF Kinds
<1>3. ASSUME NEW s \in saves, Record(s) \/ Dequeue(s) PROVE Paced'
  <2>1. s.step \in {"record", "recording"}
    BY DEF Paced, SavesPaced
  <2>2. ~Dequeue(s)
    BY <2>1 DEF Dequeue
  <2> QED
    BY <1>3, <2>2, RecordPaces
<1>4. Groups = {}
  <2>1. Posting = {}
    BY DEF Posting, Paced, SavesPaced
  <2> QED
    BY <2>1 DEF Groups
<1>5. CASE FlushRead \/ FlushSucceeds \/ FlushSettle \/ FlushFails
  BY <1>5, FlushReadPaces, FlushSucceedsPaces, FlushSettlePaces, FlushFailsPaces
<1>6. CASE FlushIsolates \/ FlushBuries
  BY <1>6, FlushIsolatesPaces, FlushBuriesPaces
<1>7. ~Revive
  BY PacedMode DEF Revive
<1>8. CASE Write \/ WriteFails \/ Crash
  BY <1>8, WritePaces, WriteFailsPaces, CrashPaces
<1> QED
  BY <1>1, <1>2, <1>3, <1>4, <1>5, <1>6, <1>7, <1>8 DEF Next

\* What is settled is the same on both sides.
LEMMA SettledIsEqual ==
  ASSUME Typed, Keeps, Paced
  PROVE  SettledMeansEqual
<1> SUFFICES ASSUME NEW i \in Ids, NothingQueued(i) PROVE server[i] = local[i]
  BY DEF SettledMeansEqual
<1>1. ChangesOf(i) \subseteq acked /\ \A r \in rows : r.id # i
  BY DEF NothingQueued, AllAcked
<1>2. Past(i) /\ ServerHas(i)
  BY DEF Paced
<1>3. CASE Removed(i)
  <2>1. PICK n \in ChangesOf(i) : issued[n].kind = "remove"
    BY <1>3 DEF Removed
  <2>2. n \in Nat /\ issued[n].id = i /\ n \in acked
    BY <1>1, ChangeIs
  <2>3. ASSUME NEW m \in DOMAIN issued, m > n, issued[m].id = issued[n].id PROVE FALSE
    <3>1. m \in ChangesOf(i)
      BY <2>2, <2>3 DEF ChangesOf
    <3>2. Grows(m, n) /\ m \in Nat
      BY <1>2, <3>1, ChangeIs DEF Past
    <3> QED
      BY <2>1, <2>2, <2>3, <3>2 DEF Grows
  <2>4. ASSUME NEW r \in rows, r.change = n PROVE FALSE
    <3>1. r.change \in ChangesOf(r.id)
      BY RowIs DEF AllRows
    <3> QED
      BY <1>1, <2>2, <2>4, <3>1 DEF ChangesOf
  <2>5. n \in SeenOf(i)
    BY <2>2, <2>3, <2>4 DEF Keeps, NewestIntentKept, SeenOf
  <2> QED
    BY <1>2, <1>3, <2>1, <2>5 DEF Past, ServerHas
<1>4. CASE ~Removed(i)
  <2>1. ASSUME NEW x \in local[i] PROVE x \in server[i]
    <3>1. CASE x = 0
      BY <1>2, <1>4, <2>1, <3>1 DEF ServerHas
    <3>2. CASE x \in ChangesOf(i)
      BY <1>1, <3>2 DEF Paced, EditsKept
    <3> QED
      BY <1>2, <3>1, <3>2 DEF Past
  <2> QED
    BY <1>2, <1>4, <2>1 DEF ServerHas
<1> QED
  BY <1>3, <1>4

LEMMA NextKeepsServer ==
  ASSUME PacedQueue, Typed, Paced, [Next]_vars
  PROVE  \A i \in Ids : server[i] \cap local[i] \subseteq server'[i]
<1>1. CASE FlushSucceeds
  BY <1>1, DeliverHolds DEF FlushSucceeds
<1>2. CASE FlushFails
  BY <1>2, DeliverHolds DEF FlushFails, WriteBack, remote
<1>3. CASE UNCHANGED server
  BY <1>3
<1>4. Groups = {}
  <2>1. Posting = {}
    BY DEF Posting, Paced, SavesPaced
  <2> QED
    BY <2>1 DEF Groups
<1>5. CASE UNCHANGED vars
  BY <1>3, <1>5 DEF vars, remote
<1>6. ASSUME NEW i \in Ids, NEW kind \in {"add", "update", "remove"}, Save(i, kind)
      PROVE UNCHANGED server
  BY <1>6 DEF Save, remote
<1>7. ASSUME NEW s \in saves, Record(s) \/ Dequeue(s) PROVE UNCHANGED server
  BY <1>7 DEF Record, Dequeue, remote
<1>8. FlushRead \/ FlushSettle \/ FlushIsolates \/ FlushBuries => UNCHANGED server
  BY DEF FlushRead, FlushSettle, FlushIsolates, FlushBuries, remote
<1>9. Revive \/ Write \/ WriteFails \/ Crash => UNCHANGED server
  BY DEF Revive, Write, WriteFails, Crash, remote
<1> QED
  BY <1>1, <1>2, <1>3, <1>4, <1>5, <1>6, <1>7, <1>8, <1>9 DEF Next

LEMMA PacedAlways ==
  ASSUME PacedQueue PROVE Spec => [](Typed /\ Keeps /\ Paced)
<1>1. Init => Typed /\ Keeps /\ Paced
  BY InitTyped, InitKeeps, InitPaces
<1>2. Typed /\ Keeps /\ Paced /\ [Next]_vars => (Typed /\ Keeps /\ Paced)'
  BY NextTyped, NextKeeps, NextPaces, PacedMode
<1> QED
  BY <1>1, <1>2, PTL DEF Spec

\* While the flush alone sends, and no added entity is added again, no acknowledged edit
\* is silently lost: what addMany merges into a queued row (UnsyncedQueue.ts), a flush
\* coalesces into one body, removeRows drops and the dead letters keep is always on the
\* server or still in a row (HttpSwrDbPlugin.ts, bulkPersist and flush).
THEOREM EditsStay == ASSUME PacedQueue PROVE Spec => []EditsKept
<1>1. Typed /\ Keeps /\ Paced => EditsKept
  BY DEF Paced
<1> QED
  BY <1>1, PacedAlways, PTL

\* In the same order of things, coalesceGroup never sends new bytes under an opId the
\* server has applied: what the server skips as a replay it already has (coalesceGroup
\* stamps the newest row's revision, UnsyncedQueue.ts; the flush sends it as the opId).
THEOREM OpIdsDescribeBytes == ASSUME PacedQueue PROVE Spec => []OpIdDescribesBytes
<1>1. Typed /\ Keeps /\ Paced => OpIdDescribesBytes
  BY DEF Paced
<1> QED
  BY <1>1, PacedAlways, PTL

\* In the same order of things, once an entity has no row in the queue and nothing in
\* flight, client and server hold the same of it: each row leaves through removeRows only
\* after the server has what the local store has (HttpSwrDbPlugin.ts, flush).
THEOREM SettledIsSame == ASSUME PacedQueue PROVE Spec => []SettledMeansEqual
<1>1. Typed /\ Keeps /\ Paced => SettledMeansEqual
  BY SettledIsEqual
<1> QED
  BY <1>1, PacedAlways, PTL

\* In the same order of things, no delivery of the flush, heard or unheard, replayed or
\* isolated, takes from the server an edit that the client still has (HttpSwrDbPlugin.ts,
\* flush and the bodies it posts).
THEOREM ServerKeepsEdits == ASSUME PacedQueue PROVE Spec => ServerNeverRegresses
<1>1. Typed /\ Keeps /\ Paced /\ [Next]_vars
        => \A i \in Ids : server[i] \cap local[i] \subseteq server'[i]
  BY NextKeepsServer
<1>2. [Next]_vars /\ Typed /\ Keeps /\ Paced
        => [\A i \in Ids : server[i] \cap local[i] \subseteq server'[i]]_vars
  BY <1>1
<1> QED
  BY <1>2, PacedAlways, PTL DEF Spec, ServerNeverRegresses

=============================================================================
