------------------------------ MODULE ViewsProofs ------------------------------
(***************************************************************************)
(* Proofs about Views and the live queries under them, for any rows,       *)
(* stores, subscriptions, filters and number of changes.                   *)
(*                                                                         *)
(* That a quiet subscriber shows what matches now says nothing while       *)
(* changes, messages and answers are under way.  Tracked does: as long as  *)
(* nothing made it stale, a subscriber has a query still to be read, or    *)
(* the newest answer it was shown or is to be shown says of every row what *)
(* the collection says, or else a change of that row is still to be heard  *)
(* that concerns it.  A message that does not concern it while an answer   *)
(* is out may concern that answer, and so makes it stale.  The message is  *)
(* not lost, as the channel counts who retains it.                         *)
(*                                                                         *)
(* A view carries that to its table: Kept says where what a history was    *)
(* handed is, Mirrored where the last answer of a mirror is; both need     *)
(* that a write in the chain is what its waiting view made of its table.   *)
(***************************************************************************)
EXTENDS Views, FiniteSetTheorems, SequenceTheorems, TLAPS

Notices == [from : Threads, id : Ids, match : BOOLEAN]
Letters == [m : Notices, sent : Nat, stamp : Int]
Results == [asOf : Int, rows : SUBSET Versions]
Executors ==
  [step : {"none", "new", "live", "gone"}, createdAt : Nat, asked : Seq(Results),
   shown : Results, stale : {"no", "raced", "lost"}]

In(x, q) == \E k \in DOMAIN q : q[k] = x

\* The collection, and the subscriptions, one of which was made.
RowsOK ==
  /\ rows \in [Ids -> Row]
  /\ changes \in 0..MaxChanges
  /\ \A i \in Ids : rows[i] # NoRow => rows[i].v \in 1..MaxChanges

LiveShapes ==
  /\ RowsOK
  /\ ticks \in Nat
  /\ landed \subseteq Notices
  /\ mail \in [Threads -> Seq(Letters)]
  /\ channel \in [exists : BOOLEAN, count : Int]
  /\ open \subseteq Stores
  /\ subs \in [Subs -> Executors]
  /\ Made # {}
  /\ \A s \in Subs : subs[s].createdAt <= ticks

\* The channel is retained by the open stores and the live subscriptions.
Retained ==
  /\ channel.count = Cardinality(open) + Cardinality(Live)
  /\ Live # {} => channel.exists

\* The clock ticks for a change announced and for a subscription made.
Begun == {s \in Subs : subs[s].step \in {"live", "gone"}}
Ticked ==
  /\ IsFiniteSet(landed)
  /\ ticks + Cardinality(landed) <= changes + Cardinality(Begun)

\* Answers of one moment are one answer, and one of now says what is so now.
Of(s, x) == x = subs[s].shown \/ In(x, subs[s].asked)
Dated(s) ==
  \A x, y : Of(s, x) /\ Of(s, y) =>
    /\ x.asOf \in -1..changes
    /\ x.asOf = -1 => x = Unread
    /\ x.asOf = changes => x = Answer(s)
    /\ x.asOf = y.asOf => x = y
    /\ s \notin Histories => \A r, q \in x.rows : r.id = q.id => r = q

\* Changes a subscriber is still to hear of.
Due(s, m) ==
  \/ m \in landed
  \/ \E t \in Threads : \E k \in DOMAIN mail[t] :
       mail[t][k].m = m /\ subs[s].createdAt <= mail[t][k].sent

Says(x, i, r) == r \in x.rows /\ r.id = i
Right(s, x, i) == \A r : Says(x, i, r) <=> Says(Answer(s), i, r)
WillConcern(s, x, i) ==
  \E m \in Notices :
    /\ Due(s, m) /\ m.id = i
    /\ s \notin Filtered \/ m.match \/ \E r : Says(x, i, r)

Newest(s, x) ==
  /\ Of(s, x)
  /\ \A y : Of(s, y) => y.asOf <= x.asOf

Tracked(s) ==
  s \in Live /\ subs[s].stale = "no" /\ ~In(Unread, subs[s].asked) =>
    \A x : Newest(s, x) => \A i \in Ids : Right(s, x, i) \/ WillConcern(s, x, i)

LiveInv ==
  /\ LiveShapes /\ Retained /\ Ticked
  /\ \A s \in Subs : Dated(s) /\ Tracked(s)

-----------------------------------------------------------------------------
(* Views.                                                                   *)

Tables == SUBSET Versions
Derivations ==
  [queued : Seq(Tables), step : {"idle", "reading", "writing"}, snapshot : Tables,
   table : Tables, gone : BOOLEAN, failed : BOOLEAN, handed : Tables, lost : Tables]
ChainWrites == [view : Subs, puts : Tables, removes : Tables, started : BOOLEAN]

OnePerKey(s, t) == \A r, q \in t : Key(s, r) = Key(s, q) => r = q

ViewOK(s, view) ==
  /\ view \in Derivations
  /\ OnePerKey(s, view.table) /\ OnePerKey(s, view.snapshot)
  /\ \A t : In(t, view.queued) => OnePerKey(s, t)
  /\ view.step = "idle" => view.queued = <<>> /\ view.snapshot = {}
  /\ view.gone => view.queued = <<>>

\* What is in the chain is what a view that waits for it made of its table.
ChainOK ==
  /\ chain \in Seq(ChainWrites)
  /\ \A k \in DOMAIN chain :
       /\ views[chain[k].view].step = "writing"
       /\ chain[k].puts = Puts(chain[k].view, views[chain[k].view])
       /\ chain[k].removes = Removes(chain[k].view, views[chain[k].view])
  /\ \A j, k \in DOMAIN chain : chain[j].view = chain[k].view => j = k

\* Every version that a history was handed is in its table, lost, or on its way there.
Kept(s, view) ==
  s \in Histories /\ ~view.gone =>
    \A r \in view.handed :
      \/ r \in view.table \/ r \in view.lost \/ r \in view.snapshot
      \/ \E t : In(t, view.queued) /\ r \in t

\* What a mirror was last shown is in its table or on its way there.
Mirrored(s, view, shown) ==
  s \notin Histories /\ ~view.gone =>
    \/ view.queued = <<shown>>
    \/ /\ view.queued = <<>>
       /\ \/ view.step # "idle" /\ view.snapshot = shown
          \/ view.step = "idle" /\ (~view.failed => view.table = shown)

\* The subscription of a view that is gone is gone, or was never made.
Over(s) == subs[s].step \notin {"live", "new"}

ViewsInv ==
  /\ views \in [Subs -> Derivations] /\ ChainOK
  /\ \A s \in Subs : /\ ViewOK(s, views[s])
                     /\ Kept(s, views[s])
                     /\ Mirrored(s, views[s], subs[s].shown.rows)
                     /\ views[s].gone => Over(s)

IInv == LiveInv /\ ViewsInv

-----------------------------------------------------------------------------
(* Sequences, and what the shapes say.                                      *)

\* One element is removed, the others stay.
LEMMA RemovedIn ==
  ASSUME NEW S, NEW q \in Seq(S), NEW k \in DOMAIN q
  PROVE  /\ RemoveAt(q, k) \in Seq(S)
         /\ \A x : In(x, RemoveAt(q, k)) => In(x, q)
         /\ \A x : In(x, q) /\ x # q[k] => In(x, RemoveAt(q, k))
<1> DEFINE L == Len(q)
           a == SubSeq(q, 1, k - 1)
           b == SubSeq(q, k + 1, L)
<1>1. L \in Nat /\ k \in 1..L /\ DOMAIN q = 1..L /\ \A j \in 1..L : q[j] \in S
  BY LenProperties
<1>2. /\ a \in Seq(S) /\ Len(a) = k - 1
      /\ \A j \in 1..(k - 1) : a[j] = q[j]
  BY <1>1, SubSeqProperties
<1>3. /\ b \in Seq(S) /\ Len(b) = L - k
      /\ \A j \in 1..(L - k) : b[j] = q[k + j]
  BY <1>1, SubSeqProperties
<1>4. RemoveAt(q, k) = a \o b
  BY DEF RemoveAt
<1> HIDE DEF a, b
<1>5. /\ a \o b \in Seq(S) /\ Len(a \o b) = Len(a) + Len(b)
      /\ \A j \in 1..(Len(a) + Len(b)) :
           (a \o b)[j] = IF j <= Len(a) THEN a[j] ELSE b[j - Len(a)]
  BY <1>2, <1>3, ConcatProperties
<1> DEFINE c == a \o b
<1>10. Len(c) = L - 1
  BY <1>1, <1>2, <1>3, <1>5
<1>11. ASSUME NEW j \in 1..(L - 1)
       PROVE  c[j] = q[IF j < k THEN j ELSE j + 1]
  <2>1. CASE j < k
    BY <1>1, <1>2, <1>3, <1>5, <2>1
  <2>2. CASE ~(j < k)
    <3>1. c[j] = b[j - (k - 1)]
      BY <1>1, <1>2, <1>3, <1>5, <2>2
    <3>2. j - (k - 1) \in 1..(L - k) /\ k + (j - (k - 1)) = j + 1
      BY <1>1, <2>2
    <3> QED
      BY <1>3, <2>2, <3>1, <3>2
  <2> QED
    BY <2>1, <2>2
<1>6. /\ c \in Seq(S) /\ Len(c) = L - 1
      /\ \A j \in 1..(L - 1) : c[j] = q[IF j < k THEN j ELSE j + 1]
  BY <1>5, <1>10, <1>11
<1> HIDE DEF c
<1>7. DOMAIN c = 1..(L - 1)
  BY <1>6, LenProperties
<1> HIDE DEF L
<1>8. ASSUME NEW x, In(x, c) PROVE In(x, q)
  BY SMTT(60), <1>1, <1>6, <1>7, <1>8 DEF In
<1>9. ASSUME NEW x, In(x, q), x # q[k] PROVE In(x, c)
  <2>1. PICK j \in 1..L : q[j] = x
    BY <1>1, <1>9 DEF In
  <2>2. j # k
    BY <1>9, <2>1
  <2>3. CASE j < k
    BY <1>1, <1>6, <1>7, <2>1, <2>3 DEF In
  <2>4. CASE j > k
    <3>1. j - 1 \in 1..(L - 1) /\ ~(j - 1 < k) /\ j - 1 + 1 = j
      BY <1>1, <2>1, <2>4
    <3> QED
      BY <1>6, <1>7, <2>1, <3>1 DEF In
  <2> QED
    BY <1>1, <2>1, <2>2, <2>3, <2>4
<1> QED
  BY <1>4, <1>6, <1>8, <1>9 DEF c

LEMMA AppendedIn ==
  ASSUME NEW S, NEW q \in Seq(S), NEW e \in S
  PROVE  /\ Append(q, e) \in Seq(S)
         /\ \A x : In(x, Append(q, e)) <=> In(x, q) \/ x = e
         /\ DOMAIN q \subseteq DOMAIN Append(q, e)
         /\ \A k \in DOMAIN q : Append(q, e)[k] = q[k]
         /\ Len(q) + 1 \in DOMAIN Append(q, e) /\ Append(q, e)[Len(q) + 1] = e
         /\ \A k \in DOMAIN Append(q, e) : k \in DOMAIN q \/ k = Len(q) + 1
<1> DEFINE p == Append(q, e)
<1>1. /\ p \in Seq(S) /\ Len(p) = Len(q) + 1
      /\ \A i \in 1..Len(q) : p[i] = q[i]
      /\ p[Len(q) + 1] = e
  BY AppendProperties
<1>2. Len(q) \in Nat /\ DOMAIN q = 1..Len(q) /\ DOMAIN p = 1..(Len(q) + 1)
  BY <1>1, LenProperties
<1> HIDE DEF p
<1>3. \A x : In(x, p) <=> In(x, q) \/ x = e
  BY <1>1, <1>2 DEF In
<1>4. /\ DOMAIN q \subseteq DOMAIN p /\ Len(q) + 1 \in DOMAIN p
      /\ \A k \in DOMAIN p : k \in DOMAIN q \/ k = Len(q) + 1
      /\ \A k \in DOMAIN q : p[k] = q[k]
  BY <1>1, <1>2
<1> QED
  BY <1>1, <1>3, <1>4 DEF p

LEMMA TailIn ==
  ASSUME NEW S, NEW q \in Seq(S), q # <<>>
  PROVE  /\ 1 \in DOMAIN q /\ Head(q) = q[1] /\ Head(q) \in S
         /\ Tail(q) \in Seq(S)
         /\ \A x : In(x, Tail(q)) => In(x, q)
         /\ \A x : In(x, q) => x = Head(q) \/ In(x, Tail(q))
         /\ \A k \in DOMAIN Tail(q) : k + 1 \in DOMAIN q /\ k + 1 # 1 /\ Tail(q)[k] = q[k + 1]
         /\ \A k \in DOMAIN q : k = 1 \/ (k - 1 \in DOMAIN Tail(q) /\ Tail(q)[k - 1] = q[k])
<1>1. /\ Head(q) \in S /\ Tail(q) \in Seq(S) /\ Len(Tail(q)) = Len(q) - 1
      /\ \A i \in 1..Len(Tail(q)) : Tail(q)[i] = q[i + 1]
  BY HeadTailProperties
<1>2. /\ Len(q) \in Nat \ {0} /\ DOMAIN q = 1..Len(q)
      /\ DOMAIN Tail(q) = 1..(Len(q) - 1)
  BY <1>1, EmptySeq, LenProperties
<1>3. Head(q) = q[1] /\ 1 \in DOMAIN q
  BY <1>2
<1>4. /\ \A k \in DOMAIN Tail(q) : k + 1 \in DOMAIN q /\ k + 1 # 1 /\ Tail(q)[k] = q[k + 1]
      /\ \A k \in DOMAIN q : k = 1 \/ (k - 1 \in DOMAIN Tail(q) /\ Tail(q)[k - 1] = q[k])
  BY <1>1, <1>2
<1> QED
  BY ZenonT(60), <1>1, <1>3, <1>4 DEF In

\* A number of changes times queries is at least the number of changes.
LEMMA ChangesBounded ==
  ASSUME LiveShapes, (changes + 1) * Cardinality(Made) <= MaxChanges
  PROVE  changes + 1 \in 1..MaxChanges
<1>1. IsFiniteSet(Made)
  <2>1. Made \in SUBSET Subs
    BY DEF Made
  <2> QED
    BY <2>1, LiveAssumption, FS_Subset
<1>2. Cardinality(Made) \in Nat /\ Cardinality(Made) # 0
  BY <1>1, FS_CardinalityType, FS_EmptySet DEF LiveShapes
<1>3. changes \in Nat /\ MaxChanges \in Nat
  BY LiveAssumption DEF LiveShapes, RowsOK
<1> DEFINE n == Cardinality(Made)
<1> HIDE DEF n
<1>4. ASSUME NEW a \in Nat, NEW b \in Nat, b # 0, NEW c \in Nat, a * b <= c
      PROVE  a <= c
  BY <1>4
<1>5. n \in Nat /\ n # 0 /\ (changes + 1) * n <= MaxChanges
  BY <1>2 DEF n
<1> QED
  BY <1>3, <1>4, <1>5

\* An answer is typed and has one row for each key of the collection.
LEMMA AnswerTyped ==
  ASSUME RowsOK, NEW s \in Subs
  PROVE  /\ Answer(s) \in Results /\ Answer(s).asOf = changes
         /\ \A r, q \in Answer(s).rows : r.id = q.id => r = q
         /\ \A i \in Ids : \A r : Says(Answer(s), i, r) <=>
              /\ r = [id |-> i, v |-> rows[i].v] /\ rows[i] # NoRow
              /\ s \in Filtered => rows[i].in
         /\ Answer(s) \in Result
<1>1. MaxChanges \in Nat
  BY LiveAssumption
<1>2. \A r : r \in Answer(s).rows <=>
        \E i \in Ids : /\ rows[i] # NoRow /\ (s \in Filtered => rows[i].in)
                       /\ r = [id |-> i, v |-> rows[i].v]
  BY DEF Answer
<1>3. Answer(s).rows \subseteq Versions
  BY <1>2 DEF Versions, RowsOK
<1>4. changes \in -1..MaxChanges /\ changes \in Int
  BY <1>1 DEF RowsOK
<1>5. Answer(s).asOf = changes /\ DOMAIN Answer(s) = {"asOf", "rows"}
  BY DEF Answer
<1>6. Answer(s) = [asOf |-> changes, rows |-> Answer(s).rows]
  BY DEF Answer
<1> QED
  BY <1>2, <1>3, <1>4, <1>5, <1>6 DEF Results, Result, Versions, Says

LEMMA SubFacts ==
  ASSUME LiveShapes, NEW s \in Subs
  PROVE  /\ subs[s] \in Executors
         /\ subs[s].asked \in Seq(Results) /\ subs[s].shown \in Results
         /\ subs[s].step \in {"none", "new", "live", "gone"}
         /\ subs[s].stale \in {"no", "raced", "lost"}
         /\ subs[s].createdAt \in Nat /\ subs[s].createdAt <= ticks
         /\ ticks \in Nat /\ changes \in Int
BY LiveAssumption DEF LiveShapes, Executors, RowsOK

LEMMA NoDates == Unread.asOf = -1 /\ Unread \in Results /\ Unread \in Result
BY LiveAssumption DEF Unread, Results, Result

-----------------------------------------------------------------------------
(* Changes.                                                                 *)

LEMMA ChangeKeeps ==
  ASSUME LiveInv, NEW t \in Threads, NEW i \in Ids, NEW row,
         row = NoRow \/ \E in \in BOOLEAN : row = [v |-> changes + 1, in |-> in],
         Change(t, i, row)
  PROVE  LiveInv'
<1>1. /\ changes + 1 \in 1..MaxChanges /\ MaxChanges \in Nat /\ changes \in Nat
      /\ changes' = changes + 1
  BY ChangesBounded, LiveAssumption DEF LiveInv, Change, LiveShapes, RowsOK
<1>2. UNCHANGED <<ticks, mail, channel, open, subs>>
  BY DEF Change
<1>3. row \in Row /\ (row # NoRow => row.v \in 1..MaxChanges /\ row.in \in BOOLEAN)
  <2>1. CASE row = NoRow
    BY <1>1, <2>1 DEF Row, NoRow
  <2>2. ASSUME NEW in \in BOOLEAN, row = [v |-> changes + 1, in |-> in] PROVE row \in Row
    BY <1>1, <2>2 DEF Row
  <2>3. ASSUME NEW in \in BOOLEAN, row = [v |-> changes + 1, in |-> in]
        PROVE  row.v \in 1..MaxChanges /\ row.in \in BOOLEAN
    BY <1>1, <2>3
  <2> QED
    BY <2>1, <2>2, <2>3
<1>4. /\ rows' = [rows EXCEPT ![i] = row] /\ rows \in [Ids -> Row]
      /\ \A j \in Ids : rows[j] # NoRow => rows[j].v \in 1..MaxChanges
      /\ rows[i] # row
  BY DEF Change, LiveInv, LiveShapes, RowsOK
<1>5. RowsOK'
  BY <1>1, <1>3, <1>4 DEF RowsOK
<1>0. PICK m0 : m0 = [from |-> t, id |-> i, match |-> Matches(i, row)]
  OBVIOUS
<1>6. m0 \in Notices
  <2>1. Matches(i, row) \in BOOLEAN
    BY <1>3, <1>4 DEF Matches, Row
  <2> QED
    BY <1>0, <2>1 DEF Notices
<1>7. landed' = landed \cup {m0} /\ landed \subseteq Notices
  BY <1>0 DEF Change, LiveInv, LiveShapes
<1>8. LiveShapes'
  BY <1>2, <1>5, <1>6, <1>7 DEF LiveInv, LiveShapes, Made
<1>9. Retained'
  BY <1>2 DEF LiveInv, Retained, Live
<1>10. Ticked'
  <2>1. /\ IsFiniteSet(landed) /\ Cardinality(landed) \in Nat
        /\ ticks + Cardinality(landed) <= changes + Cardinality(Begun)
    BY FS_CardinalityType DEF LiveInv, Ticked
  <2>2. /\ IsFiniteSet(landed') /\ Cardinality(landed') <= Cardinality(landed) + 1
        /\ Cardinality(landed') \in Nat
    <3>1. /\ IsFiniteSet(landed \cup {m0})
          /\ Cardinality(landed \cup {m0}) =
               IF m0 \in landed THEN Cardinality(landed) ELSE Cardinality(landed) + 1
      BY <2>1, FS_AddElement
    <3> QED
      BY <1>7, <2>1, <3>1
  <2>3. Begun' = Begun /\ IsFiniteSet(Begun)
    <3>1. Begun \in SUBSET Subs
      BY DEF Begun
    <3> QED
      BY <1>2, <3>1, LiveAssumption, FS_Subset DEF Begun
  <2>4. Cardinality(Begun) \in Nat /\ ticks \in Nat /\ ticks' = ticks
    BY <1>2, <2>3, FS_CardinalityType DEF LiveInv, LiveShapes
  <2> QED
    BY <1>1, <2>1, <2>2, <2>3, <2>4 DEF Ticked
<1>11. ASSUME NEW s \in Subs PROVE Dated(s)'
  <2>1. \A x : Of(s, x)' <=> Of(s, x)
    BY <1>2 DEF Of
  <2>2. Dated(s)
    BY DEF LiveInv
  <2> QED
    BY <1>1, <2>1, <2>2 DEF Dated
<1>12. ASSUME NEW s \in Subs PROVE Tracked(s)'
  <2>1. /\ \A x : Of(s, x)' <=> Of(s, x)
        /\ \A x : Newest(s, x)' <=> Newest(s, x)
    BY <1>2 DEF Newest, Of
  <2>2. \A m : Due(s, m) => Due(s, m)'
    BY <1>2, <1>7, Zenon DEF Due
  <2>3. Due(s, m0)'
    BY <1>7 DEF Due
  <2>4. /\ \A j \in Ids : \A r : Says(Answer(s), j, r) <=>
             /\ r = [id |-> j, v |-> rows[j].v] /\ rows[j] # NoRow
             /\ s \in Filtered => rows[j].in
    BY AnswerTyped DEF LiveInv, LiveShapes
  <2>5. \A j \in Ids : \A r : Says(Answer(s), j, r)' <=>
             /\ r = [id |-> j, v |-> rows'[j].v] /\ rows'[j] # NoRow
             /\ s \in Filtered => rows'[j].in
    BY DEF Says, Answer
  <2>6. SUFFICES ASSUME s \in Live, subs[s].stale = "no", ~In(Unread, subs[s].asked),
                        NEW x, Newest(s, x), NEW j \in Ids
                 PROVE  Right(s, x, j)' \/ WillConcern(s, x, j)'
    BY <1>2, <2>1 DEF Tracked, Live
  <2>7. Right(s, x, j) \/ WillConcern(s, x, j)
    BY <2>6 DEF LiveInv, Tracked
  <2>8. WillConcern(s, x, j) => WillConcern(s, x, j)'
    BY <2>2 DEF WillConcern, Says
  <2>9. CASE j # i
    <3>1. rows'[j] = rows[j]
      BY <1>4, <2>9
    <3>2. Right(s, x, j) => Right(s, x, j)'
      BY <2>4, <2>5, <3>1 DEF Right, Says
    <3> QED
      BY <2>7, <2>8, <3>2
  <2>10. CASE j = i
    <3>1. CASE s \notin Filtered \/ m0.match \/ \E r : Says(x, i, r)
      <4>1. m0.id = i
        BY <1>0
      <4> QED
        BY <1>6, <2>3, <2>10, <3>1, <4>1 DEF WillConcern, Says
    <3>2. CASE ~(s \notin Filtered \/ m0.match \/ \E r : Says(x, i, r))
      <4>1. rows'[i] = row /\ (row = NoRow \/ ~row.in)
        BY <1>0, <1>4, <3>2 DEF Matches
      <4>2. \A r : ~Says(Answer(s), i, r)'
        BY <2>5, <3>2, <4>1
      <4> QED
        BY <2>10, <3>2, <4>2 DEF Right, Says
    <3> QED
      BY <3>1, <3>2
  <2> QED
    BY <2>9, <2>10
<1> QED
  BY <1>8, <1>9, <1>10, <1>11, <1>12 DEF LiveInv

\* A subscriber whose answers stay as they are, in a collection that stays as it is,
\* keeps what is tracked of it as long as the changes due stay due.
LEMMA SameAnswers ==
  ASSUME NEW s \in Subs, Dated(s), Tracked(s),
         rows' = rows, changes' = changes,
         subs'[s].shown = subs[s].shown, subs'[s].asked = subs[s].asked,
         subs'[s].stale = subs[s].stale \/ subs'[s].stale # "no",
         s \in Live' => s \in Live,
         s \in Live' => \A m : Due(s, m) => Due(s, m)'
  PROVE  Dated(s)' /\ Tracked(s)'
<1>1. /\ \A x : Of(s, x)' <=> Of(s, x)
      /\ \A x : Newest(s, x)' <=> Newest(s, x)
  BY DEF Newest, Of
<1>2. Answer(s)' = Answer(s)
  BY DEF Answer
<1>3. Dated(s)'
  BY <1>1, <1>2 DEF Dated
<1>4. SUFFICES ASSUME s \in Live', subs'[s].stale = "no", ~In(Unread, subs'[s].asked),
                      NEW x, Newest(s, x), NEW i \in Ids
               PROVE  Right(s, x, i)' \/ WillConcern(s, x, i)'
  BY <1>1, <1>3 DEF Tracked
<1>5. Right(s, x, i) \/ WillConcern(s, x, i)
  BY <1>4 DEF Tracked
<1>6. Right(s, x, i) => Right(s, x, i)'
  BY <1>2 DEF Right, Says
<1>7. WillConcern(s, x, i) => WillConcern(s, x, i)'
  BY <1>4 DEF WillConcern, Says
<1> QED
  BY <1>5, <1>6, <1>7

LEMMA CountedLive ==
  LiveShapes => /\ IsFiniteSet(open) /\ Cardinality(open) \in Nat
                /\ IsFiniteSet(Live) /\ Cardinality(Live) \in Nat
                /\ IsFiniteSet(Begun) /\ Cardinality(Begun) \in Nat
<1> SUFFICES ASSUME LiveShapes
             PROVE  /\ IsFiniteSet(open) /\ Cardinality(open) \in Nat
                    /\ IsFiniteSet(Live) /\ Cardinality(Live) \in Nat
                    /\ IsFiniteSet(Begun) /\ Cardinality(Begun) \in Nat
  OBVIOUS
<1>1. open \in SUBSET Stores /\ Live \in SUBSET Subs /\ Begun \in SUBSET Subs
  BY DEF LiveShapes, Live, Begun
<1> QED
  BY <1>1, LiveAssumption, FS_Subset, FS_CardinalityType

LEMMA CountedLiveNext ==
  LiveShapes' => (/\ IsFiniteSet(open) /\ Cardinality(open) \in Nat
                  /\ IsFiniteSet(Live) /\ Cardinality(Live) \in Nat
                  /\ IsFiniteSet(Begun) /\ Cardinality(Begun) \in Nat)'
BY CountedLive, PTL

\* A change that leaves landed for the mail, or for nobody's.
LEMMA LandedLeaves ==
  ASSUME LiveInv, NEW m \in landed, landed' = landed \ {m}
  PROVE  /\ m \in Notices
         /\ IsFiniteSet(landed')
         /\ Cardinality(landed) \in Nat
         /\ Cardinality(landed') = Cardinality(landed) - 1
BY FS_RemoveElement, FS_CardinalityType DEF LiveInv, LiveShapes, Ticked

LEMMA AnnounceKeeps ==
  ASSUME LiveInv, NEW m \in landed, Announce(m)
  PROVE  LiveInv'
<1>1. UNCHANGED <<rows, changes, open, subs>> /\ landed' = landed \ {m} /\ ticks' = ticks + 1
  BY DEF Announce
<1>2. /\ m \in Notices /\ IsFiniteSet(landed') /\ Cardinality(landed) \in Nat
      /\ Cardinality(landed') = Cardinality(landed) - 1
  BY <1>1, LandedLeaves
<1>3. ticks \in Nat /\ m.from \in Threads
  BY <1>2 DEF LiveInv, LiveShapes, Notices
<1>4. PICK stamp \in Int :
        mail' = IF m.from = "here" \/ channel.exists
                  THEN [mail EXCEPT ![m.from] = Append(@, [m |-> m, sent |-> ticks',
                                                           stamp |-> stamp])]
                  ELSE mail
  <2>1. ticks' \in Int /\ ticks' - Behind \in Int
    BY <1>1, <1>3, LiveAssumption
  <2> QED
    BY <2>1 DEF Announce
<1>5. PICK letter : letter = [m |-> m, sent |-> ticks + 1, stamp |-> stamp]
  OBVIOUS
<1>6. letter \in Letters /\ letter.m = m /\ letter.sent = ticks + 1
  BY <1>2, <1>3, <1>5 DEF Letters
<1>7. /\ Append(mail[m.from], letter) \in Seq(Letters)
      /\ Len(mail[m.from]) + 1 \in DOMAIN Append(mail[m.from], letter)
      /\ Append(mail[m.from], letter)[Len(mail[m.from]) + 1] = letter
      /\ DOMAIN mail[m.from] \subseteq DOMAIN Append(mail[m.from], letter)
      /\ \A k \in DOMAIN mail[m.from] : Append(mail[m.from], letter)[k] = mail[m.from][k]
  <2>1. mail[m.from] \in Seq(Letters)
    BY <1>3 DEF LiveInv, LiveShapes
  <2> QED
    BY <1>6, <2>1, AppendedIn
<1>8. mail' = IF m.from = "here" \/ channel.exists
                THEN [mail EXCEPT ![m.from] = Append(mail[m.from], letter)] ELSE mail
  BY <1>1, <1>4, <1>5
<1>9. mail' \in [Threads -> Seq(Letters)]
  BY <1>7, <1>8 DEF LiveInv, LiveShapes
<1>10. /\ channel' \in [exists : BOOLEAN, count : Int] /\ channel'.count = channel.count
       /\ channel.exists => channel'.exists
  <2>1. channel \in [exists : BOOLEAN, count : Int]
    BY DEF LiveInv, LiveShapes
  <2>2. channel' = IF m.from = "here" THEN [channel EXCEPT !.exists = TRUE] ELSE channel
    BY DEF Announce
  <2> QED
    BY <2>1, <2>2
<1>11. LiveShapes'
  <2>1. \A s \in Subs : subs'[s].createdAt <= ticks'
    BY <1>1, SubFacts DEF LiveInv
  <2> QED
    BY <1>1, <1>3, <1>9, <1>10, <2>1 DEF LiveInv, LiveShapes, RowsOK, Made
<1>12. Retained'
  BY <1>1, <1>10 DEF LiveInv, Retained, Live
<1>13. Ticked'
  <2>1. Begun' = Begun /\ Cardinality(Begun) \in Nat
    BY <1>1, CountedLive DEF LiveInv, Begun
  <2>2. ticks + Cardinality(landed) <= changes + Cardinality(Begun) /\ changes \in Int
    BY DEF LiveInv, Ticked, LiveShapes, RowsOK
  <2> QED
    BY <1>1, <1>2, <1>3, <2>1, <2>2 DEF Ticked
<1>14. ASSUME NEW s \in Subs PROVE Dated(s)' /\ Tracked(s)'
  <2>1. ASSUME s \in Live, NEW n, Due(s, n) PROVE Due(s, n)'
    <3>1. channel.exists
      BY <2>1 DEF LiveInv, Retained
    <3>2. mail' = [mail EXCEPT ![m.from] = Append(mail[m.from], letter)]
      BY <1>8, <3>1
    <3>3. mail \in [Threads -> Seq(Letters)] /\ subs'[s] = subs[s]
      BY <1>1 DEF LiveInv, LiveShapes
    <3>4. CASE n \in landed /\ n # m
      BY <1>1, <3>4 DEF Due
    <3>5. CASE n = m
      <4>1. subs[s].createdAt <= ticks + 1
        BY <1>3, SubFacts DEF LiveInv
      <4>2. /\ Len(mail[m.from]) + 1 \in DOMAIN mail'[m.from]
            /\ mail'[m.from][Len(mail[m.from]) + 1] = letter
        BY <1>3, <1>7, <3>2, <3>3
      <4> QED
        BY <1>3, <1>6, <3>3, <3>5, <4>1, <4>2 DEF Due
    <3>6. ASSUME NEW t \in Threads, NEW k \in DOMAIN mail[t],
                 mail[t][k].m = n, subs[s].createdAt <= mail[t][k].sent
          PROVE  Due(s, n)'
      <4>1. k \in DOMAIN mail'[t] /\ mail'[t][k] = mail[t][k]
        BY <1>7, <3>2, <3>3
      <4> QED
        BY <3>3, <3>6, <4>1 DEF Due
    <3> QED
      BY <2>1, <3>4, <3>5, <3>6 DEF Due
  <2>2. s \in Live' <=> s \in Live
    BY <1>1 DEF Live
  <2>3. Dated(s) /\ Tracked(s) /\ subs' = subs
    BY <1>1 DEF LiveInv
  <2> QED
    BY <1>1, <2>1, <2>2, <2>3, SameAnswers
<1> QED
  BY <1>11, <1>12, <1>13, <1>14 DEF LiveInv

LEMMA WithholdKeeps ==
  ASSUME LiveInv, NEW m \in landed, Withhold(m)
  PROVE  LiveInv'
<1>1. /\ UNCHANGED <<rows, changes, ticks, mail, channel, open>> /\ landed' = landed \ {m}
      /\ subs' = [s \in Subs |-> [subs[s] EXCEPT !.stale = "lost"]]
  BY DEF Withhold
<1>2. /\ IsFiniteSet(landed') /\ Cardinality(landed) \in Nat
      /\ Cardinality(landed') = Cardinality(landed) - 1
  BY <1>1, LandedLeaves
<1>3. ASSUME NEW s \in Subs
      PROVE  /\ subs'[s] \in Executors /\ subs'[s].stale = "lost"
             /\ subs'[s].step = subs[s].step /\ subs'[s].createdAt = subs[s].createdAt
             /\ subs'[s].shown = subs[s].shown /\ subs'[s].asked = subs[s].asked
  <2>1. subs[s] \in Executors
    BY SubFacts DEF LiveInv
  <2>2. subs'[s] = [subs[s] EXCEPT !.stale = "lost"]
    BY <1>1
  <2> HIDE DEF Executors
  <2>3. [subs[s] EXCEPT !.stale = "lost"] \in Executors
    BY <2>1 DEF Executors
  <2> QED
    BY <2>1, <2>2, <2>3 DEF Executors
<1>4. Made' = Made /\ Live' = Live /\ Begun' = Begun
  BY <1>3 DEF Made, Live, Begun
<1>5. LiveShapes'
  <2>1. subs' \in [Subs -> Executors]
    BY <1>1, <1>3
  <2> QED
    BY <1>1, <1>3, <1>4, <2>1 DEF LiveInv, LiveShapes, RowsOK
<1>6. Retained'
  BY <1>1, <1>4 DEF LiveInv, Retained
<1>7. Ticked'
  <2>1. Cardinality(Begun) \in Nat
    BY CountedLive DEF LiveInv
  <2>2. ticks + Cardinality(landed) <= changes + Cardinality(Begun) /\ changes \in Int
        /\ ticks \in Nat
    BY DEF LiveInv, Ticked, LiveShapes, RowsOK
  <2> QED
    BY <1>1, <1>2, <1>4, <2>1, <2>2 DEF Ticked
<1>8. ASSUME NEW s \in Subs PROVE Dated(s)' /\ Tracked(s)'
  <2>1. Tracked(s)'
    BY <1>3 DEF Tracked
  <2>2. \A x : Of(s, x)' <=> Of(s, x)
    BY <1>3 DEF Of
  <2>3. Dated(s)'
    <3>1. Answer(s)' = Answer(s)
      BY <1>1 DEF Answer
    <3> QED
      BY <1>1, <2>2, <3>1 DEF LiveInv, Dated
  <2> QED
    BY <2>1, <2>3
<1> QED
  BY <1>5, <1>6, <1>7, <1>8 DEF LiveInv

-----------------------------------------------------------------------------
(* Subscriptions begin and end.                                             *)

LEMMA SubscribeKeeps ==
  ASSUME LiveInv, NEW s \in Subs, Subscribe(s)
  PROVE  LiveInv'
<1> DEFINE q == [subs[s] EXCEPT !.step = "live", !.createdAt = ticks + 1, !.asked = <<Unread>>]
<1>1. /\ UNCHANGED <<rows, changes, landed, mail, open>>
      /\ ticks' = ticks + 1
      /\ subs[s].step = "new"
      /\ channel' = [exists |-> TRUE, count |-> channel.count + 1]
      /\ subs' = [subs EXCEPT ![s] = q]
  BY DEF Subscribe
<1>2. subs \in [Subs -> Executors] /\ subs[s] \in Executors /\ ticks \in Nat
      /\ changes \in Int
  BY SubFacts DEF LiveInv, LiveShapes
<1>3. /\ q \in Executors /\ q.step = "live" /\ q.createdAt = ticks + 1
      /\ q.asked = <<Unread>> /\ q.shown = subs[s].shown
  <2>1. <<Unread>> \in Seq(Results)
    BY NoDates
  <2>2. PICK asked : asked = <<Unread>>
    OBVIOUS
  <2>3. q = [subs[s] EXCEPT !.step = "live", !.createdAt = ticks + 1, !.asked = asked]
    BY <2>2
  <2> HIDE DEF q
  <2>4. asked \in Seq(Results) /\ ticks + 1 \in Nat
    BY <1>2, <2>1, <2>2
  <2> QED
    BY <1>2, <2>2, <2>3, <2>4 DEF Executors
<1> HIDE DEF q
<1>4. /\ subs'[s] = q /\ \A z \in Subs \ {s} : subs'[z] = subs[z]
      /\ subs' \in [Subs -> Executors]
  BY <1>1, <1>2, <1>3
<1>5. Live' = Live \cup {s} /\ s \notin Live /\ Begun' = Begun \cup {s} /\ s \notin Begun
  BY <1>1, <1>3, <1>4 DEF Live, Begun
<1>6. LiveShapes'
  <2>1. Made' = Made
    BY <1>1, <1>3, <1>4 DEF Made
  <2>2. channel' \in [exists : BOOLEAN, count : Int]
    BY <1>1 DEF LiveInv, LiveShapes
  <2>3. \A z \in Subs : subs'[z].createdAt <= ticks'
    <3>1. \A z \in Subs : subs[z].createdAt \in Nat /\ subs[z].createdAt <= ticks
      BY SubFacts DEF LiveInv
    <3> QED
      BY <1>1, <1>2, <1>3, <1>4, <3>1
  <2> QED
    BY <1>1, <1>2, <1>4, <2>1, <2>2, <2>3 DEF LiveInv, LiveShapes, RowsOK
<1>7. /\ IsFiniteSet(Live) /\ Cardinality(Live') = Cardinality(Live) + 1
      /\ Cardinality(Begun') = Cardinality(Begun) + 1
      /\ Cardinality(Live) \in Nat /\ Cardinality(Begun) \in Nat /\ Cardinality(open) \in Nat
  BY <1>5, CountedLive, FS_AddElement DEF LiveInv
<1>8. Retained'
  BY <1>1, <1>7 DEF LiveInv, Retained
<1>9. Ticked'
  <2>1. /\ ticks + Cardinality(landed) <= changes + Cardinality(Begun)
        /\ Cardinality(landed) \in Nat
    BY FS_CardinalityType DEF LiveInv, Ticked
  <2>2. IsFiniteSet(landed')
    BY <1>1 DEF LiveInv, Ticked
  <2> QED
    BY <1>1, <1>2, <1>7, <2>1, <2>2 DEF Ticked
<1>10. ASSUME NEW z \in Subs \ {s} PROVE Dated(z)' /\ Tracked(z)'
  <2>1. /\ subs'[z] = subs[z] /\ Dated(z) /\ Tracked(z)
        /\ (z \in Live' <=> z \in Live) /\ \A m : Due(z, m) => Due(z, m)'
    <3>1. subs'[z] = subs[z]
      BY <1>4
    <3> QED
      BY <1>1, <3>1 DEF LiveInv, Live, Due
  <2> QED
    BY <1>1, <2>1, SameAnswers
<1>11. Dated(s)'
  <2>1. \A x : Of(s, x)' <=> x = subs[s].shown \/ x = Unread
    <3>1. \A x : In(x, <<Unread>>) <=> x = Unread
      BY DEF In
    <3> QED
      BY <1>3, <1>4, <3>1 DEF Of
  <2>2. Answer(s)' = Answer(s) /\ Answer(s).asOf = changes
    BY <1>1 DEF Answer
  <2>3. Dated(s) /\ Of(s, subs[s].shown)
    BY DEF LiveInv, Of
  <2>4. changes \in Nat /\ Unread.asOf = -1 /\ Unread.rows = {}
    BY DEF LiveInv, LiveShapes, RowsOK, Unread
  <2> HIDE DEF Unread
  <2> QED
    BY <1>1, <2>1, <2>2, <2>3, <2>4 DEF Dated
<1>12. Tracked(s)'
  <2>1. In(Unread, subs'[s].asked)
    BY <1>3, <1>4 DEF In
  <2> QED
    BY <2>1 DEF Tracked
<1> QED
  BY <1>6, <1>8, <1>9, <1>10, <1>11, <1>12 DEF LiveInv

\* The subscriptions in gone end, and with others of the stores their hold of the
\* channel.
LEMMA DisposeKeeps ==
  ASSUME LiveInv, NEW gone \in SUBSET Made, NEW others \in Nat, Dispose(gone, others),
         UNCHANGED <<rows, changes, ticks, landed>>,
         open' \subseteq open, Cardinality(open') = Cardinality(open) - others
  PROVE  LiveInv'
<1>1. /\ subs' = [s \in Subs |-> IF s \in gone THEN [subs[s] EXCEPT !.step = "gone"] ELSE subs[s]]
      /\ Release(Cardinality(gone \cap Live) + others)
  BY DEF Dispose
<1>2. ASSUME NEW s \in Subs
      PROVE  /\ subs'[s] \in Executors
             /\ subs'[s].step = IF s \in gone THEN "gone" ELSE subs[s].step
             /\ subs'[s].stale = subs[s].stale /\ subs'[s].createdAt = subs[s].createdAt
             /\ subs'[s].shown = subs[s].shown /\ subs'[s].asked = subs[s].asked
  <2>1. subs[s] \in Executors
    BY SubFacts DEF LiveInv
  <2>2. subs'[s] = IF s \in gone THEN [subs[s] EXCEPT !.step = "gone"] ELSE subs[s]
    BY <1>1
  <2> QED
    BY <2>1, <2>2 DEF Executors
<1>3. /\ Live' = Live \ gone /\ Begun \subseteq Begun' /\ Made' = Made
      /\ Live \ (gone \cap Live) = Live \ gone
  BY <1>2 DEF Live, Begun, Made
<1>4. LiveShapes'
  <2>1. subs' \in [Subs -> Executors]
    BY <1>1, <1>2
  <2>2. /\ mail' \in [Threads -> Seq(Letters)]
        /\ channel' \in [exists : BOOLEAN, count : Int]
    <3>1. Cardinality(gone \cap Live) \in Nat
      <4>1. gone \cap Live \in SUBSET Subs
        BY DEF Live
      <4> QED
        BY <4>1, LiveAssumption, FS_Subset, FS_CardinalityType
    <3>2. \A T \in BOOLEAN : [t \in Threads |-> <<>>] \in [Threads -> Seq(Letters)]
      OBVIOUS
    <3>3. channel \in [exists : BOOLEAN, count : Int] /\ mail \in [Threads -> Seq(Letters)]
      BY DEF LiveInv, LiveShapes
    <3>4. PICK n \in Nat : n = Cardinality(gone \cap Live) + others
      BY <3>1
    <3>5. Release(n)
      BY <1>1, <3>4
    <3> QED
      BY <3>2, <3>3, <3>4, <3>5 DEF Release
  <2> QED
    BY <1>2, <1>3, <2>1, <2>2 DEF LiveInv, LiveShapes, RowsOK
<1>5. /\ Cardinality(gone \cap Live) \in Nat
      /\ Cardinality(Live') = Cardinality(Live) - Cardinality(gone \cap Live)
  <2>1. gone \cap Live \in SUBSET Live /\ Live \ gone \in SUBSET Live
    OBVIOUS
  <2>2. /\ IsFiniteSet(gone \cap Live) /\ Cardinality(gone \cap Live) \in Nat
        /\ IsFiniteSet(Live \ gone) /\ Cardinality(Live \ gone) \in Nat
    BY <2>1, CountedLive, FS_Subset, FS_CardinalityType DEF LiveInv
  <2>3. Cardinality((gone \cap Live) \cup (Live \ gone)) =
          Cardinality(gone \cap Live) + Cardinality(Live \ gone)
          - Cardinality((gone \cap Live) \cap (Live \ gone))
    BY <2>2, FS_Union
  <2>4. /\ (gone \cap Live) \cup (Live \ gone) = Live
        /\ (gone \cap Live) \cap (Live \ gone) = {}
    OBVIOUS
  <2>5. Cardinality({}) = 0
    BY FS_EmptySet
  <2> QED
    BY <1>3, <2>2, <2>3, <2>4, <2>5
<1>6. /\ Cardinality(open) \in Nat /\ Cardinality(Live) \in Nat /\ Cardinality(Live') \in Nat
      /\ Cardinality(open') \in Nat /\ IsFiniteSet(Live')
      /\ IsFiniteSet(Begun') /\ Cardinality(Begun) \in Nat /\ Cardinality(Begun') \in Nat
  BY <1>4, CountedLive, CountedLiveNext DEF LiveInv
<1>7. /\ channel'.count = Cardinality(open') + Cardinality(Live')
      /\ Live' # {} => channel'.exists /\ mail' = mail
  <2>1. channel.count = Cardinality(open) + Cardinality(Live) /\ (Live # {} => channel.exists)
    BY DEF LiveInv, Retained
  <2>2. PICK n \in Nat : n = Cardinality(gone \cap Live) + others
    BY <1>5
  <2>3. /\ channel'.count = channel.count - n
        /\ ~(n > 0 /\ channel.count - n <= 0) => (channel.exists => channel'.exists) /\ mail' = mail
    <3>1. Release(n)
      BY <1>1, <2>2
    <3>2. /\ channel' = [exists |-> channel.exists /\ ~(n > 0 /\ channel.count - n <= 0),
                         count |-> channel.count - n]
          /\ mail' = IF n > 0 /\ channel.count - n <= 0
                       THEN [t \in Threads |-> <<>>] ELSE mail
      BY <3>1 DEF Release
    <3>3. channel'.count = channel.count - n
      BY <3>2
    <3>4. ASSUME ~(n > 0 /\ channel.count - n <= 0)
          PROVE  (channel.exists => channel'.exists) /\ mail' = mail
      <4>5. PICK b : b = (channel.exists /\ ~(n > 0 /\ channel.count - n <= 0))
        OBVIOUS
      <4>6. channel' = [exists |-> b, count |-> channel.count - n]
        BY <3>2, <4>5, Zenon
      <4>2. channel'.exists = (channel.exists /\ ~(n > 0 /\ channel.count - n <= 0))
        <5>1. channel'.exists = b
          BY <4>6
        <5> QED
          BY <4>5, <5>1, Zenon
      <4>3. channel.exists => channel'.exists
        BY <3>4, <4>2, Zenon
      <4>4. mail' = mail
        BY <3>2, <3>4, Zenon
      <4> QED
        BY <4>3, <4>4
    <3> QED
      BY <3>3, <3>4
  <2>4. channel'.count = Cardinality(open') + Cardinality(Live')
    BY <1>5, <1>6, <2>1, <2>2, <2>3
  <2>5. Live' # {} => Cardinality(Live') # 0
    BY <1>6, FS_EmptySet
  <2>6. Live' # {} => Live # {}
    BY <1>3
  <2>7. Live' # {} => ~(channel.count - n <= 0)
    BY <1>6, <2>3, <2>4, <2>5
  <2> QED
    BY <2>1, <2>3, <2>4, <2>6, <2>7
<1>8. Retained'
  BY <1>7 DEF Retained
<1>9. Ticked'
  <2>1. Cardinality(Begun) <= Cardinality(Begun')
    BY <1>3, <1>6, FS_Subset
  <2>2. /\ ticks + Cardinality(landed) <= changes + Cardinality(Begun) /\ changes \in Int
        /\ ticks \in Nat /\ IsFiniteSet(landed) /\ Cardinality(landed) \in Nat
    BY FS_CardinalityType DEF LiveInv, Ticked, LiveShapes, RowsOK
  <2> QED
    BY <1>6, <2>1, <2>2 DEF Ticked
<1>10. ASSUME NEW s \in Subs PROVE Dated(s)' /\ Tracked(s)'
  <2>1. s \in Live' => s \in Live /\ mail' = mail
    BY <1>3, <1>7
  <2>2. s \in Live' => \A m : Due(s, m) => Due(s, m)'
    BY <1>2, <2>1 DEF Due
  <2>3. Dated(s) /\ Tracked(s)
    BY DEF LiveInv
  <2> QED
    BY <1>2, <2>1, <2>2, <2>3, SameAnswers
<1> QED
  BY <1>4, <1>8, <1>9, <1>10 DEF LiveInv

LEMMA UnsubscribeKeeps ==
  ASSUME LiveInv, NEW s \in Subs, Unsubscribe(s)
  PROVE  LiveInv'
<1>1. {s} \in SUBSET Made
  BY DEF Unsubscribe, Made
<1>2. Dispose({s}, 0) /\ UNCHANGED <<rows, changes, ticks, landed, open>>
  BY DEF Unsubscribe
<1>3. Cardinality(open') = Cardinality(open) - 0
  BY <1>2, CountedLive DEF LiveInv
<1> QED
  BY <1>1, <1>2, <1>3, DisposeKeeps

LEMMA DisposeStoreKeeps ==
  ASSUME LiveInv, NEW st \in Stores, DisposeStore(st)
  PROVE  LiveInv'
<1> DEFINE gone == {s \in Made : Home[s] = st}
<1>1. gone \in SUBSET Made /\ Dispose(gone, 1) /\ UNCHANGED <<rows, changes, ticks, landed>>
  BY DEF DisposeStore
<1>2. open' \subseteq open /\ Cardinality(open') = Cardinality(open) - 1
  BY CountedLive, FS_RemoveElement DEF LiveInv, DisposeStore
<1> HIDE DEF gone
<1> QED
  BY <1>1, <1>2, DisposeKeeps

-----------------------------------------------------------------------------
(* Messages are heard.                                                      *)

LEMMA ToldShape ==
  ASSUME LiveShapes, NEW s \in Subs, NEW letter \in Letters
  PROVE  /\ Told(s, letter) \in Executors
         /\ Told(s, letter).step = subs[s].step
         /\ Told(s, letter).createdAt = subs[s].createdAt
         /\ Told(s, letter).shown = subs[s].shown
         /\ \/ Told(s, letter).asked = subs[s].asked
            \/ Told(s, letter).asked = Append(subs[s].asked, Unread)
         /\ Told(s, letter).stale = "no" => subs[s].stale = "no"
<1>1. subs[s] \in Executors /\ subs[s].asked \in Seq(Results)
  BY SubFacts
<1>2. PICK more : more = Append(subs[s].asked, Unread)
  OBVIOUS
<1>3. more \in Seq(Results)
  BY <1>1, <1>2, NoDates, AppendProperties
<1> DEFINE lost == [subs[s] EXCEPT !.stale = "lost"]
           longer == [subs[s] EXCEPT !.asked = more]
           raced == Raced(subs[s])
<1>4. /\ lost \in Executors /\ lost.step = subs[s].step /\ lost.createdAt = subs[s].createdAt
      /\ lost.shown = subs[s].shown /\ lost.asked = subs[s].asked /\ lost.stale = "lost"
  BY <1>1 DEF Executors
<1>5. /\ longer \in Executors /\ longer.step = subs[s].step
      /\ longer.createdAt = subs[s].createdAt
      /\ longer.shown = subs[s].shown /\ longer.asked = more /\ longer.stale = subs[s].stale
  BY <1>1, <1>3 DEF Executors
<1>6. /\ raced \in Executors /\ raced.step = subs[s].step
      /\ raced.createdAt = subs[s].createdAt
      /\ raced.shown = subs[s].shown /\ raced.asked = subs[s].asked /\ raced.stale # "no"
  BY <1>1 DEF Executors, Raced
<1>7. Told(s, letter) \in {subs[s], lost, longer, raced}
  BY <1>2 DEF Told
<1> HIDE DEF lost, longer, raced
<1> QED
  BY <1>1, <1>2, <1>4, <1>5, <1>6, <1>7

LEMMA ToldUnlessTracked ==
  ASSUME LiveShapes, NEW s \in Subs, NEW letter \in Letters,
         Told(s, letter).stale = "no", ~In(Unread, Told(s, letter).asked)
  PROVE  /\ Told(s, letter).asked = subs[s].asked
         /\ \/ letter.sent < subs[s].createdAt
            \/ subs[s].asked = <<>> /\ ~Concerns(s, letter.m)
<1>1. subs[s] \in Executors /\ subs[s].asked \in Seq(Results) /\ subs[s].createdAt \in Nat
  BY SubFacts
<1>2. Told(s, letter).asked = subs[s].asked
  <2>1. In(Unread, Append(subs[s].asked, Unread))
    BY <1>1, NoDates, AppendedIn
  <2> QED
    BY <2>1, ToldShape
<1>3. letter.sent \in Nat /\ letter.stamp \in Int
  BY DEF Letters
<1>4. Told(s, letter) # [subs[s] EXCEPT !.stale = "lost"]
  BY <1>1 DEF Executors
<1>5. Told(s, letter) # Raced(subs[s])
  BY <1>1 DEF Executors, Raced
<1>6. Told(s, letter) # [subs[s] EXCEPT !.asked = Append(@, Unread)]
  <2>1. PICK more : more = Append(subs[s].asked, Unread)
    OBVIOUS
  <2>2. In(Unread, more)
    BY <1>1, <2>1, NoDates, AppendedIn
  <2>3. [subs[s] EXCEPT !.asked = more].asked = more
    BY <1>1 DEF Executors
  <2> QED
    BY <2>1, <2>2, <2>3
<1>7. CASE letter.stamp < subs[s].createdAt
  <2>1. letter.sent < subs[s].createdAt \/ letter.sent >= subs[s].createdAt
    BY <1>1, <1>3
  <2> QED
    BY <1>2, <1>4, <1>7, <2>1 DEF Told
<1>8. CASE ~(letter.stamp < subs[s].createdAt)
  <2>1. ~Concerns(s, letter.m)
    BY <1>6, <1>8 DEF Told
  <2>2. subs[s].asked = <<>>
    BY <1>5, <1>8, <2>1 DEF Told
  <2> QED
    BY <1>2, <2>1, <2>2
<1> QED
  BY <1>7, <1>8

LEMMA HearKeeps ==
  ASSUME LiveInv, NEW t \in Threads, Hear(t)
  PROVE  LiveInv'
<1>1. UNCHANGED <<rows, changes, ticks, landed, channel, open>> /\ mail[t] # <<>>
  BY DEF Hear
<1>2. mail \in [Threads -> Seq(Letters)] /\ mail[t] \in Seq(Letters)
  BY DEF LiveInv, LiveShapes
<1>3. PICK letter : letter = Head(mail[t])
  OBVIOUS
<1>4. /\ 1 \in DOMAIN mail[t] /\ letter = mail[t][1] /\ letter \in Letters
      /\ Tail(mail[t]) \in Seq(Letters)
      /\ \A k \in DOMAIN mail[t] :
           k = 1 \/ (k - 1 \in DOMAIN Tail(mail[t]) /\ Tail(mail[t])[k - 1] = mail[t][k])
  BY <1>1, <1>2, <1>3, TailIn
<1>5. mail' = [mail EXCEPT ![t] = Tail(mail[t])]
      /\ subs' = [s \in Subs |-> IF s \in Live THEN Told(s, letter) ELSE subs[s]]
  BY <1>3 DEF Hear
<1>6. mail' \in [Threads -> Seq(Letters)]
  BY <1>2, <1>4, <1>5
<1>7. ASSUME NEW s \in Subs
      PROVE  /\ subs'[s] \in Executors /\ subs'[s].step = subs[s].step
             /\ subs'[s].createdAt = subs[s].createdAt /\ subs'[s].shown = subs[s].shown
             /\ \/ subs'[s].asked = subs[s].asked
                \/ subs'[s].asked = Append(subs[s].asked, Unread)
             /\ s \in Live => subs'[s] = Told(s, letter)
  BY <1>4, <1>5, SubFacts, ToldShape DEF LiveInv
<1>8. Made' = Made /\ Live' = Live /\ Begun' = Begun
  BY <1>7 DEF Made, Live, Begun
<1>9. LiveShapes'
  <2>1. subs' \in [Subs -> Executors]
    BY <1>5, <1>7
  <2> QED
    BY <1>1, <1>6, <1>7, <1>8, <2>1 DEF LiveInv, LiveShapes, RowsOK
<1>10. Retained' /\ Ticked'
  BY <1>1, <1>8 DEF LiveInv, Retained, Ticked
<1>11. \A s : Answer(s)' = Answer(s)
  BY <1>1 DEF Answer
<1>12. ASSUME NEW s \in Subs PROVE Dated(s)'
  <2>1. \A x : Of(s, x)' => Of(s, x) \/ x = Unread
    <3>1. \A x : In(x, Append(subs[s].asked, Unread)) => In(x, subs[s].asked) \/ x = Unread
      BY SubFacts, NoDates, AppendedIn DEF LiveInv
    <3> QED
      BY <1>7, <3>1 DEF Of
  <2>2. Dated(s) /\ Of(s, subs[s].shown)
    BY DEF LiveInv, Of
  <2>3. changes \in Nat /\ Unread.asOf = -1 /\ Unread.rows = {}
    BY DEF LiveInv, LiveShapes, RowsOK, Unread
  <2> HIDE DEF Unread
  <2> QED
    BY <1>1, <1>11, <2>1, <2>2, <2>3 DEF Dated
<1>13. ASSUME NEW s \in Subs PROVE Tracked(s)'
  <2> SUFFICES ASSUME s \in Live', subs'[s].stale = "no", ~In(Unread, subs'[s].asked),
                      NEW x, Newest(s, x)', NEW i \in Ids
               PROVE  Right(s, x, i)' \/ WillConcern(s, x, i)'
    BY DEF Tracked
  <2>1. s \in Live /\ subs'[s] = Told(s, letter)
    BY <1>7, <1>8
  <2>2. /\ subs'[s].asked = subs[s].asked
        /\ letter.sent < subs[s].createdAt \/ (subs[s].asked = <<>> /\ ~Concerns(s, letter.m))
    BY <1>4, <2>1, ToldUnlessTracked DEF LiveInv
  <2>3. subs[s].stale = "no"
    BY <1>4, <2>1, ToldShape DEF LiveInv
  <2>4. /\ \A y : Of(s, y)' <=> Of(s, y)
        /\ Newest(s, x)
    <3>1. \A y : Of(s, y)' <=> Of(s, y)
      BY <1>7, <2>2 DEF Of
    <3> QED
      BY <3>1 DEF Newest
  <2>5. Right(s, x, i) \/ WillConcern(s, x, i)
    BY <2>1, <2>2, <2>3, <2>4 DEF LiveInv, Tracked
  <2>6. Right(s, x, i) => Right(s, x, i)'
    BY <1>11 DEF Right, Says
  <2>7. ASSUME NEW m \in Notices, Due(s, m), m.id = i,
               s \notin Filtered \/ m.match \/ \E r : Says(x, i, r)
        PROVE  Due(s, m)'
    <3>1. CASE m \in landed
      BY <1>1, <3>1 DEF Due
    <3>2. ASSUME NEW u \in Threads, NEW k \in DOMAIN mail[u],
                 mail[u][k].m = m, subs[s].createdAt <= mail[u][k].sent
          PROVE  Due(s, m)'
      <4>1. CASE u # t
        <5>1. mail'[u] = mail[u]
          BY <1>2, <1>5, <4>1
        <5> QED
          BY <1>7, <3>2, <5>1 DEF Due
      <4>2. CASE u = t /\ k # 1
        <5>1. k - 1 \in DOMAIN mail'[t] /\ mail'[t][k - 1] = mail[t][k]
          BY <1>2, <1>4, <1>5, <4>2
        <5> QED
          BY <1>7, <3>2, <4>2, <5>1 DEF Due
      <4>3. CASE u = t /\ k = 1
        <5>1. letter.m = m /\ subs[s].createdAt <= letter.sent
          BY <1>4, <3>2, <4>3
        <5>2. ~(letter.sent < subs[s].createdAt)
          BY <1>4, <5>1, SubFacts DEF LiveInv, Letters
        <5>3. subs[s].asked = <<>> /\ ~Concerns(s, m)
          BY <2>2, <5>1, <5>2
        <5>4. x = subs[s].shown
          BY <2>4, <5>3 DEF Newest, Of, In
        <5>5. Concerns(s, m)
          BY <2>7, <5>4 DEF Concerns, Says
        <5> QED
          BY <5>3, <5>5
      <4> QED
        BY <4>1, <4>2, <4>3
    <3> QED
      BY <2>7, <3>1, <3>2 DEF Due
  <2>8. WillConcern(s, x, i) => WillConcern(s, x, i)'
    BY <2>7 DEF WillConcern, Says
  <2> QED
    BY <2>5, <2>6, <2>8
<1> QED
  BY <1>9, <1>10, <1>12, <1>13 DEF LiveInv

-----------------------------------------------------------------------------
(* Queries are read and answered.                                           *)

\* A step that changes one subscription, and neither its life nor anything else.
LEMMA OneSubChanges ==
  ASSUME LiveInv, NEW s \in Subs, NEW q \in Executors,
         q.step = subs[s].step, q.createdAt = subs[s].createdAt,
         subs' = [subs EXCEPT ![s] = q],
         UNCHANGED <<rows, changes, ticks, landed, mail, channel, open>>
  PROVE  /\ LiveShapes' /\ Retained' /\ Ticked'
         /\ subs'[s] = q
         /\ \A z \in Subs \ {s} : Dated(z)' /\ Tracked(z)'
         /\ s \in Live' <=> s \in Live
         /\ \A z : Answer(z)' = Answer(z)
         /\ \A m : Due(s, m)' <=> Due(s, m)
<1>1. subs \in [Subs -> Executors]
  BY DEF LiveInv, LiveShapes
<1>2. subs'[s] = q /\ \A z \in Subs \ {s} : subs'[z] = subs[z]
  BY <1>1
<1>3. Made' = Made /\ Live' = Live /\ Begun' = Begun
  BY <1>2 DEF Made, Live, Begun
<1>4. LiveShapes'
  BY <1>1, <1>2, <1>3 DEF LiveInv, LiveShapes, RowsOK
<1>5. Retained' /\ Ticked'
  BY <1>3 DEF LiveInv, Retained, Ticked
<1>6. ASSUME NEW z \in Subs \ {s} PROVE Dated(z)' /\ Tracked(z)'
  <2>1. subs'[z] = subs[z] /\ Dated(z) /\ Tracked(z)
        /\ (z \in Live' <=> z \in Live) /\ \A m : Due(z, m) => Due(z, m)'
    <3>1. subs'[z] = subs[z]
      BY <1>2
    <3> QED
      BY <1>3, <3>1 DEF LiveInv, Due
  <2> QED
    BY <2>1, SameAnswers
<1>7. \A z : Answer(z)' = Answer(z)
  BY DEF Answer
<1>8. \A m : Due(s, m)' <=> Due(s, m)
  BY <1>2 DEF Due
<1> QED
  BY <1>2, <1>3, <1>4, <1>5, <1>6, <1>7, <1>8

LEMMA ReadKeeps ==
  ASSUME LiveInv, NEW s \in Subs, NEW k, Read(s, k)
  PROVE  LiveInv'
<1>1. /\ UNCHANGED <<rows, changes, ticks, landed, mail, channel, open>>
      /\ k \in DOMAIN subs[s].asked
      /\ subs' = [subs EXCEPT ![s].asked[k] = Answer(s)]
  BY DEF Read
<1>2. PICK answer : answer = Answer(s)
  OBVIOUS
<1>3. PICK asked : asked = [subs[s].asked EXCEPT ![k] = answer]
  OBVIOUS
<1>4. /\ subs[s] \in Executors /\ subs[s].asked \in Seq(Results)
      /\ answer \in Results /\ answer.asOf = changes /\ changes \in Nat
      /\ \A r, q \in answer.rows : r.id = q.id => r = q
  <2>1. changes \in Nat
    BY DEF LiveInv, LiveShapes, RowsOK
  <2> QED
    BY <1>2, <2>1, SubFacts, AnswerTyped DEF LiveInv, LiveShapes
<1>5. /\ asked \in Seq(Results)
      /\ \A x : In(x, asked) => In(x, subs[s].asked) \/ x = answer
      /\ In(answer, asked)
  <2>1. /\ k \in 1..Len(subs[s].asked) /\ DOMAIN subs[s].asked = 1..Len(subs[s].asked)
    BY <1>1, <1>4, LenProperties
  <2>2. /\ asked \in Seq(Results) /\ Len(asked) = Len(subs[s].asked)
        /\ \A j \in 1..Len(subs[s].asked) :
             asked[j] = IF j = k THEN answer ELSE subs[s].asked[j]
    BY <1>3, <1>4, <2>1, ExceptSeq
  <2>3. DOMAIN asked = 1..Len(subs[s].asked)
    BY <2>2, LenProperties
  <2> QED
    BY <2>1, <2>2, <2>3 DEF In
<1> DEFINE q == [subs[s] EXCEPT !.asked = asked]
<1>6. /\ q \in Executors /\ q.step = subs[s].step /\ q.createdAt = subs[s].createdAt
      /\ q.shown = subs[s].shown /\ q.asked = asked /\ q.stale = subs[s].stale
  BY <1>4, <1>5 DEF Executors
<1>7. subs' = [subs EXCEPT ![s] = q]
  BY <1>1, <1>2, <1>3
<1> HIDE DEF q
<1>8. /\ LiveShapes' /\ Retained' /\ Ticked' /\ subs'[s] = q
      /\ \A z \in Subs \ {s} : Dated(z)' /\ Tracked(z)'
      /\ Answer(s)' = Answer(s)
  BY <1>1, <1>6, <1>7, OneSubChanges
<1>9. /\ \A x : Of(s, x)' => Of(s, x) \/ x = answer
      /\ Of(s, answer)'
  BY <1>5, <1>6, <1>8 DEF Of
<1>10. Dated(s) /\ Of(s, subs[s].shown)
  BY DEF LiveInv, Of
<1>11. Dated(s)'
  BY <1>1, <1>2, <1>4, <1>8, <1>9, <1>10 DEF Dated
<1>12. Tracked(s)'
  <2> SUFFICES ASSUME NEW x, Newest(s, x)', NEW i \in Ids
               PROVE  Right(s, x, i)'
    BY DEF Tracked
  <2>1. answer.asOf <= x.asOf /\ Of(s, x)'
    BY <1>9 DEF Newest
  <2>2. x.asOf \in -1..changes /\ (x.asOf = changes => x = answer)
    BY <1>1, <1>2, <1>8, <1>9, <1>11, <2>1 DEF Dated
  <2>3. x = answer
    BY <1>4, <2>1, <2>2
  <2> QED
    BY <1>2, <1>8, <2>3 DEF Right, Says
<1> QED
  BY <1>8, <1>11, <1>12 DEF LiveInv

LEMMA FailKeeps ==
  ASSUME LiveInv, NEW s \in Subs, NEW k, Fail(s, k)
  PROVE  LiveInv'
<1>1. /\ UNCHANGED <<rows, changes, ticks, landed, mail, channel, open>>
      /\ k \in DOMAIN subs[s].asked
      /\ subs' = [subs EXCEPT ![s].asked = RemoveAt(@, k), ![s].stale = "lost"]
  BY DEF Fail
<1>2. subs[s] \in Executors /\ subs[s].asked \in Seq(Results) /\ subs \in [Subs -> Executors]
  BY SubFacts DEF LiveInv, LiveShapes
<1>3. PICK asked : asked = RemoveAt(subs[s].asked, k)
  OBVIOUS
<1>4. asked \in Seq(Results) /\ \A x : In(x, asked) => In(x, subs[s].asked)
  BY <1>1, <1>2, <1>3, RemovedIn
<1> DEFINE q == [subs[s] EXCEPT !.asked = asked, !.stale = "lost"]
<1>5. /\ q \in Executors /\ q.step = subs[s].step /\ q.createdAt = subs[s].createdAt
      /\ q.shown = subs[s].shown /\ q.asked = asked /\ q.stale = "lost"
  BY <1>2, <1>4 DEF Executors
<1>6. subs' = [subs EXCEPT ![s] = q]
  BY <1>1, <1>2, <1>3
<1> HIDE DEF q
<1>7. /\ LiveShapes' /\ Retained' /\ Ticked' /\ subs'[s] = q
      /\ \A z \in Subs \ {s} : Dated(z)' /\ Tracked(z)'
      /\ Answer(s)' = Answer(s)
  BY <1>1, <1>5, <1>6, OneSubChanges
<1>8. \A x : Of(s, x)' => Of(s, x)
  BY <1>4, <1>5, <1>7 DEF Of
<1>9. Dated(s)'
  BY <1>1, <1>7, <1>8 DEF LiveInv, Dated
<1>10. Tracked(s)'
  BY <1>5, <1>7 DEF Tracked
<1> QED
  BY <1>7, <1>9, <1>10 DEF LiveInv

LEMMA DeliverKeeps ==
  ASSUME LiveInv, NEW s \in Subs, NEW k, Deliver(s, k)
  PROVE  LiveInv' /\ subs'[s].shown = subs[s].asked[k]
<1>1. /\ UNCHANGED <<rows, changes, ticks, landed, mail, channel, open>>
      /\ k \in DOMAIN subs[s].asked /\ subs[s].asked[k] # Unread
  BY DEF Deliver
<1>2. subs[s] \in Executors /\ subs[s].asked \in Seq(Results) /\ subs \in [Subs -> Executors]
  BY SubFacts DEF LiveInv, LiveShapes
<1>3. PICK asked : asked = RemoveAt(subs[s].asked, k)
  OBVIOUS
<1>4. /\ asked \in Seq(Results) /\ \A x : In(x, asked) => In(x, subs[s].asked)
      /\ \A x : In(x, subs[s].asked) /\ x # subs[s].asked[k] => In(x, asked)
  BY <1>1, <1>2, <1>3, RemovedIn
<1>5. PICK answer : answer = subs[s].asked[k]
  OBVIOUS
<1>6. answer \in Results /\ In(answer, subs[s].asked) /\ answer # Unread
  BY <1>1, <1>2, <1>5 DEF In
<1> DEFINE sub == [subs[s] EXCEPT !.asked = asked, !.shown = answer]
           q == IF answer.asOf = changes THEN [sub EXCEPT !.stale = "no"]
                ELSE IF answer.asOf < subs[s].shown.asOf THEN Raced(sub) ELSE sub
<1>7. subs' = [subs EXCEPT ![s] = q]
  BY <1>3, <1>5 DEF Deliver
<1>8. /\ sub \in Executors /\ sub.step = subs[s].step /\ sub.createdAt = subs[s].createdAt
      /\ sub.shown = answer /\ sub.asked = asked /\ sub.stale = subs[s].stale
  BY <1>2, <1>4, <1>6 DEF Executors
<1> HIDE DEF sub
<1>9. /\ q \in Executors /\ q.step = subs[s].step /\ q.createdAt = subs[s].createdAt
      /\ q.shown = answer /\ q.asked = asked
      /\ q.stale = "no" => \/ answer.asOf = changes
                           \/ ~(answer.asOf < subs[s].shown.asOf) /\ subs[s].stale = "no"
  BY <1>8 DEF Executors, Raced
<1> HIDE DEF q
<1>10. /\ LiveShapes' /\ Retained' /\ Ticked' /\ subs'[s] = q
       /\ \A z \in Subs \ {s} : Dated(z)' /\ Tracked(z)'
       /\ Answer(s)' = Answer(s)
       /\ s \in Live' <=> s \in Live
       /\ \A m : Due(s, m)' <=> Due(s, m)
  BY <1>1, <1>7, <1>9, OneSubChanges
<1>11. /\ \A x : Of(s, x)' => Of(s, x)
       /\ \A x : Of(s, x) => x = subs[s].shown \/ Of(s, x)'
       /\ Of(s, answer) /\ Of(s, answer)' /\ Of(s, subs[s].shown)
  BY <1>4, <1>5, <1>6, <1>9, <1>10 DEF Of
<1>12. Dated(s)
  BY DEF LiveInv
<1>13. Dated(s)'
  BY <1>1, <1>10, <1>11, <1>12 DEF Dated
<1>14. Tracked(s)'
  <2> SUFFICES ASSUME s \in Live', subs'[s].stale = "no", ~In(Unread, subs'[s].asked),
                      NEW x, Newest(s, x)', NEW i \in Ids
               PROVE  Right(s, x, i)' \/ WillConcern(s, x, i)'
    BY DEF Tracked
  <2>1. /\ Of(s, x)' /\ answer.asOf <= x.asOf /\ \A y : Of(s, y)' => y.asOf <= x.asOf
    BY <1>11 DEF Newest
  <2>2. \A y : Of(s, y) => y.asOf \in -1..changes
    BY <1>12 DEF Dated
  <2>3. changes \in Nat
    BY DEF LiveInv, LiveShapes, RowsOK
  <2>4. CASE answer.asOf = changes
    <3>1. x.asOf = changes
      BY <1>11, <2>1, <2>2, <2>3, <2>4
    <3>2. x = Answer(s)
      BY <1>11, <1>12, <2>1, <3>1 DEF Dated
    <3> QED
      BY <1>10, <3>2 DEF Right, Says
  <2>5. CASE ~(answer.asOf < subs[s].shown.asOf) /\ subs[s].stale = "no"
    <3>1. Newest(s, x)
      <4>1. subs[s].shown.asOf <= x.asOf
        BY <1>11, <2>1, <2>2, <2>3, <2>5
      <4> QED
        BY <1>11, <2>1, <4>1 DEF Newest
    <3>2. ~In(Unread, subs[s].asked)
      BY <1>1, <1>4, <1>9, <1>10
    <3>3. Right(s, x, i) \/ WillConcern(s, x, i)
      BY <1>10, <2>5, <3>1, <3>2 DEF LiveInv, Tracked
    <3>4. Right(s, x, i) => Right(s, x, i)'
      BY <1>10 DEF Right, Says
    <3>5. WillConcern(s, x, i) => WillConcern(s, x, i)'
      BY <1>10 DEF WillConcern, Says
    <3> QED
      BY <3>3, <3>4, <3>5
  <2> QED
    BY <1>9, <1>10, <2>4, <2>5
<1> QED
  BY <1>5, <1>9, <1>10, <1>13, <1>14 DEF LiveInv

-----------------------------------------------------------------------------
(* The live queries.                                                        *)

LEMMA LiveStart == LiveInit => LiveInv
<1> SUFFICES ASSUME LiveInit PROVE LiveInv
  OBVIOUS
<1>1. /\ rows = [i \in Ids |-> NoRow] /\ changes = 0 /\ ticks = 0 /\ landed = {}
      /\ mail = [t \in Threads |-> <<>>]
      /\ channel = [exists |-> TRUE, count |-> Cardinality(Stores)]
      /\ open = Stores
  BY DEF LiveInit
<1>2. PICK made \in (SUBSET Subs) \ {{}} :
        subs = [s \in Subs |-> [step |-> IF s \in made THEN "new" ELSE "none", createdAt |-> 0,
                                asked |-> <<>>, shown |-> Unread, stale |-> "no"]]
  BY DEF LiveInit
<1>3. ASSUME NEW s \in Subs
      PROVE  /\ subs[s] \in Executors /\ subs[s].step = IF s \in made THEN "new" ELSE "none"
             /\ subs[s].createdAt = 0 /\ subs[s].shown = Unread /\ subs[s].asked = <<>>
  <2>1. <<>> \in Seq(Results)
    OBVIOUS
  <2> HIDE DEF Unread
  <2> QED
    BY <1>2, <2>1, NoDates DEF Executors
<1>4. Live = {} /\ Begun = {} /\ Made # {}
  BY <1>2, <1>3 DEF Live, Begun, Made
<1>5. LiveShapes
  <2>1. MaxChanges \in Nat
    BY LiveAssumption
  <2>2. RowsOK
    BY <1>1, <2>1 DEF RowsOK, Row, NoRow
  <2>3. subs \in [Subs -> Executors]
    BY <1>2, <1>3
  <2>4. channel \in [exists : BOOLEAN, count : Int]
    BY <1>1, LiveAssumption, FS_CardinalityType
  <2>5. mail \in [Threads -> Seq(Letters)]
    BY <1>1
  <2> QED
    BY <1>1, <1>3, <1>4, <2>2, <2>3, <2>4, <2>5 DEF LiveShapes
<1>6. Retained
  BY <1>1, <1>4, LiveAssumption, FS_CardinalityType, FS_EmptySet DEF Retained
<1>7. Ticked
  BY <1>1, <1>4, FS_EmptySet DEF Ticked
<1>8. ASSUME NEW s \in Subs PROVE Dated(s) /\ Tracked(s)
  <2>1. \A x : Of(s, x) <=> x = Unread
    BY <1>3 DEF Of, In
  <2>2. Unread.asOf = -1 /\ Unread.rows = {}
    BY DEF Unread
  <2>3. Dated(s)
    <3> HIDE DEF Unread
    <3> QED
      BY <1>1, <2>1, <2>2 DEF Dated
  <2>4. Tracked(s)
    BY <1>4 DEF Tracked
  <2> QED
    BY <2>3, <2>4
<1> QED
  BY <1>5, <1>6, <1>7, <1>8 DEF LiveInv

LEMMA LiveStill == LiveInv /\ UNCHANGED liveVars => LiveInv'
<1> SUFFICES ASSUME LiveInv, UNCHANGED liveVars PROVE LiveInv'
  OBVIOUS
<1>1. UNCHANGED <<rows, changes, ticks, landed, mail, channel, open, subs>>
  BY DEF liveVars
<1>2. LiveShapes' /\ Retained' /\ Ticked'
  BY <1>1 DEF LiveInv, LiveShapes, Retained, Ticked, RowsOK, Made, Live, Begun
<1>3. ASSUME NEW s \in Subs PROVE Dated(s)' /\ Tracked(s)'
  <2>1. /\ Dated(s) /\ Tracked(s) /\ (s \in Live' <=> s \in Live)
        /\ \A m : Due(s, m) => Due(s, m)'
    BY <1>1 DEF LiveInv, Live, Due
  <2> QED
    BY <1>1, <2>1, SameAnswers
<1> QED
  BY <1>2, <1>3 DEF LiveInv

LEMMA LiveStepKeeps == LiveInv /\ LiveStep => LiveInv'
<1> SUFFICES ASSUME LiveInv, LiveStep PROVE LiveInv'
  OBVIOUS
<1>1. ASSUME NEW t \in Threads, NEW i \in Ids, NEW in \in BOOLEAN,
             Change(t, i, [v |-> changes + 1, in |-> in])
      PROVE  LiveInv'
  <2>1. PICK row : row = [v |-> changes + 1, in |-> in]
    OBVIOUS
  <2> QED
    BY <1>1, <2>1, ChangeKeeps
<1>2. ASSUME NEW t \in Threads, NEW i \in Ids, Change(t, i, NoRow) PROVE LiveInv'
  BY <1>2, ChangeKeeps
<1>3. ASSUME NEW m \in landed, Announce(m) \/ Withhold(m) PROVE LiveInv'
  BY <1>3, AnnounceKeeps, WithholdKeeps
<1>4. ASSUME NEW s \in Subs, Subscribe(s) PROVE LiveInv'
  BY <1>4, SubscribeKeeps
<1>5. ASSUME NEW t \in Threads, Hear(t) PROVE LiveInv'
  BY <1>5, HearKeeps
<1>6. ASSUME NEW s \in Subs, NEW k \in 1..MaxAsked, Read(s, k) \/ Fail(s, k) PROVE LiveInv'
  BY <1>6, ReadKeeps, FailKeeps
<1> QED
  BY <1>1, <1>2, <1>3, <1>4, <1>5, <1>6 DEF LiveStep

\* What a step of the live queries leaves of what a view sees of them.
LEMMA LiveStepLeaves ==
  ASSUME LiveInv, LiveStep, NEW s \in Subs
  PROVE  subs'[s].shown = subs[s].shown /\ (Over(s) => Over(s)')
<1>0. subs \in [Subs -> Executors] /\ subs[s] \in Executors
  BY DEF LiveInv, LiveShapes
<1>1. ASSUME NEW t \in Threads, NEW i \in Ids, NEW row, Change(t, i, row)
      PROVE  subs'[s] = subs[s]
  BY <1>1 DEF Change
<1>2. ASSUME NEW m \in landed, Announce(m) PROVE subs'[s] = subs[s]
  BY <1>2 DEF Announce
<1>3. ASSUME NEW m \in landed, Withhold(m)
      PROVE  subs'[s].shown = subs[s].shown /\ subs'[s].step = subs[s].step
  <2>1. subs'[s] = [subs[s] EXCEPT !.stale = "lost"]
    BY <1>3 DEF Withhold
  <2> QED
    BY <1>0, <2>1 DEF Executors
<1>4. ASSUME NEW z \in Subs, Subscribe(z)
      PROVE  subs'[s].shown = subs[s].shown /\ (Over(s) => subs'[s] = subs[s])
  <2>1. /\ subs[z].step = "new"
        /\ subs' = [subs EXCEPT ![z].step = "live", ![z].createdAt = ticks', ![z].asked = <<Unread>>]
    BY <1>4 DEF Subscribe
  <2>2. Over(s) => s # z
    BY <2>1 DEF Over
  <2>3. s # z => subs'[s] = subs[s]
    BY <1>0, <2>1
  <2>4. subs'[s].shown = subs[s].shown
    <3> HIDE DEF Unread
    <3> QED
      BY <1>0, <2>1 DEF Executors
  <2> QED
    BY <2>2, <2>3, <2>4
<1>5. ASSUME NEW t \in Threads, Hear(t)
      PROVE  subs'[s].shown = subs[s].shown /\ subs'[s].step = subs[s].step
  <2>1. mail[t] \in Seq(Letters) /\ mail[t] # <<>>
    BY <1>5 DEF Hear, LiveInv, LiveShapes
  <2>2. PICK letter \in Letters : letter = Head(mail[t])
    BY <2>1, TailIn
  <2>3. subs'[s] = IF s \in Live THEN Told(s, letter) ELSE subs[s]
    BY <1>5, <2>2 DEF Hear
  <2> QED
    BY <2>3, ToldShape DEF LiveInv
<1>6. ASSUME NEW z \in Subs, NEW k \in 1..MaxAsked, Read(z, k)
      PROVE  subs'[s].shown = subs[s].shown /\ subs'[s].step = subs[s].step
  <2>1. subs' = [subs EXCEPT ![z].asked[k] = Answer(z)]
    BY <1>6 DEF Read
  <2>2. PICK answer : answer = Answer(z)
    OBVIOUS
  <2> QED
    BY <1>0, <2>1, <2>2 DEF Executors
<1>7. ASSUME NEW z \in Subs, NEW k \in 1..MaxAsked, Fail(z, k)
      PROVE  subs'[s].shown = subs[s].shown /\ subs'[s].step = subs[s].step
  <2>1. subs' = [subs EXCEPT ![z].asked = RemoveAt(@, k), ![z].stale = "lost"]
    BY <1>7 DEF Fail
  <2>2. PICK asked : asked = RemoveAt(subs[z].asked, k)
    OBVIOUS
  <2> QED
    BY <1>0, <2>1, <2>2 DEF Executors
<1> QED
  BY <1>1, <1>2, <1>3, <1>4, <1>5, <1>6, <1>7 DEF LiveStep, Over

-----------------------------------------------------------------------------
(* Views go on.                                                             *)

\* A view that is done with its snapshot goes on with the next: nothing it was
\* handed and had not lost was in that snapshot only.
LEMMA DrainedKeeps ==
  ASSUME NEW s \in Subs, NEW view \in Derivations, NEW shown,
         OnePerKey(s, view.table),
         \A t : In(t, view.queued) => OnePerKey(s, t),
         view.gone => view.queued = <<>>,
         s \in Histories /\ ~view.gone =>
           \A r \in view.handed : \/ r \in view.table \/ r \in view.lost
                                  \/ \E t : In(t, view.queued) /\ r \in t,
         s \notin Histories /\ ~view.gone =>
           \/ view.queued = <<shown>>
           \/ view.queued = <<>> /\ (~view.failed => view.table = shown)
  PROVE  /\ ViewOK(s, Drained(view)) /\ Kept(s, Drained(view))
         /\ Mirrored(s, Drained(view), shown)
         /\ Drained(view).step # "writing"
         /\ Drained(view).gone = view.gone
<1> DEFINE next == Drained(view)
<1>1. view.queued \in Seq(Tables)
  BY DEF Derivations
<1>2. OnePerKey(s, {})
  BY DEF OnePerKey
<1>3. CASE view.gone \/ view.queued = <<>>
  <2>1. next = [view EXCEPT !.step = "idle", !.snapshot = {}]
    BY <1>3 DEF Drained
  <2> HIDE DEF next
  <2>2. /\ next \in Derivations /\ next.table = view.table /\ next.queued = view.queued
        /\ next.step = "idle" /\ next.snapshot = {} /\ next.gone = view.gone
        /\ next.handed = view.handed /\ next.lost = view.lost /\ next.failed = view.failed
    BY <2>1 DEF Derivations, Tables
  <2>3. next.queued = <<>>
    BY <1>3, <2>2
  <2>4. ~\E t : In(t, <<>>)
    BY DEF In
  <2>5. ViewOK(s, next)
    BY <1>2, <2>2, <2>3, <2>4 DEF ViewOK
  <2>6. Kept(s, next)
    BY <2>2, <2>3, <2>4 DEF Kept
  <2>7. Mirrored(s, next, shown)
    <3>1. <<>> # <<shown>>
      OBVIOUS
    <3> QED
      BY <2>2, <2>3, <3>1 DEF Mirrored
  <2> QED
    BY <2>2, <2>5, <2>6, <2>7 DEF next
<1>4. CASE ~view.gone /\ view.queued # <<>>
  <2>1. PICK head : head = Head(view.queued)
    OBVIOUS
  <2>2. PICK tail : tail = Tail(view.queued)
    OBVIOUS
  <2>3. next = [view EXCEPT !.step = "reading", !.snapshot = head, !.queued = tail]
    BY <1>4, <2>1, <2>2 DEF Drained
  <2> HIDE DEF next
  <2>4. /\ head \in Tables /\ tail \in Seq(Tables) /\ In(head, view.queued)
        /\ \A x : In(x, tail) => In(x, view.queued)
        /\ \A x : In(x, view.queued) => x = head \/ In(x, tail)
    <3>1. In(Head(view.queued), view.queued)
      BY <1>1, <1>4, TailIn DEF In
    <3> QED
      BY <1>1, <1>4, <2>1, <2>2, <3>1, TailIn
  <2>5. /\ next \in Derivations /\ next.table = view.table /\ next.queued = tail
        /\ next.step = "reading" /\ next.snapshot = head /\ next.gone = view.gone
        /\ next.handed = view.handed /\ next.lost = view.lost /\ next.failed = view.failed
    BY <2>3, <2>4 DEF Derivations
  <2>6. ViewOK(s, next)
    BY <1>4, <2>4, <2>5 DEF ViewOK
  <2>7. Kept(s, next)
    BY <1>4, <2>4, <2>5 DEF Kept
  <2>8. Mirrored(s, next, shown)
    <3>1. view.queued = <<shown>> => head = shown /\ tail = <<>>
      BY <2>1, <2>2
    <3> QED
      BY <1>4, <2>5, <3>1 DEF Mirrored
  <2> QED
    BY <2>5, <2>6, <2>7, <2>8 DEF next
<1> QED
  BY <1>3, <1>4

LEMMA EndedIsDrained ==
  ASSUME NEW view \in Derivations
  PROVE  /\ Ended(view) = Drained([view EXCEPT !.failed = FALSE])
         /\ \A s : Dropped(s, view) =
              Drained([view EXCEPT !.failed = TRUE,
                         !.lost = IF s \in Histories THEN @ \cup view.snapshot ELSE @])
<1>1. Ended(view) = Drained([view EXCEPT !.failed = FALSE])
  <2>1. CASE view.gone \/ view.queued = <<>>
    BY <2>1 DEF Ended, Drained, Derivations
  <2>2. CASE ~(view.gone \/ view.queued = <<>>)
    BY <2>2 DEF Ended, Drained, Derivations
  <2> QED
    BY <2>1, <2>2
<1>2. ASSUME NEW s
      PROVE  Dropped(s, view) =
              Drained([view EXCEPT !.failed = TRUE,
                         !.lost = IF s \in Histories THEN @ \cup view.snapshot ELSE @])
  <2>1. CASE view.gone \/ view.queued = <<>>
    BY <2>1 DEF Dropped, Drained, Derivations
  <2>2. CASE ~(view.gone \/ view.queued = <<>>)
    BY <2>2 DEF Dropped, Drained, Derivations
  <2> QED
    BY <2>1, <2>2
<1> QED
  BY <1>1, <1>2

\* A reconcile that ended, with a table that holds what it should.
LEMMA EndedKeeps ==
  ASSUME NEW s \in Subs, NEW view \in Derivations, NEW shown, NEW table \in Tables,
         ViewOK(s, view), Kept(s, view), Mirrored(s, view, shown), view.step # "idle",
         OnePerKey(s, table),
         s \in Histories /\ ~view.gone => view.table \cup view.snapshot \subseteq table,
         s \notin Histories /\ ~view.gone => table = view.snapshot
  PROVE  LET next == Ended([view EXCEPT !.table = table])
         IN  /\ ViewOK(s, next) /\ Kept(s, next) /\ Mirrored(s, next, shown)
             /\ next.step # "writing" /\ next.gone = view.gone
<1> DEFINE left == [view EXCEPT !.table = table, !.failed = FALSE]
<1>1. /\ left \in Derivations /\ left.table = table /\ left.queued = view.queued
      /\ left.gone = view.gone /\ left.handed = view.handed /\ left.lost = view.lost
      /\ left.failed = FALSE
  BY DEF Derivations
<1>2. Ended([view EXCEPT !.table = table]) = Drained(left)
  <2> DEFINE w == [view EXCEPT !.table = table]
  <2>1. w \in Derivations /\ [w EXCEPT !.failed = FALSE] = left
    BY DEF Derivations
  <2> HIDE DEF w, left
  <2>2. Ended(w) = Drained(left)
    BY <2>1, EndedIsDrained
  <2> QED
    BY <2>2 DEF w
<1> HIDE DEF left
<1>3. s \in Histories /\ ~left.gone =>
        \A r \in left.handed : \/ r \in left.table \/ r \in left.lost
                               \/ \E t : In(t, left.queued) /\ r \in t
  BY <1>1 DEF Kept
<1>4. s \notin Histories /\ ~left.gone =>
        \/ left.queued = <<shown>>
        \/ left.queued = <<>> /\ (~left.failed => left.table = shown)
  BY <1>1 DEF Mirrored
<1>5. /\ OnePerKey(s, left.table) /\ \A t : In(t, left.queued) => OnePerKey(s, t)
      /\ left.gone => left.queued = <<>>
  BY <1>1 DEF ViewOK
<1> QED
  BY <1>1, <1>2, <1>3, <1>4, <1>5, DrainedKeeps

\* A reconcile that failed.
LEMMA DroppedKeeps ==
  ASSUME NEW s \in Subs, NEW view \in Derivations, NEW shown,
         ViewOK(s, view), Kept(s, view), Mirrored(s, view, shown), view.step # "idle"
  PROVE  /\ ViewOK(s, Dropped(s, view)) /\ Kept(s, Dropped(s, view))
         /\ Mirrored(s, Dropped(s, view), shown)
         /\ Dropped(s, view).step # "writing" /\ Dropped(s, view).gone = view.gone
<1> DEFINE lost == IF s \in Histories THEN view.lost \cup view.snapshot ELSE view.lost
           left == [view EXCEPT !.failed = TRUE, !.lost = lost]
<1>1. /\ left \in Derivations /\ left.table = view.table /\ left.queued = view.queued
      /\ left.gone = view.gone /\ left.handed = view.handed /\ left.lost = lost
      /\ left.failed = TRUE
  <2>1. lost \in Tables
    BY DEF Derivations, Tables
  <2> HIDE DEF lost
  <2> QED
    BY <2>1 DEF Derivations
<1>2. Dropped(s, view) = Drained(left)
  BY EndedIsDrained
<1>3. s \in Histories /\ ~left.gone =>
        \A r \in left.handed : \/ r \in left.table \/ r \in left.lost
                               \/ \E t : In(t, left.queued) /\ r \in t
  <2> HIDE DEF left
  <2> QED
    BY <1>1 DEF Kept
<1>4. s \notin Histories /\ ~left.gone =>
        \/ left.queued = <<shown>>
        \/ left.queued = <<>> /\ (~left.failed => left.table = shown)
  <2> HIDE DEF left
  <2> QED
    BY <1>1 DEF Mirrored
<1>5. /\ OnePerKey(s, left.table) /\ \A t : In(t, left.queued) => OnePerKey(s, t)
      /\ left.gone => left.queued = <<>>
  <2> HIDE DEF left
  <2> QED
    BY <1>1 DEF ViewOK
<1> HIDE DEF left
<1> QED
  BY <1>1, <1>2, <1>3, <1>4, <1>5, DrainedKeeps

-----------------------------------------------------------------------------
(* The steps of views.                                                      *)

\* The chain stays, and so do the tables and snapshots of the views in it.
LEMMA SameChain ==
  ASSUME ChainOK, UNCHANGED chain,
         \A k \in DOMAIN chain :
           /\ views'[chain[k].view].step = "writing"
           /\ views'[chain[k].view].snapshot = views[chain[k].view].snapshot
           /\ views'[chain[k].view].table = views[chain[k].view].table
  PROVE  ChainOK'
<1>1. ASSUME NEW k \in DOMAIN chain
      PROVE  /\ Puts(chain[k].view, views[chain[k].view])' = Puts(chain[k].view, views[chain[k].view])
             /\ Removes(chain[k].view, views[chain[k].view])'
                  = Removes(chain[k].view, views[chain[k].view])
  BY DEF Puts, Removes, Key
<1>2. chain' = chain
  OBVIOUS
<1>3. /\ chain \in Seq(ChainWrites)
      /\ \A k \in DOMAIN chain :
           /\ chain[k].puts = Puts(chain[k].view, views[chain[k].view])
           /\ chain[k].removes = Removes(chain[k].view, views[chain[k].view])
      /\ \A j, k \in DOMAIN chain : chain[j].view = chain[k].view => j = k
  BY DEF ChainOK
<1> QED
  BY <1>1, <1>2, <1>3 DEF ChainOK

\* The live queries step, and no view.
LEMMA ViewsWait ==
  ASSUME ViewsInv, UNCHANGED <<views, chain>>,
         \A s \in Subs : subs'[s].shown = subs[s].shown /\ (Over(s) => Over(s)')
  PROVE  ViewsInv'
<1>1. ChainOK'
  <2>1. ChainOK /\ \A k \in DOMAIN chain : views'[chain[k].view].step = "writing"
    BY DEF ViewsInv, ChainOK
  <2> QED
    BY <2>1, SameChain
<1>2. ASSUME NEW s \in Subs
      PROVE  /\ ViewOK(s, views[s])' /\ Kept(s, views[s])'
             /\ Mirrored(s, views[s], subs[s].shown.rows)'
             /\ views'[s].gone => Over(s)'
  <2>1. /\ views'[s] = views[s] /\ subs'[s].shown.rows = subs[s].shown.rows
        /\ ViewOK(s, views[s]) /\ Kept(s, views[s])
        /\ Mirrored(s, views[s], subs[s].shown.rows)
        /\ views[s].gone => Over(s)
    BY DEF ViewsInv
  <2> QED
    BY <2>1 DEF ViewOK, Kept, Mirrored, OnePerKey, Key
<1> QED
  BY <1>1, <1>2 DEF ViewsInv

\* One view steps, and with it at most its own subscription is shown an answer.
LEMMA OneViewSteps ==
  ASSUME ViewsInv, NEW s \in Subs, NEW view, views' = [views EXCEPT ![s] = view],
         NEW shown, subs'[s].shown.rows = shown,
         \A z \in Subs \ {s} : subs'[z].shown = subs[z].shown,
         \A z \in Subs : Over(z) => Over(z)',
         ChainOK',
         ViewOK(s, view), Kept(s, view), Mirrored(s, view, shown),
         view.gone = views[s].gone
  PROVE  ViewsInv'
<1>1. views \in [Subs -> Derivations] /\ view \in Derivations
  BY DEF ViewsInv, ViewOK
<1>2. /\ views'[s] = view /\ views' \in [Subs -> Derivations]
      /\ \A z \in Subs \ {s} : views'[z] = views[z]
  BY <1>1
<1>3. ASSUME NEW z \in Subs
      PROVE  /\ ViewOK(z, views[z])' /\ Kept(z, views[z])'
             /\ Mirrored(z, views[z], subs[z].shown.rows)'
             /\ views'[z].gone => Over(z)'
  <2>1. /\ views[z].gone => Over(z)
        /\ ViewOK(z, views[z]) /\ Kept(z, views[z])
        /\ Mirrored(z, views[z], subs[z].shown.rows)
    BY DEF ViewsInv
  <2>2. CASE z # s
    <3>1. views'[z] = views[z] /\ subs'[z].shown.rows = subs[z].shown.rows
      BY <1>2, <2>2
    <3> QED
      BY <2>1, <3>1 DEF ViewOK, Kept, Mirrored, OnePerKey, Key
  <2>3. CASE z = s
    BY <1>2, <2>1, <2>3 DEF ViewOK, Kept, Mirrored, OnePerKey, Key
  <2> QED
    BY <2>2, <2>3
<1> QED
  BY <1>2, <1>3 DEF ViewsInv

LEMMA ViewFacts ==
  ASSUME ViewsInv, NEW s \in Subs
  PROVE  /\ views[s] \in Derivations /\ ViewOK(s, views[s]) /\ Kept(s, views[s])
         /\ Mirrored(s, views[s], subs[s].shown.rows)
         /\ views[s].queued \in Seq(Tables) /\ {views[s].table, views[s].snapshot} \subseteq Tables
BY DEF ViewsInv, Derivations

\* A view that waits for no write may step without the chain.
LEMMA ChainWaits ==
  ASSUME ViewsInv, NEW s \in Subs, NEW view, views' = [views EXCEPT ![s] = view],
         UNCHANGED chain, views[s].step # "writing"
  PROVE  ChainOK'
<1>1. views \in [Subs -> Derivations] /\ ChainOK
  BY DEF ViewsInv
<1>2. \A z \in Subs \ {s} : views'[z] = views[z]
  BY <1>1
<1>3. ASSUME NEW k \in DOMAIN chain
      PROVE  views'[chain[k].view] = views[chain[k].view] /\ views[chain[k].view].step = "writing"
  <2>1. chain[k].view \in Subs
    <3>1. chain[k] \in ChainWrites
      BY <1>1, LenProperties DEF ChainOK
    <3> QED
      BY <3>1 DEF ChainWrites
  <2>2. views[chain[k].view].step = "writing"
    BY <1>1 DEF ChainOK
  <2> QED
    BY <1>1, <1>2, <2>1, <2>2
<1> QED
  BY <1>1, <1>3, SameChain

\* The callback of derive, given what the subscription is shown with it.
LEMMA DerivedKeeps ==
  ASSUME ViewsInv, NEW s \in Subs, NEW shown \in Tables, OnePerKey(s, shown)
  PROVE  LET next == Derived(s, shown)
         IN  /\ ViewOK(s, next) /\ Kept(s, next) /\ Mirrored(s, next, shown)
             /\ next.gone = views[s].gone
             /\ next = views[s] \/ views[s].step # "writing"
                \/ /\ next.step = "writing" /\ next.table = views[s].table
                   /\ next.snapshot = views[s].snapshot
<1> DEFINE view == views[s]
<1>1. /\ view \in Derivations /\ ViewOK(s, view) /\ Kept(s, view)
      /\ view.queued \in Seq(Tables)
      /\ \A t : In(t, view.queued) => OnePerKey(s, t)
  BY ViewFacts DEF ViewOK
<1>2. CASE view.gone
  <2>1. Derived(s, shown) = view
    BY <1>2 DEF Derived
  <2>2. Kept(s, view) /\ Mirrored(s, view, shown)
    BY <1>2 DEF Kept, Mirrored
  <2> QED
    BY <1>1, <2>1, <2>2
<1>3. CASE ~view.gone
  <2>1. PICK queued : queued = Queued(s, shown)
    OBVIOUS
  <2>2. /\ queued \in Seq(Tables) /\ \A t : In(t, queued) => In(t, view.queued) \/ t = shown
        /\ In(shown, queued)
        /\ s \in Histories => \A t : In(t, view.queued) => In(t, queued)
        /\ s \notin Histories => queued = <<shown>>
    <3>1. CASE s \in Histories
      <4>1. queued = Append(view.queued, shown)
        BY <2>1, <3>1 DEF Queued
      <4> QED
        BY <1>1, <3>1, <4>1, AppendedIn
    <3>2. CASE s \notin Histories
      <4>1. queued = <<shown>>
        BY <2>1, <3>2 DEF Queued
      <4>2. \A t : In(t, <<shown>>) <=> t = shown
        BY DEF In
      <4>3. <<shown>> \in Seq(Tables)
        OBVIOUS
      <4> QED
        BY <3>2, <4>1, <4>2, <4>3
    <3> QED
      BY <3>1, <3>2
  <2>3. PICK handed \in Tables :
          handed = IF s \in Histories THEN view.handed \cup shown ELSE view.handed
    BY <1>1 DEF Derivations, Tables
  <2> DEFINE told == [view EXCEPT !.queued = queued, !.handed = handed]
  <2>4. Derived(s, shown) = IF told.step = "idle" THEN Drained(told) ELSE told
    <3>1. ~views[s].gone
      BY <1>3
    <3> QED
      BY <2>1, <2>3, <3>1 DEF Derived
  <2>5. /\ told \in Derivations /\ told.queued = queued /\ told.handed = handed
        /\ told.step = view.step /\ told.snapshot = view.snapshot /\ told.table = view.table
        /\ told.gone = view.gone /\ told.lost = view.lost /\ told.failed = view.failed
    BY <1>1, <2>2, <2>3 DEF Derivations
  <2> HIDE DEF told
  <2>6. /\ OnePerKey(s, told.table) /\ OnePerKey(s, told.snapshot)
        /\ \A t : In(t, told.queued) => OnePerKey(s, t)
    BY <1>1, <2>2, <2>5 DEF ViewOK
  <2>7. s \notin Histories => Mirrored(s, told, shown)
    BY <2>2, <2>5 DEF Mirrored
  <2>8. Kept(s, told)
    <3> SUFFICES ASSUME s \in Histories, NEW r \in told.handed
                 PROVE  \/ r \in told.table \/ r \in told.lost \/ r \in told.snapshot
                        \/ \E t : In(t, told.queued) /\ r \in t
      BY DEF Kept
    <3>1. r \in view.handed \/ r \in shown
      BY <2>3, <2>5
    <3>2. r \in view.handed => \/ r \in view.table \/ r \in view.lost \/ r \in view.snapshot
                               \/ \E t : In(t, view.queued) /\ r \in t
      BY <1>1, <1>3 DEF Kept
    <3> QED
      BY <2>2, <2>5, <3>1, <3>2
  <2>9. Mirrored(s, told, shown)
    BY <2>7 DEF Mirrored
  <2>10. CASE view.step = "idle"
    <3>1. view.snapshot = {}
      BY <1>1, <2>10 DEF ViewOK
    <3>2. s \in Histories /\ ~told.gone =>
            \A r \in told.handed : \/ r \in told.table \/ r \in told.lost
                                   \/ \E t : In(t, told.queued) /\ r \in t
      BY <2>5, <2>8, <3>1 DEF Kept
    <3>3. s \notin Histories => told.queued = <<shown>>
      BY <2>2, <2>5
    <3>4. told.gone => told.queued = <<>>
      BY <1>3, <2>5
    <3>5. /\ ViewOK(s, Drained(told)) /\ Kept(s, Drained(told))
          /\ Mirrored(s, Drained(told), shown) /\ Drained(told).gone = told.gone
      BY <2>5, <2>6, <3>2, <3>3, <3>4, DrainedKeeps
    <3> QED
      BY <2>4, <2>5, <2>10, <3>5
  <2>11. CASE view.step # "idle"
    <3>1. ViewOK(s, told)
      BY <1>3, <2>5, <2>6, <2>11 DEF ViewOK
    <3> QED
      BY <2>4, <2>5, <2>8, <2>9, <2>11, <3>1
  <2> QED
    BY <2>10, <2>11
<1> QED
  BY <1>2, <1>3

LEMMA DeriveKeeps ==
  ASSUME IInv, NEW s \in Subs, NEW k, Derive(s, k)
  PROVE  IInv'
<1>1. /\ Deliver(s, k) /\ UNCHANGED chain
      /\ views' = [views EXCEPT ![s] = Derived(s, subs[s].asked[k].rows)]
  BY DEF Derive
<1>2. LiveInv' /\ subs'[s].shown = subs[s].asked[k] /\ k \in DOMAIN subs[s].asked
  BY <1>1, DeliverKeeps DEF IInv, Deliver
<1>3. PICK shown : shown = subs[s].asked[k].rows
  OBVIOUS
<1>4. subs[s].asked[k] \in Results
  <2>1. subs[s].asked \in Seq(Results)
    BY SubFacts DEF IInv, LiveInv
  <2> QED
    BY <1>2, <2>1, LenProperties
<1>5. shown \in Tables /\ OnePerKey(s, shown)
  <2>1. Of(s, subs[s].asked[k]) /\ Dated(s)
    BY <1>2 DEF Of, In, IInv, LiveInv
  <2>2. s \notin Histories => \A r, q \in shown : r.id = q.id => r = q
    BY <1>3, <2>1 DEF Dated
  <2> QED
    BY <1>3, <1>4, <2>2 DEF Results, Tables, OnePerKey, Key
<1>6. PICK next : next = Derived(s, shown)
  OBVIOUS
<1>7. /\ ViewOK(s, next) /\ Kept(s, next) /\ Mirrored(s, next, shown)
      /\ next.gone = views[s].gone
      /\ next = views[s] \/ views[s].step # "writing"
         \/ /\ next.step = "writing" /\ next.table = views[s].table
            /\ next.snapshot = views[s].snapshot
  BY <1>5, <1>6, DerivedKeeps DEF IInv
<1>8. views' = [views EXCEPT ![s] = next] /\ views \in [Subs -> Derivations]
  BY <1>1, <1>3, <1>6 DEF IInv, ViewsInv
<1>9. ChainOK'
  <2>1. CASE views[s].step # "writing"
    BY <1>1, <1>8, <2>1, ChainWaits DEF IInv
  <2>2. CASE /\ next.step = views[s].step /\ next.table = views[s].table
             /\ next.snapshot = views[s].snapshot
    <3>1. \A z \in Subs : /\ views'[z].step = views[z].step
                          /\ views'[z].table = views[z].table
                          /\ views'[z].snapshot = views[z].snapshot
      BY <1>8, <2>2
    <3>2. ChainOK /\ \A j \in DOMAIN chain : chain[j] \in ChainWrites
      BY LenProperties DEF IInv, ViewsInv, ChainOK
    <3>3. \A j \in DOMAIN chain : chain[j].view \in Subs /\ views[chain[j].view].step = "writing"
      BY <3>2 DEF ChainOK, ChainWrites
    <3> QED
      BY <1>1, <3>1, <3>2, <3>3, SameChain
  <2> QED
    BY <1>7, <2>1, <2>2
<1>10. /\ \A z \in Subs \ {s} : subs'[z].shown = subs[z].shown
       /\ \A z \in Subs : Over(z) => Over(z)'
  <2>1. \A z \in Subs \ {s} : subs'[z] = subs[z]
    BY <1>1 DEF Deliver, IInv, LiveInv, LiveShapes
  <2>2. subs'[s].step = subs[s].step
    BY <1>1, SubFacts DEF Deliver, Raced, IInv, LiveInv, LiveShapes, Executors
  <2> QED
    BY <2>1, <2>2 DEF Over
<1>11. subs'[s].shown.rows = shown
  BY <1>2, <1>3
<1>12. ViewsInv'
  BY <1>7, <1>8, <1>9, <1>10, <1>11, OneViewSteps DEF IInv
<1> QED
  BY <1>2, <1>12 DEF IInv

\* What the views see of the live queries when those do not step.
LEMMA Unseen ==
  ASSUME IInv, UNCHANGED liveVars
  PROVE  /\ LiveInv' /\ subs' = subs
         /\ \A z \in Subs : Over(z) => Over(z)'
BY LiveStill DEF IInv, liveVars, Over

LEMMA ReconcileKeeps ==
  ASSUME IInv, NEW s \in Subs, Reconcile(s)
  PROVE  IInv'
<1> DEFINE view == views[s]
<1>1. PICK write : write = [view |-> s, puts |-> Puts(s, view), removes |-> Removes(s, view),
                            started |-> FALSE]
  OBVIOUS
<1>2. /\ view.step = "reading" /\ UNCHANGED liveVars
      /\ IF view.gone \/ (write.puts = {} /\ write.removes = {})
           THEN views' = [views EXCEPT ![s] = Ended(view)] /\ UNCHANGED chain
           ELSE views' = [views EXCEPT ![s] = Waits(view)] /\ chain' = Append(chain, write)
  BY <1>1 DEF Reconcile
<1>3. /\ LiveInv' /\ subs' = subs /\ \A z \in Subs : Over(z) => Over(z)'
  BY <1>2, Unseen
<1>4. /\ view \in Derivations /\ ViewOK(s, view) /\ Kept(s, view)
      /\ Mirrored(s, view, subs[s].shown.rows)
      /\ view.table \in Tables /\ view.snapshot \in Tables
  BY ViewFacts DEF IInv
<1>5. /\ write.view = s /\ write.puts = view.snapshot \ view.table
      /\ write.removes = Removes(s, view)
  BY <1>1 DEF Puts
<1>6. CASE view.gone \/ (write.puts = {} /\ write.removes = {})
  <2>1. views' = [views EXCEPT ![s] = Ended(view)] /\ UNCHANGED chain
    BY <1>2, <1>6
  <2>2. ~view.gone => view.snapshot \subseteq view.table
    BY <1>5, <1>6
  <2>3. s \notin Histories /\ ~view.gone => view.table = view.snapshot
    <3> SUFFICES ASSUME s \notin Histories, ~view.gone, NEW r \in view.table
                 PROVE  r \in view.snapshot
      BY <2>2
    <3>1. \E d \in view.snapshot : Key(s, d) = Key(s, r)
      BY <1>5, <1>6 DEF Removes
    <3> QED
      BY <1>4, <2>2, <3>1 DEF ViewOK, OnePerKey
  <2>4. PICK next : next = Ended(view)
    OBVIOUS
  <2>5. /\ ViewOK(s, next) /\ Kept(s, next) /\ Mirrored(s, next, subs[s].shown.rows)
        /\ next.gone = view.gone
    <3>1. [view EXCEPT !.table = view.table] = view
      BY <1>4 DEF Derivations
    <3>2. view.step # "idle" /\ OnePerKey(s, view.table)
      BY <1>2, <1>4 DEF ViewOK
    <3> HIDE DEF view
    <3> QED
      BY <1>4, <2>2, <2>3, <2>4, <3>1, <3>2, EndedKeeps
  <2>6. views' = [views EXCEPT ![s] = next]
    BY <2>1, <2>4
  <2>7. ChainOK'
    BY <1>2, <2>1, <2>6, ChainWaits DEF IInv
  <2>8. ViewsInv'
    BY <1>3, <2>5, <2>6, <2>7, OneViewSteps DEF IInv
  <2> QED
    BY <1>3, <2>8 DEF IInv
<1>7. CASE ~(view.gone \/ (write.puts = {} /\ write.removes = {}))
  <2>1. views' = [views EXCEPT ![s] = Waits(view)] /\ chain' = Append(chain, write)
    BY <1>2, <1>7
  <2>2. PICK next : next = [view EXCEPT !.step = "writing"]
    OBVIOUS
  <2>3. /\ next \in Derivations /\ next.step = "writing" /\ next.table = view.table
        /\ next.snapshot = view.snapshot /\ next.queued = view.queued
        /\ next.gone = view.gone /\ next.lost = view.lost /\ next.handed = view.handed
        /\ next.failed = view.failed
    BY <1>4, <2>2 DEF Derivations
  <2>4. views' = [views EXCEPT ![s] = next] /\ views \in [Subs -> Derivations]
    BY <2>1, <2>2 DEF Waits, IInv, ViewsInv
  <2>5. ViewOK(s, next)
    BY <1>4, <2>3 DEF ViewOK
  <2>6. Kept(s, next)
    BY <1>4, <2>3 DEF Kept
  <2>7. Mirrored(s, next, subs[s].shown.rows)
    BY <1>2, <1>4, <2>3 DEF Mirrored
  <2>8. write \in ChainWrites
    <3>1. Puts(s, view) \in Tables /\ Removes(s, view) \in Tables
      BY <1>4 DEF Puts, Removes, Tables
    <3> QED
      BY <1>1, <3>1 DEF ChainWrites
  <2>9. /\ chain \in Seq(ChainWrites)
        /\ \A j \in DOMAIN chain : chain[j].view \in Subs /\ chain[j].view # s
    <3>1. ChainOK /\ \A j \in DOMAIN chain : chain[j] \in ChainWrites
      BY LenProperties DEF IInv, ViewsInv, ChainOK
    <3> QED
      BY <1>2, <3>1 DEF ChainOK, ChainWrites
  <2>10. /\ chain' \in Seq(ChainWrites)
         /\ DOMAIN chain \subseteq DOMAIN chain'
         /\ \A j \in DOMAIN chain : chain'[j] = chain[j]
         /\ \A j \in DOMAIN chain' : j \in DOMAIN chain \/ j = Len(chain) + 1
         /\ chain'[Len(chain) + 1] = write
    BY <2>1, <2>8, <2>9, AppendedIn
  <2>11. ASSUME NEW j \in DOMAIN chain', NEW w, w = chain'[j], NEW v, v = views'[w.view]
         PROVE  /\ v.step = "writing" /\ w.puts = Puts(w.view, v)
                /\ w.removes = Removes(w.view, v)
    <3>1. CASE j \in DOMAIN chain
      <4>1. w = chain[j] /\ v = views[w.view]
        BY <2>4, <2>9, <2>10, <2>11, <3>1
      <4> QED
        BY <3>1, <4>1 DEF IInv, ViewsInv, ChainOK
    <3>2. CASE w = write
      <4>1. v = next /\ w.view = s
        BY <1>5, <2>4, <2>11, <3>2
      <4> HIDE DEF view
      <4>2. Puts(s, next) = view.snapshot \ view.table
        BY <2>3 DEF Puts
      <4>3. Removes(s, next) = Removes(s, view)
        BY <2>3 DEF Removes
      <4> QED
        BY <1>5, <2>3, <3>2, <4>1, <4>2, <4>3
    <3> QED
      BY <2>10, <2>11, <3>1, <3>2
  <2>12. \A i, j \in DOMAIN chain' : chain'[i].view = chain'[j].view => i = j
    <3>1. \A i, j \in DOMAIN chain : chain[i].view = chain[j].view => i = j
      BY DEF IInv, ViewsInv, ChainOK
    <3> QED
      BY <1>5, <2>9, <2>10, <3>1
  <2>13. ChainOK'
    BY <2>10, <2>11, <2>12 DEF ChainOK
  <2>14. ViewsInv'
    BY <1>3, <2>3, <2>4, <2>5, <2>6, <2>7, <2>13, OneViewSteps DEF IInv
  <2> QED
    BY <1>3, <2>14 DEF IInv
<1> QED
  BY <1>6, <1>7

LEMMA ReconcileFailsKeeps ==
  ASSUME IInv, NEW s \in Subs, ReconcileFails(s)
  PROVE  IInv'
<1>1. PICK next : next = Dropped(s, views[s])
  OBVIOUS
<1>2. /\ views[s].step = "reading" /\ UNCHANGED liveVars /\ UNCHANGED chain
      /\ views' = [views EXCEPT ![s] = next]
  BY <1>1 DEF ReconcileFails
<1>3. /\ LiveInv' /\ subs' = subs /\ \A z \in Subs : Over(z) => Over(z)'
  BY <1>2, Unseen
<1>4. /\ ViewOK(s, next) /\ Kept(s, next) /\ Mirrored(s, next, subs[s].shown.rows)
      /\ next.gone = views[s].gone
  BY <1>1, <1>2, ViewFacts, DroppedKeeps DEF IInv
<1>5. ChainOK'
  BY <1>2, ChainWaits DEF IInv
<1>6. ViewsInv'
  BY <1>2, <1>3, <1>4, <1>5, OneViewSteps DEF IInv
<1> QED
  BY <1>3, <1>6 DEF IInv

LEMMA WriteStartsKeeps ==
  ASSUME IInv, WriteStarts
  PROVE  IInv'
<1>1. /\ chain # <<>> /\ UNCHANGED liveVars /\ UNCHANGED views
      /\ chain' = [chain EXCEPT ![1].started = TRUE]
  BY DEF WriteStarts
<1>2. LiveInv' /\ subs' = subs
  BY <1>1, Unseen
<1>3. /\ chain \in Seq(ChainWrites) /\ Len(chain) \in Nat /\ DOMAIN chain = 1..Len(chain)
      /\ 1 \in 1..Len(chain)
  BY <1>1, LenProperties, EmptySeq DEF IInv, ViewsInv, ChainOK
<1>4. PICK w : w = [chain[1] EXCEPT !.started = TRUE]
  OBVIOUS
<1>5. /\ w \in ChainWrites /\ w.view = chain[1].view /\ w.puts = chain[1].puts
      /\ w.removes = chain[1].removes
  <2>1. chain[1] \in ChainWrites
    BY <1>3
  <2> QED
    BY <1>4, <2>1 DEF ChainWrites
<1>6. /\ chain' \in Seq(ChainWrites) /\ DOMAIN chain' = DOMAIN chain
      /\ \A k \in DOMAIN chain :
           /\ chain'[k].view = chain[k].view /\ chain'[k].puts = chain[k].puts
           /\ chain'[k].removes = chain[k].removes
  <2>1. chain' = [chain EXCEPT ![1] = w]
    BY <1>1, <1>4
  <2>2. /\ chain' \in Seq(ChainWrites) /\ Len(chain') = Len(chain)
        /\ \A j \in 1..Len(chain) : chain'[j] = IF j = 1 THEN w ELSE chain[j]
    BY <1>3, <1>5, <2>1, ExceptSeq
  <2> QED
    BY <1>3, <1>5, <2>2, LenProperties
<1>7. ChainOK'
  <2>1. ASSUME NEW k \in DOMAIN chain', NEW z, z = chain'[k].view
        PROVE  /\ views'[z].step = "writing"
               /\ chain'[k].puts = Puts(z, views'[z])
               /\ chain'[k].removes = Removes(z, views'[z])
    BY <1>1, <1>6, <2>1 DEF IInv, ViewsInv, ChainOK
  <2>2. \A i, j \in DOMAIN chain' : chain'[i].view = chain'[j].view => i = j
    BY <1>6 DEF IInv, ViewsInv, ChainOK
  <2> QED
    BY <1>6, <2>1, <2>2 DEF ChainOK
<1>8. ViewsInv'
  <2>1. ASSUME NEW s \in Subs
        PROVE  /\ ViewOK(s, views[s])' /\ Kept(s, views[s])'
               /\ Mirrored(s, views[s], subs[s].shown.rows)'
               /\ views'[s].gone => Over(s)'
    <3>1. /\ views'[s] = views[s] /\ subs'[s].shown.rows = subs[s].shown.rows
          /\ ViewOK(s, views[s]) /\ Kept(s, views[s])
          /\ Mirrored(s, views[s], subs[s].shown.rows)
          /\ views[s].gone => Over(s)
      BY <1>1, <1>2 DEF IInv, ViewsInv
    <3> QED
      BY <1>2, <3>1 DEF ViewOK, Kept, Mirrored, OnePerKey, Key, Over
  <2> QED
    BY <1>1, <1>7, <2>1 DEF IInv, ViewsInv
<1> QED
  BY <1>2, <1>8 DEF IInv

\* The oldest write leaves the chain, and its view waits no longer.
LEMMA ChainGoesOn ==
  ASSUME ViewsInv, chain # <<>>, chain' = Tail(chain), NEW view,
         views' = [views EXCEPT ![chain[1].view] = view]
  PROVE  ChainOK' /\ chain[1] \in ChainWrites /\ 1 \in DOMAIN chain
<1>1. chain \in Seq(ChainWrites) /\ views \in [Subs -> Derivations]
  BY DEF ViewsInv, ChainOK
<1>2. /\ 1 \in DOMAIN chain /\ chain[1] \in ChainWrites /\ chain' \in Seq(ChainWrites)
      /\ \A k \in DOMAIN chain' : k + 1 \in DOMAIN chain /\ k + 1 # 1 /\ chain'[k] = chain[k + 1]
      /\ \A k \in DOMAIN chain' : k \in Int
  <2>1. \A k \in DOMAIN chain' : k \in Int
    BY <1>1, TailIn, LenProperties
  <2> QED
    BY <1>1, <2>1, TailIn
<1>3. \A j, k \in DOMAIN chain : chain[j].view = chain[k].view => j = k
  BY DEF ViewsInv, ChainOK
<1>4. ASSUME NEW k \in DOMAIN chain', NEW z, z = chain'[k].view
      PROVE  /\ views'[z].step = "writing"
             /\ chain'[k].puts = Puts(z, views'[z])
             /\ chain'[k].removes = Removes(z, views'[z])
  <2>1. /\ k + 1 \in DOMAIN chain /\ chain'[k] = chain[k + 1] /\ z # chain[1].view
    BY <1>2, <1>3, <1>4
  <2>2. z \in Subs
    <3>1. chain[k + 1] \in ChainWrites
      BY <1>1, <2>1, LenProperties
    <3> QED
      BY <1>4, <2>1, <3>1 DEF ChainWrites
  <2>3. views'[z] = views[z]
    BY <1>1, <2>1, <2>2
  <2> QED
    BY <1>4, <2>1, <2>3 DEF ViewsInv, ChainOK
<1>5. \A i, j \in DOMAIN chain' : chain'[i].view = chain'[j].view => i = j
  BY <1>2, <1>3
<1> QED
  BY <1>2, <1>4, <1>5 DEF ChainOK

\* A write of what differs makes a mirror of the table, and keeps a history's.
LEMMA WrittenTable ==
  ASSUME NEW w \in ChainWrites, NEW view \in Derivations,
         view = views[w.view], ViewOK(w.view, view),
         w.puts = Puts(w.view, view), w.removes = Removes(w.view, view)
  PROVE  /\ Written(w) \in Tables /\ OnePerKey(w.view, Written(w))
         /\ w.view \in Histories => view.table \cup view.snapshot \subseteq Written(w)
         /\ w.view \notin Histories => Written(w) = view.snapshot
<1>1. PICK s : s = w.view
  OBVIOUS
<1>2. /\ view.table \in Tables /\ view.snapshot \in Tables
      /\ OnePerKey(s, view.table) /\ OnePerKey(s, view.snapshot)
  BY <1>1 DEF ViewOK, Derivations
<1>3. w.puts = view.snapshot \ view.table /\ w.removes = Removes(s, view)
  BY <1>1 DEF Puts
<1>4. Written(w) = {r \in view.table \ w.removes : \A p \in w.puts : Key(s, p) # Key(s, r)}
                     \cup w.puts
  BY <1>1 DEF Written
<1>5. Written(w) \in Tables
  BY <1>2, <1>3, <1>4 DEF Tables
<1>6. CASE s \in Histories
  <2>1. w.removes = {}
    BY <1>3, <1>6 DEF Removes
  <2>2. \A r : Key(s, r) = r
    BY <1>6 DEF Key
  <2>3. view.table \cup view.snapshot \subseteq Written(w)
    BY <1>3, <1>4, <2>1, <2>2
  <2> QED
    BY <1>1, <1>5, <1>6, <2>2, <2>3 DEF OnePerKey
<1>7. CASE s \notin Histories
  <2>1. \A r : r \in w.removes <=> r \in view.table /\ \A d \in view.snapshot : Key(s, d) # Key(s, r)
    BY <1>3, <1>7 DEF Removes
  <2>2. ASSUME NEW r \in Written(w) PROVE r \in view.snapshot
    <3>1. CASE r \in w.puts
      BY <1>3, <3>1
    <3>2. CASE r \in view.table /\ r \notin w.removes /\ \A p \in w.puts : Key(s, p) # Key(s, r)
      <4>1. PICK d \in view.snapshot : Key(s, d) = Key(s, r)
        BY <2>1, <3>2
      <4>2. d \in view.table
        BY <1>3, <3>2, <4>1
      <4> QED
        BY <1>2, <3>2, <4>1, <4>2 DEF OnePerKey
    <3> QED
      BY <1>4, <2>2, <3>1, <3>2
  <2>3. ASSUME NEW d \in view.snapshot PROVE d \in Written(w)
    <3>1. CASE d \notin view.table
      BY <1>3, <1>4, <3>1
    <3>2. CASE d \in view.table
      <4>1. d \notin w.removes
        BY <2>1
      <4>2. \A p \in w.puts : Key(s, p) # Key(s, d)
        BY <1>2, <1>3, <3>2 DEF OnePerKey
      <4> QED
        BY <1>4, <3>2, <4>1, <4>2
    <3> QED
      BY <3>1, <3>2
  <2> QED
    BY <1>1, <1>2, <1>5, <1>7, <2>2, <2>3
<1> QED
  BY <1>6, <1>7

LEMMA WriteLandsKeeps ==
  ASSUME IInv, WriteLands
  PROVE  IInv'
<1>1. PICK w : w = chain[1]
  OBVIOUS
<1>2. PICK s : s = w.view
  OBVIOUS
<1>3. PICK table : table = Written(w)
  OBVIOUS
<1>4. PICK next : next = Ended([views[s] EXCEPT !.table = table])
  OBVIOUS
<1>5. /\ chain # <<>> /\ chain' = Tail(chain) /\ UNCHANGED liveVars
      /\ views' = [views EXCEPT ![s] = next] /\ s = chain[1].view
  BY <1>1, <1>2, <1>3, <1>4 DEF WriteLands
<1>6. /\ LiveInv' /\ subs' = subs /\ \A z \in Subs : Over(z) => Over(z)'
  BY <1>5, Unseen
<1>7. ChainOK' /\ w \in ChainWrites /\ 1 \in DOMAIN chain
  BY <1>1, <1>5, ChainGoesOn DEF IInv
<1>8. s \in Subs
  BY <1>2, <1>7 DEF ChainWrites
<1>9. PICK view : view = views[s]
  OBVIOUS
<1>10. /\ view.step = "writing" /\ w.puts = Puts(s, view) /\ w.removes = Removes(s, view)
  BY <1>1, <1>2, <1>7, <1>9 DEF IInv, ViewsInv, ChainOK
<1>11. /\ view \in Derivations /\ ViewOK(s, view) /\ Kept(s, view)
       /\ Mirrored(s, view, subs[s].shown.rows)
  BY <1>8, <1>9, ViewFacts DEF IInv
<1>12. /\ table \in Tables /\ OnePerKey(s, table)
       /\ s \in Histories => view.table \cup view.snapshot \subseteq table
       /\ s \notin Histories => table = view.snapshot
  BY <1>2, <1>3, <1>7, <1>9, <1>10, <1>11, WrittenTable
<1>13. /\ ViewOK(s, next) /\ Kept(s, next) /\ Mirrored(s, next, subs[s].shown.rows)
       /\ next.gone = views[s].gone
  BY <1>4, <1>8, <1>9, <1>10, <1>11, <1>12, EndedKeeps
<1>14. ViewsInv'
  BY <1>5, <1>6, <1>7, <1>8, <1>13, OneViewSteps DEF IInv
<1> QED
  BY <1>6, <1>14 DEF IInv

LEMMA WriteFailsKeeps ==
  ASSUME IInv, WriteFails
  PROVE  IInv'
<1>1. PICK s : s = chain[1].view
  OBVIOUS
<1>2. PICK next : next = Dropped(s, views[s])
  OBVIOUS
<1>3. /\ chain # <<>> /\ chain' = Tail(chain) /\ UNCHANGED liveVars
      /\ views' = [views EXCEPT ![s] = next]
  BY <1>1, <1>2 DEF WriteFails
<1>4. /\ LiveInv' /\ subs' = subs /\ \A z \in Subs : Over(z) => Over(z)'
  BY <1>3, Unseen
<1>5. ChainOK' /\ s \in Subs /\ 1 \in DOMAIN chain
  BY <1>1, <1>3, ChainGoesOn DEF IInv, ChainWrites
<1>6. views[s].step = "writing"
  BY <1>1, <1>5 DEF IInv, ViewsInv, ChainOK
<1>7. /\ ViewOK(s, next) /\ Kept(s, next) /\ Mirrored(s, next, subs[s].shown.rows)
      /\ next.gone = views[s].gone
  BY <1>2, <1>5, <1>6, ViewFacts, DroppedKeeps DEF IInv
<1>8. ViewsInv'
  BY <1>3, <1>4, <1>5, <1>7, OneViewSteps DEF IInv
<1> QED
  BY <1>4, <1>8 DEF IInv

\* Views are gone with their subscriptions.
LEMMA ClosedKeeps ==
  ASSUME ViewsInv, NEW gone \in SUBSET Subs, Closed(gone), UNCHANGED chain,
         \A s \in Subs : subs'[s].shown = subs[s].shown /\ (Over(s) => Over(s)'),
         \A s \in gone : Over(s)'
  PROVE  ViewsInv'
<1>1. views \in [Subs -> Derivations]
  BY DEF ViewsInv
<1>2. ASSUME NEW s \in Subs
      PROVE  /\ views'[s] \in Derivations
             /\ views'[s].step = views[s].step /\ views'[s].table = views[s].table
             /\ views'[s].snapshot = views[s].snapshot
             /\ s \in gone => views'[s].gone /\ views'[s].queued = <<>>
             /\ s \notin gone => views'[s] = views[s]
  <2>1. PICK none \in Seq(Tables) : none = <<>>
    BY EmptySeq
  <2>2. views'[s] = IF s \in gone THEN [views[s] EXCEPT !.gone = TRUE, !.queued = none]
                    ELSE views[s]
    BY <2>1 DEF Closed
  <2>3. views[s] \in Derivations
    BY <1>1
  <2>4. CASE s \in gone
    <3>1. views'[s] = [views[s] EXCEPT !.gone = TRUE, !.queued = none]
      BY <2>2, <2>4
    <3> QED
      BY <2>1, <2>3, <2>4, <3>1 DEF Derivations
  <2>5. CASE s \notin gone
    BY <2>2, <2>3, <2>5
  <2> QED
    BY <2>4, <2>5
<1>3. views' \in [Subs -> Derivations]
  BY <1>2 DEF Closed
<1>4. ChainOK'
  <2>1. ChainOK /\ \A j \in DOMAIN chain : chain[j] \in ChainWrites
    BY LenProperties DEF ViewsInv, ChainOK
  <2>2. \A j \in DOMAIN chain : chain[j].view \in Subs /\ views[chain[j].view].step = "writing"
    BY <2>1 DEF ChainOK, ChainWrites
  <2> QED
    BY <1>2, <2>1, <2>2, SameChain
<1>5. ASSUME NEW s \in Subs
      PROVE  /\ ViewOK(s, views[s])' /\ Kept(s, views[s])'
             /\ Mirrored(s, views[s], subs[s].shown.rows)'
             /\ views'[s].gone => Over(s)'
  <2>1. /\ ViewOK(s, views[s]) /\ Kept(s, views[s])
        /\ Mirrored(s, views[s], subs[s].shown.rows)
        /\ views[s].gone => Over(s)
    BY DEF ViewsInv
  <2>2. CASE s \in gone
    <3>1. ~\E t : In(t, <<>>)
      BY DEF In
    <3>2. ViewOK(s, views[s])'
      BY <1>2, <2>1, <2>2, <3>1 DEF ViewOK, OnePerKey, Key
    <3> QED
      BY <1>2, <2>2, <3>2 DEF Kept, Mirrored
  <2>3. CASE s \notin gone
    <3>1. views'[s] = views[s] /\ subs'[s].shown.rows = subs[s].shown.rows
      BY <1>2, <2>3
    <3> QED
      BY <2>1, <3>1 DEF ViewOK, Kept, Mirrored, OnePerKey, Key
  <2> QED
    BY <2>2, <2>3
<1> QED
  BY <1>3, <1>4, <1>5 DEF ViewsInv

LEMMA DisposedSubs ==
  ASSUME LiveInv, NEW gone \in SUBSET Subs, NEW others, Dispose(gone, others)
  PROVE  /\ \A s \in Subs : subs'[s].shown = subs[s].shown /\ (Over(s) => Over(s)')
         /\ \A s \in gone : Over(s)'
<1>1. ASSUME NEW s \in Subs
      PROVE  /\ subs'[s].shown = subs[s].shown
             /\ subs'[s].step = IF s \in gone THEN "gone" ELSE subs[s].step
  <2>1. subs[s] \in Executors
    BY SubFacts DEF LiveInv
  <2>2. subs'[s] = IF s \in gone THEN [subs[s] EXCEPT !.step = "gone"] ELSE subs[s]
    BY DEF Dispose
  <2> QED
    BY <2>1, <2>2 DEF Executors
<1> QED
  BY <1>1 DEF Over

LEMMA DisposeViewKeeps ==
  ASSUME IInv, NEW s \in Subs, DisposeView(s)
  PROVE  IInv'
<1>1. Unsubscribe(s) /\ Closed({s}) /\ UNCHANGED chain /\ Dispose({s}, 0)
  BY DEF DisposeView, Unsubscribe
<1>2. LiveInv'
  BY <1>1, UnsubscribeKeeps DEF IInv
<1>3. ViewsInv'
  <2>1. {s} \in SUBSET Subs
    OBVIOUS
  <2> QED
    BY <1>1, <2>1, DisposedSubs, ClosedKeeps DEF IInv
<1> QED
  BY <1>2, <1>3 DEF IInv

LEMMA DisposeAllKeeps ==
  ASSUME IInv, NEW st \in Stores, DisposeAll(st)
  PROVE  IInv'
<1> DEFINE gone == {s \in Subs : Home[s] = st}
           made == {s \in Made : Home[s] = st}
<1>1. DisposeStore(st) /\ Closed(gone) /\ UNCHANGED chain /\ Dispose(made, 1)
  BY DEF DisposeAll, DisposeStore
<1>2. LiveInv'
  BY <1>1, DisposeStoreKeeps DEF IInv
<1>3. gone \in SUBSET Subs /\ made \in SUBSET Subs
  BY DEF Made
<1>4. \A s \in gone \ made : Over(s)
  BY DEF Made, Over
<1> HIDE DEF gone, made
<1>5. /\ \A s \in Subs : subs'[s].shown = subs[s].shown /\ (Over(s) => Over(s)')
      /\ \A s \in made : Over(s)'
  BY <1>1, <1>3, DisposedSubs DEF IInv
<1>6. \A s \in gone : Over(s)'
  BY <1>3, <1>4, <1>5
<1>7. ViewsInv'
  BY <1>1, <1>3, <1>5, <1>6, ClosedKeeps DEF IInv
<1> QED
  BY <1>2, <1>7 DEF IInv

-----------------------------------------------------------------------------
(* The invariant.                                                           *)

LEMMA InitIInv == Init => IInv
<1> SUFFICES ASSUME Init PROVE IInv
  OBVIOUS
<1>1. LiveInv
  BY LiveStart DEF Init
<1>2. PICK none \in Seq(Tables) : none = <<>>
  BY EmptySeq
<1>3. PICK no \in Tables : no = {}
  BY DEF Tables
<1>4. /\ views = [s \in Subs |-> [queued |-> none, step |-> "idle", snapshot |-> no, table |-> no,
                                  gone |-> FALSE, failed |-> FALSE, handed |-> no, lost |-> no]]
      /\ chain = <<>>
  BY <1>2, <1>3 DEF Init
<1>5. ASSUME NEW s \in Subs
      PROVE  /\ ViewOK(s, views[s]) /\ Kept(s, views[s])
             /\ Mirrored(s, views[s], subs[s].shown.rows)
             /\ ~views[s].gone /\ views[s] \in Derivations
  <2>1. /\ views[s] \in Derivations /\ views[s].queued = none /\ views[s].step = "idle"
        /\ views[s].snapshot = no /\ views[s].table = no /\ ~views[s].gone
        /\ views[s].handed = no
    BY <1>4 DEF Derivations
  <2>2. ~\E t : In(t, <<>>)
    BY DEF In
  <2>3. subs[s].shown.rows = {}
    BY DEF Init, LiveInit, Unread
  <2> QED
    BY <1>2, <1>3, <2>1, <2>2, <2>3 DEF ViewOK, Kept, Mirrored, OnePerKey
<1>6. ChainOK
  BY <1>4 DEF ChainOK
<1>7. views \in [Subs -> Derivations]
  BY <1>4, <1>5
<1> QED
  BY <1>1, <1>5, <1>6, <1>7 DEF IInv, ViewsInv

LEMMA NextIInv == IInv /\ [Next]_vars => IInv'
<1> SUFFICES ASSUME IInv, [Next]_vars PROVE IInv'
  OBVIOUS
<1>1. CASE LiveStep /\ UNCHANGED <<views, chain>>
  <2>1. LiveInv'
    BY <1>1, LiveStepKeeps DEF IInv
  <2>2. \A s \in Subs : subs'[s].shown = subs[s].shown /\ (Over(s) => Over(s)')
    BY <1>1, LiveStepLeaves DEF IInv
  <2>3. ViewsInv'
    BY <1>1, <2>2, ViewsWait DEF IInv
  <2> QED
    BY <2>1, <2>3 DEF IInv
<1>2. ASSUME NEW s \in Subs, NEW k \in 1..MaxAsked, Derive(s, k) PROVE IInv'
  BY <1>2, DeriveKeeps
<1>3. ASSUME NEW s \in Subs, ViewStep(s) PROVE IInv'
  BY <1>3, ReconcileKeeps, ReconcileFailsKeeps DEF ViewStep
<1>4. CASE WriteStarts \/ WriteLands \/ WriteFails
  BY <1>4, WriteStartsKeeps, WriteLandsKeeps, WriteFailsKeeps
<1>5. ASSUME NEW s \in Subs, DisposeView(s) PROVE IInv'
  BY <1>5, DisposeViewKeeps
<1>6. ASSUME NEW st \in Stores, DisposeAll(st) PROVE IInv'
  BY <1>6, DisposeAllKeeps
<1>7. CASE UNCHANGED vars
  <2>1. LiveInv' /\ subs' = subs /\ \A z \in Subs : Over(z) => Over(z)'
    BY <1>7, Unseen DEF vars
  <2>2. ViewsInv'
    BY <1>7, <2>1, ViewsWait DEF IInv, vars
  <2> QED
    BY <2>1, <2>2 DEF IInv
<1> QED
  BY <1>1, <1>2, <1>3, <1>4, <1>5, <1>6, <1>7 DEF Next

LEMMA Invariant == Spec => []IInv
<1> QED
  BY InitIInv, NextIInv, PTL DEF Spec

-----------------------------------------------------------------------------
(* What it says.                                                            *)

LEMMA TypesHold == IInv => TypeOK
<1> SUFFICES ASSUME IInv PROVE TypeOK
  OBVIOUS
<1>1. MaxChanges \in Nat
  BY LiveAssumption
<1>2. LiveTypeOK
  <2>1. ticks \in 0..MaxChanges + Cardinality(Subs)
    <3>1. Cardinality(Begun) <= Cardinality(Subs) /\ Cardinality(Subs) \in Nat
      <4>1. Begun \in SUBSET Subs
        BY DEF Begun
      <4> QED
        BY <4>1, LiveAssumption, FS_Subset, FS_CardinalityType
    <3>2. Cardinality(landed) \in Nat /\ ticks + Cardinality(landed) <= changes + Cardinality(Begun)
      BY FS_CardinalityType DEF IInv, LiveInv, Ticked
    <3>3. Cardinality(Begun) \in Nat /\ ticks \in Nat /\ changes \in 0..MaxChanges
      BY CountedLive DEF IInv, LiveInv, LiveShapes, RowsOK
    <3> QED
      BY <1>1, <3>1, <3>2, <3>3
  <2>2. channel.exists \in BOOLEAN /\ channel.count \in Nat
    <3>1. channel.count = Cardinality(open) + Cardinality(Live)
      BY DEF IInv, LiveInv, Retained
    <3>2. Cardinality(open) \in Nat /\ Cardinality(Live) \in Nat
      BY CountedLive DEF IInv, LiveInv
    <3>3. channel.exists \in BOOLEAN
      BY DEF IInv, LiveInv, LiveShapes
    <3> QED
      BY <3>1, <3>2, <3>3
  <2>3. ASSUME NEW s \in Subs
        PROVE  /\ subs[s].step \in {"none", "new", "live", "gone"}
               /\ subs[s].stale \in {"no", "raced", "lost"}
               /\ subs[s].shown \in Result
               /\ \A k \in DOMAIN subs[s].asked : subs[s].asked[k] \in Result
    <3>1. ASSUME NEW x, Of(s, x) PROVE x \in Result
      <4>1. Dated(s) /\ x \in Results
        <5>1. \A k \in DOMAIN subs[s].asked : subs[s].asked[k] \in Results
          BY SubFacts, LenProperties DEF IInv, LiveInv
        <5> QED
          BY <3>1, <5>1, SubFacts DEF Of, In, IInv, LiveInv
      <4>2. x.asOf \in -1..changes /\ changes \in 0..MaxChanges
        BY <3>1, <4>1 DEF Dated, IInv, LiveInv, LiveShapes, RowsOK
      <4>3. x.asOf \in -1..MaxChanges
        BY <1>1, <4>2
      <4> QED
        BY <4>1, <4>3 DEF Result, Results, Versions
    <3> QED
      BY <3>1, SubFacts DEF Of, In, IInv, LiveInv
  <2>4. \A m \in landed : m.from \in Threads /\ m.id \in Ids /\ m.match \in BOOLEAN
    BY DEF IInv, LiveInv, LiveShapes, Notices
  <2> QED
    BY <2>1, <2>2, <2>3, <2>4 DEF LiveTypeOK, IInv, LiveInv, LiveShapes, RowsOK
<1>3. ASSUME NEW s \in Subs
      PROVE  /\ views[s].step \in {"idle", "reading", "writing"}
             /\ {views[s].snapshot, views[s].table} \subseteq SUBSET Versions
             /\ \A r, q \in views[s].table : Key(s, r) = Key(s, q) => r = q
  BY ViewFacts DEF IInv, Derivations, Tables, ViewOK, OnePerKey
<1>4. \A k \in DOMAIN chain : chain[k].view \in Subs
  <2>1. \A k \in DOMAIN chain : chain[k] \in ChainWrites
    BY LenProperties DEF IInv, ViewsInv, ChainOK
  <2> QED
    BY <2>1 DEF ChainWrites
<1> QED
  BY <1>2, <1>3, <1>4 DEF TypeOK

\* View.ts, DataBridge.subscribe and QueryableExecutor: every variable keeps its type;
\* a view's table has one row for each key, and the channel's count does not go below
\* zero, however often subscriptions and stores are disposed.
THEOREM TypeCorrect == Spec => []TypeOK
<1> QED
  BY Invariant, TypesHold, PTL

LEMMA QuietMeansRight ==
  ASSUME IInv, NEW s \in Live, Quiet(s), subs[s].stale = "no"
  PROVE  subs[s].shown.rows = Answer(s).rows
<1>1. s \in Subs /\ Tracked(s) /\ LiveShapes
  BY DEF Live, IInv, LiveInv
<1>2. subs[s].asked = <<>> /\ landed = {} /\ \A t \in Threads : mail[t] = <<>>
  BY DEF Quiet
<1>3. \A x : ~In(x, subs[s].asked)
  BY <1>2 DEF In
<1>4. subs[s].shown \in Results /\ subs[s].shown.asOf \in Int
  BY <1>1, SubFacts DEF Results
<1>5. Newest(s, subs[s].shown)
  BY <1>3, <1>4 DEF Newest, Of
<1>6. \A m : ~Due(s, m)
  BY <1>2 DEF Due
<1>7. \A i \in Ids : Right(s, subs[s].shown, i)
  BY <1>1, <1>3, <1>5, <1>6 DEF Tracked, WillConcern
<1>8. Answer(s) \in Results
  BY <1>1, AnswerTyped DEF LiveShapes
<1>9. \A r \in subs[s].shown.rows \cup Answer(s).rows : r.id \in Ids
  BY <1>4, <1>8 DEF Results, Versions
<1> QED
  BY <1>7, <1>9 DEF Right, Says

\* DataBridge.subscribe and QueryableExecutor: for any rows, stores, filters and
\* subscriptions, once every change was announced and heard, a live subscriber that lost
\* nothing and saw no race shows what matches now.
THEOREM QuietMeansCurrent == Spec => []StaleOnlyByRace
<1>1. IInv => StaleOnlyByRace
  BY QuietMeansRight DEF StaleOnlyByRace
<1> QED
  BY <1>1, Invariant, PTL

\* View.ts, reconcile: for any collection and any order of changes, answers, failures and
\* disposals, a settled mirror with a quiet subscription that is not stale, and no failed
\* last write, holds the rows that match now.
THEOREM MirrorsFollow == Spec => []MirrorFollowsSource
<1>1. IInv => MirrorFollowsSource
  <2> SUFFICES ASSUME IInv, NEW s \in Live \ Histories, Settled(s), Quiet(s),
                      subs[s].stale = "no", ~views[s].failed
               PROVE  views[s].table = Answer(s).rows
    BY DEF MirrorFollowsSource
  <2>1. s \in Subs /\ ~views[s].gone
    BY DEF Live, IInv, ViewsInv, Over
  <2>2. views[s].queued = <<>> /\ views[s].step = "idle"
    BY DEF Settled
  <2>3. <<>> # <<subs[s].shown.rows>>
    OBVIOUS
  <2>4. views[s].table = subs[s].shown.rows
    BY <2>1, <2>2, <2>3, ViewFacts DEF IInv, Mirrored
  <2> QED
    BY <2>4, QuietMeansRight
<1> QED
  BY <1>1, Invariant, PTL

\* View.ts:64-69: for any changes and however its snapshots queue behind each other, a
\* settled history has every version that it was handed, but for those whose reconcile
\* failed.
THEOREM HistoriesKeepAll == Spec => []HistoryKeepsEveryVersion
<1>1. IInv => HistoryKeepsEveryVersion
  <2> SUFFICES ASSUME IInv, NEW s \in Histories, Settled(s), ~views[s].gone,
                      NEW r \in views[s].handed
               PROVE  r \in views[s].table \cup views[s].lost
    BY DEF HistoryKeepsEveryVersion
  <2>1. s \in Subs
    BY ViewsAssumption
  <2>2. views[s].queued = <<>> /\ views[s].step = "idle"
    BY DEF Settled
  <2>3. \A t : ~In(t, views[s].queued)
    BY <2>2 DEF In
  <2>4. views[s].snapshot = {}
    BY <2>1, <2>2, ViewFacts DEF IInv, ViewOK
  <2> QED
    BY <2>1, <2>3, <2>4, ViewFacts DEF IInv, Kept
<1> QED
  BY <1>1, Invariant, PTL
=============================================================================
