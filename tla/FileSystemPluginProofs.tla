------------------------ MODULE FileSystemPluginProofs ------------------------
(***************************************************************************)
(* Proofs about FileSystemPlugin, for any files and rows, any number of    *)
(* persists and faults: every variable keeps its type, and no stored row   *)
(* that no persist names is ever missing from its file, unless an add was  *)
(* numbered over it before the file was read.                              *)
(*                                                                         *)
(* That a file keeps such a row is not inductive by itself: it says        *)
(* nothing of the snapshots on their way to the file, nor of the memory    *)
(* they are taken of.  RecordOK adds that a snapshot under way has the     *)
(* row, MemoryKept that the memory of a loaded file has it, and that of    *)
(* one not loaded the stored row or none.  NumbersMet adds that a loaded   *)
(* collection counts from above such rows, so no add is numbered over one. *)
(* The rest of IInv types what the steps read: a running persist has the   *)
(* fields it goes on with, and the file at hand is one of those it         *)
(* changes.                                                                *)
(*                                                                         *)
(* What a persist is told is what it did as long as none overlapped, if no *)
(* persist adds a row that is there (the undo of an add removes whatever   *)
(* row has the key).  Then at most one persist runs, and Quiet says for    *)
(* each of its phases which of its rows memory and files hold already, and *)
(* that all other rows are what the history says.                          *)
(***************************************************************************)
EXTENDS FileSystemPlugin, SequenceTheorems, WellFoundedInduction, NaturalsInduction, TLAPS

Live == {"load", "save", "saving", "resave", "resaving"}
Writing == {"saving", "resaving"}
Fields == {"changes", "phase", "at", "failed", "snapshot", "undo"}
Table == [Files -> [Rows -> Contents]]
Cells == Files \X Nat

Altered == [kind : {"add", "update", "remove"}, row : Nat, checked : BOOLEAN]
States == {"unloaded", "loading", "loaded"}

\* The stored rows of a file that no persist names and no add was numbered over before the
\* file was read.
Safe(f, lost) ==
  Unnamed \ {r \in Rows : \E state \in {"unloaded", "loading"} : <<f, r, state>> \in lost}

Kept(f, rows, lost) == \A r \in Safe(f, lost) : rows[r] = Seed

\* A change is of a row that persists name or, once it has a number, of one that is
\* not safe.
Harmless(f, change, lost) ==
  \/ change.row \in Named
  \/ change.kind = "add" /\ f \in Numbering /\ change.row \notin Safe(f, lost)

\* A running persist: what it changes, and the file at hand, one of them.
PersistOK(q, lost) ==
  /\ DOMAIN q = Fields
  /\ DOMAIN q.changes \subseteq Files /\ DOMAIN q.changes # {}
  /\ \A f \in DOMAIN q.changes : q.changes[f] \in Altered /\ Harmless(f, q.changes[f], lost)
  /\ q.phase # "load" => q.at \in DOMAIN q.changes
  /\ q.snapshot \in [Rows -> Contents]
  /\ q.undo \in [DOMAIN q.changes -> Contents]

\* The persists so far: those running are well formed, and the snapshot of one
\* that is saving has the stored rows.
RecordOK(q, lost) ==
  /\ q.phase \in Ended \cup Live
  /\ q.phase \in Live => PersistOK(q, lost)
  /\ q.phase \in Writing => Kept(q.at, q.snapshot, lost)
Listed == \E n \in 0..MaxPersists : persists = [p \in 1..n |-> persists[p]]
RecordsOK == \A p \in DOMAIN persists : RecordOK(persists[p], collided)
Accounted == Listed /\ RecordsOK

\* The parts of TypeOK.
CollectionsTyped == {memory, disk, truth} \subseteq Table
Callers == {Query} \cup DOMAIN persists
LoadsTyped ==
  /\ loadState \in [Files -> {"unloaded", "loading", "loaded"}]
  /\ waiters \in [Files -> Seq(Callers)]
  /\ \A f \in Files : waiters[f] # <<>> <=> loadState[f] = "loading"
Entries == [who : Callers, ok : BOOLEAN]
TurnTyped == turn \in Seq(Entries)
HistoryTyped ==
  /\ torn \cup stale \subseteq Cells /\ faults \in 0..MaxFaults
  /\ collided \subseteq Files \X Nat \X States
IdsTyped == nextIds \in [Numbering -> Nat]
FlagTyped == overlapped \in BOOLEAN

\* What the collections in memory have of the stored rows.
MemoryKept ==
  /\ \A f \in Files : loadState[f] = "loaded" => Kept(f, memory[f], collided)
  /\ \A f \in Files : \A r \in Safe(f, collided) : memory[f][r] \in {0, Seed}

FilesKept == \A f \in Files : Kept(f, disk[f], collided)

\* The collection of a loaded file has met the numbers of its stored rows.
NumbersMet ==
  \A f \in Numbering : loadState[f] = "loaded" => \A r \in Safe(f, collided) : r <= nextIds[f]

IInv == /\ Accounted /\ CollectionsTyped /\ LoadsTyped /\ TurnTyped /\ HistoryTyped /\ FlagTyped
        /\ IdsTyped /\ MemoryKept /\ FilesKept /\ NumbersMet

-----------------------------------------------------------------------------
(* Lemmas about the operators of the model.                                 *)

LEMMA MinIsMember ==
  ASSUME NEW S \in SUBSET Nat, S # {}
  PROVE  Min(S) \in S /\ \A y \in S : Min(S) <= y
<1>1. IsWellFoundedOn(OpToRel(<, Nat), Nat)
  BY NatLessThanWellFounded
<1>2. PICK m \in S : \A y \in S : ~(<<y, m>> \in OpToRel(<, Nat))
  BY <1>1, WFMin
<1>3. \A y \in S : m <= y
  <2>1. ASSUME NEW y \in S, y < m PROVE FALSE
    <3>1. <<y, m>> \in Nat \X Nat /\ <<y, m>>[1] < <<y, m>>[2]
      BY <2>1, SMT
    <3>2. <<y, m>> \in OpToRel(<, Nat)
      BY <3>1, Zenon DEF OpToRel
    <3>3. QED BY <3>2, <1>2, Zenon
  <2>2. QED BY <2>1, SMT
<1>4. QED BY <1>3 DEF Min

LEMMA AppendToList ==
  ASSUME NEW n \in Nat, NEW s, s = [i \in 1..n |-> s[i]], NEW e
  PROVE  /\ Len(s) = n
         /\ Append(s, e) = [i \in 1..(n + 1) |-> IF i = n + 1 THEN e ELSE s[i]]
<1> DEFINE S == {s[i] : i \in 1..n} \cup {e}
<1>1. s \in Seq(S)
  BY SeqDef
<1>2. Len(s) = n
  BY <1>1, LenProperties
<1>3. QED BY <1>1, <1>2, AppendProperties

\* Which rows there are.
LEMMA RowsInOrder ==
  /\ Rows \in SUBSET Nat /\ 0 \notin Rows
  /\ Named \subseteq Rows /\ Unnamed \subseteq Rows /\ Named \cap Unnamed = {}
  /\ \E k \in Nat : Rows = 1..k
<1>1. PICK k \in Nat : Rows = 1..k /\ LastRow <= k
  BY RowsAssumption, BoundAssumption DEF Rows
<1>2. Named \subseteq 1..LastRow /\ Unnamed = (1..LastRow) \ Named
  BY RowsAssumption DEF Unnamed
<1>3. QED BY <1>1, <1>2, RowsAssumption

\* A row is safe no longer when an add is numbered over it, and never again.
LEMMA SafeShrinks ==
  ASSUME NEW lost, NEW more, lost \subseteq more
  PROVE  /\ \A f : Safe(f, more) \subseteq Safe(f, lost)
         /\ \A q : RecordOK(q, lost) => RecordOK(q, more)
<1>1. \A f : Safe(f, more) \subseteq Safe(f, lost)
  BY DEF Safe
<1>2. ASSUME NEW q, RecordOK(q, lost) PROVE RecordOK(q, more)
  <2>1. \A f, change : Harmless(f, change, lost) => Harmless(f, change, more)
    BY <1>1 DEF Harmless
  <2>2. PersistOK(q, lost) => PersistOK(q, more)
    BY <2>1 DEF PersistOK
  <2>3. Kept(q.at, q.snapshot, lost) => Kept(q.at, q.snapshot, more)
    BY <1>1 DEF Kept
  <2>4. QED BY <1>2, <2>2, <2>3 DEF RecordOK
<1>3. QED BY <1>1, <1>2

LEMMA RunningProperties ==
  ASSUME IInv, NEW p \in DOMAIN persists, persists[p].phase \in Live
  PROVE  /\ PersistOK(persists[p], collided)
         /\ p \in 1..MaxPersists
         /\ Touched(p) \subseteq Files /\ Touched(p) # {}
         /\ \A f \in Touched(p) : /\ Change(p, f).row \in Nat \ Safe(f, collided)
                                  /\ Change(p, f).kind # "add" => Change(p, f).row \in Rows
                                  /\ Cell(p, f) \in Cells
<1>1. PersistOK(persists[p], collided)
  BY DEF IInv, Accounted, RecordsOK, RecordOK
<1>2. p \in 1..MaxPersists
  BY BoundAssumption DEF IInv, Accounted, Listed
<1>3. Touched(p) \subseteq Files /\ Touched(p) # {}
  BY <1>1 DEF PersistOK, Touched
<1>4. ASSUME NEW f \in Touched(p)
      PROVE  /\ Change(p, f).row \in Nat \ Safe(f, collided)
             /\ Change(p, f).kind # "add" => Change(p, f).row \in Rows
  <2>1. Change(p, f) \in Altered /\ Harmless(f, Change(p, f), collided)
    BY <1>1, <1>4 DEF PersistOK, Touched, Change
  <2>2. CASE Change(p, f).row \in Named
    BY <2>1, <2>2, RowsInOrder DEF Safe, Unnamed, Altered
  <2>3. CASE Change(p, f).row \notin Named
    BY <2>1, <2>3 DEF Harmless, Altered
  <2>4. QED BY <2>2, <2>3
<1>5. \A f \in Touched(p) : Cell(p, f) \in Cells
  BY <1>3, <1>4 DEF Cell, Cells
<1>6. QED BY <1>1, <1>2, <1>3, <1>4, <1>5

\* Collections in which each of some files has one row replaced.
Replaced(table, files, row, new) ==
  [f \in Files |-> IF f \in files THEN [table[f] EXCEPT ![row[f]] = new[f]] ELSE table[f]]

LEMMA RowsReplaced ==
  ASSUME NEW table \in Table, NEW files \in SUBSET Files,
         NEW row \in [files -> Nat], NEW new \in [files -> Contents]
  PROVE  /\ Replaced(table, files, row, new) \in Table
         /\ \A f \in Files, r \in Rows :
              (f \in files => r # row[f]) => Replaced(table, files, row, new)[f][r] = table[f][r]
<1> DEFINE result == Replaced(table, files, row, new)
<1>1. ASSUME NEW f \in Files
      PROVE  /\ result[f] \in [Rows -> Contents]
             /\ \A r \in Rows : (f \in files => r # row[f]) => result[f][r] = table[f][r]
  <2>1. table[f] \in [Rows -> Contents]
    BY DEF Table
  <2>2. CASE f \in files
    <3>1. result[f] = [table[f] EXCEPT ![row[f]] = new[f]]
      BY <2>2 DEF Replaced
    <3>2. row[f] \in Nat /\ new[f] \in Contents
      BY <2>2
    <3>3. QED BY <2>1, <2>2, <3>1, <3>2
  <2>3. CASE f \notin files
    BY <2>1, <2>3 DEF Replaced
  <2>4. QED BY <2>2, <2>3
<1>2. result \in Table
  BY <1>1 DEF Table, Replaced
<1>3. QED BY <1>1, <1>2

LEMMA AppliedType ==
  ASSUME IInv, NEW p \in DOMAIN persists, persists[p].phase \in Live, NEW table \in Table
  PROVE  /\ Applied(table, p, Touched(p)) \in Table
         /\ \A f \in Files : \A r \in Safe(f, collided) :
              Applied(table, p, Touched(p))[f][r] = table[f][r]
<1> DEFINE row == [f \in Touched(p) |-> Change(p, f).row]
           new == [f \in Touched(p) |-> Content(p, f)]
<1>1. /\ Touched(p) \subseteq Files /\ row \in [Touched(p) -> Nat]
      /\ \A f \in Touched(p) : row[f] \notin Safe(f, collided)
  BY RunningProperties
<1>2. new \in [Touched(p) -> Contents]
  <2>1. p \in 1..MaxPersists
    BY RunningProperties
  <2>2. p \in Contents /\ 0 \in Contents
    BY <2>1, BoundAssumption DEF Contents, Seed
  <2>3. QED BY <2>2 DEF Content
<1>3. Applied(table, p, Touched(p)) = Replaced(table, Touched(p), row, new)
  BY DEF Applied, With, Replaced
<1> HIDE DEF row, new
<1>4. \A f : Safe(f, collided) \subseteq Rows
  BY RowsInOrder DEF Safe
<1>5. QED BY <1>1, <1>2, <1>3, <1>4, RowsReplaced

LEMMA RevertedType ==
  ASSUME IInv, NEW p \in DOMAIN persists, persists[p].phase \in Live
  PROVE  /\ Reverted(p) \in Table
         /\ \A f \in Files : \A r \in Safe(f, collided) : Reverted(p)[f][r] = memory[f][r]
<1> DEFINE row == [f \in Touched(p) |-> Change(p, f).row]
           new == persists[p].undo
<1>1. /\ Touched(p) \subseteq Files /\ row \in [Touched(p) -> Nat]
      /\ \A f \in Touched(p) : row[f] \notin Safe(f, collided)
  BY RunningProperties
<1>2. new \in [Touched(p) -> Contents]
  BY RunningProperties DEF PersistOK, Touched
<1>3. memory \in Table
  BY DEF IInv, CollectionsTyped
<1>4. Reverted(p) = Replaced(memory, Touched(p), row, new)
  BY DEF Reverted, With, Replaced
<1> HIDE DEF row, new
<1>5. \A f : Safe(f, collided) \subseteq Rows
  BY RowsInOrder DEF Safe
<1>6. QED BY <1>1, <1>2, <1>3, <1>4, <1>5, RowsReplaced

LEMMA TypesHold == IInv => TypeOK
<1>1. SUFFICES ASSUME IInv PROVE TypeOK
  OBVIOUS
<1>2. {memory, disk, truth} \subseteq [Files -> [Rows -> Contents]]
  BY <1>1 DEF IInv, CollectionsTyped, Table
<1>3. /\ loadState \in [Files -> {"unloaded", "loading", "loaded"}]
      /\ waiters \in [Files -> Seq({Query} \cup DOMAIN persists)]
      /\ \A f \in Files : waiters[f] # <<>> <=> loadState[f] = "loading"
  BY <1>1 DEF IInv, LoadsTyped, Callers
<1>4. turn \in Seq([who : {Query} \cup DOMAIN persists, ok : BOOLEAN])
  BY <1>1 DEF IInv, TurnTyped, Entries, Callers
<1>5. \A p \in DOMAIN persists :
        persists[p].phase \in Ended \cup {"load", "save", "saving", "resave", "resaving"}
  BY <1>1 DEF IInv, Accounted, RecordsOK, RecordOK, Live
<1>6. /\ torn \cup stale \subseteq Files \X Nat /\ faults \in 0..MaxFaults
      /\ collided \subseteq Files \X Nat \X {"unloaded", "loading", "loaded"}
      /\ nextIds \in [Numbering -> Nat]
  BY <1>1 DEF IInv, HistoryTyped, IdsTyped, Cells, States
<1>7. overlapped \in BOOLEAN
  BY <1>1 DEF IInv, FlagTyped
<1>8. QED BY <1>2, <1>3, <1>4, <1>5, <1>6, <1>7 DEF TypeOK

LEMMA InitIInv == Init => IInv
<1>1. SUFFICES ASSUME Init PROVE IInv
  OBVIOUS
<1>2. CollectionsTyped
  <2>1. {0, Seed} \subseteq Contents
    BY BoundAssumption DEF Contents, Seed
  <2>2. disk \in [Files -> [Rows -> {0, Seed}]] /\ truth = disk
    BY <1>1 DEF Init
  <2>3. memory = [f \in Files |-> Empty]
    BY <1>1 DEF Init
  <2>4. disk \in Table /\ memory \in Table
    BY <2>1, <2>2, <2>3 DEF Table, Empty
  <2>5. QED BY <2>2, <2>4 DEF CollectionsTyped
<1>3. Accounted
  <2>1. persists = <<>>
    BY <1>1 DEF Init
  <2>2. persists = [p \in 1..0 |-> persists[p]] /\ DOMAIN persists = {}
    BY <2>1
  <2>3. QED BY <2>2, BoundAssumption DEF Accounted, Listed, RecordsOK
<1>4. LoadsTyped
  BY <1>1, EmptySeq DEF Init, LoadsTyped
<1>5. TurnTyped
  BY <1>1, EmptySeq DEF Init, TurnTyped
<1>6. HistoryTyped
  BY <1>1, BoundAssumption DEF Init, HistoryTyped
<1>7. FlagTyped
  BY <1>1, Zenon DEF Init, FlagTyped
<1>8. MemoryKept /\ FilesKept
  BY <1>1, RowsInOrder DEF Init, MemoryKept, FilesKept, Kept, Safe, Empty
<1>9. IdsTyped /\ NumbersMet
  BY <1>1, RowsAssumption DEF Init, IdsTyped, NumbersMet
<1>10. QED BY <1>2, <1>3, <1>4, <1>5, <1>6, <1>7, <1>8, <1>9 DEF IInv

-----------------------------------------------------------------------------
(* What a step changes in the persists, the loads and the turn.             *)

LEMMA PersistReplaced ==
  ASSUME IInv, NEW p \in DOMAIN persists, NEW q, persists' = [persists EXCEPT ![p] = q],
         RecordOK(q, collided), collided' = collided
  PROVE  DOMAIN persists' = DOMAIN persists /\ Accounted'
<1>1. DOMAIN persists' = DOMAIN persists
  BY DEF IInv, Accounted, Listed
<1>2. Listed'
  BY DEF IInv, Accounted, Listed
<1>3. ASSUME NEW i \in DOMAIN persists PROVE RecordOK(persists'[i], collided)
  <2>1. CASE i = p
    <3>1. persists'[i] = q
      BY <2>1
    <3>2. QED BY <3>1
  <2>2. CASE i # p
    <3>1. persists'[i] = persists[i]
      BY <2>2
    <3>2. QED BY <3>1 DEF IInv, Accounted, RecordsOK
  <2>3. QED BY <2>1, <2>2
<1>4. RecordsOK'
  BY <1>1, <1>3 DEF RecordsOK
<1>5. QED BY <1>1, <1>2, <1>4 DEF Accounted

LEMMA PersistsEnded ==
  ASSUME IInv, NEW some, NEW o \in Ended,
         persists' = [p \in DOMAIN persists |->
                        IF p \in some THEN AsEnded(o) ELSE persists[p]],
         collided' = collided
  PROVE  DOMAIN persists' = DOMAIN persists /\ Accounted'
<1>1. DOMAIN persists' = DOMAIN persists
  OBVIOUS
<1>2. Listed'
  BY DEF IInv, Accounted, Listed
<1>3. ASSUME NEW i \in DOMAIN persists PROVE RecordOK(persists'[i], collided)
  <2>1. CASE i \in some
    <3>1. persists'[i].phase = o
      BY <2>1 DEF AsEnded
    <3>2. QED BY <3>1 DEF RecordOK, Ended, Live, Writing
  <2>2. CASE i \notin some
    <3>1. persists'[i] = persists[i]
      BY <2>2
    <3>2. QED BY <3>1 DEF IInv, Accounted, RecordsOK
  <2>3. QED BY <2>1, <2>2
<1>4. RecordsOK'
  BY <1>1, <1>3 DEF RecordsOK
<1>5. QED BY <1>1, <1>2, <1>4 DEF Accounted

LEMMA ThrownAway ==
  ASSUME IInv, NEW waiting, persists' = Unheard(waiting), collided' = collided
  PROVE  DOMAIN persists' = DOMAIN persists /\ Accounted'
<1> DEFINE some == {p \in DOMAIN persists : \E n \in DOMAIN waiting : waiting[n].who = p}
<1>1. persists' = [p \in DOMAIN persists |-> IF p \in some THEN AsEnded("unheard") ELSE persists[p]]
  BY DEF Unheard
<1> HIDE DEF some
<1>2. QED BY <1>1, PersistsEnded DEF Ended

LEMMA Awaited ==
  ASSUME IInv, NEW f \in Files, NEW who \in Callers, Await(f, who), loadState[f] # "loaded",
         DOMAIN persists' = DOMAIN persists
  PROVE  LoadsTyped' /\ (\A g \in Files : loadState'[g] = "loaded" => loadState[g] = "loaded")
<1>1. waiters[f] \in Seq(Callers)
  BY DEF IInv, LoadsTyped
<1>2. Append(waiters[f], who) \in Seq(Callers) /\ Append(waiters[f], who) # <<>>
  BY <1>1, AppendProperties
<1>3. waiters' = [waiters EXCEPT ![f] = Append(waiters[f], who)]
      /\ loadState' = [loadState EXCEPT ![f] = "loading"]
  BY DEF Await
<1>4. waiters' \in [Files -> Seq(Callers)] /\ Callers' = Callers
  BY <1>2, <1>3 DEF IInv, LoadsTyped, Callers
<1>5. loadState' \in [Files -> {"unloaded", "loading", "loaded"}]
  BY <1>3 DEF IInv, LoadsTyped
<1>6. \A g \in Files : waiters'[g] # <<>> <=> loadState'[g] = "loading"
  BY <1>2, <1>3 DEF IInv, LoadsTyped
<1>7. QED BY <1>3, <1>4, <1>5, <1>6 DEF IInv, LoadsTyped

\* The one who goes on, and those behind.
LEMMA TurnProperties ==
  ASSUME IInv, turn # <<>>
  PROVE  /\ Who \in Callers /\ Tail(turn) \in Seq(Entries)
         /\ Who # Query => Who \in DOMAIN persists
<1>1. turn \in Seq(Entries)
  BY DEF IInv, TurnTyped
<1>2. Head(turn) \in Entries /\ Tail(turn) \in Seq(Entries)
  BY <1>1, HeadTailProperties
<1>3. QED BY <1>2 DEF Who, Entries, Callers

LEMMA GoesTyped ==
  ASSUME IInv, NEW p \in DOMAIN persists, NEW rest \in Seq(Entries)
  PROVE  <<Goes(p)>> \in Seq(Entries) /\ <<Goes(p)>> \o rest \in Seq(Entries)
<1>1. Goes(p) \in Entries
  BY DEF Goes, Entries, Callers
<1>2. <<Goes(p)>> \in Seq(Entries)
  BY <1>1
<1>3. QED BY <1>2, ConcatProperties

LEMMA SameCallers ==
  ASSUME DOMAIN persists' = DOMAIN persists
  PROVE  Callers' = Callers /\ Entries' = Entries
BY DEF Callers, Entries

-----------------------------------------------------------------------------
(* Calls, and the steps of a turn.                                          *)

LEMMA BulkPersistIInv ==
  ASSUME IInv, BulkPersist
  PROVE  IInv'
<1>1. PICK n \in 0..MaxPersists : persists = [p \in 1..n |-> persists[p]]
  BY DEF IInv, Accounted, Listed
<1>2. PICK files \in (SUBSET Files) \ {{}} : \E changes \in [files -> Changes] :
        /\ \A f \in files : Keyed(f, changes[f])
        /\ persists' = Append(persists, Persist(changes))
  BY DEF BulkPersist
<1>3. PICK changes \in [files -> Changes] :
        /\ \A f \in files : Keyed(f, changes[f])
        /\ persists' = Append(persists, Persist(changes))
  BY <1>2
<1>4. Len(persists) = n /\ n < MaxPersists
      /\ persists' = [i \in 1..(n + 1) |-> IF i = n + 1 THEN Persist(changes) ELSE persists[i]]
  BY <1>1, <1>3, AppendToList, BoundAssumption DEF BulkPersist
<1>5. DOMAIN persists = 1..n /\ DOMAIN persists' = 1..(n + 1)
  BY <1>1, <1>4
<1>6. RecordOK(Persist(changes), collided)
  <2>1. Empty \in [Rows -> Contents]
    BY BoundAssumption DEF Empty, Contents, Seed
  <2>2. [f \in DOMAIN changes |-> 0] \in [DOMAIN changes -> Contents]
    BY BoundAssumption DEF Contents, Seed
  <2>0. ASSUME NEW f \in files
        PROVE  changes[f] \in Altered /\ Harmless(f, changes[f], collided)
    <3>1. Keyed(f, changes[f]) /\ changes[f] \in Changes
      BY <1>3
    <3>2. changes[f].row \in Named \/ changes[f].row = 0
      BY <3>1 DEF Changes
    <3>3. changes[f] \in Altered
      <4>1. Named \cup {0} \subseteq Nat
        BY RowsInOrder
      <4>2. changes[f] \in [kind : {"add", "update", "remove"}, row : Named \cup {0}, checked : BOOLEAN]
        BY <3>1 DEF Changes
      <4>3. QED BY <4>1, <4>2 DEF Altered
    <3>4. 0 \notin Safe(f, collided)
      BY RowsInOrder DEF Safe
    <3>5. QED BY <3>1, <3>2, <3>3, <3>4 DEF Keyed, Harmless
  <2>3. PersistOK(Persist(changes), collided)
    BY <1>2, <1>3, <2>0, <2>1, <2>2 DEF PersistOK, Persist, Fields
  <2>4. QED BY <2>3 DEF RecordOK, Persist, Live, Writing
<1>7. Accounted'
  <2>1. Listed'
    BY <1>4, BoundAssumption DEF Listed
  <2>2. ASSUME NEW i \in 1..(n + 1) PROVE RecordOK(persists'[i], collided)
    <3>1. CASE i = n + 1
      BY <3>1, <1>4, <1>6
    <3>2. CASE i # n + 1
      <4>1. i \in 1..n /\ persists'[i] = persists[i]
        BY <3>2, <1>4
      <4>2. QED BY <4>1, <1>5 DEF IInv, Accounted, RecordsOK
    <3>3. QED BY <3>1, <3>2
  <2>3. QED BY <1>5, <2>1, <2>2 DEF Accounted, RecordsOK, BulkPersist
<1>8. Callers \subseteq Callers'
  BY <1>5 DEF Callers
<1>9. LoadsTyped'
  <2>1. \A f \in Files : waiters[f] \in Seq(Callers)
    BY DEF IInv, LoadsTyped
  <2>2. \A f \in Files : waiters[f] \in Seq(Callers')
    BY <1>8, <2>1, SeqMonotonic
  <2>3. waiters' = waiters /\ loadState' = loadState
    BY DEF BulkPersist, store
  <2>4. QED BY <2>2, <2>3 DEF IInv, LoadsTyped
<1>10. TurnTyped'
  <2>1. turn' = <<[who |-> n + 1, ok |-> TRUE]>>
    BY <1>4 DEF BulkPersist
  <2>2. [who |-> n + 1, ok |-> TRUE] \in Entries'
    BY <1>5 DEF Entries, Callers
  <2>3. QED BY <2>1, <2>2 DEF TurnTyped
<1>11. CollectionsTyped' /\ HistoryTyped' /\ IdsTyped' /\ MemoryKept' /\ FilesKept' /\ NumbersMet'
  BY DEF BulkPersist, store, collections, IInv, CollectionsTyped, HistoryTyped, IdsTyped, MemoryKept,
         Kept, FilesKept, NumbersMet
<1>12. FlagTyped'
  <2>1. overlapped' = (overlapped \/ Running # {})
    BY DEF BulkPersist
  <2>2. QED BY <2>1, Zenon DEF FlagTyped
<1>13. QED BY <1>7, <1>9, <1>10, <1>11, <1>12 DEF IInv

LEMMA QueryLoadsIInv ==
  ASSUME IInv, NEW f \in Files, QueryLoads(f)
  PROVE  IInv'
<1>1. LoadsTyped' /\ (\A g \in Files : loadState'[g] = "loaded" => loadState[g] = "loaded")
  BY Awaited DEF QueryLoads, Callers
<1>2. MemoryKept' /\ NumbersMet'
  BY <1>1, RowsAssumption DEF QueryLoads, collections, history, IInv, MemoryKept, Kept, NumbersMet
<1>3. Accounted' /\ CollectionsTyped' /\ TurnTyped' /\ HistoryTyped' /\ IdsTyped' /\ FilesKept'
  BY DEF QueryLoads, collections, history, IInv, Accounted, Listed, RecordsOK, CollectionsTyped,
         TurnTyped, Entries, Callers, HistoryTyped, IdsTyped, FilesKept
<1>4. FlagTyped'
  BY Zenon DEF QueryLoads, history, IInv, FlagTyped
<1>5. QED BY <1>1, <1>2, <1>3, <1>4 DEF IInv

\* Steps that leave the collections, the files and the history as they are.
LEMMA QuietIInv ==
  ASSUME IInv, Accounted', DOMAIN persists' = DOMAIN persists, turn' \in Seq(Entries),
         UNCHANGED <<collections, disk, faults, history, stale>>,
         LoadsTyped' /\ (\A g \in Files : loadState'[g] = "loaded" => loadState[g] = "loaded")
  PROVE  IInv'
<1>1. CollectionsTyped' /\ HistoryTyped' /\ IdsTyped' /\ FilesKept' /\ MemoryKept' /\ NumbersMet'
  BY RowsAssumption DEF collections, history, IInv, CollectionsTyped, HistoryTyped, IdsTyped,
     FilesKept, MemoryKept, Kept, NumbersMet
<1>2. TurnTyped'
  BY SameCallers DEF TurnTyped
<1>3. FlagTyped'
  BY Zenon DEF history, IInv, FlagTyped
<1>4. QED BY <1>1, <1>2, <1>3 DEF IInv

\* The loads, when nothing of them changes.
LEMMA SameLoads ==
  ASSUME IInv, DOMAIN persists' = DOMAIN persists, UNCHANGED <<waiters, loadState>>
  PROVE  LoadsTyped' /\ (\A g \in Files : loadState'[g] = "loaded" => loadState[g] = "loaded")
BY SameCallers DEF IInv, LoadsTyped

\* Steps that change rows in memory, none that is safe.
LEMMA MemoryIInv ==
  ASSUME IInv, Accounted', DOMAIN persists' = DOMAIN persists, turn' \in Seq(Entries),
         memory' \in Table, \A f \in Files : \A r \in Safe(f, collided) : memory'[f][r] = memory[f][r],
         UNCHANGED <<nextIds, loadState, waiters, disk, truth, overlapped, collided>>, HistoryTyped'
  PROVE  IInv'
<1>1. CollectionsTyped' /\ IdsTyped' /\ MemoryKept' /\ FilesKept' /\ NumbersMet'
  BY DEF IInv, CollectionsTyped, IdsTyped, MemoryKept, Kept, FilesKept, NumbersMet
<1>2. LoadsTyped' /\ TurnTyped'
  BY SameLoads, SameCallers DEF TurnTyped
<1>3. FlagTyped'
  BY Zenon DEF IInv, FlagTyped
<1>4. QED BY <1>1, <1>2, <1>3 DEF IInv

LEMMA QueryGoesOnIInv ==
  ASSUME IInv, QueryGoesOn
  PROVE  IInv'
<1>1. turn' \in Seq(Entries)
  BY TurnProperties DEF QueryGoesOn
<1>2. Accounted' /\ DOMAIN persists' = DOMAIN persists
  BY DEF QueryGoesOn, history, IInv, Accounted, Listed, RecordsOK
<1>3. UNCHANGED <<collections, waiters, loadState, disk, faults, history, stale>>
  BY DEF QueryGoesOn, store
<1>4. QED BY <1>1, <1>2, <1>3, SameLoads, QuietIInv

LEMMA LoadIInv ==
  ASSUME IInv, Load
  PROVE  IInv'
<1> DEFINE f == Min(ToLoad(Who))
<1>1. Who \in DOMAIN persists /\ persists[Who].phase = "load" /\ Who \in Callers
      /\ Tail(turn) \in Seq(Entries) /\ turn \in Seq(Entries)
  BY TurnProperties DEF Load, Going, At, IInv, TurnTyped
<1>2. PersistOK(persists[Who], collided)
  BY <1>1, RunningProperties DEF Live
<1>3. f \in DOMAIN persists[Who].changes /\ f \in Files
  <2>1. ToLoad(Who) \subseteq DOMAIN persists[Who].changes
    BY DEF ToLoad, After, Touched
  <2>2. ToLoad(Who) \in SUBSET Nat /\ ToLoad(Who) # {}
    BY <1>2, <2>1, FilesAssumption DEF PersistOK, Load
  <2>3. f \in ToLoad(Who)
    BY <2>2, MinIsMember
  <2>4. QED BY <1>2, <2>1, <2>3 DEF PersistOK
<1>4. UNCHANGED <<collections, disk, faults, history, stale>> /\ collided' = collided
  BY DEF Load, history
<1> HIDE DEF f
<1>5. CASE loadState[f] = "loaded"
  <2>1. persists' = [persists EXCEPT ![Who].at = f] /\ UNCHANGED <<waiters, loadState, turn>>
    BY <1>5 DEF Load, f
  <2> DEFINE q == [persists[Who] EXCEPT !.at = f]
  <2>2. persists' = [persists EXCEPT ![Who] = q]
    BY <2>1
  <2>3. PersistOK(q, collided) /\ q.phase = "load"
    BY <1>1, <1>2, <1>3 DEF PersistOK, Fields
  <2>4. RecordOK(q, collided)
    BY <2>3 DEF RecordOK, Live, Writing
  <2> HIDE DEF q
  <2>5. DOMAIN persists' = DOMAIN persists /\ Accounted'
    BY <1>1, <1>4, <2>2, <2>4, PersistReplaced
  <2>6. QED BY <1>1, <1>4, <2>1, <2>5, SameLoads, QuietIInv
<1>6. CASE loadState[f] # "loaded"
  <2>1. Await(f, Who) /\ turn' = Tail(turn) /\ UNCHANGED persists
    BY <1>6 DEF Load, f
  <2>2. DOMAIN persists' = DOMAIN persists /\ Accounted'
    BY <1>4, <2>1 DEF IInv, Accounted, Listed, RecordsOK
  <2>3. LoadsTyped' /\ (\A g \in Files : loadState'[g] = "loaded" => loadState[g] = "loaded")
    BY <1>1, <1>3, <1>6, <2>1, <2>2, Awaited
  <2>4. QED BY <1>1, <1>4, <2>1, <2>2, <2>3, QuietIInv
<1>7. QED BY <1>5, <1>6

LEMMA RefuseIInv ==
  ASSUME IInv, Refuse
  PROVE  IInv'
<1>1. Who \in DOMAIN persists /\ Tail(turn) \in Seq(Entries)
  BY TurnProperties DEF Refuse, Going, At
<1>2. RecordOK(AsEnded("refused"), collided)
  BY DEF RecordOK, AsEnded, Ended, Live, Writing
<1>3. persists' = [persists EXCEPT ![Who] = AsEnded("refused")]
  BY DEF Refuse
<1>4. DOMAIN persists' = DOMAIN persists /\ Accounted'
  BY <1>1, <1>2, <1>3, PersistReplaced DEF Refuse, history
<1>5. UNCHANGED <<collections, waiters, loadState, disk, faults, history, stale>> /\ turn' = Tail(turn)
  BY DEF Refuse, store
<1>6. QED BY <1>1, <1>4, <1>5, SameLoads, QuietIInv

\* A number given to an add is that of no row that is safe, then: the collection has
\* met the stored rows of a loaded file, and of another the row is safe no longer.
LEMMA NumberIInv ==
  ASSUME IInv, Number
  PROVE  IInv'
<1> DEFINE next(f) == nextIds[f] + 1
<1> SUFFICES ASSUME NEW p, p = Who PROVE IInv'
  OBVIOUS
<1>1. /\ p \in DOMAIN persists /\ persists[p].phase = "load"
      /\ persists' = [persists EXCEPT ![p].changes = [f \in Touched(p) |-> Numbered(p, f)]]
      /\ nextIds' = [f \in Numbering |-> IF f \in Unnumbered(p) THEN next(f) ELSE nextIds[f]]
      /\ collided' = collided \cup {<<f, next(f), loadState[f]>> :
                                       f \in {g \in Unnumbered(p) : There(g, next(g))}}
      /\ UNCHANGED <<memory, loadState, waiters, disk, turn, faults, truth, torn, overlapped, stale>>
  BY TurnProperties DEF Number, Going, At
<1>2. PersistOK(persists[p], collided)
  BY <1>1, RunningProperties DEF Live
<1>3. ASSUME NEW f \in Unnumbered(p)
      PROVE  /\ f \in Touched(p) /\ f \in Numbering /\ f \in Files /\ Change(p, f).kind = "add"
             /\ Change(p, f).row = 0
  <2>1. f \in Touched(p) /\ Change(p, f).row = 0
    BY DEF Unnumbered
  <2>2. Harmless(f, Change(p, f), collided)
    BY <1>2, <2>1 DEF PersistOK, Touched, Change
  <2>3. 0 \notin Named
    BY RowsInOrder
  <2>4. QED BY <2>1, <2>2, <2>3, RowsAssumption DEF Harmless
<1>4. \A f \in Numbering : next(f) \in Nat /\ nextIds[f] \in Nat
  BY DEF IInv, IdsTyped
<1>5. /\ collided \subseteq collided'
      /\ \A f \in Unnumbered(p) : There(f, next(f)) => <<f, next(f), loadState[f]>> \in collided'
      /\ collided' \subseteq Files \X Nat \X States
  <2>1. \A f \in Unnumbered(p) : <<f, next(f), loadState[f]>> \in Files \X Nat \X States
    BY <1>3, <1>4 DEF IInv, LoadsTyped, States
  <2> HIDE DEF next
  <2>2. QED BY <1>1, <2>1 DEF IInv, HistoryTyped
<1>6. ASSUME NEW f \in Unnumbered(p) PROVE next(f) \notin Safe(f, collided')
  <2>1. SUFFICES ASSUME next(f) \in Safe(f, collided') PROVE FALSE
    OBVIOUS
  <2>2. next(f) \in Safe(f, collided) /\ next(f) \in Rows
    BY <1>5, <2>1, SafeShrinks, RowsInOrder DEF Safe
  <2>3. CASE loadState[f] = "loaded"
    <3>1. next(f) <= nextIds[f]
      BY <1>3, <2>2, <2>3 DEF IInv, NumbersMet
    <3>2. QED BY <1>3, <1>4, <3>1
  <2>4. CASE loadState[f] # "loaded"
    <3>1. disk[f][next(f)] = Seed
      BY <1>3, <2>2 DEF IInv, FilesKept, Kept
    <3>2. There(f, next(f))
      BY <2>4, <3>1, BoundAssumption DEF There, Seed
    <3>3. loadState[f] \in {"unloaded", "loading"}
      BY <1>3, <2>4 DEF IInv, LoadsTyped
    <3> HIDE DEF next
    <3>4. QED BY <1>5, <2>1, <2>2, <3>2, <3>3 DEF Safe
  <2>5. QED BY <2>3, <2>4
<1> DEFINE changes == [f \in Touched(p) |-> Numbered(p, f)]
           q == [persists[p] EXCEPT !.changes = changes]
<1>7. \A f \in Touched(p) : changes[f] \in Altered /\ Harmless(f, changes[f], collided')
  <2>1. SUFFICES ASSUME NEW f \in Touched(p)
                 PROVE  Numbered(p, f) \in Altered /\ Harmless(f, Numbered(p, f), collided')
    OBVIOUS
  <2>2. Change(p, f) \in Altered /\ Harmless(f, Change(p, f), collided)
    BY <1>2 DEF PersistOK, Touched, Change
  <2>3. CASE f \in Unnumbered(p)
    <3>1. Numbered(p, f) = [Change(p, f) EXCEPT !.row = next(f)]
      BY <2>3 DEF Numbered
    <3>2. next(f) \in Nat /\ next(f) \notin Safe(f, collided')
      BY <1>3, <1>4, <1>6, <2>3
    <3> HIDE DEF next
    <3>3. /\ Numbered(p, f) \in Altered /\ Numbered(p, f).row = next(f)
          /\ Numbered(p, f).kind = Change(p, f).kind
      BY <2>2, <3>1, <3>2 DEF Altered
    <3>4. QED BY <1>3, <2>3, <3>2, <3>3 DEF Harmless
  <2>4. CASE f \notin Unnumbered(p)
    <3>1. Numbered(p, f) = Change(p, f)
      BY <2>4 DEF Numbered
    <3>2. Safe(f, collided') \subseteq Safe(f, collided)
      BY <1>5, SafeShrinks
    <3>3. QED BY <2>2, <3>1, <3>2 DEF Harmless
  <2>5. QED BY <2>3, <2>4
<1>8. persists' = [persists EXCEPT ![p] = q]
  BY <1>1
<1> HIDE DEF changes
<1>9. RecordOK(q, collided')
  <2>1. /\ q.changes = changes /\ q.phase = "load" /\ DOMAIN q = Fields
        /\ q.snapshot = persists[p].snapshot /\ q.undo = persists[p].undo
    BY <1>1, <1>2 DEF PersistOK, Fields
  <2>2. DOMAIN changes = DOMAIN persists[p].changes
    BY DEF changes, Touched
  <2> HIDE DEF q
  <2>3. PersistOK(q, collided')
    BY <1>2, <1>7, <2>1, <2>2 DEF PersistOK, Touched
  <2>4. QED BY <2>1, <2>3 DEF RecordOK, Live, Writing
<1> HIDE DEF q, next
<1>10. DOMAIN persists' = DOMAIN persists /\ Accounted'
  <2>1. DOMAIN persists' = DOMAIN persists /\ Listed'
    BY <1>8 DEF IInv, Accounted, Listed
  <2>2. \A i \in DOMAIN persists : RecordOK(persists[i], collided')
    BY <1>5, SafeShrinks DEF IInv, Accounted, RecordsOK
  <2>3. \A i \in DOMAIN persists : persists'[i] = IF i = p THEN q ELSE persists[i]
    BY <1>8 DEF IInv, Accounted, Listed
  <2>4. QED BY <1>9, <2>1, <2>2, <2>3 DEF Accounted, RecordsOK
<1>11. CollectionsTyped' /\ HistoryTyped'
  BY <1>1, <1>5 DEF IInv, CollectionsTyped, HistoryTyped
<1>12. LoadsTyped' /\ TurnTyped'
  BY <1>1, <1>10, SameLoads, SameCallers DEF IInv, TurnTyped
<1>13. FlagTyped'
  BY <1>1, Zenon DEF IInv, FlagTyped
<1>14. \A f : Safe(f, collided') \subseteq Safe(f, collided)
  BY <1>5, SafeShrinks
<1>15. MemoryKept' /\ FilesKept'
  BY <1>1, <1>14 DEF IInv, MemoryKept, FilesKept, Kept
<1>16. \A f \in Numbering : nextIds'[f] \in Nat /\ nextIds[f] <= nextIds'[f]
  BY <1>1, <1>4 DEF next
<1>17. IdsTyped' /\ NumbersMet'
  <2>1. IdsTyped'
    BY <1>1, <1>16 DEF IdsTyped
  <2>2. ASSUME NEW f \in Numbering, loadState[f] = "loaded", NEW r \in Safe(f, collided')
        PROVE  r <= nextIds'[f]
    <3>1. r <= nextIds[f] /\ r \in Nat
      BY <1>14, <2>2, RowsInOrder DEF IInv, NumbersMet, Safe
    <3>2. QED BY <1>4, <1>16, <3>1
  <2>3. QED BY <1>1, <2>1, <2>2 DEF NumbersMet
<1>18. QED BY <1>10, <1>11, <1>12, <1>13, <1>15, <1>17 DEF IInv

LEMMA ApplyIInv ==
  ASSUME IInv, Apply
  PROVE  IInv'
<1>1. Who \in DOMAIN persists /\ persists[Who].phase = "load"
  BY TurnProperties DEF Apply, Going, At
<1>2. PersistOK(persists[Who], collided)
  BY <1>1, RunningProperties DEF Live
<1>3. memory \in Table
  BY DEF IInv, CollectionsTyped
<1>4. memory' \in Table /\ \A f \in Files : \A r \in Safe(f, collided) : memory'[f][r] = memory[f][r]
  BY <1>1, <1>3, AppliedType DEF Apply, Live
<1> DEFINE at == Min(Touched(Who))
           undo == [f \in Touched(Who) |-> Undo(Who, f)]
           q == [persists[Who] EXCEPT !.phase = "save", !.at = at, !.undo = undo]
<1>5. at \in Touched(Who)
  BY <1>2, FilesAssumption, MinIsMember DEF PersistOK, Touched
<1>6. undo \in [Touched(Who) -> Contents]
  <2>1. \A f \in Touched(Who) :
          f \in Files /\ (Change(Who, f).kind # "add" => Change(Who, f).row \in Rows)
    BY <1>1, RunningProperties DEF Live
  <2>2. \A f \in Touched(Who) :
          Change(Who, f).kind # "add" => memory[f][Change(Who, f).row] \in Contents
    BY <1>3, <2>1 DEF Table
  <2>3. 0 \in Contents
    BY BoundAssumption DEF Contents, Seed
  <2>4. QED BY <2>2, <2>3 DEF Undo
<1>7. persists' = [persists EXCEPT ![Who] = q]
  BY DEF Apply
<1> HIDE DEF at, undo
<1>8. RecordOK(q, collided)
  <2>1. PersistOK(q, collided)
    BY <1>2, <1>5, <1>6 DEF PersistOK, Fields, Touched
  <2>2. q.phase = "save"
    BY <1>2 DEF PersistOK, Fields
  <2>3. QED BY <2>1, <2>2 DEF RecordOK, Live, Writing
<1> HIDE DEF q
<1>9. DOMAIN persists' = DOMAIN persists /\ Accounted'
  <2>1. collided' = collided
    BY DEF Apply, history
  <2>2. QED BY <1>1, <1>7, <1>8, <2>1, PersistReplaced
<1>10. /\ turn' \in Seq(Entries) /\ HistoryTyped'
       /\ UNCHANGED <<nextIds, loadState, waiters, disk, truth, overlapped, collided>>
  BY DEF Apply, history, IInv, TurnTyped, HistoryTyped
<1>11. QED BY <1>4, <1>9, <1>10, MemoryIInv

LEMMA SaveIInv ==
  ASSUME IInv, Save
  PROVE  IInv'
<1> DEFINE f == persists[Who].at
<1>1. Who \in DOMAIN persists /\ persists[Who].phase \in {"save", "resave"} /\ Who \in Callers
      /\ Tail(turn) \in Seq(Entries)
  BY TurnProperties DEF Save, Going, At
<1>2. PersistOK(persists[Who], collided)
  BY <1>1, RunningProperties DEF Live
<1>3. f \in Files
  BY <1>1, <1>2 DEF PersistOK
<1>4. /\ UNCHANGED <<collections, disk, faults, history, stale>> /\ turn' = Tail(turn)
      /\ collided' = collided
  BY DEF Save, history
<1>5. CASE Hydrated(f)
  <2> DEFINE phase == IF persists[Who].phase = "save" THEN "saving" ELSE "resaving"
             q == [persists[Who] EXCEPT !.snapshot = memory[f], !.phase = phase]
  <2>1. persists' = [persists EXCEPT ![Who].snapshot = memory[f], ![Who].phase = phase]
        /\ UNCHANGED <<waiters, loadState>>
    BY <1>2, <1>5 DEF Save, PersistOK, Fields
  <2>2. persists' = [persists EXCEPT ![Who] = q]
    BY <2>1
  <2>3. memory[f] \in [Rows -> Contents] /\ Kept(f, memory[f], collided)
    BY <1>3, <1>5 DEF Hydrated, IInv, CollectionsTyped, Table, MemoryKept
  <2>4. phase \in Writing
    BY DEF Writing
  <2> HIDE DEF phase
  <2>5. q.phase = phase /\ q.snapshot = memory[f] /\ q.at = f /\ q.changes = persists[Who].changes
        /\ q.undo = persists[Who].undo /\ DOMAIN q = Fields
    BY <1>2 DEF PersistOK, Fields
  <2> HIDE DEF q
  <2>6. PersistOK(q, collided)
    BY <1>1, <1>2, <2>3, <2>5 DEF PersistOK
  <2>7. RecordOK(q, collided)
    BY <2>3, <2>4, <2>5, <2>6 DEF RecordOK, Live, Writing
  <2>8. DOMAIN persists' = DOMAIN persists /\ Accounted'
    BY <1>1, <1>4, <2>2, <2>7, PersistReplaced
  <2>9. QED BY <1>1, <1>4, <2>1, <2>8, SameLoads, QuietIInv
<1>6. CASE ~Hydrated(f)
  <2>1. Await(f, Who) /\ UNCHANGED persists
    BY <1>6 DEF Save
  <2>2. DOMAIN persists' = DOMAIN persists /\ Accounted'
    BY <1>4, <2>1 DEF IInv, Accounted, Listed, RecordsOK
  <2>3. LoadsTyped' /\ (\A g \in Files : loadState'[g] = "loaded" => loadState[g] = "loaded")
    BY <1>1, <1>3, <1>6, <2>1, <2>2, Awaited DEF Hydrated
  <2>4. QED BY <1>1, <1>4, <2>2, <2>3, QuietIInv
<1>7. QED BY <1>5, <1>6

-----------------------------------------------------------------------------
(* Failures.                                                                *)

\* A persist that goes on with saving again, at one of its files.
LEMMA ResaveProperties ==
  ASSUME IInv, NEW p \in DOMAIN persists, persists[p].phase \in Live,
         NEW at \in Touched(p), NEW failed,
         persists' = [persists EXCEPT ![p] =
           [persists[p] EXCEPT !.phase = "resave", !.failed = failed, !.at = at]],
         collided' = collided
  PROVE  DOMAIN persists' = DOMAIN persists /\ Accounted'
<1> DEFINE q == [persists[p] EXCEPT !.phase = "resave", !.failed = failed, !.at = at]
<1>1. PersistOK(persists[p], collided)
  BY RunningProperties
<1>2. PersistOK(q, collided) /\ q.phase = "resave"
  BY <1>1 DEF PersistOK, Fields, Touched
<1>3. RecordOK(q, collided)
  BY <1>2 DEF RecordOK, Live, Writing
<1> HIDE DEF q
<1>4. QED BY <1>3, PersistReplaced DEF q

LEMMA SaveFailedProperties ==
  ASSUME IInv, NEW p \in DOMAIN persists, persists[p].phase \in Live,
         NEW rest \in Seq(Entries), SaveFailed(p, rest), collided' = collided
  PROVE  /\ DOMAIN persists' = DOMAIN persists /\ Accounted' /\ turn' \in Seq(Entries)
         /\ memory' \in Table
         /\ \A f \in Files : \A r \in Safe(f, collided) : memory'[f][r] = memory[f][r]
<1>1. memory' \in Table /\ \A f \in Files : \A r \in Safe(f, collided) : memory'[f][r] = memory[f][r]
  BY RevertedType DEF SaveFailed
<1>2. CASE SavedBefore(p) = {}
  <2>1. persists' = Unheard(<<Goes(p)>> \o rest) /\ turn' = <<>>
    BY <1>2 DEF SaveFailed
  <2>2. QED BY <1>1, <2>1, ThrownAway, EmptySeq
<1>3. CASE SavedBefore(p) # {}
  <2> DEFINE at == Min(Touched(p))
  <2>1. at \in Touched(p)
    BY RunningProperties, FilesAssumption, MinIsMember
  <2>2. persists' = [persists EXCEPT ![p] =
          [persists[p] EXCEPT !.phase = "resave", !.failed = persists[p].at, !.at = at]]
        /\ turn' = <<Goes(p)>> \o rest
    BY <1>3 DEF SaveFailed
  <2> HIDE DEF at
  <2> DEFINE failed == persists[p].at
  <2>3. DOMAIN persists' = DOMAIN persists /\ Accounted'
    <3>1. persists' = [persists EXCEPT ![p] =
            [persists[p] EXCEPT !.phase = "resave", !.failed = failed, !.at = at]]
      BY <2>2
    <3> HIDE DEF failed
    <3>2. QED BY <2>1, <3>1, ResaveProperties, Zenon
  <2>4. QED BY <1>1, <2>2, <2>3, GoesTyped
<1>4. QED BY <1>2, <1>3

LEMMA ResavedProperties ==
  ASSUME IInv, NEW p \in DOMAIN persists, persists[p].phase \in Live, Resaved(p), collided' = collided
  PROVE  DOMAIN persists' = DOMAIN persists /\ Accounted' /\ turn' \in Seq(Entries)
<1> DEFINE left == {f \in After(p, persists[p].at) : f < persists[p].failed}
           at == Min(left)
<1>1. CASE left = {}
  <2>1. persists' = Unheard(<<Goes(p)>>) /\ turn' = turn
    BY <1>1 DEF Resaved
  <2>2. QED BY <2>1, ThrownAway DEF IInv, TurnTyped
<1>2. CASE left # {}
  <2>1. left \subseteq Touched(p) /\ left \in SUBSET Nat
    BY RunningProperties, FilesAssumption DEF After
  <2>2. at \in Touched(p)
    BY <1>2, <2>1, MinIsMember
  <2>3. persists' = [persists EXCEPT ![p].phase = "resave", ![p].at = at] /\ turn' = <<Goes(p)>>
    BY <1>2 DEF Resaved
  <2> HIDE DEF at
  <2>4. PersistOK(persists[p], collided)
    BY RunningProperties
  <2>5. persists' = [persists EXCEPT ![p] =
          [persists[p] EXCEPT !.phase = "resave", !.failed = persists[p].failed, !.at = at]]
    BY <2>3, <2>4 DEF PersistOK, Fields
  <2> DEFINE failed == persists[p].failed
  <2>6. DOMAIN persists' = DOMAIN persists /\ Accounted'
    <3>1. persists' = [persists EXCEPT ![p] =
            [persists[p] EXCEPT !.phase = "resave", !.failed = failed, !.at = at]]
      BY <2>5
    <3> HIDE DEF failed
    <3>2. QED BY <2>2, <3>1, ResaveProperties, Zenon
  <2>7. <<>> \in Seq(Entries)
    BY EmptySeq
  <2>8. QED BY <2>3, <2>6, <2>7, GoesTyped
<1>3. QED BY <1>1, <1>2

LEMMA LoadFailedForIInv ==
  ASSUME IInv, LoadFailedFor
  PROVE  IInv'
<1>1. /\ turn # <<>> /\ UNCHANGED <<nextIds, loadState, waiters, disk, faults, history, stale>>
      /\ collided' = collided
  BY DEF LoadFailedFor, history
<1>2. CASE At({"load"}) /\ persists' = Unheard(turn) /\ turn' = <<>> /\ UNCHANGED memory
  <2>1. DOMAIN persists' = DOMAIN persists /\ Accounted'
    BY <1>1, <1>2, ThrownAway
  <2>2. turn' \in Seq(Entries)
    BY <1>2, EmptySeq
  <2>3. QED BY <1>1, <1>2, <2>1, <2>2, SameLoads, QuietIInv DEF collections
<1>3. CASE At({"save"}) /\ SaveFailed(Who, Tail(turn))
  <2>1. Who \in DOMAIN persists /\ persists[Who].phase \in Live /\ Tail(turn) \in Seq(Entries)
    BY <1>1, <1>3, TurnProperties DEF At, Live
  <2>2. HistoryTyped' /\ UNCHANGED <<nextIds, loadState, waiters, disk, truth, overlapped, collided>>
    BY <1>1 DEF history, IInv, HistoryTyped
  <2>3. QED BY <1>1, <1>3, <2>1, <2>2, SaveFailedProperties, MemoryIInv
<1>4. QED BY <1>2, <1>3 DEF LoadFailedFor

-----------------------------------------------------------------------------
(* The file system answers; the process crashes.                            *)

LEMMA LoadEndsProperties ==
  ASSUME IInv, NEW f \in Files, NEW ok \in BOOLEAN, LoadEnds(f, ok), UNCHANGED persists
  PROVE  LoadsTyped' /\ TurnTyped'
<1>1. waiters[f] \in Seq(Callers) /\ Callers' = Callers /\ Entries' = Entries
  BY DEF IInv, LoadsTyped, Callers, Entries
<1>2. waiters' = [waiters EXCEPT ![f] = <<>>]
      /\ loadState' = [loadState EXCEPT ![f] = IF ok THEN "loaded" ELSE "unloaded"]
      /\ turn' = [n \in DOMAIN waiters[f] |-> [who |-> waiters[f][n], ok |-> ok]]
  BY DEF LoadEnds
<1>3. LoadsTyped'
  <2>1. <<>> \in Seq(Callers)
    BY EmptySeq
  <2>2. waiters' \in [Files -> Seq(Callers)]
    BY <1>2, <2>1 DEF IInv, LoadsTyped
  <2>3. loadState' \in [Files -> {"unloaded", "loading", "loaded"}]
    BY <1>2 DEF IInv, LoadsTyped
  <2>4. \A g \in Files : waiters'[g] # <<>> <=> loadState'[g] = "loading"
    BY <1>2 DEF IInv, LoadsTyped
  <2>5. QED BY <1>1, <2>2, <2>3, <2>4 DEF LoadsTyped
<1>4. TurnTyped'
  <2>1. Len(waiters[f]) \in Nat /\ DOMAIN waiters[f] = 1..Len(waiters[f])
        /\ \A n \in DOMAIN waiters[f] : waiters[f][n] \in Callers
    BY <1>1, LenProperties
  <2>2. turn' \in [1..Len(waiters[f]) -> Entries]
    BY <1>2, <2>1 DEF Entries
  <2>3. turn' \in Seq(Entries)
    BY <2>1, <2>2, SeqDef
  <2>4. QED BY <1>1, <2>3 DEF TurnTyped
<1>5. QED BY <1>3, <1>4

LEMMA SamePersists ==
  ASSUME IInv, UNCHANGED <<persists, collided>>
  PROVE  Accounted'
BY DEF IInv, Accounted, Listed, RecordsOK

\* A bounded set of numbers has a greatest one.
LEMMA MaxIsMember ==
  ASSUME NEW S \in SUBSET Nat, S # {}, NEW bound \in Nat, \A y \in S : y <= bound
  PROVE  Max(S) \in S /\ \A y \in S : y <= Max(S)
<1> DEFINE Above == {m \in Nat : \A y \in S : y <= m}
           least == Min(Above)
<1>1. Above \in SUBSET Nat /\ Above # {}
  OBVIOUS
<1>2. least \in Above /\ \A m \in Above : least <= m
  BY <1>1, MinIsMember
<1> HIDE DEF least
<1>3. least \in Nat /\ \A y \in S : y <= least
  BY <1>2
<1>4. least \in S
  <2>1. SUFFICES ASSUME least \notin S PROVE FALSE
    OBVIOUS
  <2>2. \A y \in S : y < least
    BY <1>3, <2>1
  <2>3. least - 1 \in Nat /\ \A y \in S : y <= least - 1
    <3>1. PICK y \in S : y < least
      BY <2>2
    <3>2. QED BY <1>3, <2>2, <3>1
  <2>4. QED BY <1>2, <1>3, <2>3
<1>5. QED BY <1>3, <1>4 DEF Max

LEMMA MetProperties ==
  ASSUME IInv, NEW f \in Numbering
  PROVE  Met(f) \in Nat /\ \A r \in Safe(f, collided) : r <= Met(f)
<1> DEFINE S == {nextIds[f]} \cup {r \in Rows : disk[f][r] # 0}
<1>1. nextIds[f] \in Nat
  BY DEF IInv, IdsTyped
<1>2. PICK k \in Nat : Rows = 1..k
  BY RowsInOrder
<1>3. S \in SUBSET Nat /\ S # {} /\ \A y \in S : y <= nextIds[f] + k
  BY <1>1, <1>2
<1>4. Met(f) = Max(S)
  BY DEF Met
<1>5. ASSUME NEW r \in Safe(f, collided) PROVE r \in S
  <2>1. f \in Files /\ r \in Rows
    BY RowsAssumption, RowsInOrder DEF Safe
  <2>2. disk[f][r] = Seed
    BY <2>1 DEF IInv, FilesKept, Kept
  <2>3. QED BY <2>1, <2>2, BoundAssumption DEF Seed
<1> DEFINE bound == nextIds[f] + k
<1>6. bound \in Nat /\ \A y \in S : y <= bound
  BY <1>1, <1>2, <1>3
<1> HIDE DEF S, bound
<1>7. Max(S) \in S /\ \A y \in S : y <= Max(S)
  BY <1>3, <1>6, MaxIsMember
<1>8. QED BY <1>3, <1>4, <1>5, <1>7

LEMMA LoadedIInv ==
  ASSUME IInv, NEW f \in Files, Loaded(f)
  PROVE  IInv'
<1> DEFINE both == [r \in Rows |-> IF memory[f][r] # 0 THEN memory[f][r] ELSE disk[f][r]]
<1>1. /\ memory' = [memory EXCEPT ![f] = both] /\ LoadEnds(f, TRUE)
      /\ nextIds' = [g \in Numbering |-> IF g = f THEN Met(f) ELSE nextIds[g]]
      /\ UNCHANGED <<disk, persists, faults, history, stale>> /\ collided' = collided
  BY DEF Loaded, history
<1>2. memory \in Table /\ disk \in Table
  BY DEF IInv, CollectionsTyped
<1>3. both \in [Rows -> Contents]
  BY <1>2 DEF Table
<1>4. Kept(f, both, collided)
  BY RowsInOrder DEF IInv, MemoryKept, FilesKept, Kept, Safe
<1> HIDE DEF both
<1>5. memory' \in Table
  BY <1>1, <1>2, <1>3 DEF Table
<1>6. CollectionsTyped'
  BY <1>1, <1>5 DEF history, IInv, CollectionsTyped
<1>7. \A g \in Files : g # f => memory'[g] = memory[g] /\ loadState'[g] = loadState[g]
  BY <1>1, <1>2 DEF LoadEnds, Table, IInv, LoadsTyped
<1>8. MemoryKept'
  <2>1. memory'[f] = both
    BY <1>1, <1>2 DEF Table
  <2>2. Seed \in {0, Seed}
    OBVIOUS
  <2>3. QED BY <1>1, <1>4, <1>7, <2>1, <2>2 DEF IInv, MemoryKept, Kept
<1>9. LoadsTyped' /\ TurnTyped' /\ Accounted'
  BY <1>1, LoadEndsProperties, SamePersists
<1>10. HistoryTyped' /\ FilesKept'
  BY <1>1 DEF history, IInv, HistoryTyped, FilesKept
<1>11. FlagTyped'
  BY <1>1, Zenon DEF history, IInv, FlagTyped
<1>12. IdsTyped'
  BY <1>1, MetProperties DEF IInv, IdsTyped
<1>13. NumbersMet'
  <2>1. SUFFICES ASSUME NEW g \in Numbering, loadState'[g] = "loaded", NEW r \in Safe(g, collided)
                 PROVE  r <= nextIds'[g]
    BY <1>1 DEF NumbersMet
  <2>2. CASE g = f
    BY <1>1, <2>1, <2>2, MetProperties
  <2>3. CASE g # f
    <3>1. g \in Files
      BY RowsAssumption
    <3>2. nextIds'[g] = nextIds[g] /\ loadState[g] = "loaded"
      BY <1>1, <1>7, <2>1, <2>3, <3>1
    <3>3. QED BY <2>1, <3>2 DEF IInv, NumbersMet
  <2>4. QED BY <2>2, <2>3
<1>14. QED BY <1>6, <1>8, <1>9, <1>10, <1>11, <1>12, <1>13 DEF IInv

LEMMA LoadFailsIInv ==
  ASSUME IInv, NEW f \in Files, LoadFails(f)
  PROVE  IInv'
<1>1. LoadEnds(f, FALSE) /\ UNCHANGED <<collections, disk, persists, history, stale>>
      /\ faults < MaxFaults /\ faults' = faults + 1 /\ collided' = collided
  BY DEF LoadFails, history
<1>2. LoadsTyped' /\ TurnTyped' /\ Accounted'
  BY <1>1, LoadEndsProperties, SamePersists
<1>3. MemoryKept' /\ NumbersMet'
  <2>1. \A g \in Files : loadState'[g] = "loaded" => loadState[g] = "loaded"
    BY <1>1 DEF LoadEnds, IInv, LoadsTyped
  <2>2. QED BY <1>1, <2>1, RowsAssumption DEF collections, IInv, MemoryKept, Kept, NumbersMet
<1>4. CollectionsTyped' /\ HistoryTyped' /\ IdsTyped' /\ FilesKept'
  BY <1>1, BoundAssumption
     DEF collections, history, IInv, CollectionsTyped, HistoryTyped, IdsTyped, FilesKept
<1>5. FlagTyped'
  BY <1>1, Zenon DEF history, IInv, FlagTyped
<1>6. QED BY <1>2, <1>3, <1>4, <1>5 DEF IInv

LEMMA RenamedIInv ==
  ASSUME IInv, NEW p \in DOMAIN persists, Renamed(p)
  PROVE  IInv'
<1> DEFINE f == persists[p].at
           left == After(p, f)
<1>1. turn = <<>> /\ persists[p].phase \in Writing /\ persists[p].phase \in Live
  BY DEF Renamed, Saving, Writing, Live
<1>2. PersistOK(persists[p], collided) /\ Kept(f, persists[p].snapshot, collided)
  BY <1>1 DEF IInv, Accounted, RecordsOK, RecordOK
<1>3. f \in Files /\ persists[p].snapshot \in [Rows -> Contents]
  BY <1>1, <1>2 DEF PersistOK, Writing
<1>4. disk' = [disk EXCEPT ![f] = persists[p].snapshot] /\ stale' \subseteq stale
      /\ UNCHANGED <<collections, loadState, waiters, faults>> /\ collided' = collided
  BY DEF Renamed, store, history
<1>5. FilesKept' /\ disk' \in Table
  <2>1. \A g \in Files : disk'[g] = IF g = f THEN persists[p].snapshot ELSE disk[g]
    BY <1>4 DEF IInv, CollectionsTyped, Table
  <2>2. FilesKept'
    BY <1>2, <1>4, <2>1 DEF IInv, FilesKept, Kept
  <2>3. QED BY <1>3, <1>4, <2>2 DEF IInv, CollectionsTyped, Table
<1>6. MemoryKept' /\ IdsTyped' /\ NumbersMet'
  BY <1>4 DEF collections, IInv, MemoryKept, Kept, IdsTyped, NumbersMet
<1>7. SUFFICES /\ DOMAIN persists' = DOMAIN persists /\ Accounted' /\ turn' \in Seq(Entries)
               /\ truth' \in Table /\ torn' \subseteq torn /\ overlapped' = overlapped
  <2>1. CollectionsTyped' /\ HistoryTyped'
    BY <1>4, <1>5, <1>7 DEF collections, IInv, CollectionsTyped, HistoryTyped
  <2>2. LoadsTyped' /\ TurnTyped'
    BY <1>4, <1>7, SameLoads, SameCallers DEF TurnTyped
  <2>3. FlagTyped'
    BY <1>7, Zenon DEF IInv, FlagTyped
  <2>4. QED BY <1>5, <1>6, <1>7, <2>1, <2>2, <2>3 DEF IInv
<1>8. CASE persists[p].phase = "resaving" /\ Resaved(p) /\ UNCHANGED history
  BY <1>1, <1>4, <1>8, ResavedProperties DEF history, IInv, CollectionsTyped
<1>9. CASE /\ persists[p].phase = "saving" /\ left # {}
           /\ persists' = [persists EXCEPT ![p].phase = "save", ![p].at = Min(left)]
           /\ turn' = <<Goes(p)>> /\ UNCHANGED history
  <2> DEFINE at == Min(left)
             q == [persists[p] EXCEPT !.phase = "save", !.at = at]
  <2>1. left \subseteq Touched(p) /\ left \in SUBSET Nat
    BY <1>1, RunningProperties, FilesAssumption DEF After
  <2>2. at \in DOMAIN persists[p].changes
    BY <1>9, <2>1, MinIsMember DEF Touched
  <2>3. persists' = [persists EXCEPT ![p] = q]
    BY <1>9
  <2> HIDE DEF at
  <2>4. PersistOK(q, collided) /\ q.phase = "save"
    BY <1>2, <2>2 DEF PersistOK, Fields
  <2>5. RecordOK(q, collided)
    BY <2>4 DEF RecordOK, Live, Writing
  <2> HIDE DEF q
  <2>6. DOMAIN persists' = DOMAIN persists /\ Accounted'
    BY <1>4, <2>3, <2>5, PersistReplaced
  <2>7. <<>> \in Seq(Entries)
    BY EmptySeq
  <2>8. QED BY <1>9, <2>6, <2>7, GoesTyped DEF history, IInv, CollectionsTyped
<1>10. CASE /\ persists' = [persists EXCEPT ![p] = AsEnded("success")]
            /\ truth' = Applied(truth, p, Touched(p))
            /\ torn' = torn \ {Cell(p, g) : g \in Touched(p)}
            /\ UNCHANGED <<turn, overlapped, collided>>
  <2>1. RecordOK(AsEnded("success"), collided)
    BY DEF RecordOK, AsEnded, Ended, Live, Writing
  <2>2. DOMAIN persists' = DOMAIN persists /\ Accounted'
    BY <1>10, <2>1, PersistReplaced
  <2>3. truth \in Table
    BY DEF IInv, CollectionsTyped
  <2>4. truth' \in Table
    BY <1>1, <1>10, <2>3, AppliedType
  <2>5. QED BY <1>10, <2>2, <2>4 DEF IInv, TurnTyped
<1>11. QED BY <1>8, <1>9, <1>10 DEF Renamed

LEMMA SaveFailsIInv ==
  ASSUME IInv, NEW p \in DOMAIN persists, SaveFails(p)
  PROVE  IInv'
<1>1. turn = <<>> /\ persists[p].phase \in Live /\ <<>> \in Seq(Entries)
      /\ faults < MaxFaults /\ faults' = faults + 1
      /\ UNCHANGED <<nextIds, loadState, waiters, disk, history>> /\ collided' = collided
  BY EmptySeq DEF SaveFails, Saving, Live, history
<1>2. faults' \in 0..MaxFaults
  BY <1>1, BoundAssumption DEF IInv, HistoryTyped
<1>3. CASE SaveFailed(p, <<>>) /\ UNCHANGED stale
  <2>1. HistoryTyped'
    BY <1>1, <1>2, <1>3 DEF history, IInv, HistoryTyped
  <2>2. QED BY <1>1, <1>3, <2>1, SaveFailedProperties, MemoryIInv DEF history
<1>4. CASE /\ persists[p].phase = "resaving"
           /\ stale' = stale \cup {Cell(p, persists[p].at)}
           /\ Resaved(p) /\ UNCHANGED memory
  <2>1. persists[p].at \in Touched(p)
    BY <1>1, <1>4, RunningProperties DEF PersistOK, Touched
  <2>2. Cell(p, persists[p].at) \in Cells
    BY <1>1, <2>1, RunningProperties
  <2>3. HistoryTyped'
    BY <1>1, <1>2, <1>4, <2>2 DEF history, IInv, HistoryTyped
  <2>4. memory' \in Table /\ \A f \in Files : \A r \in Safe(f, collided) : memory'[f][r] = memory[f][r]
    BY <1>4 DEF IInv, CollectionsTyped
  <2>5. QED BY <1>1, <1>4, <2>3, <2>4, ResavedProperties, MemoryIInv DEF history
<1>5. QED BY <1>3, <1>4 DEF SaveFails

LEMMA CrashIInv ==
  ASSUME IInv, Crash
  PROVE  IInv'
<1>1. DOMAIN persists' = DOMAIN persists /\ Accounted'
  BY PersistsEnded DEF Crash, Ended
<1>2. memory' = [f \in Files |-> Empty] /\ loadState' = [f \in Files |-> "unloaded"]
      /\ nextIds' = [f \in Numbering |-> 0]
      /\ waiters' = [f \in Files |-> <<>>] /\ UNCHANGED <<disk, turn, truth, overlapped, collided>>
  BY DEF Crash
<1>3. Empty \in [Rows -> Contents]
  BY BoundAssumption DEF Empty, Contents, Seed
<1>4. CollectionsTyped'
  BY <1>2, <1>3 DEF IInv, CollectionsTyped, Table
<1>5. LoadsTyped' /\ TurnTyped'
  BY <1>1, <1>2, EmptySeq, SameCallers DEF LoadsTyped, IInv, TurnTyped
<1>6. MemoryKept' /\ FilesKept' /\ IdsTyped' /\ NumbersMet'
  BY <1>2, RowsInOrder, RowsAssumption
     DEF MemoryKept, Empty, IInv, FilesKept, Kept, Safe, IdsTyped, NumbersMet
<1>7. HistoryTyped'
  <2>1. \A p \in Running : Given(p) \subseteq Cells
    <3>1. \A p \in Running : p \in DOMAIN persists /\ persists[p].phase \in Live
      BY DEF Running, IInv, Accounted, RecordsOK, RecordOK
    <3>2. QED BY <3>1, RunningProperties DEF Given
  <2>2. torn' \cup stale' \subseteq Cells
    BY <2>1 DEF Crash, IInv, HistoryTyped
  <2>3. faults' \in 0..MaxFaults
    BY BoundAssumption DEF Crash, IInv, HistoryTyped
  <2>4. QED BY <1>2, <2>2, <2>3 DEF IInv, HistoryTyped
<1>8. FlagTyped'
  BY <1>2, Zenon DEF IInv, FlagTyped
<1>9. QED BY <1>1, <1>4, <1>5, <1>6, <1>7, <1>8 DEF IInv

-----------------------------------------------------------------------------
(* While no persist overlaps another: what memory and the files hold.       *)

InMemory(f) == loadState[f] = "loaded"
Certain(f, r) == r \in Rows /\ <<f, r>> \notin torn \cup Collided
Row(p, f) == Change(p, f).row
IsAdd(p, f) == Change(p, f).kind = "add"
Busy(f, r) == \E p \in Running : f \in Touched(p) /\ Row(p, f) = r

\* Memory has what the answered persists left, or nothing of it yet; the file
\* has it, unless an undo could not be saved.
Rest(f, r) == memory[f][r] = truth[f][r] \/ (~InMemory(f) /\ memory[f][r] = 0)
Stored(f, r) == <<f, r>> \in stale \/ disk[f][r] = truth[f][r]

RowsAtRest ==
  \A f \in Files, r \in Rows :
    Certain(f, r) /\ ~Busy(f, r) => Rest(f, r) /\ Stored(f, r)

\* Before it applies anything, a persist has changed nothing, and what it adds
\* is not there.
LoadingFile(p, f) ==
  /\ Certain(f, Row(p, f)) => Rest(f, Row(p, f)) /\ Stored(f, Row(p, f))
  /\ Certain(f, Row(p, f)) /\ IsAdd(p, f) => truth[f][Row(p, f)] = 0
  /\ ~IsAdd(p, f) /\ f <= persists[p].at => InMemory(f)

\* Then memory has its changes and undo what they replaced; the files before
\* the one at hand have them, the others have not.
SavingFile(p, f) ==
  /\ Row(p, f) \in Rows => memory[f][Row(p, f)] = Content(p, f)
  /\ Certain(f, Row(p, f)) => persists[p].undo[f] = truth[f][Row(p, f)]
  /\ Certain(f, Row(p, f)) /\ f >= persists[p].at => Stored(f, Row(p, f))
  /\ f < persists[p].at => InMemory(f)
  /\ f < persists[p].at /\ Row(p, f) \in Rows => disk[f][Row(p, f)] = Content(p, f)
  /\ ~IsAdd(p, f) => InMemory(f)

\* After a failed save memory is reverted; the files before the one at hand
\* are, and those from the failed one on never changed.
UndoingFile(p, f) ==
  /\ Certain(f, Row(p, f)) => Rest(f, Row(p, f))
  /\ Certain(f, Row(p, f)) /\ (f < persists[p].at \/ f >= persists[p].failed)
       => Stored(f, Row(p, f))
  /\ f < persists[p].failed => InMemory(f)

\* The snapshot on its way is still what memory holds.
SnapshotCurrent(p) ==
  InMemory(persists[p].at) /\ persists[p].snapshot = memory[persists[p].at]

Progress(p) ==
  /\ persists[p].phase = "load" =>
       persists[p].at \in Nat /\ \A f \in Touched(p) : LoadingFile(p, f)
  /\ persists[p].phase \in {"save", "saving"} => \A f \in Touched(p) : SavingFile(p, f)
  /\ persists[p].phase \in {"resave", "resaving"} =>
       /\ persists[p].failed \in Nat /\ persists[p].at < persists[p].failed
       /\ \A f \in Touched(p) : UndoingFile(p, f)
  /\ persists[p].phase \in Writing => SnapshotCurrent(p)

Alone == \A p, q \in Running : p = q
StaleInMemory == \A f \in Files, r \in Rows : <<f, r>> \in stale => InMemory(f)

Orderly == RowsAtRest /\ Alone /\ StaleInMemory /\ \A p \in Running : Progress(p)
Quiet == ~overlapped => Orderly

LEMMA RunningFacts ==
  ASSUME IInv, NEW p \in Running
  PROVE  /\ PersistOK(persists[p], collided) /\ p \in DOMAIN persists
         /\ persists[p].phase \in Live
         /\ p \in Nat /\ p # 0
         /\ Touched(p) \subseteq Files /\ Touched(p) \subseteq Nat \ {0} /\ Touched(p) # {}
         /\ persists[p].phase # "load" => persists[p].at \in Touched(p)
<1>1. p \in DOMAIN persists /\ persists[p].phase \in Live
  BY DEF Running, IInv, Accounted, RecordsOK, RecordOK
<1>2. PersistOK(persists[p], collided)
  BY <1>1, RunningProperties
<1>3. p \in Nat /\ p # 0
  BY <1>1, BoundAssumption DEF IInv, Accounted, Listed
<1>4. Touched(p) \subseteq Files /\ Touched(p) \subseteq Nat \ {0} /\ Touched(p) # {}
  BY <1>1, RunningProperties, FilesAssumption
<1>5. persists[p].phase # "load" => persists[p].at \in Touched(p)
  BY <1>2 DEF PersistOK, Touched
<1>6. QED BY <1>1, <1>2, <1>3, <1>4, <1>5

LEMMA AppliedValue ==
  ASSUME IInv, NEW p \in Running, NEW table \in Table, NEW f \in Files, NEW r \in Rows
  PROVE  Applied(table, p, Touched(p))[f][r] =
           IF f \in Touched(p) /\ r = Row(p, f) THEN Content(p, f) ELSE table[f][r]
<1>1. table[f] \in [Rows -> Contents]
  BY DEF Table
<1>2. Applied(table, p, Touched(p))[f]
        = IF f \in Touched(p) THEN [table[f] EXCEPT ![Row(p, f)] = Content(p, f)] ELSE table[f]
  BY DEF Applied, With, Row
<1>3. QED BY <1>1, <1>2

LEMMA RevertedValue ==
  ASSUME IInv, NEW p \in Running, NEW f \in Files, NEW r \in Rows
  PROVE  Reverted(p)[f][r] =
           IF f \in Touched(p) /\ r = Row(p, f) THEN persists[p].undo[f] ELSE memory[f][r]
<1>1. memory[f] \in [Rows -> Contents]
  BY DEF IInv, CollectionsTyped, Table
<1>2. Reverted(p)[f]
        = IF f \in Touched(p) THEN [memory[f] EXCEPT ![Row(p, f)] = persists[p].undo[f]]
                              ELSE memory[f]
  BY DEF Reverted, With, Row
<1>3. QED BY <1>1, <1>2

\* The one persist under way goes on.
LEMMA GoesOn ==
  ASSUME IInv, Orderly, NEW p \in Running, NEW q,
         persists' = [persists EXCEPT ![p] = q],
         q.changes = persists[p].changes, q.phase \in Live
  PROVE  /\ Running' = {p} /\ Alone'
         /\ persists'[p] = q /\ Touched(p)' = Touched(p)
         /\ \A f : Change(p, f)' = Change(p, f) /\ Row(p, f)' = Row(p, f)
         /\ \A f : (IsAdd(p, f)' <=> IsAdd(p, f)) /\ Content(p, f)' = Content(p, f)
         /\ \A f, r : Busy(f, r)' <=> Busy(f, r)
<1>1. p \in DOMAIN persists
  BY RunningFacts
<1>2. persists'[p] = q /\ DOMAIN persists' = DOMAIN persists
      /\ \A i \in DOMAIN persists : i # p => persists'[i] = persists[i]
  BY <1>1 DEF IInv, Accounted, Listed
<1>3. Running = {p}
  BY DEF Orderly, Alone
<1>4. Running' = {p}
  BY <1>1, <1>2, <1>3 DEF Running, Live, Ended
<1>5. Touched(p)' = Touched(p) /\ \A f : Change(p, f)' = Change(p, f)
  BY <1>2 DEF Touched, Change
<1>6. \A f : Row(p, f)' = Row(p, f) /\ (IsAdd(p, f)' <=> IsAdd(p, f)) /\ Content(p, f)' = Content(p, f)
  BY <1>5 DEF Row, IsAdd, Content
<1>7. \A f, r : Busy(f, r)' <=> Busy(f, r)
  BY <1>3, <1>4, <1>5, <1>6 DEF Busy
<1>8. QED BY <1>2, <1>4, <1>5, <1>6, <1>7 DEF Alone

\* The one persist under way ends, and rows are at rest that were, or were its.
LEMMA Ends ==
  ASSUME IInv, Orderly, NEW p \in Running, DOMAIN persists' = DOMAIN persists,
         persists'[p].phase \in Ended,
         \A i \in DOMAIN persists : persists'[i] = persists[i] \/ persists'[i].phase \in Ended,
         StaleInMemory',
         \A f \in Files, r \in Rows : Certain(f, r)' /\ ~Busy(f, r)
            => Rest(f, r)' /\ Stored(f, r)',
         \A f \in Touched(p), r \in Rows : r = Row(p, f) /\ Certain(f, r)'
            => Rest(f, r)' /\ Stored(f, r)'
  PROVE  Orderly'
<1>1. Running = {p}
  BY DEF Orderly, Alone
<1>2. Running' = {}
  BY <1>1 DEF Running
<1>3. Alone' /\ \A i \in Running' : Progress(i)'
  BY <1>2 DEF Alone
<1>4. ASSUME NEW f \in Files, NEW r \in Rows, Certain(f, r)'
      PROVE  Rest(f, r)' /\ Stored(f, r)'
  <2>1. CASE Busy(f, r)
    <3>1. f \in Touched(p) /\ Row(p, f) = r
      BY <1>1, <2>1 DEF Busy
    <3>2. QED BY <1>4, <3>1
  <2>2. QED BY <1>4, <2>1
<1>5. RowsAtRest'
  BY <1>4 DEF RowsAtRest
<1>6. QED BY <1>3, <1>5 DEF Orderly

\* Steps that leave the rows and the persists as they are, and bring nothing
\* into memory.
LEMMA SameRows ==
  ASSUME IInv, Orderly, UNCHANGED <<memory, disk, truth, torn, collided, stale, persists>>,
         \A f \in Files : loadState'[f] = "loaded" <=> loadState[f] = "loaded"
  PROVE  Orderly'
<1>1. \A f \in Files : InMemory(f)' <=> InMemory(f)
  BY DEF InMemory
<1>2. \A f, r : Certain(f, r)' <=> Certain(f, r)
  BY DEF Certain, Collided
<1>3. /\ Running' = Running
      /\ \A p : Touched(p)' = Touched(p)
      /\ \A p, f : Row(p, f)' = Row(p, f) /\ (IsAdd(p, f)' <=> IsAdd(p, f))
                   /\ Content(p, f)' = Content(p, f)
  BY DEF Running, Touched, Row, IsAdd, Content, Change
<1>4. \A f, r : Busy(f, r)' <=> Busy(f, r)
  BY <1>3 DEF Busy
<1>5. \A f \in Files : \A r : (Rest(f, r)' <=> Rest(f, r)) /\ (Stored(f, r)' <=> Stored(f, r))
  BY <1>1 DEF Rest, Stored
<1>6. RowsAtRest' /\ Alone' /\ StaleInMemory'
  BY <1>1, <1>2, <1>3, <1>4, <1>5 DEF Orderly, RowsAtRest, Alone, StaleInMemory
<1>7. ASSUME NEW p \in Running PROVE Progress(p)'
  <2>1. Touched(p) \subseteq Files /\ (persists[p].phase \in Writing => persists[p].at \in Files)
    BY RunningFacts DEF Writing
  <2>2. Progress(p)
    BY DEF Orderly
  <2>3. ASSUME NEW f \in Touched(p)
        PROVE  /\ LoadingFile(p, f) => LoadingFile(p, f)'
               /\ SavingFile(p, f) => SavingFile(p, f)'
               /\ UndoingFile(p, f) => UndoingFile(p, f)'
    <3>1. f \in Files
      BY <2>1
    <3>2. LoadingFile(p, f) => LoadingFile(p, f)'
      BY <1>1, <1>2, <1>3, <1>5, <3>1 DEF LoadingFile
    <3>3. SavingFile(p, f) => SavingFile(p, f)'
      BY <1>1, <1>2, <1>3, <1>5, <3>1 DEF SavingFile
    <3>4. UndoingFile(p, f) => UndoingFile(p, f)'
      BY <1>1, <1>2, <1>3, <1>5, <3>1 DEF UndoingFile
    <3>5. QED BY <3>2, <3>3, <3>4
  <2>4. persists[p].phase \in Writing => (SnapshotCurrent(p) => SnapshotCurrent(p)')
    BY <1>1, <2>1 DEF SnapshotCurrent
  <2>5. QED BY <1>3, <2>2, <2>3, <2>4 DEF Progress
<1>8. QED BY <1>3, <1>6, <1>7 DEF Orderly

LEMMA BulkPersistQuiet ==
  ASSUME IInv, Quiet, ~Readds, BulkPersist, ~overlapped'
  PROVE  Orderly'
<1>1. PICK n \in 0..MaxPersists : persists = [p \in 1..n |-> persists[p]]
  BY DEF IInv, Accounted, Listed
<1>2. PICK files \in (SUBSET Files) \ {{}} : \E changes \in [files -> Changes] :
        /\ \A f \in files :
             changes[f].kind = "add" /\ changes[f].row # 0 => Readds \/ ~There(f, changes[f].row)
        /\ persists' = Append(persists, Persist(changes))
  BY DEF BulkPersist
<1>3. PICK changes \in [files -> Changes] :
        /\ \A f \in files :
             changes[f].kind = "add" /\ changes[f].row # 0 => Readds \/ ~There(f, changes[f].row)
        /\ persists' = Append(persists, Persist(changes))
  BY <1>2
<1> DEFINE q == Persist(changes)
<1>4. persists' = [i \in 1..(n + 1) |-> IF i = n + 1 THEN q ELSE persists[i]]
  BY <1>1, <1>3, AppendToList, BoundAssumption
<1>5. /\ q.changes = changes /\ DOMAIN changes = files
      /\ q.phase = "load" /\ q.at = 0
  BY <1>3 DEF Persist
<1> HIDE DEF q
<1>6. overlapped' = (overlapped \/ Running # {})
      /\ UNCHANGED <<memory, loadState, disk, truth, torn, collided, stale>>
  BY DEF BulkPersist, store, collections
<1>7. Running = {} /\ Orderly
  BY <1>6, Zenon DEF Quiet
<1> DEFINE p == n + 1
<1>8. DOMAIN persists = 1..n /\ DOMAIN persists' = 1..p /\ persists'[p] = q
      /\ \A i \in 1..n : persists'[i] = persists[i]
  BY <1>1, <1>4
<1>9. Running' = {p}
  BY <1>5, <1>7, <1>8 DEF Running, Ended
<1> HIDE DEF p
<1>10. \A f \in Files : \A r : /\ InMemory(f)' <=> InMemory(f)
                               /\ Certain(f, r)' <=> Certain(f, r)
                               /\ Rest(f, r)' <=> Rest(f, r)
                               /\ Stored(f, r)' <=> Stored(f, r)
  BY <1>6 DEF InMemory, Certain, Collided, Rest, Stored
<1>11. \A f, r : ~Busy(f, r)
  BY <1>7 DEF Busy
<1>12. \A f \in Files, r \in Rows : Certain(f, r)' => Rest(f, r)' /\ Stored(f, r)'
  BY <1>7, <1>10, <1>11 DEF Orderly, RowsAtRest
<1>13. RowsAtRest' /\ Alone'
  BY <1>9, <1>12 DEF RowsAtRest, Alone
<1>14. StaleInMemory'
  BY <1>6, <1>7 DEF Orderly, StaleInMemory, InMemory
<1>15. \A f \in files : f \in Files /\ f \in Nat \ {0}
  BY <1>3, FilesAssumption
<1>16. /\ Touched(p)' = files
       /\ \A f : Row(p, f)' = changes[f].row
       /\ \A f : IsAdd(p, f)' <=> changes[f].kind = "add"
  BY <1>5, <1>8 DEF Touched, Row, IsAdd, Change
<1>17. ASSUME NEW f \in files PROVE LoadingFile(p, f)'
  <2> DEFINE r == changes[f].row
  <2>1. f \in Files /\ f # 0 /\ f \in Nat
    BY <1>15
  <2>2. Certain(f, r)' => r \in Rows /\ r # 0 /\ Rest(f, r)' /\ Stored(f, r)'
    BY <1>12, <2>1, RowsInOrder DEF Certain
  <2>3. Certain(f, r)' /\ changes[f].kind = "add" => truth'[f][r] = 0
    <3>1. SUFFICES ASSUME Certain(f, r)', changes[f].kind = "add" PROVE truth'[f][r] = 0
      OBVIOUS
    <3>2. ~There(f, r)
      BY <1>3, <2>2, <3>1
    <3>3. memory[f][r] = 0 /\ (InMemory(f) \/ disk[f][r] = 0)
      BY <3>2 DEF There, InMemory
    <3>4. Rest(f, r) /\ Stored(f, r)
      BY <1>10, <2>1, <2>2, <3>1
    <3>5. <<f, r>> \in stale => InMemory(f)
      BY <1>7, <2>1, <2>2, <3>1 DEF Orderly, StaleInMemory
    <3>6. truth[f][r] = 0
      BY <3>3, <3>4, <3>5 DEF Rest, Stored
    <3>7. QED BY <1>6, <3>6
  <2>4. ~(f <= persists'[p].at)
    BY <1>5, <1>8, <2>1
  <2> HIDE DEF r
  <2>5. Row(p, f)' = r /\ (IsAdd(p, f)' <=> changes[f].kind = "add")
    BY <1>16 DEF r
  <2>6. QED BY <2>2, <2>3, <2>4, <2>5 DEF LoadingFile
<1>18. Progress(p)'
  <2>1. persists'[p].phase = "load" /\ persists'[p].at = 0
    BY <1>5, <1>8
  <2>2. QED BY <1>16, <1>17, <2>1 DEF Progress, Writing
<1>19. QED BY <1>9, <1>13, <1>14, <1>18 DEF Orderly

\* A step at the head of a turn, by a persist under way.
LEMMA WhoRuns ==
  ASSUME IInv, turn # <<>>, NEW phases \in SUBSET Live, At(phases)
  PROVE  Who \in Running /\ persists[Who].phase \in phases
<1>1. Who \in DOMAIN persists /\ persists[Who].phase \in phases
  BY TurnProperties DEF At
<1>2. QED BY <1>1 DEF Running, Live, Ended

LEMMA AwaitedQuiet ==
  ASSUME IInv, Orderly, NEW f \in Files, NEW who, Await(f, who), loadState[f] # "loaded",
         UNCHANGED <<memory, disk, truth, torn, collided, stale, persists>>
  PROVE  Orderly'
<1>1. \A g \in Files : loadState'[g] = "loaded" <=> loadState[g] = "loaded"
  BY DEF Await, IInv, LoadsTyped
<1>2. QED BY <1>1, SameRows

\* What a row is does not change while memory, files and history stay.
LEMMA SameStatus ==
  ASSUME UNCHANGED <<memory, loadState, disk, truth, torn, collided, stale>>
  PROVE  /\ \A f : InMemory(f)' <=> InMemory(f)
         /\ \A f, r : /\ Certain(f, r)' <=> Certain(f, r)
                      /\ Rest(f, r)' <=> Rest(f, r)
                      /\ Stored(f, r)' <=> Stored(f, r)
         /\ StaleInMemory' <=> StaleInMemory
BY DEF InMemory, Certain, Collided, Rest, Stored, StaleInMemory

LEMMA LoadQuiet ==
  ASSUME IInv, Orderly, Load
  PROVE  Orderly'
<1> DEFINE p == Who
           f == Min(ToLoad(p))
<1>1. p \in Running /\ persists[p].phase = "load"
  BY WhoRuns DEF Load, Going, Live
<1>2. UNCHANGED <<memory, disk, truth, torn, collided, stale>>
  BY DEF Load, history, collections
<1>3. /\ Touched(p) \subseteq Files /\ Touched(p) \subseteq Nat \ {0}
      /\ PersistOK(persists[p], collided)
  BY <1>1, RunningFacts
<1>4. f \in ToLoad(p) /\ \A g \in ToLoad(p) : f <= g
  <2>1. ToLoad(p) \in SUBSET Nat /\ ToLoad(p) # {}
    BY <1>3 DEF ToLoad, After, Load
  <2>2. QED BY <2>1, MinIsMember
<1>5. f \in Touched(p)
  BY <1>4 DEF ToLoad, After
<1>6. CASE loadState[f] # "loaded"
  <2>1. Await(f, p) /\ UNCHANGED persists
    BY <1>6 DEF Load
  <2>2. f \in Files
    BY <1>3, <1>5
  <2> HIDE DEF f, p
  <2>3. QED BY <1>2, <1>6, <2>1, <2>2, AwaitedQuiet
<1>7. CASE loadState[f] = "loaded"
  <2> DEFINE q == [persists[p] EXCEPT !.at = f]
  <2>1. persists' = [persists EXCEPT ![p] = q] /\ UNCHANGED loadState
    BY <1>7 DEF Load
  <2>2. q.changes = persists[p].changes /\ q.phase = "load" /\ q.at = f
    BY <1>1, <1>3 DEF PersistOK, Fields
  <2> HIDE DEF q
  <2> SUFFICES ASSUME NEW who, who = p PROVE Orderly'
    OBVIOUS
  <2>3. /\ who \in Running /\ persists' = [persists EXCEPT ![who] = q]
        /\ q.changes = persists[who].changes /\ q.phase \in Live
    BY <1>1, <2>1, <2>2 DEF Live
  <2>4. /\ Running' = {who} /\ Alone'
        /\ persists'[who] = q /\ Touched(who)' = Touched(who)
        /\ \A g : Row(who, g)' = Row(who, g) /\ (IsAdd(who, g)' <=> IsAdd(who, g))
        /\ \A g, r : Busy(g, r)' <=> Busy(g, r)
    BY <2>3, GoesOn
  <2>5. /\ \A g : InMemory(g)' <=> InMemory(g)
        /\ \A g, r : /\ Certain(g, r)' <=> Certain(g, r)
                     /\ Rest(g, r)' <=> Rest(g, r)
                     /\ Stored(g, r)' <=> Stored(g, r)
        /\ StaleInMemory' <=> StaleInMemory
    BY <1>2, <2>1, SameStatus
  <2>6. RowsAtRest' /\ StaleInMemory'
    BY <2>4, <2>5 DEF Orderly, RowsAtRest
  <2>7. persists[who].at \in Nat /\ \A g \in Touched(who) : LoadingFile(who, g)
    BY <1>1, <2>3 DEF Orderly, Progress
  <2>8. ASSUME NEW g \in Touched(who), ~IsAdd(who, g), g <= f PROVE InMemory(g)
    <3>1. CASE g <= persists[who].at
      BY <2>7, <2>8, <3>1 DEF LoadingFile
    <3>2. CASE ~(g <= persists[who].at)
      <4>1. g \in Nat /\ f \in Nat
        BY <1>3, <1>5, <2>8
      <4>2. g > persists[who].at
        BY <2>7, <3>2, <4>1
      <4>3. g \in ToLoad(p)
        BY <2>8, <4>2 DEF ToLoad, After, IsAdd
      <4>4. g = f
        BY <1>4, <2>8, <4>1, <4>3
      <4>5. QED BY <1>7, <4>4 DEF InMemory
    <3>3. QED BY <3>1, <3>2
  <2>9. ASSUME NEW g \in Touched(who) PROVE LoadingFile(who, g)'
    <3>1. persists'[who].at = f
      BY <2>2, <2>4
    <3>2. UNCHANGED truth
      BY <1>2
    <3> HIDE DEF f, p
    <3>3. QED BY <2>4, <2>5, <2>7, <2>8, <3>1, <3>2 DEF LoadingFile
  <2>10. Progress(who)'
    <3>1. persists'[who].phase = "load" /\ persists'[who].at = f /\ f \in Nat
      BY <1>3, <1>5, <2>2, <2>4
    <3> HIDE DEF f, p
    <3>2. QED BY <2>4, <2>9, <3>1 DEF Progress, Writing
  <2>11. QED BY <2>4, <2>6, <2>10 DEF Orderly
<1>8. QED BY <1>6, <1>7

\* A persist that ends before it applied anything.
LEMMA EndsUnapplied ==
  ASSUME IInv, Orderly, NEW p \in Running, persists[p].phase = "load",
         DOMAIN persists' = DOMAIN persists, persists'[p].phase \in Ended,
         \A i \in DOMAIN persists : persists'[i] = persists[i] \/ persists'[i].phase \in Ended,
         UNCHANGED <<memory, loadState, disk, truth, torn, collided, stale>>
  PROVE  Orderly'
<1>1. /\ \A f, r : /\ Certain(f, r)' <=> Certain(f, r)
                   /\ Rest(f, r)' <=> Rest(f, r)
                   /\ Stored(f, r)' <=> Stored(f, r)
      /\ StaleInMemory' <=> StaleInMemory
  BY SameStatus
<1>2. StaleInMemory'
  BY <1>1 DEF Orderly
<1>3. \A f \in Files, r \in Rows : Certain(f, r)' /\ ~Busy(f, r) => Rest(f, r)' /\ Stored(f, r)'
  BY <1>1 DEF Orderly, RowsAtRest
<1>4. \A f \in Touched(p) : LoadingFile(p, f)
  BY DEF Orderly, Progress
<1>5. \A f \in Touched(p), r \in Rows : r = Row(p, f) /\ Certain(f, r)'
         => Rest(f, r)' /\ Stored(f, r)'
  BY <1>1, <1>4 DEF LoadingFile
<1>6. QED BY <1>2, <1>3, <1>5, Ends

LEMMA RefuseQuiet ==
  ASSUME IInv, Orderly, Refuse
  PROVE  Orderly'
<1> SUFFICES ASSUME NEW p, p = Who PROVE Orderly'
  OBVIOUS
<1>1. p \in Running /\ persists[p].phase = "load"
  BY WhoRuns DEF Refuse, Going, Live
<1>2. /\ persists' = [persists EXCEPT ![p] = AsEnded("refused")]
      /\ UNCHANGED <<memory, loadState, disk, truth, torn, collided, stale>>
  BY DEF Refuse, history, store, collections
<1>3. p \in DOMAIN persists
  BY <1>1, RunningFacts
<1>4. /\ DOMAIN persists' = DOMAIN persists /\ persists'[p].phase = "refused"
      /\ \A i \in DOMAIN persists : i # p => persists'[i] = persists[i]
  BY <1>2, <1>3 DEF AsEnded, IInv, Accounted, Listed
<1>5. persists'[p].phase \in Ended
      /\ \A i \in DOMAIN persists : persists'[i] = persists[i] \/ persists'[i].phase \in Ended
  BY <1>4 DEF Ended
<1>6. QED BY <1>1, <1>2, <1>4, <1>5, EndsUnapplied

\* What an add is numbered for is not there, unless it collided.
LEMMA NumberQuiet ==
  ASSUME IInv, Orderly, Number
  PROVE  Orderly'
<1> SUFFICES ASSUME NEW p, p = Who PROVE Orderly'
  OBVIOUS
<1> DEFINE next(f) == nextIds[f] + 1
           changes == [f \in Touched(p) |-> Numbered(p, f)]
<1>1. p \in Running /\ persists[p].phase = "load"
  BY WhoRuns DEF Number, Going, Live
<1>2. /\ persists' = [persists EXCEPT ![p].changes = changes]
      /\ collided' = collided \cup {<<f, next(f), loadState[f]>> :
                                       f \in {g \in Unnumbered(p) : There(g, next(g))}}
      /\ UNCHANGED <<memory, loadState, disk, truth, torn, stale>>
  BY DEF Number
<1>3. PersistOK(persists[p], collided) /\ p \in DOMAIN persists /\ Touched(p) \subseteq Files
  BY <1>1, RunningFacts
<1> HIDE DEF changes
<1>4. /\ persists'[p].changes = changes /\ persists'[p].phase = "load"
      /\ persists'[p].at = persists[p].at /\ DOMAIN persists' = DOMAIN persists
      /\ \A i \in DOMAIN persists : i # p => persists'[i] = persists[i]
  BY <1>1, <1>2, <1>3 DEF PersistOK, Fields, IInv, Accounted, Listed
<1>5. Running = {p} /\ Running' = {p}
  BY <1>1, <1>4 DEF Orderly, Alone, Running, Ended
<1>6. /\ Touched(p)' = Touched(p)
      /\ \A f \in Touched(p) : Change(p, f)' = Numbered(p, f)
  BY <1>4 DEF Touched, Change, changes
<1>7. ASSUME NEW f \in Touched(p)
      PROVE  /\ IsAdd(p, f)' <=> IsAdd(p, f)
             /\ Row(p, f)' = IF f \in Unnumbered(p) THEN next(f) ELSE Row(p, f)
             /\ Row(p, f) = 0 <=> f \in Unnumbered(p)
  <2>1. Change(p, f) \in Altered
    BY <1>3 DEF PersistOK, Touched, Change
  <2>2. f \in Unnumbered(p) => Numbered(p, f) = [Change(p, f) EXCEPT !.row = next(f)]
    BY DEF Numbered
  <2>3. f \notin Unnumbered(p) => Numbered(p, f) = Change(p, f)
    BY DEF Numbered
  <2> HIDE DEF next
  <2>4. f \in Unnumbered(p) => Numbered(p, f).row = next(f) /\ Numbered(p, f).kind = Change(p, f).kind
    BY <2>1, <2>2 DEF Altered
  <2>5. QED BY <1>6, <2>3, <2>4 DEF IsAdd, Row, Unnumbered
<1>8. collided \subseteq collided'
  BY <1>2
<1>9. ASSUME NEW f \in Unnumbered(p), <<f, next(f)>> \notin Collided' PROVE ~There(f, next(f))
  <2>1. There(f, next(f)) => <<f, next(f), loadState[f]>> \in collided'
    BY <1>2
  <2> HIDE DEF next
  <2>2. QED BY <1>9, <2>1 DEF Collided
<1> HIDE DEF next
<1>10. /\ \A f : InMemory(f)' <=> InMemory(f)
       /\ \A f, r : /\ Certain(f, r)' => Certain(f, r)
                    /\ Rest(f, r)' <=> Rest(f, r)
                    /\ Stored(f, r)' <=> Stored(f, r)
       /\ StaleInMemory'
  BY <1>2, <1>8 DEF InMemory, Certain, Collided, Rest, Stored, Orderly, StaleInMemory
<1>11. ASSUME NEW f \in Files, NEW r \in Rows, Busy(f, r) PROVE Busy(f, r)'
  <2>1. f \in Touched(p) /\ Row(p, f) = r
    BY <1>5, <1>11 DEF Busy
  <2>2. Row(p, f)' = r
    BY <1>7, <2>1, RowsInOrder
  <2>3. QED BY <1>5, <1>6, <2>1, <2>2 DEF Busy
<1>12. RowsAtRest' /\ Alone'
  BY <1>5, <1>10, <1>11 DEF Orderly, RowsAtRest, Alone
<1>13. persists[p].at \in Nat /\ \A f \in Touched(p) : LoadingFile(p, f)
  BY <1>1 DEF Orderly, Progress
<1>14. ASSUME NEW f \in Touched(p) PROVE LoadingFile(p, f)'
  <2>1. ~IsAdd(p, f)' /\ f <= persists'[p].at => InMemory(f)'
    BY <1>4, <1>7, <1>10, <1>13 DEF LoadingFile
  <2>2. CASE f \notin Unnumbered(p)
    <3>1. Row(p, f)' = Row(p, f)
      BY <1>7, <2>2
    <3>2. QED BY <1>2, <1>7, <1>10, <1>13, <2>1, <3>1 DEF LoadingFile
  <2>3. CASE f \in Unnumbered(p)
    <3>1. PICK r : r = next(f)
      OBVIOUS
    <3>2. Row(p, f)' = r
      BY <1>7, <2>3, <3>1
    <3>3. ASSUME Certain(f, r)' PROVE Rest(f, r)' /\ Stored(f, r)' /\ truth'[f][r] = 0
      <4>1. f \in Files /\ r \in Rows /\ <<f, r>> \notin Collided' /\ Certain(f, r)
        BY <1>3, <1>10, <3>3 DEF Certain
      <4>2. ~Busy(f, r)
        BY <1>5, <1>7, <2>3, <4>1, RowsInOrder DEF Busy
      <4>3. Rest(f, r) /\ Stored(f, r)
        BY <4>1, <4>2 DEF Orderly, RowsAtRest
      <4>4. memory[f][r] = 0 /\ (InMemory(f) \/ disk[f][r] = 0)
        BY <1>9, <2>3, <3>1, <4>1 DEF There, InMemory
      <4>5. <<f, r>> \in stale => InMemory(f)
        BY <4>1 DEF Orderly, StaleInMemory
      <4>6. truth[f][r] = 0
        BY <4>3, <4>4, <4>5 DEF Rest, Stored
      <4>7. QED BY <1>2, <1>10, <4>3, <4>6
    <3>4. QED BY <2>1, <3>2, <3>3 DEF LoadingFile
  <2>4. QED BY <2>2, <2>3
<1>15. Progress(p)'
  BY <1>4, <1>6, <1>13, <1>14 DEF Progress, Writing
<1>16. QED BY <1>5, <1>10, <1>12, <1>15 DEF Orderly

LEMMA ApplyQuiet ==
  ASSUME IInv, Orderly, Apply
  PROVE  Orderly'
<1> SUFFICES ASSUME NEW p, p = Who PROVE Orderly'
  OBVIOUS
<1> DEFINE at == Min(Touched(p))
           undo == [f \in Touched(p) |-> Undo(p, f)]
           q == [persists[p] EXCEPT !.phase = "save", !.at = at, !.undo = undo]
<1>1. p \in Running /\ persists[p].phase = "load"
  BY WhoRuns DEF Apply, Going, Live
<1>2. /\ PersistOK(persists[p], collided) /\ Touched(p) \subseteq Files
      /\ Touched(p) \subseteq Nat \ {0} /\ Touched(p) # {}
  BY <1>1, RunningFacts
<1>3. /\ memory' = Applied(memory, p, Touched(p)) /\ ToLoad(p) = {}
      /\ UNCHANGED <<loadState, disk, truth, torn, collided, stale>>
  BY DEF Apply, history
<1>4. persists' = [persists EXCEPT ![p] = q]
  BY DEF Apply
<1>5. at \in Touched(p) /\ \A f \in Touched(p) : at <= f
  <2>1. Touched(p) \in SUBSET Nat
    BY <1>2
  <2>2. QED BY <1>2, <2>1, MinIsMember
<1>6. \A f \in Touched(p) : undo[f] = Undo(p, f)
  OBVIOUS
<1> HIDE DEF at, undo
<1>7. q.changes = persists[p].changes /\ q.phase = "save" /\ q.at = at /\ q.undo = undo
  BY <1>2 DEF PersistOK, Fields
<1> HIDE DEF q
<1>8. /\ Running' = {p} /\ Alone'
      /\ persists'[p] = q /\ Touched(p)' = Touched(p)
      /\ \A g : Row(p, g)' = Row(p, g) /\ (IsAdd(p, g)' <=> IsAdd(p, g))
                /\ Content(p, g)' = Content(p, g)
      /\ \A g, r : Busy(g, r)' <=> Busy(g, r)
  <2>1. q.phase \in Live
    BY <1>7 DEF Live
  <2>2. QED BY <1>1, <1>4, <1>7, <2>1, GoesOn
<1>9. \A f \in Files, r \in Rows :
        memory'[f][r] = IF f \in Touched(p) /\ r = Row(p, f) THEN Content(p, f) ELSE memory[f][r]
  <2>1. memory \in Table
    BY DEF IInv, CollectionsTyped
  <2>2. QED BY <1>1, <1>3, <2>1, AppliedValue
<1>10. /\ \A f : InMemory(f)' <=> InMemory(f)
       /\ \A f, r : (Certain(f, r)' <=> Certain(f, r)) /\ (Stored(f, r)' <=> Stored(f, r))
       /\ StaleInMemory' <=> StaleInMemory
  BY <1>3 DEF InMemory, Certain, Collided, Stored, StaleInMemory
<1>11. RowsAtRest'
  <2>1. SUFFICES ASSUME NEW f \in Files, NEW r \in Rows, Certain(f, r), ~Busy(f, r)
                 PROVE  Rest(f, r)' /\ Stored(f, r)'
    BY <1>8, <1>10 DEF RowsAtRest
  <2>2. Rest(f, r) /\ Stored(f, r)
    BY <2>1 DEF Orderly, RowsAtRest
  <2>3. memory'[f][r] = memory[f][r]
    BY <1>1, <1>9, <2>1 DEF Busy
  <2>4. QED BY <1>3, <1>10, <2>2, <2>3 DEF Rest
<1>12. persists[p].at \in Nat /\ \A f \in Touched(p) : LoadingFile(p, f)
  BY <1>1 DEF Orderly, Progress
<1>13. ASSUME NEW f \in Touched(p), ~IsAdd(p, f) PROVE InMemory(f)
  <2>1. f <= persists[p].at
    <3>1. ~(f > persists[p].at)
      BY <1>3, <1>13 DEF ToLoad, After, IsAdd
    <3>2. f \in Nat
      BY <1>2
    <3>3. QED BY <1>12, <3>1, <3>2
  <2>2. QED BY <1>12, <1>13, <2>1 DEF LoadingFile
<1>14. ASSUME NEW f \in Touched(p), Certain(f, Row(p, f))
       PROVE  undo[f] = truth[f][Row(p, f)]
  <2>1. LoadingFile(p, f) /\ undo[f] = Undo(p, f)
    BY <1>6, <1>12
  <2>2. CASE IsAdd(p, f)
    BY <1>14, <2>1, <2>2 DEF LoadingFile, Undo, IsAdd
  <2>3. CASE ~IsAdd(p, f)
    <3>1. Rest(f, Row(p, f)) /\ InMemory(f)
      BY <1>13, <1>14, <2>1, <2>3 DEF LoadingFile
    <3>2. QED BY <2>1, <2>3, <3>1 DEF Rest, Undo, IsAdd, Row
  <2>4. QED BY <2>2, <2>3
<1>15. ASSUME NEW f \in Touched(p) PROVE SavingFile(p, f)'
  <2>1. Row(p, f) \in Rows => memory'[f][Row(p, f)] = Content(p, f)
    BY <1>2, <1>9
  <2>2. Certain(f, Row(p, f)) => Stored(f, Row(p, f))
    BY <1>12 DEF LoadingFile
  <2>3. ~(f < at)
    BY <1>2, <1>5
  <2>4. persists'[p].at = at /\ persists'[p].undo = undo /\ truth' = truth
    BY <1>3, <1>7, <1>8
  <2>5. /\ (Certain(f, Row(p, f)))' <=> Certain(f, Row(p, f))
        /\ (Stored(f, Row(p, f)))' <=> Stored(f, Row(p, f))
    BY <1>8, <1>10
  <2>6. QED BY <1>8, <1>10, <1>13, <1>14, <2>1, <2>2, <2>3, <2>4, <2>5 DEF SavingFile
<1>16. Progress(p)'
  <2>1. persists'[p].phase = "save"
    BY <1>7, <1>8
  <2>2. QED BY <1>8, <1>15, <2>1 DEF Progress, Writing
<1>17. QED BY <1>8, <1>10, <1>11, <1>16 DEF Orderly

LEMMA SaveQuiet ==
  ASSUME IInv, Orderly, Save
  PROVE  Orderly'
<1> SUFFICES ASSUME NEW p, p = Who PROVE Orderly'
  OBVIOUS
<1> DEFINE f == persists[p].at
<1>1. p \in Running /\ persists[p].phase \in {"save", "resave"}
  BY WhoRuns DEF Save, Going, Live
<1>2. PersistOK(persists[p], collided) /\ Touched(p) \subseteq Files /\ f \in Touched(p)
  BY <1>1, RunningFacts
<1>3. UNCHANGED <<memory, disk, truth, torn, collided, stale>>
  BY DEF Save, history, collections
<1>4. CASE ~Hydrated(f)
  <2>1. Await(f, p) /\ UNCHANGED persists /\ loadState[f] # "loaded" /\ f \in Files
    BY <1>2, <1>4 DEF Save, Hydrated
  <2> HIDE DEF f
  <2>2. QED BY <1>3, <2>1, AwaitedQuiet
<1>5. CASE Hydrated(f)
  <2> DEFINE phase == IF persists[p].phase = "save" THEN "saving" ELSE "resaving"
             q == [persists[p] EXCEPT !.snapshot = memory[f], !.phase = phase]
  <2>1. persists' = [persists EXCEPT ![p].snapshot = memory[f], ![p].phase = phase]
        /\ UNCHANGED loadState
    BY <1>2, <1>5 DEF Save, PersistOK, Fields
  <2>2. persists' = [persists EXCEPT ![p] = q]
    BY <2>1
  <2>3. phase \in Writing /\ (phase = "saving" <=> persists[p].phase = "save")
    BY DEF Writing
  <2> HIDE DEF phase
  <2>4. /\ q.phase = phase /\ q.snapshot = memory[f] /\ q.at = f
        /\ q.changes = persists[p].changes /\ q.undo = persists[p].undo
        /\ q.failed = persists[p].failed
    BY <1>2 DEF PersistOK, Fields
  <2> HIDE DEF q
  <2>5. /\ Running' = {p} /\ Alone'
        /\ persists'[p] = q /\ Touched(p)' = Touched(p)
        /\ \A g : Row(p, g)' = Row(p, g) /\ (IsAdd(p, g)' <=> IsAdd(p, g))
                  /\ Content(p, g)' = Content(p, g)
        /\ \A g, r : Busy(g, r)' <=> Busy(g, r)
    <3>1. q.phase \in Live
      BY <2>3, <2>4 DEF Live, Writing
    <3>2. QED BY <1>1, <2>2, <2>4, <3>1, GoesOn
  <2>6. /\ \A g : InMemory(g)' <=> InMemory(g)
        /\ \A g, r : /\ Certain(g, r)' <=> Certain(g, r)
                     /\ Rest(g, r)' <=> Rest(g, r)
                     /\ Stored(g, r)' <=> Stored(g, r)
        /\ StaleInMemory' <=> StaleInMemory
    BY <1>3, <2>1, SameStatus
  <2>7. RowsAtRest' /\ StaleInMemory'
    BY <2>5, <2>6 DEF Orderly, RowsAtRest
  <2>8. Progress(p)
    BY <1>1 DEF Orderly
  <2>9. persists'[p].at = persists[p].at /\ persists'[p].undo = persists[p].undo
        /\ persists'[p].failed = persists[p].failed /\ persists'[p].phase = phase
        /\ persists'[p].snapshot = memory[f]
    BY <2>4, <2>5
  <2>10. ASSUME NEW g \in Touched(p)
         PROVE  /\ SavingFile(p, g) => SavingFile(p, g)'
                /\ UndoingFile(p, g) => UndoingFile(p, g)'
    <3>1. SavingFile(p, g) => SavingFile(p, g)'
      BY <1>3, <2>5, <2>6, <2>9 DEF SavingFile
    <3>2. UndoingFile(p, g) => UndoingFile(p, g)'
      BY <1>3, <2>5, <2>6, <2>9 DEF UndoingFile
    <3>3. QED BY <3>1, <3>2
  <2>11. SnapshotCurrent(p)'
    <3>1. InMemory(f)
      BY <1>5 DEF Hydrated, InMemory
    <3>2. loadState'[f] = "loaded" /\ memory'[f] = memory[f]
      BY <1>3, <2>1, <3>1 DEF InMemory
    <3>3. persists'[p].at = f
      BY <2>9
    <3> HIDE DEF f
    <3>4. QED BY <2>9, <3>2, <3>3 DEF SnapshotCurrent, InMemory
  <2>12. Progress(p)'
    <3>1. CASE phase = "saving"
      <4>1. \A g \in Touched(p) : SavingFile(p, g)
        BY <2>3, <2>8, <3>1 DEF Progress
      <4>2. \A g \in Touched(p)' : SavingFile(p, g)'
        BY <2>5, <2>10, <4>1
      <4>3. QED BY <2>9, <2>11, <3>1, <4>2 DEF Progress
    <3>2. CASE phase = "resaving"
      <4>1. /\ persists[p].failed \in Nat /\ persists[p].at < persists[p].failed
            /\ \A g \in Touched(p) : UndoingFile(p, g)
        BY <1>1, <2>3, <2>8, <3>2 DEF Progress
      <4>2. \A g \in Touched(p)' : UndoingFile(p, g)'
        BY <2>5, <2>10, <4>1
      <4>3. QED BY <2>9, <2>11, <3>2, <4>1, <4>2 DEF Progress
    <3>3. QED BY <2>3, <3>1, <3>2 DEF Writing
  <2>13. QED BY <2>5, <2>7, <2>12 DEF Orderly
<1>6. QED BY <1>4, <1>5

\* The save of one file failed: memory is what it was before the persist.
LEMMA SaveFailedQuiet ==
  ASSUME IInv, Orderly, NEW p \in Running, persists[p].phase \in {"save", "saving"},
         NEW rest \in Seq(Entries), SaveFailed(p, rest),
         UNCHANGED <<loadState, disk, truth, torn, collided, stale>>
  PROVE  Orderly'
<1>1. /\ PersistOK(persists[p], collided) /\ p \in DOMAIN persists
      /\ Touched(p) \subseteq Files /\ Touched(p) \subseteq Nat \ {0} /\ Touched(p) # {}
      /\ persists[p].at \in Touched(p)
  BY RunningFacts
<1>2. memory' = Reverted(p)
  BY DEF SaveFailed
<1>3. \A f \in Files, r \in Rows :
        memory'[f][r] = IF f \in Touched(p) /\ r = Row(p, f)
                          THEN persists[p].undo[f] ELSE memory[f][r]
  BY <1>2, RevertedValue
<1>4. /\ \A f : InMemory(f)' <=> InMemory(f)
      /\ \A f, r : (Certain(f, r)' <=> Certain(f, r)) /\ (Stored(f, r)' <=> Stored(f, r))
      /\ StaleInMemory' <=> StaleInMemory
  BY DEF InMemory, Certain, Collided, Stored, StaleInMemory
<1>5. \A f \in Touched(p) : SavingFile(p, f)
  BY DEF Orderly, Progress
<1>6. ASSUME NEW f \in Files, NEW r \in Rows, Certain(f, r), ~Busy(f, r)
      PROVE  Rest(f, r)' /\ Stored(f, r)'
  <2>1. Rest(f, r) /\ Stored(f, r)
    BY <1>6 DEF Orderly, RowsAtRest
  <2>2. memory'[f][r] = memory[f][r]
    BY <1>3, <1>6 DEF Busy
  <2>3. QED BY <1>4, <2>1, <2>2 DEF Rest
<1>7. ASSUME NEW f \in Touched(p), NEW r \in Rows, r = Row(p, f), Certain(f, r)
      PROVE  Rest(f, r)'
  <2>1. memory'[f][r] = persists[p].undo[f] /\ persists[p].undo[f] = truth[f][r]
    BY <1>1, <1>3, <1>5, <1>7 DEF SavingFile
  <2>2. QED BY <2>1 DEF Rest
<1>8. CASE SavedBefore(p) = {}
  <2>1. persists' = Unheard(<<Goes(p)>> \o rest)
    BY <1>8 DEF SaveFailed
  <2>2. \A f \in Touched(p) : f >= persists[p].at
    BY <1>1, <1>8 DEF SavedBefore
  <2>3. ASSUME NEW f \in Touched(p), NEW r \in Rows, r = Row(p, f), Certain(f, r)'
        PROVE  Rest(f, r)' /\ Stored(f, r)'
    BY <1>4, <1>5, <1>7, <2>2, <2>3 DEF SavingFile
  <2>4. persists'[p].phase \in Ended
    <3>1. \E n \in DOMAIN (<<Goes(p)>> \o rest) : (<<Goes(p)>> \o rest)[n].who = p
      <4>1. <<Goes(p)>> \in Seq(Entries)
        BY <1>1, GoesTyped
      <4>2. /\ Len(<<Goes(p)>>) = 1 /\ Len(rest) \in Nat
            /\ DOMAIN (<<Goes(p)>> \o rest) = 1..(1 + Len(rest))
            /\ (<<Goes(p)>> \o rest)[1] = Goes(p)
        BY <4>1, ConcatProperties, LenProperties
      <4>3. Goes(p).who = p /\ 1 \in DOMAIN (<<Goes(p)>> \o rest)
        BY <4>2 DEF Goes
      <4>4. QED BY <4>2, <4>3
    <3>2. QED BY <1>1, <2>1, <3>1 DEF Unheard, AsEnded, Ended
  <2>5. DOMAIN persists' = DOMAIN persists
        /\ \A i \in DOMAIN persists : persists'[i] = persists[i] \/ persists'[i].phase \in Ended
    BY <2>1 DEF Unheard, AsEnded, Ended
  <2>6. StaleInMemory'
    BY <1>4 DEF Orderly
  <2>7. \A f \in Files, r \in Rows : Certain(f, r)' /\ ~Busy(f, r) => Rest(f, r)' /\ Stored(f, r)'
    BY <1>4, <1>6
  <2>8. QED BY <2>3, <2>4, <2>5, <2>6, <2>7, Ends
<1>9. CASE SavedBefore(p) # {}
  <2> DEFINE at == Min(Touched(p))
             q == [persists[p] EXCEPT !.phase = "resave", !.failed = persists[p].at, !.at = at]
  <2>1. persists' = [persists EXCEPT ![p] = q]
    BY <1>9 DEF SaveFailed
  <2>2. at \in Touched(p) /\ \A f \in Touched(p) : at <= f
    <3>1. Touched(p) \in SUBSET Nat
      BY <1>1
    <3>2. QED BY <1>1, <3>1, MinIsMember
  <2>3. at < persists[p].at
    BY <1>1, <1>9, <2>2 DEF SavedBefore
  <2> HIDE DEF at
  <2>4. q.changes = persists[p].changes /\ q.phase = "resave" /\ q.at = at
        /\ q.failed = persists[p].at
    BY <1>1 DEF PersistOK, Fields
  <2> HIDE DEF q
  <2>5. /\ Running' = {p} /\ Alone'
        /\ persists'[p] = q /\ Touched(p)' = Touched(p)
        /\ \A g : Row(p, g)' = Row(p, g)
        /\ \A g, r : Busy(g, r)' <=> Busy(g, r)
    <3>1. q.phase \in Live
      BY <2>4 DEF Live
    <3>2. QED BY <2>1, <2>4, <3>1, GoesOn
  <2>6. RowsAtRest' /\ StaleInMemory'
    BY <1>4, <1>6, <2>5 DEF RowsAtRest, Orderly
  <2>7. ASSUME NEW f \in Touched(p) PROVE UndoingFile(p, f)'
    <3>0. PICK r : r = Row(p, f)
      BY <1>1
    <3>1. r = Row(p, f) /\ f \in Nat /\ persists[p].at \in Nat
      BY <1>1, <3>0
    <3>2. SavingFile(p, f)
      BY <1>5
    <3>3. Certain(f, r) => Rest(f, r)'
      BY <1>7, <3>1 DEF Certain
    <3>4. Certain(f, r) /\ (f < at \/ f >= persists[p].at) => Stored(f, r)
      BY <1>1, <2>2, <3>1, <3>2 DEF SavingFile
    <3>5. f < persists[p].at => InMemory(f)
      BY <3>2 DEF SavingFile
    <3>6. persists'[p].at = at /\ persists'[p].failed = persists[p].at /\ Row(p, f)' = r
      BY <2>4, <2>5, <3>1
    <3>7. QED BY <1>4, <3>3, <3>4, <3>5, <3>6 DEF UndoingFile
  <2>8. Progress(p)'
    <3>1. persists'[p].phase = "resave" /\ persists'[p].at = at
          /\ persists'[p].failed = persists[p].at /\ persists[p].at \in Nat
      BY <1>1, <2>4, <2>5
    <3>2. QED BY <2>3, <2>5, <2>7, <3>1 DEF Progress, Writing
  <2>9. QED BY <2>5, <2>6, <2>8 DEF Orderly
<1>10. QED BY <1>8, <1>9

LEMMA LoadFailedForQuiet ==
  ASSUME IInv, Orderly, LoadFailedFor
  PROVE  Orderly'
<1> SUFFICES ASSUME NEW p, p = Who PROVE Orderly'
  OBVIOUS
<1>1. turn # <<>> /\ UNCHANGED <<loadState, disk, truth, torn, collided, stale>>
  BY DEF LoadFailedFor, history
<1>2. CASE At({"load"}) /\ persists' = Unheard(turn) /\ UNCHANGED memory
  <2>1. p \in Running /\ persists[p].phase = "load" /\ p \in DOMAIN persists
    BY <1>1, <1>2, WhoRuns, RunningFacts DEF Live
  <2>2. \E n \in DOMAIN turn : turn[n].who = p
    <3>1. turn \in Seq(Entries)
      BY DEF IInv, TurnTyped
    <3>2. 1 \in DOMAIN turn /\ turn[1] = Head(turn)
      BY <1>1, <3>1, EmptySeq, LenProperties
    <3>3. QED BY <3>2 DEF Who
  <2>3. /\ DOMAIN persists' = DOMAIN persists /\ persists'[p].phase \in Ended
        /\ \A i \in DOMAIN persists : persists'[i] = persists[i] \/ persists'[i].phase \in Ended
    BY <1>2, <2>1, <2>2 DEF Unheard, AsEnded, Ended
  <2>4. UNCHANGED <<memory, loadState, disk, truth, torn, collided, stale>>
    BY <1>1, <1>2
  <2>5. QED BY <2>1, <2>3, <2>4, EndsUnapplied
<1>3. CASE At({"save"}) /\ SaveFailed(p, Tail(turn))
  <2>1. p \in Running /\ persists[p].phase = "save" /\ Tail(turn) \in Seq(Entries)
    BY <1>1, <1>3, WhoRuns, TurnProperties DEF Live
  <2>2. QED BY <1>1, <1>3, <2>1, SaveFailedQuiet
<1>4. QED BY <1>2, <1>3 DEF LoadFailedFor

\* hydrate brings what the file has, which is what memory is to hold.
LEMMA LoadedQuiet ==
  ASSUME IInv, Orderly, NEW f \in Files, Loaded(f)
  PROVE  Orderly'
<1>1. /\ loadState[f] = "loading" /\ UNCHANGED <<disk, persists, truth, torn, collided, stale>>
      /\ loadState' = [loadState EXCEPT ![f] = "loaded"]
      /\ memory' = [memory EXCEPT ![f] =
                      [r \in Rows |-> IF memory[f][r] # 0 THEN memory[f][r] ELSE disk[f][r]]]
  BY DEF Loaded, LoadEnds, history
<1>2. \A g \in Files, r \in Rows :
        memory'[g][r] = IF g = f /\ memory[f][r] = 0 THEN disk[f][r] ELSE memory[g][r]
  BY <1>1 DEF IInv, CollectionsTyped, Table
<1>3. \A g \in Files : g # f => memory'[g] = memory[g]
  BY <1>1 DEF IInv, CollectionsTyped, Table
<1>4. ~InMemory(f) /\ InMemory(f)' /\ \A g \in Files : InMemory(g) => InMemory(g)'
  BY <1>1 DEF InMemory, IInv, LoadsTyped
<1>5. \A g \in Files : g # f => (InMemory(g)' <=> InMemory(g))
  BY <1>1 DEF InMemory, IInv, LoadsTyped
<1>6. \A g, r : (Certain(g, r)' <=> Certain(g, r)) /\ (Stored(g, r)' <=> Stored(g, r))
  BY <1>1 DEF Certain, Collided, Stored
<1>7. \A r \in Rows : <<f, r>> \notin stale
  BY <1>4 DEF Orderly, StaleInMemory
<1>8. ASSUME NEW g \in Files, NEW r \in Rows, Rest(g, r), g = f => Stored(g, r)
      PROVE  Rest(g, r)'
  <2>1. CASE g = f
    <3>1. disk[f][r] = truth[f][r]
      BY <1>7, <1>8, <2>1 DEF Stored
    <3>2. memory'[f][r] = truth[f][r]
      BY <1>2, <1>8, <2>1, <3>1 DEF Rest
    <3>3. QED BY <1>1, <2>1, <3>2 DEF Rest
  <2>2. CASE g # f
    BY <1>1, <1>2, <1>5, <1>8, <2>2 DEF Rest
  <2>3. QED BY <2>1, <2>2
<1>9. /\ Running' = Running
      /\ \A p : Touched(p)' = Touched(p)
      /\ \A p, g : Row(p, g)' = Row(p, g) /\ (IsAdd(p, g)' <=> IsAdd(p, g))
                   /\ Content(p, g)' = Content(p, g)
  BY <1>1 DEF Running, Touched, Row, IsAdd, Content, Change
<1>10. \A g, r : Busy(g, r)' <=> Busy(g, r)
  BY <1>9 DEF Busy
<1>11. RowsAtRest'
  <2>1. SUFFICES ASSUME NEW g \in Files, NEW r \in Rows, Certain(g, r), ~Busy(g, r)
                 PROVE  Rest(g, r)' /\ Stored(g, r)'
    BY <1>6, <1>10 DEF RowsAtRest
  <2>2. Rest(g, r) /\ Stored(g, r)
    BY <2>1 DEF Orderly, RowsAtRest
  <2>3. QED BY <1>6, <1>8, <2>2
<1>12. Alone' /\ StaleInMemory'
  BY <1>1, <1>4, <1>9 DEF Orderly, Alone, StaleInMemory
<1>13. ASSUME NEW p \in Running PROVE Progress(p)'
  <2>1. /\ Touched(p) \subseteq Files /\ Touched(p) \subseteq Nat \ {0}
        /\ persists[p].phase # "load" => persists[p].at \in Touched(p)
        /\ p # 0 /\ persists[p].phase \in Live
    BY RunningFacts
  <2>2. Progress(p)
    BY DEF Orderly
  <2>3. ASSUME NEW g \in Touched(p), LoadingFile(p, g) PROVE LoadingFile(p, g)'
    <3>1. PICK r : r = Row(p, g)
      BY <2>1
    <3>2. Certain(g, r) => Rest(g, r)' /\ Stored(g, r)'
      BY <1>6, <1>8, <2>1, <2>3, <3>1 DEF LoadingFile, Certain
    <3>3. Row(p, g)' = r
      BY <1>9, <3>1
    <3>4. QED BY <1>1, <1>4, <1>6, <1>9, <2>1, <2>3, <3>1, <3>2, <3>3 DEF LoadingFile
  <2>4. ASSUME NEW g \in Touched(p), SavingFile(p, g) PROVE SavingFile(p, g)'
    <3>1. PICK r : r = Row(p, g)
      BY <2>1
    <3>2. ASSUME r \in Rows PROVE memory'[g][r] = memory[g][r]
      <4>1. CASE g = f
        <5>1. IsAdd(p, g)
          BY <1>4, <2>4, <4>1 DEF SavingFile
        <5>2. memory[g][r] # 0
          BY <2>1, <2>4, <3>1, <3>2, <5>1 DEF SavingFile, Content, IsAdd
        <5>3. QED BY <1>2, <2>1, <3>2, <4>1, <5>2
      <4>2. CASE g # f
        BY <1>2, <2>1, <3>2, <4>2
      <4>3. QED BY <4>1, <4>2
    <3>3. Row(p, g)' = r
      BY <1>9, <3>1
    <3>4. QED BY <1>1, <1>4, <1>6, <1>9, <2>1, <2>4, <3>1, <3>2, <3>3 DEF SavingFile
  <2>5. ASSUME NEW g \in Touched(p), UndoingFile(p, g), persists[p].failed \in Nat,
               persists[p].at < persists[p].failed
        PROVE  UndoingFile(p, g)'
    <3>1. PICK r : r = Row(p, g)
      BY <2>1
    <3>2. Certain(g, r) => Rest(g, r)'
      <4>1. SUFFICES ASSUME Certain(g, r) PROVE Rest(g, r)'
        OBVIOUS
      <4>2. g = f => g >= persists[p].failed
        BY <1>4, <2>1, <2>5 DEF UndoingFile
      <4>3. QED BY <1>8, <2>1, <2>5, <3>1, <4>1, <4>2 DEF UndoingFile, Certain
    <3>3. Row(p, g)' = r
      BY <1>9, <3>1
    <3>4. QED BY <1>1, <1>4, <1>6, <2>1, <2>5, <3>1, <3>2, <3>3 DEF UndoingFile
  <2>6. persists[p].phase \in Writing => (SnapshotCurrent(p) => SnapshotCurrent(p)')
    <3>1. SUFFICES ASSUME persists[p].phase \in Writing, SnapshotCurrent(p)
                   PROVE  SnapshotCurrent(p)'
      OBVIOUS
    <3>2. PICK g \in Files : g = persists[p].at
      BY <2>1, <3>1 DEF Writing
    <3>3. memory'[g] = memory[g] /\ InMemory(g)'
      BY <1>3, <1>4, <3>1, <3>2 DEF SnapshotCurrent
    <3>4. persists'[p].at = g /\ persists'[p].snapshot = persists[p].snapshot
      BY <1>1, <3>2
    <3>5. loadState'[g] = "loaded"
      BY <3>3 DEF InMemory
    <3>6. QED BY <3>1, <3>2, <3>3, <3>4, <3>5 DEF SnapshotCurrent, InMemory
  <2>7. QED
    BY <1>1, <1>9, <2>2, <2>3, <2>4, <2>5, <2>6 DEF Progress
<1>14. QED BY <1>9, <1>11, <1>12, <1>13 DEF Orderly

\* resaveNext: one more file is as before the persist, or is known not to be.
LEMMA ResavedQuiet ==
  ASSUME IInv, Orderly, NEW p \in Running, persists[p].phase = "resaving", Resaved(p),
         UNCHANGED <<memory, loadState, truth, torn, collided>>, StaleInMemory',
         \A f \in Files, r \in Rows : Certain(f, r) /\ ~Busy(f, r) => Stored(f, r)',
         \A f \in Touched(p), r \in Rows : r = Row(p, f) /\ Certain(f, r)
            => (Stored(f, r) \/ f = persists[p].at => Stored(f, r)')
  PROVE  Orderly'
<1> DEFINE left == {f \in After(p, persists[p].at) : f < persists[p].failed}
           at == Min(left)
<1>1. /\ PersistOK(persists[p], collided) /\ p \in DOMAIN persists
      /\ Touched(p) \subseteq Files /\ Touched(p) \subseteq Nat \ {0}
      /\ persists[p].at \in Touched(p)
  BY RunningFacts
<1>2. /\ persists[p].failed \in Nat /\ persists[p].at < persists[p].failed
      /\ \A f \in Touched(p) : UndoingFile(p, f)
  BY DEF Orderly, Progress
<1>3. /\ \A f : InMemory(f)' <=> InMemory(f)
      /\ \A f, r : (Certain(f, r)' <=> Certain(f, r)) /\ (Rest(f, r)' <=> Rest(f, r))
  BY DEF InMemory, Certain, Collided, Rest
<1>4. \A f \in Files, r \in Rows : Certain(f, r) /\ ~Busy(f, r) => Rest(f, r)' /\ Stored(f, r)'
  BY <1>3 DEF Orderly, RowsAtRest
<1>5. \A f \in Touched(p), r \in Rows : r = Row(p, f) /\ Certain(f, r) => Rest(f, r)'
  BY <1>2, <1>3 DEF UndoingFile
<1>6. \A f \in Touched(p) : f \in left <=> f > persists[p].at /\ f < persists[p].failed
  BY DEF After
<1>7. ASSUME NEW f \in Touched(p), NEW r \in Rows, r = Row(p, f), Certain(f, r),
             f < persists[p].at \/ f = persists[p].at \/ f >= persists[p].failed
      PROVE  Stored(f, r)'
  BY <1>2, <1>7 DEF UndoingFile
<1> HIDE DEF left
<1>8. CASE left = {}
  <2>1. persists' = Unheard(<<Goes(p)>>)
    BY <1>8 DEF Resaved, left
  <2>2. \E n \in DOMAIN <<Goes(p)>> : <<Goes(p)>>[n].who = p
    BY DEF Goes
  <2>3. /\ DOMAIN persists' = DOMAIN persists /\ persists'[p].phase \in Ended
        /\ \A i \in DOMAIN persists : persists'[i] = persists[i] \/ persists'[i].phase \in Ended
    BY <1>1, <2>1, <2>2 DEF Unheard, AsEnded, Ended
  <2>4. ASSUME NEW f \in Touched(p), NEW r \in Rows, r = Row(p, f), Certain(f, r)'
        PROVE  Rest(f, r)' /\ Stored(f, r)'
    <3>1. f < persists[p].at \/ f = persists[p].at \/ f >= persists[p].failed
      BY <1>1, <1>2, <1>6, <1>8
    <3>2. QED BY <1>3, <1>5, <1>7, <2>4, <3>1
  <2>5. QED BY <1>3, <1>4, <2>3, <2>4, Ends
<1>9. CASE left # {}
  <2> DEFINE q == [persists[p] EXCEPT !.phase = "resave", !.at = at]
  <2>1. persists' = [persists EXCEPT ![p] = q]
    BY <1>1, <1>9 DEF Resaved, left, PersistOK, Fields
  <2>2. at \in left /\ \A f \in left : at <= f
    <3>1. left \in SUBSET Nat
      BY <1>1 DEF left, After
    <3>2. QED BY <1>9, <3>1, MinIsMember
  <2> HIDE DEF at
  <2>3. at \in Touched(p) /\ at \in Nat /\ at > persists[p].at /\ at < persists[p].failed
    BY <1>1, <2>2 DEF left, After
  <2>4. q.changes = persists[p].changes /\ q.phase = "resave" /\ q.at = at
        /\ q.failed = persists[p].failed
    BY <1>1 DEF PersistOK, Fields
  <2> HIDE DEF q
  <2>5. /\ Running' = {p} /\ Alone'
        /\ persists'[p] = q /\ Touched(p)' = Touched(p)
        /\ \A g : Row(p, g)' = Row(p, g)
        /\ \A g, r : Busy(g, r)' <=> Busy(g, r)
    <3>1. q.phase \in Live
      BY <2>4 DEF Live
    <3>2. QED BY <2>1, <2>4, <3>1, GoesOn
  <2>6. RowsAtRest'
    BY <1>3, <1>4, <2>5 DEF RowsAtRest
  <2>7. ASSUME NEW f \in Touched(p) PROVE UndoingFile(p, f)'
    <3>1. PICK r : r = Row(p, f)
      BY <1>1
    <3>2. Certain(f, r) => Rest(f, r)'
      BY <1>5, <3>1 DEF Certain
    <3>3. Certain(f, r) /\ (f < at \/ f >= persists[p].failed) => Stored(f, r)'
      <4>1. SUFFICES ASSUME Certain(f, r), f < at \/ f >= persists[p].failed
                     PROVE  Stored(f, r)'
        OBVIOUS
      <4>2. f < persists[p].at \/ f = persists[p].at \/ f >= persists[p].failed
        BY <1>1, <1>2, <1>6, <2>2, <2>3, <4>1
      <4>3. QED BY <1>7, <3>1, <4>1, <4>2 DEF Certain
    <3>4. f < persists[p].failed => InMemory(f)
      BY <1>2 DEF UndoingFile
    <3>5. Row(p, f)' = r /\ persists'[p].at = at /\ persists'[p].failed = persists[p].failed
      BY <2>4, <2>5, <3>1
    <3>6. QED BY <1>3, <3>2, <3>3, <3>4, <3>5 DEF UndoingFile
  <2>8. Progress(p)'
    <3>1. persists'[p].phase = "resave" /\ persists'[p].at = at
          /\ persists'[p].failed = persists[p].failed
      BY <2>4, <2>5
    <3>2. QED BY <1>2, <2>3, <2>5, <2>7, <3>1 DEF Progress, Writing
  <2>9. QED BY <2>5, <2>6, <2>8 DEF Orderly
<1>10. QED BY <1>8, <1>9

LEMMA RenamedQuiet ==
  ASSUME IInv, Orderly, NEW p \in DOMAIN persists, Renamed(p)
  PROVE  Orderly'
<1>1. p \in Running /\ persists[p].phase \in {"saving", "resaving"}
  BY DEF Renamed, Saving, Running, Ended
<1>2. /\ PersistOK(persists[p], collided)
      /\ Touched(p) \subseteq Files /\ Touched(p) \subseteq Nat \ {0}
      /\ persists[p].at \in Touched(p)
  BY <1>1, RunningFacts
<1>3. PICK at \in Touched(p) : at = persists[p].at
  BY <1>2
<1>4. Progress(p)
  BY <1>1 DEF Orderly
<1>5. InMemory(at) /\ persists[p].snapshot = memory[at]
  BY <1>1, <1>3, <1>4 DEF Progress, Writing, SnapshotCurrent
<1>6. /\ disk' = [disk EXCEPT ![at] = memory[at]]
      /\ stale' = {c \in stale : c[1] # at}
      /\ UNCHANGED <<memory, loadState>>
  BY <1>3, <1>5 DEF Renamed, store, collections
<1>7. disk'[at] = memory[at] /\ \A f \in Files : f # at => disk'[f] = disk[f]
  BY <1>2, <1>6 DEF IInv, CollectionsTyped, Table
<1>8. /\ \A f : InMemory(f)' <=> InMemory(f)
      /\ StaleInMemory'
  BY <1>6 DEF Orderly, StaleInMemory, InMemory
<1>9. ASSUME NEW r \in Rows, Rest(at, r)
      PROVE  disk'[at][r] = truth[at][r]
  BY <1>5, <1>7, <1>9 DEF Rest
<1>10. ASSUME NEW f \in Files, NEW r \in Rows, f # at, Stored(f, r)
       PROVE  <<f, r>> \in stale' \/ disk'[f][r] = truth[f][r]
  BY <1>6, <1>7, <1>10 DEF Stored
<1>11. ASSUME NEW f \in Files, NEW r \in Rows, Certain(f, r), ~Busy(f, r)
       PROVE  Rest(f, r) /\ (<<f, r>> \in stale' \/ disk'[f][r] = truth[f][r])
  <2>1. Rest(f, r) /\ Stored(f, r)
    BY <1>11 DEF Orderly, RowsAtRest
  <2>2. QED BY <1>9, <1>10, <2>1
<1>12. CASE persists[p].phase = "resaving" /\ Resaved(p) /\ UNCHANGED history
  <2>1. UNCHANGED <<truth, torn, collided>> /\ \A f \in Touched(p) : UndoingFile(p, f)
    BY <1>4, <1>12 DEF history, Progress
  <2>2. \A f \in Files, r \in Rows : Certain(f, r) /\ ~Busy(f, r) => Stored(f, r)'
    BY <1>11, <2>1 DEF Stored
  <2>3. ASSUME NEW f \in Touched(p), NEW r \in Rows, r = Row(p, f), Certain(f, r),
               Stored(f, r) \/ f = persists[p].at
        PROVE  Stored(f, r)'
    <3>1. CASE f = at
      <4>1. Rest(at, r)
        BY <2>1, <2>3, <3>1 DEF UndoingFile
      <4>2. QED BY <1>9, <2>1, <3>1, <4>1 DEF Stored
    <3>2. CASE f # at
      <4>1. f \in Files /\ Stored(f, r)
        BY <1>2, <1>3, <2>3, <3>2
      <4>2. QED BY <1>10, <2>1, <3>2, <4>1 DEF Stored
    <3>3. QED BY <3>1, <3>2
  <2>4. QED BY <1>1, <1>6, <1>8, <1>12, <2>1, <2>2, <2>3, ResavedQuiet
<1>13. ASSUME persists[p].phase = "saving"
       PROVE  /\ \A f \in Touched(p) : SavingFile(p, f)
              /\ \A f \in Touched(p), r \in Rows : r = Row(p, f) /\ f <= at
                   => InMemory(f) /\ memory[f][r] = Content(p, f) /\ disk'[f][r] = Content(p, f)
  <2>1. \A f \in Touched(p) : SavingFile(p, f)
    BY <1>4, <1>13 DEF Progress
  <2>2. ASSUME NEW f \in Touched(p), NEW r \in Rows, r = Row(p, f), f <= at
        PROVE  InMemory(f) /\ memory[f][r] = Content(p, f) /\ disk'[f][r] = Content(p, f)
    <3>1. memory[f][r] = Content(p, f)
      BY <2>1, <2>2 DEF SavingFile
    <3>2. CASE f = at
      BY <1>5, <1>7, <3>1, <3>2
    <3>3. CASE f # at
      <4>1. f < at /\ f \in Files
        BY <1>2, <2>2, <3>3
      <4>2. InMemory(f) /\ disk[f][r] = Content(p, f)
        BY <1>3, <2>1, <2>2, <4>1 DEF SavingFile
      <4>3. QED BY <1>7, <3>1, <3>3, <4>1, <4>2
    <3>4. QED BY <3>2, <3>3
  <2>3. QED BY <2>1, <2>2
<1>14. CASE /\ persists[p].phase = "saving" /\ After(p, at) # {}
            /\ persists' = [persists EXCEPT ![p].phase = "save", ![p].at = Min(After(p, at))]
            /\ UNCHANGED history
  <2> DEFINE next == Min(After(p, at))
             q == [persists[p] EXCEPT !.phase = "save", !.at = next]
  <2>1. persists' = [persists EXCEPT ![p] = q]
    BY <1>14
  <2>2. next \in After(p, at) /\ \A f \in After(p, at) : next <= f
    <3>1. After(p, at) \in SUBSET Nat
      BY <1>2 DEF After
    <3>2. QED BY <1>14, <3>1, MinIsMember
  <2> HIDE DEF next
  <2>3. next \in Touched(p) /\ next \in Nat /\ next > at
        /\ \A f \in Touched(p) : f > at => next <= f
    BY <1>2, <2>2 DEF After
  <2>4. q.changes = persists[p].changes /\ q.phase = "save" /\ q.at = next
        /\ q.undo = persists[p].undo
    BY <1>2 DEF PersistOK, Fields
  <2> HIDE DEF q
  <2>5. /\ Running' = {p} /\ Alone'
        /\ persists'[p] = q /\ Touched(p)' = Touched(p)
        /\ \A g : Row(p, g)' = Row(p, g) /\ (IsAdd(p, g)' <=> IsAdd(p, g))
                  /\ Content(p, g)' = Content(p, g)
        /\ \A g, r : Busy(g, r)' <=> Busy(g, r)
    <3>1. q.phase \in Live
      BY <2>4 DEF Live
    <3>2. QED BY <1>1, <2>1, <2>4, <3>1, GoesOn
  <2>6. UNCHANGED <<truth, torn, collided>>
    BY <1>14 DEF history
  <2>7. /\ \A f, r : Certain(f, r)' <=> Certain(f, r)
        /\ \A f, r : Rest(f, r)' <=> Rest(f, r)
    BY <1>6, <2>6 DEF Certain, Collided, Rest, InMemory
  <2>8. RowsAtRest'
    <3>1. ASSUME NEW f \in Files, NEW r \in Rows, Certain(f, r), ~Busy(f, r)
          PROVE  Rest(f, r)' /\ Stored(f, r)'
      BY <1>11, <2>6, <2>7, <3>1 DEF Stored
    <3>2. QED BY <2>5, <2>7, <3>1 DEF RowsAtRest
  <2>9. ASSUME NEW f \in Touched(p) PROVE SavingFile(p, f)'
    <3>1. PICK r : r = Row(p, f)
      BY <1>2
    <3>2. SavingFile(p, f) /\ f \in Files /\ f \in Nat /\ at \in Nat
      BY <1>2, <1>13, <1>14
    <3>3. r \in Rows => memory'[f][r] = Content(p, f)
      BY <1>6, <3>1, <3>2 DEF SavingFile
    <3>4. Certain(f, r) => persists[p].undo[f] = truth[f][r]
      BY <3>1, <3>2 DEF SavingFile
    <3>5. Certain(f, r) /\ f >= next => Stored(f, r)'
      <4>1. SUFFICES ASSUME Certain(f, r), f >= next PROVE Stored(f, r)'
        OBVIOUS
      <4>2. f > at
        BY <2>3, <3>2, <4>1
      <4>3. f # at /\ Stored(f, r)
        BY <1>3, <3>1, <3>2, <4>1, <4>2 DEF SavingFile
      <4>4. QED BY <1>10, <2>6, <3>2, <4>1, <4>3 DEF Stored, Certain
    <3>6. f < next => InMemory(f) /\ (r \in Rows => disk'[f][r] = Content(p, f))
      <4>1. SUFFICES ASSUME f < next PROVE InMemory(f) /\ (r \in Rows => disk'[f][r] = Content(p, f))
        OBVIOUS
      <4>2. f <= at
        BY <2>3, <3>2, <4>1
      <4>3. InMemory(f)
        BY <1>3, <1>5, <3>2, <4>2 DEF SavingFile
      <4>4. QED BY <1>13, <1>14, <3>1, <4>2, <4>3
    <3>7. ~IsAdd(p, f) => InMemory(f)
      BY <3>2 DEF SavingFile
    <3>8. Row(p, f)' = r /\ persists'[p].at = next /\ persists'[p].undo = persists[p].undo
      BY <2>4, <2>5, <3>1
    <3>9. QED
      BY <1>8, <2>5, <2>6, <2>7, <3>3, <3>4, <3>5, <3>6, <3>7, <3>8 DEF SavingFile
  <2>10. Progress(p)'
    <3>1. persists'[p].phase = "save"
      BY <2>4, <2>5
    <3>2. QED BY <2>5, <2>9, <3>1 DEF Progress, Writing
  <2>11. QED BY <1>8, <2>5, <2>8, <2>10 DEF Orderly
<1>15. CASE /\ persists[p].phase = "saving" /\ After(p, at) = {}
            /\ persists' = [persists EXCEPT ![p] = AsEnded("success")]
            /\ truth' = Applied(truth, p, Touched(p))
            /\ torn' = torn \ {Cell(p, g) : g \in Touched(p)}
            /\ UNCHANGED collided
  <2>1. \A f \in Files, r \in Rows :
          truth'[f][r] = IF f \in Touched(p) /\ r = Row(p, f) THEN Content(p, f) ELSE truth[f][r]
    <3>1. truth \in Table
      BY DEF IInv, CollectionsTyped
    <3>2. QED BY <1>1, <1>15, <3>1, AppliedValue
  <2>2. \A f \in Touched(p) : f <= at
    BY <1>2, <1>15 DEF After
  <2>3. ASSUME NEW f \in Touched(p), NEW r \in Rows, r = Row(p, f)
        PROVE  Rest(f, r)' /\ Stored(f, r)'
    <3>1. f \in Files /\ memory[f][r] = Content(p, f) /\ disk'[f][r] = Content(p, f)
      BY <1>2, <1>13, <1>15, <2>2, <2>3
    <3>2. truth'[f][r] = Content(p, f)
      BY <2>1, <2>3, <3>1
    <3>3. QED BY <1>6, <3>1, <3>2 DEF Rest, Stored
  <2>4. ASSUME NEW f \in Files, NEW r \in Rows, Certain(f, r)', ~Busy(f, r)
        PROVE  Rest(f, r)' /\ Stored(f, r)'
    <3>1. ~(f \in Touched(p) /\ r = Row(p, f))
      BY <1>1, <2>4 DEF Busy
    <3>2. truth'[f][r] = truth[f][r]
      BY <2>1, <3>1
    <3>3. Certain(f, r)
      <4>1. \A g \in Touched(p) : Cell(p, g) # <<f, r>>
        BY <3>1 DEF Cell, Row
      <4>2. QED BY <1>15, <2>4, <4>1 DEF Certain, Collided
    <3>4. Rest(f, r) /\ (<<f, r>> \in stale' \/ disk'[f][r] = truth[f][r])
      BY <1>11, <2>4, <3>3
    <3>5. QED BY <1>6, <3>2, <3>4 DEF Rest, Stored, InMemory
  <2>5. /\ DOMAIN persists' = DOMAIN persists /\ persists'[p].phase \in Ended
        /\ \A i \in DOMAIN persists : persists'[i] = persists[i] \/ persists'[i].phase \in Ended
    BY <1>15 DEF AsEnded, Ended, IInv, Accounted, Listed
  <2>6. QED BY <1>1, <1>8, <2>3, <2>4, <2>5, Ends
<1>16. QED BY <1>3, <1>12, <1>14, <1>15 DEF Renamed

LEMMA SaveFailsQuiet ==
  ASSUME IInv, Orderly, NEW p \in DOMAIN persists, SaveFails(p)
  PROVE  Orderly'
<1>1. p \in Running /\ UNCHANGED <<loadState, disk, truth, torn, collided>>
  BY DEF SaveFails, Saving, Running, Ended, history
<1>2. CASE persists[p].phase = "saving" /\ SaveFailed(p, <<>>) /\ UNCHANGED stale
  <2>1. <<>> \in Seq(Entries)
    BY EmptySeq
  <2>2. QED BY <1>1, <1>2, <2>1, SaveFailedQuiet
<1>3. CASE /\ persists[p].phase = "resaving"
           /\ stale' = stale \cup {Cell(p, persists[p].at)}
           /\ Resaved(p) /\ UNCHANGED memory
  <2>1. persists[p].at \in Touched(p) /\ Touched(p) \subseteq Files
    BY <1>1, <1>3, RunningFacts
  <2>2. InMemory(persists[p].at)
    BY <1>1, <1>3 DEF Orderly, Progress, Writing, SnapshotCurrent
  <2>3. StaleInMemory'
    BY <1>1, <1>3, <2>2 DEF Orderly, StaleInMemory, InMemory, Cell
  <2>4. \A f, r : Stored(f, r) => Stored(f, r)'
    BY <1>1, <1>3 DEF Stored
  <2>5. \A f \in Files, r \in Rows : Certain(f, r) /\ ~Busy(f, r) => Stored(f, r)'
    BY <2>4 DEF Orderly, RowsAtRest
  <2>6. ASSUME NEW f \in Touched(p), NEW r \in Rows, r = Row(p, f), f = persists[p].at
        PROVE  Stored(f, r)'
    <3>1. <<f, r>> \in stale'
      BY <1>3, <2>6 DEF Cell, Row
    <3>2. QED BY <3>1 DEF Stored
  <2>7. QED BY <1>1, <1>3, <2>3, <2>4, <2>5, <2>6, ResavedQuiet
<1>4. QED BY <1>2, <1>3 DEF SaveFails

LEMMA CrashQuiet ==
  ASSUME IInv, Orderly, Crash
  PROVE  Orderly'
<1>1. /\ memory' = [f \in Files |-> Empty]
      /\ loadState' = [f \in Files |-> "unloaded"]
      /\ torn' = torn \cup stale \cup UNION {Given(p) : p \in Running}
      /\ stale' = {} /\ UNCHANGED <<disk, truth, collided>>
      /\ persists' = [p \in DOMAIN persists |->
           IF p \in Running THEN AsEnded("gone") ELSE persists[p]]
  BY DEF Crash
<1>2. Running' = {}
  BY <1>1 DEF Running, AsEnded, Ended
<1>3. ASSUME NEW f \in Files, NEW r \in Rows, Certain(f, r)'
      PROVE  Rest(f, r)' /\ Stored(f, r)'
  <2>1. Rest(f, r)'
    BY <1>1 DEF Rest, InMemory, Empty
  <2>2. Certain(f, r) /\ <<f, r>> \notin stale
    BY <1>1, <1>3 DEF Certain, Collided
  <2>3. ~Busy(f, r)
    <3>1. ASSUME NEW p \in Running, f \in Touched(p), Row(p, f) = r PROVE FALSE
      <4>1. Cell(p, f) = <<f, r>> /\ Cell(p, f) \in Given(p)
        BY <3>1, RowsInOrder DEF Cell, Row, Given, Unnumbered
      <4>2. QED BY <1>1, <1>3, <3>1, <4>1 DEF Certain
    <3>2. QED BY <3>1 DEF Busy
  <2>4. Stored(f, r)
    BY <2>2, <2>3 DEF Orderly, RowsAtRest
  <2>5. QED BY <1>1, <2>1, <2>2, <2>4 DEF Stored
<1>4. RowsAtRest' /\ Alone' /\ StaleInMemory'
  BY <1>1, <1>2, <1>3 DEF RowsAtRest, Alone, StaleInMemory
<1>5. QED BY <1>2, <1>4 DEF Orderly

-----------------------------------------------------------------------------
(* The invariant, and what follows from it.                                 *)

LEMMA NextIInv == IInv /\ [Next]_vars => IInv'
<1> SUFFICES ASSUME IInv, [Next]_vars PROVE IInv'
  OBVIOUS
<1>1. CASE BulkPersist
  BY <1>1, BulkPersistIInv
<1>2. CASE \E f \in Files : QueryLoads(f) \/ FileAnswers(f)
  BY <1>2, QueryLoadsIInv, LoadedIInv, LoadFailsIInv DEF FileAnswers
<1>3. CASE \E p \in 1..MaxPersists : SaveAnswers(p)
  BY <1>3, RenamedIInv, SaveFailsIInv DEF SaveAnswers
<1>4. CASE Step
  BY <1>4, QueryGoesOnIInv, LoadIInv, RefuseIInv, NumberIInv, ApplyIInv, SaveIInv, LoadFailedForIInv
     DEF Step
<1>5. CASE Crash
  BY <1>5, CrashIInv
<1>6. CASE UNCHANGED vars
  <2>1. UNCHANGED <<collections, waiters, loadState, disk, persists, turn, faults, history, stale>>
    BY <1>6 DEF vars, store, history
  <2>2. Accounted' /\ DOMAIN persists' = DOMAIN persists /\ turn' \in Seq(Entries)
    BY <2>1, SamePersists DEF history, IInv, TurnTyped
  <2>3. QED BY <2>1, <2>2, SameLoads, QuietIInv
<1>7. QED BY <1>1, <1>2, <1>3, <1>4, <1>5, <1>6 DEF Next

\* The inductive invariant of bulkPersist, load and save.
THEOREM Invariant == Spec => []IInv
<1>1. QED BY InitIInv, NextIInv, PTL DEF Spec

\* Every variable of the collections, the persists and the turn keeps its type,
\* and only a file being read is awaited.
THEOREM TypeCorrect == Spec => []TypeOK
<1>1. QED BY Invariant, TypesHold, PTL

\* A stored row that no persist names stays in its file, whatever overlaps, fails, is
\* reverted or crashes, but for the rows that an add was numbered over before the file
\* was read: save never writes a collection it has not hydrated, and resolveIdSet of a
\* hydrated one never gives the number of a stored row.
THEOREM StoredRowsStay == Spec => []StoredRowsKept
<1>1. IInv => StoredRowsKept
  BY DEF IInv, FilesKept, Kept, Safe, StoredRowsKept, Unread
<1>2. QED BY <1>1, Invariant, PTL

-----------------------------------------------------------------------------
(* A failed save did nothing, an answered one is stored: where adds name    *)
(* new rows, as the undo of an add removes whatever the row held.           *)

LEMMA InitQuiet == Init => Quiet
<1>1. SUFFICES ASSUME Init PROVE Orderly
  BY DEF Quiet
<1>2. Running = {} /\ stale = {} /\ disk = truth
  BY <1>1 DEF Init, Running
<1>3. \A f \in Files, r \in Rows : memory[f][r] = 0 /\ ~InMemory(f)
  BY <1>1 DEF Init, Empty, InMemory
<1>4. QED
  BY <1>2, <1>3 DEF Orderly, RowsAtRest, Rest, Stored, Alone, StaleInMemory

LEMMA NextQuiet == ~Readds => (IInv /\ Quiet /\ [Next]_vars => Quiet')
<1> SUFFICES ASSUME ~Readds, IInv, Quiet, [Next]_vars, ~overlapped' PROVE Orderly'
  BY DEF Quiet
<1>1. CASE BulkPersist
  BY <1>1, BulkPersistQuiet
<1>2. CASE ~BulkPersist
  <2>1. overlapped' = overlapped
    <3>1. CASE UNCHANGED vars
      BY <3>1 DEF vars
    <3>2. CASE Step
      BY <3>2 DEF Step, QueryGoesOn, Load, Refuse, Number, Apply, Save, LoadFailedFor, history
    <3>3. CASE Next /\ ~Step
      BY <1>2, <3>3 DEF Next, FileAnswers, SaveAnswers, QueryLoads, Loaded, LoadFails, Renamed,
                        SaveFails, Crash, history
    <3>4. QED BY <3>1, <3>2, <3>3
  <2>2. Orderly
    BY <2>1, Zenon DEF Quiet
  <2>3. CASE \E f \in Files : QueryLoads(f)
    <3>1. PICK f \in Files : QueryLoads(f)
      BY <2>3
    <3>2. Await(f, Query) /\ loadState[f] # "loaded"
          /\ UNCHANGED <<memory, disk, truth, torn, collided, stale, persists>>
      BY <3>1 DEF QueryLoads, history, collections
    <3>3. QED BY <2>2, <3>2, AwaitedQuiet
  <2>4. CASE \E f \in Files : Loaded(f)
    BY <2>2, <2>4, LoadedQuiet
  <2>5. CASE \E f \in Files : LoadFails(f)
    <3>1. PICK f \in Files : LoadFails(f)
      BY <2>5
    <3>2. /\ \A g \in Files : loadState'[g] = "loaded" <=> loadState[g] = "loaded"
          /\ UNCHANGED <<memory, disk, truth, torn, collided, stale, persists>>
      BY <3>1 DEF LoadFails, LoadEnds, history, collections, IInv, LoadsTyped
    <3>3. QED BY <2>2, <3>2, SameRows
  <2>6. CASE \E p \in 1..MaxPersists : SaveAnswers(p)
    BY <2>2, <2>6, RenamedQuiet, SaveFailsQuiet DEF SaveAnswers
  <2>7. CASE QueryGoesOn \/ UNCHANGED vars
    <3>1. UNCHANGED <<memory, loadState, disk, truth, torn, collided, stale, persists>>
      BY <2>7 DEF QueryGoesOn, vars, store, collections, history
    <3>2. QED BY <2>2, <3>1, SameRows
  <2>8. CASE Load \/ Refuse \/ Number \/ Apply \/ Save \/ LoadFailedFor
    BY <2>2, <2>8, LoadQuiet, RefuseQuiet, NumberQuiet, ApplyQuiet, SaveQuiet, LoadFailedForQuiet
  <2>9. CASE Crash
    BY <2>2, <2>9, CrashQuiet
  <2>10. QED
    BY <1>2, <2>3, <2>4, <2>5, <2>6, <2>7, <2>8, <2>9 DEF Next, Step, FileAnswers
<1>3. QED BY <1>1, <1>2

LEMMA UnsureCells ==
  ASSUME NEW f, NEW r \in Rows, <<f, r>> \notin Unsure
  PROVE  Certain(f, r) /\ ~Busy(f, r)
<1>1. Certain(f, r)
  BY DEF Unsure, Certain
<1>2. ASSUME NEW p \in Running, f \in Touched(p), Row(p, f) = r PROVE FALSE
  <2>1. Cell(p, f) = <<f, r>> /\ Cell(p, f) \in Given(p)
    BY <1>2, RowsInOrder DEF Cell, Row, Given, Unnumbered
  <2>2. QED BY <1>2, <2>1 DEF Unsure
<1>3. QED BY <1>1, <1>2 DEF Busy

LEMMA QuietImplies == Quiet => FailedSavesDoNothing /\ AnsweredIsStored
<1> SUFFICES ASSUME ~overlapped, Orderly PROVE FailedSavesDoNothing /\ AnsweredIsStored
  BY Zenon DEF Quiet, FailedSavesDoNothing, AnsweredIsStored
<1>1. ASSUME NEW f \in Files, NEW r \in Rows, <<f, r>> \notin Unsure
      PROVE  Rest(f, r) /\ Stored(f, r)
  BY <1>1, UnsureCells DEF Orderly, RowsAtRest
<1>2. FailedSavesDoNothing
  BY <1>1 DEF FailedSavesDoNothing, Rest, InMemory
<1>3. AnsweredIsStored
  BY <1>1 DEF AnsweredIsStored, Stored
<1>4. QED BY <1>2, <1>3

\* A save that is refused or fails leaves memory as the answered ones left it,
\* through reverting and saving again, failed loads and crashes: for saves that
\* do not overlap and adds of new rows (bulkPersist and its undo), and but for the rows
\* that an add was numbered over.
THEOREM FailuresLeaveNoTrace ==
  ASSUME ~Readds
  PROVE  Spec => []FailedSavesDoNothing
<1>1. IInv /\ Quiet /\ [Next]_vars => Quiet'
  BY NextQuiet
<1>2. Quiet => FailedSavesDoNothing
  BY QuietImplies
<1>3. QED BY <1>1, <1>2, InitQuiet, Invariant, PTL DEF Spec

\* A save answered with success is in the files through any later failure and
\* crash, under the same conditions (save, its renames and saving again).
THEOREM AnswersAreStored ==
  ASSUME ~Readds
  PROVE  Spec => []AnsweredIsStored
<1>1. IInv /\ Quiet /\ [Next]_vars => Quiet'
  BY NextQuiet
<1>2. Quiet => AnsweredIsStored
  BY QuietImplies
<1>3. QED BY <1>1, <1>2, InitQuiet, Invariant, PTL DEF Spec
=============================================================================
