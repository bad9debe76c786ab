---------------------------- MODULE StorageProofs ----------------------------
(***************************************************************************)
(* Proofs about StoragePlugins, for every backend it models, any number of *)
(* instances, tables, saves and faults: the plugins keep StoragePromise,   *)
(* and a save that fails has a cause.                                      *)
(*                                                                         *)
(* Both rest on IInv, whose parts say of a call under way                  *)
(*   what is left of its work and which step it may be at   EachFits       *)
(*   what of it has landed                                  EachLands      *)
(*   what its transaction holds of each row, from what its                 *)
(*   statements found there                                 EachWorks      *)
(*   which locks are its own, so that what it found stays   Ownership      *)
(*   which calls of its plugin come before it               EachTurn       *)
(*   who changed the rows it has not seen                   EachBlamed.    *)
(* Next has two dozen actions and most of them are used on one database    *)
(* only; the lemmas called ...Is reduce them to fourteen kinds of step,    *)
(* and each part of IInv is shown to survive each kind.  The last section  *)
(* maps each kind to a step of the promise or to none.                     *)
(***************************************************************************)
EXTENDS StoragePlugins, WellFoundedInduction, SequenceTheorems, TLAPS

(* Steps. *)
Locking == Transactional \ {"d1"}
Live(n)    == calls[n].step \in {"start", "tables", "run", "create", "creating", "bulk"}
Working(n) == calls[n].step \in {"tables", "run", "create", "creating", "bulk"}
Holding(n) == calls[n].step \in {"run", "create", "creating", "rollback"}
Ended(n)   == calls[n].step \in {"answer", "done"}

Steps  == {"start", "thrown", "tables", "run", "create", "creating", "bulk", "rollback", "answer", "done"}
Causes == {"none", "refused", "busy", "aborted", "exists", "deadlock", "duplicate", "conflict",
           "contention", "fault", "lost"}
OpSet   == [table : Tables, do : {"read", "add", "remove", "update"}, checked : BOOLEAN, rank : Nat \X Nat]
ChangeMaps == UNION {[S -> [do : {"add", "replace", "remove", "update"}, checked : BOOLEAN]] : S \in SUBSET Tables}
Views   == UNION {[S -> 0..OldRow] : S \in SUBSET Tables}
Call == [plugin : Plugins, step : Steps, cause : Causes, held : BOOLEAN, expected : [Tables -> 0..OldRow],
         changes : ChangeMaps, work : SUBSET OpSet, view : Views, seen : Views, created : SUBSET Tables,
         aborted : {FALSE}, malformed : BOOLEAN, landed : SUBSET Tables, missed : SUBSET Tables]

Typed ==
  /\ backend \in Backends /\ composite \subseteq Composites /\ tables \subseteq Tables
  /\ rows \in [Tables -> 0..OldRow]
  /\ owner \in [Tables -> 0..MaxCalls] /\ creator \in [Tables -> 0..MaxCalls]
  /\ calls \in Seq(Call) /\ Len(calls) <= MaxCalls
  /\ faults \in 0..MaxFaults

Do(n, t) == calls[n].changes[t].do
Has(n, t, do) == \E op \in calls[n].work : op.table = t /\ op.do = do
Lacks(n, t)   == \A op \in calls[n].work : op.table # t

WorkFits(n) ==
  /\ \A op \in calls[n].work :
       IF IsSave(n)
         THEN /\ op.table \in Touched(n)
              /\ op.checked = calls[n].changes[op.table].checked
              /\ op.do = Do(n, op.table) \/ (Do(n, op.table) = "replace" /\ op.do \in {"remove", "add"})
         ELSE op.do = "read"
  /\ \A a, b \in calls[n].work :
       a.table = b.table =>
         /\ a.do = b.do => a = b
         /\ (a.do = "remove" /\ b.do = "add" /\ backend # "d1") => Precedes(a, b)
  /\ \A a, b \in calls[n].work : (backend = "pouch" /\ a.do = "add" /\ b.do # "add") => a.rank # b.rank

ChangesFit(n) ==
  \A t \in Touched(n) : calls[n].changes[t].checked => Do(n, t) = "update" /\ calls[n].expected[t] # NoRow

StepFits(n) ==
  LET c == calls[n]
  IN  /\ (Live(n) \/ c.step = "thrown") => c.cause = "none"
      /\ c.step = "rollback" => c.cause \notin {"none", "lost"} /\ backend \in Locking /\ IsSave(n)
      /\ c.step = "bulk"     => backend = "pouch" /\ IsSave(n) /\ c.work # {}
      /\ c.step = "tables"   => backend = "mysql" /\ IsSave(n)
      /\ c.step = "thrown"   => backend \in {"pouch", "postgres"}
      /\ c.step \in {"create", "creating"} => c.work # {} /\ backend \in Relational /\ ~(backend = "d1" /\ IsSave(n))
      /\ (backend = "d1" /\ IsSave(n) /\ Live(n)) => c.work # {}
      /\ (c.step = "run" /\ backend = "d1" /\ IsSave(n)) => ~Checks(n)
      /\ c.step = "bulk" => \A op \in Batch(n) : op.checked => c.seen[op.table] = c.expected[op.table]

Sized(n) ==
  LET c == calls[n]
  IN  /\ c.landed \subseteq Touched(n) /\ c.missed \subseteq Touched(n) /\ c.created \subseteq Touched(n)
      /\ DOMAIN c.view \subseteq Touched(n)
      /\ backend \notin Locking => DOMAIN c.view = {}
      /\ c.step = "start" => c.missed = {} /\ DOMAIN c.view = {}

AllOrNothing(n) ==
  backend \in Transactional =>
    calls[n].landed = IF Ended(n) /\ calls[n].cause \in {"none", "lost"} THEN Touched(n) ELSE {}

OneByOne(n) ==
  (backend \notin Transactional /\ IsSave(n)) =>
    /\ Live(n) => \A t \in Touched(n) :
                    t \in calls[n].landed <=> ~ \E op \in calls[n].work : op.table = t /\ Lands(n, op)
    /\ Live(n) => \A t \in Touched(n) : Do(n, t) = "replace" /\ Has(n, t, "remove") => t \notin calls[n].landed
    /\ Ended(n) /\ calls[n].cause = "none" => calls[n].landed = Touched(n)

InView(n, t) == t \in DOMAIN calls[n].view
Shows(n, t, row) == InView(n, t) /\ calls[n].view[t] = row
Minds(n, t) == calls[n].changes[t].checked /\ backend # "dexie"

AddAt(n, t) ==
  \/ Has(n, t, "add") /\ ~InView(n, t)
  \/ Lacks(n, t) /\ Shows(n, t, n) /\ rows[t] = NoRow
RemoveAt(n, t) ==
  \/ Has(n, t, "remove") /\ ~InView(n, t)
  \/ Lacks(n, t) /\ Shows(n, t, NoRow)
  \/ Lacks(n, t) /\ ~InView(n, t) /\ t \in calls[n].missed
UpdateAt(n, t) ==
  \/ Has(n, t, "update") /\ ~InView(n, t)
  \/ Lacks(n, t) /\ Shows(n, t, n) /\ (Minds(n, t) => rows[t] = calls[n].expected[t])
  \/ Lacks(n, t) /\ ~InView(n, t) /\ t \in calls[n].missed /\ ~Minds(n, t)
ReplaceAt(n, t) ==
  \/ Has(n, t, "remove") /\ Has(n, t, "add") /\ ~InView(n, t)
  \/ ~Has(n, t, "remove") /\ Has(n, t, "add") /\ Shows(n, t, NoRow)
  \/ ~Has(n, t, "remove") /\ Has(n, t, "add") /\ ~InView(n, t) /\ t \in calls[n].missed
  \/ Lacks(n, t) /\ Shows(n, t, n)
Placed(n, t) ==
  /\ Do(n, t) = "add"     => AddAt(n, t)
  /\ Do(n, t) = "remove"  => RemoveAt(n, t)
  /\ Do(n, t) = "update"  => UpdateAt(n, t)
  /\ Do(n, t) = "replace" => ReplaceAt(n, t)
Progress(n) == (backend \in Locking /\ IsSave(n) /\ Live(n)) => \A t \in Touched(n) : Placed(n, t)

Owned(t) ==
  LET m == owner[t]
  IN  m # None =>
        /\ m \in DOMAIN calls /\ backend \in Locking /\ IsSave(m) /\ Holding(m)
        /\ backend = "sqlite" \/ t \in Touched(m)
        /\ backend = "mongo" => InView(m, t)
Locked(n) ==
  IsSave(n) =>
    /\ Live(n) => \A t \in DOMAIN calls[n].view : owner[t] = n
    /\ (Holding(n) /\ backend = "sqlite") => \A t \in Tables : owner[t] = n
    /\ (Holding(n) /\ backend = "dexie")  => \A t \in Touched(n) : owner[t] = n
Snapshot(n) ==
  (backend = "mongo" /\ IsSave(n) /\ Working(n)) =>
    \A t \in Touched(n) : calls[n].seen[t] = NoRow <=> t \in calls[n].missed
Creating(t) ==
  LET m == creator[t]
  IN  m # None =>
        /\ m \in DOMAIN calls /\ backend = "postgres"
        /\ IF IsSave(m) THEN t \in calls[m].created /\ Holding(m)
                        ELSE calls[m].step = "creating" /\ Op(m).table = t
Turns(n) ==
  (backend = "sqlite" /\ IsSave(n) /\ calls[n].step # "start") =>
    \A m \in 1..n-1 : calls[m].plugin = calls[n].plugin /\ IsSave(m) => calls[m].step = "done"

Taken(n, t) == \E m \in DOMAIN calls \ {n} : Wrote(m, t)
Begun(n, t) == t \in calls[n].landed \/ (Do(n, t) = "replace" /\ ~Has(n, t, "remove"))
RowBlamed(n, t) ==
  (Live(n) /\ rows[t] # calls[n].expected[t]) =>
    Taken(n, t) \/ (backend \notin Transactional /\ Begun(n, t))
SnapshotBlamed(n, t) ==
  (Working(n) /\ backend = "mongo") =>
    /\ calls[n].seen[t] # calls[n].expected[t] => Taken(n, t)
    /\ calls[n].seen[t] # rows[t] => Taken(n, t)
GapBlamed(n, t) ==
  (Live(n) /\ backend \notin {"mongo", "d1"} /\ Do(n, t) = "replace" /\ ~Has(n, t, "remove") /\ Has(n, t, "add")
   /\ ~InView(n, t) /\ rows[t] # NoRow) => Taken(n, t)
LookBlamed(n, t) ==
  (calls[n].step = "bulk" /\ (\E op \in Batch(n) : op.table = t /\ op.do # "add")
   /\ rows[t] # calls[n].seen[t]) => Taken(n, t)
BlamedAt(n, t) == RowBlamed(n, t) /\ SnapshotBlamed(n, t) /\ GapBlamed(n, t) /\ LookBlamed(n, t)
Blamed(n) == IsSave(n) => \A t \in Touched(n) : BlamedAt(n, t)

EachFits   == \A n \in DOMAIN calls : WorkFits(n) /\ ChangesFit(n) /\ StepFits(n) /\ Sized(n)
EachLands  == \A n \in DOMAIN calls : AllOrNothing(n) /\ OneByOne(n)
EachWorks  == \A n \in DOMAIN calls : Progress(n) /\ Locked(n) /\ Snapshot(n)
Ownership  == \A t \in Tables : Owned(t) /\ Creating(t)
EachTurn   == \A n \in DOMAIN calls : Turns(n)
EachBlamed == \A n \in DOMAIN calls : Blamed(n)

IInv ==
  /\ Typed /\ EachFits /\ EachLands /\ EachWorks /\ Ownership /\ EachTurn /\ EachBlamed
  /\ FailuresHaveACause

-----------------------------------------------------------------------------
(* Operations.                                                             *)

LEMMA Bounds == MaxCalls \in Nat /\ MaxFaults \in Nat /\ OldRow \in Nat /\ OldRow = MaxCalls + 1
BY BoundsAssumption DEF OldRow

\* The places of operations are pairs of numbers, and a removal of a row comes before what replaces it.
LEMMA Ranks ==
  ASSUME NEW t, NEW i \in Nat, NEW do \in {"read", "add", "remove", "update"}
  PROVE  Rank(t, i, do) \in Nat \X Nat
BY DEF Rank, Passes, Phased, ByTable, Stage

LEMMA FirstExists ==
  ASSUME NEW work \in SUBSET OpSet, work # {}
  PROVE  First(work) # {}
<1> DEFINE Highs == {op.rank[1] : op \in work}
<1>1. Highs \subseteq Nat /\ Highs # {}
  BY DEF OpSet
<1>2. PICK high \in Highs : \A x \in Highs : ~(x < high)
  <2> HIDE DEF Highs
  <2>1. \E x \in Highs : \A y \in Highs : <<y, x>> \notin OpToRel(<, Nat)
    BY <1>1, NatLessThanWellFounded, WFMin, Zenon
  <2> QED
    BY <1>1, <2>1 DEF OpToRel
<1> DEFINE Lows == {op.rank[2] : op \in {o \in work : o.rank[1] = high}}
<1>3. Lows \subseteq Nat /\ Lows # {}
  BY <1>2 DEF OpSet
<1>4. PICK low \in Lows : \A x \in Lows : ~(x < low)
  <2> HIDE DEF Lows
  <2>1. \E x \in Lows : \A y \in Lows : <<y, x>> \notin OpToRel(<, Nat)
    BY <1>3, NatLessThanWellFounded, WFMin, Zenon
  <2> QED
    BY <1>3, <2>1 DEF OpToRel
<1>5. PICK op \in work : op.rank[1] = high /\ op.rank[2] = low
  BY <1>4
<1>6. ASSUME NEW other \in work PROVE ~Precedes(other, op)
  <2>1. other.rank[1] \in Highs /\ (other.rank[1] = high => other.rank[2] \in Lows)
    OBVIOUS
  <2> QED
    BY <1>2, <1>4, <1>5, <2>1 DEF Precedes
<1> QED
  BY <1>5, <1>6 DEF First

LEMMA OpIsLeft ==
  ASSUME NEW n, calls[n].work \in SUBSET OpSet, ~Finished(n)
  PROVE  /\ Op(n) \in Batch(n) /\ Op(n) \in calls[n].work /\ Op(n) \in OpSet
         /\ Batch(n) \in SUBSET calls[n].work
<1>1. Batch(n) # {} /\ Batch(n) \in SUBSET calls[n].work
  BY FirstExists DEF Finished, Batch, First
<1>2. Op(n) \in Batch(n)
  BY <1>1 DEF Op
<1> QED
  BY <1>1, <1>2

LEMMA OperationsFit ==
  ASSUME NEW save \in Saves
  PROVE  /\ Operations(save) \in SUBSET OpSet /\ Operations(save) # {}
         /\ \A i \in DOMAIN save : Parts(save[i], i) \subseteq Operations(save)
         /\ \A op \in Operations(save) : \E i \in DOMAIN save : op \in Parts(save[i], i)
         /\ \A a, b \in Operations(save) : a.table = b.table =>
              /\ a.do = b.do => a = b
              /\ (a.do = "remove" /\ b.do = "add" /\ backend # "d1") => Precedes(a, b)
         /\ \A a, b \in Operations(save) : (backend = "pouch" /\ a.do = "add" /\ b.do # "add") => a.rank # b.rank
<1> DEFINE Items == [table : Tables, do : {"read", "add", "replace", "remove", "update"}, checked : BOOLEAN]
<1>1. /\ save \in Seq(Items) /\ save # <<>>
      /\ \A i, j \in DOMAIN save : save[i].table = save[j].table => i = j
  BY SavesAssumption
<1>2. /\ DOMAIN save # {} /\ \A i \in DOMAIN save : i \in Nat \ {0} /\ save[i] \in Items
  <2> HIDE DEF Items
  <2>1. Len(save) \in Nat /\ DOMAIN save = 1..Len(save) /\ Len(save) # 0
    BY <1>1, EmptySeq, LenProperties
  <2>2. \A i \in 1..Len(save) : save[i] \in Items
    BY <1>1, ElementOfSeq
  <2> QED
    BY <2>1, <2>2
<1>3. \A op \in Operations(save) : \E i \in DOMAIN save : op \in Parts(save[i], i)
  BY DEF Operations
<1>4. \A i \in DOMAIN save : Parts(save[i], i) \subseteq Operations(save)
  BY DEF Operations
<1>5. ASSUME NEW i \in DOMAIN save, NEW op \in Parts(save[i], i)
      PROVE  /\ op \in OpSet /\ op.table = save[i].table /\ op.checked = save[i].checked
             /\ op.rank = Rank(save[i].table, i, op.do)
             /\ op = Part(save[i], i, op.do)
             /\ op.do = save[i].do \/ (save[i].do = "replace" /\ op.do \in {"remove", "add"})
  <2>1. PICK do \in IF save[i].do = "replace" THEN {"remove", "add"} ELSE {save[i].do} :
          op = Part(save[i], i, do)
    BY DEF Parts
  <2>2. do \in {"read", "add", "remove", "update"}
    BY <1>2, <2>1
  <2>3. Rank(save[i].table, i, do) \in Nat \X Nat
    BY <1>2, <2>2, Ranks
  <2> QED
    BY <1>2, <2>1, <2>2, <2>3 DEF Part, OpSet
<1>6. \E i \in DOMAIN save : Parts(save[i], i) # {}
  BY <1>2 DEF Parts
<1>7. ASSUME NEW a \in Operations(save), NEW b \in Operations(save), a.table = b.table
      PROVE  /\ a.do = b.do => a = b
             /\ (a.do = "remove" /\ b.do = "add" /\ backend # "d1") => Precedes(a, b)
  <2>1. PICK i \in DOMAIN save : a \in Parts(save[i], i)
    BY <1>3
  <2>2. PICK j \in DOMAIN save : b \in Parts(save[j], j)
    BY <1>3
  <2>3. i = j
    BY <1>1, <1>5, <1>7, <2>1, <2>2
  <2>4. a.do = b.do => a = b
    BY <1>5, <2>1, <2>2, <2>3
  <2>5. ASSUME a.do = "remove", b.do = "add", backend # "d1" PROVE Precedes(a, b)
    <3>1. a.rank = Rank(save[i].table, i, "remove") /\ b.rank = Rank(save[i].table, i, "add") /\ i \in Nat \ {0}
      BY <1>2, <1>5, <2>1, <2>2, <2>3, <2>5
    <3> QED
      BY <2>5, <3>1 DEF Rank, Passes, Phased, ByTable, Stage, Precedes
  <2> QED
    BY <2>4, <2>5
<1>8. ASSUME NEW a \in Operations(save), NEW b \in Operations(save), backend = "pouch", a.do = "add", b.do # "add"
      PROVE  a.rank # b.rank
  <2>1. PICK i \in DOMAIN save : a \in Parts(save[i], i)
    BY <1>3
  <2>2. PICK j \in DOMAIN save : b \in Parts(save[j], j)
    BY <1>3
  <2>3. /\ a.rank = Rank(save[i].table, i, "add") /\ i \in Nat \ {0}
        /\ b.rank = Rank(save[j].table, j, b.do)
    BY <1>2, <1>5, <1>8, <2>1, <2>2
  <2>4. a.rank[2] # 0 /\ b.rank[2] = 0
    BY <1>8, <2>3 DEF Rank, Passes
  <2> QED
    BY <2>4
<1> QED
  BY <1>3, <1>4, <1>5, <1>6, <1>7, <1>8

-----------------------------------------------------------------------------
(* What the steps of a call do.                                            *)

\* A step of call n, in which no other call changes.
Turned(n) ==
  /\ n \in DOMAIN calls /\ DOMAIN calls' = DOMAIN calls
  /\ \A m \in DOMAIN calls : m # n => calls'[m] = calls[m]
  /\ calls'[n].plugin = calls[n].plugin
  /\ calls'[n].expected = calls[n].expected
  /\ calls'[n].changes = calls[n].changes
  /\ calls'[n].malformed = calls[n].malformed
  /\ backend' = backend /\ composite' = composite

KeptWork(n) ==
  /\ calls'[n].work = calls[n].work /\ calls'[n].view = calls[n].view
  /\ calls'[n].landed = calls[n].landed /\ calls'[n].missed = calls[n].missed
Kept(n) == KeptWork(n) /\ calls'[n].seen = calls[n].seen
Waits   == rows' = rows /\ owner' = owner /\ creator' = creator

Fails(n) ==
  /\ Live(n) /\ Kept(n) /\ calls'[n].created = calls[n].created
  /\ calls'[n].cause \notin {"none", "lost"}
  /\ calls'[n].step = IF backend \in Locking /\ IsSave(n) /\ calls[n].step \in {"run", "create", "creating"}
                        THEN "rollback" ELSE "answer"
  /\ ~IsSave(n) => \A t \in Tables : creator[t] # n
  /\ calls[n].step = "start" => Turn(n)
  /\ Waits

Throws(n) ==
  /\ calls[n].step = "start" /\ backend \in {"pouch", "postgres"} /\ Kept(n) /\ calls'[n].created = calls[n].created
  /\ calls'[n].cause = calls[n].cause /\ calls'[n].step = "thrown"
  /\ Waits

Locks(n) ==
  /\ calls[n].step = "start" /\ IsSave(n) /\ Kept(n) /\ calls'[n].created = calls[n].created
  /\ calls'[n].cause = calls[n].cause /\ calls'[n].step = "run"
  /\ rows' = rows /\ creator' = creator
  /\ \/ /\ backend = "sqlite" /\ Turn(n)
        /\ \A t \in Tables : owner[t] = None /\ owner'[t] = n
     \/ /\ backend = "dexie"
        /\ \A t \in Touched(n) : owner[t] = None
        /\ \A t \in Tables : owner'[t] = IF t \in Touched(n) THEN n ELSE owner[t]

Begins(n) ==
  /\ calls[n].step = "start"
  /\ ~(backend \in {"sqlite", "dexie"} /\ IsSave(n)) /\ ~(backend = "d1" /\ Checks(n))
  /\ calls'[n].step = IF backend = "mysql" /\ IsSave(n) THEN "tables" ELSE "run"
  /\ calls'[n].cause = calls[n].cause /\ calls'[n].work = calls[n].work /\ calls'[n].view = calls[n].view
  /\ calls'[n].landed = calls[n].landed /\ calls'[n].created = calls[n].created
  /\ calls'[n].seen = IF backend = "mongo" THEN rows ELSE calls[n].seen
  /\ calls'[n].missed = {t \in Touched(n) : backend = "mongo" /\ rows[t] = NoRow}
  /\ Waits

Readies(n) ==
  /\ calls[n].step \in {"tables", "run", "create", "creating"}
  /\ calls'[n].step \in {"run", "create", "creating"}
  /\ Kept(n) /\ calls'[n].cause = calls[n].cause
  /\ calls'[n].step # "run" => calls[n].work # {} /\ backend \in Relational /\ ~(backend = "d1" /\ IsSave(n))
  /\ ~(backend = "d1" /\ IsSave(n))
  /\ calls'[n].created \in SUBSET Touched(n)
  /\ rows' = rows /\ owner' = owner
  /\ \A t \in Tables : creator'[t] = creator[t] \/ (creator[t] \in {None, n} /\ creator'[t] \in {None, n})
  /\ \A t \in Tables : creator'[t] = n =>
       /\ backend = "postgres"
       /\ IF IsSave(n) THEN t \in calls'[n].created ELSE calls'[n].step = "creating" /\ Op(n).table = t

Selects(n) ==
  /\ calls[n].step = "run" /\ ~IsSave(n)
  /\ calls'[n].step = "run" /\ calls'[n].cause = calls[n].cause
  /\ calls'[n].work \subseteq calls[n].work
  /\ calls'[n].view = calls[n].view /\ calls'[n].landed = calls[n].landed
  /\ calls'[n].missed = calls[n].missed /\ calls'[n].seen = calls[n].seen
  /\ calls'[n].created = calls[n].created
  /\ Waits

Executes(n) ==
  /\ Ready(n) /\ IsSave(n) /\ Cause(n) = "none" /\ backend \in Locking
  /\ calls'[n].step = "run" /\ calls'[n].cause = calls[n].cause
  /\ calls'[n].work = calls[n].work \ {Op(n)}
  /\ calls'[n].landed = calls[n].landed /\ calls'[n].seen = calls[n].seen /\ calls'[n].created = calls[n].created
  /\ rows' = rows /\ creator' = creator
  /\ IF Misses(n, Op(n))
       THEN /\ calls'[n].view = calls[n].view
            /\ calls'[n].missed = calls[n].missed \cup {Op(n).table}
            /\ owner' = owner
       ELSE /\ calls'[n].missed = calls[n].missed
            /\ DOMAIN calls'[n].view = DOMAIN calls[n].view \cup {Op(n).table}
            /\ \A t \in DOMAIN calls'[n].view :
                 calls'[n].view[t] = IF t = Op(n).table THEN Written(n, Op(n)) ELSE calls[n].view[t]
            /\ \A t \in Tables : owner'[t] = IF t = Op(n).table THEN n ELSE owner[t]

Writes(n) ==
  /\ Ready(n) /\ IsSave(n) /\ Cause(n) = "none" /\ backend = "loose"
  /\ calls'[n].step = "run" /\ calls'[n].cause = calls[n].cause
  /\ calls'[n].work = calls[n].work \ {Op(n)}
  /\ calls'[n].view = calls[n].view /\ calls'[n].missed = calls[n].missed
  /\ calls'[n].seen = calls[n].seen /\ calls'[n].created = calls[n].created
  /\ calls'[n].landed = IF Lands(n, Op(n)) THEN calls[n].landed \cup {Op(n).table} ELSE calls[n].landed
  /\ \A t \in Tables : rows'[t] = IF t = Op(n).table THEN Written(n, Op(n)) ELSE rows[t]
  /\ owner' = owner /\ creator' = creator

Batches(n) ==
  /\ calls[n].step = "run" /\ backend = "d1" /\ IsSave(n)
  /\ \A t \in Touched(n) : Do(n, t) = "add" => rows[t] = NoRow
  /\ calls'[n].step = "answer" /\ calls'[n].cause = calls[n].cause
  /\ calls'[n].landed = Touched(n)
  /\ calls'[n].work = calls[n].work /\ calls'[n].view = calls[n].view /\ calls'[n].missed = calls[n].missed
  /\ calls'[n].seen = calls[n].seen /\ calls'[n].created = calls[n].created
  /\ \A t \in Tables :
       rows'[t] = IF t \notin Touched(n) THEN rows[t]
                  ELSE IF Do(n, t) = "remove" \/ (Do(n, t) = "update" /\ rows[t] = NoRow) THEN NoRow ELSE n
  /\ owner' = owner /\ creator' = creator

Looks(n) ==
  /\ calls[n].step = "run" /\ calls[n].work # {} /\ backend = "pouch" /\ IsSave(n)
  /\ \E op \in Batch(n) : op.do # "add"
  /\ calls'[n].step = "bulk" /\ calls'[n].cause = calls[n].cause /\ KeptWork(n)
  /\ calls'[n].created = calls[n].created
  /\ \A t \in Tables :
       calls'[n].seen[t] = IF \E op \in Batch(n) : op.table = t /\ op.checked THEN calls[n].expected[t] ELSE rows[t]
  /\ Waits

\* The operations of a bulk that the database takes.
Good(n) ==
  {op \in Batch(n) : rows[op.table] = IF op.do = "add" THEN NoRow ELSE calls[n].seen[op.table]}

Bulks(n) ==
  /\ backend = "pouch" /\ IsSave(n) /\ calls[n].work # {}
  /\ calls[n].step = "bulk" \/ (calls[n].step = "run" /\ \A op \in Batch(n) : op.do = "add")
  /\ calls'[n].view = calls[n].view /\ calls'[n].missed = calls[n].missed
  /\ calls'[n].seen = calls[n].seen /\ calls'[n].created = calls[n].created
  /\ calls'[n].landed = calls[n].landed \cup {op.table : op \in {o \in Good(n) : Lands(n, o)}}
  /\ \/ /\ Good(n) = Batch(n)
        /\ calls'[n].step = "run" /\ calls'[n].cause = calls[n].cause
        /\ calls'[n].work = calls[n].work \ Batch(n)
     \/ /\ Good(n) # Batch(n)
        /\ calls'[n].step = "answer" /\ calls'[n].work = calls[n].work
        /\ calls'[n].cause = IF \A op \in Batch(n) : op.do = "add" THEN "duplicate" ELSE "conflict"
  /\ \A t \in Tables :
       rows'[t] = IF \E op \in Good(n) : op.table = t
                    THEN IF \E op \in Good(n) : op.table = t /\ op.do = "remove" THEN NoRow ELSE n
                    ELSE rows[t]
  /\ owner' = owner /\ creator' = creator

Commits(n) ==
  /\ calls[n].step = "run" /\ calls[n].work = {} /\ IsSave(n) /\ backend \in Locking
  /\ calls'[n].step = "answer" /\ calls'[n].cause \in {"none", "lost"} /\ calls'[n].landed = Touched(n)
  /\ calls'[n].work = calls[n].work /\ calls'[n].view = calls[n].view /\ calls'[n].missed = calls[n].missed
  /\ calls'[n].seen = calls[n].seen /\ calls'[n].created = calls[n].created
  /\ \A t \in Tables : rows'[t] = IF InView(n, t) THEN calls[n].view[t] ELSE rows[t]
  /\ \A t \in Tables : owner'[t] = IF owner[t] = n THEN None ELSE owner[t]
  /\ \A t \in Tables : creator'[t] = IF creator[t] = n THEN None ELSE creator[t]

Rolls(n) ==
  /\ calls[n].step = "rollback"
  /\ calls'[n].step = "answer" /\ calls'[n].cause = calls[n].cause /\ Kept(n)
  /\ calls'[n].created = calls[n].created
  /\ rows' = rows
  /\ \A t \in Tables : owner'[t] = IF owner[t] = n THEN None ELSE owner[t]
  /\ \A t \in Tables : creator'[t] = IF creator[t] = n THEN None ELSE creator[t]

Answers(n) ==
  /\ \/ calls[n].step = "answer"
     \/ calls[n].step = "run" /\ calls[n].work = {} /\ ~(IsSave(n) /\ backend \in Transactional)
  /\ calls'[n].step = "done" /\ calls'[n].cause = calls[n].cause
  /\ calls'[n].landed = calls[n].landed /\ calls'[n].missed = calls[n].missed
  /\ calls'[n].work = {} /\ DOMAIN calls'[n].view = {} /\ calls'[n].created = {}
  /\ Waits

Kinds(n) ==
  \/ Fails(n) \/ Throws(n) \/ Locks(n) \/ Begins(n) \/ Readies(n) \/ Selects(n) \/ Executes(n) \/ Writes(n)
  \/ Batches(n) \/ Looks(n) \/ Bulks(n) \/ Commits(n) \/ Rolls(n) \/ Answers(n)

LEMMA CallIs ==
  ASSUME Typed, NEW n \in DOMAIN calls
  PROVE  /\ calls[n] \in Call /\ n \in 1..MaxCalls /\ n \in 1..Len(calls) /\ n \in Nat /\ n # None
         /\ calls[n].work \in SUBSET OpSet /\ Touched(n) \subseteq Tables
         /\ n \in 0..OldRow /\ NoRow \in 0..OldRow
<1>1. calls \in Seq(Call) /\ Len(calls) <= MaxCalls
  BY DEF Typed
<1>2. n \in 1..Len(calls) /\ Len(calls) \in Nat /\ calls[n] \in Call
  BY <1>1, LenProperties, ElementOfSeq
<1>3. calls[n].work \in SUBSET OpSet /\ calls[n].changes \in ChangeMaps
  BY <1>2 DEF Call
<1>4. Touched(n) \subseteq Tables
  BY <1>3 DEF Touched, ChangeMaps
<1>5. n \in 1..MaxCalls /\ n \in 0..OldRow /\ 0 \in 0..OldRow
  BY <1>1, <1>2, Bounds
<1> QED
  BY <1>2, <1>3, <1>4, <1>5 DEF None, NoRow

LEMMA Becomes ==
  ASSUME Typed, NEW n \in DOMAIN calls, NEW c \in Call, Become(n, c)
  PROVE  /\ calls' \in Seq(Call) /\ Len(calls') = Len(calls) /\ Len(calls') <= MaxCalls
         /\ DOMAIN calls' = DOMAIN calls
         /\ calls'[n] = c /\ \A m \in DOMAIN calls : m # n => calls'[m] = calls[m]
<1>1. calls \in Seq(Call) /\ Len(calls) <= MaxCalls
  BY DEF Typed
<1>2. n \in 1..Len(calls) /\ DOMAIN calls = 1..Len(calls)
  BY <1>1, LenProperties
<1>3. calls' = [calls EXCEPT ![n] = c]
  BY DEF Become
<1>4. calls' \in Seq(Call) /\ Len(calls') = Len(calls)
  BY <1>1, <1>2, <1>3, ExceptSeq
<1> QED
  BY <1>1, <1>2, <1>3, <1>4

\* A new step, and perhaps a new cause.
LEMMA Stepping ==
  ASSUME Typed, NEW n \in DOMAIN calls, NEW step \in Steps, NEW cause \in Causes,
         Become(n, [calls[n] EXCEPT !.cause = cause, !.step = step]),
         backend' = backend, composite' = composite
  PROVE  /\ calls' \in Seq(Call) /\ Len(calls') <= MaxCalls /\ Turned(n) /\ Kept(n)
         /\ calls'[n].created = calls[n].created
         /\ calls'[n].step = step /\ calls'[n].cause = cause
<1> DEFINE c == [calls[n] EXCEPT !.cause = cause, !.step = step]
<1>1. calls[n] \in Call
  BY CallIs
<1>2. c \in Call
  BY <1>1 DEF Call
<1>3. /\ c.work = calls[n].work /\ c.view = calls[n].view /\ c.seen = calls[n].seen
      /\ c.landed = calls[n].landed /\ c.missed = calls[n].missed /\ c.created = calls[n].created
      /\ c.plugin = calls[n].plugin /\ c.expected = calls[n].expected /\ c.changes = calls[n].changes
      /\ c.malformed = calls[n].malformed
      /\ c.step = step /\ c.cause = cause
  BY <1>1 DEF Call
<1> HIDE DEF c
<1>4. Become(n, c)
  BY DEF c
<1> QED
  BY <1>2, <1>3, <1>4, Becomes DEF Turned, Kept, KeptWork

LEMMA JustStepping ==
  ASSUME Typed, NEW n \in DOMAIN calls, NEW step \in Steps, Step(n, step),
         backend' = backend, composite' = composite
  PROVE  /\ calls' \in Seq(Call) /\ Len(calls') <= MaxCalls /\ Turned(n) /\ Kept(n)
         /\ calls'[n].created = calls[n].created
         /\ calls'[n].step = step /\ calls'[n].cause = calls[n].cause
<1>1. calls[n] \in Call /\ calls[n].cause \in Causes
  BY CallIs DEF Call
<1>2. [calls[n] EXCEPT !.step = step] = [calls[n] EXCEPT !.cause = calls[n].cause, !.step = step]
  BY <1>1 DEF Call
<1>3. Become(n, [calls[n] EXCEPT !.cause = calls[n].cause, !.step = step])
  BY <1>2 DEF Step
<1> QED
  BY <1>1, <1>3, Stepping

LEMMA Failed ==
  ASSUME Typed, NEW n \in DOMAIN calls, NEW cause \in Causes \ {"none", "lost"}, Fail(n, cause), Live(n),
         ~IsSave(n) => \A t \in Tables : creator[t] # n, calls[n].step = "start" => Turn(n),
         backend' = backend, composite' = composite, rows' = rows, owner' = owner, creator' = creator
  PROVE  /\ calls' \in Seq(Call) /\ Len(calls') <= MaxCalls /\ Turned(n) /\ Fails(n)
         /\ calls'[n].cause = cause
<1> DEFINE step == IF InTransaction(n) THEN "rollback" ELSE "answer"
<1>1. step \in Steps
  BY DEF Steps
<1>2. Become(n, [calls[n] EXCEPT !.cause = cause, !.step = step])
  BY DEF Fail, Failing
<1>3. step = IF backend \in Locking /\ IsSave(n) /\ calls[n].step \in {"run", "create", "creating"}
               THEN "rollback" ELSE "answer"
  BY DEF InTransaction, Locking
<1>4. /\ calls' \in Seq(Call) /\ Len(calls') <= MaxCalls /\ Turned(n) /\ Kept(n)
      /\ calls'[n].created = calls[n].created /\ calls'[n].step = step /\ calls'[n].cause = cause
  <2> HIDE DEF step
  <2> QED
    BY <1>1, <1>2, Stepping
<1> QED
  BY <1>3, <1>4 DEF Fails, Waits

LEMMA QueryCreates ==
  ASSUME IInv, NEW n \in DOMAIN calls, ~IsSave(n), calls[n].step # "creating"
  PROVE  \A t \in Tables : creator[t] # n
BY CallIs DEF IInv, Ownership, Creating

\* What Typed asks when only steps change.
LEMMA StillTyped ==
  ASSUME Typed, calls' \in Seq(Call), Len(calls') <= MaxCalls, Waits,
         backend' = backend, composite' = composite, tables' \subseteq Tables, faults' \in 0..MaxFaults
  PROVE  Typed'
BY DEF Typed, Waits

LEMMA ThrowIs ==
  ASSUME IInv, NEW n \in 1..MaxCalls, Throw(n)
  PROVE  Typed' /\ Turned(n) /\ Throws(n)
<1> DEFINE c == [calls[n] EXCEPT !.step = "thrown", !.held = backend = "postgres" /\ IsSave(n)]
<1>1. /\ Typed /\ n \in DOMAIN calls /\ calls[n].step = "start" /\ backend \in {"pouch", "postgres"} /\ Become(n, c)
      /\ UNCHANGED <<backend, composite, tables, rows, owner, creator, faults>>
  BY DEF IInv, Throw, Invalid, Uncaught, Starts, At
<1>2. /\ calls' \in Seq(Call) /\ Len(calls') <= MaxCalls /\ Turned(n) /\ Kept(n)
      /\ calls'[n].created = calls[n].created
      /\ calls'[n].step = "thrown" /\ calls'[n].cause = calls[n].cause
  <2>1. calls[n] \in Call
    BY <1>1, CallIs
  <2>2. c \in Call
    BY <2>1 DEF Call, Steps
  <2>3. /\ c.work = calls[n].work /\ c.view = calls[n].view /\ c.seen = calls[n].seen
        /\ c.landed = calls[n].landed /\ c.missed = calls[n].missed /\ c.created = calls[n].created
        /\ c.plugin = calls[n].plugin /\ c.expected = calls[n].expected /\ c.changes = calls[n].changes
        /\ c.malformed = calls[n].malformed /\ c.step = "thrown" /\ c.cause = calls[n].cause
    BY <2>1 DEF Call
  <2> HIDE DEF c
  <2> QED
    BY <1>1, <2>2, <2>3, Becomes DEF Turned, Kept, KeptWork
<1>3. Waits /\ tables' \subseteq Tables /\ faults' \in 0..MaxFaults
  BY <1>1 DEF Typed, Waits
<1>4. Typed'
  BY <1>1, <1>2, <1>3, StillTyped
<1> QED
  BY <1>1, <1>2, <1>3, <1>4 DEF Throws

\* A step that fails call n and does nothing else.
LEMMA FailedTyped ==
  ASSUME IInv, NEW n \in DOMAIN calls, NEW cause \in Causes \ {"none", "lost"}, Fail(n, cause), Live(n),
         ~IsSave(n) => \A t \in Tables : creator[t] # n, calls[n].step = "start" => Turn(n),
         UNCHANGED <<backend, composite, tables, rows, owner, creator>>, faults' \in 0..MaxFaults
  PROVE  Typed' /\ Turned(n) /\ Fails(n) /\ calls'[n].cause = cause
<1>1. Typed /\ tables' \subseteq Tables /\ Waits
  BY DEF IInv, Typed, Waits
<1>2. calls' \in Seq(Call) /\ Len(calls') <= MaxCalls /\ Turned(n) /\ Fails(n) /\ calls'[n].cause = cause
  BY <1>1, Failed
<1> QED
  BY <1>1, <1>2, StillTyped

LEMMA RefuseIs ==
  ASSUME IInv, NEW n \in 1..MaxCalls, Refuse(n)
  PROVE  Typed' /\ Turned(n) /\ Fails(n) /\ calls'[n].cause = "refused"
<1>1. /\ n \in DOMAIN calls /\ Live(n) /\ calls[n].step # "creating" /\ Turn(n) /\ Fail(n, "refused")
      /\ UNCHANGED <<backend, composite, tables, rows, owner, creator>> /\ faults' \in 0..MaxFaults
  BY DEF IInv, Typed, Refuse, Starts, At, Live
<1> QED
  BY <1>1, FailedTyped, QueryCreates DEF Causes

LEMMA BeginImmediateIs ==
  ASSUME IInv, NEW n \in 1..MaxCalls, BeginImmediate(n)
  PROVE  /\ Typed' /\ Turned(n)
         /\ \/ /\ Fails(n) /\ calls'[n].cause = "busy"
               /\ backend = "sqlite" /\ Turn(n) /\ \E t \in Tables : owner[t] # None
            \/ Locks(n)
<1>1. /\ Typed /\ n \in DOMAIN calls /\ calls[n].step = "start" /\ Live(n) /\ backend = "sqlite" /\ IsSave(n)
      /\ Turn(n)
      /\ UNCHANGED <<backend, composite, tables, rows, creator, faults>> /\ faults' \in 0..MaxFaults
  BY DEF IInv, Typed, BeginImmediate, Starts, At, Live
<1>2. CASE \E t \in Tables : owner[t] # None
  <2>1. Fail(n, "busy") /\ owner' = owner
    BY <1>2 DEF BeginImmediate
  <2>2. Typed' /\ Turned(n) /\ Fails(n) /\ calls'[n].cause = "busy"
    BY <1>1, <2>1, FailedTyped DEF Causes
  <2> QED
    BY <1>1, <1>2, <2>2
<1>3. CASE \A t \in Tables : owner[t] = None
  <2>1. Step(n, "run") /\ owner' = [t \in Tables |-> n]
    BY <1>3 DEF BeginImmediate
  <2>2. /\ calls' \in Seq(Call) /\ Len(calls') <= MaxCalls /\ Turned(n) /\ Kept(n)
        /\ calls'[n].created = calls[n].created
        /\ calls'[n].step = "run" /\ calls'[n].cause = calls[n].cause
    BY <1>1, <2>1, JustStepping DEF Steps
  <2>3. Typed'
    <3>1. n \in 0..MaxCalls
      BY Bounds
    <3> QED
      BY <1>1, <2>1, <2>2, <3>1 DEF Typed
  <2>4. Locks(n)
    BY <1>1, <1>3, <2>1, <2>2 DEF Locks
  <2> QED
    BY <2>2, <2>3, <2>4
<1> QED
  BY <1>2, <1>3

LEMMA BeginScopedIs ==
  ASSUME IInv, NEW n \in 1..MaxCalls, BeginScoped(n)
  PROVE  Typed' /\ Turned(n) /\ Locks(n)
<1>1. /\ Typed /\ n \in DOMAIN calls /\ calls[n].step = "start" /\ backend = "dexie" /\ IsSave(n)
      /\ \A t \in Touched(n) : owner[t] = None
      /\ Step(n, "run") /\ owner' = [t \in Tables |-> IF t \in Touched(n) THEN n ELSE owner[t]]
      /\ UNCHANGED <<backend, composite, tables, rows, creator, faults>>
  BY DEF IInv, BeginScoped, Starts, At
<1>2. /\ calls' \in Seq(Call) /\ Len(calls') <= MaxCalls /\ Turned(n) /\ Kept(n)
      /\ calls'[n].created = calls[n].created
      /\ calls'[n].step = "run" /\ calls'[n].cause = calls[n].cause
  BY <1>1, JustStepping DEF Steps
<1>3. Typed'
  <2>1. n \in 0..MaxCalls
    BY Bounds
  <2> QED
    BY <1>1, <1>2, <2>1 DEF Typed
<1> QED
  BY <1>1, <1>2, <1>3 DEF Locks

LEMMA BeginIs ==
  ASSUME IInv, NEW n \in 1..MaxCalls, Begin(n)
  PROVE  Typed' /\ Turned(n) /\ Begins(n)
<1> DEFINE step == IF backend = "mysql" /\ IsSave(n) THEN "tables" ELSE "run"
<1> DEFINE held == backend \in Pooled
<1> DEFINE seen == IF backend = "mongo" THEN rows ELSE calls[n].seen
<1> DEFINE missed == {t \in Touched(n) : backend = "mongo" /\ rows[t] = NoRow}
<1> DEFINE c == [calls[n] EXCEPT !.step = step, !.held = held, !.seen = seen, !.missed = missed]
<1>1. /\ Typed /\ n \in DOMAIN calls /\ calls[n].step = "start"
      /\ ~(backend \in {"sqlite", "dexie"} /\ IsSave(n)) /\ ~(backend = "d1" /\ Checks(n))
      /\ Become(n, c)
      /\ UNCHANGED <<backend, composite, tables, rows, owner, creator, faults>>
  BY DEF IInv, Begin, Starts, At
<1>2. calls[n] \in Call /\ Touched(n) \subseteq Tables /\ rows \in [Tables -> 0..OldRow]
  BY <1>1, CallIs DEF Typed
<1>3. step \in Steps /\ held \in BOOLEAN /\ missed \in SUBSET Tables /\ seen \in Views
  <2>1. held \in BOOLEAN
    OBVIOUS
  <2>2. seen \in Views
    <3>1. calls[n].seen \in Views
      BY <1>2 DEF Call
    <3>2. rows \in Views
      BY <1>2 DEF Views
    <3> QED
      BY <3>1, <3>2
  <2> QED
    BY <1>2, <2>1, <2>2 DEF Steps
<1>4. /\ c \in Call /\ c.step = step /\ c.seen = seen /\ c.missed = missed
      /\ c.work = calls[n].work /\ c.view = calls[n].view /\ c.landed = calls[n].landed
      /\ c.created = calls[n].created /\ c.cause = calls[n].cause
      /\ c.plugin = calls[n].plugin /\ c.expected = calls[n].expected /\ c.changes = calls[n].changes
      /\ c.malformed = calls[n].malformed
  <2> HIDE DEF step, held, missed, seen
  <2> QED
    BY <1>2, <1>3 DEF Call
<1>5. /\ calls' \in Seq(Call) /\ Len(calls') <= MaxCalls /\ calls'[n] = c
      /\ DOMAIN calls' = DOMAIN calls /\ \A m \in DOMAIN calls : m # n => calls'[m] = calls[m]
  <2> HIDE DEF c
  <2> QED
    BY <1>1, <1>4, Becomes
<1>6. Turned(n)
  <2> HIDE DEF c
  <2> QED
    BY <1>1, <1>4, <1>5 DEF Turned
<1>7. Begins(n)
  <2> HIDE DEF c
  <2> QED
    BY <1>1, <1>4, <1>5 DEF Begins, Waits
<1>8. Typed'
  BY <1>1, <1>5, StillTyped DEF Waits, Typed
<1> QED
  BY <1>6, <1>7, <1>8

\* A savepoint takes back what an error did to the transaction.
LEMMA Recovers ==
  ASSUME Typed, NEW n \in DOMAIN calls
  PROVE  AfterError(n) = calls[n]
<1> DEFINE b == backend = "postgres" /\ IsSave(n)
<1>1. calls[n] \in Call /\ calls[n].aborted = FALSE
  BY CallIs DEF Call
<1>2. AfterError(n) = [[calls[n] EXCEPT !.aborted = b] EXCEPT !.aborted = FALSE]
  BY DEF AfterError, ToSavepoint
<1> HIDE DEF b
<1> QED
  BY <1>1, <1>2 DEF Call

LEMMA EnsureTablesIs ==
  ASSUME IInv, NEW n \in 1..MaxCalls, EnsureTables(n)
  PROVE  Typed' /\ Turned(n) /\ Readies(n)
<1>1. /\ Typed /\ n \in DOMAIN calls /\ calls[n].step = "tables" /\ tables' = tables \cup Touched(n)
      /\ Step(n, "run")
      /\ UNCHANGED <<backend, composite, rows, owner, creator, faults>>
  BY DEF IInv, EnsureTables, At
<1>2. /\ calls' \in Seq(Call) /\ Len(calls') <= MaxCalls /\ Turned(n) /\ Kept(n)
      /\ calls'[n].created = calls[n].created
      /\ calls'[n].step = "run" /\ calls'[n].cause = calls[n].cause
  BY <1>1, JustStepping DEF Steps
<1>3. Typed'
  <2>1. Waits /\ tables' \subseteq Tables /\ faults' \in 0..MaxFaults
    BY <1>1, CallIs DEF Waits, Typed
  <2> QED
    BY <1>1, <1>2, <2>1, StillTyped
<1>4. backend = "mysql" /\ IsSave(n)
  BY <1>1 DEF IInv, EachFits, StepFits
<1>5. calls[n].created \in SUBSET Touched(n)
  BY <1>1 DEF IInv, EachFits, Sized
<1>6. \A t \in Tables : creator[t] # n
  BY <1>4, <1>1, CallIs DEF IInv, Ownership, Creating
<1> QED
  BY <1>1, <1>2, <1>3, <1>4, <1>5, <1>6 DEF Readies

LEMMA MissTableIs ==
  ASSUME IInv, NEW n \in 1..MaxCalls, MissTable(n)
  PROVE  Typed' /\ Turned(n) /\ Readies(n)
<1>1. /\ Typed /\ n \in DOMAIN calls /\ calls[n].step = "run" /\ calls[n].work # {} /\ backend \in Relational
      /\ ~(backend = "d1" /\ IsSave(n))
      /\ Become(n, [AfterError(n) EXCEPT !.step = "create"])
      /\ UNCHANGED <<backend, composite, tables, rows, owner, creator, faults>>
  BY DEF IInv, MissTable, At, Running, Finished, Missing
<1>2. Step(n, "create")
  BY <1>1, Recovers DEF Step
<1>3. /\ calls' \in Seq(Call) /\ Len(calls') <= MaxCalls /\ Turned(n) /\ Kept(n)
      /\ calls'[n].created = calls[n].created
      /\ calls'[n].step = "create" /\ calls'[n].cause = calls[n].cause
  BY <1>1, <1>2, JustStepping DEF Steps
<1>4. Typed'
  <2>1. Waits /\ tables' \subseteq Tables /\ faults' \in 0..MaxFaults
    BY <1>1 DEF Waits, Typed
  <2> QED
    BY <1>1, <1>3, <2>1, StillTyped
<1>5. calls[n].created \in SUBSET Touched(n)
  BY <1>1 DEF IInv, EachFits, Sized
<1>6. \A t \in Tables : creator[t] = n => backend = "postgres" /\ IsSave(n) /\ t \in calls[n].created
  BY <1>1, CallIs DEF IInv, Ownership, Creating
<1> QED
  BY <1>1, <1>3, <1>4, <1>5, <1>6 DEF Readies

LEMMA OpTable ==
  ASSUME IInv, NEW n \in DOMAIN calls, calls[n].work # {}
  PROVE  /\ Op(n) \in Batch(n) /\ Op(n) \in calls[n].work /\ Op(n) \in OpSet /\ Op(n).table \in Tables
         /\ IsSave(n) => Op(n).table \in Touched(n)
<1>1. /\ Op(n) \in Batch(n) /\ Op(n) \in calls[n].work /\ Op(n) \in OpSet
  BY CallIs, OpIsLeft DEF IInv, Finished
<1>2. Op(n).table \in Tables
  BY <1>1 DEF OpSet
<1>3. IsSave(n) => Op(n).table \in Touched(n)
  BY <1>1 DEF IInv, EachFits, WorkFits
<1> QED
  BY <1>1, <1>2, <1>3

\* A table created within the transaction of a save.
LEMMA Creates ==
  ASSUME Typed, NEW n \in DOMAIN calls, NEW t \in Tables,
         Become(n, [calls[n] EXCEPT !.step = "run", !.created = @ \cup {t}]),
         backend' = backend, composite' = composite
  PROVE  /\ calls' \in Seq(Call) /\ Len(calls') <= MaxCalls /\ Turned(n) /\ Kept(n)
         /\ calls'[n].created = calls[n].created \cup {t}
         /\ calls'[n].step = "run" /\ calls'[n].cause = calls[n].cause
<1> DEFINE c == [calls[n] EXCEPT !.step = "run", !.created = @ \cup {t}]
<1>1. calls[n] \in Call
  BY CallIs
<1>2. /\ c \in Call
      /\ c.work = calls[n].work /\ c.view = calls[n].view /\ c.seen = calls[n].seen
      /\ c.landed = calls[n].landed /\ c.missed = calls[n].missed /\ c.created = calls[n].created \cup {t}
      /\ c.plugin = calls[n].plugin /\ c.expected = calls[n].expected /\ c.changes = calls[n].changes
      /\ c.malformed = calls[n].malformed
      /\ c.step = "run" /\ c.cause = calls[n].cause
  BY <1>1 DEF Call, Steps
<1> HIDE DEF c
<1>3. Become(n, c)
  BY DEF c
<1> QED
  BY <1>2, <1>3, Becomes DEF Turned, Kept, KeptWork

LEMMA CreateIs ==
  ASSUME IInv, NEW n \in 1..MaxCalls, Create(n)
  PROVE  /\ Typed' /\ Turned(n)
         /\ Readies(n) \/ (Fails(n) /\ ~IsSave(n))
<1> DEFINE t == Op(n).table
<1>1. /\ Typed /\ n \in DOMAIN calls /\ calls[n].step = "create" /\ Live(n)
      /\ UNCHANGED <<backend, composite, rows, owner, faults>>
  BY DEF IInv, Create, At, Live
<1>2. calls[n].work # {} /\ backend \in Relational /\ ~(backend = "d1" /\ IsSave(n))
  BY <1>1 DEF IInv, EachFits, StepFits
<1>3. t \in Tables /\ (IsSave(n) => t \in Touched(n)) /\ calls[n].created \in SUBSET Touched(n)
  BY <1>1, <1>2, OpTable DEF IInv, EachFits, Sized
<1>4. ~calls[n].aborted
  BY <1>1, CallIs DEF Call
<1>5. \A u \in Tables : creator[u] = n => backend = "postgres" /\ IsSave(n) /\ u \in calls[n].created
  BY <1>1, CallIs DEF IInv, Ownership, Creating
<1>6. /\ tables \subseteq Tables /\ faults' \in 0..MaxFaults /\ creator \in [Tables -> 0..MaxCalls] /\ n \in 0..MaxCalls
      /\ n # None /\ rows' \in [Tables -> 0..OldRow] /\ owner' \in [Tables -> 0..MaxCalls]
      /\ backend' \in Backends /\ composite' \subseteq Composites
  BY <1>1, CallIs DEF Typed
<1> HIDE DEF t
<1>7. CASE Step(n, "run") /\ creator' = creator /\ tables' \in SUBSET Tables
  <2>1. /\ calls' \in Seq(Call) /\ Len(calls') <= MaxCalls /\ Turned(n) /\ Kept(n)
        /\ calls'[n].created = calls[n].created
        /\ calls'[n].step = "run" /\ calls'[n].cause = calls[n].cause
    BY <1>1, <1>7, JustStepping DEF Steps
  <2>2. Typed'
    BY <1>1, <1>6, <1>7, <2>1 DEF Typed
  <2>3. Readies(n)
    BY <1>1, <1>2, <1>3, <1>5, <1>7, <2>1 DEF Readies
  <2> QED
    BY <2>1, <2>2, <2>3
<1>8. CASE /\ Become(n, [calls[n] EXCEPT !.step = "run", !.created = @ \cup {t}]) /\ IsSave(n) /\ tables' = tables
           /\ \/ creator' = creator
              \/ backend = "postgres" /\ creator[t] = None /\ creator' = [creator EXCEPT ![t] = n]
  <2>1. /\ calls' \in Seq(Call) /\ Len(calls') <= MaxCalls /\ Turned(n) /\ Kept(n)
        /\ calls'[n].created = calls[n].created \cup {t}
        /\ calls'[n].step = "run" /\ calls'[n].cause = calls[n].cause
    BY <1>1, <1>3, <1>8, Creates
  <2>2. Typed'
    BY <1>1, <1>6, <1>8, <2>1 DEF Typed
  <2>3. \A u \in Tables : creator'[u] = creator[u] \/ (u = t /\ backend = "postgres" /\ creator[u] = None /\ creator'[u] = n)
    BY <1>6, <1>8
  <2>4. calls'[n].created \in SUBSET Touched(n)
    BY <1>3, <1>8, <2>1
  <2>5. Readies(n)
    BY <1>1, <1>2, <1>3, <1>5, <1>8, <2>1, <2>3, <2>4 DEF Readies
  <2> QED
    BY <2>1, <2>2, <2>5
<1>9. CASE /\ Step(n, "creating") /\ tables' = tables /\ backend = "postgres"
           /\ \/ creator' = creator
              \/ ~IsSave(n) /\ creator[t] = None /\ creator' = [creator EXCEPT ![t] = n]
  <2>1. /\ calls' \in Seq(Call) /\ Len(calls') <= MaxCalls /\ Turned(n) /\ Kept(n)
        /\ calls'[n].created = calls[n].created
        /\ calls'[n].step = "creating" /\ calls'[n].cause = calls[n].cause
    BY <1>1, <1>9, JustStepping DEF Steps
  <2>2. Typed'
    BY <1>1, <1>6, <1>9, <2>1 DEF Typed
  <2>3. \A u \in Tables : creator'[u] = creator[u] \/ (u = t /\ ~IsSave(n) /\ creator[u] = None /\ creator'[u] = n)
    BY <1>6, <1>9
  <2>4. Readies(n)
    BY <1>1, <1>2, <1>3, <1>5, <1>9, <2>1, <2>3 DEF Readies, t
  <2> QED
    BY <2>1, <2>2, <2>4
<1>10. CASE Fail(n, "busy") /\ ~IsSave(n) /\ tables' = tables /\ creator' = creator
  <2>1. \A u \in Tables : creator[u] # n
    BY <1>5, <1>10
  <2>2. Typed' /\ Turned(n) /\ Fails(n)
    BY <1>1, <1>6, <1>10, <2>1, FailedTyped DEF Causes
  <2> QED
    BY <1>10, <2>2
<1>11. \/ t \in tables /\ Step(n, "run") /\ tables' = tables /\ creator' = creator
       \/ /\ t \notin tables /\ backend = "postgres" /\ tables' = tables
          /\ IF IsSave(n) /\ creator[t] = None
               THEN Become(n, [calls[n] EXCEPT !.step = "run", !.created = @ \cup {t}]) ELSE Step(n, "creating")
          /\ creator' = IF creator[t] = None THEN [creator EXCEPT ![t] = n] ELSE creator
       \/ /\ IsSave(n) /\ tables' = tables /\ creator' = creator
          /\ Become(n, [calls[n] EXCEPT !.step = "run", !.created = @ \cup {t}])
       \/ /\ ~IsSave(n) /\ creator' = creator
          /\ IF owner[t] = None THEN Step(n, "run") /\ tables' = tables \cup {t}
                                ELSE Fail(n, "busy") /\ tables' = tables
  BY <1>4 DEF Create, t
<1> QED
  BY <1>3, <1>6, <1>7, <1>8, <1>9, <1>10, <1>11

LEMMA CreatedIs ==
  ASSUME IInv, NEW n \in 1..MaxCalls, Created(n)
  PROVE  /\ Typed' /\ Turned(n)
         /\ Readies(n) \/ (Fails(n) /\ ~IsSave(n))
<1> DEFINE t == Op(n).table
<1>1. /\ Typed /\ n \in DOMAIN calls /\ calls[n].step = "creating" /\ Live(n)
      /\ UNCHANGED <<backend, composite, rows, owner, faults>>
  BY DEF IInv, Created, At, Live
<1>2. calls[n].work # {} /\ backend \in Relational /\ ~(backend = "d1" /\ IsSave(n))
  BY <1>1 DEF IInv, EachFits, StepFits
<1>3. t \in Tables /\ calls[n].created \in SUBSET Touched(n)
  BY <1>1, <1>2, OpTable DEF IInv, EachFits, Sized
<1>4. \A u \in Tables : creator[u] = n => /\ backend = "postgres"
                                          /\ IF IsSave(n) THEN u \in calls[n].created ELSE u = t
  BY <1>1, CallIs DEF IInv, Ownership, Creating
<1>5. /\ tables \subseteq Tables /\ faults' \in 0..MaxFaults /\ creator \in [Tables -> 0..MaxCalls]
      /\ n # None /\ None \in 0..MaxCalls /\ rows' \in [Tables -> 0..OldRow] /\ owner' \in [Tables -> 0..MaxCalls]
      /\ backend' \in Backends /\ composite' \subseteq Composites
  BY <1>1, CallIs, Bounds DEF Typed, None
<1> HIDE DEF t
<1>6. ASSUME NEW step \in {"run", "create"}, Step(n, step), tables' \in SUBSET Tables,
             \/ creator' = creator /\ creator[t] = None
             \/ creator' = [creator EXCEPT ![t] = None] /\ creator[t] = n
      PROVE  Typed' /\ Turned(n) /\ Readies(n)
  <2>1. /\ calls' \in Seq(Call) /\ Len(calls') <= MaxCalls /\ Turned(n) /\ Kept(n)
        /\ calls'[n].created = calls[n].created
        /\ calls'[n].step = step /\ calls'[n].cause = calls[n].cause
    BY <1>1, <1>6, JustStepping DEF Steps
  <2>2. Typed'
    BY <1>1, <1>5, <1>6, <2>1 DEF Typed
  <2>3. /\ \A u \in Tables : creator'[u] = creator[u] \/ (creator[u] = n /\ creator'[u] = None)
        /\ creator'[t] = None
    BY <1>3, <1>5, <1>6
  <2>4. \A u \in Tables : creator'[u] = n => creator[u] = n /\ u # t
    BY <1>5, <2>3
  <2>5. Readies(n)
    BY <1>1, <1>2, <1>3, <1>4, <1>6, <2>1, <2>3, <2>4 DEF Readies
  <2> QED
    BY <2>1, <2>2, <2>5
<1>7. CASE ~IsSave(n) /\ Fail(n, "exists") /\ tables' = tables /\ creator' = creator /\ creator[t] = None
  <2>1. \A u \in Tables : creator[u] # n
    BY <1>4, <1>5, <1>7
  <2>2. Typed' /\ Turned(n) /\ Fails(n)
    BY <1>1, <1>5, <1>7, <2>1, FailedTyped DEF Causes
  <2> QED
    BY <1>7, <2>2
<1>8. \/ creator[t] = n /\ tables' = tables \cup {t} /\ creator' = [creator EXCEPT ![t] = None] /\ Step(n, "run")
      \/ /\ creator[t] = None /\ tables' = tables /\ creator' = creator
         /\ \/ IF IsSave(n) THEN Step(n, "run") ELSE Fail(n, "exists")
            \/ Step(n, "create")
  <2>1. Become(n, [AfterError(n) EXCEPT !.step = "run"]) => Step(n, "run")
    BY <1>1, Recovers DEF Step
  <2> QED
    BY <2>1 DEF Created, t
<1> QED
  BY <1>3, <1>5, <1>6, <1>7, <1>8

\* One operation less, with what it leaves behind.
LEMMA Proceeds ==
  ASSUME Typed, NEW n \in DOMAIN calls, calls[n].step = "run",
         NEW work \in SUBSET OpSet, NEW view \in Views, NEW landed \in SUBSET Tables, NEW missed \in SUBSET Tables,
         Become(n, [calls[n] EXCEPT !.work = work, !.view = view, !.landed = landed, !.missed = missed]),
         backend' = backend, composite' = composite
  PROVE  /\ calls' \in Seq(Call) /\ Len(calls') <= MaxCalls /\ Turned(n)
         /\ calls'[n].step = "run" /\ calls'[n].cause = calls[n].cause
         /\ calls'[n].work = work /\ calls'[n].view = view /\ calls'[n].landed = landed
         /\ calls'[n].missed = missed
         /\ calls'[n].seen = calls[n].seen /\ calls'[n].created = calls[n].created
<1> DEFINE c == [calls[n] EXCEPT !.work = work, !.view = view, !.landed = landed, !.missed = missed]
<1>1. calls[n] \in Call
  BY CallIs
<1>2. /\ c \in Call /\ c.step = "run" /\ c.cause = calls[n].cause
      /\ c.work = work /\ c.view = view /\ c.landed = landed /\ c.missed = missed
      /\ c.seen = calls[n].seen /\ c.created = calls[n].created
      /\ c.plugin = calls[n].plugin /\ c.expected = calls[n].expected /\ c.changes = calls[n].changes
      /\ c.malformed = calls[n].malformed
  BY <1>1 DEF Call
<1> HIDE DEF c
<1>3. Become(n, c)
  BY DEF c
<1> QED
  BY <1>2, <1>3, Becomes DEF Turned

LEMMA SelectIs ==
  ASSUME IInv, NEW n \in 1..MaxCalls, Select(n)
  PROVE  Typed' /\ Turned(n) /\ Selects(n)
<1>1. /\ Typed /\ n \in DOMAIN calls /\ calls[n].step = "run" /\ ~IsSave(n)
      /\ Become(n, [calls[n] EXCEPT !.work = @ \ {Op(n)}])
      /\ UNCHANGED <<backend, composite, tables, rows, owner, creator, faults>>
  BY DEF IInv, Select, Running, At
<1> DEFINE work == calls[n].work \ {Op(n)}
<1>2. calls[n] \in Call /\ work \in SUBSET OpSet
  BY <1>1, CallIs DEF Call
<1>3. Become(n, [calls[n] EXCEPT !.work = work, !.view = calls[n].view, !.landed = calls[n].landed,
                                 !.missed = calls[n].missed])
  <2>1. [calls[n] EXCEPT !.work = work] =
          [calls[n] EXCEPT !.work = work, !.view = calls[n].view, !.landed = calls[n].landed,
                           !.missed = calls[n].missed]
    <3> HIDE DEF work
    <3> QED
      BY <1>2 DEF Call
  <2> QED
    BY <1>1, <2>1
<1>4. calls[n].view \in Views /\ calls[n].landed \in SUBSET Tables /\ calls[n].missed \in SUBSET Tables
  BY <1>2 DEF Call
<1>5. /\ calls' \in Seq(Call) /\ Len(calls') <= MaxCalls /\ Turned(n)
      /\ calls'[n].step = "run" /\ calls'[n].cause = calls[n].cause
      /\ calls'[n].work = work /\ calls'[n].view = calls[n].view /\ calls'[n].landed = calls[n].landed
      /\ calls'[n].missed = calls[n].missed
      /\ calls'[n].seen = calls[n].seen /\ calls'[n].created = calls[n].created
  <2> HIDE DEF work
  <2> QED
    BY <1>1, <1>2, <1>3, <1>4, Proceeds
<1>6. Waits /\ tables' \subseteq Tables /\ faults' \in 0..MaxFaults
  BY <1>1 DEF Typed, Waits
<1> QED
  BY <1>1, <1>5, <1>6, StillTyped DEF Selects

LEMMA RejectIs ==
  ASSUME IInv, NEW n \in 1..MaxCalls, Reject(n)
  PROVE  /\ Typed' /\ Turned(n) /\ Fails(n) /\ calls'[n].cause = Cause(n)
         /\ Ready(n) /\ IsSave(n)
         /\ \/ Cause(n) \in {"duplicate", "conflict"} /\ Cause(n) = Refused(n, Op(n))
            \/ Cause(n) = "contention" /\ Contended(n, Op(n))
<1>1. /\ n \in DOMAIN calls /\ calls[n].step = "run" /\ Live(n) /\ Ready(n) /\ IsSave(n) /\ Cause(n) # "none"
      /\ Fail(n, Cause(n))
      /\ UNCHANGED <<backend, composite, tables, rows, owner, creator>> /\ faults' \in 0..MaxFaults
  BY DEF IInv, Typed, Reject, Ready, Running, At, Live
<1>2. ~calls[n].aborted
  BY <1>1, CallIs DEF IInv, Call
<1>3. \/ Cause(n) \in {"duplicate", "conflict"} /\ Cause(n) = Refused(n, Op(n))
      \/ Cause(n) = "contention" /\ Contended(n, Op(n))
  BY <1>1, <1>2 DEF Cause, Refused
<1> QED
  BY <1>1, <1>3, FailedTyped DEF Causes

LEMMA WrittenTyped ==
  ASSUME Typed, NEW n \in DOMAIN calls, NEW op
  PROVE  Written(n, op) \in 0..OldRow
<1>1. n \in 0..OldRow /\ NoRow \in 0..OldRow
  BY CallIs
<1>2. Written(n, op) = NoRow \/ Written(n, op) = n
  BY DEF Written
<1> QED
  BY <1>1, <1>2

LEMMA ExecuteIs ==
  ASSUME IInv, NEW n \in 1..MaxCalls, Execute(n)
  PROVE  Typed' /\ Turned(n) /\ Executes(n)
<1>1. /\ Typed /\ n \in DOMAIN calls /\ calls[n].step = "run" /\ calls[n].work # {}
      /\ Ready(n) /\ IsSave(n) /\ Cause(n) = "none" /\ backend \in Locking
      /\ UNCHANGED <<backend, composite, tables, rows, creator, faults>>
  BY DEF IInv, Execute, Ready, Running, Finished, At, Locking
<1> DEFINE op == Op(n)
<1> DEFINE work == calls[n].work \ {op}
<1> DEFINE missed == IF Misses(n, op) THEN calls[n].missed \cup {op.table} ELSE calls[n].missed
<1> DEFINE viewed == [t \in DOMAIN calls[n].view \cup {op.table} |->
                        IF t = op.table THEN Written(n, op) ELSE calls[n].view[t]]
<1> DEFINE view == IF Misses(n, op) THEN calls[n].view ELSE viewed
<1>2. /\ calls[n] \in Call /\ calls[n].work \in SUBSET OpSet /\ calls[n].view \in Views
      /\ calls[n].landed \in SUBSET Tables /\ calls[n].missed \in SUBSET Tables
  BY <1>1, CallIs DEF Call
<1>3. op.table \in Tables
  BY <1>1, OpTable
<1>4. viewed \in Views
  <2>1. PICK S \in SUBSET Tables : calls[n].view \in [S -> 0..OldRow]
    BY <1>2 DEF Views
  <2>2. DOMAIN viewed = S \cup {op.table} /\ viewed \in [S \cup {op.table} -> 0..OldRow]
    BY <1>1, <2>1, WrittenTyped
  <2>3. S \cup {op.table} \in SUBSET Tables
    BY <1>3, <2>1
  <2> HIDE DEF viewed
  <2> QED
    BY <2>2, <2>3 DEF Views
<1>5. work \in SUBSET OpSet /\ view \in Views /\ missed \in SUBSET Tables
  <2> HIDE DEF viewed, op
  <2> QED
    BY <1>2, <1>3, <1>4
<1>6. Become(n, [calls[n] EXCEPT !.work = work, !.view = view, !.landed = calls[n].landed, !.missed = missed])
  <2>1. CASE Misses(n, op)
    <3>1. Become(n, [calls[n] EXCEPT !.work = @ \ {Op(n)}, !.missed = @ \cup {Op(n).table}])
      BY <2>1 DEF Execute
    <3>2. [calls[n] EXCEPT !.work = @ \ {Op(n)}, !.missed = @ \cup {Op(n).table}] =
            [calls[n] EXCEPT !.work = calls[n].work \ {Op(n)}, !.view = calls[n].view, !.landed = calls[n].landed,
                             !.missed = calls[n].missed \cup {Op(n).table}]
      BY <1>2 DEF Call
    <3>3. view = calls[n].view /\ missed = calls[n].missed \cup {Op(n).table}
      BY <2>1
    <3> HIDE DEF view, missed
    <3> QED
      BY <3>1, <3>2, <3>3, Zenon
  <2>2. CASE ~Misses(n, op)
    <3>1. Become(n, [calls[n] EXCEPT !.work = @ \ {Op(n)},
                      !.view = [t \in DOMAIN @ \cup {Op(n).table} |-> IF t = Op(n).table THEN Written(n, Op(n)) ELSE @[t]]])
      BY <2>2 DEF Execute
    <3>2. [calls[n] EXCEPT !.work = @ \ {Op(n)},
             !.view = [t \in DOMAIN @ \cup {Op(n).table} |-> IF t = Op(n).table THEN Written(n, Op(n)) ELSE @[t]]] =
            [calls[n] EXCEPT !.work = calls[n].work \ {Op(n)}, !.view = viewed]
      OBVIOUS
    <3>3. [calls[n] EXCEPT !.work = calls[n].work \ {Op(n)}, !.view = viewed] =
            [calls[n] EXCEPT !.work = calls[n].work \ {Op(n)}, !.view = viewed, !.landed = calls[n].landed,
                             !.missed = calls[n].missed]
      <4> HIDE DEF viewed
      <4> QED
        BY <1>2 DEF Call
    <3>4. view = viewed /\ missed = calls[n].missed
      BY <2>2
    <3> HIDE DEF view, missed, viewed
    <3> QED
      BY <3>1, <3>2, <3>3, <3>4, Zenon
  <2> QED
    BY <2>1, <2>2
<1>7. /\ calls' \in Seq(Call) /\ Len(calls') <= MaxCalls /\ Turned(n)
      /\ calls'[n].step = "run" /\ calls'[n].cause = calls[n].cause
      /\ calls'[n].work = work /\ calls'[n].view = view /\ calls'[n].landed = calls[n].landed
      /\ calls'[n].missed = missed
      /\ calls'[n].seen = calls[n].seen /\ calls'[n].created = calls[n].created
  <2> HIDE DEF work, view, missed
  <2> QED
    BY <1>1, <1>2, <1>5, <1>6, Proceeds
<1>8. owner' = IF Misses(n, op) THEN owner ELSE [owner EXCEPT ![op.table] = n]
  BY DEF Execute
<1>9. owner \in [Tables -> 0..MaxCalls] /\ n \in 0..MaxCalls
  BY <1>1, Bounds DEF Typed
<1>10. Typed'
  <2> HIDE DEF op
  <2> QED
    BY <1>1, <1>7, <1>8, <1>9 DEF Typed
<1>11. CASE Misses(n, op)
  <2> HIDE DEF viewed
  <2> QED
    BY <1>1, <1>7, <1>8, <1>10, <1>11 DEF Executes
<1>12. CASE ~Misses(n, op)
  <2>1. calls'[n].view = viewed /\ calls'[n].missed = calls[n].missed
    BY <1>7, <1>12
  <2>2. /\ DOMAIN calls'[n].view = DOMAIN calls[n].view \cup {op.table}
        /\ \A t \in DOMAIN calls'[n].view :
             calls'[n].view[t] = IF t = op.table THEN Written(n, op) ELSE calls[n].view[t]
    BY <2>1
  <2>3. \A t \in Tables : owner'[t] = IF t = op.table THEN n ELSE owner[t]
    BY <1>8, <1>9, <1>12
  <2> HIDE DEF viewed, view, missed
  <2> QED
    BY <1>1, <1>7, <1>10, <1>12, <2>1, <2>2, <2>3 DEF Executes
<1> QED
  BY <1>11, <1>12

LEMMA WriteIs ==
  ASSUME IInv, NEW n \in 1..MaxCalls, Write(n)
  PROVE  Typed' /\ Turned(n) /\ Writes(n)
<1>1. /\ Typed /\ n \in DOMAIN calls /\ calls[n].step = "run" /\ calls[n].work # {}
      /\ Ready(n) /\ IsSave(n) /\ Cause(n) = "none"
      /\ rows' = [rows EXCEPT ![Op(n).table] = Written(n, Op(n))]
      /\ UNCHANGED <<backend, composite, tables, owner, creator, faults>>
  BY DEF IInv, Write, Ready, Running, Finished, At
<1>2. backend = "loose"
  BY BackendAssumption DEF Write, Ready, IInv, Typed, Transactional, Relational
<1> DEFINE work == calls[n].work \ {Op(n)}
<1> DEFINE landed == IF Lands(n, Op(n)) THEN calls[n].landed \cup {Op(n).table} ELSE calls[n].landed
<1>3. /\ calls[n] \in Call /\ calls[n].view \in Views /\ calls[n].missed \in SUBSET Tables
      /\ calls[n].landed \in SUBSET Tables /\ work \in SUBSET OpSet
  BY <1>1, CallIs DEF Call
<1>4. Op(n).table \in Tables
  BY <1>1, OpTable
<1>5. landed \in SUBSET Tables
  BY <1>3, <1>4
<1>6. Become(n, [calls[n] EXCEPT !.work = work, !.view = calls[n].view, !.landed = landed, !.missed = calls[n].missed])
  <2>1. Become(n, [calls[n] EXCEPT !.work = work, !.landed = landed])
    BY DEF Write
  <2>2. [calls[n] EXCEPT !.work = work, !.landed = landed] =
          [calls[n] EXCEPT !.work = work, !.view = calls[n].view, !.landed = landed, !.missed = calls[n].missed]
    <3> HIDE DEF work, landed
    <3> QED
      BY <1>3 DEF Call
  <2> QED
    BY <2>1, <2>2
<1>7. /\ calls' \in Seq(Call) /\ Len(calls') <= MaxCalls /\ Turned(n)
      /\ calls'[n].step = "run" /\ calls'[n].cause = calls[n].cause
      /\ calls'[n].work = work /\ calls'[n].view = calls[n].view /\ calls'[n].landed = landed
      /\ calls'[n].missed = calls[n].missed
      /\ calls'[n].seen = calls[n].seen /\ calls'[n].created = calls[n].created
  <2> HIDE DEF work, landed
  <2> QED
    BY <1>1, <1>3, <1>5, <1>6, Proceeds
<1>8. /\ rows' \in [Tables -> 0..OldRow]
      /\ \A t \in Tables : rows'[t] = IF t = Op(n).table THEN Written(n, Op(n)) ELSE rows[t]
  BY <1>1, WrittenTyped DEF Typed
<1>9. Typed'
  BY <1>1, <1>7, <1>8 DEF Typed
<1> QED
  BY <1>1, <1>2, <1>7, <1>8, <1>9 DEF Writes

\* The end of a save that has written: its answer, its rows.
LEMMA LandsTyped ==
  ASSUME Typed, NEW n \in DOMAIN calls, NEW step \in Steps, NEW cause \in Causes,
         NEW landed \in SUBSET Tables, NEW work \in SUBSET OpSet,
         Become(n, [calls[n] EXCEPT !.step = step, !.cause = cause, !.landed = landed, !.work = work]),
         backend' = backend, composite' = composite
  PROVE  /\ calls' \in Seq(Call) /\ Len(calls') <= MaxCalls /\ Turned(n)
         /\ calls'[n].step = step /\ calls'[n].cause = cause
         /\ calls'[n].landed = landed /\ calls'[n].work = work
         /\ calls'[n].view = calls[n].view /\ calls'[n].missed = calls[n].missed
         /\ calls'[n].seen = calls[n].seen /\ calls'[n].created = calls[n].created
<1> DEFINE c == [calls[n] EXCEPT !.step = step, !.cause = cause, !.landed = landed, !.work = work]
<1>1. calls[n] \in Call
  BY CallIs
<1>2. /\ c \in Call /\ c.step = step /\ c.cause = cause /\ c.landed = landed /\ c.work = work
      /\ c.view = calls[n].view /\ c.missed = calls[n].missed
      /\ c.seen = calls[n].seen /\ c.created = calls[n].created
      /\ c.plugin = calls[n].plugin /\ c.expected = calls[n].expected /\ c.changes = calls[n].changes
      /\ c.malformed = calls[n].malformed
  BY <1>1 DEF Call
<1> HIDE DEF c
<1>3. Become(n, c)
  BY DEF c
<1> QED
  BY <1>2, <1>3, Becomes DEF Turned

LEMMA RunBatchIs ==
  ASSUME IInv, NEW n \in 1..MaxCalls, RunBatch(n)
  PROVE  /\ Typed' /\ Turned(n) /\ backend = "d1" /\ IsSave(n)
         /\ \/ /\ Fails(n) /\ calls'[n].cause = "duplicate"
               /\ \E t \in Touched(n) : Do(n, t) = "add" /\ rows[t] # NoRow
            \/ Batches(n)
<1>1. /\ Typed /\ n \in DOMAIN calls /\ calls[n].step = "run" /\ Live(n) /\ backend = "d1" /\ IsSave(n)
      /\ UNCHANGED <<backend, composite, owner, creator, faults>> /\ faults' \in 0..MaxFaults
  BY DEF IInv, Typed, RunBatch, Running, At, Live
<1>2. CASE \E t \in Touched(n) : Do(n, t) = "add" /\ rows[t] # NoRow
  <2>1. Fail(n, "duplicate") /\ UNCHANGED <<tables, rows>>
    BY <1>2 DEF RunBatch, Do
  <2>2. Typed' /\ Turned(n) /\ Fails(n) /\ calls'[n].cause = "duplicate"
    BY <1>1, <2>1, FailedTyped DEF Causes
  <2> QED
    BY <1>1, <1>2, <2>2
<1>3. CASE \A t \in Touched(n) : Do(n, t) = "add" => rows[t] = NoRow
  <2>1. /\ tables' = tables \cup Touched(n)
        /\ rows' = [t \in Tables |-> IF t \notin Touched(n) THEN rows[t]
                      ELSE IF Do(n, t) = "remove" \/ (Do(n, t) = "update" /\ rows[t] = NoRow) THEN NoRow ELSE n]
        /\ Become(n, [calls[n] EXCEPT !.step = "answer", !.landed = Touched(n)])
    BY <1>3 DEF RunBatch, Do
  <2>2. /\ calls[n] \in Call /\ calls[n].work \in SUBSET OpSet /\ calls[n].cause \in Causes
        /\ Touched(n) \in SUBSET Tables /\ n \in 0..OldRow /\ NoRow \in 0..OldRow
    BY <1>1, CallIs DEF Call
  <2>3. [calls[n] EXCEPT !.step = "answer", !.landed = Touched(n)] =
          [calls[n] EXCEPT !.step = "answer", !.cause = calls[n].cause, !.landed = Touched(n), !.work = calls[n].work]
    BY <2>2 DEF Call
  <2>4. Become(n, [calls[n] EXCEPT !.step = "answer", !.cause = calls[n].cause, !.landed = Touched(n),
                                   !.work = calls[n].work])
    BY <2>1, <2>3
  <2>5. "answer" \in Steps
    BY DEF Steps
  <2>6. /\ calls' \in Seq(Call) /\ Len(calls') <= MaxCalls /\ Turned(n)
        /\ calls'[n].step = "answer" /\ calls'[n].cause = calls[n].cause
        /\ calls'[n].landed = Touched(n) /\ calls'[n].work = calls[n].work
        /\ calls'[n].view = calls[n].view /\ calls'[n].missed = calls[n].missed
        /\ calls'[n].seen = calls[n].seen /\ calls'[n].created = calls[n].created
    BY <1>1, <2>2, <2>4, <2>5, LandsTyped
  <2>7. rows' \in [Tables -> 0..OldRow] /\ tables' \subseteq Tables
    BY <1>1, <2>1, <2>2 DEF Typed
  <2>8. Typed'
    BY <1>1, <2>6, <2>7 DEF Typed
  <2>9. Batches(n)
    BY <1>1, <1>3, <2>1, <2>6 DEF Batches
  <2> QED
    BY <1>1, <2>6, <2>8, <2>9
<1> QED
  BY <1>2, <1>3

LEMMA LookupIs ==
  ASSUME IInv, NEW n \in 1..MaxCalls, Lookup(n)
  PROVE  Typed' /\ Turned(n) /\ Looks(n)
<1> DEFINE seen == [t \in Tables |-> IF \E op \in Batch(n) : op.table = t /\ op.checked
                                       THEN calls[n].expected[t] ELSE rows[t]]
<1> DEFINE c == [calls[n] EXCEPT !.step = "bulk", !.seen = seen]
<1>1. /\ Typed /\ n \in DOMAIN calls /\ calls[n].step = "run" /\ calls[n].work # {} /\ backend = "pouch" /\ IsSave(n)
      /\ \E op \in Batch(n) : op.do # "add"
      /\ Become(n, c)
      /\ UNCHANGED <<backend, composite, tables, rows, owner, creator, faults>>
  BY DEF IInv, Lookup, Running, Finished, At
<1>2. calls[n] \in Call /\ calls[n].expected \in [Tables -> 0..OldRow] /\ rows \in [Tables -> 0..OldRow]
  BY <1>1, CallIs DEF Call, Typed
<1>3. seen \in Views
  <2>1. seen \in [Tables -> 0..OldRow]
    BY <1>2
  <2> HIDE DEF seen
  <2> QED
    BY <2>1 DEF Views
<1>4. /\ c \in Call /\ c.step = "bulk" /\ c.seen = seen /\ c.cause = calls[n].cause
      /\ c.work = calls[n].work /\ c.view = calls[n].view /\ c.landed = calls[n].landed
      /\ c.missed = calls[n].missed /\ c.created = calls[n].created
      /\ c.plugin = calls[n].plugin /\ c.expected = calls[n].expected /\ c.changes = calls[n].changes
      /\ c.malformed = calls[n].malformed
  <2> HIDE DEF seen
  <2> QED
    BY <1>2, <1>3 DEF Call, Steps
<1>5. /\ calls' \in Seq(Call) /\ Len(calls') <= MaxCalls /\ calls'[n] = c
      /\ DOMAIN calls' = DOMAIN calls /\ \A m \in DOMAIN calls : m # n => calls'[m] = calls[m]
  <2> HIDE DEF c
  <2> QED
    BY <1>1, <1>4, Becomes
<1>6. Turned(n)
  <2> HIDE DEF c
  <2> QED
    BY <1>1, <1>4, <1>5 DEF Turned
<1>7. \A t \in Tables :
        calls'[n].seen[t] = IF \E op \in Batch(n) : op.table = t /\ op.checked THEN calls[n].expected[t] ELSE rows[t]
  <2>1. calls'[n].seen = seen
    <3> HIDE DEF c, seen
    <3> QED
      BY <1>4, <1>5
  <2> QED
    BY <2>1
<1>8. Looks(n)
  <2> HIDE DEF c
  <2> QED
    BY <1>1, <1>4, <1>5, <1>7 DEF Looks, KeptWork, Waits
<1>9. Typed'
  <2>1. Waits /\ tables' \subseteq Tables /\ faults' \in 0..MaxFaults
    BY <1>1 DEF Typed, Waits
  <2> HIDE DEF c
  <2> QED
    BY <1>1, <1>5, <2>1, StillTyped
<1> QED
  BY <1>6, <1>8, <1>9

LEMMA BulkIs ==
  ASSUME IInv, NEW n \in 1..MaxCalls, Bulk(n)
  PROVE  Typed' /\ Turned(n) /\ Bulks(n)
<1> DEFINE adds == \A op \in Batch(n) : op.do = "add"
<1> DEFINE landed == calls[n].landed \cup {op.table : op \in {o \in Good(n) : Lands(n, o)}}
<1>1. /\ Typed /\ n \in DOMAIN calls
      /\ calls[n].step = "bulk" \/ (calls[n].step = "run" /\ calls[n].work # {} /\ backend = "pouch" /\ IsSave(n) /\ adds)
      /\ UNCHANGED <<backend, composite, tables, owner, creator, faults>>
  BY DEF IInv, Bulk, Running, Finished, At
<1>2. /\ rows' = [t \in Tables |-> IF \E op \in Good(n) : op.table = t
                    THEN IF \E op \in Good(n) : op.table = t /\ op.do = "remove" THEN NoRow ELSE n
                    ELSE rows[t]]
      /\ Become(n, IF Good(n) = Batch(n)
                     THEN [calls[n] EXCEPT !.step = "run", !.work = @ \ Batch(n), !.landed = landed]
                     ELSE [calls[n] EXCEPT !.step = "answer", !.landed = landed,
                                           !.cause = IF adds THEN "duplicate" ELSE "conflict"])
  BY DEF Bulk, Good
<1>3. backend = "pouch" /\ IsSave(n) /\ calls[n].work # {}
  BY <1>1 DEF IInv, EachFits, StepFits
<1>4. /\ calls[n] \in Call /\ calls[n].work \in SUBSET OpSet /\ calls[n].landed \in SUBSET Tables
      /\ calls[n].cause \in Causes /\ n \in 0..OldRow /\ NoRow \in 0..OldRow
  BY <1>1, CallIs DEF Call
<1>5. Good(n) \subseteq calls[n].work
  BY DEF Good, Batch, First
<1>6. landed \in SUBSET Tables /\ calls[n].work \ Batch(n) \in SUBSET OpSet
  <2>1. \A op \in Good(n) : op.table \in Tables
    BY <1>4, <1>5 DEF OpSet
  <2> QED
    BY <1>4, <2>1
<1>7. rows' \in [Tables -> 0..OldRow]
  BY <1>1, <1>2, <1>4 DEF Typed
<1> HIDE DEF landed
<1>8. CASE Good(n) = Batch(n)
  <2>1. [calls[n] EXCEPT !.step = "run", !.work = @ \ Batch(n), !.landed = landed] =
          [calls[n] EXCEPT !.step = "run", !.cause = calls[n].cause, !.landed = landed, !.work = calls[n].work \ Batch(n)]
    BY <1>4 DEF Call
  <2>2. Become(n, [calls[n] EXCEPT !.step = "run", !.cause = calls[n].cause, !.landed = landed,
                                   !.work = calls[n].work \ Batch(n)])
    BY <1>2, <1>8, <2>1
  <2>3. "run" \in Steps
    BY DEF Steps
  <2>4. /\ calls' \in Seq(Call) /\ Len(calls') <= MaxCalls /\ Turned(n)
        /\ calls'[n].step = "run" /\ calls'[n].cause = calls[n].cause
        /\ calls'[n].landed = landed /\ calls'[n].work = calls[n].work \ Batch(n)
        /\ calls'[n].view = calls[n].view /\ calls'[n].missed = calls[n].missed
        /\ calls'[n].seen = calls[n].seen /\ calls'[n].created = calls[n].created
    BY <1>1, <1>4, <1>6, <2>2, <2>3, LandsTyped
  <2>5. Typed'
    BY <1>1, <1>7, <2>4 DEF Typed
  <2>6. Bulks(n)
    BY <1>1, <1>2, <1>3, <1>8, <2>4 DEF Bulks, landed
  <2> QED
    BY <2>4, <2>5, <2>6
<1>9. CASE Good(n) # Batch(n)
  <2> DEFINE cause == IF adds THEN "duplicate" ELSE "conflict"
  <2>1. [calls[n] EXCEPT !.step = "answer", !.landed = landed, !.cause = cause] =
          [calls[n] EXCEPT !.step = "answer", !.cause = cause, !.landed = landed, !.work = calls[n].work]
    <3> HIDE DEF cause
    <3> QED
      BY <1>4 DEF Call
  <2>2. Become(n, [calls[n] EXCEPT !.step = "answer", !.cause = cause, !.landed = landed, !.work = calls[n].work])
    BY <1>2, <1>9, <2>1
  <2>3. "answer" \in Steps /\ cause \in Causes
    BY DEF Steps, Causes
  <2>4. /\ calls' \in Seq(Call) /\ Len(calls') <= MaxCalls /\ Turned(n)
        /\ calls'[n].step = "answer" /\ calls'[n].cause = cause
        /\ calls'[n].landed = landed /\ calls'[n].work = calls[n].work
        /\ calls'[n].view = calls[n].view /\ calls'[n].missed = calls[n].missed
        /\ calls'[n].seen = calls[n].seen /\ calls'[n].created = calls[n].created
    <3> HIDE DEF cause
    <3> QED
      BY <1>1, <1>4, <1>6, <2>2, <2>3, LandsTyped
  <2>5. Typed'
    BY <1>1, <1>7, <2>4 DEF Typed
  <2>6. Bulks(n)
    BY <1>1, <1>2, <1>3, <1>9, <2>4 DEF Bulks, landed
  <2> QED
    BY <2>4, <2>5, <2>6
<1> QED
  BY <1>8, <1>9

LEMMA Freed ==
  ASSUME NEW f \in [Tables -> 0..MaxCalls], NEW n
  PROVE  /\ Without(f, n) \in [Tables -> 0..MaxCalls]
         /\ \A t \in Tables : Without(f, n)[t] = IF f[t] = n THEN None ELSE f[t]
<1>1. None \in 0..MaxCalls
  BY Bounds DEF None
<1> QED
  BY <1>1 DEF Without

\* The view of a transaction becomes everyone's.
LEMMA CommittedIs ==
  ASSUME IInv, NEW n \in DOMAIN calls, Committed(n)
  PROVE  /\ tables' \subseteq Tables /\ rows' \in [Tables -> 0..OldRow]
         /\ \A t \in Tables : rows'[t] = IF InView(n, t) THEN calls[n].view[t] ELSE rows[t]
<1>1. calls[n] \in Call /\ calls[n].created \in SUBSET Tables /\ calls[n].view \in Views
  BY CallIs DEF IInv, Call
<1>2. PICK S \in SUBSET Tables : calls[n].view \in [S -> 0..OldRow]
  BY <1>1 DEF Views
<1>3. tables \subseteq Tables /\ rows \in [Tables -> 0..OldRow]
  BY DEF IInv, Typed
<1>4. rows' = [t \in Tables |-> IF t \in DOMAIN calls[n].view THEN calls[n].view[t] ELSE rows[t]]
  BY DEF Committed
<1>5. \A t \in DOMAIN calls[n].view : calls[n].view[t] \in 0..OldRow
  BY <1>2
<1>6. rows' \in [Tables -> 0..OldRow]
  BY <1>3, <1>4, <1>5
<1> QED
  BY <1>1, <1>3, <1>4, <1>6 DEF Committed, InView

LEMMA CommitsAre ==
  ASSUME IInv, NEW n \in 1..MaxCalls, NEW cause \in {"none", "lost"},
         Ends(n), IsSave(n), backend \in Locking, Committed(n),
         Become(n, [calls[n] EXCEPT !.step = "answer", !.landed = Touched(n), !.cause = cause]),
         owner' = Without(owner, n), creator' = Without(creator, n),
         backend' = backend, composite' = composite, faults' \in 0..MaxFaults
  PROVE  Typed' /\ Turned(n) /\ Commits(n) /\ calls'[n].cause = cause
<1>1. /\ Typed /\ n \in DOMAIN calls /\ calls[n].step = "run" /\ calls[n].work = {}
  BY DEF IInv, Ends, At, Finished
<1>2. /\ calls[n] \in Call /\ calls[n].work \in SUBSET OpSet /\ Touched(n) \in SUBSET Tables
  BY <1>1, CallIs
<1>3. [calls[n] EXCEPT !.step = "answer", !.landed = Touched(n), !.cause = cause] =
        [calls[n] EXCEPT !.step = "answer", !.cause = cause, !.landed = Touched(n), !.work = calls[n].work]
  BY <1>2 DEF Call
<1>4. Become(n, [calls[n] EXCEPT !.step = "answer", !.cause = cause, !.landed = Touched(n), !.work = calls[n].work])
  BY <1>3
<1>5. "answer" \in Steps /\ cause \in Causes
  BY DEF Steps, Causes
<1>6. /\ calls' \in Seq(Call) /\ Len(calls') <= MaxCalls /\ Turned(n)
      /\ calls'[n].step = "answer" /\ calls'[n].cause = cause
      /\ calls'[n].landed = Touched(n) /\ calls'[n].work = calls[n].work
      /\ calls'[n].view = calls[n].view /\ calls'[n].missed = calls[n].missed
      /\ calls'[n].seen = calls[n].seen /\ calls'[n].created = calls[n].created
  BY <1>1, <1>2, <1>4, <1>5, LandsTyped, ZenonT(60)
<1>7. /\ tables' \subseteq Tables /\ rows' \in [Tables -> 0..OldRow]
      /\ \A t \in Tables : rows'[t] = IF InView(n, t) THEN calls[n].view[t] ELSE rows[t]
  BY <1>1, CommittedIs
<1>8. /\ owner' \in [Tables -> 0..MaxCalls] /\ creator' \in [Tables -> 0..MaxCalls]
      /\ \A t \in Tables : owner'[t] = IF owner[t] = n THEN None ELSE owner[t]
      /\ \A t \in Tables : creator'[t] = IF creator[t] = n THEN None ELSE creator[t]
  <2>1. owner \in [Tables -> 0..MaxCalls] /\ creator \in [Tables -> 0..MaxCalls]
    BY <1>1 DEF Typed
  <2>2. owner' = Without(owner, n) /\ creator' = Without(creator, n)
    BY <1>1
  <2>3. /\ Without(owner, n) \in [Tables -> 0..MaxCalls]
        /\ \A t \in Tables : Without(owner, n)[t] = IF owner[t] = n THEN None ELSE owner[t]
    BY <2>1, Freed
  <2>4. /\ Without(creator, n) \in [Tables -> 0..MaxCalls]
        /\ \A t \in Tables : Without(creator, n)[t] = IF creator[t] = n THEN None ELSE creator[t]
    BY <2>1, Freed
  <2> QED
    BY <2>2, <2>3, <2>4
<1>9. Typed'
  BY <1>1, <1>6, <1>7, <1>8 DEF Typed
<1>10. Commits(n)
  BY <1>1, <1>6, <1>7, <1>8 DEF Commits
<1> QED
  BY <1>6, <1>9, <1>10

LEMMA CommitIs ==
  ASSUME IInv, NEW n \in 1..MaxCalls, Commit(n)
  PROVE  Typed' /\ Turned(n) /\ Commits(n)
<1>1. /\ Typed /\ n \in DOMAIN calls /\ calls[n].step = "run" /\ calls[n].work = {} /\ Live(n)
      /\ Ends(n) /\ IsSave(n) /\ backend \in Transactional /\ Committed(n)
      /\ Become(n, [calls[n] EXCEPT !.step = "answer", !.landed = Touched(n)])
      /\ owner' = Without(owner, n) /\ creator' = Without(creator, n)
      /\ backend' = backend /\ composite' = composite /\ faults' \in 0..MaxFaults
  BY DEF IInv, Typed, Commit, Ends, At, Finished, Live
<1>2. backend \in Locking /\ calls[n].cause = "none"
  BY <1>1 DEF IInv, EachFits, StepFits, Locking
<1>3. [calls[n] EXCEPT !.step = "answer", !.landed = Touched(n)] =
        [calls[n] EXCEPT !.step = "answer", !.landed = Touched(n), !.cause = "none"]
  BY <1>1, <1>2, CallIs DEF Call
<1>4. Become(n, [calls[n] EXCEPT !.step = "answer", !.landed = Touched(n), !.cause = "none"])
  BY <1>1, <1>3
<1> QED
  BY <1>1, <1>2, <1>4, CommitsAre

LEMMA LoseCommitIs ==
  ASSUME IInv, NEW n \in 1..MaxCalls, LoseCommit(n)
  PROVE  Typed' /\ Turned(n) /\ Commits(n)
<1>1. /\ Ends(n) /\ IsSave(n) /\ backend \in Locking /\ Committed(n)
      /\ Become(n, [calls[n] EXCEPT !.step = "answer", !.landed = Touched(n), !.cause = "lost"])
      /\ owner' = Without(owner, n) /\ creator' = Without(creator, n)
      /\ backend' = backend /\ composite' = composite
  BY DEF LoseCommit, Locking, Transactional, Relational
<1>2. faults' \in 0..MaxFaults
  BY Bounds DEF LoseCommit, IInv, Typed
<1> QED
  BY <1>1, <1>2, CommitsAre

LEMMA RollbackIs ==
  ASSUME IInv, NEW n \in 1..MaxCalls, Rollback(n)
  PROVE  Typed' /\ Turned(n) /\ Rolls(n)
<1>1. /\ Typed /\ n \in DOMAIN calls /\ calls[n].step = "rollback" /\ Step(n, "answer")
      /\ owner' = Without(owner, n) /\ creator' = Without(creator, n)
      /\ UNCHANGED <<backend, composite, tables, rows, faults>>
  BY DEF IInv, Rollback, At
<1>2. /\ calls' \in Seq(Call) /\ Len(calls') <= MaxCalls /\ Turned(n) /\ Kept(n)
      /\ calls'[n].created = calls[n].created
      /\ calls'[n].step = "answer" /\ calls'[n].cause = calls[n].cause
  BY <1>1, JustStepping DEF Steps
<1>3. /\ owner' \in [Tables -> 0..MaxCalls] /\ creator' \in [Tables -> 0..MaxCalls]
      /\ \A t \in Tables : owner'[t] = IF owner[t] = n THEN None ELSE owner[t]
      /\ \A t \in Tables : creator'[t] = IF creator[t] = n THEN None ELSE creator[t]
  <2>1. owner \in [Tables -> 0..MaxCalls] /\ creator \in [Tables -> 0..MaxCalls]
    BY <1>1 DEF Typed
  <2>2. owner' = Without(owner, n) /\ creator' = Without(creator, n)
    BY <1>1
  <2>3. /\ Without(owner, n) \in [Tables -> 0..MaxCalls]
        /\ \A t \in Tables : Without(owner, n)[t] = IF owner[t] = n THEN None ELSE owner[t]
    BY <2>1, Freed
  <2>4. /\ Without(creator, n) \in [Tables -> 0..MaxCalls]
        /\ \A t \in Tables : Without(creator, n)[t] = IF creator[t] = n THEN None ELSE creator[t]
    BY <2>1, Freed
  <2> QED
    BY <2>2, <2>3, <2>4
<1>4. Typed'
  BY <1>1, <1>2, <1>3 DEF Typed
<1> QED
  BY <1>1, <1>2, <1>3, <1>4 DEF Rolls

LEMMA AnswerIs ==
  ASSUME IInv, NEW n \in 1..MaxCalls, Answer(n)
  PROVE  Typed' /\ Turned(n) /\ Answers(n)
<1> DEFINE c == [Released(calls[n]) EXCEPT !.step = "done"]
<1>1. /\ Typed /\ n \in DOMAIN calls /\ Become(n, c)
      /\ UNCHANGED <<backend, composite, tables, rows, owner, creator, faults>>
      /\ \/ calls[n].step = "answer"
         \/ calls[n].step = "run" /\ calls[n].work = {} /\ ~(IsSave(n) /\ backend \in Transactional)
  BY DEF IInv, Answer, Ends, At, Finished
<1>2. calls[n] \in Call
  BY <1>1, CallIs
<1>3. <<>> \in Views /\ DOMAIN <<>> = {}
  <2>1. <<>> \in [{} -> 0..OldRow] /\ {} \in SUBSET Tables
    OBVIOUS
  <2> QED
    BY <2>1 DEF Views
<1>4. /\ c \in Call /\ c.step = "done" /\ c.cause = calls[n].cause
      /\ c.landed = calls[n].landed /\ c.missed = calls[n].missed
      /\ c.work = {} /\ c.view = <<>> /\ c.created = {}
      /\ c.plugin = calls[n].plugin /\ c.expected = calls[n].expected /\ c.changes = calls[n].changes
      /\ c.malformed = calls[n].malformed
  BY <1>2, <1>3 DEF Call, Steps, Released
<1> HIDE DEF c
<1>5. /\ calls' \in Seq(Call) /\ Len(calls') <= MaxCalls /\ calls'[n] = c
      /\ DOMAIN calls' = DOMAIN calls /\ \A m \in DOMAIN calls : m # n => calls'[m] = calls[m]
  BY <1>1, <1>4, Becomes
<1>6. Turned(n)
  BY <1>1, <1>4, <1>5 DEF Turned
<1>7. Answers(n)
  BY <1>1, <1>3, <1>4, <1>5 DEF Answers, Waits
<1>8. Typed'
  <2>1. Waits /\ tables' \subseteq Tables /\ faults' \in 0..MaxFaults
    BY <1>1 DEF Typed, Waits
  <2> QED
    BY <1>1, <1>5, <2>1, StillTyped
<1> QED
  BY <1>6, <1>7, <1>8

LEMMA BlockedIs ==
  ASSUME IInv, NEW n \in DOMAIN calls, Blocked(n)
  PROVE  /\ Live(n) /\ calls[n].work # {}
         /\ Awaits(n) \notin {None, n}
         /\ \/ calls[n].step = "creating" /\ Awaits(n) = creator[Op(n).table]
            \/ calls[n].step = "run" /\ IsSave(n) /\ Awaits(n) = owner[Op(n).table]
<1>1. Awaits(n) # None /\ Awaits(n) # n
  BY DEF Blocked
<1>2. \/ calls[n].step = "creating" /\ Awaits(n) = creator[Op(n).table]
      \/ calls[n].step = "run" /\ calls[n].work # {} /\ IsSave(n) /\ Awaits(n) = owner[Op(n).table]
  BY <1>1 DEF Awaits, At, Running, Finished
<1>3. calls[n].step = "creating" => calls[n].work # {}
  BY DEF IInv, EachFits, StepFits
<1> QED
  BY <1>1, <1>2, <1>3 DEF Live

LEMMA DeadlockIs ==
  ASSUME IInv, NEW n \in 1..MaxCalls, Deadlock(n)
  PROVE  /\ Typed' /\ Turned(n) /\ Fails(n) /\ calls'[n].cause = "deadlock"
         /\ n \in DOMAIN calls /\ Blocked(n) /\ Awaits(n) \in DOMAIN calls /\ Blocked(Awaits(n))
<1>1. PICK S \in SUBSET DOMAIN calls : n \in S /\ \A m \in S : Blocked(m) /\ Awaits(m) \in S
  BY DEF Deadlock
<1>2. n \in DOMAIN calls /\ Blocked(n) /\ Awaits(n) \in DOMAIN calls /\ Blocked(Awaits(n))
  BY <1>1
<1>3. /\ Fail(n, "deadlock") /\ UNCHANGED <<backend, composite, tables, rows, owner, creator>>
      /\ faults' \in 0..MaxFaults
  BY DEF Deadlock, IInv, Typed
<1>4. Live(n) /\ calls[n].step # "start"
  BY <1>2, BlockedIs
<1>5. ASSUME ~IsSave(n), NEW t \in Tables, creator[t] = n PROVE FALSE
  <2>1. calls[n].step = "creating" /\ Op(n).table = t
    BY <1>2, <1>5, CallIs DEF IInv, Ownership, Creating
  <2> QED
    BY <1>2, <1>5, <2>1, BlockedIs
<1>6. Typed' /\ Turned(n) /\ Fails(n) /\ calls'[n].cause = "deadlock"
  BY <1>2, <1>3, <1>4, <1>5, FailedTyped DEF Causes
<1> QED
  BY <1>2, <1>6

LEMMA FaultIs ==
  ASSUME IInv, NEW n \in 1..MaxCalls, Fault(n)
  PROVE  Typed' /\ Turned(n) /\ Fails(n) /\ calls'[n].cause = "fault"
<1>1. /\ n \in DOMAIN calls /\ Live(n) /\ calls[n].step # "creating" /\ (calls[n].step = "start" => Turn(n))
      /\ Fail(n, "fault") /\ UNCHANGED <<backend, composite, tables, rows, owner, creator>>
  BY DEF Fault, Starts, At, Live
<1>2. faults' \in 0..MaxFaults
  BY Bounds DEF Fault, IInv, Typed
<1> QED
  BY <1>1, <1>2, FailedTyped, QueryCreates DEF Causes

\* A call as it arrives.
Arrives(c, p) ==
  /\ c \in Call /\ c.plugin = p /\ c.step = "start" /\ c.cause = "none" /\ c.expected = rows
  /\ c.landed = {} /\ c.missed = {} /\ c.created = {} /\ DOMAIN c.view = {} /\ c.work # {}
  /\ \A op \in c.work :
       IF DOMAIN c.changes # {}
         THEN /\ op.table \in DOMAIN c.changes
              /\ op.checked = c.changes[op.table].checked
              /\ \/ op.do = c.changes[op.table].do
                 \/ c.changes[op.table].do = "replace" /\ op.do \in {"remove", "add"}
         ELSE op.do = "read"
  /\ \A a, b \in c.work : a.table = b.table =>
       /\ a.do = b.do => a = b
       /\ (a.do = "remove" /\ b.do = "add" /\ backend # "d1") => Precedes(a, b)
  /\ \A a, b \in c.work : (backend = "pouch" /\ a.do = "add" /\ b.do # "add") => a.rank # b.rank
  /\ \A t \in DOMAIN c.changes :
       /\ c.changes[t].do \in {"add", "replace", "remove", "update"}
       /\ c.changes[t].checked => c.changes[t].do = "update" /\ rows[t] # NoRow
       /\ c.changes[t].do # "replace" => \E op \in c.work : op.table = t /\ op.do = c.changes[t].do
       /\ c.changes[t].do = "replace" => /\ \E op \in c.work : op.table = t /\ op.do = "remove"
                                         /\ \E op \in c.work : op.table = t /\ op.do = "add"

LEMMA NewArrives ==
  ASSUME Typed, NEW p \in Plugins, NEW save \in Saves,
         \A i \in DOMAIN save : save[i].checked => rows[save[i].table] # NoRow
  PROVE  Arrives(New(p, save), p)
<1> DEFINE Items == [table : Tables, do : {"read", "add", "replace", "remove", "update"}, checked : BOOLEAN]
<1> DEFINE Item(t) == CHOOSE i \in DOMAIN save : save[i].table = t
<1> DEFINE touched == IF Reads(save) THEN {} ELSE {save[i].table : i \in DOMAIN save}
<1> DEFINE changes == [t \in touched |-> [do |-> save[Item(t)].do, checked |-> save[Item(t)].checked]]
<1> DEFINE c == [plugin |-> p, step |-> "start", cause |-> "none", held |-> FALSE, expected |-> rows,
                 changes |-> changes, work |-> Operations(save), view |-> <<>>, seen |-> <<>>, created |-> {},
                 aborted |-> FALSE, malformed |-> save \in Malformed, landed |-> {}, missed |-> {}]
<1>1. New(p, save) = c
  BY DEF New
<1>2. /\ save \in Seq(Items) /\ save # <<>>
      /\ \A i, j \in DOMAIN save : save[i].table = save[j].table => i = j
      /\ \A i \in DOMAIN save : save[i].checked => save[i].do = "update"
      /\ (\E i \in DOMAIN save : save[i].do = "read") => Len(save) = 1
  BY SavesAssumption
<1>3. /\ DOMAIN save = 1..Len(save) /\ 1 \in DOMAIN save /\ \A i \in DOMAIN save : save[i] \in Items
  <2> HIDE DEF Items
  <2>1. Len(save) \in Nat /\ DOMAIN save = 1..Len(save) /\ Len(save) # 0
    BY <1>2, EmptySeq, LenProperties
  <2>2. \A i \in 1..Len(save) : save[i] \in Items
    BY <1>2, ElementOfSeq
  <2> QED
    BY <2>1, <2>2
<1>4. \A i \in DOMAIN save : Item(save[i].table) = i
  BY <1>2
<1>5. /\ DOMAIN changes = touched
      /\ \A i \in DOMAIN save : ~Reads(save) =>
           /\ save[i].table \in touched
           /\ changes[save[i].table].do = save[i].do /\ changes[save[i].table].checked = save[i].checked
  BY <1>4
<1>6. \A i \in DOMAIN save : save[i].do = "read" <=> Reads(save)
  <2>1. ASSUME NEW i \in DOMAIN save, save[i].do = "read" PROVE Reads(save)
    <3>1. i = 1
      BY <1>2, <1>3, <2>1
    <3> QED
      BY <2>1, <3>1 DEF Reads
  <2>2. ASSUME NEW i \in DOMAIN save, Reads(save) PROVE save[i].do = "read"
    <3>1. save[1].do = "read"
      BY <2>2 DEF Reads
    <3>2. i = 1
      BY <1>2, <1>3, <3>1
    <3> QED
      BY <3>1, <3>2
  <2> QED
    BY <2>1, <2>2
<1>7. /\ Operations(save) \in SUBSET OpSet /\ Operations(save) # {}
      /\ \A i \in DOMAIN save : Parts(save[i], i) \subseteq Operations(save)
      /\ \A op \in Operations(save) : \E i \in DOMAIN save : op \in Parts(save[i], i)
      /\ \A a, b \in Operations(save) : a.table = b.table =>
           /\ a.do = b.do => a = b
           /\ (a.do = "remove" /\ b.do = "add" /\ backend # "d1") => Precedes(a, b)
      /\ \A a, b \in Operations(save) : (backend = "pouch" /\ a.do = "add" /\ b.do # "add") => a.rank # b.rank
  BY OperationsFit
<1>8. \A i \in DOMAIN save : \A op \in Parts(save[i], i) :
        /\ op.table = save[i].table /\ op.checked = save[i].checked
        /\ op.do = save[i].do \/ (save[i].do = "replace" /\ op.do \in {"remove", "add"})
  BY DEF Parts, Part
<1>9. \A i \in DOMAIN save :
        /\ save[i].do # "replace" => \E op \in Operations(save) : op.table = save[i].table /\ op.do = save[i].do
        /\ save[i].do = "replace" =>
             /\ \E op \in Operations(save) : op.table = save[i].table /\ op.do = "remove"
             /\ \E op \in Operations(save) : op.table = save[i].table /\ op.do = "add"
  <2> TAKE i \in DOMAIN save
  <2>1. \A do \in IF save[i].do = "replace" THEN {"remove", "add"} ELSE {save[i].do} :
          Part(save[i], i, do) \in Operations(save) /\ Part(save[i], i, do).table = save[i].table
          /\ Part(save[i], i, do).do = do
    BY <1>7 DEF Parts, Part
  <2> QED
    BY <2>1
<1>10. \A t \in touched : \E i \in DOMAIN save : save[i].table = t /\ ~Reads(save)
  OBVIOUS
<1>11. touched \in SUBSET Tables /\ (touched # {} <=> ~Reads(save))
  <2>1. touched \in SUBSET Tables
    <3>1. \A i \in DOMAIN save : save[i].table \in Tables
      BY <1>3
    <3> QED
      BY <3>1
  <2>2. ~Reads(save) => save[1].table \in touched
    BY <1>3
  <2>3. Reads(save) => touched = {}
    OBVIOUS
  <2> HIDE DEF touched
  <2> QED
    BY <2>1, <2>2, <2>3
<1>12. changes \in ChangeMaps
  <2> DEFINE Rec == [do : {"add", "replace", "remove", "update"}, checked : BOOLEAN]
  <2>1. \A t \in touched : changes[t] \in Rec
    <3> TAKE t \in touched
    <3>1. PICK i \in DOMAIN save : save[i].table = t /\ ~Reads(save)
      BY <1>10
    <3>2. save[i] \in Items /\ save[i].do # "read" /\ Item(t) = i
      BY <1>3, <1>4, <1>6, <3>1
    <3> QED
      BY <3>2
  <2>2. changes \in [touched -> Rec]
    BY <2>1
  <2> HIDE DEF changes, touched
  <2> QED
    BY <1>11, <2>2 DEF ChangeMaps
<1>13. <<>> \in Views /\ DOMAIN <<>> = {}
  <2>1. <<>> \in [{} -> 0..OldRow] /\ {} \in SUBSET Tables
    OBVIOUS
  <2> QED
    BY <2>1 DEF Views
<1> HIDE DEF changes
<1>14. c \in Call
  <2>1. rows \in [Tables -> 0..OldRow]
    BY DEF Typed
  <2> QED
    BY <1>7, <1>12, <1>13, <2>1 DEF Call, Steps, Causes
<1>15. \A op \in Operations(save) :
         IF touched # {}
           THEN /\ op.table \in touched
                /\ op.checked = changes[op.table].checked
                /\ \/ op.do = changes[op.table].do
                   \/ changes[op.table].do = "replace" /\ op.do \in {"remove", "add"}
           ELSE op.do = "read"
  <2> TAKE op \in Operations(save)
  <2>1. PICK i \in DOMAIN save : op \in Parts(save[i], i)
    BY <1>7
  <2>2. /\ op.table = save[i].table /\ op.checked = save[i].checked
        /\ op.do = save[i].do \/ (save[i].do = "replace" /\ op.do \in {"remove", "add"})
    BY <1>8, <2>1
  <2>3. CASE Reads(save)
    <3>1. save[i].do = "read"
      BY <1>6, <2>3
    <3> HIDE DEF touched
    <3> QED
      BY <1>11, <2>2, <2>3, <3>1
  <2>4. CASE ~Reads(save)
    <3>1. /\ save[i].table \in touched
          /\ changes[save[i].table].do = save[i].do /\ changes[save[i].table].checked = save[i].checked
      BY <1>5, <2>4
    <3> HIDE DEF touched
    <3> QED
      BY <1>11, <2>2, <2>4, <3>1
  <2> QED
    BY <2>3, <2>4
<1>16. \A t \in touched :
         /\ changes[t].do \in {"add", "replace", "remove", "update"}
         /\ changes[t].checked => changes[t].do = "update" /\ rows[t] # NoRow
         /\ changes[t].do # "replace" => \E op \in Operations(save) : op.table = t /\ op.do = changes[t].do
         /\ changes[t].do = "replace" => /\ \E op \in Operations(save) : op.table = t /\ op.do = "remove"
                                         /\ \E op \in Operations(save) : op.table = t /\ op.do = "add"
  <2> TAKE t \in touched
  <2>1. PICK i \in DOMAIN save : save[i].table = t /\ ~Reads(save)
    BY <1>10
  <2>2. changes[t].do = save[i].do /\ changes[t].checked = save[i].checked
    BY <1>5, <2>1
  <2>3. save[i].do \in {"add", "replace", "remove", "update"}
    BY <1>3, <1>6, <2>1
  <2> HIDE DEF touched
  <2> QED
    BY <1>2, <1>9, <2>1, <2>2, <2>3
<1> HIDE DEF touched
<1>17. Arrives(c, p)
  <2>1. /\ c.plugin = p /\ c.step = "start" /\ c.cause = "none" /\ c.expected = rows
        /\ c.landed = {} /\ c.missed = {} /\ c.created = {} /\ c.view = <<>>
        /\ c.work = Operations(save) /\ c.changes = changes
    OBVIOUS
  <2> HIDE DEF c
  <2> QED
    BY <1>5, <1>7, <1>13, <1>14, <1>15, <1>16, <2>1 DEF Arrives
<1> QED
  BY <1>1, <1>17

LEMMA AskIs ==
  ASSUME IInv, NEW p \in Plugins, NEW save \in Saves, Ask(p, save)
  PROVE  /\ Typed' /\ Len(calls) \in Nat /\ Len(calls') = Len(calls) + 1
         /\ calls' = Append(calls, calls'[Len(calls) + 1])
         /\ DOMAIN calls = 1..Len(calls) /\ DOMAIN calls' = 1..(Len(calls) + 1)
         /\ DOMAIN calls' = DOMAIN calls \cup {Len(calls) + 1} /\ Len(calls) + 1 \notin DOMAIN calls
         /\ \A m \in DOMAIN calls : calls'[m] = calls[m]
         /\ Arrives(calls'[Len(calls) + 1], p)
         /\ backend' = backend /\ composite' = composite /\ Waits
<1>1. /\ Typed /\ calls \in Seq(Call) /\ Len(calls) < MaxCalls
      /\ \A i \in DOMAIN save : save[i].checked => rows[save[i].table] # NoRow
      /\ calls' = Append(calls, New(p, save))
      /\ UNCHANGED <<backend, composite, tables, rows, owner, creator, faults>>
  BY DEF IInv, Typed, Ask
<1>2. Arrives(New(p, save), p) /\ New(p, save) \in Call
  BY <1>1, NewArrives DEF Arrives
<1>3. /\ Len(calls) \in Nat /\ Len(calls') = Len(calls) + 1
      /\ calls' \in Seq(Call) /\ DOMAIN calls = 1..Len(calls) /\ DOMAIN calls' = 1..(Len(calls) + 1)
      /\ calls'[Len(calls) + 1] = New(p, save)
      /\ \A m \in 1..Len(calls) : calls'[m] = calls[m]
  BY <1>1, <1>2, AppendProperties, LenProperties
<1>4. Typed'
  BY <1>1, <1>3, Bounds DEF Typed
<1> QED
  BY <1>1, <1>2, <1>3, <1>4 DEF Waits

-----------------------------------------------------------------------------
(* A step of one call, to the others.                                      *)

Asks(p) ==
  /\ Len(calls) \in Nat /\ Len(calls') = Len(calls) + 1 /\ calls' = Append(calls, calls'[Len(calls) + 1])
  /\ DOMAIN calls = 1..Len(calls) /\ DOMAIN calls' = 1..(Len(calls) + 1)
  /\ DOMAIN calls' = DOMAIN calls \cup {Len(calls) + 1} /\ Len(calls) + 1 \notin DOMAIN calls
  /\ \A m \in DOMAIN calls : calls'[m] = calls[m]
  /\ Arrives(calls'[Len(calls) + 1], p)
  /\ backend' = backend /\ composite' = composite /\ Waits

LEMMA NextIs ==
  ASSUME IInv, Next
  PROVE  /\ Typed'
         /\ \/ \E p \in Plugins : Asks(p)
            \/ \E n \in DOMAIN calls : Turned(n) /\ Kinds(n)
<1>1. CASE \E p \in Plugins, save \in Saves : Ask(p, save)
  BY <1>1, AskIs DEF Asks
<1>2. ASSUME NEW n \in 1..MaxCalls, Advance(n) \/ Fault(n) \/ LoseCommit(n)
      PROVE  Typed' /\ \E m \in DOMAIN calls : Turned(m) /\ Kinds(m)
  <2>1. Typed' /\ Turned(n) /\ Kinds(n)
    <3>1. CASE Throw(n) \/ Refuse(n) \/ BeginImmediate(n) \/ BeginScoped(n) \/ Begin(n)
      BY <3>1, ThrowIs, RefuseIs, BeginImmediateIs, BeginScopedIs, BeginIs DEF Kinds
    <3>2. CASE EnsureTables(n) \/ MissTable(n) \/ Create(n) \/ Created(n)
      BY <3>2, EnsureTablesIs, MissTableIs, CreateIs, CreatedIs DEF Kinds
    <3>3. CASE Select(n) \/ Reject(n) \/ Execute(n) \/ Write(n) \/ RunBatch(n) \/ Lookup(n) \/ Bulk(n)
      BY <3>3, SelectIs, RejectIs, ExecuteIs, WriteIs, RunBatchIs, LookupIs, BulkIs DEF Kinds
    <3>4. CASE Commit(n) \/ Rollback(n) \/ Answer(n) \/ Deadlock(n) \/ Fault(n) \/ LoseCommit(n)
      BY <3>4, CommitIs, RollbackIs, AnswerIs, DeadlockIs, FaultIs, LoseCommitIs DEF Kinds
    <3> QED
      BY <1>2, <3>1, <3>2, <3>3, <3>4 DEF Advance
  <2>2. n \in DOMAIN calls
    BY <2>1 DEF Turned
  <2> QED
    BY <2>1, <2>2
<1> QED
  BY <1>1, <1>2 DEF Next

\* The rows and locks that a step of call n may change.
Confined(n) ==
  /\ calls[n].landed \subseteq calls'[n].landed
  /\ \A t \in Tables :
       /\ owner'[t] = owner[t] \/ (owner[t] \in {None, n} /\ owner'[t] \in {None, n})
       /\ creator'[t] = creator[t] \/ (creator[t] \in {None, n} /\ creator'[t] \in {None, n})
       /\ rows'[t] # rows[t] =>
            /\ owner[t] \in {None, n} /\ t \in Touched(n)
            /\ \/ t \in calls'[n].landed
               \/ backend \notin Transactional /\ Do(n, t) = "replace"

LEMMA ReadyIs ==
  ASSUME IInv, NEW n \in DOMAIN calls, Ready(n), IsSave(n)
  PROVE  /\ calls[n].step = "run" /\ calls[n].work # {} /\ backend \notin {"pouch", "d1"}
         /\ ~Missing(n, Op(n).table) /\ ~Blocked(n)
         /\ Op(n) \in calls[n].work /\ Op(n) \in OpSet /\ Op(n).table \in Tables /\ Op(n).table \in Touched(n)
BY OpTable DEF Ready, Running, At, Finished

\* What a statement writes in a transaction is free, or its own already.
LEMMA OpenToExecute ==
  ASSUME IInv, NEW n \in DOMAIN calls, Executes(n), ~Misses(n, Op(n))
  PROVE  owner[Op(n).table] \in {None, n}
<1>1. /\ calls[n].step = "run" /\ calls[n].work # {} /\ ~Blocked(n)
      /\ Op(n).table \in Tables /\ Op(n).table \in Touched(n) /\ IsSave(n) /\ Cause(n) = "none" /\ backend \in Locking
  BY ReadyIs DEF Executes
<1>2. CASE backend \in Pooled
  <2>1. Running(n) /\ ~At(n, "creating")
    BY <1>1 DEF Running, At, Finished
  <2>2. Awaits(n) = owner[Op(n).table]
    BY <1>1, <1>2, <2>1 DEF Awaits
  <2> QED
    BY <1>1, <2>2 DEF Blocked
<1>3. CASE backend \in {"sqlite", "dexie"}
  <2>1. Holding(n) /\ Locked(n)
    BY <1>1 DEF IInv, EachWorks, Holding
  <2> QED
    BY <1>1, <1>3, <2>1 DEF Locked
<1>4. CASE backend = "mongo"
  <2>1. ~Contended(n, Op(n))
    BY <1>1 DEF Cause
  <2> QED
    BY <1>4, <2>1 DEF Contended
<1> QED
  BY <1>1, <1>2, <1>3, <1>4 DEF Locking, Transactional, Relational, Pooled

LEMMA Unlocked ==
  ASSUME IInv, backend \notin Locking
  PROVE  \A t \in Tables : owner[t] = None
BY DEF IInv, Ownership, Owned

LEMMA Confines ==
  ASSUME IInv, NEW n \in DOMAIN calls, Turned(n), Kinds(n)
  PROVE  Confined(n)
<1>1. n # None /\ calls[n].landed \subseteq Touched(n)
  BY CallIs DEF IInv, EachFits, Sized
<1>2. CASE Fails(n) \/ Throws(n) \/ Begins(n) \/ Selects(n) \/ Looks(n) \/ Answers(n)
  BY <1>2 DEF Fails, Throws, Begins, Selects, Looks, Answers, Waits, Kept, KeptWork, Confined
<1>3. CASE Locks(n)
  BY <1>3 DEF Locks, Kept, KeptWork, Confined
<1>4. CASE Readies(n)
  BY <1>4 DEF Readies, Kept, KeptWork, Confined
<1>5. CASE Executes(n)
  <2>1. CASE Misses(n, Op(n))
    BY <1>5, <2>1 DEF Executes, Confined
  <2>2. CASE ~Misses(n, Op(n))
    <3>1. owner[Op(n).table] \in {None, n}
      BY <1>5, <2>2, OpenToExecute
    <3>2. /\ calls'[n].landed = calls[n].landed /\ rows' = rows /\ creator' = creator
          /\ \A t \in Tables : owner'[t] = IF t = Op(n).table THEN n ELSE owner[t]
      BY <1>5, <2>2 DEF Executes
    <3> QED
      BY <3>1, <3>2 DEF Confined
  <2> QED
    BY <2>1, <2>2
<1>6. CASE Writes(n)
  <2>1. /\ backend = "loose" /\ Op(n) \in calls[n].work /\ Op(n).table \in Touched(n) /\ IsSave(n)
    BY <1>6, ReadyIs DEF Writes
  <2>2. \A t \in Tables : owner[t] = None
    BY <2>1, Unlocked DEF Locking, Transactional, Relational
  <2>3. Op(n).do = Do(n, Op(n).table) \/ Do(n, Op(n).table) = "replace"
    BY <2>1 DEF IInv, EachFits, WorkFits
  <2>4. /\ calls'[n].landed = IF Lands(n, Op(n)) THEN calls[n].landed \cup {Op(n).table} ELSE calls[n].landed
        /\ \A t \in Tables : rows'[t] = IF t = Op(n).table THEN Written(n, Op(n)) ELSE rows[t]
        /\ owner' = owner /\ creator' = creator
    BY <1>6 DEF Writes
  <2>5. Lands(n, Op(n)) \/ Do(n, Op(n).table) = "replace"
    BY <2>3 DEF Lands, Do
  <2>6. backend \notin Transactional
    BY <2>1 DEF Transactional, Relational
  <2> QED
    BY <2>1, <2>2, <2>4, <2>5, <2>6 DEF Confined
<1>7. CASE Batches(n)
  <2>1. \A t \in Tables : owner[t] = None
    BY <1>7, Unlocked DEF Batches, Locking
  <2> QED
    BY <1>1, <1>7, <2>1 DEF Batches, Confined
<1>8. CASE Bulks(n)
  <2>1. backend = "pouch" /\ IsSave(n)
    BY <1>8 DEF Bulks
  <2>2. backend \notin Transactional /\ \A t \in Tables : owner[t] = None
    BY <2>1, Unlocked DEF Locking, Transactional, Relational
  <2>3. \A op \in Good(n) : op \in calls[n].work
    BY DEF Good, Batch, First
  <2>4. \A op \in Good(n) : op.table \in Touched(n) /\ (Lands(n, op) \/ Do(n, op.table) = "replace")
    BY <2>1, <2>3 DEF IInv, EachFits, WorkFits, Lands, Do
  <2>5. /\ calls'[n].landed = calls[n].landed \cup {op.table : op \in {o \in Good(n) : Lands(n, o)}}
        /\ \A t \in Tables : rows'[t] # rows[t] => \E op \in Good(n) : op.table = t
        /\ owner' = owner /\ creator' = creator
    BY <1>8 DEF Bulks
  <2> QED
    BY <2>2, <2>4, <2>5 DEF Confined
<1>9. CASE Commits(n)
  <2>1. /\ \A t \in DOMAIN calls[n].view : owner[t] = n /\ t \in Touched(n)
    BY <1>9 DEF IInv, EachWorks, Locked, EachFits, Sized, Commits, Live
  <2> QED
    BY <1>1, <1>9, <2>1 DEF Commits, Confined, InView
<1>10. CASE Rolls(n)
  BY <1>10 DEF Rolls, Kept, KeptWork, Confined
<1> QED
  BY <1>2, <1>3, <1>4, <1>5, <1>6, <1>7, <1>8, <1>9, <1>10 DEF Kinds

-----------------------------------------------------------------------------
(* Each call fits what was asked.                                          *)

LEMMA SameBatch ==
  ASSUME NEW m, calls'[m].work = calls[m].work
  PROVE  Batch(m)' = Batch(m)
BY DEF Batch, First, Precedes

LEMMA FitsKept ==
  ASSUME NEW m, calls'[m] = calls[m], backend' = backend,
         WorkFits(m), ChangesFit(m), StepFits(m), Sized(m)
  PROVE  WorkFits(m)' /\ ChangesFit(m)' /\ StepFits(m)' /\ Sized(m)'
<1>1. (IsSave(m) <=> IsSave(m)') /\ Touched(m)' = Touched(m)
  BY DEF IsSave, Touched
<1>2. WorkFits(m)'
  BY <1>1 DEF WorkFits, Precedes, Do
<1>3. ChangesFit(m)'
  BY <1>1 DEF ChangesFit, Do
<1>4. StepFits(m)'
  <2>1. Batch(m)' = Batch(m)
    BY SameBatch
  <2> QED
    BY <1>1, <2>1 DEF StepFits, Live, Checks
<1>5. Sized(m)'
  BY <1>1 DEF Sized
<1> QED
  BY <1>2, <1>3, <1>4, <1>5

LEMMA SameCall ==
  ASSUME NEW n, Turned(n)
  PROVE  /\ Touched(n)' = Touched(n) /\ (IsSave(n)' <=> IsSave(n)) /\ (Checks(n)' <=> Checks(n))
         /\ \A t : Do(n, t)' = Do(n, t)
BY DEF Turned, Touched, IsSave, Checks, Do

LEMMA WorkShrinks ==
  ASSUME NEW n, Kinds(n)
  PROVE  calls'[n].work \subseteq calls[n].work
<1>1. CASE Fails(n) \/ Throws(n) \/ Locks(n) \/ Readies(n) \/ Looks(n) \/ Rolls(n)
  BY <1>1 DEF Fails, Throws, Locks, Readies, Looks, Rolls, Kept, KeptWork
<1>2. CASE Begins(n) \/ Selects(n) \/ Writes(n) \/ Batches(n) \/ Commits(n) \/ Answers(n)
  BY <1>2 DEF Begins, Selects, Writes, Batches, Commits, Answers
<1>3. CASE Executes(n)
  BY <1>3 DEF Executes
<1>4. CASE Bulks(n)
  BY <1>4 DEF Bulks
<1> QED
  BY <1>1, <1>2, <1>3, <1>4 DEF Kinds

LEMMA WorkFitsNext ==
  ASSUME NEW n, Turned(n), Kinds(n), WorkFits(n), ChangesFit(n)
  PROVE  WorkFits(n)' /\ ChangesFit(n)'
<1>1. /\ Touched(n)' = Touched(n) /\ (IsSave(n)' <=> IsSave(n)) /\ \A t : Do(n, t)' = Do(n, t)
  BY SameCall
<1>2. /\ calls'[n].work \subseteq calls[n].work /\ calls'[n].changes = calls[n].changes
      /\ calls'[n].expected = calls[n].expected /\ backend' = backend
  BY WorkShrinks DEF Turned
<1>3. ChangesFit(n)'
  BY <1>1, <1>2 DEF ChangesFit
<1>4. WorkFits(n)'
  <2>1. ASSUME NEW op \in calls'[n].work
        PROVE  IF IsSave(n)'
                 THEN /\ op.table \in Touched(n)'
                      /\ op.checked = calls'[n].changes[op.table].checked
                      /\ op.do = Do(n, op.table)' \/ (Do(n, op.table)' = "replace" /\ op.do \in {"remove", "add"})
                 ELSE op.do = "read"
    <3>1. op \in calls[n].work
      BY <1>2, <2>1
    <3> QED
      BY <1>1, <1>2, <3>1 DEF WorkFits
  <2>2. ASSUME NEW a \in calls'[n].work, NEW b \in calls'[n].work, a.table = b.table
        PROVE  /\ a.do = b.do => a = b
               /\ (a.do = "remove" /\ b.do = "add" /\ backend' # "d1") => Precedes(a, b)
    <3>1. a \in calls[n].work /\ b \in calls[n].work
      BY <1>2, <2>2
    <3> QED
      BY <1>2, <2>2, <3>1 DEF WorkFits
  <2>3. ASSUME NEW a \in calls'[n].work, NEW b \in calls'[n].work, backend' = "pouch", a.do = "add", b.do # "add"
        PROVE  a.rank # b.rank
    BY <1>2, <2>3 DEF WorkFits
  <2> QED
    BY <2>1, <2>2, <2>3 DEF WorkFits, Precedes
<1> QED
  BY <1>3, <1>4

LEMMA StepFitsNext ==
  ASSUME IInv, NEW n \in DOMAIN calls, Turned(n), Kinds(n)
  PROVE  StepFits(n)'
<1>1. /\ (IsSave(n)' <=> IsSave(n)) /\ (Checks(n)' <=> Checks(n)) /\ backend' = backend
  BY SameCall DEF Turned
<1>2. StepFits(n)
  BY DEF IInv, EachFits
<1>3. CASE Fails(n)
  BY <1>1, <1>2, <1>3 DEF StepFits, Fails, Live
<1>4. CASE Throws(n)
  BY <1>1, <1>2, <1>4 DEF StepFits, Throws, Live
<1>5. CASE Locks(n)
  BY <1>1, <1>2, <1>5 DEF StepFits, Locks, Live, Kept, KeptWork
<1>6. CASE Begins(n)
  BY <1>1, <1>2, <1>6 DEF StepFits, Begins, Live
<1>7. CASE Readies(n)
  BY <1>1, <1>2, <1>7 DEF StepFits, Readies, Live, Kept, KeptWork
<1>8. CASE Selects(n)
  BY <1>1, <1>2, <1>8 DEF StepFits, Selects, Live
<1>9. CASE Executes(n) \/ Writes(n)
  <2>1. calls[n].step = "run" /\ calls'[n].step = "run" /\ calls'[n].cause = calls[n].cause /\ backend # "d1"
    BY <1>9, ReadyIs DEF Executes, Writes
  <2> QED
    BY <1>1, <1>2, <2>1 DEF StepFits, Live
<1>10. CASE Batches(n)
  BY <1>1, <1>2, <1>10 DEF StepFits, Batches, Live
<1>11. CASE Looks(n)
  <2>1. Batch(n)' = Batch(n)
    BY <1>11, SameBatch DEF Looks, KeptWork
  <2>2. \A op \in Batch(n) : op.table \in Tables
    BY CallIs DEF Batch, First, OpSet, IInv
  <2>3. \A op \in Batch(n) : op.checked => calls'[n].seen[op.table] = calls[n].expected[op.table]
    BY <1>11, <2>2 DEF Looks
  <2>4. calls'[n].expected = calls[n].expected
    BY DEF Turned
  <2> QED
    BY <1>1, <1>2, <1>11, <2>1, <2>3, <2>4 DEF StepFits, Looks, Live, KeptWork
<1>12. CASE Bulks(n)
  <2>1. /\ backend = "pouch" /\ calls[n].step \in {"bulk", "run"}
        /\ \/ calls'[n].step = "run" /\ calls'[n].cause = calls[n].cause
           \/ calls'[n].step = "answer"
    BY <1>12 DEF Bulks
  <2> QED
    BY <1>1, <1>2, <2>1 DEF StepFits, Live
<1>13. CASE Commits(n)
  BY <1>1, <1>2, <1>13 DEF StepFits, Commits, Live
<1>14. CASE Rolls(n)
  BY <1>1, <1>2, <1>14 DEF StepFits, Rolls, Live
<1>15. CASE Answers(n)
  BY <1>1, <1>2, <1>15 DEF StepFits, Answers, Live
<1> QED
  BY <1>3, <1>4, <1>5, <1>6, <1>7, <1>8, <1>9, <1>10, <1>11, <1>12, <1>13, <1>14, <1>15 DEF Kinds

LEMMA SizedNext ==
  ASSUME IInv, NEW n \in DOMAIN calls, Turned(n), Kinds(n)
  PROVE  Sized(n)'
<1>1. Touched(n)' = Touched(n) /\ backend' = backend
  BY SameCall DEF Turned
<1>2. Sized(n)
  BY DEF IInv, EachFits
<1>3. CASE Fails(n) \/ Throws(n) \/ Locks(n) \/ Looks(n) \/ Rolls(n)
  BY <1>1, <1>2, <1>3 DEF Sized, Fails, Throws, Locks, Looks, Rolls, Kept, KeptWork
<1>4. CASE Begins(n)
  BY <1>1, <1>2, <1>4 DEF Sized, Begins
<1>5. CASE Readies(n)
  BY <1>1, <1>2, <1>5 DEF Sized, Readies, Kept, KeptWork
<1>6. CASE Selects(n)
  BY <1>1, <1>2, <1>6 DEF Sized, Selects
<1>7. CASE Executes(n)
  <2>1. Op(n).table \in Touched(n) /\ calls'[n].step = "run" /\ backend \in Locking
    BY <1>7, ReadyIs DEF Executes
  <2> QED
    BY <1>1, <1>2, <1>7, <2>1 DEF Sized, Executes
<1>8. CASE Writes(n)
  <2>1. Op(n).table \in Touched(n) /\ calls'[n].step = "run"
    BY <1>8, ReadyIs DEF Writes
  <2> QED
    BY <1>1, <1>2, <1>8, <2>1 DEF Sized, Writes
<1>9. CASE Batches(n)
  BY <1>1, <1>2, <1>9 DEF Sized, Batches
<1>10. CASE Bulks(n)
  <2>1. \A op \in Good(n) : op.table \in Touched(n)
    BY <1>10 DEF IInv, EachFits, WorkFits, Good, Batch, First, Bulks
  <2>2. {op.table : op \in {o \in Good(n) : Lands(n, o)}} \subseteq Touched(n)
    BY <2>1
  <2>3. calls'[n].step # "start"
    BY <1>10 DEF Bulks
  <2> QED
    BY <1>1, <1>2, <1>10, <2>2, <2>3 DEF Sized, Bulks
<1>11. CASE Commits(n)
  BY <1>1, <1>2, <1>11 DEF Sized, Commits
<1>12. CASE Answers(n)
  BY <1>1, <1>2, <1>12 DEF Sized, Answers
<1> QED
  BY <1>3, <1>4, <1>5, <1>6, <1>7, <1>8, <1>9, <1>10, <1>11, <1>12 DEF Kinds

\* A call that has just arrived.
LEMMA ArrivalFits ==
  ASSUME NEW p, NEW k, Arrives(calls'[k], p), Waits, backend' = backend
  PROVE  WorkFits(k)' /\ ChangesFit(k)' /\ StepFits(k)' /\ Sized(k)'
<1>1. WorkFits(k)'
  BY DEF Arrives, WorkFits, IsSave, Touched, Do, Precedes
<1>2. ChangesFit(k)'
  BY DEF Arrives, ChangesFit, Touched, Do
<1>3. StepFits(k)'
  BY DEF Arrives, StepFits, Live
<1>4. Sized(k)'
  BY DEF Arrives, Sized
<1> QED
  BY <1>1, <1>2, <1>3, <1>4

LEMMA EachFitsNext ==
  ASSUME IInv, Next
  PROVE  EachFits'
<1>1. CASE \E p \in Plugins : Asks(p)
  <2>1. PICK p \in Plugins : Asks(p)
    BY <1>1
  <2> SUFFICES ASSUME NEW m \in DOMAIN calls'
               PROVE  WorkFits(m)' /\ ChangesFit(m)' /\ StepFits(m)' /\ Sized(m)'
    BY DEF EachFits
  <2>2. CASE m \in DOMAIN calls
    BY <2>1, <2>2, FitsKept DEF Asks, IInv, EachFits
  <2>3. CASE m = Len(calls) + 1
    BY <2>1, <2>3, ArrivalFits DEF Asks
  <2> QED
    BY <2>1, <2>2, <2>3 DEF Asks
<1>2. CASE \E n \in DOMAIN calls : Turned(n) /\ Kinds(n)
  <2>1. PICK n \in DOMAIN calls : Turned(n) /\ Kinds(n)
    BY <1>2
  <2> SUFFICES ASSUME NEW m \in DOMAIN calls'
               PROVE  WorkFits(m)' /\ ChangesFit(m)' /\ StepFits(m)' /\ Sized(m)'
    BY DEF EachFits
  <2>2. m \in DOMAIN calls /\ backend' = backend
    BY <2>1 DEF Turned
  <2>3. CASE m # n
    BY <2>1, <2>2, <2>3, FitsKept DEF Turned, IInv, EachFits
  <2>4. CASE m = n
    BY <2>1, <2>4, WorkFitsNext, StepFitsNext, SizedNext DEF IInv, EachFits
  <2> QED
    BY <2>3, <2>4
<1> QED
  BY <1>1, <1>2, NextIs

-----------------------------------------------------------------------------
(* What has landed.                                                        *)

LEMMA LandsKept ==
  ASSUME NEW m, calls'[m] = calls[m], backend' = backend, AllOrNothing(m), OneByOne(m)
  PROVE  AllOrNothing(m)' /\ OneByOne(m)'
<1>1. AllOrNothing(m)'
  BY DEF AllOrNothing, Ended, Touched
<1>2. OneByOne(m)'
  BY DEF OneByOne, Ended, Live, Touched, IsSave, Lands, Has, Do
<1> QED
  BY <1>1, <1>2

\* Where transactions are used.
LEMMA Databases == Locking \subseteq Transactional /\ "pouch" \notin Transactional /\ "loose" \notin Transactional
                   /\ "d1" \in Transactional /\ "d1" \notin Locking /\ "pouch" \notin Locking /\ "loose" \notin Locking
                   /\ {"sqlite", "postgres", "mysql", "mongo", "dexie"} \subseteq Locking
BY DEF Locking, Transactional, Relational

LEMMA AllOrNothingNext ==
  ASSUME IInv, NEW n \in DOMAIN calls, Turned(n), Kinds(n)
  PROVE  AllOrNothing(n)'
<1>1. Touched(n)' = Touched(n) /\ backend' = backend /\ (IsSave(n)' <=> IsSave(n))
  BY SameCall DEF Turned
<1>2. AllOrNothing(n) /\ StepFits(n)
  BY DEF IInv, EachLands, EachFits
<1> SUFFICES ASSUME backend \in Transactional
             PROVE  calls'[n].landed = IF calls'[n].step \in {"answer", "done"} /\ calls'[n].cause \in {"none", "lost"}
                                         THEN Touched(n) ELSE {}
  BY <1>1 DEF AllOrNothing, Ended
<1>3. calls[n].landed = IF calls[n].step \in {"answer", "done"} /\ calls[n].cause \in {"none", "lost"}
                          THEN Touched(n) ELSE {}
  BY <1>2 DEF AllOrNothing, Ended
<1>4. CASE Fails(n) \/ Throws(n)
  BY <1>3, <1>4 DEF Fails, Throws, Live, Kept, KeptWork
<1>5. CASE Looks(n) \/ Bulks(n) \/ Writes(n)
  BY <1>5, Databases DEF Looks, Bulks, Writes
<1>6. CASE Locks(n) \/ Begins(n) \/ Readies(n) \/ Selects(n)
  BY <1>3, <1>6 DEF Locks, Begins, Readies, Selects, Kept, KeptWork
<1>7. CASE Executes(n)
  BY <1>3, <1>7, ReadyIs DEF Executes
<1>8. CASE Batches(n)
  BY <1>2, <1>8 DEF Batches, StepFits, Live
<1>9. CASE Commits(n)
  BY <1>9 DEF Commits
<1>10. CASE Rolls(n)
  BY <1>2, <1>3, <1>10 DEF Rolls, StepFits, Kept, KeptWork
<1>11. CASE Answers(n)
  BY <1>3, <1>11 DEF Answers, IsSave
<1> QED
  BY <1>4, <1>5, <1>6, <1>7, <1>8, <1>9, <1>10, <1>11 DEF Kinds

\* Of the operations on a row, one at most lands it.
LEMMA OneLands ==
  ASSUME IInv, NEW n \in DOMAIN calls, IsSave(n), NEW a \in calls[n].work, NEW b \in calls[n].work,
         a.table = b.table, Lands(n, a), Lands(n, b)
  PROVE  a = b
<1>1. WorkFits(n)
  BY DEF IInv, EachFits
<1>2. a \in OpSet /\ b \in OpSet
  BY CallIs DEF IInv
<1>3. a.do # "replace" /\ b.do # "replace"
  BY <1>2 DEF OpSet
<1>4. /\ a.do = Do(n, a.table) \/ (Do(n, a.table) = "replace" /\ a.do \in {"remove", "add"})
      /\ b.do = Do(n, a.table) \/ (Do(n, a.table) = "replace" /\ b.do \in {"remove", "add"})
  BY <1>1 DEF WorkFits
<1>5. /\ a.do # "remove" \/ Do(n, a.table) = "remove"
      /\ b.do # "remove" \/ Do(n, a.table) = "remove"
  BY DEF Lands, Do
<1>6. a.do = b.do
  BY <1>3, <1>4, <1>5
<1> QED
  BY <1>1, <1>6 DEF WorkFits

\* What comes first has no removal of its own row before it.
LEMMA NoRemovalLeft ==
  ASSUME IInv, NEW n \in DOMAIN calls, NEW op \in Batch(n), op.do = "add", backend # "d1"
  PROVE  ~Has(n, op.table, "remove") /\ Has(n, op.table, "add")
<1>1. op \in calls[n].work /\ \A other \in calls[n].work : ~Precedes(other, op)
  BY DEF Batch, First
<1>2. \A other \in calls[n].work : other.table = op.table /\ other.do = "remove" => Precedes(other, op)
  BY <1>1 DEF IInv, EachFits, WorkFits
<1> QED
  BY <1>1, <1>2 DEF Has

\* What is carried out, of what is left, is what lands.
LEMMA LandsAsDone ==
  ASSUME IInv, NEW n \in DOMAIN calls, IsSave(n), backend \notin Transactional, Live(n),
         NEW done \in SUBSET Batch(n),
         Turned(n), calls'[n].work = calls[n].work \ done,
         calls'[n].landed = calls[n].landed \cup {op.table : op \in {o \in done : Lands(n, o)}}
  PROVE  \A t \in Touched(n) :
           /\ t \in calls'[n].landed <=> ~ \E op \in calls'[n].work : op.table = t /\ Lands(n, op)
           /\ Do(n, t) = "replace" /\ Has(n, t, "remove")' => t \notin calls'[n].landed
<1> TAKE t \in Touched(n)
<1>1. /\ t \in calls[n].landed <=> ~ \E op \in calls[n].work : op.table = t /\ Lands(n, op)
      /\ Do(n, t) = "replace" /\ Has(n, t, "remove") => t \notin calls[n].landed
  BY DEF IInv, EachLands, OneByOne
<1>2. Has(n, t, "remove")' => Has(n, t, "remove")
  BY DEF Has
<1>3. CASE \E op \in done : op.table = t /\ Lands(n, op)
  <2>1. PICK op \in done : op.table = t /\ Lands(n, op)
    BY <1>3
  <2>2. t \in calls'[n].landed /\ op \in calls[n].work
    BY <2>1 DEF Batch, First
  <2>3. ASSUME NEW other \in calls'[n].work, other.table = t, Lands(n, other) PROVE FALSE
    BY <2>1, <2>2, <2>3, OneLands
  <2>4. ASSUME Do(n, t) = "replace", Has(n, t, "remove") PROVE FALSE
    <3>1. op.do # "remove" /\ op.do # "replace"
      BY <2>1, <2>2, <2>4, CallIs DEF Lands, Do, OpSet, IInv
    <3>2. op.do = "add"
      BY <2>1, <2>2, <2>4, <3>1 DEF IInv, EachFits, WorkFits
    <3> QED
      BY <2>1, <2>4, <3>2, NoRemovalLeft, Databases
  <2> QED
    BY <1>2, <2>2, <2>3, <2>4
<1>4. CASE ~ \E op \in done : op.table = t /\ Lands(n, op)
  <2>1. t \in calls'[n].landed <=> t \in calls[n].landed
    BY <1>4
  <2>2. (\E op \in calls'[n].work : op.table = t /\ Lands(n, op)) <=> \E op \in calls[n].work : op.table = t /\ Lands(n, op)
    BY <1>4
  <2> QED
    BY <1>1, <1>2, <2>1, <2>2
<1> QED
  BY <1>3, <1>4

LEMMA OneByOneNext ==
  ASSUME IInv, NEW n \in DOMAIN calls, Turned(n), Kinds(n)
  PROVE  OneByOne(n)'
<1>1. /\ Touched(n)' = Touched(n) /\ backend' = backend /\ (IsSave(n)' <=> IsSave(n))
      /\ (\A op : Lands(n, op)' <=> Lands(n, op)) /\ (\A t : Do(n, t)' = Do(n, t))
  BY SameCall DEF Turned, Lands
<1>2. OneByOne(n) /\ StepFits(n) /\ calls[n].landed \subseteq Touched(n)
  BY DEF IInv, EachLands, EachFits, Sized
<1> DEFINE Landing == \A t \in Touched(n) :
             /\ t \in calls'[n].landed <=> ~ \E op \in calls'[n].work : op.table = t /\ Lands(n, op)
             /\ Do(n, t) = "replace" /\ Has(n, t, "remove")' => t \notin calls'[n].landed
<1> SUFFICES ASSUME backend \notin Transactional, IsSave(n)
             PROVE  /\ Live(n)' => Landing
                    /\ (calls'[n].step \in {"answer", "done"} /\ calls'[n].cause = "none") => calls'[n].landed = Touched(n)
  BY <1>1 DEF OneByOne, Ended
<1>3. /\ Live(n) => \A t \in Touched(n) :
           /\ t \in calls[n].landed <=> ~ \E op \in calls[n].work : op.table = t /\ Lands(n, op)
           /\ Do(n, t) = "replace" /\ Has(n, t, "remove") => t \notin calls[n].landed
      /\ (calls[n].step \in {"answer", "done"} /\ calls[n].cause = "none") => calls[n].landed = Touched(n)
  BY <1>2 DEF OneByOne, Ended
<1>4. CASE Fails(n)
  BY <1>4, Databases DEF Fails, Live
<1>5. CASE Throws(n)
  BY <1>5 DEF Throws, Live
<1>6. CASE Looks(n)
  BY <1>3, <1>6 DEF Looks, Live, KeptWork, Has
<1>7. CASE Begins(n)
  BY <1>3, <1>7 DEF Begins, Live, Has
<1>8. CASE Readies(n)
  BY <1>3, <1>8 DEF Readies, Live, Kept, KeptWork, Has
<1>9. CASE Selects(n)
  BY <1>9 DEF Selects
<1>10. CASE Locks(n) \/ Executes(n) \/ Batches(n) \/ Commits(n)
  BY <1>10, Databases DEF Locks, Executes, Batches, Commits
<1>11. CASE Rolls(n)
  BY <1>2, <1>11, Databases DEF Rolls, StepFits
<1>12. CASE Answers(n)
  <2>1. CASE calls[n].step = "answer"
    BY <1>3, <1>12, <2>1 DEF Answers, Live
  <2>2. CASE calls[n].step = "run" /\ calls[n].work = {}
    BY <1>2, <1>3, <1>12, <2>2 DEF Answers, Live
  <2> QED
    BY <1>12, <2>1, <2>2 DEF Answers
<1>13. CASE Writes(n)
  <2>1. Op(n) \in Batch(n) /\ Live(n) /\ calls'[n].step = "run"
    BY <1>13, ReadyIs, OpTable DEF Writes, Live
  <2>2. /\ calls'[n].work = calls[n].work \ {Op(n)}
        /\ calls'[n].landed = calls[n].landed \cup {op.table : op \in {o \in {Op(n)} : Lands(n, o)}}
    BY <1>13 DEF Writes
  <2>3. {Op(n)} \in SUBSET Batch(n)
    BY <2>1
  <2>4. Landing
    BY <2>1, <2>2, <2>3, LandsAsDone
  <2> QED
    BY <2>1, <2>4
<1>14. CASE Bulks(n)
  <2>1. Live(n)
    BY <1>14 DEF Bulks, Live
  <2>2. CASE Good(n) = Batch(n)
    <3>1. /\ calls'[n].work = calls[n].work \ Batch(n) /\ calls'[n].step = "run"
          /\ calls'[n].landed = calls[n].landed \cup {op.table : op \in {o \in Batch(n) : Lands(n, o)}}
      BY <1>14, <2>2 DEF Bulks
    <3>2. Landing
      BY <2>1, <3>1, LandsAsDone
    <3> QED
      BY <3>1, <3>2
  <2>3. CASE Good(n) # Batch(n)
    BY <1>14, <2>3 DEF Bulks, Live
  <2> QED
    BY <2>2, <2>3
<1> QED
  BY <1>4, <1>5, <1>6, <1>7, <1>8, <1>9, <1>10, <1>11, <1>12, <1>13, <1>14 DEF Kinds

LEMMA ArrivalLands ==
  ASSUME NEW p, NEW k, Arrives(calls'[k], p)
  PROVE  AllOrNothing(k)' /\ OneByOne(k)'
<1>1. /\ calls'[k].step = "start" /\ calls'[k].landed = {}
      /\ \A t \in DOMAIN calls'[k].changes :
           \E op \in calls'[k].work : op.table = t /\ (op.do # "remove" \/ calls'[k].changes[t].do = "remove")
  BY DEF Arrives
<1>2. AllOrNothing(k)'
  BY <1>1 DEF AllOrNothing, Ended
<1>3. OneByOne(k)'
  BY <1>1 DEF OneByOne, Ended, Touched, Lands
<1> QED
  BY <1>2, <1>3

LEMMA EachLandsNext ==
  ASSUME IInv, Next
  PROVE  EachLands'
<1>1. CASE \E p \in Plugins : Asks(p)
  <2>1. PICK p \in Plugins : Asks(p)
    BY <1>1
  <2> SUFFICES ASSUME NEW m \in DOMAIN calls' PROVE AllOrNothing(m)' /\ OneByOne(m)'
    BY DEF EachLands
  <2>2. CASE m \in DOMAIN calls
    BY <2>1, <2>2, LandsKept DEF Asks, IInv, EachLands
  <2>3. CASE m = Len(calls) + 1
    BY <2>1, <2>3, ArrivalLands DEF Asks
  <2> QED
    BY <2>1, <2>2, <2>3 DEF Asks
<1>2. CASE \E n \in DOMAIN calls : Turned(n) /\ Kinds(n)
  <2>1. PICK n \in DOMAIN calls : Turned(n) /\ Kinds(n)
    BY <1>2
  <2> SUFFICES ASSUME NEW m \in DOMAIN calls' PROVE AllOrNothing(m)' /\ OneByOne(m)'
    BY DEF EachLands
  <2>2. m \in DOMAIN calls /\ backend' = backend
    BY <2>1 DEF Turned
  <2>3. CASE m # n
    BY <2>1, <2>2, <2>3, LandsKept DEF Turned, IInv, EachLands
  <2>4. CASE m = n
    BY <2>1, <2>4, AllOrNothingNext, OneByOneNext
  <2> QED
    BY <2>3, <2>4
<1> QED
  BY <1>1, <1>2, NextIs

-----------------------------------------------------------------------------
(* Inside a transaction.                                                   *)

\* A table that a step leaves alone.
LEMMA PlacedKept ==
  ASSUME NEW m, NEW t,
         calls'[m].changes = calls[m].changes, calls'[m].expected = calls[m].expected, backend' = backend,
         \A op : op.table = t => (op \in calls'[m].work <=> op \in calls[m].work),
         t \in DOMAIN calls'[m].view <=> t \in DOMAIN calls[m].view,
         InView(m, t) => calls'[m].view[t] = calls[m].view[t] /\ rows'[t] = rows[t],
         t \in calls[m].missed => t \in calls'[m].missed,
         Placed(m, t)
  PROVE  Placed(m, t)'
<1>1. /\ Do(m, t)' = Do(m, t) /\ (Minds(m, t)' <=> Minds(m, t)) /\ (InView(m, t)' <=> InView(m, t))
      /\ \A do : Has(m, t, do)' <=> Has(m, t, do)
      /\ Lacks(m, t)' <=> Lacks(m, t)
      /\ \A row : Shows(m, t, row)' <=> Shows(m, t, row)
  BY DEF Do, Minds, InView, Has, Lacks, Shows
<1>2. Shows(m, t, m) => InView(m, t)
  BY DEF Shows
<1>3. AddAt(m, t) => AddAt(m, t)'
  BY <1>1, <1>2 DEF AddAt
<1>4. RemoveAt(m, t) => RemoveAt(m, t)'
  BY <1>1 DEF RemoveAt
<1>5. UpdateAt(m, t) => UpdateAt(m, t)'
  BY <1>1, <1>2 DEF UpdateAt
<1>6. ReplaceAt(m, t) => ReplaceAt(m, t)'
  BY <1>1 DEF ReplaceAt
<1> QED
  BY <1>1, <1>3, <1>4, <1>5, <1>6 DEF Placed

LEMMA DoIs ==
  ASSUME Typed, NEW n \in DOMAIN calls, NEW t \in Touched(n)
  PROVE  Do(n, t) \in {"add", "replace", "remove", "update"}
<1>1. calls[n].changes \in ChangeMaps
  BY CallIs DEF Call
<1> QED
  BY <1>1 DEF ChangeMaps, Touched, Do

\* An operation that is left has not been carried out.
LEMMA NotYetSeen ==
  ASSUME IInv, NEW n \in DOMAIN calls, NEW op \in calls[n].work, IsSave(n), op.do # "add",
         Placed(n, op.table)
  PROVE  ~InView(n, op.table)
<1>1. /\ WorkFits(n) /\ op.table \in Touched(n)
      /\ op.do = Do(n, op.table) \/ (Do(n, op.table) = "replace" /\ op.do \in {"remove", "add"})
  BY DEF IInv, EachFits, WorkFits
<1>2. ~Lacks(n, op.table) /\ Has(n, op.table, op.do)
  BY DEF Lacks, Has
<1>3. CASE Do(n, op.table) = "remove"
  BY <1>2, <1>3 DEF Placed, RemoveAt
<1>4. CASE Do(n, op.table) = "update"
  BY <1>2, <1>4 DEF Placed, UpdateAt
<1>5. CASE Do(n, op.table) = "replace"
  <2>1. op.do # "replace"
    BY CallIs DEF IInv, OpSet
  <2>2. op.do = "remove"
    BY <1>1, <1>5, <2>1
  <2> QED
    BY <1>2, <1>5, <2>2 DEF Placed, ReplaceAt
<1>6. Do(n, op.table) \in {"add", "replace", "remove", "update"}
  BY <1>1, DoIs DEF IInv
<1> QED
  BY <1>1, <1>3, <1>4, <1>5, <1>6

\* No other operation on the row is left once the last one is carried out.
LEMMA LastOfRow ==
  ASSUME IInv, NEW n \in DOMAIN calls, IsSave(n), NEW op \in calls[n].work,
         op.do # "remove" \/ Do(n, op.table) # "replace",
         Do(n, op.table) = "replace" => ~Has(n, op.table, "remove"),
         Turned(n), calls'[n].work = calls[n].work \ {op}
  PROVE  Lacks(n, op.table)'
<1>1. ASSUME NEW other \in calls'[n].work, other.table = op.table PROVE FALSE
  <2>1. other \in calls[n].work /\ other # op /\ WorkFits(n) /\ other \in OpSet /\ op \in OpSet
    BY <1>1, CallIs DEF IInv, EachFits
  <2>2. other.do # "replace" /\ op.do # "replace"
    BY <2>1 DEF OpSet
  <2>3. /\ op.do = Do(n, op.table) \/ (Do(n, op.table) = "replace" /\ op.do \in {"remove", "add"})
        /\ other.do = Do(n, op.table) \/ (Do(n, op.table) = "replace" /\ other.do \in {"remove", "add"})
    BY <1>1, <2>1 DEF WorkFits
  <2>4. Do(n, op.table) = "replace" => other.do # "remove"
    BY <1>1, <2>1 DEF Has
  <2>5. other.do = op.do
    BY <2>2, <2>3, <2>4
  <2> QED
    BY <1>1, <2>1, <2>5 DEF WorkFits
<1> QED
  BY <1>1 DEF Lacks

\* The row a statement finds is the committed one, when it may write it.
LEMMA FoundIsRow ==
  ASSUME IInv, NEW n \in DOMAIN calls, Executes(n), ~Misses(n, Op(n)), ~InView(n, Op(n).table)
  PROVE  Found(n, Op(n).table) = rows[Op(n).table]
<1> DEFINE t == Op(n).table
<1>1. t \notin DOMAIN calls[n].view
  BY DEF InView
<1>2. CASE backend # "mongo"
  BY <1>1, <1>2 DEF Found
<1>3. CASE backend = "mongo"
  <2>1. ~Contended(n, Op(n)) /\ t \in Tables
    BY ReadyIs DEF Executes, Cause
  <2>2. owner[t] \in {None, n} /\ (owner[t] = None => rows[t] = calls[n].seen[t])
    BY <1>3, <2>1 DEF Contended
  <2>3. owner[t] # n
    BY <1>3, <2>1, CallIs DEF IInv, Ownership, Owned
  <2> QED
    BY <1>1, <1>3, <2>2, <2>3 DEF Found
<1> QED
  BY <1>2, <1>3

\* The row of the operation that is carried out.
LEMMA PlacedNext ==
  ASSUME IInv, NEW n \in DOMAIN calls, Turned(n), Executes(n),
         NEW op, op = Op(n), NEW t, t = op.table, NEW row, row = Written(n, op)
  PROVE  Placed(n, t)'
<1>1. /\ IsSave(n) /\ calls[n].step = "run" /\ calls[n].work # {} /\ backend \in Locking /\ backend # "d1"
      /\ op \in calls[n].work /\ op \in OpSet /\ t \in Tables /\ t \in Touched(n)
      /\ Cause(n) = "none" /\ rows' = rows /\ calls'[n].work = calls[n].work \ {op}
      /\ backend' = backend
  BY ReadyIs, Databases DEF Executes, Turned
<1>2. Placed(n, t) /\ WorkFits(n) /\ ChangesFit(n)
  BY <1>1 DEF IInv, EachWorks, Progress, EachFits, Live
<1>3. Do(n, t)' = Do(n, t) /\ (Minds(n, t)' <=> Minds(n, t)) /\ calls'[n].expected = calls[n].expected
  BY <1>1, SameCall DEF Turned, Minds
<1>4. /\ op.do \in {"remove", "update", "add"}
      /\ op.do = Do(n, t) \/ (Do(n, t) = "replace" /\ op.do \in {"remove", "add"})
      /\ op.checked = calls[n].changes[t].checked
      /\ Do(n, t) \in {"add", "replace", "remove", "update"}
  BY <1>1, <1>2, DoIs DEF WorkFits, OpSet, IInv
<1>5. Refused(n, op) = "none"
  BY <1>1 DEF Cause
<1>6. ~Lacks(n, t) /\ Has(n, t, op.do)
  BY <1>1 DEF Lacks, Has
<1>7. Misses(n, op) => calls'[n].view = calls[n].view /\ t \in calls'[n].missed
  BY DEF Executes
<1>8. ~Misses(n, op) => Shows(n, t, row)'
  BY DEF Executes, Shows, InView
<1>9. CASE op.do = "remove" /\ Do(n, t) # "replace"
  <2>1. Lacks(n, t)'
    BY <1>1, <1>9, LastOfRow
  <2>2. ~InView(n, t) /\ Do(n, t) = "remove"
    BY <1>1, <1>2, <1>4, <1>9, NotYetSeen
  <2>3. Misses(n, op) => ~InView(n, t)'
    BY <1>7, <2>2 DEF InView
  <2>4. row = NoRow
    BY <1>9 DEF Written
  <2>5. RemoveAt(n, t)'
    BY <1>7, <1>8, <2>1, <2>3, <2>4 DEF RemoveAt
  <2> QED
    BY <1>3, <2>2, <2>5 DEF Placed
<1>10. CASE op.do = "remove" /\ Do(n, t) = "replace"
  <2>1. ~InView(n, t) /\ Has(n, t, "add")
    BY <1>2, <1>6, <1>10 DEF Placed, ReplaceAt
  <2>2. Has(n, t, "add")'
    BY <1>1, <1>10, <2>1 DEF Has
  <2>3. ~Has(n, t, "remove")'
    BY <1>1, <1>2, <1>10 DEF Has, WorkFits
  <2>4. Misses(n, op) => ~InView(n, t)'
    BY <1>7, <2>1 DEF InView
  <2>5. row = NoRow
    BY <1>10 DEF Written
  <2>6. ReplaceAt(n, t)'
    BY <1>7, <1>8, <2>2, <2>3, <2>4, <2>5 DEF ReplaceAt
  <2> QED
    BY <1>3, <1>10, <2>6 DEF Placed
<1>11. CASE op.do = "update"
  <2>1. Lacks(n, t)' /\ Do(n, t) = "update"
    BY <1>1, <1>4, <1>11, LastOfRow
  <2>2. ~InView(n, t)
    BY <1>1, <1>2, <1>11, NotYetSeen
  <2>3. Minds(n, t) => Found(n, t) = calls[n].expected[t] /\ calls[n].expected[t] # NoRow
    BY <1>1, <1>2, <1>4, <1>5, <1>11 DEF Minds, Refused, ChangesFit
  <2>4. CASE Misses(n, op)
    <3>1. ~Minds(n, t) /\ ~InView(n, t)'
      BY <1>7, <2>2, <2>3, <2>4 DEF Misses, InView
    <3> QED
      BY <1>3, <1>7, <2>1, <2>4, <3>1 DEF Placed, UpdateAt
  <2>5. CASE ~Misses(n, op)
    <3>1. row = n
      BY <1>11, <2>5 DEF Written
    <3>2. Minds(n, t) => rows[t] = calls[n].expected[t]
      BY <2>2, <2>3, <2>5, FoundIsRow
    <3> QED
      BY <1>1, <1>3, <1>8, <2>1, <2>5, <3>1, <3>2 DEF Placed, UpdateAt
  <2> QED
    BY <2>4, <2>5
<1>12. CASE op.do = "add" /\ Do(n, t) = "add"
  <2>1. Lacks(n, t)'
    BY <1>1, <1>12, LastOfRow
  <2>2. ~InView(n, t)
    BY <1>2, <1>6, <1>12 DEF Placed, AddAt
  <2>3. ~Misses(n, op) /\ row = n
    BY <1>12 DEF Misses, Written
  <2>4. Found(n, t) = NoRow
    BY <1>5, <1>12 DEF Refused
  <2>5. rows[t] = NoRow
    BY <2>2, <2>3, <2>4, FoundIsRow
  <2> QED
    BY <1>1, <1>3, <1>8, <1>12, <2>1, <2>3, <2>5 DEF Placed, AddAt
<1>13. CASE op.do = "add" /\ Do(n, t) = "replace"
  <2>1. op \in Batch(n)
    BY <1>1, OpTable
  <2>2. ~Has(n, t, "remove")
    <3>1. ASSUME NEW other \in calls[n].work, other.table = t, other.do = "remove" PROVE FALSE
      <4>1. Precedes(other, op)
        BY <1>1, <1>2, <1>13, <3>1 DEF WorkFits
      <4>2. ~Precedes(other, op)
        BY <2>1 DEF Batch, First
      <4> QED
        BY <4>1, <4>2
    <3> QED
      BY <3>1 DEF Has
  <2>3. Lacks(n, t)'
    BY <1>1, <1>13, <2>2, LastOfRow
  <2>4. ~Misses(n, op) /\ row = n
    BY <1>13 DEF Misses, Written
  <2> QED
    BY <1>3, <1>8, <1>13, <2>3, <2>4 DEF Placed, ReplaceAt
<1> QED
  BY <1>4, <1>9, <1>10, <1>11, <1>12, <1>13

\* The other calls go on as they were: what they have written is locked.
LEMMA WorksKept ==
  ASSUME IInv, NEW n \in DOMAIN calls, Turned(n), Confined(n), NEW m \in DOMAIN calls, m # n
  PROVE  Progress(m)' /\ Locked(m)' /\ Snapshot(m)'
<1>1. /\ calls'[m] = calls[m] /\ backend' = backend
      /\ Touched(m)' = Touched(m) /\ (IsSave(m)' <=> IsSave(m)) /\ (Live(m)' <=> Live(m))
      /\ (Holding(m)' <=> Holding(m)) /\ (Working(m)' <=> Working(m))
  BY DEF Turned, Touched, IsSave, Live, Holding, Working
<1>2. m # None /\ Progress(m) /\ Locked(m) /\ Snapshot(m) /\ Sized(m) /\ Touched(m) \subseteq Tables
  BY CallIs DEF IInv, EachWorks, EachFits
<1>3. \A t \in Tables : owner[t] = m => owner'[t] = m /\ rows'[t] = rows[t]
  BY <1>2 DEF Confined
<1>4. Locked(m)'
  <2>1. ASSUME IsSave(m), Live(m), NEW t \in DOMAIN calls[m].view PROVE owner'[t] = m
    <3>1. t \in Tables /\ owner[t] = m
      BY <1>2, <2>1 DEF Locked, Sized
    <3> QED
      BY <1>3, <3>1
  <2>2. ASSUME IsSave(m), Holding(m), backend = "sqlite", NEW t \in Tables PROVE owner'[t] = m
    BY <1>2, <1>3, <2>2 DEF Locked
  <2>3. ASSUME IsSave(m), Holding(m), backend = "dexie", NEW t \in Touched(m) PROVE owner'[t] = m
    BY <1>2, <1>3, <2>3 DEF Locked
  <2> QED
    BY <1>1, <2>1, <2>2, <2>3 DEF Locked
<1>5. Snapshot(m)'
  BY <1>1, <1>2 DEF Snapshot
<1>6. Progress(m)'
  <2> SUFFICES ASSUME backend \in Locking, IsSave(m), Live(m), NEW t \in Touched(m) PROVE Placed(m, t)'
    BY <1>1 DEF Progress
  <2>1. Placed(m, t)
    BY <1>2 DEF Progress
  <2>2. InView(m, t) => rows'[t] = rows[t]
    BY <1>2, <1>3 DEF Locked, InView
  <2> QED
    BY <1>1, <2>1, <2>2, PlacedKept
<1> QED
  BY <1>4, <1>5, <1>6

LEMMA ProgressNext ==
  ASSUME IInv, NEW n \in DOMAIN calls, Turned(n), Kinds(n)
  PROVE  Progress(n)'
<1>1. Touched(n)' = Touched(n) /\ backend' = backend /\ (IsSave(n)' <=> IsSave(n))
      /\ calls'[n].changes = calls[n].changes /\ calls'[n].expected = calls[n].expected
  BY SameCall DEF Turned
<1>2. Progress(n) /\ Sized(n)
  BY DEF IInv, EachWorks, EachFits
<1> SUFFICES ASSUME backend \in Locking, IsSave(n), calls'[n].step \in {"start", "tables", "run", "create", "creating", "bulk"},
                    NEW t \in Touched(n)
             PROVE  Placed(n, t)'
  BY <1>1 DEF Progress, Live
<1>3. CASE Fails(n) \/ Throws(n) \/ Batches(n) \/ Commits(n) \/ Rolls(n) \/ Answers(n)
  BY <1>3 DEF Fails, Throws, Batches, Commits, Rolls, Answers
<1>4. CASE Locks(n) \/ Readies(n)
  <2>1. /\ Live(n) /\ rows' = rows /\ calls'[n].work = calls[n].work /\ calls'[n].view = calls[n].view
        /\ calls'[n].missed = calls[n].missed
    BY <1>4 DEF Locks, Readies, Live, Kept, KeptWork
  <2>2. Placed(n, t)
    BY <1>2, <2>1 DEF Progress
  <2> QED
    BY <1>1, <2>1, <2>2, PlacedKept
<1>5. CASE Begins(n)
  <2>1. /\ Live(n) /\ rows' = rows /\ calls'[n].work = calls[n].work /\ calls'[n].view = calls[n].view
        /\ calls[n].missed = {}
    BY <1>2, <1>5 DEF Begins, Live, Waits, Sized
  <2>2. Placed(n, t)
    BY <1>2, <2>1 DEF Progress
  <2> QED
    BY <1>1, <2>1, <2>2, PlacedKept
<1>6. CASE Selects(n) \/ Writes(n) \/ Looks(n) \/ Bulks(n)
  BY <1>6, Databases DEF Selects, Writes, Looks, Bulks
<1>7. CASE Executes(n)
  <2>1. PICK op : op = Op(n)
    OBVIOUS
  <2>2. PICK u : u = op.table
    OBVIOUS
  <2>3. PICK row : row = Written(n, op)
    OBVIOUS
  <2>4. CASE t = u
    BY <1>7, <2>1, <2>2, <2>3, <2>4, PlacedNext
  <2>5. CASE t # u
    <3>1. Live(n) /\ rows' = rows /\ calls'[n].work = calls[n].work \ {op} /\ op.table # t
      BY <1>7, <2>1, <2>2, <2>5, ReadyIs DEF Executes, Live
    <3>2. /\ t \in DOMAIN calls'[n].view <=> t \in DOMAIN calls[n].view
          /\ InView(n, t) => calls'[n].view[t] = calls[n].view[t]
          /\ t \in calls[n].missed => t \in calls'[n].missed
      <4>1. CASE Misses(n, Op(n))
        BY <1>7, <4>1 DEF Executes
      <4>2. CASE ~Misses(n, Op(n))
        BY <1>7, <2>1, <2>2, <2>5, <4>2 DEF Executes, InView
      <4> QED
        BY <4>1, <4>2
    <3>3. Placed(n, t)
      BY <1>2, <3>1 DEF Progress
    <3> QED
      BY <1>1, <3>1, <3>2, <3>3, PlacedKept
  <2> QED
    BY <2>4, <2>5
<1> QED
  BY <1>3, <1>4, <1>5, <1>6, <1>7 DEF Kinds

LEMMA LockedNext ==
  ASSUME IInv, NEW n \in DOMAIN calls, Turned(n), Kinds(n)
  PROVE  Locked(n)'
<1>1. Touched(n)' = Touched(n) /\ backend' = backend /\ (IsSave(n)' <=> IsSave(n))
  BY SameCall DEF Turned
<1>2. Locked(n) /\ Sized(n) /\ StepFits(n) /\ Touched(n) \subseteq Tables
  BY CallIs DEF IInv, EachWorks, EachFits
<1> SUFFICES ASSUME IsSave(n)
             PROVE  /\ Live(n)' => \A t \in DOMAIN calls'[n].view : owner'[t] = n
                    /\ (Holding(n)' /\ backend = "sqlite") => \A t \in Tables : owner'[t] = n
                    /\ (Holding(n)' /\ backend = "dexie")  => \A t \in Touched(n) : owner'[t] = n
  BY <1>1 DEF Locked
<1>3. CASE Throws(n) \/ Batches(n) \/ Commits(n) \/ Rolls(n) \/ Answers(n)
  BY <1>3 DEF Throws, Batches, Commits, Rolls, Answers, Live, Holding
<1>4. CASE Fails(n)
  BY <1>2, <1>4 DEF Fails, Live, Holding, Waits, Locked
<1>5. CASE Locks(n)
  BY <1>2, <1>5 DEF Locks, Sized, Kept, KeptWork
<1>6. CASE Begins(n)
  BY <1>2, <1>6 DEF Begins, Sized, Holding
<1>7. CASE Readies(n)
  BY <1>2, <1>7 DEF Readies, StepFits, Locked, Live, Holding, Kept, KeptWork
<1>8. CASE Selects(n)
  BY <1>8 DEF Selects
<1>9. CASE Writes(n) \/ Looks(n) \/ Bulks(n)
  <2>1. DOMAIN calls'[n].view = {} /\ backend \notin {"sqlite", "dexie"}
    BY <1>2, <1>9, Databases DEF Writes, Looks, Bulks, KeptWork, Sized
  <2> QED
    BY <2>1
<1>10. CASE Executes(n)
  <2>1. /\ calls[n].step = "run" /\ Op(n).table \in Tables
    BY <1>10, ReadyIs DEF Executes
  <2>2. CASE Misses(n, Op(n))
    BY <1>2, <1>10, <2>1, <2>2 DEF Executes, Locked, Live, Holding
  <2>3. CASE ~Misses(n, Op(n))
    <3>1. /\ DOMAIN calls'[n].view = DOMAIN calls[n].view \cup {Op(n).table}
          /\ \A t \in Tables : owner'[t] = IF t = Op(n).table THEN n ELSE owner[t]
      BY <1>10, <2>3 DEF Executes
    <3>2. \A t \in DOMAIN calls[n].view : t \in Tables
      BY <1>2 DEF Sized
    <3> QED
      BY <1>2, <2>1, <3>1, <3>2 DEF Locked, Live, Holding
  <2> QED
    BY <2>2, <2>3
<1> QED
  BY <1>3, <1>4, <1>5, <1>6, <1>7, <1>8, <1>9, <1>10 DEF Kinds

LEMMA SnapshotNext ==
  ASSUME IInv, NEW n \in DOMAIN calls, Turned(n), Kinds(n)
  PROVE  Snapshot(n)'
<1>1. Touched(n)' = Touched(n) /\ backend' = backend /\ (IsSave(n)' <=> IsSave(n))
  BY SameCall DEF Turned
<1>2. Snapshot(n)
  BY DEF IInv, EachWorks
<1> SUFFICES ASSUME backend = "mongo", IsSave(n), Working(n)', NEW t \in Touched(n)
             PROVE  calls'[n].seen[t] = NoRow <=> t \in calls'[n].missed
  BY <1>1 DEF Snapshot
<1>3. CASE Fails(n) \/ Throws(n) \/ Batches(n) \/ Commits(n) \/ Rolls(n) \/ Answers(n)
  BY <1>3 DEF Fails, Throws, Batches, Commits, Rolls, Answers, Working
<1>4. CASE Locks(n) \/ Selects(n) \/ Writes(n) \/ Looks(n) \/ Bulks(n)
  BY <1>4 DEF Locks, Selects, Writes, Looks, Bulks
<1>5. CASE Begins(n)
  BY <1>5 DEF Begins
<1>6. CASE Readies(n)
  BY <1>2, <1>6 DEF Readies, Snapshot, Working, Kept, KeptWork
<1>7. CASE Executes(n)
  <2>1. Working(n) /\ Live(n) /\ calls'[n].seen = calls[n].seen /\ Op(n) \in calls[n].work /\ Op(n).table \in Touched(n)
        /\ backend \in Locking
    BY <1>7, ReadyIs DEF Executes, Working, Live
  <2>2. calls[n].seen[t] = NoRow <=> t \in calls[n].missed
    BY <1>2, <2>1 DEF Snapshot
  <2>3. CASE Misses(n, Op(n))
    <3>1. Op(n).do # "add" /\ Found(n, Op(n).table) = NoRow
      BY <2>3 DEF Misses
    <3>2. Placed(n, Op(n).table)
      BY <2>1 DEF IInv, EachWorks, Progress
    <3>3. ~InView(n, Op(n).table)
      BY <2>1, <3>1, <3>2, NotYetSeen
    <3>4. calls[n].seen[Op(n).table] = NoRow
      BY <3>1, <3>3 DEF Found, InView
    <3> QED
      BY <1>7, <2>1, <2>2, <2>3, <3>4 DEF Executes
  <2>4. CASE ~Misses(n, Op(n))
    BY <1>7, <2>1, <2>2, <2>4 DEF Executes
  <2> QED
    BY <2>3, <2>4
<1> QED
  BY <1>3, <1>4, <1>5, <1>6, <1>7 DEF Kinds

LEMMA ArrivalWorks ==
  ASSUME NEW p, NEW k, Arrives(calls'[k], p)
  PROVE  Progress(k)' /\ Locked(k)' /\ Snapshot(k)'
<1>1. /\ calls'[k].step = "start" /\ DOMAIN calls'[k].view = {}
      /\ \A t \in DOMAIN calls'[k].changes :
           /\ calls'[k].changes[t].do # "replace" =>
                \E op \in calls'[k].work : op.table = t /\ op.do = calls'[k].changes[t].do
           /\ calls'[k].changes[t].do = "replace" =>
                /\ \E op \in calls'[k].work : op.table = t /\ op.do = "remove"
                /\ \E op \in calls'[k].work : op.table = t /\ op.do = "add"
  BY DEF Arrives
<1>2. Progress(k)'
  BY <1>1 DEF Progress, Placed, AddAt, RemoveAt, UpdateAt, ReplaceAt, Has, InView, Do, Touched
<1>3. Locked(k)' /\ Snapshot(k)'
  BY <1>1 DEF Locked, Snapshot, Holding, Working
<1> QED
  BY <1>2, <1>3

LEMMA WorksSame ==
  ASSUME IInv, NEW m \in DOMAIN calls, calls'[m] = calls[m], backend' = backend, Waits
  PROVE  Progress(m)' /\ Locked(m)' /\ Snapshot(m)'
<1>1. /\ Touched(m)' = Touched(m) /\ (IsSave(m)' <=> IsSave(m)) /\ (Live(m)' <=> Live(m))
      /\ (Holding(m)' <=> Holding(m)) /\ (Working(m)' <=> Working(m))
  BY DEF Touched, IsSave, Live, Holding, Working
<1>2. Progress(m) /\ Locked(m) /\ Snapshot(m)
  BY DEF IInv, EachWorks
<1>3. Locked(m)' /\ Snapshot(m)'
  BY <1>1, <1>2 DEF Locked, Snapshot, Waits
<1>4. Progress(m)'
  <2> SUFFICES ASSUME backend \in Locking, IsSave(m), Live(m), NEW t \in Touched(m) PROVE Placed(m, t)'
    BY <1>1 DEF Progress
  <2>1. Placed(m, t) /\ rows' = rows
    BY <1>2 DEF Progress, Waits
  <2> QED
    BY <2>1, PlacedKept
<1> QED
  BY <1>3, <1>4

LEMMA EachWorksNext ==
  ASSUME IInv, Next
  PROVE  EachWorks'
<1>1. CASE \E p \in Plugins : Asks(p)
  <2>1. PICK p \in Plugins : Asks(p)
    BY <1>1
  <2> SUFFICES ASSUME NEW m \in DOMAIN calls' PROVE Progress(m)' /\ Locked(m)' /\ Snapshot(m)'
    BY DEF EachWorks
  <2>2. CASE m \in DOMAIN calls
    BY <2>1, <2>2, WorksSame DEF Asks
  <2>3. CASE m = Len(calls) + 1
    BY <2>1, <2>3, ArrivalWorks DEF Asks
  <2> QED
    BY <2>1, <2>2, <2>3 DEF Asks
<1>2. CASE \E n \in DOMAIN calls : Turned(n) /\ Kinds(n)
  <2>1. PICK n \in DOMAIN calls : Turned(n) /\ Kinds(n)
    BY <1>2
  <2> SUFFICES ASSUME NEW m \in DOMAIN calls' PROVE Progress(m)' /\ Locked(m)' /\ Snapshot(m)'
    BY DEF EachWorks
  <2>2. m \in DOMAIN calls
    BY <2>1 DEF Turned
  <2>3. CASE m # n
    BY <2>1, <2>2, <2>3, WorksKept, Confines
  <2>4. CASE m = n
    BY <2>1, <2>4, ProgressNext, LockedNext, SnapshotNext
  <2> QED
    BY <2>3, <2>4
<1> QED
  BY <1>1, <1>2, NextIs

-----------------------------------------------------------------------------
(* Who holds what.                                                         *)

\* The statement a call is at depends on its work alone.
LEMMA SameOp ==
  ASSUME NEW m, calls'[m].work = calls[m].work
  PROVE  Op(m)' = Op(m)
BY DEF Op, Batch, First, Precedes

LEMMA OwnershipKept ==
  ASSUME IInv, NEW t \in Tables, NEW m \in DOMAIN calls, m \in DOMAIN calls', calls'[m] = calls[m],
         backend' = backend
  PROVE  /\ (owner[t] = m /\ owner'[t] = m) => Owned(t)'
         /\ (creator[t] = m /\ creator'[t] = m) => Creating(t)'
<1>1. Op(m)' = Op(m)
  BY SameOp
<1>2. /\ Touched(m)' = Touched(m) /\ (IsSave(m)' <=> IsSave(m)) /\ (Holding(m)' <=> Holding(m))
      /\ (InView(m, t)' <=> InView(m, t))
  BY DEF Touched, IsSave, Holding, InView
<1>3. m # None /\ Owned(t) /\ Creating(t)
  BY CallIs DEF IInv, Ownership
<1>4. ASSUME owner[t] = m, owner'[t] = m PROVE Owned(t)'
  BY <1>2, <1>3, <1>4 DEF Owned, InView, Holding, IsSave, Touched
<1>5. ASSUME creator[t] = m, creator'[t] = m PROVE Creating(t)'
  <2>1. /\ backend = "postgres"
        /\ IF IsSave(m) THEN t \in calls[m].created /\ Holding(m)
                        ELSE calls[m].step = "creating" /\ Op(m).table = t
    BY <1>3, <1>5 DEF Creating
  <2>2. CASE IsSave(m)
    BY <1>2, <1>5, <2>1, <2>2 DEF Creating, IsSave, Touched, Holding
  <2>3. CASE ~IsSave(m)
    <3>1. ~IsSave(m)' /\ calls'[m].step = "creating" /\ Op(m)'.table = t
      BY <1>1, <1>2, <2>1, <2>3
    <3> QED
      BY <1>5, <2>1, <3>1 DEF Creating, IsSave, Touched
  <2> QED
    BY <2>2, <2>3
<1> QED
  BY <1>4, <1>5

LEMMA OwnedNext ==
  ASSUME IInv, NEW n \in DOMAIN calls, Turned(n), Kinds(n), NEW t \in Tables, owner'[t] = n
  PROVE  /\ backend \in Locking /\ IsSave(n) /\ Holding(n)'
         /\ backend = "sqlite" \/ t \in Touched(n)
         /\ backend = "mongo" => InView(n, t)'
<1>1. /\ n # None
      /\ owner[t] = n =>
           /\ backend \in Locking /\ IsSave(n) /\ Holding(n)
           /\ backend = "sqlite" \/ t \in Touched(n)
           /\ backend = "mongo" => InView(n, t)
  BY CallIs DEF IInv, Ownership, Owned
<1>2. CASE Fails(n)
  BY <1>1, <1>2 DEF Fails, Waits, Holding, Live, Kept, KeptWork, InView
<1>3. CASE Throws(n) \/ Begins(n)
  BY <1>1, <1>3 DEF Throws, Begins, Waits, Holding
<1>4. CASE Locks(n)
  BY <1>1, <1>4, Databases DEF Locks, Holding
<1>5. CASE Readies(n)
  BY <1>1, <1>5 DEF Readies, Holding, Kept, KeptWork, InView
<1>6. CASE Selects(n)
  BY <1>1, <1>6 DEF Selects, Waits
<1>7. CASE Executes(n)
  <2>1. backend \in Locking /\ IsSave(n) /\ Holding(n)' /\ Op(n).table \in Touched(n)
    BY <1>7, ReadyIs DEF Executes, Holding
  <2>2. CASE Misses(n, Op(n))
    BY <1>1, <1>7, <2>1, <2>2 DEF Executes, InView
  <2>3. CASE ~Misses(n, Op(n))
    <3>1. /\ DOMAIN calls'[n].view = DOMAIN calls[n].view \cup {Op(n).table}
          /\ owner'[t] = IF t = Op(n).table THEN n ELSE owner[t]
      BY <1>7, <2>3 DEF Executes
    <3> QED
      BY <1>1, <2>1, <3>1 DEF InView
  <2> QED
    BY <2>2, <2>3
<1>8. CASE Writes(n) \/ Looks(n) \/ Bulks(n) \/ Batches(n)
  <2>1. backend \notin Locking /\ owner' = owner
    BY <1>8, Databases DEF Writes, Looks, Bulks, Batches, Waits
  <2> QED
    BY <1>1, <2>1
<1>9. CASE Commits(n) \/ Rolls(n)
  BY <1>1, <1>9 DEF Commits, Rolls
<1>10. CASE Answers(n)
  BY <1>1, <1>10, Databases DEF Answers, Waits, Holding
<1> QED
  BY <1>2, <1>3, <1>4, <1>5, <1>6, <1>7, <1>8, <1>9, <1>10 DEF Kinds

LEMMA CreatingNext ==
  ASSUME IInv, NEW n \in DOMAIN calls, Turned(n), Kinds(n), NEW t \in Tables, creator'[t] = n
  PROVE  /\ backend = "postgres"
         /\ IF IsSave(n) THEN t \in calls'[n].created /\ Holding(n)'
                         ELSE calls'[n].step = "creating" /\ Op(n)'.table = t
<1>1. /\ n # None
      /\ creator[t] = n =>
           /\ backend = "postgres"
           /\ IF IsSave(n) THEN t \in calls[n].created /\ Holding(n)
                           ELSE calls[n].step = "creating" /\ Op(n).table = t
  BY CallIs DEF IInv, Ownership, Creating
<1>2. CASE Fails(n)
  BY <1>1, <1>2, Databases DEF Fails, Waits, Holding, Live
<1>3. CASE Throws(n) \/ Begins(n) \/ Locks(n)
  BY <1>1, <1>3 DEF Throws, Begins, Locks, Waits, Holding
<1>4. CASE Readies(n)
  <2>1. Op(n)' = Op(n)
    BY <1>4, SameOp DEF Readies, Kept, KeptWork
  <2>2. /\ backend = "postgres"
        /\ IF IsSave(n) THEN t \in calls'[n].created ELSE calls'[n].step = "creating" /\ Op(n).table = t
    BY <1>4 DEF Readies
  <2>3. Holding(n)'
    BY <1>4 DEF Readies, Holding
  <2>4. Op(n).table = t => Op(n)'.table = t
    BY <2>1
  <2> QED
    BY <2>2, <2>3, <2>4
<1>5. CASE Selects(n)
  BY <1>1, <1>5 DEF Selects, Waits
<1>6. CASE Executes(n)
  BY <1>1, <1>6 DEF Executes, Holding
<1>7. CASE Writes(n) \/ Looks(n) \/ Bulks(n) \/ Batches(n)
  BY <1>1, <1>7 DEF Writes, Looks, Bulks, Batches, Waits
<1>8. CASE Commits(n) \/ Rolls(n)
  BY <1>1, <1>8 DEF Commits, Rolls
<1>9. CASE Answers(n)
  BY <1>1, <1>9, Databases DEF Answers, Waits, Holding
<1> QED
  BY <1>2, <1>3, <1>4, <1>5, <1>6, <1>7, <1>8, <1>9 DEF Kinds

LEMMA OwnershipNext ==
  ASSUME IInv, Next
  PROVE  Ownership'
<1> SUFFICES ASSUME NEW t \in Tables PROVE Owned(t)' /\ Creating(t)'
  BY DEF Ownership
<1>1. /\ owner[t] # None => owner[t] \in DOMAIN calls
      /\ creator[t] # None => creator[t] \in DOMAIN calls
  BY DEF IInv, Ownership, Owned, Creating
<1>2. CASE \E p \in Plugins : Asks(p)
  <2>1. PICK p \in Plugins : Asks(p)
    BY <1>2
  <2>2. owner' = owner /\ creator' = creator
    BY <2>1 DEF Asks, Waits
  <2>3. \A m \in DOMAIN calls : /\ (owner[t] = m /\ owner'[t] = m) => Owned(t)'
                                /\ (creator[t] = m /\ creator'[t] = m) => Creating(t)'
    BY <2>1, OwnershipKept DEF Asks
  <2>4. owner[t] = None => Owned(t)'
    BY <2>2 DEF Owned
  <2>5. creator[t] = None => Creating(t)'
    BY <2>2 DEF Creating
  <2> QED
    BY <1>1, <2>2, <2>3, <2>4, <2>5
<1>3. CASE \E n \in DOMAIN calls : Turned(n) /\ Kinds(n)
  <2>1. PICK n \in DOMAIN calls : Turned(n) /\ Kinds(n)
    BY <1>3
  <2>2. \A m \in DOMAIN calls : m # n => /\ (owner[t] = m /\ owner'[t] = m) => Owned(t)'
                                         /\ (creator[t] = m /\ creator'[t] = m) => Creating(t)'
    BY <2>1, OwnershipKept DEF Turned
  <2>3. /\ owner'[t] = owner[t] \/ (owner[t] \in {None, n} /\ owner'[t] \in {None, n})
        /\ creator'[t] = creator[t] \/ (creator[t] \in {None, n} /\ creator'[t] \in {None, n})
    BY <2>1, Confines DEF Confined
  <2>4. owner'[t] = None => Owned(t)'
    BY DEF Owned
  <2>5. creator'[t] = None => Creating(t)'
    BY DEF Creating
  <2>6. /\ n \in DOMAIN calls' /\ backend' = backend
        /\ Touched(n)' = Touched(n) /\ (IsSave(n)' <=> IsSave(n))
    BY <2>1, SameCall DEF Turned
  <2>7. ASSUME owner'[t] = n PROVE Owned(t)'
    <3>1. /\ backend \in Locking /\ IsSave(n) /\ Holding(n)'
          /\ backend = "sqlite" \/ t \in Touched(n)
          /\ backend = "mongo" => InView(n, t)'
      BY <2>1, <2>7, OwnedNext
    <3> QED
      BY <2>6, <2>7, <3>1 DEF Owned, Holding, InView, IsSave, Touched
  <2>8. ASSUME creator'[t] = n PROVE Creating(t)'
    <3>1. /\ backend = "postgres"
          /\ IF IsSave(n) THEN t \in calls'[n].created /\ Holding(n)'
                          ELSE calls'[n].step = "creating" /\ Op(n)'.table = t
      BY <2>1, <2>8, CreatingNext
    <3> QED
      BY <2>6, <2>8, <3>1 DEF Creating, Holding, IsSave, Touched
  <2> QED
    BY <1>1, <2>2, <2>3, <2>4, <2>5, <2>7, <2>8
<1> QED
  BY <1>2, <1>3, NextIs

-----------------------------------------------------------------------------
(* The chain of writes.                                                    *)

LEMMA TurnIs ==
  ASSUME NEW n, Turn(n), backend = "sqlite", IsSave(n)
  PROVE  \A m \in 1..n-1 : calls[m].plugin = calls[n].plugin /\ IsSave(m) => calls[m].step = "done"
BY DEF Turn, Queued

LEMMA TurnsKept ==
  ASSUME NEW m \in DOMAIN calls, DOMAIN calls \subseteq Nat, Turns(m), backend' = backend,
         \A k \in 1..m : /\ calls'[k].plugin = calls[k].plugin /\ calls'[k].changes = calls[k].changes
                         /\ calls[k].step = "done" => calls'[k].step = "done",
         calls'[m].step # "start" => calls[m].step # "start", m \in 1..m
  PROVE  Turns(m)'
<1>1. \A k \in 1..m : (IsSave(k)' <=> IsSave(k))
  BY DEF IsSave, Touched
<1> SUFFICES ASSUME backend = "sqlite", IsSave(m), calls'[m].step # "start", NEW k \in 1..m-1,
                    calls'[k].plugin = calls'[m].plugin, IsSave(k)'
             PROVE  calls'[k].step = "done"
  BY <1>1 DEF Turns
<1>2. k \in 1..m
  OBVIOUS
<1>3. calls[k].plugin = calls[m].plugin /\ IsSave(k)
  BY <1>1, <1>2
<1>4. calls[k].step = "done"
  BY <1>3 DEF Turns
<1> QED
  BY <1>2, <1>4

LEMMA NotYetDone ==
  ASSUME NEW n, Kinds(n)
  PROVE  calls[n].step # "done"
BY ReadyIs DEF Kinds, Fails, Throws, Locks, Begins, Readies, Selects, Executes, Writes, Batches, Looks, Bulks,
                Commits, Rolls, Answers, Live, Ready, Running, At

\* A save of sqlite leaves its start in its turn.
LEMMA LeavesInTurn ==
  ASSUME NEW n, Kinds(n), backend = "sqlite", IsSave(n), calls[n].step = "start"
  PROVE  Turn(n)
BY DEF Kinds, Fails, Throws, Locks, Begins, Readies, Selects, Executes, Writes, Batches, Looks, Bulks,
       Commits, Rolls, Answers, Ready, Running, At

LEMMA EachTurnNext ==
  ASSUME IInv, Next
  PROVE  EachTurn'
<1>1. DOMAIN calls = 1..Len(calls) /\ Len(calls) \in Nat
  BY LenProperties DEF IInv, Typed
<1>2. CASE \E p \in Plugins : Asks(p)
  <2>1. PICK p \in Plugins : Asks(p)
    BY <1>2
  <2> SUFFICES ASSUME NEW m \in DOMAIN calls' PROVE Turns(m)'
    BY DEF EachTurn
  <2>2. CASE m \in DOMAIN calls
    <3>1. \A k \in 1..m : calls'[k] = calls[k]
      BY <1>1, <2>1, <2>2 DEF Asks
    <3>2. Turns(m) /\ backend' = backend
      BY <2>1, <2>2 DEF Asks, IInv, EachTurn
    <3> QED
      BY <1>1, <2>2, <3>1, <3>2, TurnsKept
  <2>3. CASE m = Len(calls) + 1
    BY <2>1, <2>3 DEF Asks, Arrives, Turns
  <2> QED
    BY <2>1, <2>2, <2>3 DEF Asks
<1>3. CASE \E n \in DOMAIN calls : Turned(n) /\ Kinds(n)
  <2>1. PICK n \in DOMAIN calls : Turned(n) /\ Kinds(n)
    BY <1>3
  <2> SUFFICES ASSUME NEW m \in DOMAIN calls' PROVE Turns(m)'
    BY DEF EachTurn
  <2>2. m \in DOMAIN calls /\ backend' = backend /\ calls[n].step # "done" /\ Turns(m)
    BY <2>1, NotYetDone DEF Turned, IInv, EachTurn
  <2>3. \A k \in DOMAIN calls : /\ calls'[k].plugin = calls[k].plugin /\ calls'[k].changes = calls[k].changes
                                /\ calls[k].step = "done" => calls'[k].step = "done"
    BY <2>1, <2>2 DEF Turned
  <2>4. m \in 1..m /\ 1..m \subseteq DOMAIN calls
    BY <1>1, <2>2
  <2>5. CASE m # n \/ calls[m].step # "start"
    <3>1. calls'[m].step # "start" => calls[m].step # "start"
      BY <2>1, <2>2, <2>5 DEF Turned
    <3> QED
      BY <1>1, <2>2, <2>3, <2>4, <3>1, TurnsKept
  <2>6. CASE m = n /\ calls[m].step = "start"
    <3> SUFFICES ASSUME backend = "sqlite", IsSave(m)', NEW k \in 1..m-1,
                        calls'[k].plugin = calls'[m].plugin, IsSave(k)'
                 PROVE  calls'[k].step = "done"
      BY <2>2 DEF Turns
    <3>1. k \in DOMAIN calls /\ k # n
      BY <1>1, <2>2, <2>6
    <3>2. IsSave(m) /\ IsSave(k) /\ calls[k].plugin = calls[m].plugin
      BY <2>2, <2>3, <3>1 DEF IsSave, Touched
    <3>3. Turn(m)
      BY <2>1, <2>6, <3>2, LeavesInTurn
    <3>4. calls[k].step = "done"
      BY <3>2, <3>3, TurnIs
    <3> QED
      BY <2>3, <3>1, <3>4
  <2> QED
    BY <2>5, <2>6
<1> QED
  BY <1>2, <1>3, NextIs

-----------------------------------------------------------------------------
(* Who is to blame for a row that is not what a call expects.              *)

\* What was written stays written.
LEMMA WroteKept ==
  ASSUME NEW m, NEW t, Wrote(m, t), calls'[m].changes = calls[m].changes, backend' = backend,
         calls[m].landed \subseteq calls'[m].landed
  PROVE  Wrote(m, t)'
BY DEF Wrote, Touched

LEMMA TakenKept ==
  ASSUME NEW n, NEW t, Taken(n, t), backend' = backend, DOMAIN calls \subseteq DOMAIN calls',
         \A m \in DOMAIN calls : calls'[m].changes = calls[m].changes /\ calls[m].landed \subseteq calls'[m].landed
  PROVE  Taken(n, t)'
<1>1. PICK m \in DOMAIN calls \ {n} : Wrote(m, t)
  BY DEF Taken
<1>2. Wrote(m, t)'
  BY <1>1, WroteKept
<1>3. m \in DOMAIN calls' \ {n}
  BY <1>1
<1> QED
  BY <1>2, <1>3 DEF Taken

\* A row that another call has written.
LEMMA TakenByStep ==
  ASSUME NEW n \in DOMAIN calls, Turned(n), Confined(n), NEW m, m # n, NEW t \in Tables, rows'[t] # rows[t]
  PROVE  Taken(m, t)'
<1>1. t \in Touched(n) /\ (t \in calls'[n].landed \/ (backend \notin Transactional /\ Do(n, t) = "replace"))
  BY DEF Confined
<1>2. Wrote(n, t)'
  BY <1>1 DEF Wrote, Turned, Touched, Do
<1>3. n \in DOMAIN calls' \ {m}
  BY DEF Turned
<1> QED
  BY <1>2, <1>3 DEF Taken

\* A table of which a call's own part stays.
LEMMA BlamedKept ==
  ASSUME NEW m, NEW t, BlamedAt(m, t), backend' = backend,
         calls'[m].changes = calls[m].changes, calls'[m].expected = calls[m].expected,
         calls'[m].seen = calls[m].seen, Live(m)' => Live(m), Working(m)' => Working(m),
         calls'[m].step = "bulk" => calls[m].step = "bulk" /\ calls'[m].work = calls[m].work,
         \A op : op.table = t => (op \in calls'[m].work <=> op \in calls[m].work),
         t \in DOMAIN calls'[m].view <=> t \in DOMAIN calls[m].view,
         calls[m].landed \subseteq calls'[m].landed,
         Taken(m, t) => Taken(m, t)', rows'[t] = rows[t] \/ Taken(m, t)'
  PROVE  BlamedAt(m, t)'
<1>1. /\ Do(m, t)' = Do(m, t) /\ (InView(m, t)' <=> InView(m, t))
      /\ \A do : Has(m, t, do)' <=> Has(m, t, do)
  BY DEF Do, InView, Has
<1>2. Begun(m, t) => Begun(m, t)'
  BY <1>1 DEF Begun
<1>3. RowBlamed(m, t)'
  BY <1>2 DEF BlamedAt, RowBlamed
<1>4. SnapshotBlamed(m, t)'
  BY DEF BlamedAt, SnapshotBlamed
<1>5. GapBlamed(m, t)'
  BY <1>1 DEF BlamedAt, GapBlamed
<1>6. LookBlamed(m, t)'
  <2> SUFFICES ASSUME calls'[m].step = "bulk" PROVE LookBlamed(m, t)'
    BY DEF LookBlamed
  <2>1. Batch(m)' = Batch(m)
    BY SameBatch
  <2> QED
    BY <2>1 DEF BlamedAt, LookBlamed
<1> QED
  BY <1>3, <1>4, <1>5, <1>6 DEF BlamedAt

LEMMA SnapshotElsewhere ==
  ASSUME NEW n, NEW t, backend' = backend, backend # "mongo"
  PROVE  SnapshotBlamed(n, t)'
BY DEF SnapshotBlamed

LEMMA NotLooking ==
  ASSUME NEW n, NEW t, calls'[n].step # "bulk"
  PROVE  LookBlamed(n, t)'
BY DEF LookBlamed

\* Of the operations on a row, one is left of each kind.
LEMMA OneOfKind ==
  ASSUME IInv, NEW n \in DOMAIN calls, IsSave(n), NEW op \in calls[n].work, NEW done, op \in done,
         Turned(n), calls'[n].work = calls[n].work \ done
  PROVE  /\ ~Has(n, op.table, op.do)'
         /\ op.do \in {"remove", "update", "add"} /\ op.table \in Touched(n) /\ op.table \in Tables
         /\ op.do = Do(n, op.table) \/ (Do(n, op.table) = "replace" /\ op.do \in {"remove", "add"})
         /\ ~Lands(n, op) => op.do = "remove" /\ Do(n, op.table) = "replace"
<1>1. WorkFits(n) /\ op \in OpSet
  BY CallIs DEF IInv, EachFits
<1>2. ~Has(n, op.table, op.do)'
  BY <1>1 DEF Has, WorkFits
<1>3. /\ op.table \in Touched(n) /\ op.table \in Tables
      /\ op.do = Do(n, op.table) \/ (Do(n, op.table) = "replace" /\ op.do \in {"remove", "add"})
  BY <1>1 DEF WorkFits, OpSet
<1>4. op.do # "read"
  BY <1>3, DoIs DEF IInv
<1>5. op.do \in {"remove", "update", "add"}
  BY <1>1, <1>4 DEF OpSet
<1> QED
  BY <1>2, <1>3, <1>5 DEF Lands, Do

LEMMA BlamedNext ==
  ASSUME IInv, NEW n \in DOMAIN calls, Turned(n), Kinds(n), IsSave(n), NEW t \in Touched(n),
         Taken(n, t) => Taken(n, t)'
  PROVE  BlamedAt(n, t)'
<1>1. /\ backend' = backend /\ calls'[n].changes = calls[n].changes /\ calls'[n].expected = calls[n].expected
      /\ Do(n, t)' = Do(n, t) /\ t \in Tables
  BY SameCall, CallIs DEF Turned, IInv
<1>2. BlamedAt(n, t)
  BY DEF IInv, EachBlamed, Blamed
<1>3. CASE Fails(n) \/ Throws(n) \/ Batches(n) \/ Commits(n) \/ Rolls(n) \/ Answers(n)
  BY <1>3 DEF Fails, Throws, Batches, Commits, Rolls, Answers,
              BlamedAt, RowBlamed, SnapshotBlamed, GapBlamed, LookBlamed, Live, Working
<1>4. CASE Readies(n)
  <2>1. /\ Live(n) /\ Working(n) /\ calls'[n].step # "bulk" /\ rows' = rows
        /\ calls'[n].work = calls[n].work /\ calls'[n].view = calls[n].view
        /\ calls'[n].seen = calls[n].seen /\ calls'[n].landed = calls[n].landed
    BY <1>4 DEF Readies, Kept, KeptWork, Live, Working
  <2> QED
    BY <1>1, <1>2, <2>1, BlamedKept
<1>5. CASE Locks(n) \/ Begins(n) \/ Looks(n)
  <2>1. /\ Live(n) /\ rows' = rows /\ calls'[n].work = calls[n].work /\ calls'[n].view = calls[n].view
        /\ calls'[n].landed = calls[n].landed
    BY <1>5 DEF Locks, Begins, Looks, Kept, KeptWork, Live, Waits
  <2>2. /\ InView(n, t)' <=> InView(n, t)
        /\ \A do : Has(n, t, do)' <=> Has(n, t, do)
        /\ Begun(n, t)' <=> Begun(n, t)
    BY <1>1, <2>1 DEF InView, Has, Begun
  <2>3. RowBlamed(n, t)'
    BY <1>1, <1>2, <2>1, <2>2 DEF BlamedAt, RowBlamed
  <2>4. GapBlamed(n, t)'
    BY <1>1, <1>2, <2>1, <2>2 DEF BlamedAt, GapBlamed
  <2>5. SnapshotBlamed(n, t)'
    <3>1. CASE backend # "mongo"
      BY <1>1, <3>1, SnapshotElsewhere
    <3>2. CASE backend = "mongo"
      <4>1. calls'[n].seen = rows
        BY <1>5, <3>2 DEF Locks, Begins, Looks
      <4>2. rows[t] # calls[n].expected[t] => Taken(n, t)
        BY <1>2, <2>1, <3>2, Databases DEF BlamedAt, RowBlamed
      <4> QED
        BY <1>1, <2>1, <4>1, <4>2 DEF SnapshotBlamed
    <3> QED
      BY <3>1, <3>2
  <2>6. LookBlamed(n, t)'
    <3>1. CASE ~Looks(n)
      BY <1>5, <3>1, NotLooking DEF Locks, Begins
    <3>2. CASE Looks(n)
      <4>1. Batch(n)' = Batch(n)
        BY <2>1, SameBatch
      <4>2. calls'[n].seen[t] = IF \E op \in Batch(n) : op.table = t /\ op.checked THEN calls[n].expected[t] ELSE rows[t]
        BY <1>1, <3>2 DEF Looks
      <4>3. ASSUME NEW op \in Batch(n), op.table = t, op.checked PROVE ~Begun(n, t)
        <5>1. op \in calls[n].work /\ backend \notin Transactional
          BY <3>2, Databases DEF Batch, First, Looks
        <5>2. Do(n, t) = "update" /\ op.do = "update"
          BY <4>3, <5>1 DEF IInv, EachFits, WorkFits, ChangesFit
        <5>3. Lands(n, op)
          BY <5>2 DEF Lands
        <5>4. t \notin calls[n].landed
          BY <2>1, <4>3, <5>1, <5>3 DEF IInv, EachLands, OneByOne
        <5> QED
          BY <5>2, <5>4 DEF Begun
      <4>4. (\E op \in Batch(n) : op.table = t /\ op.checked) /\ rows[t] # calls[n].expected[t] => Taken(n, t)
        BY <1>2, <2>1, <4>3 DEF BlamedAt, RowBlamed
      <4> QED
        BY <1>1, <2>1, <4>2, <4>4 DEF LookBlamed
    <3> QED
      BY <3>1, <3>2
  <2> QED
    BY <2>3, <2>4, <2>5, <2>6 DEF BlamedAt
<1>6. CASE Selects(n)
  BY <1>6 DEF Selects
<1>7. CASE Executes(n)
  <2>1. PICK op : op = Op(n)
    OBVIOUS
  <2>2. /\ Live(n) /\ Working(n) /\ calls'[n].step = "run" /\ op \in calls[n].work /\ rows' = rows
        /\ calls'[n].landed = calls[n].landed /\ calls'[n].seen = calls[n].seen
        /\ calls'[n].work = calls[n].work \ {op} /\ backend \in Transactional
    BY <1>7, <2>1, ReadyIs, Databases DEF Executes, Live, Working
  <2>3. CASE op.table # t
    <3>1. t \in DOMAIN calls'[n].view <=> t \in DOMAIN calls[n].view
      <4>1. CASE Misses(n, Op(n))
        BY <1>7, <4>1 DEF Executes
      <4>2. CASE ~Misses(n, Op(n))
        BY <1>7, <2>1, <2>3, <4>2 DEF Executes
      <4> QED
        BY <4>1, <4>2
    <3> QED
      BY <1>1, <1>2, <2>2, <2>3, <3>1, BlamedKept
  <2>4. CASE op.table = t
    <3>1. RowBlamed(n, t)'
      BY <1>1, <1>2, <2>2 DEF BlamedAt, RowBlamed
    <3>2. SnapshotBlamed(n, t)'
      BY <1>1, <1>2, <2>2 DEF BlamedAt, SnapshotBlamed
    <3>3. LookBlamed(n, t)'
      BY <2>2, NotLooking
    <3>4. GapBlamed(n, t)'
      <4>1. /\ ~Has(n, t, op.do)' /\ op.do \in {"remove", "update", "add"}
            /\ op.do = Do(n, t) \/ (Do(n, t) = "replace" /\ op.do \in {"remove", "add"})
        BY <2>2, <2>4, OneOfKind
      <4>2. CASE ~Misses(n, Op(n))
        BY <1>7, <2>1, <2>4, <4>2 DEF Executes, GapBlamed, InView
      <4>3. CASE Misses(n, Op(n)) /\ backend # "mongo" /\ Do(n, t) = "replace" /\ op.do = "remove"
        <5>1. ~InView(n, t)' <=> ~InView(n, t)
          BY <1>7, <4>3 DEF Executes, InView
        <5>2. ~InView(n, t) => rows[t] = NoRow
          BY <2>1, <2>4, <4>3 DEF Misses, Found, InView
        <5> QED
          BY <2>2, <5>1, <5>2 DEF GapBlamed
      <4> QED
        BY <1>1, <4>1, <4>2, <4>3 DEF GapBlamed
    <3> QED
      BY <3>1, <3>2, <3>3, <3>4 DEF BlamedAt
  <2> QED
    BY <2>3, <2>4
<1>8. CASE Writes(n)
  <2>1. PICK op : op = Op(n)
    OBVIOUS
  <2>2. /\ Live(n) /\ Working(n) /\ calls'[n].step = "run" /\ op \in calls[n].work
        /\ calls'[n].landed = IF Lands(n, op) THEN calls[n].landed \cup {op.table} ELSE calls[n].landed
        /\ calls'[n].seen = calls[n].seen /\ calls'[n].view = calls[n].view
        /\ calls'[n].work = calls[n].work \ {op} /\ backend = "loose"
        /\ rows'[t] = IF t = op.table THEN Written(n, op) ELSE rows[t]
    BY <1>1, <1>8, <2>1, ReadyIs, Databases DEF Writes, Live, Working
  <2>3. CASE op.table # t
    BY <1>1, <1>2, <2>2, <2>3, BlamedKept
  <2>4. CASE op.table = t
    <3>1. /\ ~Has(n, t, op.do)' /\ op.do \in {"remove", "update", "add"}
          /\ op.do = Do(n, t) \/ (Do(n, t) = "replace" /\ op.do \in {"remove", "add"})
          /\ ~Lands(n, op) => op.do = "remove" /\ Do(n, t) = "replace"
      BY <2>2, <2>4, OneOfKind
    <3>2. Begun(n, t)'
      BY <1>1, <2>2, <2>4, <3>1 DEF Begun
    <3>3. RowBlamed(n, t)'
      BY <1>1, <2>2, <3>2, Databases DEF RowBlamed
    <3>4. GapBlamed(n, t)'
      BY <1>1, <2>2, <2>4, <3>1 DEF GapBlamed, Written
    <3> QED
      BY <1>1, <2>2, <3>3, <3>4, SnapshotElsewhere, NotLooking DEF BlamedAt
  <2> QED
    BY <2>3, <2>4
<1>9. CASE Bulks(n)
  <2>1. CASE Good(n) = Batch(n)
    <3>1. /\ Live(n) /\ (Working(n) \/ calls[n].step = "run")
          /\ calls'[n].step = "run" /\ calls'[n].seen = calls[n].seen /\ calls'[n].view = calls[n].view
          /\ calls'[n].work = calls[n].work \ Batch(n) /\ backend = "pouch"
          /\ calls'[n].landed = calls[n].landed \cup {op.table : op \in {o \in Batch(n) : Lands(n, o)}}
          /\ rows'[t] = IF \E op \in Batch(n) : op.table = t
                          THEN IF \E op \in Batch(n) : op.table = t /\ op.do = "remove" THEN NoRow ELSE n
                          ELSE rows[t]
      BY <1>1, <1>9, <2>1 DEF Bulks, Live, Working
    <3>2. Working(n) /\ Live(n)
      BY <1>9 DEF Bulks, Working, Live
    <3>3. CASE \A op \in Batch(n) : op.table # t
      <4>1. \A op : op.table = t => (op \in calls'[n].work <=> op \in calls[n].work)
        BY <3>1, <3>3
      <4> QED
        BY <1>1, <1>2, <3>1, <3>2, <3>3, <4>1, BlamedKept
    <3>4. ASSUME NEW op \in Batch(n), op.table = t PROVE BlamedAt(n, t)'
      <4>1. op \in calls[n].work
        BY DEF Batch, First
      <4>2. /\ ~Has(n, t, op.do)' /\ op.do \in {"remove", "update", "add"}
            /\ op.do = Do(n, t) \/ (Do(n, t) = "replace" /\ op.do \in {"remove", "add"})
            /\ ~Lands(n, op) => op.do = "remove" /\ Do(n, t) = "replace"
        BY <3>1, <3>4, <4>1, OneOfKind
      <4>3. Begun(n, t)'
        <5>1. Lands(n, op) => t \in calls'[n].landed
          BY <3>1, <3>4
        <5> QED
          BY <1>1, <4>2, <5>1 DEF Begun
      <4>4. RowBlamed(n, t)'
        BY <1>1, <3>1, <4>3, Databases DEF RowBlamed
      <4>5. GapBlamed(n, t)'
        <5>1. op.do = "remove" => rows'[t] = NoRow
          BY <3>1, <3>4
        <5> QED
          BY <1>1, <4>2, <5>1 DEF GapBlamed
      <4> QED
        BY <1>1, <3>1, <4>4, <4>5, SnapshotElsewhere, NotLooking DEF BlamedAt
    <3> QED
      BY <3>3, <3>4
  <2>2. CASE Good(n) # Batch(n)
    BY <1>9, <2>2 DEF Bulks, BlamedAt, RowBlamed, SnapshotBlamed, GapBlamed, LookBlamed, Live, Working
  <2> QED
    BY <2>1, <2>2
<1> QED
  BY <1>3, <1>4, <1>5, <1>6, <1>7, <1>8, <1>9 DEF Kinds

LEMMA ArrivalBlamed ==
  ASSUME NEW p, NEW k, Arrives(calls'[k], p), rows' = rows
  PROVE  Blamed(k)'
<1>1. calls'[k].step = "start" /\ calls'[k].expected = rows'
  BY DEF Arrives
<1>2. \A t \in DOMAIN calls'[k].changes :
        (calls'[k].changes[t].do = "replace" => \E op \in calls'[k].work : op.table = t /\ op.do = "remove")
  BY DEF Arrives
<1> SUFFICES ASSUME NEW t \in Touched(k)' PROVE BlamedAt(k, t)'
  BY DEF Blamed
<1>3. RowBlamed(k, t)'
  BY <1>1 DEF RowBlamed
<1>4. SnapshotBlamed(k, t)'
  BY <1>1 DEF SnapshotBlamed, Working
<1>5. GapBlamed(k, t)'
  BY <1>2 DEF GapBlamed, Has, Do, Touched
<1>6. LookBlamed(k, t)'
  BY <1>1, NotLooking
<1> QED
  BY <1>3, <1>4, <1>5, <1>6 DEF BlamedAt

LEMMA EachBlamedNext ==
  ASSUME IInv, Next
  PROVE  EachBlamed'
<1>1. CASE \E p \in Plugins : Asks(p)
  <2>1. PICK p \in Plugins : Asks(p)
    BY <1>1
  <2> SUFFICES ASSUME NEW m \in DOMAIN calls' PROVE Blamed(m)'
    BY DEF EachBlamed
  <2>2. CASE m \in DOMAIN calls
    <3>1. calls'[m] = calls[m] /\ backend' = backend /\ rows' = rows /\ DOMAIN calls \subseteq DOMAIN calls'
      BY <2>1, <2>2 DEF Asks, Waits
    <3>2. \A k \in DOMAIN calls : calls'[k].changes = calls[k].changes /\ calls[k].landed \subseteq calls'[k].landed
      BY <2>1 DEF Asks
    <3> SUFFICES ASSUME IsSave(m), NEW t \in Touched(m) PROVE BlamedAt(m, t)'
      BY <3>1 DEF Blamed, IsSave, Touched
    <3>3. BlamedAt(m, t)
      BY <2>2 DEF IInv, EachBlamed, Blamed
    <3>4. Taken(m, t) => Taken(m, t)'
      BY <3>1, <3>2, TakenKept
    <3>5. (Live(m)' => Live(m)) /\ (Working(m)' => Working(m))
      BY <3>1 DEF Live, Working
    <3> QED
      BY <3>1, <3>3, <3>4, <3>5, BlamedKept
  <2>3. CASE m = Len(calls) + 1
    BY <2>1, <2>3, ArrivalBlamed DEF Asks, Waits
  <2> QED
    BY <2>1, <2>2, <2>3 DEF Asks
<1>2. CASE \E n \in DOMAIN calls : Turned(n) /\ Kinds(n)
  <2>1. PICK n \in DOMAIN calls : Turned(n) /\ Kinds(n)
    BY <1>2
  <2>2. Confined(n)
    BY <2>1, Confines
  <2> SUFFICES ASSUME NEW m \in DOMAIN calls' PROVE Blamed(m)'
    BY DEF EachBlamed
  <2>3. m \in DOMAIN calls /\ backend' = backend /\ DOMAIN calls \subseteq DOMAIN calls'
    BY <2>1 DEF Turned
  <2>4. \A k \in DOMAIN calls : calls'[k].changes = calls[k].changes /\ calls[k].landed \subseteq calls'[k].landed
    BY <2>1, <2>2 DEF Turned, Confined
  <2>5. Touched(m)' = Touched(m) /\ (IsSave(m)' <=> IsSave(m))
    BY <2>3, <2>4 DEF Touched, IsSave
  <2> SUFFICES ASSUME IsSave(m), NEW t \in Touched(m) PROVE BlamedAt(m, t)'
    BY <2>5 DEF Blamed
  <2>6. BlamedAt(m, t) /\ t \in Tables
    BY <2>3, CallIs DEF IInv, EachBlamed, Blamed
  <2>7. Taken(m, t) => Taken(m, t)'
    BY <2>3, <2>4, TakenKept
  <2>8. CASE m # n
    <3>1. calls'[m] = calls[m]
      BY <2>1, <2>3, <2>8 DEF Turned
    <3>2. rows'[t] = rows[t] \/ Taken(m, t)'
      BY <2>1, <2>2, <2>6, <2>8, TakenByStep
    <3>3. (Live(m)' => Live(m)) /\ (Working(m)' => Working(m))
      BY <3>1 DEF Live, Working
    <3> QED
      BY <2>3, <2>6, <2>7, <3>1, <3>2, <3>3, BlamedKept
  <2>9. CASE m = n
    BY <2>1, <2>7, <2>9, BlamedNext
  <2> QED
    BY <2>8, <2>9
<1> QED
  BY <1>1, <1>2, NextIs

-----------------------------------------------------------------------------
(* Why a save fails.                                                       *)

\* What FailuresHaveACause asks of a save that fails by the given cause.
Due(n, cause) ==
  /\ cause \notin {"aborted", "exists"}
  /\ cause = "refused" => (backend = "d1" /\ Checks(n)) \/ calls[n].malformed
  /\ cause = "busy" => \E m \in DOMAIN calls : IsSave(m) /\ calls[m].plugin # calls[n].plugin
  /\ cause \in {"deadlock", "contention"} => Others(n) # {}
  /\ cause = "conflict" => RowsTaken(n)
  /\ cause = "duplicate" => \/ RowsTaken(n)
                            \/ \E t \in Touched(n) :
                                 calls[n].changes[t].do = "add" /\ calls[n].expected[t] # NoRow

LEMMA DueIs == FailuresHaveACause <=> \A n \in DOMAIN calls : IsSave(n) => Due(n, calls[n].cause)
BY DEF FailuresHaveACause, Due

\* A cause stays one: nothing that was written or asked is taken back.
LEMMA DueKept ==
  ASSUME NEW n \in DOMAIN calls, NEW cause, Due(n, cause), backend' = backend, DOMAIN calls \subseteq DOMAIN calls',
         \A m \in DOMAIN calls :
           /\ calls'[m].plugin = calls[m].plugin /\ calls'[m].changes = calls[m].changes
           /\ calls'[m].malformed = calls[m].malformed
           /\ calls'[m].expected = calls[m].expected /\ calls[m].landed \subseteq calls'[m].landed
  PROVE  Due(n, cause)'
<1>1. \A m \in DOMAIN calls : Touched(m)' = Touched(m) /\ (IsSave(m)' <=> IsSave(m))
  BY DEF Touched, IsSave
<1>2. \A m \in Others(n) : m \in Others(n)'
  BY <1>1 DEF Others
<1>3. RowsTaken(n) => RowsTaken(n)'
  <2> SUFFICES ASSUME RowsTaken(n) PROVE RowsTaken(n)'
    OBVIOUS
  <2>1. PICK m \in Others(n) : \E t \in Touched(n) : Wrote(m, t)
    BY DEF RowsTaken
  <2>2. PICK t \in Touched(n) : Wrote(m, t)
    BY <2>1
  <2>3. m \in DOMAIN calls
    BY DEF Others
  <2>4. Wrote(m, t)'
    BY <2>2, <2>3, WroteKept
  <2> QED
    BY <1>1, <1>2, <2>4 DEF RowsTaken
<1>4. cause = "busy" => (\E m \in DOMAIN calls : IsSave(m) /\ calls[m].plugin # calls[n].plugin)'
  BY <1>1 DEF Due
<1>5. cause \in {"deadlock", "contention"} => Others(n)' # {}
  BY <1>2 DEF Due
<1>6. cause = "duplicate" => \/ RowsTaken(n)'
                             \/ (\E t \in Touched(n) : calls[n].changes[t].do = "add" /\ calls[n].expected[t] # NoRow)'
  BY <1>1, <1>3 DEF Due
<1>7. cause = "refused" => ((backend = "d1" /\ Checks(n)) \/ calls[n].malformed)'
  BY <1>1 DEF Due, Checks, Touched
<1> QED
  BY <1>3, <1>4, <1>5, <1>6, <1>7 DEF Due

\* Who has written a row is another save with that row.
LEMMA TakenIsOther ==
  ASSUME IInv, NEW n \in DOMAIN calls, NEW t \in Touched(n), Taken(n, t)
  PROVE  RowsTaken(n) /\ Others(n) # {}
<1>1. PICK m \in DOMAIN calls \ {n} : Wrote(m, t)
  BY DEF Taken
<1>2. t \in Touched(m)
  BY <1>1 DEF Wrote, IInv, EachFits, Sized
<1>3. m \in Others(n)
  BY <1>1, <1>2 DEF Others
<1> QED
  BY <1>1, <1>3 DEF RowsTaken

\* What is still to land has not begun.
LEMMA NotBegun ==
  ASSUME IInv, NEW n \in DOMAIN calls, IsSave(n), Live(n), backend \notin Transactional,
         NEW op \in calls[n].work, op.do \in {"update", "add"}, Do(n, op.table) # "replace"
  PROVE  ~Begun(n, op.table)
<1>1. Lands(n, op)
  BY DEF Lands
<1>2. op.table \in Touched(n)
  BY DEF IInv, EachFits, WorkFits
<1>3. op.table \notin calls[n].landed
  BY <1>1, <1>2 DEF IInv, EachLands, OneByOne
<1> QED
  BY <1>3 DEF Begun

\* A row that is not the one expected, under an operation still to land.
LEMMA RowIsTaken ==
  ASSUME IInv, NEW n \in DOMAIN calls, IsSave(n), Live(n),
         NEW op \in calls[n].work, op.do \in {"update", "add"}, Do(n, op.table) # "replace",
         rows[op.table] # calls[n].expected[op.table]
  PROVE  Taken(n, op.table)
<1>1. op.table \in Touched(n)
  BY DEF IInv, EachFits, WorkFits
<1>2. RowBlamed(n, op.table)
  BY <1>1 DEF IInv, EachBlamed, Blamed, BlamedAt
<1> QED
  BY <1>2, NotBegun DEF RowBlamed

LEMMA BusyIsDue ==
  ASSUME IInv, NEW n \in DOMAIN calls, IsSave(n), calls[n].step = "start", backend = "sqlite", Turn(n),
         NEW t \in Tables, owner[t] # None
  PROVE  Due(n, "busy")
<1>1. PICK m : m = owner[t]
  OBVIOUS
<1>2. m \in DOMAIN calls /\ IsSave(m) /\ Holding(m)
  BY <1>1 DEF IInv, Ownership, Owned
<1>3. DOMAIN calls = 1..Len(calls) /\ Len(calls) \in Nat
  BY LenProperties DEF IInv, Typed
<1>4. calls[m].plugin # calls[n].plugin
  <2> SUFFICES ASSUME calls[m].plugin = calls[n].plugin PROVE FALSE
    OBVIOUS
  <2>1. calls[m].step \notin {"start", "done"} /\ m # n
    BY <1>2 DEF Holding
  <2>2. CASE m < n
    <3>1. m \in 1..n-1
      BY <1>2, <1>3, <2>2
    <3> QED
      BY <1>2, <2>1, <3>1, TurnIs
  <2>3. CASE n < m
    <3>1. n \in 1..m-1
      BY <1>2, <1>3, <2>3
    <3>2. Turns(m)
      BY <1>2 DEF IInv, EachTurn
    <3> QED
      BY <1>2, <2>1, <3>1, <3>2 DEF Turns
  <2> QED
    BY <1>2, <1>3, <2>1, <2>2, <2>3
<1> QED
  BY <1>2, <1>4 DEF Due

LEMMA DeadlockIsDue ==
  ASSUME IInv, NEW n \in DOMAIN calls, IsSave(n), Blocked(n), NEW k, k = Awaits(n), k \in DOMAIN calls, Blocked(k)
  PROVE  Due(n, "deadlock")
<1>1. PICK t : t = Op(n).table
  OBVIOUS
<1>2. /\ k # None /\ k # n /\ calls[n].work # {} /\ t \in Touched(n) /\ t \in Tables
      /\ \/ calls[n].step = "creating" /\ k = creator[t]
         \/ calls[n].step = "run" /\ k = owner[t]
  BY <1>1, BlockedIs, OpTable
<1>3. CASE calls[n].step = "run"
  <2>1. ~At(n, "creating")
    BY <1>3 DEF At
  <2>2. backend \in Pooled
    BY <1>2, <2>1 DEF Awaits
  <2>3. t \in Touched(k)
    BY <1>2, <1>3, <2>2 DEF IInv, Ownership, Owned, Pooled
  <2> QED
    BY <1>2, <2>3 DEF Due, Others
<1>4. CASE calls[n].step = "creating"
  <2>1. IF IsSave(k) THEN t \in calls[k].created /\ Holding(k)
                     ELSE calls[k].step = "creating" /\ Op(k).table = t
    BY <1>2, <1>4 DEF IInv, Ownership, Creating
  <2>2. CASE IsSave(k)
    <3>1. t \in Touched(k)
      BY <2>1, <2>2 DEF IInv, EachFits, Sized
    <3> QED
      BY <1>2, <3>1 DEF Due, Others
  <2>3. CASE ~IsSave(k)
    <3>1. Awaits(k) # k /\ Awaits(k) = creator[Op(k).table]
      BY <2>1, <2>3, BlockedIs
    <3> QED
      BY <1>2, <1>4, <2>1, <2>3, <3>1
  <2> QED
    BY <2>2, <2>3
<1> QED
  BY <1>2, <1>3, <1>4

LEMMA ContentionIsDue ==
  ASSUME IInv, NEW n \in DOMAIN calls, IsSave(n), Ready(n), Contended(n, Op(n))
  PROVE  Due(n, "contention")
<1>1. PICK t : t = Op(n).table
  OBVIOUS
<1>2. /\ t \in Touched(n) /\ t \in Tables /\ backend = "mongo" /\ Working(n)
      /\ owner[t] \notin {None, n} \/ rows[t] # calls[n].seen[t]
  BY <1>1, ReadyIs DEF Contended, Working
<1>3. CASE owner[t] \notin {None, n}
  <2>1. PICK m : m = owner[t]
    OBVIOUS
  <2>2. m \in DOMAIN calls /\ t \in Touched(m) /\ m # n
    BY <1>2, <1>3, <2>1 DEF IInv, Ownership, Owned
  <2> QED
    BY <1>2, <2>2 DEF Due, Others
<1>4. CASE rows[t] # calls[n].seen[t]
  <2>1. Taken(n, t)
    BY <1>2, <1>4 DEF IInv, EachBlamed, Blamed, BlamedAt, SnapshotBlamed
  <2> QED
    BY <1>2, <2>1, TakenIsOther DEF Due
<1> QED
  BY <1>2, <1>3, <1>4

LEMMA ViewsOfOthers ==
  ASSUME IInv, NEW n \in DOMAIN calls, backend \notin Locking
  PROVE  \A t : ~InView(n, t)
BY DEF IInv, EachFits, Sized, InView

LEMMA RefusedIsDue ==
  ASSUME IInv, NEW n \in DOMAIN calls, IsSave(n), Ready(n), NEW op, op = Op(n), NEW cause, cause = Refused(n, op),
         cause \in {"duplicate", "conflict"}
  PROVE  Due(n, cause)
<1>1. PICK t : t = op.table
  OBVIOUS
<1>2. /\ Live(n) /\ Working(n) /\ backend \notin {"pouch", "d1"} /\ op \in Batch(n)
      /\ op \in calls[n].work /\ op \in OpSet /\ t \in Tables /\ t \in Touched(n) /\ calls[n].work # {}
  BY <1>1, ReadyIs, OpTable DEF Live, Working
<1>3. /\ op.do = Do(n, t) \/ (Do(n, t) = "replace" /\ op.do \in {"remove", "add"})
      /\ op.checked = calls[n].changes[t].checked
  BY <1>1, <1>2 DEF IInv, EachFits, WorkFits
<1>4. /\ SnapshotBlamed(n, t) /\ GapBlamed(n, t)
  BY <1>2 DEF IInv, EachBlamed, Blamed, BlamedAt
<1>5. backend \in Locking => Placed(n, t)
  BY <1>2 DEF IInv, EachWorks, Progress
<1>6. Found(n, t) = IF InView(n, t) THEN calls[n].view[t]
                    ELSE IF backend = "mongo" THEN calls[n].seen[t] ELSE rows[t]
  BY DEF Found, InView
<1>7. CASE cause = "conflict"
  <2>1. op.do = "update" /\ Found(n, t) # calls[n].expected[t]
    BY <1>1, <1>7 DEF Refused
  <2>2. Do(n, t) = "update"
    BY <1>3, <2>1
  <2>3. ~InView(n, t)
    <3>1. CASE backend \in Locking
      BY <1>1, <1>2, <1>5, <2>1, <3>1, NotYetSeen
    <3>2. CASE backend \notin Locking
      BY <3>2, ViewsOfOthers
    <3> QED
      BY <3>1, <3>2
  <2>4. Taken(n, t)
    <3>1. CASE backend = "mongo"
      BY <1>2, <1>4, <1>6, <2>1, <2>3, <3>1 DEF SnapshotBlamed
    <3>2. CASE backend # "mongo"
      BY <1>1, <1>2, <1>6, <2>1, <2>2, <2>3, <3>2, RowIsTaken
    <3> QED
      BY <3>1, <3>2
  <2> QED
    BY <1>2, <1>7, <2>4, TakenIsOther DEF Due
<1>8. CASE cause = "duplicate"
  <2>1. op.do = "add" /\ Found(n, t) # NoRow
    BY <1>1, <1>8 DEF Refused
  <2>2. ~Has(n, t, "remove") /\ Has(n, t, "add")
    BY <1>1, <1>2, <2>1, NoRemovalLeft
  <2>3. ~Lacks(n, t)
    BY <1>1, <1>2 DEF Lacks
  <2>4. CASE Do(n, t) = "add"
    <3>1. ~InView(n, t)
      <4>1. CASE backend \in Locking
        BY <1>5, <2>3, <2>4, <4>1 DEF Placed, AddAt
      <4>2. CASE backend \notin Locking
        BY <4>2, ViewsOfOthers
      <4> QED
        BY <4>1, <4>2
    <3>2. calls[n].expected[t] = NoRow => Taken(n, t)
      <4>1. CASE backend = "mongo"
        BY <1>2, <1>4, <1>6, <2>1, <3>1, <4>1 DEF SnapshotBlamed
      <4>2. CASE backend # "mongo"
        BY <1>1, <1>2, <1>6, <2>1, <2>4, <3>1, <4>2, RowIsTaken
      <4> QED
        BY <4>1, <4>2
    <3> QED
      BY <1>2, <1>8, <2>4, <3>2, TakenIsOther DEF Due, Do
  <2>5. CASE Do(n, t) = "replace"
    <3>1. ~InView(n, t) /\ (backend = "mongo" => t \in calls[n].missed)
      <4>1. CASE backend \in Locking
        <5>1. Shows(n, t, NoRow) \/ (~InView(n, t) /\ t \in calls[n].missed)
          BY <1>5, <2>2, <2>3, <2>5, <4>1 DEF Placed, ReplaceAt
        <5>2. ~Shows(n, t, NoRow)
          BY <1>6, <2>1 DEF Shows
        <5> QED
          BY <5>1, <5>2
      <4>2. CASE backend \notin Locking
        BY <4>2, ViewsOfOthers, Databases
      <4> QED
        BY <4>1, <4>2
    <3>2. backend # "mongo"
      <4>1. backend = "mongo" => calls[n].seen[t] = NoRow
        BY <1>2, <3>1 DEF IInv, EachWorks, Snapshot
      <4> QED
        BY <1>6, <2>1, <3>1, <4>1
    <3>3. rows[t] # NoRow
      BY <1>6, <2>1, <3>1, <3>2
    <3>4. Taken(n, t)
      BY <1>2, <1>4, <2>2, <2>5, <3>1, <3>2, <3>3 DEF GapBlamed
    <3> QED
      BY <1>2, <1>8, <3>4, TakenIsOther DEF Due
  <2> QED
    BY <1>3, <2>1, <2>4, <2>5
<1> QED
  BY <1>7, <1>8

LEMMA BatchIsDue ==
  ASSUME IInv, NEW n \in DOMAIN calls, IsSave(n), backend = "d1", Live(n),
         NEW t \in Touched(n), Do(n, t) = "add", rows[t] # NoRow
  PROVE  Due(n, "duplicate")
<1>1. RowBlamed(n, t)
  BY DEF IInv, EachBlamed, Blamed, BlamedAt
<1>2. calls[n].expected[t] = NoRow => Taken(n, t)
  BY <1>1, Databases DEF RowBlamed
<1> QED
  BY <1>2, TakenIsOther DEF Due, Do

LEMMA BulkIsDue ==
  ASSUME IInv, NEW n \in DOMAIN calls, Bulks(n)
  PROVE  Due(n, calls'[n].cause) \/ calls'[n].cause = calls[n].cause
<1> SUFFICES ASSUME Good(n) # Batch(n) PROVE Due(n, calls'[n].cause)
  BY DEF Bulks
<1>1. /\ backend = "pouch" /\ IsSave(n) /\ calls[n].work # {} /\ Live(n)
      /\ calls'[n].cause = IF \A op \in Batch(n) : op.do = "add" THEN "duplicate" ELSE "conflict"
      /\ calls[n].step = "bulk" \/ (\A op \in Batch(n) : op.do = "add")
  BY DEF Bulks, Live
<1>2. PICK op \in Batch(n) : op \notin Good(n)
  BY DEF Good
<1>3. PICK t : t = op.table
  OBVIOUS
<1>4. op \in calls[n].work /\ op \in OpSet /\ WorkFits(n) /\ Batch(n) \subseteq calls[n].work
  BY CallIs DEF Batch, First, IInv, EachFits
<1>5. /\ t \in Touched(n) /\ t \in Tables
      /\ op.do = Do(n, t) \/ (Do(n, t) = "replace" /\ op.do \in {"remove", "add"})
  BY <1>1, <1>3, <1>4 DEF WorkFits, OpSet
<1>6. GapBlamed(n, t) /\ LookBlamed(n, t)
  BY <1>1, <1>5 DEF IInv, EachBlamed, Blamed, BlamedAt
<1>7. CASE \A o \in Batch(n) : o.do = "add"
  <2>1. op.do = "add" /\ rows[t] # NoRow
    BY <1>2, <1>3, <1>7 DEF Good
  <2>2. CASE Do(n, t) = "add"
    <3>1. calls[n].expected[t] = NoRow => Taken(n, t)
      BY <1>1, <1>3, <1>4, <2>1, <2>2, RowIsTaken
    <3> QED
      BY <1>1, <1>5, <1>7, <2>2, <3>1, TakenIsOther DEF Due, Do
  <2>3. CASE Do(n, t) = "replace"
    <3>1. ~Has(n, t, "remove") /\ Has(n, t, "add")
      BY <1>1, <1>2, <1>3, <2>1, NoRemovalLeft
    <3>2. ~InView(n, t)
      BY <1>1, ViewsOfOthers, Databases
    <3>3. Taken(n, t)
      BY <1>1, <1>6, <2>1, <2>3, <3>1, <3>2 DEF GapBlamed
    <3> QED
      BY <1>1, <1>5, <1>7, <3>3, TakenIsOther DEF Due
  <2> QED
    BY <1>5, <2>1, <2>2, <2>3
<1>8. CASE ~ \A o \in Batch(n) : o.do = "add"
  <2>1. PICK o \in Batch(n) : o.do # "add"
    BY <1>8
  <2>2. op.rank = o.rank
    <3>1. o \in calls[n].work /\ o \in OpSet
      BY <1>4, CallIs DEF IInv
    <3>2. ~Precedes(op, o) /\ ~Precedes(o, op)
      BY <1>2, <1>4, <2>1, <3>1 DEF Batch, First
    <3>3. op.rank \in Nat \X Nat /\ o.rank \in Nat \X Nat
      BY <1>4, <3>1 DEF OpSet
    <3> QED
      BY <3>2, <3>3 DEF Precedes
  <2>3. op.do # "add"
    BY <1>1, <1>4, <2>1, <2>2 DEF WorkFits
  <2>4. rows[t] # calls[n].seen[t]
    BY <1>2, <1>3, <2>3 DEF Good
  <2>5. Taken(n, t)
    BY <1>1, <1>2, <1>3, <1>6, <1>8, <2>3, <2>4 DEF LookBlamed
  <2> QED
    BY <1>1, <1>5, <1>8, <2>5, TakenIsOther DEF Due
<1> QED
  BY <1>7, <1>8

\* A step that gives a save a cause has one to give.
LEMMA NewCause ==
  ASSUME IInv, NEW n \in 1..MaxCalls, Advance(n) \/ Fault(n) \/ LoseCommit(n), IsSave(n)
  PROVE  calls'[n].cause = calls[n].cause \/ Due(n, calls'[n].cause)
<1>1. CASE Throw(n) \/ BeginScoped(n) \/ Begin(n) \/ EnsureTables(n) \/ MissTable(n) \/ Create(n) \/ Created(n)
  <2>1. Throws(n) \/ Locks(n) \/ Begins(n) \/ Readies(n)
    BY <1>1, ThrowIs, BeginScopedIs, BeginIs, EnsureTablesIs, MissTableIs, CreateIs, CreatedIs
  <2> QED
    BY <2>1 DEF Throws, Locks, Begins, Readies
<1>2. CASE Refuse(n)
  BY <1>2, RefuseIs DEF Refuse, Unmade, Due
<1>3. CASE BeginImmediate(n)
  <2>1. /\ Turned(n)
        /\ \/ /\ calls'[n].cause = "busy"
              /\ backend = "sqlite" /\ Turn(n) /\ \E t \in Tables : owner[t] # None
           \/ Locks(n)
    BY <1>3, BeginImmediateIs
  <2>2. CASE Locks(n)
    BY <2>2 DEF Locks
  <2>3. CASE /\ calls'[n].cause = "busy"
             /\ backend = "sqlite" /\ Turn(n) /\ \E t \in Tables : owner[t] # None
    <3>1. n \in DOMAIN calls /\ calls[n].step = "start"
      BY <1>3 DEF BeginImmediate, Starts, At
    <3>2. PICK t \in Tables : owner[t] # None
      BY <2>3
    <3> QED
      BY <2>3, <3>1, <3>2, BusyIsDue
  <2> QED
    BY <2>1, <2>2, <2>3
<1>4. CASE Select(n) \/ Execute(n) \/ Write(n) \/ Lookup(n)
  <2>1. Selects(n) \/ Executes(n) \/ Writes(n) \/ Looks(n)
    BY <1>4, SelectIs, ExecuteIs, WriteIs, LookupIs
  <2> QED
    BY <2>1 DEF Selects, Executes, Writes, Looks
<1>5. CASE Reject(n)
  <2>1. /\ n \in DOMAIN calls /\ calls'[n].cause = Cause(n) /\ Ready(n)
        /\ \/ Cause(n) \in {"duplicate", "conflict"} /\ Cause(n) = Refused(n, Op(n))
           \/ Cause(n) = "contention" /\ Contended(n, Op(n))
    BY <1>5, RejectIs DEF Turned
  <2>2. PICK op : op = Op(n)
    OBVIOUS
  <2>3. PICK cause : cause = Cause(n)
    OBVIOUS
  <2>4. CASE cause \in {"duplicate", "conflict"} /\ cause = Refused(n, op)
    BY <2>1, <2>2, <2>3, <2>4, RefusedIsDue
  <2>5. CASE cause = "contention" /\ Contended(n, Op(n))
    BY <2>1, <2>3, <2>5, ContentionIsDue
  <2> QED
    BY <2>1, <2>2, <2>3, <2>4, <2>5
<1>6. CASE RunBatch(n)
  <2>1. /\ n \in DOMAIN calls /\ backend = "d1"
        /\ \/ /\ calls'[n].cause = "duplicate"
              /\ \E t \in Touched(n) : Do(n, t) = "add" /\ rows[t] # NoRow
           \/ Batches(n)
    BY <1>6, RunBatchIs DEF Turned
  <2>2. Live(n)
    BY <1>6 DEF RunBatch, Running, At, Live
  <2>3. CASE Batches(n)
    BY <2>3 DEF Batches
  <2>4. CASE /\ calls'[n].cause = "duplicate"
             /\ \E t \in Touched(n) : Do(n, t) = "add" /\ rows[t] # NoRow
    <3>1. PICK t \in Touched(n) : Do(n, t) = "add" /\ rows[t] # NoRow
      BY <2>4
    <3> QED
      BY <2>1, <2>2, <2>4, <3>1, BatchIsDue
  <2> QED
    BY <2>1, <2>3, <2>4
<1>7. CASE Bulk(n)
  <2>1. n \in DOMAIN calls /\ Bulks(n)
    BY <1>7, BulkIs DEF Turned
  <2> QED
    BY <2>1, BulkIsDue
<1>8. CASE Commit(n) \/ LoseCommit(n)
  <2>1. calls'[n].cause \in {"none", "lost"}
    BY <1>8, CommitIs, LoseCommitIs DEF Commits
  <2> QED
    BY <2>1 DEF Due
<1>9. CASE Rollback(n) \/ Answer(n)
  <2>1. Rolls(n) \/ Answers(n)
    BY <1>9, RollbackIs, AnswerIs
  <2> QED
    BY <2>1 DEF Rolls, Answers
<1>10. CASE Deadlock(n)
  <2>1. calls'[n].cause = "deadlock" /\ n \in DOMAIN calls /\ Blocked(n)
    BY <1>10, DeadlockIs
  <2>2. PICK k : k = Awaits(n)
    OBVIOUS
  <2>3. k \in DOMAIN calls /\ Blocked(k)
    BY <1>10, <2>2, DeadlockIs
  <2> QED
    BY <2>1, <2>2, <2>3, DeadlockIsDue
<1>11. CASE Fault(n)
  BY <1>11, FaultIs DEF Due
<1> QED
  BY <1>1, <1>2, <1>3, <1>4, <1>5, <1>6, <1>7, <1>8, <1>9, <1>10, <1>11 DEF Advance

LEMMA CausesNext ==
  ASSUME IInv, Next
  PROVE  FailuresHaveACause'
<1>1. \A n \in DOMAIN calls : IsSave(n) => Due(n, calls[n].cause)
  BY DueIs DEF IInv
<1>2. CASE \E p \in Plugins, save \in Saves : Ask(p, save)
  <2>1. PICK p \in Plugins : Asks(p)
    BY <1>2, AskIs DEF Asks
  <2>2. /\ backend' = backend /\ DOMAIN calls \subseteq DOMAIN calls'
        /\ \A m \in DOMAIN calls : calls'[m] = calls[m]
        /\ DOMAIN calls' = DOMAIN calls \cup {Len(calls) + 1}
        /\ calls'[Len(calls) + 1].cause = "none"
    BY <2>1 DEF Asks, Arrives
  <2> SUFFICES ASSUME NEW n \in DOMAIN calls', IsSave(n)' PROVE Due(n, calls[n].cause)'
    BY DEF FailuresHaveACause, Due
  <2>3. CASE n \in DOMAIN calls
    <3>1. IsSave(n) /\ calls'[n].cause = calls[n].cause
      BY <2>2, <2>3 DEF IsSave, Touched
    <3>2. PICK cause : cause = calls[n].cause
      OBVIOUS
    <3>3. Due(n, cause)
      BY <1>1, <2>3, <3>1, <3>2
    <3>4. Due(n, cause)'
      BY <2>2, <2>3, <3>3, DueKept
    <3> QED
      BY <3>1, <3>2, <3>4 DEF Due
  <2>4. CASE n = Len(calls) + 1
    BY <2>2, <2>4 DEF Due
  <2> QED
    BY <2>2, <2>3, <2>4
<1>3. ASSUME NEW n \in 1..MaxCalls, Advance(n) \/ Fault(n) \/ LoseCommit(n) PROVE FailuresHaveACause'
  <2>1. n \in DOMAIN calls /\ Turned(n) /\ Kinds(n)
    <3>1. CASE Throw(n) \/ Refuse(n) \/ BeginImmediate(n) \/ BeginScoped(n) \/ Begin(n)
      BY <3>1, ThrowIs, RefuseIs, BeginImmediateIs, BeginScopedIs, BeginIs DEF Kinds, Turned
    <3>2. CASE EnsureTables(n) \/ MissTable(n) \/ Create(n) \/ Created(n)
      BY <3>2, EnsureTablesIs, MissTableIs, CreateIs, CreatedIs DEF Kinds, Turned
    <3>3. CASE Select(n) \/ Reject(n) \/ Execute(n) \/ Write(n) \/ RunBatch(n) \/ Lookup(n) \/ Bulk(n)
      BY <3>3, SelectIs, RejectIs, ExecuteIs, WriteIs, RunBatchIs, LookupIs, BulkIs DEF Kinds, Turned
    <3>4. CASE Commit(n) \/ Rollback(n) \/ Answer(n) \/ Deadlock(n) \/ Fault(n) \/ LoseCommit(n)
      BY <3>4, CommitIs, RollbackIs, AnswerIs, DeadlockIs, FaultIs, LoseCommitIs DEF Kinds, Turned
    <3> QED
      BY <1>3, <3>1, <3>2, <3>3, <3>4 DEF Advance
  <2>2. Confined(n)
    BY <2>1, Confines
  <2>3. /\ backend' = backend /\ DOMAIN calls' = DOMAIN calls
        /\ \A m \in DOMAIN calls : m # n => calls'[m] = calls[m]
        /\ \A m \in DOMAIN calls :
             /\ calls'[m].plugin = calls[m].plugin /\ calls'[m].changes = calls[m].changes
             /\ calls'[m].malformed = calls[m].malformed
             /\ calls'[m].expected = calls[m].expected /\ calls[m].landed \subseteq calls'[m].landed
    BY <2>1, <2>2 DEF Turned, Confined
  <2> SUFFICES ASSUME NEW m \in DOMAIN calls, IsSave(m)' PROVE Due(m, calls[m].cause)'
    BY <2>3 DEF FailuresHaveACause, Due
  <2>4. IsSave(m)
    BY <2>3 DEF IsSave, Touched
  <2>5. PICK cause : cause = calls'[m].cause
    OBVIOUS
  <2>6. Due(m, cause)
    <3>1. CASE calls'[m].cause = calls[m].cause
      BY <1>1, <2>4, <2>5, <3>1
    <3>2. CASE calls'[m].cause # calls[m].cause
      <4>1. m = n
        BY <2>3, <3>2
      <4> QED
        BY <1>3, <2>4, <2>5, <3>2, <4>1, NewCause
    <3> QED
      BY <3>1, <3>2
  <2>7. Due(m, cause)'
    BY <2>3, <2>6, DueKept
  <2> QED
    BY <2>5, <2>7 DEF Due
<1> QED
  BY <1>2, <1>3 DEF Next

-----------------------------------------------------------------------------
(* The inductive invariant.                                                *)

LEMMA InitIInv == Init => IInv
<1> SUFFICES ASSUME Init PROVE IInv
  OBVIOUS
<1>1. calls = <<>> /\ calls \in Seq(Call) /\ Len(calls) = 0 /\ DOMAIN calls = {}
  BY EmptySeq DEF Init
<1>2. Typed
  <2>1. /\ backend \in Backends /\ composite \subseteq Composites /\ tables \subseteq Tables
        /\ rows \in [Tables -> {NoRow, OldRow}] /\ owner = [t \in Tables |-> None] /\ creator = owner /\ faults = 0
    BY DEF Init
  <2>2. NoRow \in 0..OldRow /\ OldRow \in 0..OldRow /\ None \in 0..MaxCalls
    BY Bounds DEF NoRow, None
  <2> QED
    BY <1>1, <2>1, <2>2, Bounds DEF Typed
<1>3. Ownership
  BY DEF Init, Ownership, Owned, Creating
<1>4. EachFits /\ EachLands /\ EachWorks /\ EachTurn /\ EachBlamed /\ FailuresHaveACause
  BY <1>1 DEF EachFits, EachLands, EachWorks, EachTurn, EachBlamed, FailuresHaveACause
<1> QED
  BY <1>2, <1>3, <1>4 DEF IInv

LEMMA NextIInv == IInv /\ [Next]_vars => IInv'
<1> SUFFICES ASSUME IInv, [Next]_vars PROVE IInv'
  OBVIOUS
<1>1. CASE Next
  BY <1>1, NextIs, EachFitsNext, EachLandsNext, EachWorksNext, OwnershipNext, EachTurnNext, EachBlamedNext, CausesNext
     DEF IInv
<1>2. CASE UNCHANGED vars
  <2>1. /\ backend' = backend /\ composite' = composite /\ tables' = tables /\ rows' = rows /\ owner' = owner
        /\ creator' = creator /\ calls' = calls /\ faults' = faults
    BY <1>2 DEF vars
  <2>2. Typed'
    BY <2>1 DEF IInv, Typed
  <2>3. \A n : /\ Touched(n)' = Touched(n) /\ (IsSave(n)' <=> IsSave(n)) /\ (Live(n)' <=> Live(n))
               /\ Op(n)' = Op(n) /\ Batch(n)' = Batch(n)
    BY <2>1, SameOp, SameBatch DEF Touched, IsSave, Live
  <2>4. EachFits'
    BY <2>1, FitsKept DEF IInv, EachFits
  <2>5. EachLands'
    BY <2>1, LandsKept DEF IInv, EachLands
  <2>6. EachWorks'
    BY <2>1, WorksSame DEF EachWorks, Waits
  <2>7. Ownership'
    <3> SUFFICES ASSUME NEW t \in Tables PROVE Owned(t)' /\ Creating(t)'
      BY DEF Ownership
    <3>1. /\ owner[t] # None => owner[t] \in DOMAIN calls
          /\ creator[t] # None => creator[t] \in DOMAIN calls
      BY DEF IInv, Ownership, Owned, Creating
    <3>2. \A m \in DOMAIN calls : /\ (owner[t] = m /\ owner'[t] = m) => Owned(t)'
                                  /\ (creator[t] = m /\ creator'[t] = m) => Creating(t)'
      BY <2>1, OwnershipKept
    <3>3. (owner[t] = None => Owned(t)') /\ (creator[t] = None => Creating(t)')
      BY <2>1 DEF Owned, Creating
    <3> QED
      BY <2>1, <3>1, <3>2, <3>3
  <2>8. EachTurn'
    BY <2>1, <2>3 DEF IInv, EachTurn, Turns
  <2>9. EachBlamed'
    <3> SUFFICES ASSUME NEW m \in DOMAIN calls, IsSave(m), NEW t \in Touched(m) PROVE BlamedAt(m, t)'
      BY <2>1, <2>3 DEF EachBlamed, Blamed
    <3>1. BlamedAt(m, t)
      BY DEF IInv, EachBlamed, Blamed
    <3>2. Taken(m, t) => Taken(m, t)'
      BY <2>1, TakenKept
    <3>3. (Live(m)' => Live(m)) /\ (Working(m)' => Working(m))
      BY <2>1 DEF Live, Working
    <3> QED
      BY <2>1, <3>1, <3>2, <3>3, BlamedKept
  <2>10. FailuresHaveACause'
    <3>1. \A n \in DOMAIN calls : IsSave(n) => Due(n, calls[n].cause)
      BY DueIs DEF IInv
    <3> SUFFICES ASSUME NEW n \in DOMAIN calls, IsSave(n) PROVE Due(n, calls[n].cause)'
      BY <2>1, <2>3 DEF FailuresHaveACause, Due
    <3>2. PICK cause : cause = calls[n].cause
      OBVIOUS
    <3>3. Due(n, cause)
      BY <3>1, <3>2
    <3>4. Due(n, cause)'
      BY <2>1, <3>3, DueKept
    <3> QED
      BY <2>1, <3>2, <3>4 DEF Due
  <2> QED
    BY <2>2, <2>4, <2>5, <2>6, <2>7, <2>8, <2>9, <2>10 DEF IInv
<1> QED
  BY <1>1, <1>2

LEMMA Invariant == Spec => []IInv
BY InitIInv, NextIInv, PTL DEF Spec

\* Whatever the database, the saves and the faults: locks are held by calls that arrived, rows are
\* those of a save or the one there was at first, and a call is at one of the steps of its plugin.
THEOREM TypeCorrect == Spec => []TypeOK
<1>1. ASSUME IInv PROVE TypeOK
  <2>1. \A n \in DOMAIN calls : calls[n].step \in Steps
    BY <1>1, CallIs DEF IInv, Call
  <2> QED
    BY <1>1, <2>1 DEF IInv, Typed, TypeOK, Steps
<1> QED
  BY <1>1, Invariant, PTL

\* bulkPersist of the storage plugins fails a save by a fault of the database or of the connection,
\* by what another call did to its rows, or because the plugin refuses it: never because a table
\* had to be created first, and SQLite's chain of writes never meets the lock of its own plugin.
THEOREM FailuresCaused == Spec => []FailuresHaveACause
<1>1. IInv => FailuresHaveACause
  BY DEF IInv
<1> QED
  BY <1>1, Invariant, PTL

-----------------------------------------------------------------------------
(* The plugins keep the promise.                                           *)

\* A call of which its caller has heard.
Over(n) == At(n, "done")

\* The saves, as their callers see them.
Pledges == [n \in DOMAIN calls |-> Promised(n)]

LEMMA PledgeIs ==
  ASSUME NEW n \in DOMAIN calls
  PROVE  /\ Pledges[n] = Promised(n) /\ DOMAIN Promised(n).changes = Touched(n)
         /\ Promised(n).landed = calls[n].landed /\ Promised(n).missed = calls[n].missed
         /\ Promised(n).seen = calls[n].expected
         /\ ~Over(n) => Promised(n).answer = "none"
         /\ \A t \in Touched(n) : /\ Promised(n).changes[t].do = Do(n, t)
<1>1. Pledges[n] = Promised(n)
  BY DEF Pledges
<1>2. /\ Promised(n).landed = calls[n].landed /\ Promised(n).missed = calls[n].missed
      /\ Promised(n).seen = calls[n].expected
      /\ ~Over(n) => Promised(n).answer = "none"
  BY DEF Promised, Over
<1>3. Promised(n).changes = IF backend = "dexie" THEN [t \in Touched(n) |-> [calls[n].changes[t] EXCEPT !.checked = FALSE]]
                                                ELSE calls[n].changes
  BY DEF Promised, Over
<1> QED
  BY <1>1, <1>2, <1>3 DEF Touched, Do

Answered(n) == IF ~Over(n) THEN "none" ELSE IF calls[n].cause = "none" THEN "ok" ELSE "error"

\* A step of one call is a step of its pledge.
LEMMA PledgeMoves ==
  ASSUME NEW n \in DOMAIN calls, Turned(n)
  PROVE  /\ DOMAIN Pledges = DOMAIN calls
         /\ Pledges' = [Pledges EXCEPT ![n] = [changes |-> Promised(n).changes, seen |-> calls[n].expected,
              landed |-> calls'[n].landed, missed |-> calls'[n].missed, unsure |-> calls'[n].cause = "lost",
              answer |-> Answered(n)']]
<1>1. /\ DOMAIN calls' = DOMAIN calls /\ backend' = backend
      /\ calls'[n].changes = calls[n].changes /\ calls'[n].expected = calls[n].expected
      /\ \A m \in DOMAIN calls : m # n => calls'[m] = calls[m]
  BY DEF Turned
<1>2. \A m \in DOMAIN calls : m # n => Promised(m)' = Promised(m)
  BY <1>1 DEF Promised, Touched, Over, At
<1>3. Promised(n)' = [changes |-> Promised(n).changes, seen |-> calls[n].expected,
              landed |-> calls'[n].landed, missed |-> calls'[n].missed, unsure |-> calls'[n].cause = "lost",
              answer |-> Answered(n)']
  BY <1>1 DEF Promised, Touched, Answered, Over
<1>4. Pledges = [m \in DOMAIN calls |-> Promised(m)]
  BY DEF Pledges
<1>5. Pledges' = [m \in DOMAIN calls |-> Promised(m)']
  BY <1>1 DEF Pledges
<1>6. [Pledges EXCEPT ![n] = Promised(n)'] = [m \in DOMAIN calls |-> Promised(m)']
  BY <1>2, <1>4
<1> QED
  BY <1>3, <1>4, <1>5, <1>6

LEMMA PledgeHas ==
  ASSUME NEW n \in DOMAIN calls
  PROVE  Pledges[n] = [changes |-> Promised(n).changes, seen |-> calls[n].expected,
              landed |-> calls[n].landed, missed |-> calls[n].missed, unsure |-> calls[n].cause = "lost",
              answer |-> Answered(n)]
BY DEF Pledges, Promised, Answered, Over

LEMMA PendingIs ==
  ASSUME NEW n \in DOMAIN calls, ~Over(n)
  PROVE  Promise!Pending(n) /\ DOMAIN Pledges[n].changes = Touched(n) /\ n \in DOMAIN Pledges
<1>1. Pledges[n].answer = "none" /\ DOMAIN Pledges[n].changes = Touched(n) /\ DOMAIN Pledges = DOMAIN calls
  BY PledgeIs DEF Pledges
<1> QED
  BY <1>1 DEF Promise!Pending, Pledges

LEMMA ToStutter ==
  ASSUME NEW n \in DOMAIN calls, Turned(n), rows' = rows,
         calls'[n].landed = calls[n].landed, calls'[n].missed = calls[n].missed,
         (calls'[n].cause = "lost") = (calls[n].cause = "lost"), Answered(n)' = Answered(n)
  PROVE  UNCHANGED Promise!vars
<1> DEFINE r == [changes |-> Promised(n).changes, seen |-> calls[n].expected,
              landed |-> calls[n].landed, missed |-> calls[n].missed, unsure |-> calls[n].cause = "lost",
              answer |-> Answered(n)]
<1>1. DOMAIN Pledges = DOMAIN calls /\ Pledges[n] = r
  BY PledgeHas, PledgeMoves
<1>2. Pledges' = [Pledges EXCEPT ![n] = r]
  BY PledgeMoves
<1> HIDE DEF r
<1>3. Pledges' = Pledges
  BY <1>1, <1>2 DEF Pledges
<1>4. backend' = backend
  BY DEF Turned
<1> QED
  BY <1>3, <1>4 DEF Promise!vars, Pledges

LEMMA ToMiss ==
  ASSUME NEW n \in DOMAIN calls, Turned(n), rows' = rows, ~Over(n), ~Over(n)',
         calls'[n].landed = calls[n].landed, (calls'[n].cause = "lost") = (calls[n].cause = "lost"),
         NEW T \in SUBSET Touched(n), \A t \in T : rows[t] = NoRow,
         calls'[n].missed = calls[n].missed \cup T
  PROVE  Promise!Miss(n)
<1> DEFINE r == [changes |-> Promised(n).changes, seen |-> calls[n].expected,
              landed |-> calls[n].landed, missed |-> calls[n].missed, unsure |-> calls[n].cause = "lost",
              answer |-> Answered(n)]
<1>1. DOMAIN Pledges = DOMAIN calls /\ Pledges[n] = r
  BY PledgeHas, PledgeMoves
<1>2. Answered(n)' = Answered(n)
  BY DEF Answered
<1>3. Pledges' = [Pledges EXCEPT ![n] = [changes |-> Promised(n).changes, seen |-> calls[n].expected,
              landed |-> calls[n].landed, missed |-> calls[n].missed \cup T, unsure |-> calls[n].cause = "lost",
              answer |-> Answered(n)]]
  BY <1>2, PledgeMoves
<1>4. [r EXCEPT !.missed = r.missed \cup T] = [changes |-> Promised(n).changes, seen |-> calls[n].expected,
              landed |-> calls[n].landed, missed |-> calls[n].missed \cup T, unsure |-> calls[n].cause = "lost",
              answer |-> Answered(n)]
  OBVIOUS
<1> HIDE DEF r
<1>5. Pledges' = [Pledges EXCEPT ![n].missed = @ \cup T]
  BY <1>1, <1>3, <1>4
<1>6. backend' = backend
  BY DEF Turned
<1>7. Promise!Pending(n) /\ DOMAIN Pledges[n].changes = Touched(n)
  BY PendingIs
<1> QED
  BY <1>5, <1>6, <1>7 DEF Promise!Miss, Pledges

LEMMA ToAnswer ==
  ASSUME NEW n \in DOMAIN calls, Turned(n), rows' = rows, ~Over(n), Over(n)',
         calls'[n].landed = calls[n].landed, calls'[n].missed = calls[n].missed, calls'[n].cause = calls[n].cause,
         \/ Answered(n)' = "ok" /\ calls[n].landed = Touched(n)
         \/ Answered(n)' = "error" /\ (backend \in Transactional => calls[n].landed = {} \/ calls[n].cause = "lost")
  PROVE  Promise!Answer(n)
<1> DEFINE r == [changes |-> Promised(n).changes, seen |-> calls[n].expected,
              landed |-> calls[n].landed, missed |-> calls[n].missed, unsure |-> calls[n].cause = "lost",
              answer |-> Answered(n)]
<1>1. DOMAIN Pledges = DOMAIN calls /\ Pledges[n] = r
  BY PledgeHas, PledgeMoves
<1>2. PICK answer : answer = Answered(n)'
  OBVIOUS
<1>3. Pledges' = [Pledges EXCEPT ![n] = [changes |-> Promised(n).changes, seen |-> calls[n].expected,
              landed |-> calls[n].landed, missed |-> calls[n].missed, unsure |-> calls[n].cause = "lost",
              answer |-> answer]]
  BY <1>2, PledgeMoves
<1>4. /\ [r EXCEPT !.answer = answer] = [changes |-> Promised(n).changes, seen |-> calls[n].expected,
              landed |-> calls[n].landed, missed |-> calls[n].missed, unsure |-> calls[n].cause = "lost",
              answer |-> answer]
      /\ r.landed = calls[n].landed /\ r.unsure = (calls[n].cause = "lost")
  <2>1. r.landed = calls[n].landed
    OBVIOUS
  <2>2. r.unsure = (calls[n].cause = "lost")
    BY Zenon
  <2>3. [r EXCEPT !.answer = answer] = [changes |-> Promised(n).changes, seen |-> calls[n].expected,
              landed |-> calls[n].landed, missed |-> calls[n].missed, unsure |-> calls[n].cause = "lost",
              answer |-> answer]
    OBVIOUS
  <2> QED
    BY <2>1, <2>2, <2>3
<1> HIDE DEF r
<1>5. Pledges' = [Pledges EXCEPT ![n].answer = answer]
  BY <1>1, <1>3, <1>4
<1>6. backend' = backend
  BY DEF Turned
<1>7. Promise!Pending(n) /\ DOMAIN Pledges[n].changes = Touched(n) /\ Pledges[n].landed = calls[n].landed
      /\ (Pledges[n].unsure <=> calls[n].cause = "lost")
  BY <1>1, <1>4, PendingIs
<1>8. CASE answer = "ok" /\ calls[n].landed = Touched(n)
  BY <1>5, <1>6, <1>7, <1>8 DEF Promise!Answer, Pledges
<1>9. CASE answer = "error" /\ (backend \in Transactional => calls[n].landed = {} \/ calls[n].cause = "lost")
  BY <1>5, <1>6, <1>7, <1>9 DEF Promise!Answer, Pledges
<1> QED
  BY <1>2, <1>8, <1>9

\* The rows as they may become when the changes of T land.
Lawful(n, T) ==
  \A t \in Tables : IF t \in T THEN rows'[t] \in Promise!Outcomes(n, t) ELSE Promise!KeptOrVacated(n, t)

LEMMA UnsureSet ==
  ASSUME NEW a, NEW b, NEW c, NEW d, NEW e, NEW f, NEW g
  PROVE  [[changes |-> a, seen |-> b, landed |-> c, missed |-> d, unsure |-> e, answer |-> f] EXCEPT !.unsure = g]
           = [changes |-> a, seen |-> b, landed |-> c, missed |-> d, unsure |-> g, answer |-> f]
OBVIOUS

LEMMA LandedSet ==
  ASSUME NEW a, NEW b, NEW c, NEW d, NEW e, NEW f, NEW g
  PROVE  [[changes |-> a, seen |-> b, landed |-> c, missed |-> d, unsure |-> e, answer |-> f] EXCEPT !.landed = g]
           = [changes |-> a, seen |-> b, landed |-> g, missed |-> d, unsure |-> e, answer |-> f]
OBVIOUS

LEMMA ToLand ==
  ASSUME NEW n \in DOMAIN calls, Turned(n), rows' \in [Tables -> Nat], ~Over(n), ~Over(n)',
         calls'[n].missed = calls[n].missed,
         NEW T \in SUBSET (Touched(n) \ calls[n].landed), T # {},
         backend \in Transactional => T = Touched(n),
         calls'[n].landed = calls[n].landed \cup T,
         Lawful(n, T)
  PROVE  Promise!Land(n)
<1> DEFINE r == [changes |-> Promised(n).changes, seen |-> calls[n].expected,
              landed |-> calls[n].landed, missed |-> calls[n].missed, unsure |-> calls[n].cause = "lost",
              answer |-> Answered(n)]
<1>1. DOMAIN Pledges = DOMAIN calls /\ Pledges[n] = r
  BY PledgeHas, PledgeMoves
<1>2. Answered(n)' = Answered(n)
  BY DEF Answered
<1>3. PICK unsure \in BOOLEAN : unsure = (calls'[n].cause = "lost")
  OBVIOUS
<1>4. Pledges' = [Pledges EXCEPT ![n] = [changes |-> Promised(n).changes, seen |-> calls[n].expected,
              landed |-> calls[n].landed \cup T, missed |-> calls[n].missed, unsure |-> unsure,
              answer |-> Answered(n)]]
  BY <1>2, <1>3, PledgeMoves
<1>5. /\ [r EXCEPT !.landed = r.landed \cup T, !.unsure = unsure] =
              [changes |-> Promised(n).changes, seen |-> calls[n].expected,
              landed |-> calls[n].landed \cup T, missed |-> calls[n].missed, unsure |-> unsure,
              answer |-> Answered(n)]
      /\ r.landed = calls[n].landed
  <2>1. r.landed = calls[n].landed
    OBVIOUS
  <2>2. [r EXCEPT !.landed = r.landed \cup T] =
              [changes |-> Promised(n).changes, seen |-> calls[n].expected,
              landed |-> calls[n].landed \cup T, missed |-> calls[n].missed, unsure |-> calls[n].cause = "lost",
              answer |-> Answered(n)]
    <3> DEFINE landed == calls[n].landed \cup T
    <3>1. r.landed \cup T = landed
      BY <2>1
    <3>2. [r EXCEPT !.landed = landed] =
              [changes |-> Promised(n).changes, seen |-> calls[n].expected,
              landed |-> landed, missed |-> calls[n].missed, unsure |-> calls[n].cause = "lost",
              answer |-> Answered(n)]
      <4> HIDE DEF landed
      <4> QED
        BY LandedSet
    <3> HIDE DEF r
    <3> QED
      BY <3>1, <3>2, Zenon
  <2>3. [r EXCEPT !.landed = r.landed \cup T, !.unsure = unsure] =
              [changes |-> Promised(n).changes, seen |-> calls[n].expected,
              landed |-> calls[n].landed \cup T, missed |-> calls[n].missed, unsure |-> unsure,
              answer |-> Answered(n)]
    <3> DEFINE q == [changes |-> Promised(n).changes, seen |-> calls[n].expected,
              landed |-> calls[n].landed \cup T, missed |-> calls[n].missed, unsure |-> calls[n].cause = "lost",
              answer |-> Answered(n)]
    <3>1. [q EXCEPT !.unsure = unsure] =
              [changes |-> Promised(n).changes, seen |-> calls[n].expected,
              landed |-> calls[n].landed \cup T, missed |-> calls[n].missed, unsure |-> unsure,
              answer |-> Answered(n)]
      BY UnsureSet, SMTT(60)
    <3> HIDE DEF r, q
    <3>2. [r EXCEPT !.landed = r.landed \cup T] = q
      BY <2>2 DEF q
    <3>3. [r EXCEPT !.landed = r.landed \cup T, !.unsure = unsure]
            = [[r EXCEPT !.landed = r.landed \cup T] EXCEPT !.unsure = unsure]
      OBVIOUS
    <3> QED
      BY <3>1, <3>2, <3>3, Zenon
  <2> QED
    BY <2>1, <2>3
<1> HIDE DEF r
<1>6. [Pledges EXCEPT ![n].landed = @ \cup T, ![n].unsure = unsure]
        = [Pledges EXCEPT ![n] = [Pledges[n] EXCEPT !.landed = Pledges[n].landed \cup T, !.unsure = unsure]]
  BY <1>1
<1>7. Pledges' = [Pledges EXCEPT ![n].landed = @ \cup T, ![n].unsure = unsure]
  BY <1>1, <1>4, <1>5, <1>6
<1>8. backend' = backend
  BY DEF Turned
<1>9. Promise!Pending(n) /\ DOMAIN Pledges[n].changes = Touched(n) /\ Pledges[n].landed = calls[n].landed
  BY <1>1, <1>5, PendingIs
<1>10. T \in (SUBSET (DOMAIN Pledges[n].changes \ Pledges[n].landed)) \ {{}}
  <2>1. DOMAIN Pledges[n].changes \ Pledges[n].landed = Touched(n) \ calls[n].landed
    BY <1>9, Zenon
  <2>2. T \in (SUBSET (Touched(n) \ calls[n].landed)) \ {{}}
    OBVIOUS
  <2> QED
    BY <2>1, <2>2, Zenon
<1> QED
  BY <1>3, <1>7, <1>8, <1>9, <1>10 DEF Promise!Land, Pledges, Lawful

LEMMA ToVacate ==
  ASSUME NEW n \in DOMAIN calls, Turned(n), rows' \in [Tables -> Nat], ~Over(n), ~Over(n)',
         calls'[n].landed = calls[n].landed, calls'[n].missed = calls[n].missed,
         (calls'[n].cause = "lost") = (calls[n].cause = "lost"),
         \A t \in Tables : Promise!KeptOrVacated(n, t)
  PROVE  Promise!Vacate(n)
<1> DEFINE r == [changes |-> Promised(n).changes, seen |-> calls[n].expected,
              landed |-> calls[n].landed, missed |-> calls[n].missed, unsure |-> calls[n].cause = "lost",
              answer |-> Answered(n)]
<1>1. DOMAIN Pledges = DOMAIN calls /\ Pledges[n] = r
  BY PledgeHas, PledgeMoves
<1>2. Answered(n)' = Answered(n)
  BY DEF Answered
<1>3. Pledges' = [Pledges EXCEPT ![n] = r]
  BY <1>2, PledgeMoves
<1> HIDE DEF r
<1>4. Pledges' = Pledges
  BY <1>1, <1>3 DEF Pledges
<1>5. backend' = backend /\ Promise!Pending(n)
  BY PendingIs DEF Turned
<1> QED
  BY <1>4, <1>5 DEF Promise!Vacate, Pledges

\* What the row of t may become when call n changes it.
Allowed(n, t, row) ==
  /\ Minds(n, t) => rows[t] = calls[n].expected[t]
  /\ Do(n, t) = "add"     => rows[t] = NoRow /\ row = n
  /\ Do(n, t) = "replace" => row = n
  /\ Do(n, t) = "remove"  => row = NoRow \/ (t \in calls[n].missed /\ row = rows[t])
  /\ Do(n, t) = "update"  => \/ row = n
                             \/ ~Minds(n, t) /\ (t \in calls[n].missed \/ rows[t] = NoRow) /\ row = rows[t]

LEMMA Checked ==
  ASSUME Typed, NEW n \in DOMAIN calls, NEW t \in Touched(n)
  PROVE  Promised(n).changes[t].checked <=> Minds(n, t)
<1>1. Promised(n).changes = IF backend = "dexie" THEN [u \in Touched(n) |-> [calls[n].changes[u] EXCEPT !.checked = FALSE]]
                                                ELSE calls[n].changes
  BY DEF Promised, Over
<1>2. CASE backend = "dexie"
  <2>1. calls[n].changes[t] \in [do : {"add", "replace", "remove", "update"}, checked : BOOLEAN]
    <3>1. calls[n].changes \in ChangeMaps
      BY CallIs DEF Call
    <3> QED
      BY <3>1 DEF ChangeMaps, Touched
  <2>2. [calls[n].changes[t] EXCEPT !.checked = FALSE].checked = FALSE
    BY <2>1
  <2>3. Promised(n).changes[t] = [calls[n].changes[t] EXCEPT !.checked = FALSE]
    BY <1>1, <1>2
  <2> QED
    BY <1>2, <2>2, <2>3 DEF Minds
<1>3. CASE backend # "dexie"
  BY <1>1, <1>3 DEF Minds
<1> QED
  BY <1>2, <1>3

LEMMA ToOutcome ==
  ASSUME Typed, NEW n \in DOMAIN calls, NEW t \in Touched(n), NEW row, Allowed(n, t, row)
  PROVE  row \in Promise!Outcomes(n, t)
<1> DEFINE save   == Pledges[n]
           change == save.changes[t]
           missed == IF t \in save.missed \/ rows[t] = NoRow THEN {rows[t]} ELSE {}
<1>1. /\ change.do = Do(n, t) /\ save.missed = calls[n].missed /\ save.seen = calls[n].expected
      /\ change.checked <=> Minds(n, t)
  BY PledgeIs, Checked
<1>2. Do(n, t) \in {"add", "replace", "remove", "update"}
  BY DoIs
<1>3. Promise!Outcomes(n, t) =
        IF change.checked /\ rows[t] # save.seen[t] THEN {}
        ELSE CASE change.do = "add"     -> IF rows[t] = NoRow THEN {n} ELSE {}
               [] change.do = "replace" -> {n}
               [] change.do = "remove"  -> {NoRow} \cup missed
               [] change.do = "update"  -> {n} \cup IF change.checked THEN {} ELSE missed
  BY DEF Promise!Outcomes, Pledges
<1> HIDE DEF change, save
<1>4. ~(change.checked /\ rows[t] # save.seen[t])
  BY <1>1 DEF Allowed
<1>5. Promise!Outcomes(n, t) =
        CASE change.do = "add"     -> IF rows[t] = NoRow THEN {n} ELSE {}
          [] change.do = "replace" -> {n}
          [] change.do = "remove"  -> {NoRow} \cup missed
          [] change.do = "update"  -> {n} \cup IF change.checked THEN {} ELSE missed
  BY <1>3, <1>4
<1>6. CASE Do(n, t) = "add"
  BY <1>1, <1>5, <1>6 DEF Allowed
<1>7. CASE Do(n, t) = "replace"
  BY <1>1, <1>5, <1>7 DEF Allowed
<1>8. CASE Do(n, t) = "remove"
  <2>1. Promise!Outcomes(n, t) = {NoRow} \cup missed
    BY <1>1, <1>5, <1>8
  <2> QED
    BY <1>1, <1>8, <2>1 DEF Allowed
<1>9. CASE Do(n, t) = "update"
  <2>1. Promise!Outcomes(n, t) = {n} \cup IF change.checked THEN {} ELSE missed
    BY <1>1, <1>5, <1>9
  <2> QED
    BY <1>1, <1>9, <2>1 DEF Allowed
<1> QED
  BY <1>2, <1>6, <1>7, <1>8, <1>9

LEMMA ToKept ==
  ASSUME NEW n \in DOMAIN calls, NEW t,
         \/ rows'[t] = rows[t]
         \/ /\ backend \notin Transactional /\ t \in Touched(n) /\ t \notin calls[n].landed
            /\ Do(n, t) = "replace" /\ rows'[t] = NoRow
  PROVE  Promise!KeptOrVacated(n, t)
<1>1. CASE rows'[t] = rows[t]
  BY <1>1 DEF Promise!KeptOrVacated
<1>2. CASE /\ backend \notin Transactional /\ t \in Touched(n) /\ t \notin calls[n].landed
           /\ Do(n, t) = "replace" /\ rows'[t] = NoRow
  <2>1. DOMAIN Pledges[n].changes = Touched(n) /\ Pledges[n].landed = calls[n].landed
        /\ Pledges[n].changes[t].do = Do(n, t)
    BY <1>2, PledgeIs
  <2>2. Promise!MayVacate(n, t)
    BY <1>2, <2>1 DEF Promise!MayVacate, Pledges
  <2> QED
    BY <1>2, <2>2 DEF Promise!KeptOrVacated
<1> QED
  BY <1>1, <1>2

LEMMA NotOver ==
  ASSUME NEW n
  PROVE  /\ (Live(n) \/ calls[n].step \in {"rollback", "answer"}) => ~Over(n)
         /\ ~Over(n) => Answered(n) = "none"
BY DEF Live, Over, At, Answered

\* Steps that the caller does not see.
LEMMA Unseen ==
  ASSUME IInv, NEW n \in DOMAIN calls, Turned(n),
         Fails(n) \/ Throws(n) \/ Locks(n) \/ Readies(n) \/ Selects(n) \/ Looks(n) \/ Rolls(n)
  PROVE  UNCHANGED Promise!vars
<1>1. StepFits(n)
  BY DEF IInv, EachFits
<1>2. rows' = rows /\ calls'[n].landed = calls[n].landed /\ calls'[n].missed = calls[n].missed
  BY DEF Fails, Throws, Locks, Readies, Selects, Looks, Rolls, Kept, KeptWork, Waits
<1>3. ~Over(n) /\ ~Over(n)'
  BY DEF Fails, Throws, Locks, Readies, Selects, Looks, Rolls, Live, Over, At
<1>4. Answered(n)' = Answered(n)
  BY <1>3 DEF Answered
<1>5. (calls'[n].cause = "lost") = (calls[n].cause = "lost")
  <2>1. CASE Fails(n)
    BY <1>1, <2>1 DEF Fails, StepFits
  <2>2. CASE Throws(n) \/ Locks(n) \/ Readies(n) \/ Selects(n) \/ Looks(n) \/ Rolls(n)
    BY <2>2 DEF Throws, Locks, Readies, Selects, Looks, Rolls
  <2> QED
    BY <2>1, <2>2
<1> QED
  BY <1>2, <1>4, <1>5, ToStutter

\* MongoDB's session finds no row.
LEMMA BeginsMisses ==
  ASSUME IInv, NEW n \in DOMAIN calls, Turned(n), Begins(n)
  PROVE  Promise!Miss(n)
<1>1. Sized(n)
  BY DEF IInv, EachFits
<1>2. PICK T : T = {t \in Touched(n) : backend = "mongo" /\ rows[t] = NoRow}
  OBVIOUS
<1>3. calls[n].missed = {} /\ calls'[n].missed = T
  BY <1>1, <1>2 DEF Begins, Sized
<1>4. /\ rows' = rows /\ calls'[n].landed = calls[n].landed /\ calls'[n].cause = calls[n].cause
  BY DEF Begins, Waits
<1>5. ~Over(n) /\ ~Over(n)'
  BY DEF Begins, Over, At
<1>6. T \in SUBSET Touched(n) /\ \A t \in T : rows[t] = NoRow
  BY <1>2
<1>7. calls'[n].missed = calls[n].missed \cup T
  BY <1>3
<1> QED
  BY <1>4, <1>5, <1>6, <1>7, ToMiss

\* A statement in a transaction is not seen, but for the row it does not find.
LEMMA ExecutesUnseen ==
  ASSUME IInv, NEW n \in DOMAIN calls, Turned(n), Executes(n)
  PROVE  Promise!Miss(n) \/ UNCHANGED Promise!vars
<1>1. /\ calls[n].step = "run" /\ calls[n].work # {} /\ backend \in Locking /\ IsSave(n)
      /\ rows' = rows /\ calls'[n].landed = calls[n].landed /\ calls'[n].cause = calls[n].cause
      /\ calls'[n].step = "run"
  BY ReadyIs DEF Executes
<1>2. PICK op : op = Op(n)
  OBVIOUS
<1>3. PICK t : t = op.table
  OBVIOUS
<1>4. op \in calls[n].work /\ t \in Touched(n) /\ t \in Tables
  BY <1>1, <1>2, <1>3, OpTable
<1>5. ~Over(n) /\ ~Over(n)'
  BY <1>1 DEF Over, At
<1>6. Answered(n)' = Answered(n)
  BY <1>5 DEF Answered
<1>7. CASE ~Misses(n, op)
  BY <1>1, <1>2, <1>6, <1>7, ToStutter DEF Executes
<1>8. CASE Misses(n, op)
  <2>1. calls'[n].missed = calls[n].missed \cup {t}
    BY <1>2, <1>3, <1>8 DEF Executes
  <2>2. op.do # "add" /\ Found(n, t) = NoRow
    BY <1>3, <1>8 DEF Misses
  <2>3. ~InView(n, t)
    <3>1. Placed(n, t)
      BY <1>1, <1>4 DEF IInv, EachWorks, Progress, Live
    <3> QED
      BY <1>1, <1>3, <1>4, <2>2, <3>1, NotYetSeen
  <2>4. CASE backend = "mongo"
    <3>1. calls[n].seen[t] = NoRow
      BY <2>2, <2>3, <2>4 DEF Found, InView
    <3>2. t \in calls[n].missed
      BY <1>1, <1>4, <2>4, <3>1 DEF IInv, EachWorks, Snapshot, Working
    <3>3. calls'[n].missed = calls[n].missed
      BY <2>1, <3>2
    <3> QED
      BY <1>1, <1>6, <3>3, ToStutter
  <2>5. CASE backend # "mongo"
    <3>1. rows[t] = NoRow
      BY <2>2, <2>3, <2>5 DEF Found, InView
    <3>2. {t} \in SUBSET Touched(n) /\ \A u \in {t} : rows[u] = NoRow
      BY <1>4, <3>1
    <3> QED
      BY <1>1, <1>5, <2>1, <3>2, ToMiss
  <2> QED
    BY <2>4, <2>5
<1> QED
  BY <1>7, <1>8

\* What the caller hears is what became of the save.
LEMMA AnswersAnswer ==
  ASSUME IInv, NEW n \in DOMAIN calls, Turned(n), Answers(n)
  PROVE  Promise!Answer(n)
<1>1. /\ rows' = rows /\ calls'[n].landed = calls[n].landed /\ calls'[n].missed = calls[n].missed
      /\ calls'[n].cause = calls[n].cause
  BY DEF Answers, Waits
<1>2. ~Over(n) /\ Over(n)' /\ Answered(n)' = IF calls[n].cause = "none" THEN "ok" ELSE "error"
  BY <1>1 DEF Answers, Over, At, Answered, Turned
<1>3. AllOrNothing(n) /\ OneByOne(n) /\ Sized(n) /\ StepFits(n)
  BY DEF IInv, EachLands, EachFits
<1>4. CASE calls[n].cause = "none"
  <2>1. calls[n].landed = Touched(n)
    <3>1. CASE calls[n].step = "answer" /\ backend \in Transactional
      BY <1>3, <1>4, <3>1 DEF AllOrNothing, Ended
    <3>2. CASE ~IsSave(n)
      BY <1>3, <3>2 DEF Sized, IsSave
    <3>3. CASE calls[n].step = "answer" /\ backend \notin Transactional /\ IsSave(n)
      BY <1>3, <1>4, <3>3 DEF OneByOne, Ended
    <3>4. CASE calls[n].step = "run" /\ calls[n].work = {} /\ backend \notin Transactional /\ IsSave(n)
      BY <1>3, <3>4 DEF OneByOne, Live, Sized
    <3> QED
      BY <3>1, <3>2, <3>3, <3>4 DEF Answers
  <2> QED
    BY <1>1, <1>2, <1>4, <2>1, ToAnswer
<1>5. CASE calls[n].cause # "none"
  <2>1. calls[n].step = "answer"
    BY <1>3, <1>5 DEF Answers, StepFits, Live
  <2>2. backend \in Transactional => calls[n].landed = {} \/ calls[n].cause = "lost"
    BY <1>3, <1>5, <2>1 DEF AllOrNothing, Ended
  <2> QED
    BY <1>1, <1>2, <1>5, <2>2, ToAnswer
<1> QED
  BY <1>4, <1>5

LEMMA RowsTyped ==
  ASSUME Typed'
  PROVE  rows' \in [Tables -> Nat]
BY Bounds DEF Typed

LEMMA MindsUpdates ==
  ASSUME IInv, NEW n \in DOMAIN calls, NEW t \in Touched(n), Minds(n, t)
  PROVE  Do(n, t) = "update" /\ calls[n].expected[t] # NoRow
BY DEF IInv, EachFits, ChangesFit, Minds

\* Where the statements are not in a transaction, each is seen.
LEMMA WritesLand ==
  ASSUME IInv, Typed', NEW n \in DOMAIN calls, Turned(n), Writes(n)
  PROVE  Promise!Land(n) \/ Promise!Vacate(n)
<1>1. /\ calls[n].step = "run" /\ calls[n].work # {} /\ backend = "loose" /\ IsSave(n) /\ Cause(n) = "none"
      /\ calls'[n].missed = calls[n].missed /\ calls'[n].cause = calls[n].cause
      /\ calls'[n].step = "run" /\ backend \notin Transactional /\ backend \notin Locking
  BY ReadyIs, Databases DEF Writes
<1>2. PICK op : op = Op(n)
  OBVIOUS
<1>3. PICK t : t = op.table
  OBVIOUS
<1>4. op \in calls[n].work /\ op \in Batch(n) /\ t \in Touched(n) /\ t \in Tables
  BY <1>1, <1>2, <1>3, OpTable
<1>5. ~Over(n) /\ ~Over(n)' /\ rows' \in [Tables -> Nat]
  BY <1>1, RowsTyped DEF Over, At
<1>6. \A u \in Tables : rows'[u] = IF u = t THEN Written(n, op) ELSE rows[u]
  BY <1>2, <1>3 DEF Writes
<1>7. Found(n, t) = rows[t]
  BY <1>1, ViewsOfOthers DEF Found, InView
<1>8. Refused(n, op) = "none" /\ WorkFits(n) /\ OneByOne(n) /\ ChangesFit(n)
  BY <1>1, <1>2 DEF Cause, IInv, EachFits, EachLands
<1>9. op.checked = calls[n].changes[t].checked /\ op \in OpSet
      /\ (op.do = Do(n, t) \/ (Do(n, t) = "replace" /\ op.do \in {"remove", "add"}))
  BY <1>1, <1>3, <1>4, <1>8, CallIs DEF WorkFits, IInv
<1>10. CASE Lands(n, op)
  <2>1. t \notin calls[n].landed
    BY <1>1, <1>3, <1>4, <1>8, <1>10 DEF OneByOne, Live
  <2>2. calls'[n].landed = calls[n].landed \cup {t}
    BY <1>2, <1>3, <1>10 DEF Writes
  <2>3. PICK row : row = Written(n, op)
    OBVIOUS
  <2>4. Allowed(n, t, row)
    <3>1. CASE op.do = "remove"
      <4>1. Do(n, t) = "remove"
        BY <1>3, <1>10, <3>1 DEF Lands, Do
      <4> QED
        BY <1>4, <2>3, <3>1, <4>1, MindsUpdates DEF Allowed, Written
    <3>2. CASE op.do = "add"
      <4>1. row = n /\ (Do(n, t) = "add" \/ Do(n, t) = "replace")
        BY <1>9, <2>3, <3>2 DEF Written, Misses
      <4>2. rows[t] = NoRow
        BY <1>3, <1>7, <1>8, <3>2 DEF Refused
      <4> QED
        BY <1>4, <4>1, <4>2, MindsUpdates DEF Allowed
    <3>3. CASE op.do = "update"
      <4>1. Do(n, t) = "update"
        BY <1>9, <3>3
      <4>2. Minds(n, t) => rows[t] = calls[n].expected[t]
        BY <1>3, <1>7, <1>8, <1>9, <3>3 DEF Minds, Refused
      <4>3. row = n \/ (row = rows[t] /\ rows[t] = NoRow)
        BY <1>3, <1>7, <2>3, <3>3 DEF Written, Misses
      <4>4. Minds(n, t) => rows[t] # NoRow
        BY <1>4, <4>2, MindsUpdates
      <4> QED
        BY <4>1, <4>2, <4>3, <4>4 DEF Allowed
    <3>4. op.do \in {"remove", "add", "update"}
      BY <1>4, <1>9, DoIs DEF OpSet, IInv
    <3> QED
      BY <3>1, <3>2, <3>3, <3>4
  <2>5. rows'[t] \in Promise!Outcomes(n, t)
    <3>1. row \in Promise!Outcomes(n, t) /\ rows'[t] = row
      BY <1>4, <1>6, <2>3, <2>4, ToOutcome DEF IInv
    <3> QED
      BY <3>1
  <2>6. \A u \in Tables : u # t => Promise!KeptOrVacated(n, u)
    BY <1>6, ToKept
  <2>7. Lawful(n, {t})
    BY <2>5, <2>6 DEF Lawful
  <2>8. {t} \in SUBSET (Touched(n) \ calls[n].landed) /\ {t} # {}
    BY <1>4, <2>1
  <2> QED
    BY <1>1, <1>5, <2>2, <2>7, <2>8, ToLand
<1>11. CASE ~Lands(n, op)
  <2>1. op.do = "remove" /\ Do(n, t) # "remove"
    BY <1>3, <1>11 DEF Lands, Do
  <2>2. Do(n, t) = "replace" /\ Has(n, t, "remove")
    BY <1>3, <1>4, <1>9, <2>1 DEF Has
  <2>3. t \notin calls[n].landed
    BY <1>1, <1>4, <1>8, <2>2 DEF OneByOne, Live
  <2>4. rows'[t] = NoRow
    BY <1>4, <1>6, <2>1 DEF Written
  <2>5. \A u \in Tables : Promise!KeptOrVacated(n, u)
    BY <1>1, <1>4, <1>6, <2>2, <2>3, <2>4, ToKept
  <2>6. calls'[n].landed = calls[n].landed
    BY <1>2, <1>11 DEF Writes
  <2> QED
    BY <1>1, <1>5, <2>5, <2>6, ToVacate
<1> QED
  BY <1>10, <1>11

\* d1's batch lands all of a save.
LEMMA BatchesLand ==
  ASSUME IInv, Typed', NEW n \in DOMAIN calls, Turned(n), Batches(n)
  PROVE  Promise!Land(n)
<1>1. /\ calls[n].step = "run" /\ backend = "d1" /\ IsSave(n) /\ backend \in Transactional
      /\ calls'[n].missed = calls[n].missed /\ calls'[n].step = "answer" /\ calls'[n].landed = Touched(n)
  BY Databases DEF Batches
<1>2. calls[n].landed = {} /\ Touched(n) # {} /\ Touched(n) \subseteq Tables /\ ~Checks(n)
  BY <1>1, CallIs DEF IInv, EachLands, AllOrNothing, Ended, EachFits, StepFits, IsSave
<1>3. ~Over(n) /\ ~Over(n)' /\ rows' \in [Tables -> Nat]
  BY <1>1, RowsTyped DEF Over, At
<1>4. ASSUME NEW t \in Touched(n)
      PROVE  rows'[t] \in Promise!Outcomes(n, t)
  <2>1. PICK row : row = rows'[t]
    OBVIOUS
  <2>2. row = IF Do(n, t) = "remove" \/ (Do(n, t) = "update" /\ rows[t] = NoRow) THEN NoRow ELSE n
    BY <1>2, <2>1 DEF Batches
  <2>3. (Do(n, t) = "add" => rows[t] = NoRow) /\ ~Minds(n, t)
    BY <1>2 DEF Batches, Minds, Checks
  <2>4. Allowed(n, t, row)
    BY <2>2, <2>3 DEF Allowed
  <2> QED
    BY <2>1, <2>4, ToOutcome DEF IInv
<1>5. \A t \in Tables : t \notin Touched(n) => Promise!KeptOrVacated(n, t)
  BY ToKept DEF Batches
<1>6. Lawful(n, Touched(n))
  BY <1>4, <1>5 DEF Lawful
<1>7. Touched(n) \in SUBSET (Touched(n) \ calls[n].landed) /\ calls'[n].landed = calls[n].landed \cup Touched(n)
  BY <1>1, <1>2
<1> QED
  BY <1>1, <1>2, <1>3, <1>6, <1>7, ToLand

\* A commit lands all that was written under the locks.
LEMMA CommitsLand ==
  ASSUME IInv, Typed', NEW n \in DOMAIN calls, Turned(n), Commits(n)
  PROVE  Promise!Land(n)
<1>1. /\ calls[n].step = "run" /\ calls[n].work = {} /\ IsSave(n) /\ backend \in Locking /\ backend \in Transactional
      /\ calls'[n].missed = calls[n].missed /\ calls'[n].step = "answer" /\ calls'[n].landed = Touched(n)
  BY Databases DEF Commits
<1>2. /\ calls[n].landed = {} /\ Touched(n) # {} /\ Touched(n) \subseteq Tables
      /\ DOMAIN calls[n].view \subseteq Touched(n)
  BY <1>1, CallIs DEF IInv, EachLands, AllOrNothing, Ended, EachFits, Sized, IsSave
<1>3. ~Over(n) /\ ~Over(n)' /\ rows' \in [Tables -> Nat]
  BY <1>1, RowsTyped DEF Over, At
<1>4. \A t \in Tables : rows'[t] = IF InView(n, t) THEN calls[n].view[t] ELSE rows[t]
  BY DEF Commits
<1>5. ASSUME NEW t \in Touched(n)
      PROVE  rows'[t] \in Promise!Outcomes(n, t)
  <2>1. PICK row : row = rows'[t]
    OBVIOUS
  <2>2. (InView(n, t) => row = calls[n].view[t]) /\ (~InView(n, t) => row = rows[t])
    BY <1>2, <1>4, <2>1
  <2>3. Placed(n, t)
    BY <1>1 DEF IInv, EachWorks, Progress, Live
  <2>4. \A do : ~Has(n, t, do)
    BY <1>1 DEF Has
  <2>5. Do(n, t) = "add" => Allowed(n, t, row)
    <3> HAVE Do(n, t) = "add"
    <3>1. row = n /\ rows[t] = NoRow
      BY <2>2, <2>3, <2>4 DEF Placed, AddAt, Shows
    <3> QED
      BY <3>1, MindsUpdates DEF Allowed
  <2>6. Do(n, t) = "remove" => Allowed(n, t, row)
    <3> HAVE Do(n, t) = "remove"
    <3>1. row = NoRow \/ (row = rows[t] /\ t \in calls[n].missed)
      BY <2>2, <2>3, <2>4 DEF Placed, RemoveAt, Shows
    <3> QED
      BY <3>1, MindsUpdates DEF Allowed
  <2>7. Do(n, t) = "update" => Allowed(n, t, row)
    <3> HAVE Do(n, t) = "update"
    <3>1. \/ row = n /\ (Minds(n, t) => rows[t] = calls[n].expected[t])
          \/ row = rows[t] /\ t \in calls[n].missed /\ ~Minds(n, t)
      BY <2>2, <2>3, <2>4 DEF Placed, UpdateAt, Shows
    <3> QED
      BY <3>1 DEF Allowed
  <2>8. Do(n, t) = "replace" => Allowed(n, t, row)
    <3> HAVE Do(n, t) = "replace"
    <3>1. row = n
      BY <2>2, <2>3, <2>4 DEF Placed, ReplaceAt, Shows
    <3> QED
      BY <3>1, MindsUpdates DEF Allowed
  <2>9. Allowed(n, t, row)
    BY <2>5, <2>6, <2>7, <2>8, DoIs DEF IInv
  <2> QED
    BY <2>1, <2>9, ToOutcome DEF IInv
<1>6. \A t \in Tables : t \notin Touched(n) => rows'[t] = rows[t]
  BY <1>2, <1>4 DEF InView
<1>7. Lawful(n, Touched(n))
  BY <1>5, <1>6, ToKept DEF Lawful
<1>8. Touched(n) \in SUBSET (Touched(n) \ calls[n].landed) /\ calls'[n].landed = calls[n].landed \cup Touched(n)
  BY <1>1, <1>2
<1> QED
  BY <1>1, <1>2, <1>3, <1>7, <1>8, ToLand

\* bulkDocs lands the documents it takes; a replaced one is gone before its successor is stored.
LEMMA BulksLand ==
  ASSUME IInv, Typed', NEW n \in DOMAIN calls, Turned(n), Bulks(n)
  PROVE  Promise!Land(n) \/ Promise!Vacate(n)
<1>1. /\ backend = "pouch" /\ IsSave(n) /\ calls[n].work # {} /\ backend \notin Transactional
      /\ calls[n].step = "bulk" \/ (calls[n].step = "run" /\ \A op \in Batch(n) : op.do = "add")
      /\ calls'[n].missed = calls[n].missed /\ calls'[n].cause # "lost" /\ Live(n)
      /\ calls'[n].step \in {"run", "answer"}
  <2>1. Live(n) /\ calls[n].cause = "none"
    BY DEF Bulks, Live, IInv, EachFits, StepFits
  <2> QED
    BY <2>1, Databases DEF Bulks
<1>2. ~Over(n) /\ ~Over(n)' /\ rows' \in [Tables -> Nat] /\ calls[n].cause # "lost"
  BY <1>1, RowsTyped DEF Over, At, Live, IInv, EachFits, StepFits
<1>3. /\ WorkFits(n) /\ OneByOne(n) /\ ChangesFit(n) /\ StepFits(n)
      /\ Good(n) \subseteq Batch(n) /\ Batch(n) \subseteq calls[n].work
  BY DEF IInv, EachFits, EachLands, Good, Batch, First
<1>4. \A op \in Good(n) :
        /\ op.table \in Touched(n) /\ op.checked = calls[n].changes[op.table].checked
        /\ op.do \in {"remove", "add", "update"}
        /\ op.do = Do(n, op.table) \/ (Do(n, op.table) = "replace" /\ op.do \in {"remove", "add"})
        /\ rows[op.table] = IF op.do = "add" THEN NoRow ELSE calls[n].seen[op.table]
  <2> TAKE op \in Good(n)
  <2>1. op \in calls[n].work /\ op \in OpSet
    BY <1>3, CallIs DEF IInv
  <2>2. /\ op.table \in Touched(n) /\ op.checked = calls[n].changes[op.table].checked
        /\ op.do = Do(n, op.table) \/ (Do(n, op.table) = "replace" /\ op.do \in {"remove", "add"})
    BY <1>1, <1>3, <2>1 DEF WorkFits
  <2>3. op.do # "read"
    BY <2>2, DoIs DEF IInv
  <2> QED
    BY <2>1, <2>2, <2>3 DEF OpSet, Good
<1>5. PICK T : T = {op.table : op \in {o \in Good(n) : Lands(n, o)}}
  OBVIOUS
<1>6. calls'[n].landed = calls[n].landed \cup T
  BY <1>5 DEF Bulks
<1>7. \A t \in Tables :
        rows'[t] = IF \E op \in Good(n) : op.table = t
                     THEN IF \E op \in Good(n) : op.table = t /\ op.do = "remove" THEN NoRow ELSE n
                     ELSE rows[t]
  BY DEF Bulks
<1>8. ASSUME NEW t \in Tables, t \notin T
      PROVE  Promise!KeptOrVacated(n, t)
  <2>1. CASE ~ \E op \in Good(n) : op.table = t
    BY <1>7, <2>1, ToKept
  <2>2. CASE \E op \in Good(n) : op.table = t
    <3>1. PICK op \in Good(n) : op.table = t
      BY <2>2
    <3>2. ~Lands(n, op)
      BY <1>5, <1>8, <3>1
    <3>3. op.do = "remove" /\ Do(n, t) # "remove"
      BY <3>1, <3>2 DEF Lands, Do
    <3>4. Do(n, t) = "replace" /\ t \in Touched(n) /\ Has(n, t, "remove")
      BY <1>3, <1>4, <3>1, <3>3 DEF Has
    <3>5. t \notin calls[n].landed
      BY <1>1, <1>3, <3>4 DEF OneByOne
    <3>6. rows'[t] = NoRow
      BY <1>7, <3>1, <3>3
    <3> QED
      BY <1>1, <3>4, <3>5, <3>6, ToKept
  <2> QED
    BY <2>1, <2>2
<1>9. ASSUME NEW t \in T
      PROVE  t \in Touched(n) /\ t \notin calls[n].landed /\ rows'[t] \in Promise!Outcomes(n, t)
  <2>1. PICK op \in Good(n) : op.table = t /\ Lands(n, op)
    BY <1>5
  <2>2. op \in calls[n].work /\ op \in Batch(n) /\ t \in Touched(n) /\ t \in Tables
    BY <1>3, <1>4, <2>1, CallIs DEF IInv
  <2>3. t \notin calls[n].landed
    BY <1>1, <1>3, <2>1, <2>2 DEF OneByOne
  <2>4. PICK row : row = rows'[t]
    OBVIOUS
  <2>5. Allowed(n, t, row)
    <3>1. CASE op.do = "remove"
      <4>1. Do(n, t) = "remove" /\ row = NoRow
        BY <1>7, <2>1, <2>2, <2>4, <3>1 DEF Lands, Do
      <4> QED
        BY <2>2, <4>1, MindsUpdates DEF Allowed
    <3>2. CASE op.do = "add"
      <4>1. ~Has(n, t, "remove")
        BY <1>1, <2>1, <2>2, <3>2, NoRemovalLeft
      <4>2. row = n
        BY <1>3, <1>7, <2>1, <2>2, <2>4, <4>1 DEF Has
      <4>3. rows[t] = NoRow /\ (Do(n, t) = "add" \/ Do(n, t) = "replace")
        BY <1>4, <2>1, <3>2
      <4> QED
        BY <2>2, <4>2, <4>3, MindsUpdates DEF Allowed
    <3>3. CASE op.do = "update"
      <4>1. Do(n, t) = "update"
        BY <1>4, <2>1, <3>3
      <4>2. row = n
        BY <1>4, <1>7, <2>1, <2>2, <2>4, <4>1
      <4>3. calls[n].step = "bulk"
        BY <1>1, <2>2, <3>3
      <4>4. Minds(n, t) => op.checked
        BY <1>4, <2>1 DEF Minds
      <4>5. op.checked => calls[n].seen[t] = calls[n].expected[t]
        BY <1>3, <2>1, <2>2, <4>3 DEF StepFits
      <4>6. rows[t] = calls[n].seen[t]
        BY <1>4, <2>1, <3>3
      <4> QED
        BY <4>1, <4>2, <4>4, <4>5, <4>6 DEF Allowed
    <3> QED
      BY <1>4, <2>1, <3>1, <3>2, <3>3
  <2>6. rows'[t] \in Promise!Outcomes(n, t)
    BY <2>2, <2>4, <2>5, ToOutcome DEF IInv
  <2> QED
    BY <2>2, <2>3, <2>6
<1>10. CASE T = {}
  <2>1. calls'[n].landed = calls[n].landed
    BY <1>6, <1>10
  <2>2. (calls'[n].cause = "lost") = (calls[n].cause = "lost")
    BY <1>1, <1>2
  <2>3. \A t \in Tables : Promise!KeptOrVacated(n, t)
    BY <1>8, <1>10
  <2> QED
    BY <1>1, <1>2, <2>1, <2>2, <2>3, ToVacate
<1>11. CASE T # {}
  <2>1. T \in SUBSET (Touched(n) \ calls[n].landed)
    BY <1>9
  <2>2. Lawful(n, T)
    BY <1>8, <1>9 DEF Lawful
  <2> QED
    BY <1>1, <1>2, <1>6, <1>11, <2>1, <2>2, ToLand
<1> QED
  BY <1>10, <1>11

\* A call that arrives is a save that has seen the rows.
LEMMA AsksAsk ==
  ASSUME IInv, NEW p, Asks(p)
  PROVE  Promise!Ask
<1>1. PICK k : k = Len(calls) + 1
  OBVIOUS
<1>2. /\ Len(calls) \in Nat /\ k \in Nat /\ DOMAIN calls = 1..Len(calls) /\ DOMAIN calls' = 1..k
      /\ k \notin DOMAIN calls /\ k \in DOMAIN calls'
      /\ \A m \in DOMAIN calls : calls'[m] = calls[m]
      /\ Arrives(calls'[k], p) /\ backend' = backend /\ rows' = rows
  BY <1>1 DEF Asks, Waits
<1>3. \A m \in DOMAIN calls : Promised(m)' = Promised(m)
  <2> TAKE m \in DOMAIN calls
  <2>1. calls'[m] = calls[m] /\ m \in DOMAIN calls' /\ backend' = backend
    BY <1>2
  <2>2. Touched(m)' = Touched(m) /\ (Over(m)' <=> Over(m))
    BY <2>1 DEF Touched, Over, At
  <2> QED
    BY <2>1, <2>2 DEF Promised, Over
<1>4. /\ calls'[k].step = "start" /\ calls'[k].cause = "none" /\ calls'[k].expected = rows
      /\ calls'[k].landed = {} /\ calls'[k].missed = {}
  BY <1>2 DEF Arrives
<1>5. /\ Pledges = [m \in 1..Len(calls) |-> Promised(m)] /\ Len(Pledges) = Len(calls)
      /\ Pledges' = [m \in 1..k |-> Promised(m)'] /\ Len(Pledges') = k
  <2>1. Pledges = [m \in 1..Len(calls) |-> Promised(m)] /\ Pledges' = [m \in 1..k |-> Promised(m)']
    BY <1>2 DEF Pledges
  <2> QED
    BY <1>2, <2>1
<1>6. Pledges'[k] = Promise!Fresh(Pledges'[k].changes)
  <2>1. Pledges'[k] = Promised(k)'
    BY <1>2, <1>5
  <2>2. ~Over(k)' /\ Answered(k)' = "none"
    BY <1>4 DEF Over, At, Answered
  <2>3. Promised(k)' = [changes |-> Promised(k)'.changes, seen |-> rows, landed |-> {}, missed |-> {},
                        unsure |-> FALSE, answer |-> "none"]
    BY <1>4, <2>2 DEF Promised, Over
  <2> QED
    BY <2>1, <2>3 DEF Promise!Fresh
<1>7. Pledges' = Append(Pledges, Pledges'[k])
  <2>1. PICK e : e = Pledges'[k]
    OBVIOUS
  <2>2. PICK S : S = {Pledges[m] : m \in 1..Len(calls)} \cup {e}
    OBVIOUS
  <2>3. Pledges \in Seq(S) /\ e \in S
    BY <1>2, <1>5, <2>2, SeqDef
  <2>4. PICK longer : longer = Append(Pledges, e)
    OBVIOUS
  <2>5. /\ longer \in Seq(S) /\ Len(longer) = k /\ longer[k] = e
        /\ \A m \in 1..Len(calls) : longer[m] = Pledges[m]
    BY <1>1, <1>5, <2>3, <2>4, AppendProperties
  <2>6. longer = [m \in 1..k |-> longer[m]]
    BY <2>5, LenProperties
  <2>7. \A m \in 1..k : longer[m] = Promised(m)'
    <3> TAKE m \in 1..k
    <3>1. CASE m = k
      BY <1>5, <2>1, <2>5, <3>1
    <3>2. CASE m # k
      <4>1. m \in 1..Len(calls) /\ m \in DOMAIN calls
        BY <1>1, <1>2, <3>2
      <4>2. Pledges[m] = Promised(m)
        BY <1>5, <4>1
      <4> QED
        BY <1>3, <2>5, <4>1, <4>2
    <3> QED
      BY <3>1, <3>2
  <2>8. longer = Pledges'
    BY <1>5, <2>6, <2>7
  <2> QED
    BY <2>1, <2>4, <2>8
<1> QED
  BY <1>1, <1>2, <1>5, <1>6, <1>7 DEF Promise!Ask, Pledges

\* Every step of the plugins is a step of the promise, or one that no caller sees.
LEMMA StepsPromised ==
  ASSUME IInv, Typed', NEW n \in DOMAIN calls, Turned(n), Kinds(n)
  PROVE  \/ UNCHANGED Promise!vars
         \/ Promise!Miss(n) \/ Promise!Land(n) \/ Promise!Vacate(n) \/ Promise!Answer(n)
<1>1. CASE Fails(n) \/ Throws(n) \/ Locks(n) \/ Readies(n) \/ Selects(n) \/ Looks(n) \/ Rolls(n)
  BY <1>1, Unseen
<1>2. CASE Begins(n) \/ Executes(n)
  BY <1>2, BeginsMisses, ExecutesUnseen
<1>3. CASE Answers(n)
  BY <1>3, AnswersAnswer
<1>4. CASE Writes(n) \/ Batches(n) \/ Bulks(n) \/ Commits(n)
  BY <1>4, WritesLand, BatchesLand, BulksLand, CommitsLand
<1> QED
  BY <1>1, <1>2, <1>3, <1>4 DEF Kinds

LEMMA NextPromised ==
  ASSUME IInv, [Next]_vars
  PROVE  [Promise!Next]_(Promise!vars)
<1>1. CASE Next
  <2>1. Typed'
    BY <1>1, NextIs
  <2>2. CASE \E p \in Plugins : Asks(p)
    BY <2>2, AsksAsk DEF Promise!Next
  <2>3. CASE \E n \in DOMAIN calls : Turned(n) /\ Kinds(n)
    <3>1. PICK n \in DOMAIN calls : Turned(n) /\ Kinds(n)
      BY <2>3
    <3>2. n \in DOMAIN Pledges
      BY DEF Pledges
    <3>3. CASE UNCHANGED Promise!vars
      BY <3>3
    <3>4. CASE Promise!Miss(n) \/ Promise!Land(n) \/ Promise!Vacate(n) \/ Promise!Answer(n)
      BY <3>2, <3>4 DEF Promise!Next, Pledges
    <3> QED
      BY <2>1, <3>1, <3>3, <3>4, StepsPromised
  <2> QED
    BY <1>1, <2>2, <2>3, NextIs
<1>2. CASE UNCHANGED vars
  <2>1. backend' = backend /\ rows' = rows /\ calls' = calls
    BY <1>2 DEF vars
  <2>2. \A n : Promised(n)' = Promised(n)
    BY <2>1 DEF Promised, Touched, Over, At
  <2>3. Pledges' = Pledges
    BY <2>1, <2>2 DEF Pledges
  <2> QED
    BY <2>1, <2>3 DEF Promise!vars, Pledges
<1> QED
  BY <1>1, <1>2

LEMMA InitPromised == Init => Promise!Init
<1> SUFFICES ASSUME Init PROVE Promise!Init
  OBVIOUS
<1>1. calls = <<>> /\ DOMAIN calls = {}
  BY EmptySeq DEF Init
<1>2. Pledges = <<>>
  BY <1>1 DEF Pledges
<1>3. rows \in [Tables -> Nat]
  BY Bounds DEF Init, NoRow
<1> QED
  BY <1>2, <1>3 DEF Promise!Init, Pledges

\* bulkPersist of every storage plugin applies all of a save and answers success, or answers an
\* error; where the database has transactions the changes land together, and after an error none
\* has landed unless the answer of the commit was lost. A checked change lands only on the row its
\* caller had seen.
THEOREM PromiseRefined == Spec => PromiseKept
<1>1. Init => Promise!Init
  BY InitPromised
<1>2. IInv /\ [Next]_vars => [Promise!Next]_(Promise!vars)
  BY NextPromised
<1> QED
  BY <1>1, <1>2, Invariant, PTL DEF Spec, PromiseKept, Promise!Spec

=============================================================================
