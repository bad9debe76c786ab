----------------------- MODULE OptimisticUpdatesProofs -----------------------
(***************************************************************************)
(* Proofs about OptimisticUpdatesDbPlugin and the PluginSyncEngine it runs *)
(* on, for any plugins, rows, options and number of saves: the source      *)
(* decides what the mirrors are sent and what the caller is told, memory   *)
(* shows its own changes, and once nothing is under way a mirror agrees    *)
(* with the source.                                                        *)
(*                                                                         *)
(* The first follows from the order of the calls of one save (Orderly).    *)
(* The others rest on the latest save of a row.  Of two saves of a row     *)
(* that did not cross, the earlier one is over (OneAtATime), so whoever    *)
(* carries out a save of the row carries out the latest one: a plugin that *)
(* has done it holds its row (LatestStored).  The memory plugin does it    *)
(* within the save, and only a hydration may write the row again; none can *)
(* be under way unless it began before the first save (OnlyInMemory).      *)
(***************************************************************************)
EXTENDS OptimisticUpdatesDbPlugin, WellFoundedInduction, TLAPS

Untouched == \A p \in Plugins : destroyed[p] = NoCall
Latest(n) == \A m \in Made : saves[m].id = saves[n].id => m <= n

\* The plugins that have applied a save whose caller is told "ok".
Promised == {Source} \cup IF opts.ack = "after-all" /\ opts.failure = "surface"
                            THEN opts.mirrors ELSE {}

SaveSet == [id : Ids, row : RowValues, calls : [Plugins -> Calls],
            told : {"none", "ok", "error"}]

-----------------------------------------------------------------------------
(* The inductive invariant.                                                 *)

CallOrderly(call) ==
  /\ call.answer = "ok" => call.doing = "done"
  /\ call.doing = "none" => call = NoCall

\* The mirrors are called when the source has answered, the caller is told after both.
Orderly(save) ==
  /\ \A p \in Plugins : CallOrderly(save.calls[p])
  /\ \A p \in Mirrors : save.calls[p] # NoCall => save.calls[Source].answer = "ok"
  /\ save.calls[Source].answer = "ok" => \A p \in opts.mirrors : save.calls[p] # NoCall
  /\ save.calls[Source].answer = "none" => save.told = "none"
  /\ save.told = "ok" => \A p \in Promised : save.calls[p].doing = "done"

AllOrderly == \A n \in Numbers : Orderly(saves[n])

InOrder == \A n \in Made, m \in Numbers : m < n => m \in Made

\* The memory plugin answers at once; a hydration began before the first save.
OnlyInMemory ==
  /\ opts.memory => \A n \in Made : saves[n].calls[Source].answer = "ok"
  /\ opts.memory /\ ~written => Made = {}
  /\ ~opts.memory => hydration.step = "none"
  /\ Underway => \A n \in Made : saves[n].id \in overtaken

OneAtATime ==
  \A m, n \in Made :
    m < n /\ saves[m].id = saves[n].id /\ m \notin crossed /\ n \notin crossed => ~Pending(m)

\* Nothing that MirrorsAgree excepts happened to the saves of the row.
Smooth(i) ==
  /\ i \notin overtaken
  /\ \A m \in Made : saves[m].id = i =>
       m \notin crossed /\ \A q \in Composed : ~Failed(saves[m].calls[q])

LatestStored ==
  Untouched =>
    \A n \in Made, p \in Composed :
      Latest(n) /\ Smooth(saves[n].id) /\ saves[n].calls[p].doing = "done"
        => tables[p][saves[n].id] = saves[n].row

IInv ==
  /\ TypeOK
  /\ AllOrderly
  /\ InOrder
  /\ OnlyInMemory
  /\ OneAtATime
  /\ LatestStored
  /\ OwnChangesShown

-----------------------------------------------------------------------------
(* The constants, and the latest of some saves.                             *)

LEMMA OptionsType ==
  ASSUME opts \in Options
  PROVE  /\ opts.ack \in {"after-source", "after-all"}
         /\ opts.failure \in {"swallow", "surface"}
         /\ opts.memory \in BOOLEAN
         /\ opts.mirrors \subseteq Mirrors
         /\ Composed \subseteq Plugins
BY EngineAssumption DEF Composed, Plugins

LEMMA WrappedType ==
  ASSUME opts \in Options, opts.memory
  PROVE  Wrapped \in opts.mirrors /\ Wrapped \in Plugins
BY OptionsType, WrappedAssumption DEF Wrapped, Plugins

LEMMA Greatest ==
  ASSUME NEW S \in SUBSET Numbers, S # {}
  PROVE  \E x \in S : \A y \in S : y <= x
<1> DEFINE T == {MaxSaves - x : x \in S}
<1> USE EngineAssumption DEF Numbers
<1>1. T \subseteq Nat /\ T # {}
  <2>1. \A x \in S : MaxSaves - x \in Nat
    OBVIOUS
  <2>2. PICK x \in S : TRUE
    OBVIOUS
  <2>3. MaxSaves - x \in T
    OBVIOUS
  <2> QED
    BY <2>1, <2>3
<1>2. \E t \in T : \A u \in T : ~(u < t)
  <2> HIDE DEF T
  <2>1. \E t \in T : \A u \in T : <<u, t>> \notin OpToRel(<, Nat)
    BY <1>1, NatLessThanWellFounded, WFMin, Zenon
  <2> QED
    BY <1>1, <2>1 DEF OpToRel
<1>3. PICK x \in S : \A u \in T : ~(u < MaxSaves - x)
  BY <1>2
<1>4. \A y \in S : y <= x
  <2> TAKE y \in S
  <2>1. MaxSaves - y \in T
    OBVIOUS
  <2>2. ~(MaxSaves - y < MaxSaves - x)
    BY <1>3, <2>1
  <2> QED
    BY <2>2
<1> QED
  BY <1>4

-----------------------------------------------------------------------------
(* One save goes on: what a step does to it, whatever the step.             *)

\* The save keeps what it changes, its calls, their failures and the source's success.
Kept(s, t) ==
  /\ t.id = s.id /\ t.row = s.row
  /\ s.calls[Source].answer = "ok" => t.calls[Source].answer = "ok"
  /\ \A p \in Plugins : /\ s.calls[p] # NoCall => t.calls[p] # NoCall
                        /\ Failed(s.calls[p]) => Failed(t.calls[p])

\* An answer that counts, and the call it makes of the old one.
AnswerCounts(s, p, answer) ==
  /\ p \in Plugins /\ answer \in {"ok", "error"}
  /\ s.calls[p] # NoCall /\ s.calls[p].answer = "none"
  /\ answer = "ok" => s.calls[p].doing = "done"

Answered(s, p, answer) == [s.calls EXCEPT ![p] = [@ EXCEPT !.answer = answer]]

LEMMA AnsweredType ==
  ASSUME NEW s \in SaveSet, NEW p \in Plugins, NEW answer \in {"ok", "error"}
  PROVE  /\ Answered(s, p, answer) \in [Plugins -> Calls]
         /\ Answered(s, p, answer)[p].doing = s.calls[p].doing
         /\ Answered(s, p, answer)[p].answer = answer
         /\ \A q \in Plugins : q # p => Answered(s, p, answer)[q] = s.calls[q]
BY DEF Answered, SaveSet, Calls

\* The save after the answer of the source.
LEMMA ContinuedBySource ==
  ASSUME opts \in Options, NEW s \in SaveSet, NEW answer, AnswerCounts(s, Source, answer)
  PROVE  LET t == Continued(s, Source, answer)
             calls == Answered(s, Source, answer)
         IN  /\ t.id = s.id /\ t.row = s.row
             /\ t.calls = IF answer = "ok"
                            THEN [q \in Plugins |-> IF q \in opts.mirrors THEN Asked ELSE calls[q]]
                            ELSE calls
             /\ t.told = IF answer = "error" THEN "error"
                         ELSE IF opts.mirrors = {} \/ opts.ack = "after-source" THEN "ok"
                         ELSE s.told
             /\ t \in SaveSet
<1>1. Source \in Plugins /\ answer \in {"ok", "error"}
  BY DEF Plugins, AnswerCounts
<1>2. [s.calls EXCEPT ![Source] = Settled(@, answer)] = Answered(s, Source, answer)
  BY DEF AnswerCounts, Settled, Answered
<1>3. Answered(s, Source, answer) \in [Plugins -> Calls]
  BY <1>1, AnsweredType
<1>4. Asked \in Calls
  BY DEF Asked, Calls
<1> QED
  BY <1>1, <1>2, <1>3, <1>4 DEF Continued, SaveSet

\* The save after the answer of a mirror.
LEMMA ContinuedByMirror ==
  ASSUME opts \in Options, NEW s \in SaveSet, NEW p, p # Source, NEW answer,
         AnswerCounts(s, p, answer)
  PROVE  LET t == Continued(s, p, answer)
             calls == Answered(s, p, answer)
         IN  /\ t.id = s.id /\ t.row = s.row
             /\ t.calls = calls
             /\ t.told = IF opts.ack = "after-all" /\ AllAnswered(calls, opts.mirrors)
                           THEN VerdictOfMirrors(calls) ELSE s.told
             /\ t \in SaveSet
<1>1. p \in Plugins /\ answer \in {"ok", "error"}
  BY DEF AnswerCounts
<1>2. [s.calls EXCEPT ![p] = Settled(@, answer)] = Answered(s, p, answer)
  BY DEF AnswerCounts, Settled, Answered
<1>3. Answered(s, p, answer) \in [Plugins -> Calls]
  BY <1>1, AnsweredType
<1>4. VerdictOfMirrors(Answered(s, p, answer)) \in {"ok", "error"}
  BY DEF VerdictOfMirrors
<1> QED
  BY <1>1, <1>2, <1>3, <1>4 DEF Continued, SaveSet

\* Whoever answers, the calls stay in order and no plugin does anything.
LEMMA ContinuedOrderly ==
  ASSUME opts \in Options, NEW s \in SaveSet, Orderly(s), NEW p, NEW answer,
         AnswerCounts(s, p, answer)
  PROVE  LET t == Continued(s, p, answer)
         IN  /\ t \in SaveSet /\ Orderly(t) /\ Kept(s, t)
             /\ \A q \in Plugins : t.calls[q].doing = "done" => s.calls[q].doing = "done"
<1> DEFINE t == Continued(s, p, answer)
           calls == Answered(s, p, answer)
<1>1. p \in Plugins /\ answer \in {"ok", "error"}
  BY DEF AnswerCounts
<1>2. /\ calls \in [Plugins -> Calls]
      /\ calls[p].doing = s.calls[p].doing /\ calls[p].answer = answer
      /\ \A q \in Plugins : q # p => calls[q] = s.calls[q]
  BY <1>1, AnsweredType
<1>3. /\ Source \in Plugins /\ Mirrors \subseteq Plugins /\ Source \notin Mirrors
      /\ opts.mirrors \subseteq Mirrors
  BY OptionsType, EngineAssumption DEF Plugins
<1>4. s.calls \in [Plugins -> Calls]
  BY DEF SaveSet
<1>5. \A q \in Plugins : CallOrderly(calls[q])
  BY <1>1, <1>2 DEF Orderly, CallOrderly, AnswerCounts, NoCall
<1>6. Promised \subseteq Plugins
  BY <1>3 DEF Promised
<1>7. CASE p = Source
  <2>1. /\ t.id = s.id /\ t.row = s.row /\ t \in SaveSet
        /\ t.calls = IF answer = "ok"
                       THEN [q \in Plugins |-> IF q \in opts.mirrors THEN Asked ELSE calls[q]]
                       ELSE calls
        /\ t.told = IF answer = "error" THEN "error"
                    ELSE IF opts.mirrors = {} \/ opts.ack = "after-source" THEN "ok"
                    ELSE s.told
    BY <1>7, ContinuedBySource
  <2> HIDE DEF t, calls
  <2>2. s.calls[Source].answer = "none" /\ s.told = "none"
    BY <1>7 DEF AnswerCounts, Orderly
  <2>3. \A q \in Mirrors : s.calls[q] = NoCall
    BY <2>2 DEF Orderly
  <2>4. \A q \in Mirrors : calls[q] = NoCall
    BY <1>2, <1>3, <1>7, <2>3
  <2>5. t.calls[Source] = calls[Source]
    BY <1>3, <2>1
  <2>6. CASE answer = "ok"
    <3>1. \A q \in Plugins : t.calls[q] = IF q \in opts.mirrors THEN Asked ELSE calls[q]
      BY <2>1, <2>6
    <3>2. Asked # NoCall /\ CallOrderly(Asked) /\ ~Failed(NoCall)
      BY DEF Asked, NoCall, CallOrderly, Failed
    <3>3. t.calls[Source].answer = "ok" /\ t.calls[Source].doing = "done"
      BY <1>2, <1>7, <2>5, <2>6 DEF AnswerCounts
    <3>4. \A q \in Plugins : CallOrderly(t.calls[q])
      BY <1>5, <3>1, <3>2
    <3>5. \A q \in opts.mirrors : t.calls[q] # NoCall
      BY <1>3, <3>1, <3>2
    <3>6. t.told = "ok" => \A q \in Promised : t.calls[q].doing = "done"
      BY <2>1, <2>2, <2>6, <3>3 DEF Promised
    <3>7. Orderly(t)
      BY <3>3, <3>4, <3>5, <3>6 DEF Orderly
    <3>8. \A q \in Plugins : t.calls[q].doing = "done" => s.calls[q].doing = "done"
      BY <1>2, <1>7, <3>1 DEF Asked
    <3>9. \A q \in Plugins : /\ s.calls[q] # NoCall => t.calls[q] # NoCall
                             /\ Failed(s.calls[q]) => Failed(t.calls[q])
      <4> TAKE q \in Plugins
      <4>1. CASE q \in opts.mirrors
        BY <1>3, <2>3, <3>2, <4>1
      <4>2. CASE q = Source
        <5>1. s.calls[Source].doing = "done"
          BY <1>7, <2>6 DEF AnswerCounts
        <5> QED
          BY <2>2, <3>3, <4>2, <5>1 DEF Failed, NoCall
      <4>3. CASE q \notin opts.mirrors /\ q # Source
        BY <1>2, <1>7, <3>1, <4>3
      <4> QED
        BY <4>1, <4>2, <4>3
    <3> QED
      BY <2>1, <2>2, <3>7, <3>8, <3>9 DEF Kept, t
  <2>7. CASE answer = "error"
    <3>1. t.calls = calls /\ t.told = "error"
      BY <2>1, <2>7
    <3>2. t.calls[Source].answer = "error"
      BY <1>2, <1>7, <3>1, <2>7
    <3>3. Orderly(t)
      BY <1>5, <2>4, <3>1, <3>2 DEF Orderly
    <3>4. \A q \in Plugins : t.calls[q].doing = "done" => s.calls[q].doing = "done"
      BY <1>2, <1>7, <3>1
    <3>5. \A q \in Plugins : /\ s.calls[q] # NoCall => t.calls[q] # NoCall
                             /\ Failed(s.calls[q]) => Failed(t.calls[q])
      BY <1>2, <1>7, <2>7, <3>1 DEF Failed, NoCall
    <3> QED
      BY <2>1, <2>2, <3>3, <3>4, <3>5 DEF Kept, t
  <2> QED
    BY <1>1, <2>6, <2>7
<1>8. CASE p # Source
  <2>1. /\ t.id = s.id /\ t.row = s.row /\ t \in SaveSet
        /\ t.calls = calls
        /\ t.told = IF opts.ack = "after-all" /\ AllAnswered(calls, opts.mirrors)
                      THEN VerdictOfMirrors(calls) ELSE s.told
    BY <1>8, ContinuedByMirror
  <2> HIDE DEF t, calls
  <2>2. p \in Mirrors /\ s.calls[p] # NoCall
    BY <1>1, <1>8 DEF AnswerCounts, Plugins
  <2>3. t.calls[Source] = s.calls[Source] /\ t.calls[Source].answer = "ok"
    BY <1>2, <1>3, <1>8, <2>1, <2>2 DEF Orderly
  <2>4. \A q \in Plugins : t.calls[q].doing = s.calls[q].doing
    BY <1>2, <2>1
  <2>5. \A q \in Plugins : /\ s.calls[q] # NoCall => t.calls[q] # NoCall
                           /\ Failed(s.calls[q]) => Failed(t.calls[q])
    BY <1>1, <1>2, <2>1 DEF Failed, NoCall, AnswerCounts
  <2>6. \A q \in opts.mirrors : t.calls[q] # NoCall
    BY <1>3, <2>3, <2>5 DEF Orderly
  <2>7. ASSUME t.told = "ok", NEW q \in Promised
        PROVE  t.calls[q].doing = "done"
    <3>1. CASE opts.ack = "after-all" /\ AllAnswered(calls, opts.mirrors)
      <4>1. CASE q = Source
        BY <1>3, <1>5, <2>1, <2>3, <4>1 DEF CallOrderly
      <4>2. CASE q # Source
        <5>1. q \in opts.mirrors /\ opts.failure = "surface"
          BY <4>2 DEF Promised
        <5>2. calls[q].answer # "error" /\ calls[q].answer # "none"
          BY <2>1, <2>7, <3>1, <5>1 DEF VerdictOfMirrors, AllAnswered
        <5>3. calls[q] \in Calls /\ CallOrderly(calls[q])
          BY <1>2, <1>3, <1>5, <5>1
        <5>4. calls[q].answer = "ok"
          BY <5>2, <5>3 DEF Calls
        <5> QED
          BY <2>1, <5>3, <5>4 DEF CallOrderly
      <4> QED
        BY <4>1, <4>2
    <3>2. CASE ~(opts.ack = "after-all" /\ AllAnswered(calls, opts.mirrors))
      BY <1>6, <2>1, <2>4, <2>7, <3>2 DEF Orderly
    <3> QED
      BY <3>1, <3>2
  <2>8. Orderly(t)
    BY <1>5, <2>1, <2>3, <2>6, <2>7 DEF Orderly
  <2> QED
    BY <2>1, <2>3, <2>4, <2>5, <2>8 DEF Kept, t
<1> QED
  BY <1>7, <1>8

-----------------------------------------------------------------------------
(* The saves after a step that goes on with one of them.                    *)

\* Save n was pending and becomes t; nothing else of the saves' state changes.
GoesOn(n, t) ==
  /\ n \in Numbers /\ Pending(n)
  /\ saves' = [saves EXCEPT ![n] = t]
  /\ t \in SaveSet /\ Orderly(t) /\ Kept(saves[n], t)
  /\ UNCHANGED <<opts, destroyed, crossed, written, hydration, waiting, overtaken>>

LEMMA CalledIsMade ==
  ASSUME IInv, NEW n \in Numbers, NEW p \in Plugins, saves[n].calls[p] # NoCall
  PROVE  n \in Made
<1>1. Orderly(saves[n])
  BY DEF IInv, AllOrderly
<1>2. CASE p = Source
  BY <1>2 DEF Made
<1>3. CASE p \in Mirrors
  BY <1>1, <1>3 DEF Orderly, Made, NoCall
<1> QED
  BY <1>2, <1>3 DEF Plugins

\* Of the saves of a smooth row only the latest is pending.
LEMMA PendingIsLatest ==
  ASSUME IInv, NEW n \in Numbers, Pending(n), Smooth(saves[n].id)
  PROVE  n \in Made /\ Latest(n)
<1>1. n \in Made
  BY CalledIsMade DEF Pending
<1>2. ASSUME NEW m \in Made, saves[m].id = saves[n].id, ~(m <= n)
      PROVE  FALSE
  <2>1. n < m
    BY <1>2 DEF Made, Numbers
  <2>2. n \notin crossed /\ m \notin crossed
    BY <1>1, <1>2 DEF Smooth
  <2> QED
    BY <1>1, <1>2, <2>1, <2>2 DEF IInv, OneAtATime
<1> QED
  BY <1>1, <1>2 DEF Latest

LEMMA GoesOnSaves ==
  ASSUME IInv, NEW n, NEW t, GoesOn(n, t)
  PROVE  /\ saves' \in [Numbers -> SaveSet]
         /\ Made' = Made
         /\ \A m \in Numbers : /\ saves'[m].id = saves[m].id /\ saves'[m].row = saves[m].row
                               /\ Kept(saves[m], saves'[m])
                               /\ m # n => saves'[m] = saves[m]
         /\ saves'[n] = t
<1>1. saves \in [Numbers -> SaveSet] /\ n \in Numbers
  BY DEF IInv, TypeOK, GoesOn, SaveSet
<1>2. /\ saves' \in [Numbers -> SaveSet] /\ saves'[n] = t
      /\ \A m \in Numbers : m # n => saves'[m] = saves[m]
  BY <1>1 DEF GoesOn
<1>3. n \in Made
  BY <1>1, CalledIsMade DEF Pending, GoesOn
<1>4. \A m \in Numbers : Kept(saves[m], saves'[m])
  BY <1>2 DEF GoesOn, Kept
<1>5. Made' = Made
  BY <1>2, <1>3, <1>4 DEF Made, Kept, Plugins
<1> QED
  BY <1>2, <1>4, <1>5 DEF Kept

\* What the invariant says of the calls and their order is kept.
LEMMA GoesOnKeeps ==
  ASSUME IInv, NEW n, NEW t, GoesOn(n, t)
  PROVE  /\ AllOrderly' /\ InOrder' /\ OnlyInMemory' /\ OneAtATime'
         /\ Untouched' <=> Untouched
         /\ \A m \in Numbers : Latest(m)' <=> Latest(m)
         /\ \A m \in Numbers : Smooth(saves[m].id)' => Smooth(saves[m].id)
<1>1. /\ saves' \in [Numbers -> SaveSet] /\ Made' = Made
      /\ \A m \in Numbers : /\ saves'[m].id = saves[m].id
                            /\ Kept(saves[m], saves'[m])
                            /\ m # n => saves'[m] = saves[m]
      /\ saves'[n] = t
  BY GoesOnSaves
<1>2. /\ n \in Numbers /\ Made \subseteq Numbers
      /\ opts' = opts /\ destroyed' = destroyed /\ crossed' = crossed
      /\ written' = written /\ hydration' = hydration /\ overtaken' = overtaken
  BY DEF GoesOn, Made
<1>3. AllOrderly'
  <2> SUFFICES ASSUME NEW m \in Numbers PROVE Orderly(saves[m])'
    BY DEF AllOrderly
  <2>1. Orderly(saves'[m])
    BY <1>1 DEF IInv, AllOrderly, GoesOn
  <2> QED
    BY <1>2, <2>1 DEF Orderly, Promised
<1>4. InOrder'
  BY <1>1 DEF IInv, InOrder
<1>5. OnlyInMemory'
  <2>1. opts.memory => \A m \in Made : saves'[m].calls[Source].answer = "ok"
    BY <1>1, <1>2 DEF IInv, OnlyInMemory, Kept
  <2>2. Underway => \A m \in Made : saves'[m].id \in overtaken
    BY <1>1, <1>2 DEF IInv, OnlyInMemory
  <2> QED
    BY <1>1, <1>2, <2>1, <2>2 DEF IInv, OnlyInMemory, Underway
<1>6. OneAtATime'
  <2> SUFFICES ASSUME NEW k \in Made, NEW m \in Made,
                      k < m, saves[k].id = saves[m].id, k \notin crossed, m \notin crossed
               PROVE  ~Pending(k)'
    BY <1>1, <1>2 DEF OneAtATime
  <2>1. ~Pending(k)
    BY DEF IInv, OneAtATime
  <2>2. k # n
    BY <2>1 DEF GoesOn
  <2> QED
    BY <1>1, <1>2, <2>1, <2>2 DEF Pending
<1>7. Untouched' <=> Untouched
  BY <1>2 DEF Untouched
<1>8. \A m \in Numbers : Latest(m)' <=> Latest(m)
  BY <1>1, <1>2 DEF Latest
<1>9. ASSUME NEW m \in Numbers, Smooth(saves[m].id)'
      PROVE  Smooth(saves[m].id)
  <2>1. saves'[m].id = saves[m].id
    BY <1>1
  <2>2. saves[m].id \notin overtaken
    BY <1>2, <1>9, <2>1 DEF Smooth
  <2>3. ASSUME NEW k \in Made, saves[k].id = saves[m].id
        PROVE  k \notin crossed /\ \A q \in Composed : ~Failed(saves[k].calls[q])
    <3>1. k \in Made' /\ saves'[k].id = saves'[m].id
      BY <1>1, <1>2, <2>3
    <3>2. k \notin crossed' /\ \A q \in Composed' : ~Failed(saves'[k].calls[q])
      BY <1>9, <3>1 DEF Smooth, Failed
    <3>3. Composed' = Composed /\ Composed \subseteq Plugins
      BY <1>2, OptionsType DEF Composed, IInv, TypeOK
    <3> QED
      BY <1>1, <1>2, <3>2, <3>3 DEF Kept
  <2> QED
    BY <2>2, <2>3 DEF Smooth
<1> QED
  BY <1>3, <1>4, <1>5, <1>6, <1>7, <1>8, <1>9

-----------------------------------------------------------------------------
(* The steps that go on with a save.                                        *)

\* A plugin carries a call out, or fails.
LEMMA CarriedOrderly ==
  ASSUME opts \in Options, NEW s \in SaveSet, Orderly(s), NEW p \in Plugins,
         s.calls[p].doing = "asked", NEW doing \in {"done", "failed"}
  PROVE  LET t == [s EXCEPT !.calls[p].doing = doing]
         IN  /\ t \in SaveSet /\ Orderly(t) /\ Kept(s, t)
             /\ t.calls[p].doing = doing
             /\ \A q \in Plugins : q # p => t.calls[q] = s.calls[q]
<1> DEFINE t == [s EXCEPT !.calls[p].doing = doing]
<1>1. s.calls \in [Plugins -> Calls]
  BY DEF SaveSet
<1>2. /\ t.id = s.id /\ t.row = s.row /\ t.told = s.told
      /\ t \in SaveSet
      /\ t.calls[p] = [s.calls[p] EXCEPT !.doing = doing]
      /\ \A q \in Plugins : q # p => t.calls[q] = s.calls[q]
  BY <1>1 DEF SaveSet, Calls
<1> HIDE DEF t
<1>3. t.calls[p].doing = doing /\ t.calls[p].answer = s.calls[p].answer
  BY <1>1, <1>2 DEF Calls
<1>4. \A q \in Plugins : t.calls[q].answer = s.calls[q].answer
  BY <1>2, <1>3
<1>5. s.calls[p] # NoCall /\ t.calls[p] # NoCall
  BY <1>3 DEF NoCall
<1>6. \A q \in Plugins : t.calls[q] = NoCall <=> s.calls[q] = NoCall
  BY <1>2, <1>5
<1>7. \A q \in Plugins : CallOrderly(t.calls[q])
  BY ZenonT(60), <1>2, <1>3 DEF Orderly, CallOrderly
<1>8. Source \in Plugins /\ Mirrors \subseteq Plugins /\ opts.mirrors \subseteq Mirrors
  BY OptionsType DEF Plugins
<1>9. t.told = "ok" => \A q \in Promised : t.calls[q].doing = "done"
  <2> SUFFICES ASSUME s.told = "ok", NEW q \in Promised
               PROVE  t.calls[q].doing = "done"
    BY <1>2
  <2>1. s.calls[q].doing = "done" /\ q \in Plugins
    BY <1>8 DEF Orderly, Promised
  <2> QED
    BY <1>2, <2>1
<1>10. Orderly(t)
  BY <1>2, <1>4, <1>6, <1>7, <1>8, <1>9 DEF Orderly
<1>11. Kept(s, t)
  BY <1>2, <1>3, <1>4, <1>6, <1>8 DEF Kept, Failed
<1> QED
  BY <1>2, <1>3, <1>10, <1>11 DEF t

LEMMA ApplyKeeps ==
  ASSUME IInv, NEW n \in Numbers, NEW p \in Plugins, Apply(n, p),
         UNCHANGED <<written, hydration, waiting, overtaken>>
  PROVE  IInv'
<1> DEFINE t == [saves[n] EXCEPT !.calls[p].doing = "done"]
<1>1. /\ saves \in [Numbers -> SaveSet] /\ opts \in Options
      /\ tables \in [Plugins -> [Ids -> RowValues]]
  BY DEF IInv, TypeOK, SaveSet
<1>2. saves[n].calls[p] # NoCall /\ saves[n].calls[p].doing = "asked" /\ Pending(n)
  BY DEF Apply, NoCall, Pending
<1>3. saves' = [saves EXCEPT ![n] = t]
  BY <1>1 DEF Apply, SaveSet
<1>4. /\ t \in SaveSet /\ Orderly(t) /\ Kept(saves[n], t)
      /\ \A q \in Plugins : q # p => t.calls[q] = saves[n].calls[q]
  BY ZenonT(60), <1>1, <1>2, CarriedOrderly DEF IInv, AllOrderly
<1> HIDE DEF t
<1>5. GoesOn(n, t)
  BY <1>2, <1>3, <1>4 DEF GoesOn, Apply
<1>6. /\ saves' \in [Numbers -> SaveSet] /\ Made' = Made
      /\ \A m \in Numbers : /\ saves'[m].id = saves[m].id /\ saves'[m].row = saves[m].row
                            /\ m # n => saves'[m] = saves[m]
      /\ saves'[n] = t
  BY <1>5, GoesOnSaves
<1>7. /\ AllOrderly' /\ InOrder' /\ OnlyInMemory' /\ OneAtATime'
      /\ Untouched' <=> Untouched
      /\ \A m \in Numbers : Latest(m)' <=> Latest(m)
      /\ \A m \in Numbers : Smooth(saves[m].id)' => Smooth(saves[m].id)
  BY <1>5, GoesOnKeeps
<1>8. saves[n].id \in Ids /\ saves[n].row \in RowValues
  BY <1>1 DEF SaveSet
<1>9. /\ tables' \in [Plugins -> [Ids -> RowValues]]
      /\ tables'[p][saves[n].id] = saves[n].row
      /\ \A q \in Plugins, i \in Ids : q # p \/ i # saves[n].id => tables'[q][i] = tables[q][i]
  BY <1>1, <1>8 DEF Apply
<1>10. TypeOK'
  BY <1>6, <1>9 DEF IInv, TypeOK, GoesOn, Apply, SaveSet
<1>11. LatestStored'
  <2> SUFFICES ASSUME Untouched, NEW m \in Made, NEW q \in Composed,
                      Latest(m), Smooth(saves[m].id), Smooth(saves[m].id)',
                      saves'[m].calls[q].doing = "done"
               PROVE  tables'[q][saves[m].id] = saves[m].row
    BY <1>6, <1>7 DEF LatestStored, Made, Composed, Apply
  <2>1. q \in Plugins /\ saves[m].id \in Ids /\ m \in Numbers
    BY <1>1, OptionsType DEF Made, SaveSet
  <2>2. CASE saves[m].id = saves[n].id
    <3>1. n \in Made /\ Latest(n)
      BY <1>2, <2>2, PendingIsLatest
    <3>2. m = n
      BY <2>1, <2>2, <3>1 DEF Latest, Numbers
    <3> QED
      BY <1>4, <1>6, <1>9, <2>1, <3>2 DEF IInv, LatestStored
  <2>3. CASE saves[m].id # saves[n].id
    <3>1. m # n /\ saves[m].calls[q].doing = "done"
      BY <1>6, <2>1, <2>3
    <3> QED
      BY <1>9, <2>1, <2>3, <3>1 DEF IInv, LatestStored
  <2> QED
    BY <2>2, <2>3
<1>12. OwnChangesShown'
  <2> SUFFICES ASSUME opts.memory, Untouched, NEW m \in Made, Latest(m)
               PROVE  \/ tables'[Source][saves[m].id] = saves[m].row
                      \/ saves[m].id \in overtaken
    BY <1>6, <1>7 DEF OwnChangesShown, Made, Apply, Untouched, Latest
  <2>1. n \in Made
    BY <1>2, CalledIsMade
  <2>2. p # Source
    BY <1>2, <2>1 DEF IInv, OnlyInMemory, AllOrderly, Orderly, CallOrderly
  <2>3. saves[m].id \in Ids /\ Source \in Plugins
    BY <1>1 DEF Made, SaveSet, Plugins
  <2> QED
    BY <1>9, <2>2, <2>3 DEF IInv, OwnChangesShown, Untouched, Latest
<1> QED
  BY <1>7, <1>10, <1>11, <1>12 DEF IInv

LEMMA RefuseKeeps ==
  ASSUME IInv, NEW n \in Numbers, NEW p \in Plugins, Refuse(n, p),
         UNCHANGED <<written, hydration, waiting, overtaken>>
  PROVE  IInv'
<1> DEFINE t == [saves[n] EXCEPT !.calls[p].doing = "failed"]
<1>1. /\ saves \in [Numbers -> SaveSet] /\ opts \in Options
      /\ tables \in [Plugins -> [Ids -> RowValues]]
  BY DEF IInv, TypeOK, SaveSet
<1>2. saves[n].calls[p] # NoCall /\ saves[n].calls[p].doing = "asked" /\ Pending(n)
  BY DEF Refuse, NoCall, Pending
<1>3. saves' = [saves EXCEPT ![n] = t]
  BY <1>1 DEF Refuse, SaveSet
<1>4. /\ t \in SaveSet /\ Orderly(t) /\ Kept(saves[n], t)
      /\ t.calls[p].doing = "failed"
      /\ \A q \in Plugins : q # p => t.calls[q] = saves[n].calls[q]
  BY ZenonT(60), <1>1, <1>2, CarriedOrderly DEF IInv, AllOrderly
<1> HIDE DEF t
<1>5. GoesOn(n, t)
  BY <1>2, <1>3, <1>4 DEF GoesOn, Refuse
<1>6. /\ saves' \in [Numbers -> SaveSet] /\ Made' = Made
      /\ \A m \in Numbers : /\ saves'[m].id = saves[m].id /\ saves'[m].row = saves[m].row
                            /\ m # n => saves'[m] = saves[m]
      /\ saves'[n] = t
  BY <1>5, GoesOnSaves
<1>7. /\ AllOrderly' /\ InOrder' /\ OnlyInMemory' /\ OneAtATime'
      /\ Untouched' <=> Untouched
      /\ \A m \in Numbers : Latest(m)' <=> Latest(m)
      /\ \A m \in Numbers : Smooth(saves[m].id)' => Smooth(saves[m].id)
  BY <1>5, GoesOnKeeps
<1>8. saves[n].id \in Ids /\ saves[n].row \in RowValues /\ n \in Made
  BY <1>1, <1>2, CalledIsMade DEF SaveSet
<1>9. /\ tables' \in [Plugins -> [Ids -> RowValues]]
      /\ \A q \in Plugins, i \in Ids : q # p \/ i # saves[n].id => tables'[q][i] = tables[q][i]
  <2>1. PICK row \in {tables[p][saves[n].id], saves[n].row} :
           tables' = [tables EXCEPT ![p][saves[n].id] = row]
    BY DEF Refuse
  <2>2. row \in RowValues
    BY <1>1, <1>8
  <2> QED
    BY <1>1, <1>8, <2>1, <2>2
<1>10. TypeOK'
  BY <1>6, <1>9 DEF IInv, TypeOK, GoesOn, Refuse, SaveSet
<1>11. LatestStored'
  <2> SUFFICES ASSUME Untouched, NEW m \in Made, NEW q \in Composed,
                      Latest(m), Smooth(saves[m].id), Smooth(saves[m].id)',
                      saves'[m].calls[q].doing = "done"
               PROVE  tables'[q][saves[m].id] = saves[m].row
    BY <1>6, <1>7 DEF LatestStored, Made, Composed, Refuse
  <2>1. q \in Plugins /\ saves[m].id \in Ids /\ m \in Numbers
    BY <1>1, OptionsType DEF Made, SaveSet
  <2>2. q # p \/ saves[m].id # saves[n].id
    <3>1. SUFFICES ASSUME saves[m].id = saves[n].id PROVE q # p
      OBVIOUS
    <3>2. Composed' = Composed
      BY DEF Composed, Refuse
    <3>3. \A r \in Composed : ~Failed(saves'[n].calls[r])
      BY <1>6, <1>8, <2>1, <3>1, <3>2 DEF Smooth, Failed
    <3> QED
      BY <1>4, <1>6, <3>3 DEF Failed
  <2>3. saves[m].calls[q].doing = "done"
    BY <1>4, <1>6, <2>1
  <2> QED
    BY <1>9, <2>1, <2>2, <2>3 DEF IInv, LatestStored
<1>12. OwnChangesShown'
  <2> SUFFICES ASSUME opts.memory, Untouched, NEW m \in Made, Latest(m)
               PROVE  \/ tables'[Source][saves[m].id] = saves[m].row
                      \/ saves[m].id \in overtaken
    BY <1>6, <1>7 DEF OwnChangesShown, Made, Refuse, Untouched, Latest
  <2>1. p # Source
    BY <1>2, <1>8 DEF IInv, OnlyInMemory, AllOrderly, Orderly, CallOrderly
  <2>2. saves[m].id \in Ids /\ Source \in Plugins
    BY <1>1 DEF Made, SaveSet, Plugins
  <2> QED
    BY <1>9, <2>1, <2>2 DEF IInv, OwnChangesShown, Untouched, Latest
<1> QED
  BY <1>7, <1>10, <1>11, <1>12 DEF IInv

\* A callback runs, or its timeout passes: the save continues with an answer.
LEMMA ContinuesKeeps ==
  ASSUME IInv, NEW n \in Numbers, NEW p \in Plugins, NEW answer,
         AnswerCounts(saves[n], p, answer),
         saves' = [saves EXCEPT ![n] = Continued(@, p, answer)],
         UNCHANGED <<opts, tables, destroyed, crossed, written, hydration, waiting, overtaken>>
  PROVE  IInv'
<1> DEFINE t == Continued(saves[n], p, answer)
<1>1. saves \in [Numbers -> SaveSet] /\ opts \in Options
  BY DEF IInv, TypeOK, SaveSet
<1>2. Pending(n)
  BY DEF Pending, AnswerCounts
<1>3. /\ t \in SaveSet /\ Orderly(t) /\ Kept(saves[n], t)
      /\ \A q \in Plugins : t.calls[q].doing = "done" => saves[n].calls[q].doing = "done"
  BY <1>1, ContinuedOrderly DEF IInv, AllOrderly
<1>4. saves' = [saves EXCEPT ![n] = t]
  OBVIOUS
<1> HIDE DEF t
<1>5. GoesOn(n, t)
  BY <1>2, <1>3, <1>4 DEF GoesOn
<1>6. /\ saves' \in [Numbers -> SaveSet] /\ Made' = Made
      /\ \A m \in Numbers : /\ saves'[m].id = saves[m].id /\ saves'[m].row = saves[m].row
                            /\ m # n => saves'[m] = saves[m]
      /\ saves'[n] = t
  BY <1>5, GoesOnSaves
<1>7. /\ AllOrderly' /\ InOrder' /\ OnlyInMemory' /\ OneAtATime'
      /\ Untouched' <=> Untouched
      /\ \A m \in Numbers : Latest(m)' <=> Latest(m)
      /\ \A m \in Numbers : Smooth(saves[m].id)' => Smooth(saves[m].id)
  BY <1>5, GoesOnKeeps
<1>8. TypeOK'
  BY <1>6 DEF IInv, TypeOK, SaveSet
<1>9. LatestStored'
  <2> SUFFICES ASSUME Untouched, NEW m \in Made, NEW q \in Composed,
                      Latest(m), Smooth(saves[m].id),
                      saves'[m].calls[q].doing = "done"
               PROVE  tables[q][saves[m].id] = saves[m].row
    BY <1>6, <1>7 DEF LatestStored, Made, Composed
  <2>1. q \in Plugins /\ m \in Numbers
    BY <1>1, OptionsType DEF Made
  <2>2. saves[m].calls[q].doing = "done"
    BY <1>3, <1>6, <2>1
  <2> QED
    BY <2>1, <2>2 DEF IInv, LatestStored
<1>10. OwnChangesShown'
  BY <1>6, <1>7 DEF IInv, OwnChangesShown, Made, Untouched, Latest
<1> QED
  BY <1>7, <1>8, <1>9, <1>10 DEF IInv

LEMMA AnswerKeeps ==
  ASSUME IInv, NEW n \in Numbers, NEW p \in Plugins, Answer(n, p),
         UNCHANGED <<written, hydration, waiting, overtaken>>
  PROVE  IInv'
<1> DEFINE answer == IF saves[n].calls[p].doing = "done" THEN "ok" ELSE "error"
<1>1. AnswerCounts(saves[n], p, answer)
  BY DEF Answer, AnswerCounts, NoCall
<1>2. saves' = [saves EXCEPT ![n] = Continued(@, p, answer)]
  BY DEF Answer
<1> QED
  BY <1>1, <1>2, ContinuesKeeps DEF Answer

LEMMA TimeoutKeeps ==
  ASSUME IInv, NEW n \in Numbers, NEW p \in Plugins, Timeout(n, p),
         UNCHANGED <<written, hydration, waiting, overtaken>>
  PROVE  IInv'
<1>1. AnswerCounts(saves[n], p, "error")
  BY DEF Timeout, AnswerCounts
<1> QED
  BY <1>1, ContinuesKeeps DEF Timeout

-----------------------------------------------------------------------------
(* The application saves.                                                   *)

NewSave(i, row) == [NoSave EXCEPT !.id = i, !.row = row, !.calls[Source] = Asked]

\* The save as it is made: the memory plugin has answered, another source is asked.
FirstCall(i, row) ==
  IF opts.memory
    THEN Continued([NewSave(i, row) EXCEPT !.calls[Source].doing = "done"], Source, "ok")
    ELSE NewSave(i, row)

LEMMA NoSaveType ==
  ASSUME opts \in Options
  PROVE  NoSave \in SaveSet /\ Orderly(NoSave)
<1>1. /\ NoSave.id \in Ids /\ NoSave.row \in RowValues
      /\ NoSave.calls = [p \in Plugins |-> NoCall] /\ NoSave.told = "none"
  BY EngineAssumption DEF NoSave, RowValues, Seed
<1>2. NoSave \in SaveSet
  BY <1>1 DEF NoSave, SaveSet, Calls, NoCall
<1>3. Orderly(NoSave)
  <2>1. \A p \in Plugins : NoSave.calls[p] = NoCall
    BY <1>1
  <2>2. Source \in Plugins /\ Mirrors \subseteq Plugins
    BY DEF Plugins
  <2>3. CallOrderly(NoCall) /\ NoCall.answer = "none"
    BY DEF CallOrderly, NoCall
  <2> QED
    BY <1>1, <2>1, <2>2, <2>3 DEF Orderly
<1> QED
  BY <1>2, <1>3

LEMMA NewSaveType ==
  ASSUME opts \in Options, NEW i \in Ids, NEW row \in RowValues
  PROVE  LET s == NewSave(i, row)
         IN  /\ s \in SaveSet /\ Orderly(s) /\ s.id = i /\ s.row = row
             /\ s.calls[Source] = Asked
             /\ \A p \in Plugins : p # Source => s.calls[p] = NoCall
<1> DEFINE s == NewSave(i, row)
<1>1. Source \in Plugins /\ Mirrors \subseteq Plugins /\ Source \notin Mirrors
  BY EngineAssumption DEF Plugins
<1>2. Asked \in Calls /\ NoCall \in Calls /\ CallOrderly(Asked) /\ CallOrderly(NoCall)
  BY DEF Asked, NoCall, Calls, CallOrderly
<1>3. /\ s.id = i /\ s.row = row /\ s.told = "none" /\ s \in SaveSet
      /\ s.calls[Source] = Asked
      /\ \A p \in Plugins : p # Source => s.calls[p] = NoCall
  BY <1>1, <1>2 DEF NewSave, NoSave, SaveSet
<1> HIDE DEF s
<1>4. Orderly(s)
  <2>1. s.calls[Source].answer = "none"
    BY <1>3 DEF Asked
  <2>2. \A p \in Plugins : CallOrderly(s.calls[p])
    BY <1>2, <1>3
  <2>3. \A p \in Mirrors : s.calls[p] = NoCall
    BY <1>1, <1>3
  <2> QED
    BY <1>3, <2>1, <2>2, <2>3 DEF Orderly
<1> QED
  BY <1>3, <1>4 DEF s

LEMMA FirstCallType ==
  ASSUME opts \in Options, NEW i \in Ids, NEW row \in RowValues
  PROVE  LET t == FirstCall(i, row)
         IN  /\ t \in SaveSet /\ Orderly(t) /\ t.id = i /\ t.row = row
             /\ t.calls[Source] # NoCall
             /\ opts.memory => t.calls[Source].answer = "ok"
             /\ \A p \in Plugins : t.calls[p].doing = "done" => opts.memory /\ p = Source
<1> DEFINE s == NewSave(i, row)
           u == [s EXCEPT !.calls[Source].doing = "done"]
<1>1. /\ s \in SaveSet /\ Orderly(s) /\ s.id = i /\ s.row = row
      /\ s.calls[Source] = Asked
      /\ \A p \in Plugins : p # Source => s.calls[p] = NoCall
      /\ Source \in Plugins
  BY NewSaveType DEF Plugins
<1> HIDE DEF s
<1>2. CASE ~opts.memory
  BY <1>1, <1>2 DEF FirstCall, s, Asked, NoCall
<1>3. CASE opts.memory
  <2>1. /\ u \in SaveSet /\ Orderly(u) /\ Kept(s, u)
        /\ u.calls[Source].doing = "done"
        /\ \A q \in Plugins : q # Source => u.calls[q] = s.calls[q]
    <3>1. s.calls[Source].doing = "asked"
      BY <1>1 DEF Asked
    <3> QED
      BY <1>1, <3>1, CarriedOrderly, Zenon
  <2>2. u.calls[Source].answer = "none"
    BY <1>1 DEF SaveSet, Calls, Asked
  <2> HIDE DEF u
  <2>3. AnswerCounts(u, Source, "ok")
    BY <1>1, <2>1, <2>2 DEF AnswerCounts, NoCall
  <2>4. /\ Continued(u, Source, "ok") \in SaveSet /\ Orderly(Continued(u, Source, "ok"))
        /\ Kept(u, Continued(u, Source, "ok"))
        /\ \A q \in Plugins : Continued(u, Source, "ok").calls[q].doing = "done"
                                => u.calls[q].doing = "done"
    BY <2>1, <2>3, ContinuedOrderly
  <2>5. Continued(u, Source, "ok").calls =
          [q \in Plugins |-> IF q \in opts.mirrors THEN Asked ELSE Answered(u, Source, "ok")[q]]
    BY <2>1, <2>3, ContinuedBySource
  <2>6. Continued(u, Source, "ok").calls[Source].answer = "ok"
    BY <1>1, <2>1, <2>5, AnsweredType, OptionsType, EngineAssumption
  <2>7. FirstCall(i, row) = Continued(u, Source, "ok")
    BY <1>3 DEF FirstCall, s, u
  <2> QED
    BY <1>1, <1>3, <2>1, <2>4, <2>6, <2>7 DEF Kept, NoCall
<1> QED
  BY <1>2, <1>3, OptionsType

LEMMA SaveKeeps ==
  ASSUME IInv, NEW n \in Numbers, NEW i \in Ids, NEW row \in {0, n}, OptimisticSave(n, i, row)
  PROVE  IInv'
<1> DEFINE t == FirstCall(i, row)
           others == {m \in Made : saves[m].id = i /\ Pending(m)}
<1>1. /\ saves \in [Numbers -> SaveSet] /\ opts \in Options /\ Source \in Plugins
      /\ tables \in [Plugins -> [Ids -> RowValues]] /\ opts.memory \in BOOLEAN
  BY OptionsType DEF IInv, TypeOK, SaveSet, Plugins
<1>2. row \in RowValues
  BY EngineAssumption DEF RowValues, Seed, Numbers
<1>3. /\ t \in SaveSet /\ Orderly(t) /\ t.id = i /\ t.row = row
      /\ t.calls[Source] # NoCall
      /\ opts.memory => t.calls[Source].answer = "ok"
      /\ \A p \in Plugins : t.calls[p].doing = "done" => opts.memory /\ p = Source
  BY <1>1, <1>2, FirstCallType
<1>4. /\ saves' = [saves EXCEPT ![n] = t]
      /\ n \notin Made /\ \A m \in Numbers : m < n => m \in Made
      /\ Untouched
      /\ crossed' = IF others = {} THEN crossed ELSE crossed \cup others \cup {n}
      /\ tables' = IF opts.memory THEN [tables EXCEPT ![Source][i] = row] ELSE tables
      /\ UNCHANGED <<opts, destroyed, hydration, waiting>>
      /\ written' = opts.memory
      /\ overtaken' = IF Underway THEN overtaken \cup {i} ELSE overtaken
  BY DEF OptimisticSave, Save, FirstCall, NewSave, Untouched
<1> HIDE DEF t
<1>5. /\ saves' \in [Numbers -> SaveSet] /\ saves'[n] = t
      /\ \A m \in Numbers : m # n => saves'[m] = saves[m]
  BY <1>1, <1>3, <1>4
<1>6. Made' = Made \cup {n}
  BY <1>3, <1>5 DEF Made
<1>7. \A m \in Made : m \in Numbers /\ m < n
  <2> SUFFICES ASSUME NEW m \in Made PROVE m \in Numbers /\ m < n
    OBVIOUS
  <2>1. m \in Numbers /\ m # n
    BY <1>4 DEF Made
  <2>2. ~(n < m)
    BY <1>4 DEF IInv, InOrder
  <2> QED
    BY <2>1, <2>2 DEF Numbers
<1>8. /\ tables' \in [Plugins -> [Ids -> RowValues]]
      /\ opts.memory => tables'[Source][i] = row
      /\ \A q \in Plugins, j \in Ids : j # i => tables'[q][j] = tables[q][j]
  BY <1>1, <1>2, <1>4
<1>9. crossed \subseteq crossed' /\ crossed' \subseteq Made' /\ overtaken \subseteq overtaken'
  BY <1>4, <1>6 DEF IInv, TypeOK
<1>10. TypeOK'
  <2>1. overtaken' \subseteq Ids
    BY <1>4 DEF IInv, TypeOK
  <2>2. written' \in BOOLEAN
    BY <1>1, <1>4
  <2> QED
    BY <1>4, <1>5, <1>8, <1>9, <2>1, <2>2 DEF IInv, TypeOK, SaveSet
<1>11. AllOrderly'
  <2> SUFFICES ASSUME NEW m \in Numbers PROVE Orderly(saves[m])'
    BY DEF AllOrderly
  <2>1. Orderly(saves'[m])
    BY <1>3, <1>5 DEF IInv, AllOrderly
  <2> QED
    BY <1>4, <2>1 DEF Orderly, Promised
<1>12. InOrder'
  BY <1>4, <1>6 DEF IInv, InOrder
<1>13. OnlyInMemory'
  <2>1. opts.memory => \A m \in Made' : saves'[m].calls[Source].answer = "ok"
    BY <1>3, <1>5, <1>6, <1>7 DEF IInv, OnlyInMemory
  <2>2. Underway => \A m \in Made' : saves'[m].id \in overtaken'
    <3> SUFFICES ASSUME Underway, NEW m \in Made' PROVE saves'[m].id \in overtaken'
      OBVIOUS
    <3>1. CASE m = n
      BY <1>3, <1>4, <1>5, <3>1
    <3>2. CASE m # n
      BY <1>4, <1>5, <1>6, <1>7, <3>2 DEF IInv, OnlyInMemory
    <3> QED
      BY <3>1, <3>2
  <2> QED
    BY <1>1, <1>4, <2>1, <2>2 DEF IInv, OnlyInMemory, Underway
<1>14. OneAtATime'
  <2> SUFFICES ASSUME NEW k \in Made', NEW m \in Made', k < m, saves'[k].id = saves'[m].id,
                      k \notin crossed', m \notin crossed'
               PROVE  ~Pending(k)'
    BY DEF OneAtATime
  <2>1. k # n
    BY <1>6, <1>7 DEF Numbers
  <2>2. k \in Made /\ k \in Numbers /\ saves'[k] = saves[k]
    BY <1>5, <1>6, <1>7, <2>1
  <2>3. ~Pending(k)
    <3>1. CASE m = n
      BY <1>3, <1>4, <1>5, <2>2, <3>1
    <3>2. CASE m # n
      BY <1>5, <1>6, <1>7, <1>9, <2>2, <3>2 DEF IInv, OneAtATime
    <3> QED
      BY <3>1, <3>2
  <2> QED
    BY <2>2, <2>3 DEF Pending
<1>15. ASSUME NEW m \in Made', Latest(m)', m # n
       PROVE  m \in Made /\ saves'[m] = saves[m] /\ saves[m].id # i /\ Latest(m)
  <2>1. m \in Made /\ m \in Numbers /\ saves'[m] = saves[m]
    BY <1>5, <1>6, <1>7, <1>15
  <2>2. saves[m].id # i
    BY <1>3, <1>5, <1>6, <1>7, <1>15, <2>1 DEF Latest, Numbers
  <2>3. ASSUME NEW k \in Made, saves[k].id = saves[m].id
        PROVE  k <= m
    <3>1. k \in Made' /\ saves'[k] = saves[k]
      BY <1>4, <1>5, <1>6, <1>7
    <3> QED
      BY <1>15, <2>1, <2>3, <3>1 DEF Latest
  <2> QED
    BY <2>1, <2>2, <2>3 DEF Latest
<1>16. LatestStored'
  <2> SUFFICES ASSUME NEW m \in Made', NEW q \in Composed, Latest(m)', Smooth(saves[m].id)',
                      saves'[m].calls[q].doing = "done"
               PROVE  tables'[q][saves'[m].id] = saves'[m].row
    BY <1>4 DEF LatestStored, Composed
  <2>1. q \in Plugins
    BY <1>1, OptionsType
  <2>2. CASE m = n
    BY <1>3, <1>5, <1>8, <2>1, <2>2
  <2>3. CASE m # n
    <3>1. m \in Made /\ saves'[m] = saves[m] /\ saves[m].id # i /\ Latest(m)
      BY <1>15, <2>3
    <3>2. Smooth(saves[m].id)
      <4>1. saves[m].id \notin overtaken
        BY <1>9, <3>1 DEF Smooth
      <4>2. \A k \in Made : k \in Made' /\ saves'[k] = saves[k]
        BY <1>4, <1>5, <1>6, <1>7
      <4>3. Composed' = Composed
        BY <1>4 DEF Composed
      <4>4. ASSUME NEW k \in Made, saves[k].id = saves[m].id
            PROVE  k \notin crossed /\ \A r \in Composed : ~Failed(saves[k].calls[r])
        <5>1. k \in Made' /\ saves'[k].id = saves'[m].id
          BY <3>1, <4>2, <4>4
        <5> QED
          BY <1>9, <4>2, <4>3, <5>1 DEF Smooth, Failed
      <4> QED
        BY <4>1, <4>4 DEF Smooth
    <3>3. saves[m].id \in Ids
      BY <1>1, <1>7, <3>1 DEF SaveSet
    <3> QED
      BY <1>4, <1>8, <2>1, <3>1, <3>2, <3>3 DEF IInv, LatestStored
  <2> QED
    BY <2>2, <2>3
<1>17. OwnChangesShown'
  <2> SUFFICES ASSUME opts.memory, NEW m \in Made', Latest(m)'
               PROVE  \/ tables'[Source][saves'[m].id] = saves'[m].row
                      \/ saves'[m].id \in overtaken'
    BY <1>4 DEF OwnChangesShown, Latest
  <2>1. CASE m = n
    BY <1>3, <1>5, <1>8, <2>1
  <2>2. CASE m # n
    <3>1. m \in Made /\ saves'[m] = saves[m] /\ saves[m].id # i /\ Latest(m)
      BY <1>15, <2>2
    <3>2. saves[m].id \in Ids
      BY <1>1, <1>7, <3>1 DEF SaveSet
    <3> QED
      BY <1>1, <1>4, <1>8, <1>9, <3>1, <3>2 DEF IInv, OwnChangesShown, Latest, Untouched
  <2> QED
    BY <2>1, <2>2
<1> QED
  BY <1>10, <1>11, <1>12, <1>13, <1>14, <1>16, <1>17 DEF IInv

-----------------------------------------------------------------------------
(* destroy, the hydration and the queries that wait for it.                 *)

\* The saves are not touched, and no hydration begins after the first.
LEMMA SavesStand ==
  ASSUME IInv, UNCHANGED <<opts, saves, crossed, written, overtaken>>,
         Underway' => Underway \/ Made = {},
         opts.memory \/ hydration'.step = "none"
  PROVE  /\ AllOrderly' /\ InOrder' /\ OneAtATime' /\ OnlyInMemory'
         /\ Made' = Made
         /\ \A n : (Latest(n)' <=> Latest(n)) /\ (Smooth(n)' <=> Smooth(n))
<1>1. Made' = Made
  BY DEF Made
<1>2. AllOrderly'
  BY DEF IInv, AllOrderly, Orderly, Promised
<1>3. InOrder'
  BY <1>1 DEF IInv, InOrder
<1>4. OneAtATime'
  BY <1>1 DEF IInv, OneAtATime, Pending
<1>5. OnlyInMemory'
  BY <1>1 DEF IInv, OnlyInMemory, Underway
<1>6. \A n : (Latest(n)' <=> Latest(n)) /\ (Smooth(n)' <=> Smooth(n))
  BY <1>1 DEF Latest, Smooth, Composed
<1> QED
  BY <1>1, <1>2, <1>3, <1>4, <1>5, <1>6

\* Nothing but the destroy's calls and the rows it drops.
LEMMA DestroyedKeeps ==
  ASSUME IInv, UNCHANGED <<opts, saves, crossed, written, hydration, waiting, overtaken>>,
         destroyed' \in [Plugins -> Calls], ~Untouched',
         tables' \in [Plugins -> [Ids -> RowValues]]
  PROVE  IInv'
<1>1. TypeOK'
  BY DEF IInv, TypeOK, Made
<1>2. opts.memory \/ hydration'.step = "none"
  BY OptionsType DEF IInv, OnlyInMemory, TypeOK
<1>3. AllOrderly' /\ InOrder' /\ OneAtATime' /\ OnlyInMemory'
  BY <1>2, SavesStand DEF Underway
<1>4. LatestStored' /\ OwnChangesShown'
  BY DEF LatestStored, OwnChangesShown, Untouched
<1> QED
  BY <1>1, <1>3, <1>4 DEF IInv

LEMMA DestroyKeeps ==
  ASSUME IInv, Destroy, UNCHANGED <<written, hydration, waiting, overtaken>>
  PROVE  IInv'
<1>1. Asked \in Calls /\ NoCall \in Calls /\ Asked # NoCall
  BY DEF Asked, NoCall, Calls
<1>2. destroyed' \in [Plugins -> Calls]
  BY <1>1 DEF Destroy
<1>3. destroyed'[Source] # NoCall /\ Source \in Plugins
  BY <1>1 DEF Destroy, Composed, Plugins
<1>4. ~Untouched'
  BY <1>3 DEF Untouched
<1> QED
  BY <1>2, <1>4, DestroyedKeeps DEF Destroy, IInv, TypeOK

LEMMA DropKeeps ==
  ASSUME IInv, NEW p \in Plugins, Drop(p), UNCHANGED <<written, hydration, waiting, overtaken>>
  PROVE  IInv'
<1>1. destroyed \in [Plugins -> Calls] /\ tables \in [Plugins -> [Ids -> RowValues]]
  BY DEF IInv, TypeOK
<1>2. PICK answer \in {"ok", "error"} :
        destroyed' = [destroyed EXCEPT ![p] = [Settled(@, answer) EXCEPT !.doing = "done"]]
  BY DEF Drop
<1>3. Settled(destroyed[p], answer) \in Calls
  BY <1>1 DEF Settled, Calls
<1>4. [Settled(destroyed[p], answer) EXCEPT !.doing = "done"] \in Calls
  BY <1>3 DEF Calls
<1>5. [Settled(destroyed[p], answer) EXCEPT !.doing = "done"].doing = "done"
  BY <1>3 DEF Calls
<1>6. destroyed' \in [Plugins -> Calls] /\ destroyed'[p].doing = "done"
  BY <1>1, <1>2, <1>4, <1>5
<1>7. ~Untouched'
  BY <1>6 DEF Untouched, NoCall
<1>8. Empty \in [Ids -> RowValues]
  BY EngineAssumption DEF Empty, RowValues, Seed
<1>9. tables' \in [Plugins -> [Ids -> RowValues]]
  BY <1>1, <1>8 DEF Drop
<1> QED
  BY <1>6, <1>7, <1>9, DestroyedKeeps DEF Drop

LEMMA DropUnansweredKeeps ==
  ASSUME IInv, NEW p \in Plugins, DropUnanswered(p),
         UNCHANGED <<written, hydration, waiting, overtaken>>
  PROVE  IInv'
<1>1. destroyed \in [Plugins -> Calls]
  BY DEF IInv, TypeOK
<1>2. Settled(Asked, "error") \in Calls /\ Settled(Asked, "error").doing = "asked"
  BY DEF Settled, Calls, Asked
<1>3. destroyed' \in [Plugins -> Calls] /\ destroyed'[p].doing = "asked"
  BY <1>1, <1>2 DEF DropUnanswered
<1>4. ~Untouched'
  BY <1>3 DEF Untouched, NoCall
<1> QED
  BY <1>3, <1>4, DestroyedKeeps DEF DropUnanswered, IInv, TypeOK

\* The hydration's promise, but not yet the rows.
LEMMA HydrationKeeps ==
  ASSUME IInv, UNCHANGED <<engineVars, written, overtaken>>,
         waiting' \in BOOLEAN,
         hydration' \in [step : {"none", "asked", "read", "done"}, rows : [Ids -> RowValues]],
         \/ hydration'.step = "none"
         \/ opts.memory /\ (Underway \/ Made = {})
  PROVE  IInv'
<1>1. TypeOK'
  BY DEF IInv, TypeOK, engineVars, Made
<1>2. /\ AllOrderly' /\ InOrder' /\ OneAtATime' /\ OnlyInMemory' /\ Made' = Made
      /\ \A n : (Latest(n)' <=> Latest(n)) /\ (Smooth(n)' <=> Smooth(n))
  BY SavesStand DEF engineVars, Underway
<1>3. LatestStored'
  BY <1>2 DEF IInv, LatestStored, engineVars, Untouched, Composed
<1>4. OwnChangesShown'
  BY <1>2 DEF IInv, OwnChangesShown, engineVars
<1> QED
  BY <1>1, <1>2, <1>3, <1>4 DEF IInv

LEMMA NoHydrationType ==
  /\ NoHydration \in [step : {"none", "asked", "read", "done"}, rows : [Ids -> RowValues]]
  /\ NoHydration.step = "none"
BY EngineAssumption DEF NoHydration, Empty, RowValues, Seed

\* Who must wait has not saved: no save is made while this hydration begins.
LEMMA QueryWaitsKeeps ==
  ASSUME IInv, QueryWaits
  PROVE  IInv'
<1>1. opts.memory /\ Made = {} /\ waiting' = TRUE
  BY DEF QueryWaits, Served, IInv, OnlyInMemory
<1>2. hydration' \in [step : {"none", "asked", "read", "done"}, rows : [Ids -> RowValues]]
  BY NoHydrationType DEF QueryWaits, IInv, TypeOK
<1> QED
  BY <1>1, <1>2, HydrationKeeps DEF QueryWaits

LEMMA HydrationReadsKeeps ==
  ASSUME IInv, HydrationReads
  PROVE  IInv'
<1>1. opts.memory /\ Underway
  BY OptionsType DEF HydrationReads, IInv, OnlyInMemory, Underway, TypeOK
<1>2. tables[Wrapped] \in [Ids -> RowValues]
  BY <1>1, WrappedType DEF IInv, TypeOK
<1>3. hydration' \in [step : {"none", "asked", "read", "done"}, rows : [Ids -> RowValues]]
  BY <1>2 DEF HydrationReads
<1> QED
  BY <1>1, <1>3, HydrationKeeps DEF HydrationReads, IInv, TypeOK

LEMMA HydrationFailsKeeps ==
  ASSUME IInv, HydrationFails
  PROVE  IInv'
BY NoHydrationType, HydrationKeeps DEF HydrationFails

\* The rows that land are those of no save, or of one they overtake.
LEMMA HydrationLandsKeeps ==
  ASSUME IInv, HydrationLands
  PROVE  IInv'
<1>1. opts.memory /\ Underway
  BY OptionsType DEF HydrationLands, IInv, OnlyInMemory, Underway, TypeOK
<1>2. /\ tables \in [Plugins -> [Ids -> RowValues]] /\ hydration.rows \in [Ids -> RowValues]
      /\ Source \in Plugins
  BY DEF IInv, TypeOK, Plugins
<1>3. Hydrated(tables[Source], hydration.rows) \in [Ids -> RowValues]
  BY <1>2 DEF Hydrated
<1>4. /\ tables' \in [Plugins -> [Ids -> RowValues]]
      /\ \A p \in Plugins : p # Source => tables'[p] = tables[p]
  BY <1>2, <1>3 DEF HydrationLands
<1>5. /\ hydration' \in [step : {"none", "asked", "read", "done"}, rows : [Ids -> RowValues]]
      /\ hydration'.step = "done"
  BY NoHydrationType DEF HydrationLands
<1>6. TypeOK'
  BY <1>4, <1>5 DEF IInv, TypeOK, HydrationLands, Made
<1>7. /\ AllOrderly' /\ InOrder' /\ OneAtATime' /\ OnlyInMemory' /\ Made' = Made
      /\ \A n : (Latest(n)' <=> Latest(n)) /\ (Smooth(n)' <=> Smooth(n))
  BY <1>1, <1>5, SavesStand DEF HydrationLands
<1>8. \A n \in Made : saves[n].id \in overtaken
  BY <1>1 DEF IInv, OnlyInMemory
<1>9. LatestStored'
  BY <1>7, <1>8 DEF LatestStored, HydrationLands, Smooth
<1>10. OwnChangesShown'
  BY <1>7, <1>8 DEF OwnChangesShown, HydrationLands
<1> QED
  BY <1>6, <1>7, <1>9, <1>10 DEF IInv

-----------------------------------------------------------------------------
(* The theorems.                                                            *)

LEMMA InitIInv ==
  ASSUME Init
  PROVE  IInv
<1>1. opts \in Options /\ saves = [n \in Numbers |-> NoSave]
  BY DEF Init, EngineInit
<1>2. NoSave \in SaveSet /\ Orderly(NoSave) /\ NoSave.calls[Source] = NoCall
  BY <1>1, NoSaveType DEF NoSave, Plugins
<1>3. Made = {}
  BY <1>1, <1>2 DEF Made
<1>4. tables \in [Plugins -> [Ids -> RowValues]]
  BY EngineAssumption DEF Init, EngineInit, Empty, RowValues, Seed
<1>5. destroyed \in [Plugins -> Calls]
  BY DEF Init, EngineInit, NoCall, Calls
<1>6. TypeOK
  BY <1>1, <1>2, <1>4, <1>5, NoHydrationType DEF Init, EngineInit, TypeOK, SaveSet
<1>7. AllOrderly
  BY <1>1, <1>2 DEF AllOrderly
<1>8. OnlyInMemory
  BY <1>3, NoHydrationType DEF OnlyInMemory, Init
<1> QED
  BY <1>3, <1>6, <1>7, <1>8 DEF IInv, InOrder, OneAtATime, LatestStored, OwnChangesShown

LEMMA NextIInv ==
  ASSUME IInv, [Next]_vars
  PROVE  IInv'
<1>1. ASSUME NEW n \in Numbers, NEW i \in Ids, NEW row \in {0, n}, OptimisticSave(n, i, row)
      PROVE  IInv'
  BY <1>1, SaveKeeps
<1>2. ASSUME EngineStep, UNCHANGED <<written, hydration, waiting, overtaken>>
      PROVE  IInv'
  <2>1. ASSUME NEW n \in Numbers, NEW p \in Plugins,
               Apply(n, p) \/ Refuse(n, p) \/ Answer(n, p) \/ Timeout(n, p)
        PROVE  IInv'
    BY <1>2, <2>1, ApplyKeeps, RefuseKeeps, AnswerKeeps, TimeoutKeeps
  <2>2. ASSUME Destroy PROVE IInv'
    BY <1>2, <2>2, DestroyKeeps
  <2>3. ASSUME NEW p \in Plugins, Drop(p) \/ DropUnanswered(p) PROVE IInv'
    BY <1>2, <2>3, DropKeeps, DropUnansweredKeeps
  <2> QED
    BY <1>2, <2>1, <2>2, <2>3 DEF EngineStep
<1>3. ASSUME QueryWaits \/ HydrationReads \/ HydrationFails \/ HydrationLands
      PROVE  IInv'
  BY <1>3, QueryWaitsKeeps, HydrationReadsKeeps, HydrationFailsKeeps, HydrationLandsKeeps
<1>4. ASSUME UNCHANGED vars PROVE IInv'
  BY <1>4 DEF vars, engineVars, IInv, TypeOK, AllOrderly, Orderly, Promised, InOrder, OnlyInMemory,
              Underway, OneAtATime, LatestStored, OwnChangesShown, Untouched, Latest, Smooth,
              Composed, Made, Pending
<1> QED
  BY <1>1, <1>2, <1>3, <1>4 DEF Next

LEMMA Invariant == Spec => []IInv
BY InitIInv, NextIInv, PTL DEF Spec

\* Every variable stays in its type, for any plugins, rows, options and number of saves.
THEOREM TypeCorrect == Spec => []TypeOK
<1>1. IInv => TypeOK
  BY DEF IInv
<1> QED
  BY <1>1, Invariant, PTL

\* PluginSyncEngine.bulkPersistAsync: the mirrors are sent only what the source applied, and
\* success is told only when every promised plugin has applied the save.
THEOREM TheSourceDecides == Spec => []SourceDecides
<1>1. ASSUME IInv PROVE SourceDecides
  <2> SUFFICES ASSUME NEW n \in Numbers
               PROVE  /\ \A p \in Mirrors : saves[n].calls[p] # NoCall
                                              => saves[n].calls[Source].doing = "done"
                      /\ saves[n].told = "ok" => \A p \in Promised : saves[n].calls[p].doing = "done"
    BY DEF SourceDecides, Promised
  <2>1. Orderly(saves[n]) /\ Source \in Plugins
    BY <1>1 DEF IInv, AllOrderly, Plugins
  <2> QED
    BY <2>1 DEF Orderly, CallOrderly
<1> QED
  BY <1>1, Invariant, PTL

\* OptimisticUpdatesDbPlugin: memory shows the last change made to each row here, unless a
\* hydration was under way when it was made.
THEOREM MemoryShowsOwnChanges == Spec => []OwnChangesShown
<1>1. IInv => OwnChangesShown
  BY DEF IInv
<1> QED
  BY <1>1, Invariant, PTL

\* Once nothing is under way, every plugin of the engine has done a smooth row's latest save.
LEMMA LatestDone ==
  ASSUME IInv, \A n \in Numbers : ~Pending(n), NEW n \in Made, Smooth(saves[n].id),
         NEW p \in Composed
  PROVE  saves[n].calls[p].doing = "done"
<1>1. /\ n \in Numbers /\ Orderly(saves[n]) /\ saves[n].calls \in [Plugins -> Calls]
      /\ Composed \subseteq Plugins /\ Source \in Composed
  BY OptionsType DEF Made, IInv, AllOrderly, TypeOK, Composed
<1>2. \A q \in Composed : /\ saves[n].calls[q] \in Calls /\ CallOrderly(saves[n].calls[q])
                          /\ ~Failed(saves[n].calls[q])
                          /\ saves[n].calls[q] # NoCall =>
                               /\ saves[n].calls[q].doing # "asked"
                               /\ saves[n].calls[q].answer # "none"
  BY <1>1 DEF Smooth, Orderly, Pending
<1>3. saves[n].calls[Source].answer = "ok"
  BY <1>1, <1>2 DEF Made, Failed, Calls
<1>4. saves[n].calls[p] # NoCall
  BY <1>1, <1>3 DEF Composed, Orderly, NoCall
<1> QED
  BY <1>2, <1>4 DEF Calls, CallOrderly, Failed

\* PluginSyncEngine.bulkPersistAsync: once nothing is under way, a mirror holds the source's
\* rows that were saved, but for those MirrorsAgree excepts.
THEOREM MirrorsEndUpAgreeing == Spec => []MirrorsAgree
<1>1. ASSUME IInv PROVE MirrorsAgree
  <2> SUFFICES ASSUME \A n \in Numbers : ~Pending(n), Untouched,
                      NEW n \in Made, NEW p \in opts.mirrors, Smooth(saves[n].id)
               PROVE  tables[p][saves[n].id] = tables[Source][saves[n].id]
    BY DEF MirrorsAgree, Untouched, Smooth
  <2> DEFINE Of == {m \in Made : saves[m].id = saves[n].id}
  <2>1. Of \in SUBSET Numbers /\ Of # {}
    BY DEF Made
  <2>2. PICK k \in Of : \A m \in Of : m <= k
    BY <2>1, Greatest
  <2>3. k \in Made /\ saves[k].id = saves[n].id /\ Latest(k) /\ Smooth(saves[k].id)
    BY <2>2 DEF Latest
  <2>4. Source \in Composed /\ p \in Composed
    BY DEF Composed
  <2>5. \A q \in Composed : saves[k].calls[q].doing = "done"
    BY <1>1, <2>3, LatestDone
  <2>6. \A q \in Composed : tables[q][saves[k].id] = saves[k].row
    BY <1>1, <2>3, <2>5 DEF IInv, LatestStored
  <2> QED
    BY <2>3, <2>4, <2>6
<1> QED
  BY <1>1, Invariant, PTL
=============================================================================
