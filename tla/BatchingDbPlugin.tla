-------------------------- MODULE BatchingDbPlugin --------------------------
(***************************************************************************)
(* core/src/plugins/BatchingDbPlugin.ts: a queue in front of a database    *)
(* plugin that never lets two writes overlap and, when the plugin promises *)
(* that a failed write leaves nothing applied, sends writes to disjoint    *)
(* schemas as one.                                                         *)
(*                                                                         *)
(* A write is a call of bulkPersist; of its payload only the schemas it    *)
(* changes are kept.  The inner plugin is the environment: it answers each *)
(* call, at once or later, with success, with an error (or a throw) or     *)
(* with a partial result.  What it applied is the history variable log.    *)
(*                                                                         *)
(* The groups of a batch are not stored: the partition in prepare() is     *)
(* greedy and looks only ahead, so the next group is a function of the     *)
(* items left, and `batch` holds those.                                    *)
(***************************************************************************)
EXTENDS Naturals, Sequences, FiniteSets

CONSTANTS
  Writes,        \* calls of bulkPersist, each submitted at most once
  Schemas,       \* schema identifiers
  SchemasOf,     \* [Writes -> non-empty sets of schemas]
  Destroyers,    \* calls of destroy, each made at most once
  IsAtomic,      \* options.isAtomic
  MaxBatchSize,  \* options.maxBatchSize, floored at 1
  NoDestroyer    \* onSettled = null

ASSUME SchemasAssumption == SchemasOf \in [Writes -> (SUBSET Schemas) \ {{}}]
ASSUME AtomicAssumption == IsAtomic \in BOOLEAN
ASSUME BatchSizeAssumption == MaxBatchSize \in Nat \ {0}
ASSUME DestroyerAssumption == NoDestroyer \notin Destroyers

Outcomes == {"success", "partial", "error"}

VARIABLES
  queue,        \* writes waiting, oldest first
  batch,        \* items of the batch in hand not sent yet
  retry,        \* items writeIndividually still has to send
  inFlight,     \* items of the event the inner plugin holds; <<>> when none
  isWriting,    \* the latch
  continuing,   \* the continuation of an answered event is about to run
  isDestroyed,
  onSettled,    \* the destroy call to forward once the batch settles
  destroying,   \* history: destroy calls received
  forwarded,    \* history: those the inner plugin received, in order
  answer,       \* [Writes -> Seq(outcome)]: invocations of each item's done
  arrived,      \* history: accepted writes in order of arrival
  log           \* history: what the inner plugin applied, one entry per event

plugin == <<queue, batch, retry, inFlight, isWriting, continuing,
            isDestroyed, onSettled>>
vars == <<plugin, destroying, forwarded, answer, arrived, log>>

Elements(ws) == {ws[i] : i \in DOMAIN ws}

-----------------------------------------------------------------------------
(* Batches and groups.                                                     *)

\* (variant) schemas are not compared.
MergeableOverlapping(items, n) == n = 1 \/ IsAtomic

\* The first n items may leave as one event: one item always, several only
\* under isAtomic and when no two of them claim the same schema.
Mergeable(items, n) ==
  \/ n = 1
  \/ /\ IsAtomic
     /\ \A i, j \in 1..n :
          i # j => SchemasOf[items[i]] \cap SchemasOf[items[j]] = {}

\* An item joins the last group unless it overlaps it: the next group is the
\* longest run that may be merged.
IsNextGroup(items, n) ==
  /\ Mergeable(items, n)
  /\ n < Len(items) => ~Mergeable(items, n + 1)

\* What a merged event carries: operation.set(schemaId, ...) keeps, for each
\* schema, the changes of the last item that has it.
EventOperation(items) ==
  {op \in Writes \X Schemas :
     \E i \in DOMAIN items :
        /\ op[1] = items[i]
        /\ op[2] \in SchemasOf[items[i]]
        /\ \A j \in DOMAIN items : j > i => op[2] \notin SchemasOf[items[j]]}

\* Each item's done is invoked with outcome o.
Answered(items, o) ==
  [w \in Writes |-> IF w \in Elements(items)
                      THEN Append(answer[w], o) ELSE answer[w]]

-----------------------------------------------------------------------------
Init ==
  /\ queue = <<>> /\ batch = <<>> /\ retry = <<>> /\ inFlight = <<>>
  /\ isWriting = FALSE /\ continuing = FALSE
  /\ isDestroyed = FALSE
  /\ onSettled = NoDestroyer
  /\ destroying = {}
  /\ forwarded = <<>>
  /\ answer = [w \in Writes |-> <<>>]
  /\ arrived = <<>>
  /\ log = <<>>

\* writeGroups: the next group of items goes to the inner plugin.
SendGroup(items) ==
  \E n \in 1..Len(items) :
    /\ IsNextGroup(items, n)
    /\ inFlight' = SubSeq(items, 1, n)
    /\ batch' = SubSeq(items, n + 1, Len(items))
    /\ UNCHANGED retry

\* writeIndividually: one event per item, in arrival order.
SendAlone(items) ==
  /\ inFlight' = <<Head(items)>>
  /\ retry' = Tail(items)

\* drain with writes waiting: up to MaxBatchSize of them are taken, and the
\* first group is sent.  Should preparing throw, the batch goes one by one.
Drain(waiting) ==
  LET size == IF Len(waiting) < MaxBatchSize THEN Len(waiting) ELSE MaxBatchSize
      taken == SubSeq(waiting, 1, size)
  IN  /\ queue' = SubSeq(waiting, size + 1, Len(waiting))
      /\ isWriting' = TRUE
      /\ \/ SendGroup(taken)
         \/ SendAlone(taken) /\ batch' = <<>>

\* (variant) onSettled is dropped without being run.
SettleForgetful ==
  /\ isWriting' = FALSE
  /\ onSettled' = NoDestroyer
  /\ UNCHANGED <<queue, batch, retry, inFlight, forwarded>>

\* drain with nothing waiting: the latch comes down, and a destroy that
\* arrived mid-write is forwarded.
Settle ==
  /\ isWriting' = FALSE
  /\ onSettled' = NoDestroyer
  /\ forwarded' = IF onSettled = NoDestroyer
                    THEN forwarded ELSE Append(forwarded, onSettled)
  /\ UNCHANGED <<queue, batch, retry, inFlight>>

-----------------------------------------------------------------------------
Submitted(w) == answer[w] # <<>> \/ w \in Elements(arrived)

\* bulkPersist on a live plugin.
BulkPersist(w) ==
  /\ ~Submitted(w)
  /\ ~isDestroyed
  /\ arrived' = Append(arrived, w)
  /\ IF isWriting
       THEN /\ queue' = Append(queue, w)
            /\ UNCHANGED <<batch, retry, inFlight, isWriting>>
       ELSE Drain(Append(queue, w))
  /\ UNCHANGED <<continuing, isDestroyed, onSettled, destroying, forwarded,
                 answer, log>>

\* bulkPersist after destroy.
BulkPersistDestroyed(w) ==
  /\ ~Submitted(w)
  /\ isDestroyed
  /\ answer' = Answered(<<w>>, "destroyed")
  /\ UNCHANGED <<plugin, destroying, forwarded, arrived, log>>

\* (variant) the queue is answered and not emptied.
DestroyKeepingQueue(d) ==
  /\ d \notin destroying
  /\ destroying' = destroying \cup {d}
  /\ isDestroyed' = TRUE
  /\ answer' = Answered(queue, "destroyed")
  /\ IF isWriting
       THEN onSettled' = d /\ UNCHANGED forwarded
       ELSE forwarded' = Append(forwarded, d) /\ UNCHANGED onSettled
  /\ UNCHANGED <<queue, batch, retry, inFlight, isWriting, continuing, arrived, log>>

\* destroy: what waits is failed; the inner destroy waits for the batch.
Destroy(d) ==
  /\ d \notin destroying
  /\ destroying' = destroying \cup {d}
  /\ isDestroyed' = TRUE
  /\ queue' = <<>>
  /\ answer' = Answered(queue, "destroyed")
  /\ IF isWriting
       THEN onSettled' = d /\ UNCHANGED forwarded
       ELSE forwarded' = Append(forwarded, d) /\ UNCHANGED onSettled
  /\ UNCHANGED <<batch, retry, inFlight, isWriting, continuing, arrived, log>>

\* What the inner plugin may have applied when it answers o: everything, a
\* part, or on an error nothing, unless it makes no promise of atomicity.
MayApply(o) ==
  CASE o = "success" -> {EventOperation(inFlight)}
    [] o = "partial" -> SUBSET EventOperation(inFlight)
    [] OTHER -> IF IsAtomic THEN {{}} ELSE SUBSET EventOperation(inFlight)

\* The inner plugin answers.  A failed group of several is re-run item by
\* item and nobody is told; otherwise every item gets the outcome.
InnerAnswers(o) ==
  /\ inFlight # <<>>
  /\ \E applied \in MayApply(o) :
       log' = IF applied = {} THEN log ELSE Append(log, applied)
  /\ inFlight' = <<>> /\ continuing' = TRUE
  /\ IF o = "error" /\ Len(inFlight) > 1
       THEN retry' = inFlight /\ UNCHANGED answer
       ELSE answer' = Answered(inFlight, o) /\ UNCHANGED retry
  /\ UNCHANGED <<queue, batch, isWriting, isDestroyed, onSettled,
                 destroying, forwarded, arrived>>

\* (variant) the batch goes on before the failed group is re-run.
AdvanceGroupsFirst ==
  /\ continuing /\ continuing' = FALSE
  /\ \/ /\ batch # <<>>
        /\ SendGroup(batch)
        /\ UNCHANGED <<queue, isWriting, onSettled, forwarded>>
     \/ /\ batch = <<>> /\ retry # <<>>
        /\ SendAlone(retry)
        /\ UNCHANGED <<queue, batch, isWriting, onSettled, forwarded>>
     \/ /\ retry = <<>> /\ batch = <<>> /\ queue # <<>>
        /\ Drain(queue)
        /\ UNCHANGED <<onSettled, forwarded>>
     \/ /\ retry = <<>> /\ batch = <<>> /\ queue = <<>>
        /\ Settle
  /\ UNCHANGED <<isDestroyed, destroying, answer, arrived, log>>

\* The continuation after the answers: the next item, the next group, the
\* next batch, or rest.  Callers' callbacks run before it, and may submit.
Advance ==
  /\ continuing /\ continuing' = FALSE
  /\ \/ /\ retry # <<>>
        /\ SendAlone(retry)
        /\ UNCHANGED <<queue, batch, isWriting, onSettled, forwarded>>
     \/ /\ retry = <<>> /\ batch # <<>>
        /\ SendGroup(batch)
        /\ UNCHANGED <<queue, isWriting, onSettled, forwarded>>
     \/ /\ retry = <<>> /\ batch = <<>> /\ queue # <<>>
        /\ Drain(queue)
        /\ UNCHANGED <<onSettled, forwarded>>
     \/ /\ retry = <<>> /\ batch = <<>> /\ queue = <<>>
        /\ Settle
  /\ UNCHANGED <<isDestroyed, destroying, answer, arrived, log>>

Next ==
  \/ \E w \in Writes : BulkPersist(w) \/ BulkPersistDestroyed(w)
  \/ \E d \in Destroyers : Destroy(d)
  \/ \E o \in Outcomes : InnerAnswers(o)
  \/ Advance

\* The continuation runs in the inner plugin's callback, and a plugin answers
\* every call; callers owe nothing.
Fairness == WF_vars(Advance) /\ WF_vars(\E o \in Outcomes : InnerAnswers(o))

Spec == Init /\ [][Next]_vars /\ Fairness
-----------------------------------------------------------------------------
(* Properties.                                                             *)

TypeOK ==
  /\ queue \in Seq(Writes) /\ batch \in Seq(Writes)
  /\ retry \in Seq(Writes) /\ inFlight \in Seq(Writes)
  /\ isWriting \in BOOLEAN /\ continuing \in BOOLEAN
  /\ isDestroyed \in BOOLEAN
  /\ onSettled \in Destroyers \cup {NoDestroyer}
  /\ destroying \subseteq Destroyers
  /\ forwarded \in Seq(Destroyers)
  /\ answer \in [Writes -> Seq(Outcomes \cup {"destroyed"})]
  /\ arrived \in Seq(Writes)
  /\ log \in Seq(SUBSET (Writes \X Schemas))

\* Everything accepted and not answered, in the order it will be answered.
Unanswered == inFlight \o retry \o batch \o queue

\* The latch is up exactly while an event is out or its continuation is about
\* to run, never both, and nothing waits while it is down: a latch stuck up, or
\* down with work left, is a silent write outage.
LatchUpExactlyWhileWorking ==
  /\ isWriting <=> (inFlight # <<>> \/ continuing)
  /\ continuing => inFlight = <<>>
  /\ ~isWriting => retry = <<>> /\ batch = <<>> /\ queue = <<>>

\* No caller is dropped and none is called twice: a write that was accepted is
\* held in exactly one place or its done ran exactly once.
EachWriteHeldOrAnsweredOnce ==
  /\ \A w \in Writes : Len(answer[w]) <= 1
  /\ \A w \in Elements(arrived) :
       (answer[w] = <<>>) <=> (w \in Elements(Unanswered))
  /\ \A i, j \in DOMAIN Unanswered : i # j => Unanswered[i] # Unanswered[j]

ArrivedBefore(w, v) ==
  \E i, j \in DOMAIN arrived : i < j /\ arrived[i] = w /\ arrived[j] = v

\* Arrival order is kept unconditionally, whatever was merged, failed and
\* re-run: what one event applied arrived before what any later one did.  So
\* no write is applied by two events either.
AppliedInArrivalOrder ==
  \A i, j \in DOMAIN log : i < j =>
    \A x \in log[i], y \in log[j] : ArrivedBefore(x[1], y[1])

AppliedOps == UNION Elements(log)

\* What a caller is told is what happened.  Told success, it finds every one of
\* its schemas written: merging never overwrites a batchmate's changes in the
\* merged operation.  Told of an error, or failed by a destroy, it has changed
\* nothing if the inner plugin is atomic, although its group may have been sent
\* twice.  And when a destroy reaches the inner plugin, no write is out and
\* every caller this wrapper was holding has been answered.
AnswersMatchEffects ==
  /\ \A w \in Writes : answer[w] = <<"success">> =>
       \A s \in SchemasOf[w] : <<w, s>> \in AppliedOps
  /\ IsAtomic => \A w \in Writes : answer[w] \in {<<"error">>, <<"destroyed">>} =>
       \A op \in AppliedOps : op[1] # w
  /\ forwarded # <<>> =>
       /\ inFlight = <<>>
       /\ \A w \in Elements(arrived) : answer[w] # <<>>

\* An accepted write is eventually answered, the latch never sticks; and a
\* destroy that arrives mid-write does reach the inner plugin.
EveryCallAnswered ==
  /\ \A w \in Writes : (w \in Elements(arrived)) ~> (answer[w] # <<>>)
  /\ (destroying # {}) ~> (forwarded # <<>>)

\* Every destroy that arrives mid-write is run once the batch settles.  The
\* code keeps one: a second destroy replaces the first in onSettled.
EveryDestroyForwarded ==
  \A d \in Destroyers : (d \in destroying) ~> (d \in Elements(forwarded))

\* The wrapper is a serial writer.
Serial == INSTANCE SerialWriter WITH
            pending <- Unanswered, closed <- isDestroyed
SerialSpec == Serial!Spec
=============================================================================
