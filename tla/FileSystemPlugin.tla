--------------------------- MODULE FileSystemPlugin ---------------------------
(***************************************************************************)
(* A database of whole-collection files: bulkPersist of                    *)
(* core/src/plugins/EphemeralDataPlugin.ts over the load and save of       *)
(* plugins/file-system/src/FileSystemDbCollection.ts, run by the           *)
(* WorkPipeline of core/src/pipeline/TrampolinePipeline.ts.                *)
(*                                                                         *)
(* A collection is one object per file and process: the rows in memory,    *)
(* which the first load fills from the file and each save writes out       *)
(* whole.  A persist changes at most one row of each file; a row's content *)
(* is the number of the persist that wrote it.  What runs without waiting  *)
(* for the file system is a turn; its steps are kept apart, and nothing    *)
(* else happens between them.                                              *)
(*                                                                         *)
(* Rows are numbered by their keys.  An identity key is given by the       *)
(* collection in memory (core/src/collections/MemoryDataCollection.ts),    *)
(* which counts from the greatest key it has met: of a file that was not   *)
(* read it has met none, and gives numbers that stored rows have.          *)
(***************************************************************************)
EXTENDS Naturals, Sequences, FiniteSetsExt

CONSTANTS
  Files,       \* the collections, numbered in the order a persist takes them
  LastRow,     \* the greatest row stored at the start or named by a persist
  Named,       \* the rows that persists name; the others are stored at the start
  Numbering,   \* the files whose rows have identity keys
  MaxPersists, \* bound on calls of bulkPersist
  MaxFaults,   \* bound on failed loads, failed saves and crashes
  Overlaps,    \* may a persist come while another is under way?
  Readds       \* may an add name a row that is there?

ASSUME FilesAssumption == Files \subseteq Nat \ {0} /\ IsFiniteSet(Files)
ASSUME RowsAssumption == LastRow \in Nat /\ Named \subseteq 1..LastRow /\ Numbering \subseteq Files
ASSUME BoundAssumption == MaxPersists \in Nat /\ MaxFaults \in Nat
ASSUME ModesAssumption == {Overlaps, Readds} \subseteq BOOLEAN

VARIABLES
  memory,     \* [Files -> rows]: the shared collections
  nextIds,    \* [Numbering -> the last number given or met]: nextNumericalIds
  loadState,  \* [Files -> "unloaded", "loading" or "loaded"]
  waiters,    \* [Files -> Seq]: loadWaiters, persists or a query
  disk,       \* [Files -> rows]: what each file says
  persists,   \* each persist so far, see Persist
  turn,       \* who goes on in this turn: [who, ok]
  faults,
  truth,      \* history: [Files -> rows] as the persists answered "success" left it
  torn,       \* history: [file, row] that a crash may have left either way
  stale,      \* history: [file, row] that a failed undo left on disk
  overlapped, \* history: a persist came while another was under way
  collided    \* history: [file, row, loadState] given to an add while a row had it

collections == <<memory, nextIds>>
store == <<collections, loadState, waiters>>
history == <<truth, torn, overlapped, collided>>
vars == <<store, disk, persists, turn, faults, truth, torn, stale, overlapped, collided>>

Seed == MaxPersists + 1
Contents == 0..Seed      \* 0 is no row, Seed one stored before the first step
\* Room for the numbers given to the rows of adds, one per persist and file.
Rows == 1..(LastRow + IF Numbering = {} THEN 0 ELSE MaxPersists)
Unnamed == (1..LastRow) \ Named
Empty == [r \in Rows |-> 0]
Query == 0               \* a query among the waiters

\* What a persist does to a file; row 0 is one yet to be numbered; checked: it carries
\* a concurrency token, the content its caller read before the first step.
Changes == {c \in [kind : {"add", "update", "remove"}, row : Named \cup {0}, checked : BOOLEAN] :
              c.checked => c.kind = "update"}

\* The key of an added row is the caller's to give or the collection's.
Keyed(f, c) == c.row = 0 <=> c.kind = "add" /\ f \in Numbering

\* at is the file at hand: loaded last, or being saved; failed the file whose
\* save failed; snapshot what is being written; undo the contents to restore.
Persist(changes) ==
  [changes |-> changes, phase |-> "load", at |-> 0, failed |-> 0,
   snapshot |-> Empty, undo |-> [f \in DOMAIN changes |-> 0]]

Ended == {"success", "refused", "unheard", "gone"}
AsEnded(outcome) == [phase |-> outcome]
Touched(p) == DOMAIN persists[p].changes
Change(p, f) == persists[p].changes[f]
Cell(p, f) == <<f, Change(p, f).row>>
Unnumbered(p) == {f \in Touched(p) : Change(p, f).row = 0}
Given(p) == {Cell(p, f) : f \in Touched(p) \ Unnumbered(p)}
Running == {p \in DOMAIN persists : persists[p].phase \notin Ended}
After(p, f) == {g \in Touched(p) : g > f}

Init ==
  /\ disk \in [Files -> {rows \in [Rows -> {0, Seed}] :
       \A r \in Rows \ Named : rows[r] = IF r \in Unnamed THEN Seed ELSE 0}]
  /\ memory = [f \in Files |-> Empty]
  /\ nextIds = [f \in Numbering |-> 0]
  /\ loadState = [f \in Files |-> "unloaded"]
  /\ waiters = [f \in Files |-> <<>>]
  /\ persists = <<>> /\ turn = <<>> /\ faults = 0
  /\ truth = disk /\ torn = {} /\ stale = {} /\ overlapped = FALSE /\ collided = {}

-----------------------------------------------------------------------------
(* Calls.                                                                   *)

There(f, r) == memory[f][r] # 0 \/ (loadState[f] # "loaded" /\ disk[f][r] # 0)

BulkPersist ==
  /\ turn = <<>> /\ Len(persists) < MaxPersists
  /\ Running # {} => Overlaps
  /\ \E files \in (SUBSET Files) \ {{}} : \E changes \in [files -> Changes] :
       /\ \A f \in files :
            /\ Keyed(f, changes[f])
            /\ changes[f].kind = "add" /\ changes[f].row # 0 => Readds \/ ~There(f, changes[f].row)
       /\ persists' = Append(persists, Persist(changes))
  /\ turn' = <<[who |-> Len(persists) + 1, ok |-> TRUE]>>
  /\ overlapped' = (overlapped \/ Running # {})
  /\ UNCHANGED <<store, disk, faults, truth, torn, stale, collided>>

\* (variant) whoever comes while a load is under way is forgotten.
AwaitAlone(f, who) ==
  /\ waiters' = IF loadState[f] = "loading" THEN waiters
                ELSE [waiters EXCEPT ![f] = Append(@, who)]
  /\ loadState' = [loadState EXCEPT ![f] = "loading"]

\* load of a file that is not loaded: one read serves all who wait for it.
Await(f, who) ==
  /\ waiters' = [waiters EXCEPT ![f] = Append(@, who)]
  /\ loadState' = [loadState EXCEPT ![f] = "loading"]

\* A query loads its collection; one that comes during a load waits for it, to
\* no effect on others.
QueryLoads(f) ==
  /\ turn = <<>> /\ loadState[f] = "unloaded"
  /\ Await(f, Query)
  /\ UNCHANGED <<collections, disk, persists, turn, faults, history, stale>>

-----------------------------------------------------------------------------
(* A turn: the pipeline goes on until it waits for a file.                  *)

Going == turn # <<>> /\ Head(turn).ok
Who == Head(turn).who
At(phases) == Who # Query /\ persists[Who].phase \in phases

QueryGoesOn ==
  /\ turn # <<>> /\ Who = Query
  /\ turn' = Tail(turn)
  /\ UNCHANGED <<store, disk, persists, faults, history, stale>>

\* Phase 1: updates and removes need the stored rows, adds do not.
ToLoad(p) == {f \in After(p, persists[p].at) : Change(p, f).kind # "add"}

Load ==
  /\ Going /\ At({"load"}) /\ ToLoad(Who) # {}
  /\ LET f == Min(ToLoad(Who))
     IN  IF loadState[f] = "loaded"
           THEN persists' = [persists EXCEPT ![Who].at = f] /\ UNCHANGED <<waiters, loadState, turn>>
           ELSE Await(f, Who) /\ turn' = Tail(turn) /\ UNCHANGED persists
  /\ UNCHANGED <<collections, disk, faults, history, stale>>

\* The files in which a persist's token does not match; a missing row is no
\* conflict.
Conflicts(p) ==
  {f \in Touched(p) : Change(p, f).checked /\ memory[f][Change(p, f).row] \notin {0, Seed}}

Content(p, f) == IF Change(p, f).kind = "remove" THEN 0 ELSE p

\* The collections after a persist's rows in files got what content says.
With(table, p, files, content(_)) ==
  [f \in Files |-> IF f \in files
                     THEN [table[f] EXCEPT ![Change(p, f).row] = content(f)] ELSE table[f]]
Applied(table, p, files) ==
  LET content(f) == Content(p, f) IN With(table, p, files, content)

\* (variant) the collections are left as they are.
RevertedNothing(p) == memory
Reverted(p) ==
  LET content(f) == persists[p].undo[f] IN With(memory, p, Touched(p), content)

\* Phase 2: a conflict in any collection refuses the persist before any change.
Refuse ==
  /\ Going /\ At({"load"}) /\ ToLoad(Who) = {} /\ Conflicts(Who) # {}
  /\ persists' = [persists EXCEPT ![Who] = AsEnded("refused")]
  /\ turn' = Tail(turn)
  /\ UNCHANGED <<store, disk, faults, history, stale>>

Numbered(p, f) ==
  IF f \in Unnumbered(p) THEN [Change(p, f) EXCEPT !.row = nextIds[f] + 1] ELSE Change(p, f)

\* resolveIdSet: an added row without a key gets the next number of its collection, which
\* knows nothing of the rows of a file that was not read.
Number ==
  /\ Going /\ At({"load"}) /\ ToLoad(Who) = {} /\ Conflicts(Who) = {} /\ Unnumbered(Who) # {}
  /\ persists' = [persists EXCEPT ![Who].changes = [f \in Touched(Who) |-> Numbered(Who, f)]]
  /\ nextIds' = [f \in Numbering |-> IF f \in Unnumbered(Who) THEN nextIds[f] + 1 ELSE nextIds[f]]
  /\ collided' = collided \cup {<<f, nextIds[f] + 1, loadState[f]>> :
                                   f \in {g \in Unnumbered(Who) : There(g, nextIds[g] + 1)}}
  /\ UNCHANGED <<memory, loadState, waiters, disk, turn, faults, truth, torn, overlapped, stale>>

\* What undoes a change: an add is removed, whatever it replaced.
Undo(p, f) == IF Change(p, f).kind = "add" THEN 0 ELSE memory[f][Change(p, f).row]

Apply ==
  /\ Going /\ At({"load"}) /\ ToLoad(Who) = {} /\ Conflicts(Who) = {} /\ Unnumbered(Who) = {}
  /\ memory' = Applied(memory, Who, Touched(Who))
  /\ persists' = [persists EXCEPT ![Who].phase = "save", ![Who].at = Min(Touched(Who)),
                                  ![Who].undo = [f \in Touched(Who) |-> Undo(Who, f)]]
  /\ UNCHANGED <<nextIds, loadState, waiters, disk, turn, faults, history, stale>>

\* (variant) the rows in memory are taken for the whole file.
HydratedAnyway(f) == TRUE
Hydrated(f) == loadState[f] = "loaded"

\* save: the whole collection, as it is now, is on its way to the file; one that
\* was never loaded is loaded first.
Save ==
  /\ Going /\ At({"save", "resave"})
  /\ LET f == persists[Who].at
     IN  IF Hydrated(f)
           THEN /\ persists' = [persists EXCEPT ![Who].snapshot = memory[f],
                     ![Who].phase = IF @ = "save" THEN "saving" ELSE "resaving"]
                /\ UNCHANGED <<waiters, loadState>>
           ELSE Await(f, Who) /\ UNCHANGED persists
  /\ turn' = Tail(turn)
  /\ UNCHANGED <<collections, disk, faults, history, stale>>

-----------------------------------------------------------------------------
(* Failures.  The pipeline throws what is reported to it later: out of the  *)
(* callback, past those who wait behind it, and nobody is answered.         *)

Unheard(waiting) ==
  [p \in DOMAIN persists |->
     IF \E n \in DOMAIN waiting : waiting[n].who = p
       THEN AsEnded("unheard") ELSE persists[p]]

Goes(p) == [who |-> p, ok |-> TRUE]

\* (variant) the files saved before the failure are left as they are.
SavedBeforeNone(p) == {}
SavedBefore(p) == {f \in Touched(p) : f < persists[p].at}

\* The save of one file failed: memory is reverted, and the files saved before
\* are saved again.
SaveFailed(p, rest) ==
  /\ memory' = Reverted(p)
  /\ IF SavedBefore(p) = {}
       THEN persists' = Unheard(<<Goes(p)>> \o rest) /\ turn' = <<>>
       ELSE /\ persists' = [persists EXCEPT ![p].phase = "resave", ![p].failed = persists[p].at,
                                            ![p].at = Min(Touched(p))]
            /\ turn' = <<Goes(p)>> \o rest

\* resaveNext, whether it succeeded or not.
Resaved(p) ==
  LET left == {f \in After(p, persists[p].at) : f < persists[p].failed}
  IN  IF left = {}
        THEN persists' = Unheard(<<Goes(p)>>) /\ UNCHANGED turn
        ELSE /\ persists' = [persists EXCEPT ![p].phase = "resave", ![p].at = Min(left)]
             /\ turn' = <<Goes(p)>>

\* Those who awaited a load that failed are told, until one of them throws.
LoadFailedFor ==
  /\ turn # <<>> /\ ~Head(turn).ok
  /\ \/ /\ At({"load"})
        /\ persists' = Unheard(turn) /\ turn' = <<>>
        /\ UNCHANGED memory
     \/ /\ At({"save"})
        /\ SaveFailed(Who, Tail(turn))
  /\ UNCHANGED <<nextIds, loadState, waiters, disk, faults, history, stale>>

-----------------------------------------------------------------------------
(* The file system answers, when no turn is running.                        *)

\* All who waited go on, in the order they came, with the result.
LoadEnds(f, ok) ==
  /\ loadState' = [loadState EXCEPT ![f] = IF ok THEN "loaded" ELSE "unloaded"]
  /\ waiters' = [waiters EXCEPT ![f] = <<>>]
  /\ turn' = [n \in DOMAIN waiters[f] |-> [who |-> waiters[f][n], ok |-> ok]]

\* resolveId: the greatest of the keys met, in memory or not.
Met(f) == Max({nextIds[f]} \cup {r \in Rows : disk[f][r] # 0})

\* hydrate: stored rows are added to those in memory, and the waiters go on.
Loaded(f) ==
  /\ turn = <<>> /\ loadState[f] = "loading"
  /\ memory' = [memory EXCEPT ![f] =
                  [r \in Rows |-> IF memory[f][r] # 0 THEN memory[f][r] ELSE disk[f][r]]]
  /\ nextIds' = [g \in Numbering |-> IF g = f THEN Met(f) ELSE nextIds[g]]
  /\ LoadEnds(f, TRUE)
  /\ UNCHANGED <<disk, persists, faults, history, stale>>

\* The file cannot be read.
LoadFails(f) ==
  /\ turn = <<>> /\ loadState[f] = "loading"
  /\ faults < MaxFaults /\ faults' = faults + 1
  /\ LoadEnds(f, FALSE)
  /\ UNCHANGED <<collections, disk, persists, history, stale>>

Saving(p) == turn = <<>> /\ persists[p].phase \in {"saving", "resaving"}

\* The temporary file has been renamed: the next file, or the answer.
Renamed(p) ==
  /\ Saving(p)
  /\ LET f == persists[p].at
         left == After(p, f)
     IN  /\ disk' = [disk EXCEPT ![f] = persists[p].snapshot]
         /\ stale' = {c \in stale : c[1] # f}
         /\ \/ /\ persists[p].phase = "resaving"
               /\ Resaved(p) /\ UNCHANGED history
            \/ /\ persists[p].phase = "saving" /\ left # {}
               /\ persists' = [persists EXCEPT ![p].phase = "save", ![p].at = Min(left)]
               /\ turn' = <<Goes(p)>> /\ UNCHANGED history
            \/ /\ persists[p].phase = "saving" /\ left = {}
               /\ persists' = [persists EXCEPT ![p] = AsEnded("success")]
               /\ truth' = Applied(truth, p, Touched(p))
               /\ torn' = torn \ {Cell(p, g) : g \in Touched(p)}
               /\ UNCHANGED <<turn, overlapped, collided>>
  /\ UNCHANGED <<store, faults>>

\* A directory, a temporary file or its renaming fails; the file is as it was.
SaveFails(p) ==
  /\ Saving(p)
  /\ faults < MaxFaults /\ faults' = faults + 1
  /\ \/ /\ persists[p].phase = "saving"
        /\ SaveFailed(p, <<>>) /\ UNCHANGED stale
     \/ /\ persists[p].phase = "resaving"
        /\ stale' = stale \cup {Cell(p, persists[p].at)}
        /\ Resaved(p) /\ UNCHANGED memory
  /\ UNCHANGED <<nextIds, loadState, waiters, disk, history>>

\* The process ends and starts again.
Crash ==
  /\ turn = <<>> /\ faults < MaxFaults /\ faults' = faults + 1
  /\ memory' = [f \in Files |-> Empty] /\ nextIds' = [f \in Numbering |-> 0]
  /\ loadState' = [f \in Files |-> "unloaded"]
  /\ waiters' = [f \in Files |-> <<>>]
  /\ persists' = [p \in DOMAIN persists |->
       IF p \in Running THEN AsEnded("gone") ELSE persists[p]]
  /\ torn' = torn \cup stale \cup UNION {Given(p) : p \in Running}
  /\ stale' = {}
  /\ UNCHANGED <<disk, turn, truth, overlapped, collided>>

-----------------------------------------------------------------------------
Step == QueryGoesOn \/ Load \/ Refuse \/ Number \/ Apply \/ Save \/ LoadFailedFor
FileAnswers(f) == Loaded(f) \/ LoadFails(f)
SaveAnswers(p) == p \in DOMAIN persists /\ (Renamed(p) \/ SaveFails(p))

Next ==
  \/ BulkPersist
  \/ \E f \in Files : QueryLoads(f) \/ FileAnswers(f)
  \/ \E p \in 1..MaxPersists : SaveAnswers(p)
  \/ Step \/ Crash

\* A turn ends, and the file system answers every call.
Fairness ==
  /\ WF_vars(Step)
  /\ \A f \in Files : WF_vars(FileAnswers(f))
  /\ \A p \in 1..MaxPersists : WF_vars(SaveAnswers(p))

Spec == Init /\ [][Next]_vars /\ Fairness

-----------------------------------------------------------------------------
(* Properties.                                                              *)

\* Every variable has its type, and only a file being read is awaited.
TypeOK ==
  /\ {memory, disk, truth} \subseteq [Files -> [Rows -> Contents]]
  /\ loadState \in [Files -> {"unloaded", "loading", "loaded"}]
  /\ waiters \in [Files -> Seq({Query} \cup DOMAIN persists)]
  /\ \A f \in Files : waiters[f] # <<>> <=> loadState[f] = "loading"
  /\ turn \in Seq([who : {Query} \cup DOMAIN persists, ok : BOOLEAN])
  /\ \A p \in DOMAIN persists :
       persists[p].phase \in Ended \cup {"load", "save", "saving", "resave", "resaving"}
  /\ nextIds \in [Numbering -> Nat]
  /\ torn \cup stale \subseteq Files \X Nat
  /\ collided \subseteq Files \X Nat \X {"unloaded", "loading", "loaded"}
  /\ faults \in 0..MaxFaults /\ overlapped \in BOOLEAN

\* The rows that an add was numbered over before their file was read.
Unread(f) == {r \in Rows : \E state \in {"unloaded", "loading"} : <<f, r, state>> \in collided}

\* A stored row that no persist names stays in its file, whatever is saved,
\* loaded late, reverted or interrupted: no save writes a collection that does
\* not have what the file has, unless an add was given the row's number before the
\* file was read, and no number given afterwards is that of a row.
StoredRowsKept ==
  \A f \in Files : \A r \in Unnamed \ Unread(f) : disk[f][r] = Seed

\* The rows that an add was numbered over, in memory too.
Collided == {<<c[1], c[2]>> : c \in collided}

Unsure == Collided \cup torn \cup UNION {Given(p) : p \in Running}

\* A persist that is refused or fails is "a save that did nothing": between
\* persists that do not overlap, memory holds what the successful ones left, but for
\* rows that an add was numbered over.
FailedSavesDoNothing ==
  ~overlapped => \A f \in Files, r \in Rows :
    <<f, r>> \notin Unsure => memory[f][r] \in {truth[f][r]} \cup
                                (IF loadState[f] = "loaded" THEN {} ELSE {0})

\* A persist answered with success is in the files, through any later failure
\* and crash, and a failed one is not: but for those a crash interrupted, and
\* those whose undo failed to be saved, and rows that an add was numbered over.
AnsweredIsStored ==
  ~overlapped => \A f \in Files, r \in Rows :
    <<f, r>> \notin Unsure \cup stale => disk[f][r] = truth[f][r]

\* No persist waits for ever: each is answered, thrown away with an error or
\* ended by a crash.
EveryPersistEnds ==
  \A p \in 1..MaxPersists : (p \in Running) ~> (p \notin Running)

\* And none is thrown away: each is answered, if the process lives.
EveryPersistAnswered ==
  [](\A p \in DOMAIN persists : persists[p].phase # "unheard")

\* "Overlapping saves each rename a complete snapshot; the later one is a
\* superset" (FileSystemDbCollection.ts:158): when all is saved the files say
\* what memory does.
SnapshotsLandInOrder ==
  faults = 0 /\ Running = {} =>
    \A f \in Files : loadState[f] = "loaded" => disk[f] = memory[f]
=============================================================================
