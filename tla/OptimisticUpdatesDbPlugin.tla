---------------------- MODULE OptimisticUpdatesDbPlugin ----------------------
(***************************************************************************)
(* plugins/replication/src/OptimisticUpdatesDbPlugin.ts: a memory plugin   *)
(* answers the reads and takes the writes; a PluginSyncEngine repeats them *)
(* at the wrapped plugin, in the background.  The first query of a         *)
(* collection loads the wrapped plugin's rows (hydration), unless the      *)
(* collection was written.                                                 *)
(*                                                                         *)
(* One collection.  The memory plugin is the engine's Source, the wrapped  *)
(* plugin its only mirror.                                                 *)
(***************************************************************************)
EXTENDS PluginSyncEngine

\* The constructor gives the engine one mirror.
ASSUME WrappedAssumption ==
  \A options \in Options : options.memory => \E p \in Mirrors : options.mirrors = {p}

VARIABLES
  written,   \* writtenCollections has the collection
  hydration, \* hydrationPromises: its step, and the rows the wrapped plugin answered
  waiting,   \* a query awaits the hydration
  overtaken  \* history: rows changed while a hydration was under way

vars == <<engineVars, written, hydration, waiting, overtaken>>

NoHydration == [step |-> "none", rows |-> Empty]
Underway == hydration.step \in {"asked", "read"}

Init ==
  /\ EngineInit
  /\ written = FALSE /\ hydration = NoHydration /\ waiting = FALSE /\ overtaken = {}

Wrapped == CHOOSE p \in opts.mirrors : TRUE

\* (variant) only the size of the memory's collection counts.
ServedBySize == hydration.step # "asked" /\ hydration.step # "read" /\ tables[Source] # Empty

\* ensureHydrated resolves at once: the query is answered from memory.
Served ==
  \/ written
  \/ hydration.step = "done"
  \/ hydration.step = "none" /\ tables[Source] # Empty

\* bulkPersist.
OptimisticSave(n, i, row) ==
  /\ Save(n, i, row)
  /\ written' = opts.memory
  /\ overtaken' = IF Underway THEN overtaken \cup {i} ELSE overtaken
  /\ UNCHANGED <<hydration, waiting>>

\* A query finds nothing in memory: it waits for the hydration under way, or starts it.
QueryWaits ==
  /\ opts.memory /\ ~Served /\ ~waiting
  /\ waiting' = TRUE
  /\ hydration' = IF Underway THEN hydration ELSE [NoHydration EXCEPT !.step = "asked"]
  /\ UNCHANGED <<engineVars, written, overtaken>>

\* The wrapped plugin runs the hydration's query.
HydrationReads ==
  /\ hydration.step = "asked"
  /\ hydration' = [step |-> "read", rows |-> tables[Wrapped]]
  /\ UNCHANGED <<engineVars, written, waiting, overtaken>>

\* It fails: the promise unregisters itself, those who wait get the error.
HydrationFails ==
  /\ Underway
  /\ hydration' = NoHydration /\ waiting' = FALSE
  /\ UNCHANGED <<engineVars, written, overtaken>>

\* The rows are added to the memory plugin, where an add overwrites.
Hydrated(memory, rows) == [i \in Ids |-> IF rows[i] # 0 THEN rows[i] ELSE memory[i]]

\* Its answer arrives.
HydrationLands ==
  /\ hydration.step = "read"
  /\ tables' = [tables EXCEPT ![Source] = Hydrated(@, hydration.rows)]
  /\ hydration' = [NoHydration EXCEPT !.step = "done"] /\ waiting' = FALSE
  /\ UNCHANGED <<opts, saves, destroyed, crossed, written, overtaken>>

Next ==
  \/ \E n \in Numbers, i \in Ids : \E row \in {0, n} : OptimisticSave(n, i, row)
  \/ EngineStep /\ UNCHANGED <<written, hydration, waiting, overtaken>>
  \/ QueryWaits \/ HydrationReads \/ HydrationFails \/ HydrationLands

Spec == Init /\ [][Next]_vars

\* The wrapped plugin answers the hydration's query, which has no timeout.
FairSpec ==
  /\ Spec
  /\ \A p \in Plugins :
       /\ WF_engineVars(DropUnanswered(p))
       /\ \A n \in Numbers : WF_engineVars(Answer(n, p) \/ Timeout(n, p))
  /\ WF_vars(HydrationReads \/ HydrationFails) /\ WF_vars(HydrationLands)

-----------------------------------------------------------------------------
Calls == [doing : {"none", "asked", "done", "failed"}, answer : {"none", "ok", "error"}]
RowValues == 0..Seed

TypeOK ==
  /\ opts \in Options
  /\ tables \in [Plugins -> [Ids -> RowValues]]
  /\ saves \in [Numbers -> [id : Ids, row : RowValues, calls : [Plugins -> Calls],
                            told : {"none", "ok", "error"}]]
  /\ destroyed \in [Plugins -> Calls]
  /\ crossed \subseteq Made
  /\ {written, waiting} \subseteq BOOLEAN
  /\ hydration \in [step : {"none", "asked", "read", "done"}, rows : [Ids -> RowValues]]
  /\ overtaken \subseteq Ids

\* OptimisticUpdatesDbPlugin.query: memory shows the last change made to a row here,
\* unless a hydration was under way when the change was made.
OwnChangesShown ==
  opts.memory /\ (\A p \in Plugins : destroyed[p] = NoCall) =>
    \A n \in Made :
      (\A m \in Made : saves[m].id = saves[n].id => m <= n)
        => \/ tables[Source][saves[n].id] = saves[n].row
           \/ saves[n].id \in overtaken

\* PluginSyncEngine.bulkPersistAsync: once nothing is under way, a mirror holds the
\* source's rows that were saved, but for those with a failed call, two saves at once,
\* or a hydration that came between.
MirrorsAgree ==
  (\A n \in Numbers : ~Pending(n)) /\ (\A p \in Plugins : destroyed[p] = NoCall) =>
    \A n \in Made, p \in opts.mirrors :
      LET row == saves[n].id
      IN  \/ tables[p][row] = tables[Source][row]
          \/ row \in overtaken
          \/ \E m \in Made : /\ saves[m].id = row
                             /\ \/ m \in crossed
                                \/ \E q \in Composed : Failed(saves[m].calls[q])

\* local-first-apps.md:101 as it is worded, the first query hydrates the collection:
\* a query that is answered sees every row stored before that was not removed here.
ServedIsHydrated ==
  opts.memory /\ Served /\ (\A p \in Plugins : destroyed[p] = NoCall) =>
    \A i \in Ids : tables[Source][i] = 0 =>
      tables[Wrapped][i] # Seed \/ \E n \in Made : saves[n].id = i

\* guardedCall, ensureHydrated: whatever the plugins do, a save and destroy are answered,
\* and a query that waits for a hydration is, be it with an error.
EveryoneAnswered == CallsAnswered /\ (waiting ~> ~waiting)
=============================================================================
