--------------------------- MODULE PluginSyncEngine ---------------------------
(***************************************************************************)
(* plugins/replication/src/PluginSyncEngine.ts: one plugin is the source,  *)
(* whose saves are repeated at the mirrors once it has answered.  Every    *)
(* call of a plugin has a timeout (guardedCall), after which the plugin    *)
(* may still do what it was asked; its answer is then ignored.  Queries    *)
(* change nothing: routes are tried in order until one answers.            *)
(*                                                                         *)
(* Saves are numbered in the order the application makes them.  Each       *)
(* changes one row, to its own number or, if it removes the row, to 0.     *)
(* opts holds the constructor's options; memory says that the source is an *)
(* in-process plugin, which applies and answers within the call and does   *)
(* not fail, as in OptimisticUpdatesDbPlugin.                              *)
(***************************************************************************)
EXTENDS Integers, FiniteSets

CONSTANTS
  Source,   \* the source plugin
  Mirrors,  \* the mirror plugins
  Ids,      \* primary keys
  Options,  \* what opts may be
  MaxSaves  \* bound on saves times mirrors

ASSUME EngineAssumption ==
  /\ Source \notin Mirrors /\ Ids # {} /\ MaxSaves \in Nat
  /\ Options \subseteq [ack : {"after-source", "after-all"},
                        failure : {"swallow", "surface"}, memory : BOOLEAN,
                        mirrors : SUBSET Mirrors]

VARIABLES
  opts,      \* the options
  tables,    \* [Plugins -> [Ids -> the row: the save that wrote it, or 0]]
  saves,     \* [Numbers -> a save; NoSave while it is not made]
  destroyed, \* [Plugins -> the call of destroy]
  crossed    \* history: the saves made or under way while another one of the row was

engineVars == <<opts, tables, saves, destroyed, crossed>>

Plugins == Mirrors \cup {Source}
Numbers == 1..MaxSaves
Seed == MaxSaves + 1
Empty == [i \in Ids |-> 0]

\* A plugin's call: what it does with it, and what guardedCall made of its answer.
NoCall == [doing |-> "none", answer |-> "none"]
Asked == [doing |-> "asked", answer |-> "none"]
NoSave == [id |-> CHOOSE i \in Ids : TRUE, row |-> 0, calls |-> [p \in Plugins |-> NoCall],
           told |-> "none"]
Made == {n \in Numbers : saves[n].calls[Source] # NoCall}

EngineInit ==
  /\ opts \in Options
  /\ \E stored \in [Ids -> {0, Seed}] :
       tables = [p \in Plugins |-> IF p = Source /\ opts.memory THEN Empty ELSE stored]
  /\ saves = [n \in Numbers |-> NoSave]
  /\ destroyed = [p \in Plugins |-> NoCall]
  /\ crossed = {}

\* The answer counts when it is the first: later ones are ignored.
Settled(call, answer) == IF call.answer = "none" THEN [call EXCEPT !.answer = answer] ELSE call

\* The plugin failed, or was given up on.
Failed(call) == call.doing = "failed" \/ call.answer = "error"

AllAnswered(calls, plugins) == \A p \in plugins : calls[p].answer # "none"

-----------------------------------------------------------------------------
(* bulkPersist.                                                             *)

\* What the caller is told once every mirror has answered, in after-all mode.
VerdictOfMirrors(calls) ==
  IF opts.failure = "surface" /\ \E p \in opts.mirrors : calls[p].answer = "error"
    THEN "error" ELSE "ok"

\* (variant) the mirrors are sent the save whatever the source answers.
ContinuedAnyway(save, p, answer) ==
  LET calls == [save.calls EXCEPT ![p] = Settled(@, answer)]
  IN  [save EXCEPT !.calls = IF p # Source THEN calls
                             ELSE [q \in Plugins |-> IF q \in opts.mirrors THEN Asked ELSE calls[q]],
                   !.told = answer]

\* (variant) the mirrors are forgotten when the caller is told first.
ContinuedAlone(save, p, answer) ==
  [save EXCEPT !.calls[p] = Settled(@, answer), !.told = answer]

\* bulkPersistAsync after the answer of p: the source's sends the save to the
\* mirrors, or ends it; in after-all mode the last mirror's ends it.
Continued(save, p, answer) ==
  LET calls == [save.calls EXCEPT ![p] = Settled(@, answer)]
      sent == [q \in Plugins |-> IF q \in opts.mirrors THEN Asked ELSE calls[q]]
  IN  IF p = Source
        THEN [save EXCEPT !.calls = IF answer = "ok" THEN sent ELSE calls,
                          !.told = IF answer = "error" THEN "error"
                                   ELSE IF opts.mirrors = {} \/ opts.ack = "after-source" THEN "ok"
                                   ELSE @]
        ELSE [save EXCEPT !.calls = calls,
                          !.told = IF opts.ack = "after-all" /\ AllAnswered(calls, opts.mirrors)
                                     THEN VerdictOfMirrors(calls) ELSE @]

\* A call of the save that a plugin has not carried out, or not answered.
Pending(n) ==
  \E p \in Plugins : /\ saves[n].calls[p] # NoCall
                    /\ (saves[n].calls[p].doing = "asked" \/ saves[n].calls[p].answer = "none")

\* The application saves: number n changes row i.
Save(n, i, row) ==
  LET save == [NoSave EXCEPT !.id = i, !.row = row, !.calls[Source] = Asked]
      others == {m \in Made : saves[m].id = i /\ Pending(m)}
  IN  /\ n * Cardinality(opts.mirrors) <= MaxSaves
      /\ n \notin Made /\ \A m \in Numbers : m < n => m \in Made
      /\ \A p \in Plugins : destroyed[p] = NoCall
      /\ crossed' = IF others = {} THEN crossed ELSE crossed \cup others \cup {n}
      /\ saves' = [saves EXCEPT ![n] =
                     IF opts.memory
                       THEN Continued([save EXCEPT !.calls[Source].doing = "done"], Source, "ok")
                       ELSE save]
      /\ tables' = IF opts.memory THEN [tables EXCEPT ![Source][i] = row] ELSE tables
      /\ UNCHANGED <<opts, destroyed>>

\* A plugin carries the save out, perhaps after its timeout.
Apply(n, p) ==
  /\ saves[n].calls[p].doing = "asked"
  /\ tables' = [tables EXCEPT ![p][saves[n].id] = saves[n].row]
  /\ saves' = [saves EXCEPT ![n].calls[p].doing = "done"]
  /\ UNCHANGED <<opts, destroyed, crossed>>

\* It fails, or applies the save and reports a partial result or an error.
Refuse(n, p) ==
  /\ saves[n].calls[p].doing = "asked"
  /\ \E row \in {tables[p][saves[n].id], saves[n].row} :
       tables' = [tables EXCEPT ![p][saves[n].id] = row]
  /\ saves' = [saves EXCEPT ![n].calls[p].doing = "failed"]
  /\ UNCHANGED <<opts, destroyed, crossed>>

\* Its callback runs.
Answer(n, p) ==
  LET call == saves[n].calls[p]
  IN  /\ call.doing \in {"done", "failed"} /\ call.answer = "none"
      /\ saves' = [saves EXCEPT ![n] =
                     Continued(@, p, IF call.doing = "done" THEN "ok" ELSE "error")]
      /\ UNCHANGED <<opts, tables, destroyed, crossed>>

\* (variant) pluginCallTimeoutMs is 0.
TimeoutNever(n, p) == saves[n].calls[p] = NoCall /\ Answer(n, p)

\* pluginCallTimeoutMs pass without an answer.
Timeout(n, p) ==
  /\ saves[n].calls[p] # NoCall /\ saves[n].calls[p].answer = "none"
  /\ saves' = [saves EXCEPT ![n] = Continued(@, p, "error")]
  /\ UNCHANGED <<opts, tables, destroyed, crossed>>

-----------------------------------------------------------------------------
(* destroy.                                                                 *)

Composed == {Source} \cup opts.mirrors

\* Every plugin is asked at once; saves the mirrors have not answered go on.
Destroy ==
  /\ \A p \in Plugins : destroyed[p] = NoCall
  /\ destroyed' = [p \in Plugins |-> IF p \in Composed THEN Asked ELSE NoCall]
  /\ UNCHANGED <<opts, tables, saves, crossed>>

\* A plugin drops its rows, in time for its timeout or not.
Drop(p) ==
  /\ destroyed[p].doing = "asked"
  /\ \E answer \in {"ok", "error"} : destroyed' = [destroyed EXCEPT ![p] =
        [Settled(@, answer) EXCEPT !.doing = "done"]]
  /\ tables' = [tables EXCEPT ![p] = Empty]
  /\ UNCHANGED <<opts, saves, crossed>>

\* Its call fails, or times out.
DropUnanswered(p) ==
  /\ destroyed[p] = Asked
  /\ destroyed' = [destroyed EXCEPT ![p] = Settled(@, "error")]
  /\ UNCHANGED <<opts, tables, saves, crossed>>

\* All but Save.
EngineStep ==
  \/ \E n \in Numbers, p \in Plugins : Apply(n, p) \/ Refuse(n, p) \/ Answer(n, p) \/ Timeout(n, p)
  \/ Destroy
  \/ \E p \in Plugins : Drop(p) \/ DropUnanswered(p)

-----------------------------------------------------------------------------
\* bulkPersistAsync, PluginSyncEngineOptions: a mirror is sent a save only when the
\* source applied it, and success means that the source has applied the save and,
\* with after-all and surface, that every mirror has.
SourceDecides ==
  \A n \in Numbers :
    LET Done(p)  == saves[n].calls[p].doing = "done"
        promised == {Source} \cup IF opts.ack = "after-all" /\ opts.failure = "surface"
                                    THEN opts.mirrors ELSE {}
    IN  /\ \A p \in Mirrors : saves[n].calls[p] # NoCall => Done(Source)
        /\ saves[n].told = "ok" => \A p \in promised : Done(p)

\* guardedCall: whatever its plugins do, a save and destroy are answered.
CallsAnswered ==
  /\ \A n \in Numbers : n \in Made ~> saves[n].told # "none"
  /\ (\E p \in Plugins : destroyed[p] # NoCall) ~> AllAnswered(destroyed, Composed)
=============================================================================
