--------------------------------- MODULE Views ---------------------------------
(***************************************************************************)
(* datastore/src/views/View.ts: a view subscribes to a query and writes    *)
(* what it answers to a table of its own, after reading that table and     *)
(* comparing.  A view whose key is computed from the row keeps every       *)
(* version (a history); any other holds the last answer (a mirror).        *)
(*                                                                         *)
(* The views are the subscriptions of LiveQueries; all write through one   *)
(* plugin, whose writes serializeWrite puts in a chain.                    *)
(***************************************************************************)
EXTENDS LiveQueries

CONSTANT Histories \* the views with a computed key

ASSUME ViewsAssumption == Histories \subseteq Subs

VARIABLES
  views, \* [Subs -> a view; for a history also what it was handed, and what of it failed]
  chain  \* viewWrites: the writes under way and waiting, oldest first

vars == <<liveVars, views, chain>>

\* A row's key.
Key(s, r) == IF s \in Histories THEN r ELSE r.id

Init ==
  /\ LiveInit
  /\ views = [s \in Subs |-> [queued |-> <<>>, step |-> "idle", snapshot |-> {}, table |-> {},
                              gone |-> FALSE, failed |-> FALSE, handed |-> {}, lost |-> {}]]
  /\ chain = <<>>

\* drain: the oldest snapshot is reconciled, beginning with a read of the table.
Drained(view) ==
  IF view.gone \/ view.queued = <<>> THEN [view EXCEPT !.step = "idle", !.snapshot = {}]
  ELSE [view EXCEPT !.step = "reading", !.snapshot = Head(view.queued), !.queued = Tail(@)]

\* (variant) a history discards the snapshot that waits, too.
QueuedLast(s, snapshot) == <<snapshot>>

\* A history queues every snapshot, a mirror the last.
Queued(s, snapshot) ==
  IF s \in Histories THEN Append(views[s].queued, snapshot) ELSE <<snapshot>>

\* The callback of derive.
Derived(s, snapshot) ==
  IF views[s].gone THEN views[s]
  ELSE LET view == [views[s] EXCEPT !.queued = Queued(s, snapshot),
                                    !.handed = IF s \in Histories THEN @ \cup snapshot ELSE @]
       IN  IF view.step = "idle" THEN Drained(view) ELSE view

\* The query of a view's derivation is answered.
Derive(s, k) ==
  /\ Deliver(s, k)
  /\ views' = [views EXCEPT ![s] = Derived(s, subs[s].asked[k].rows)]
  /\ UNCHANGED chain

-----------------------------------------------------------------------------
(* reconcile.                                                               *)

Puts(s, view) == view.snapshot \ view.table

\* A row that the derivation no longer produces leaves a mirror.
Removes(s, view) ==
  IF s \in Histories THEN {}
  ELSE {r \in view.table : \A d \in view.snapshot : Key(s, d) # Key(s, r)}

Ended(view) == [Drained(view) EXCEPT !.failed = FALSE]

\* The reconcile failed.
Dropped(s, view) ==
  [Drained(view) EXCEPT !.failed = TRUE,
                        !.lost = IF s \in Histories THEN @ \cup view.snapshot ELSE @]

\* (variant) the next snapshot does not wait for the write.
GoesOn(view) == Drained(view)

\* The view waits for its write.
Waits(view) == [view EXCEPT !.step = "writing"]

\* The table is read: what differs is put in the chain.
Reconcile(s) ==
  LET view == views[s]
      write == [view |-> s, puts |-> Puts(s, view), removes |-> Removes(s, view),
                started |-> FALSE]
      same == write.puts = {} /\ write.removes = {}
  IN  /\ view.step = "reading"
      /\ IF view.gone \/ same
           THEN views' = [views EXCEPT ![s] = Ended(view)] /\ UNCHANGED chain
           ELSE views' = [views EXCEPT ![s] = Waits(view)] /\ chain' = Append(chain, write)
      /\ UNCHANGED liveVars

\* (variant) the view goes on waiting.
ReconcileFailsSilently(s) ==
  /\ views[s].step = "reading"
  /\ views' = [views EXCEPT ![s].failed = TRUE, ![s].step = "writing"]
  /\ UNCHANGED <<liveVars, chain>>

\* The read fails: the snapshot is dropped.
ReconcileFails(s) ==
  /\ views[s].step = "reading"
  /\ views' = [views EXCEPT ![s] = Dropped(s, @)]
  /\ UNCHANGED <<liveVars, chain>>

\* The chain hands its oldest write to the plugin.
WriteStarts ==
  /\ chain # <<>> /\ ~chain[1].started
  /\ chain' = [chain EXCEPT ![1].started = TRUE]
  /\ UNCHANGED <<liveVars, views>>

Written(w) ==
  {r \in views[w.view].table \ w.removes : \A p \in w.puts : Key(w.view, p) # Key(w.view, r)}
    \cup w.puts

\* It lands, and its view goes on.
WriteLands ==
  /\ chain # <<>> /\ chain[1].started
  /\ chain' = Tail(chain)
  /\ LET w == chain[1]
     IN  views' = [views EXCEPT ![w.view] = Ended([@ EXCEPT !.table = Written(w)])]
  /\ UNCHANGED liveVars

\* It fails, which is logged and no more.
WriteFails ==
  /\ chain # <<>> /\ chain[1].started
  /\ chain' = Tail(chain)
  /\ views' = [views EXCEPT ![chain[1].view] = Dropped(chain[1].view, @)]
  /\ UNCHANGED liveVars

Closed(gone) ==
  views' = [s \in Subs |-> IF s \in gone THEN [views[s] EXCEPT !.gone = TRUE, !.queued = <<>>]
                           ELSE views[s]]

\* View.dispose.
DisposeView(s) == Unsubscribe(s) /\ Closed({s}) /\ UNCHANGED chain

\* DataStore's dispose: the signal first, then every collection's dispose.
DisposeAll(st) ==
  /\ DisposeStore(st)
  /\ Closed({s \in Subs : Home[s] = st})
  /\ UNCHANGED chain

LiveStep ==
  \/ \E t \in Threads, i \in Ids, in \in BOOLEAN :
       Change(t, i, [v |-> changes + 1, in |-> in])
  \/ \E t \in Threads, i \in Ids : Change(t, i, NoRow)
  \/ \E m \in landed : Announce(m) \/ Withhold(m)
  \/ \E s \in Subs : Subscribe(s)
  \/ \E t \in Threads : Hear(t)
  \/ \E s \in Subs : \E k \in 1..MaxAsked : Read(s, k) \/ Fail(s, k)

ViewStep(s) == Reconcile(s) \/ ReconcileFails(s)

Next ==
  \/ LiveStep /\ UNCHANGED <<views, chain>>
  \/ \E s \in Subs, k \in 1..MaxAsked : Derive(s, k)
  \/ \E s \in Subs : ViewStep(s)
  \/ WriteStarts \/ WriteLands \/ WriteFails
  \/ \E s \in Subs : DisposeView(s)
  \/ \E st \in Stores : DisposeAll(st)

Spec == Init /\ [][Next]_vars

\* The plugin answers what a view reads and writes.
FairSpec ==
  /\ Spec
  /\ \A s \in Subs : WF_vars(ViewStep(s))
  /\ WF_vars(WriteStarts) /\ WF_vars(WriteLands \/ WriteFails)

-----------------------------------------------------------------------------
Versions == [id : Ids, v : 1..MaxChanges]

TypeOK ==
  /\ LiveTypeOK
  /\ \A s \in Subs : /\ views[s].step \in {"idle", "reading", "writing"}
                     /\ {views[s].snapshot, views[s].table} \subseteq SUBSET Versions
                     /\ \A r, q \in views[s].table : Key(s, r) = Key(s, q) => r = q
  /\ \A k \in DOMAIN chain : chain[k].view \in Subs

Settled(s) == views[s].step = "idle" /\ views[s].queued = <<>>

\* View.ts, reconcile: a mirror that is settled, with a subscription that is quiet and
\* not stale, and whose last write did not fail, holds the rows that match now.
MirrorFollowsSource ==
  \A s \in Live \ Histories :
    Settled(s) /\ Quiet(s) /\ subs[s].stale = "no" /\ ~views[s].failed
      => views[s].table = Answer(s).rows

\* View.ts:64-69: a history that is settled holds every version that it was handed,
\* but for those whose reconcile failed.
HistoryKeepsEveryVersion ==
  \A s \in Histories :
    Settled(s) /\ ~views[s].gone => views[s].handed \subseteq views[s].table \cup views[s].lost

\* View.ts, drain: once changes and answers stop, no view stays busy, whatever failed.
ReconcilesEnd == []<>(\A s \in Subs : views[s].step = "idle")

\* View.ts:73-80: once a view is disposed, no write of it reaches the plugin.
StopsOnceDisposed ==
  [][\A s \in Subs : views[s].gone /\ chain # <<>> /\ chain[1].view = s => ~WriteStarts]_vars
=============================================================================
