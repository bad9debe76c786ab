---------------------------- MODULE StoragePlugins ----------------------------
(***************************************************************************)
(* The plugins over a database of their own, and how each takes a save to  *)
(* statements, transactions and answers:                                   *)
(*   sqlite    SqliteDbPluginBase       mongo  MongoDbPlugin               *)
(*   d1        D1DbPlugin               loose  the same, transactions:     *)
(*   postgres  PostgresDbPlugin                "unavailable"               *)
(*   mysql     MysqlDbPlugin            dexie  DexiePlugin                 *)
(*                                      pouch  PouchDbPlugin               *)
(* Several instances, of one process or of many, use one database.         *)
(* Queries are here for the tables they create and the turns they take.    *)
(*                                                                         *)
(* A table has one row, which is the number of the save that wrote it. The *)
(* database is the environment: row locks, commits, what a failed          *)
(* statement does to its transaction. Every await is a step of its own.    *)
(***************************************************************************)
EXTENDS Naturals, Sequences, FiniteSets

CONSTANTS
  Backends,    \* those compared, by the names above
  Plugins,     \* instances over the one database
  Tables,      \* a set of numbers
  Identities,  \* the tables whose schema has identity keys
  Saves,       \* sequences of [table, do, checked] in the event's order, or one "read"
  Malformed,   \* those of them no statement can be built for: an operand, a value
  Composites,  \* may a store have a schema with several keys
  Limit,       \* connections in a pool
  MaxCalls,
  MaxFaults

ASSUME BoundsAssumption == Limit \in Nat \ {0} /\ {MaxCalls, MaxFaults} \subseteq Nat
ASSUME BackendAssumption ==
  Backends \subseteq {"sqlite", "d1", "postgres", "mysql", "mongo", "loose", "dexie", "pouch"}
\* One row of a table, changed once; what is checked is an update.
ASSUME SavesAssumption ==
  \A save \in Saves :
    /\ save \in Seq([table : Tables, do : {"read", "add", "replace", "remove", "update"}, checked : BOOLEAN])
    /\ save # <<>>
    /\ \A i, j \in DOMAIN save : save[i].table = save[j].table => i = j
    /\ \A i \in DOMAIN save : save[i].checked => save[i].do = "update"
    /\ (\E i \in DOMAIN save : save[i].do = "read") => Len(save) = 1
ASSUME MalformedAssumption == Malformed \subseteq Saves

NoRow  == 0
OldRow == MaxCalls + 1
None   == 0

VARIABLES
  backend,   \* the database, chosen once
  composite, \* the instances whose store has a schema with several keys
  tables,    \* those that exist
  rows,      \* [Tables -> the committed row]
  owner,     \* [Tables -> the call whose transaction holds the row]
  creator,   \* [Tables -> the call whose transaction is creating the table]
  calls,     \* every call, in order of arrival
  faults
vars == <<backend, composite, tables, rows, owner, creator, calls, faults>>

Relational    == {"sqlite", "d1", "postgres", "mysql"}
Pooled        == {"postgres", "mysql"}
Transactional == Relational \cup {"mongo", "dexie"}

-----------------------------------------------------------------------------
(* The operations of a save, and the statements they make up in turn.      *)

Stage(do) == CASE do \in {"read", "remove"} -> 1 [] do = "update" -> 2 [] do = "add" -> 3

\* Removes before updates before adds, within a table.
ByTable(i, do) == <<i, Stage(do)>>

\* The same over all tables at once.
Phased(i, do) == <<Stage(do), i>>

\* Schemas with identity keys first: their tombstones and updates in one call, the
\* adds of each schema in one of theirs. Then the others.
Passes(t, i, do) == <<IF t \in Identities THEN 1 ELSE 2, IF do = "add" THEN i ELSE 0>>

\* The place of an operation among the statements of its save.
Rank(t, i, do) ==
  CASE backend = "pouch" -> Passes(t, i, do)
    [] backend = "dexie" -> Phased(i, do)
    [] backend = "d1"    -> <<0, 0>>
    [] OTHER             -> ByTable(i, do)

Part(item, i, do) ==
  [table |-> item.table, do |-> do, checked |-> item.checked, rank |-> Rank(item.table, i, do)]
Parts(item, i)   == {Part(item, i, do) : do \in IF item.do = "replace" THEN {"remove", "add"} ELSE {item.do}}
Operations(save) == UNION {Parts(save[i], i) : i \in DOMAIN save}

Reads(save) == save[1].do = "read"

Precedes(a, b) == a.rank[1] < b.rank[1] \/ (a.rank[1] = b.rank[1] /\ a.rank[2] < b.rank[2])

\* The statement a save is at: the first of the operations it has left.
First(work) == {op \in work : \A other \in work : ~Precedes(other, op)}

-----------------------------------------------------------------------------
(* Calls.                                                                  *)

New(p, save) ==
  LET Item(t) == CHOOSE i \in DOMAIN save : save[i].table = t
      touched == IF Reads(save) THEN {} ELSE {save[i].table : i \in DOMAIN save}
  IN  [plugin |-> p, step |-> "start", cause |-> "none", held |-> FALSE, expected |-> rows,
       malformed |-> save \in Malformed,
       changes |-> [t \in touched |-> [do |-> save[Item(t)].do, checked |-> save[Item(t)].checked]],
       work |-> Operations(save), view |-> <<>>, seen |-> <<>>, created |-> {}, aborted |-> FALSE,
       landed |-> {}, missed |-> {}]

Touched(n)  == DOMAIN calls[n].changes
IsSave(n)   == Touched(n) # {}
Checks(n)   == \E t \in Touched(n) : calls[n].changes[t].checked
At(n, step) == n \in DOMAIN calls /\ calls[n].step = step
Finished(n) == calls[n].work = {}
Running(n)  == At(n, "run") /\ ~Finished(n)
Batch(n)    == First(calls[n].work)
Op(n)       == CHOOSE op \in Batch(n) : TRUE

\* A replaced row that is gone is not the change that was asked for.
Lands(n, op) == op.do # "remove" \/ calls[n].changes[op.table].do = "remove"

Become(n, c)  == calls' = [calls EXCEPT ![n] = c]
Step(n, step) == Become(n, [calls[n] EXCEPT !.step = step])

\* A failed statement ends the transaction it was in.
InTransaction(n) == backend \in Transactional \ {"d1"} /\ IsSave(n) /\ calls[n].step \in {"run", "create", "creating"}
Failing(n, cause) ==
  [calls[n] EXCEPT !.cause = cause, !.step = IF InTransaction(n) THEN "rollback" ELSE "answer"]
Fail(n, cause) == Become(n, Failing(n, cause))

\* Freed locks, by function.
Without(f, n) == [t \in Tables |-> IF f[t] = n THEN None ELSE f[t]]

\* A session of MongoDB reads as of its first statement.
Found(n, t) ==
  IF t \in DOMAIN calls[n].view THEN calls[n].view[t]
  ELSE IF backend = "mongo" THEN calls[n].seen[t] ELSE rows[t]

Missing(n, t) == backend \in Relational /\ t \notin tables \cup calls[n].created
\* A statement that finds no row changes none; but bulkPut puts one.
Misses(n, op) ==
  Found(n, op.table) = NoRow /\ (op.do = "remove" \/ (op.do = "update" /\ backend # "dexie"))
Written(n, op) == IF op.do = "remove" \/ Misses(n, op) THEN NoRow ELSE n

Refused(n, op) ==
  CASE op.do = "add" /\ Found(n, op.table) # NoRow -> "duplicate"
    [] /\ op.do = "update" /\ op.checked /\ backend # "dexie"
       /\ Found(n, op.table) # calls[n].expected[op.table] -> "conflict"
    [] OTHER -> "none"

-----------------------------------------------------------------------------
Init ==
  /\ backend \in Backends
  /\ composite \in IF backend = "pouch" THEN SUBSET Composites ELSE {{}}
  /\ tables \in IF backend \in Relational THEN SUBSET Tables ELSE {Tables}
  /\ rows \in {f \in [Tables -> {NoRow, OldRow}] : \A t \in Tables \ tables : f[t] = NoRow}
  /\ owner = [t \in Tables |-> None] /\ creator = owner
  /\ calls = <<>>
  /\ faults = 0

\* An update is checked against a row its caller had read.
Ask(p, save) ==
  /\ Len(calls) < MaxCalls
  /\ \A i \in DOMAIN save : save[i].checked => rows[save[i].table] # NoRow
  /\ calls' = Append(calls, New(p, save))
  /\ UNCHANGED <<backend, composite, tables, rows, owner, creator, faults>>

\* sqlite: the chain of writes; pouch: the queue of everything.
Queued(n) == backend = "pouch" \/ (backend = "sqlite" /\ IsSave(n))
Turn(n) ==
  Queued(n) => \A m \in 1..n-1 : calls[m].plugin = calls[n].plugin /\ Queued(m) => calls[m].step = "done"
Connects(n) ==
  backend \in Pooled =>
    Cardinality({m \in DOMAIN calls : calls[m].plugin = calls[n].plugin /\ calls[m].held}) < Limit
Starts(n) == At(n, "start") /\ Turn(n) /\ Connects(n)

\* The builder throws. The documents of a save are no statement.
Unmade(n) ==
  calls[n].malformed /\ (backend \in Relational \/ (backend \in {"mongo", "loose"} /\ ~IsSave(n)))

\* pouch: the schemas are validated before anything settles the unit of work.
Invalid(n) == Starts(n) /\ backend = "pouch" /\ IsSave(n) /\ calls[n].plugin \in composite

\* postgres: a query is built in a then, a save in the callback of its connection.
\* Neither is caught: nobody hears of it, and the connection is kept.
Uncaught(n) == At(n, "start") /\ backend = "postgres" /\ Unmade(n) /\ (IsSave(n) => Starts(n))

Throw(n) ==
  /\ Invalid(n) \/ Uncaught(n)
  /\ Become(n, [calls[n] EXCEPT !.step = "thrown", !.held = backend = "postgres" /\ IsSave(n)])
  /\ UNCHANGED <<backend, composite, tables, rows, owner, creator, faults>>

\* d1 refuses the schemas whose updates it could not check; and what cannot be
\* built is refused elsewhere, by an answer or to the caller's face.
Refuse(n) ==
  /\ Starts(n)
  /\ (backend = "d1" /\ Checks(n)) \/ (Unmade(n) /\ backend # "postgres")
  /\ Fail(n, "refused")
  /\ UNCHANGED <<backend, composite, tables, rows, owner, creator, faults>>

\* (variant) the error of BEGIN is not looked at.
BeginImmediateUnheard(n) ==
  /\ Starts(n) /\ backend = "sqlite" /\ IsSave(n) /\ ~Unmade(n)
  /\ Step(n, "run")
  /\ owner' = IF \E t \in Tables : owner[t] # None THEN owner ELSE [t \in Tables |-> n]
  /\ UNCHANGED <<backend, composite, tables, rows, creator, faults>>

\* BEGIN IMMEDIATE finds the database locked for too long, or locks it.
BeginImmediate(n) ==
  /\ Starts(n) /\ backend = "sqlite" /\ IsSave(n) /\ ~Unmade(n)
  /\ IF \E t \in Tables : owner[t] # None
       THEN Fail(n, "busy") /\ UNCHANGED owner
       ELSE Step(n, "run") /\ owner' = [t \in Tables |-> n]
  /\ UNCHANGED <<backend, composite, tables, rows, creator, faults>>

\* IndexedDB lets transactions with a table in common wait for each other.
BeginScoped(n) ==
  /\ Starts(n) /\ backend = "dexie" /\ IsSave(n)
  /\ \A t \in Touched(n) : owner[t] = None
  /\ Step(n, "run")
  /\ owner' = [t \in Tables |-> IF t \in Touched(n) THEN n ELSE owner[t]]
  /\ UNCHANGED <<backend, composite, tables, rows, creator, faults>>

Begin(n) ==
  /\ Starts(n)
  /\ ~(backend \in {"sqlite", "dexie"} /\ IsSave(n))
  /\ ~(backend = "d1" /\ Checks(n))
  /\ ~(IsSave(n) /\ calls[n].plugin \in composite) /\ ~Unmade(n)
  /\ Become(n, [calls[n] EXCEPT !.step = IF backend = "mysql" /\ IsSave(n) THEN "tables" ELSE "run",
                                !.held = backend \in Pooled, !.seen = IF backend = "mongo" THEN rows ELSE @,
                                !.missed = {t \in Touched(n) : backend = "mongo" /\ rows[t] = NoRow}])
  /\ UNCHANGED <<backend, composite, tables, rows, owner, creator, faults>>

-----------------------------------------------------------------------------
(* Tables.                                                                 *)

\* mysql: DDL commits the transaction it is in, so it comes before.
EnsureTables(n) ==
  /\ At(n, "tables")
  /\ tables' = tables \cup Touched(n)
  /\ Step(n, "run")
  /\ UNCHANGED <<backend, composite, rows, owner, creator, faults>>

\* (variant) no savepoint.
ToNoSavepoint(c) == c

\* postgres: an error aborts the transaction back to a savepoint.
ToSavepoint(c) == [c EXCEPT !.aborted = FALSE]
AfterError(n) == ToSavepoint([calls[n] EXCEPT !.aborted = backend = "postgres" /\ IsSave(n)])

MissTable(n) ==
  /\ Running(n) /\ Missing(n, Op(n).table) /\ ~(backend = "d1" /\ IsSave(n))
  /\ Become(n, [AfterError(n) EXCEPT !.step = "create"])
  /\ UNCHANGED <<backend, composite, tables, rows, owner, creator, faults>>

\* A transaction creates a table for itself until it commits; a query, for all.
\* postgres: two that create one table collide, IF NOT EXISTS or not.
Create(n) ==
  LET t == Op(n).table
      Mine == Become(n, [calls[n] EXCEPT !.step = "run", !.created = @ \cup {t}])
  IN  /\ At(n, "create")
      /\ \/ /\ calls[n].aborted \/ t \in tables
            /\ IF calls[n].aborted THEN Fail(n, "aborted") ELSE Step(n, "run")
            /\ UNCHANGED <<tables, creator>>
         \/ /\ ~calls[n].aborted /\ t \notin tables /\ backend = "postgres"
            /\ IF IsSave(n) /\ creator[t] = None THEN Mine ELSE Step(n, "creating")
            /\ creator' = IF creator[t] = None THEN [creator EXCEPT ![t] = n] ELSE creator
            /\ UNCHANGED tables
         \/ /\ t \notin tables /\ backend = "sqlite" /\ IsSave(n)
            /\ Mine
            /\ UNCHANGED <<tables, creator>>
         \/ /\ t \notin tables /\ backend # "postgres" /\ ~IsSave(n)
            /\ IF owner[t] = None THEN Step(n, "run") /\ tables' = tables \cup {t}
                                  ELSE Fail(n, "busy") /\ UNCHANGED tables
            /\ UNCHANGED creator
  /\ UNCHANGED <<backend, composite, rows, owner, faults>>

\* The other creator has committed or rolled back, or a query's own CREATE ends.
Created(n) ==
  LET t == Op(n).table
  IN  /\ At(n, "creating") /\ creator[t] \in {None, n}
      /\ \/ /\ creator[t] = n
            /\ tables' = tables \cup {t} /\ creator' = [creator EXCEPT ![t] = None]
            /\ Step(n, "run")
         \/ /\ creator[t] = None /\ t \in tables
            /\ IF IsSave(n) THEN Become(n, [AfterError(n) EXCEPT !.step = "run"]) ELSE Fail(n, "exists")
            /\ UNCHANGED <<tables, creator>>
         \/ /\ creator[t] = None /\ t \notin tables
            /\ Step(n, "create")
            /\ UNCHANGED <<tables, creator>>
  /\ UNCHANGED <<backend, composite, rows, owner, faults>>

-----------------------------------------------------------------------------
(* Statements.                                                             *)

\* The call whose transaction has to end before this one can go on.
Awaits(n) ==
  CASE At(n, "creating") -> creator[Op(n).table]
    [] Running(n) /\ backend \in Pooled /\ IsSave(n) /\ ~Misses(n, Op(n)) -> owner[Op(n).table]
    [] OTHER -> None
Blocked(n) == Awaits(n) \notin {None, n}

\* mongo: another session has written the document since this one began.
Contended(n, op) ==
  /\ backend = "mongo" /\ ~Misses(n, op)
  /\ owner[op.table] \notin {None, n} \/ (owner[op.table] = None /\ rows[op.table] # calls[n].seen[op.table])

Ready(n) ==
  Running(n) /\ backend # "pouch" /\ ~(backend = "d1" /\ IsSave(n)) /\ ~Missing(n, Op(n).table) /\ ~Blocked(n)

Select(n) ==
  /\ Running(n) /\ ~IsSave(n) /\ ~Missing(n, Op(n).table)
  /\ Become(n, [calls[n] EXCEPT !.work = @ \ {Op(n)}])
  /\ UNCHANGED <<backend, composite, tables, rows, owner, creator, faults>>

\* What ends a save by what the statement finds.
Cause(n) ==
  IF calls[n].aborted THEN "aborted"
  ELSE IF Refused(n, Op(n)) # "none" THEN Refused(n, Op(n))
  ELSE IF Contended(n, Op(n)) THEN "contention" ELSE "none"

Reject(n) ==
  /\ Ready(n) /\ IsSave(n) /\ Cause(n) # "none"
  /\ Fail(n, Cause(n))
  /\ UNCHANGED <<backend, composite, tables, rows, owner, creator, faults>>

\* In a transaction: seen by it alone, the row locked.
Execute(n) ==
  LET op == Op(n)
  IN  /\ Ready(n) /\ IsSave(n) /\ Cause(n) = "none" /\ backend \in Transactional
      /\ Become(n, IF Misses(n, op)
           THEN [calls[n] EXCEPT !.work = @ \ {Op(n)}, !.missed = @ \cup {op.table}]
           ELSE [calls[n] EXCEPT !.work = @ \ {Op(n)},
                   !.view = [t \in DOMAIN @ \cup {op.table} |-> IF t = op.table THEN Written(n, op) ELSE @[t]]])
      /\ owner' = IF Misses(n, op) THEN owner ELSE [owner EXCEPT ![op.table] = n]
      /\ UNCHANGED <<backend, composite, tables, rows, creator, faults>>

\* Without one: there for everyone.
Write(n) ==
  LET op == Op(n)
  IN  /\ Ready(n) /\ IsSave(n) /\ Cause(n) = "none" /\ backend \notin Transactional
      /\ rows' = [rows EXCEPT ![op.table] = Written(n, op)]
      /\ Become(n, [calls[n] EXCEPT !.work = @ \ {Op(n)},
                      !.landed = IF Lands(n, op) THEN @ \cup {op.table} ELSE @])
      /\ UNCHANGED <<backend, composite, tables, owner, creator, faults>>

\* d1: the creates and the writes are one batch, and it is a transaction.
RunBatch(n) ==
  LET Do(t) == calls[n].changes[t].do
      Missed(t) == Do(t) = "update" /\ rows[t] = NoRow
  IN  /\ Running(n) /\ backend = "d1" /\ IsSave(n)
      /\ IF \E t \in Touched(n) : Do(t) = "add" /\ rows[t] # NoRow
           THEN Fail(n, "duplicate") /\ UNCHANGED <<tables, rows>>
           ELSE /\ tables' = tables \cup Touched(n)
                /\ rows' = [t \in Tables |-> IF t \notin Touched(n) THEN rows[t]
                                             ELSE IF Do(t) = "remove" \/ Missed(t) THEN NoRow ELSE n]
                /\ Become(n, [calls[n] EXCEPT !.step = "answer", !.landed = Touched(n)])
      /\ UNCHANGED <<backend, composite, owner, creator, faults>>

\* pouch: the revisions a save goes by, its callers' or those just looked up.
Lookup(n) ==
  /\ Running(n) /\ backend = "pouch" /\ IsSave(n)
  /\ \E op \in Batch(n) : op.do # "add"
  /\ Become(n, [calls[n] EXCEPT !.step = "bulk", !.seen =
       [t \in Tables |-> IF \E op \in Batch(n) : op.table = t /\ op.checked
                           THEN calls[n].expected[t] ELSE rows[t]]])
  /\ UNCHANGED <<backend, composite, tables, rows, owner, creator, faults>>

\* bulkDocs answers for each document: some may be stored and some refused.
Bulk(n) ==
  LET adds == \A op \in Batch(n) : op.do = "add"
      good == {op \in Batch(n) : rows[op.table] = IF op.do = "add" THEN NoRow ELSE calls[n].seen[op.table]}
      done == {op.table : op \in {o \in good : Lands(n, o)}}
  IN  /\ At(n, "bulk") \/ (Running(n) /\ backend = "pouch" /\ IsSave(n) /\ adds)
      /\ rows' = [t \in Tables |-> IF \E op \in good : op.table = t
                    THEN IF \E op \in good : op.table = t /\ op.do = "remove" THEN NoRow ELSE n
                    ELSE rows[t]]
      /\ Become(n, IF good = Batch(n)
                     THEN [calls[n] EXCEPT !.step = "run", !.work = @ \ Batch(n), !.landed = @ \cup done]
                     ELSE [calls[n] EXCEPT !.step = "answer", !.landed = @ \cup done,
                                           !.cause = IF adds THEN "duplicate" ELSE "conflict"])
      /\ UNCHANGED <<backend, composite, tables, owner, creator, faults>>

-----------------------------------------------------------------------------
(* Ends.                                                                   *)

Ends(n) == At(n, "run") /\ Finished(n)

Committed(n) ==
  /\ tables' = tables \cup calls[n].created
  /\ rows' = [t \in Tables |-> IF t \in DOMAIN calls[n].view THEN calls[n].view[t] ELSE rows[t]]

Commit(n) ==
  /\ Ends(n) /\ IsSave(n) /\ backend \in Transactional
  /\ Committed(n)
  /\ Become(n, [calls[n] EXCEPT !.step = "answer", !.landed = Touched(n)])
  /\ owner' = Without(owner, n) /\ creator' = Without(creator, n)
  /\ UNCHANGED <<backend, composite, faults>>

Rollback(n) ==
  /\ At(n, "rollback")
  /\ Step(n, "answer")
  /\ owner' = Without(owner, n) /\ creator' = Without(creator, n)
  /\ UNCHANGED <<backend, composite, tables, rows, faults>>

\* (variant) an error skips the release.
ReleasedUnlessFailed(c) ==
  [c EXCEPT !.held = @ /\ c.cause # "none", !.work = {}, !.view = <<>>, !.seen = <<>>, !.created = {}]

\* The connection is given back, or closed, before the caller hears.
Released(c) == [c EXCEPT !.held = FALSE, !.work = {}, !.view = <<>>, !.seen = <<>>, !.created = {}]

Answer(n) ==
  /\ At(n, "answer") \/ (Ends(n) /\ ~(IsSave(n) /\ backend \in Transactional))
  /\ Become(n, [Released(calls[n]) EXCEPT !.step = "done"])
  /\ UNCHANGED <<backend, composite, tables, rows, owner, creator, faults>>

\* postgres, mysql: of those that wait for each other one is chosen and fails.
Deadlock(n) ==
  /\ \E S \in SUBSET DOMAIN calls : n \in S /\ \A m \in S : Blocked(m) /\ Awaits(m) \in S
  /\ Fail(n, "deadlock")
  /\ UNCHANGED <<backend, composite, tables, rows, owner, creator, faults>>

-----------------------------------------------------------------------------
(* Faults: what is sent to the database fails, or its answer is lost.      *)

Fault(n) ==
  /\ faults < MaxFaults /\ faults' = faults + 1
  /\ \/ Starts(n) /\ (Unmade(n) => IsSave(n) /\ backend \in Pooled)
     \/ \E step \in {"tables", "run", "create", "bulk"} : At(n, step)
  /\ ~Blocked(n) /\ ~(Ends(n) /\ backend \notin Transactional)
  /\ Fail(n, "fault")
  /\ UNCHANGED <<backend, composite, tables, rows, owner, creator>>

\* A COMMIT that fails at a server may have been carried out.
LoseCommit(n) ==
  /\ faults < MaxFaults /\ faults' = faults + 1
  /\ Ends(n) /\ IsSave(n) /\ backend \in {"postgres", "mysql", "mongo"}
  /\ Committed(n)
  /\ Become(n, [calls[n] EXCEPT !.step = "answer", !.landed = Touched(n), !.cause = "lost"])
  /\ owner' = Without(owner, n) /\ creator' = Without(creator, n)
  /\ UNCHANGED <<backend, composite>>

-----------------------------------------------------------------------------
Advance(n) ==
  \/ Throw(n) \/ Refuse(n) \/ BeginImmediate(n) \/ BeginScoped(n) \/ Begin(n)
  \/ EnsureTables(n) \/ MissTable(n) \/ Create(n) \/ Created(n)
  \/ Select(n) \/ Reject(n) \/ Execute(n) \/ Write(n) \/ RunBatch(n) \/ Lookup(n) \/ Bulk(n)
  \/ Commit(n) \/ Rollback(n) \/ Answer(n) \/ Deadlock(n)

Next ==
  \/ \E p \in Plugins, save \in Saves : Ask(p, save)
  \/ \E n \in 1..MaxCalls : Advance(n) \/ Fault(n) \/ LoseCommit(n)

Spec == Init /\ [][Next]_vars /\ WF_vars(\E n \in 1..MaxCalls : Advance(n))

-----------------------------------------------------------------------------
TypeOK ==
  /\ backend \in Backends /\ composite \subseteq Composites /\ tables \subseteq Tables
  /\ rows \in [Tables -> 0..OldRow]
  /\ {owner, creator} \subseteq [Tables -> 0..MaxCalls]
  /\ \A n \in DOMAIN calls : calls[n].step \in
       {"start", "thrown", "tables", "run", "create", "creating", "bulk", "rollback", "answer", "done"}
  /\ faults \in 0..MaxFaults

\* What call n amounts to for its caller. Dexie has no use for a check.
Promised(n) ==
  LET c == calls[n]
  IN  [changes |-> IF backend = "dexie" THEN [t \in Touched(n) |-> [c.changes[t] EXCEPT !.checked = FALSE]]
                                        ELSE c.changes,
       seen |-> c.expected, landed |-> c.landed, missed |-> c.missed, unsure |-> c.cause = "lost",
       answer |-> IF ~At(n, "done") THEN "none" ELSE IF c.cause = "none" THEN "ok" ELSE "error"]

Promise == INSTANCE StoragePromise WITH
  saves <- [n \in DOMAIN calls |-> Promised(n)], atomic <- backend \in Transactional

\* bulkPersist: all of a save or, on a database with transactions, nothing of it,
\* as the caller is told; and no checked change over a row its caller has not seen.
PromiseKept == Promise!Spec

Others(n) == {m \in DOMAIN calls : m # n /\ Touched(m) \cap Touched(n) # {}}

\* Without transactions a row is gone before the one that replaces it lands.
Wrote(m, t) ==
  \/ t \in calls[m].landed
  \/ backend \notin Transactional /\ t \in Touched(m) /\ calls[m].changes[t].do = "replace"
RowsTaken(n) == \E m \in Others(n) : \E t \in Touched(n) : Wrote(m, t)

\* A save fails by a fault, by what another call did to its rows, or refused: by D1
\* for its checks, or for want of a statement. Never because a table had to be
\* created, nor locked out by its own plugin.
FailuresHaveACause ==
  \A n \in DOMAIN calls : IsSave(n) =>
    LET cause == calls[n].cause
    IN  /\ cause \notin {"aborted", "exists"}
        /\ cause = "refused" => (backend = "d1" /\ Checks(n)) \/ calls[n].malformed
        /\ cause = "busy" => \E m \in DOMAIN calls : IsSave(m) /\ calls[m].plugin # calls[n].plugin
        /\ cause \in {"deadlock", "contention"} => Others(n) # {}
        /\ cause = "conflict" => RowsTaken(n)
        /\ cause = "duplicate" => \/ RowsTaken(n)
                                  \/ \E t \in Touched(n) :
                                       calls[n].changes[t].do = "add" /\ calls[n].expected[t] # NoRow

\* And a query, only by a fault or because it cannot be built.
QueriesFailByFaultsOnly ==
  \A n \in DOMAIN calls : ~IsSave(n) =>
    calls[n].cause \in {"none", "fault"} \/ (calls[n].cause = "refused" /\ calls[n].malformed)

\* The connections that saves which threw have kept from the plugin of n.
Leaked(n) == {m \in DOMAIN calls : calls[m].plugin = calls[n].plugin /\ At(m, "thrown") /\ calls[m].held}
Jammed(n) == calls[n].plugin \in composite \/ Cardinality(Leaked(n)) >= Limit

\* Every call is answered, but for one that PostgreSQL has no statement for, those
\* whose pool such saves have emptied, and those behind a store that PouchDB's keys
\* reject.
EveryCallAnswered == []<>(\A n \in DOMAIN calls : At(n, "done") \/ At(n, "thrown") \/ Jammed(n))
===============================================================================
