------------------------------- MODULE Queries -------------------------------
(* A query from the calls that build it to the rows it answers.               *)
(*                                                                            *)
(* The caller chains where, sort, skip, take, map and at most one join; every *)
(* call records an option with the place it will run (QueryOptionsCollection):*)
(* the database until something only memory can do, and memory ever after.    *)
(* At dispatch the conditions after a join are split between its sides, the   *)
(* options are split in two halves, a plugin answers the database half (in    *)
(* memory: MemoryPlugin and its kin; as one statement: SqliteDbPlugin), and   *)
(* the datastore runs the rest over what came back (QueryableExecutor).       *)
EXTENDS FilterExpressions, Sequences

LOCAL INSTANCE SequencesExt

CONSTANTS
    Rows, Inners,          \* the collections' contents a run chooses from: sequences of rows
    Conditions(_),         \* for where() before ("rows") and after ("pairs") a join, and on
                           \* the inner collection ("scope")
    Shapes,                \* projections for map(): name in the result -> property
    Kinds,                 \* of join: "inner", "left"
    Threshold,             \* semiJoinKeyThreshold
    MaxCalls               \* bound on the calls that build a query

Properties == {"id", "k", "v", "b"}     \* columns: a key, a join key, a number, a flag
Unmapped   == {"u"}                     \* computed from v after deserialization: no column holds it

VARIABLES
    outer, inner,  \* the stored rows of the two collections
    options        \* the queryable's QueryOptionsCollection: what was asked, in call order

vars == <<outer, inner, options>>

-----------------------------------------------------------------------------
(* QueryOptionsCollection.                                                    *)
Filter(condition, on) == [name |-> "filter", condition |-> condition, tree |-> Parse(condition, on)]
Narrow(on, tree)      == [name |-> "filter", condition |-> Narrows(on, tree), tree |-> tree]

CutsOver(o) ==                          \* this option and every later one runs in memory
    \/ /\ o.name = "filter"
       /\ (o.tree = NotParsable) \/ (PropertiesOf(o.tree) \cap Unmapped # {})
    \/ o.name = "sort" /\ o.property \in Unmapped
    \/ o.name = "map" /\ \E name \in DOMAIN o.fields : o.fields[name] \in Unmapped \cup {name}
    \/ o.name = "join" /\ o.crossPlugin

CutsOverLater(o) == o.name = "join"     \* every later one does

(* Each option judged by itself: a variant, for the runs' mutants             *)
TargetAlone(items, o) == IF CutsOver(o) THEN "memory" ELSE "database"

Target(items, o) ==
    IF CutsOver(o) \/ (\E i \in DOMAIN items : items[i].target = "memory" \/ CutsOverLater(items[i]))
    THEN "memory" ELSE "database"

Recorded(items, o) ==
    IF o.name = "filter" /\ o.tree = Empty THEN items         \* a tautology is not recorded
    ELSE Append(items, [target |-> Target(items, o)] @@ o)

Collected(asked) == FoldLeft(Recorded, <<>>, asked)            \* re-adds them to a fresh collection

OfTarget(items, target) == SelectSeq(items, LAMBDA o : o.target = target)
OfName(items, name)     == SelectSeq(items, LAMBDA o : o.name = name)
Has(items, name)        == \E i \in DOMAIN items : items[i].name = name

JoinAt(items)     == CHOOSE i \in DOMAIN items : items[i].name = "join"
BeforeJoin(items) == SubSeq(items, 1, JoinAt(items) - 1)
AfterJoin(items)  == SubSeq(items, JoinAt(items) + 1, Len(items))

-----------------------------------------------------------------------------
(* The options over rows, in call order: JsonTranslator for entities,         *)
(* TupleTranslator for pairs.  A row is an item [outer |-> ..], a pair has    *)
(* the other half beside it.                                                  *)
Precedes(a, b) == IF Null \in {a, b} THEN b # Null ELSE a < b

SortedBy(data, property, direction) ==
    LET Key(i) == data[i].outer[property]
        Comes(i, j) == IF Key(i) = Key(j) THEN i < j
                       ELSE IF direction = "asc" THEN Precedes(Key(i), Key(j)) ELSE Precedes(Key(j), Key(i))
        order == SetToSortSeq(DOMAIN data, Comes)
    IN [n \in DOMAIN data |-> data[order[n]]]

Mapped(item, fields) == [item EXCEPT !.outer = [name \in DOMAIN fields |-> @[fields[name]]]]

Applied(data, o) ==
    CASE o.name = "filter" -> SelectSeq(data, LAMBDA item : Holds(o.condition, item))
      [] o.name = "sort"   -> SortedBy(data, o.property, o.direction)
      [] o.name = "skip"   -> SubSeq(data, o.amount + 1, Len(data))
      [] o.name = "take"   -> SubSeq(data, 1, IF o.amount < Len(data) THEN o.amount ELSE Len(data))
      [] o.name = "map"    -> [n \in DOMAIN data |-> Mapped(data[n], o.fields)]

Translated(items, data) == FoldLeft(Applied, data, items)

(* postprocess: the unmapped property exists once a row is an entity          *)
Enriched(row) == [u |-> row.v] @@ row
Entities(data, side) == [n \in DOMAIN data |-> [data[n] EXCEPT ![side] = Enriched(@)]]

Items(rows, side) == [n \in DOMAIN rows |-> (side :> rows[n])]

(* hashJoin: outer order, then inner order; a null key matches nothing        *)
Matches(item, others) ==
    SelectSeq(others, LAMBDA other : item.outer.k # Null /\ other.inner.k = item.outer.k)

HashJoin(kind, items, others) ==
    FlattenSeq([n \in DOMAIN items |->
        LET matches == Matches(items[n], others) IN
        IF matches = <<>> THEN IF kind = "left" THEN <<items[n] @@ [inner |-> Undefined]>> ELSE <<>>
        ELSE [m \in DOMAIN matches |-> items[n] @@ matches[m]]])

(* executeJoin re-applies the inner side's conditions, whoever read the rows  *)
ExecuteJoin(o, items, others) ==
    HashJoin(o.kind, Entities(items, "outer"), Translated(o.innerOptions, Entities(others, "inner")))

(* distinctJoinKeys and semiJoinFilter: the inner read keeps only rows whose  *)
(* key the outer side has, unless it has more of them than the threshold.     *)
DistinctKeys(items) == {items[n].outer.k : n \in DOMAIN items} \ {Null}

SemiJoined(items, others) ==
    LET keys == DistinctKeys(items) IN
    IF Cardinality(keys) > Threshold THEN others
    ELSE SelectSeq(others, LAMBDA other : other.inner.k \in keys)

-----------------------------------------------------------------------------
(* EphemeralDataPlugin._query: the leading filters run over the stored        *)
(* records first, and one that pins the key reads a single record.            *)
LeadingFilters(items) ==
    SubSeq(items, 1, Cardinality({n \in DOMAIN items : \A i \in 1..n : items[i].name = "filter"}))

PinsKey(tree) == /\ tree.type = "comparator" /\ tree.comparator = "equals" /\ ~tree.negated
                 /\ tree.property = "id" /\ tree.value # Null

Source(leading, data) ==
    LET pinned == SelectSeq(leading, LAMBDA o : PinsKey(o.tree)) IN
    IF pinned = <<>> THEN data
    ELSE SelectSeq(data, LAMBDA item : item.outer.id = pinned[1].tree.value)

MemoryAnswers(items, data, others) ==
    LET leading == LeadingFilters(items)
        source  == Translated(leading, Source(leading, data))
    IN IF ~Has(items, "join") THEN Translated(items, source)
       ELSE ExecuteJoin(items[JoinAt(items)], Translated(BeforeJoin(items), source), SemiJoined(source, others))

-----------------------------------------------------------------------------
(* buildFromQueryOperation and buildJoinStatement: one statement, whose       *)
(* clauses come in SQL's order and not in the order of the calls; the last    *)
(* skip and the last take are the ones it says.                               *)
Where(items, data) ==
    SelectSeq(data, LAMBDA item : \A i \in DOMAIN OfName(items, "filter") :
                                      Selects(OfName(items, "filter")[i].tree, item.outer))

OrderBy(items, data) == Translated(OfName(items, "sort"), data)

(* LIMIT before OFFSET: a variant, for the runs' mutants                      *)
LimitedFirst(items, data) ==
    LET skips == OfName(items, "skip")
        takes == OfName(items, "take")
        Upto(rows) == IF takes = <<>> THEN rows ELSE Applied(rows, takes[Len(takes)])
    IN IF skips = <<>> THEN Upto(data) ELSE Applied(Upto(data), skips[Len(skips)])

Limited(items, data) ==
    LET skips == OfName(items, "skip")
        takes == OfName(items, "take")
        From(rows) == IF skips = <<>> THEN rows ELSE Applied(rows, skips[Len(skips)])
    IN IF takes = <<>> THEN From(data) ELSE Applied(From(data), takes[Len(takes)])

Selected(items, data) ==
    Translated(OfName(items, "map"), Limited(items, OrderBy(items, Where(items, data))))

JoinedOn(o, others) ==      \* the inner side's conditions stand in the ON clause
    SelectSeq(others, LAMBDA other :
        \A i \in DOMAIN OfTarget(o.innerOptions, "database") :
            Selects(OfTarget(o.innerOptions, "database")[i].tree, other.inner))

SqliteAnswers(items, data, others) ==
    IF ~Has(items, "join") THEN Selected(items, data)
    ELSE LET o == items[JoinAt(items)] IN
         HashJoin(o.kind, Entities(Selected(BeforeJoin(items), data), "outer"),
                  Entities(JoinedOn(o, others), "inner"))

-----------------------------------------------------------------------------
(* splitPostJoinConjuncts: every top-level conjunct of every condition after  *)
(* the join that parses against one side alone is added to that side's read;  *)
(* the condition itself stays where it was.  The text is cut at every && that *)
(* no bracket encloses, so `a || b && c` falls into `a || b` and `c`.         *)
RECURSIVE Conjuncts(_)
Conjuncts(condition) ==
    IF condition.form \notin {"and", "or"} THEN <<condition>>
    ELSE LET Parts(side) == IF condition.form = "and" /\ side.form = "or" THEN <<side>> ELSE Conjuncts(side)
             left  == Parts(condition.left)
             right == Parts(condition.right)
         IN IF condition.form = "and" THEN left \o right
            ELSE Front(left) \o <<Or(Last(left), right[1])>> \o Tail(right)

Side(conjunct) ==
    IF Parse(conjunct, "outer") \notin {NotParsable, Empty} THEN "outer"
    ELSE IF Parse(conjunct, "inner") \notin {NotParsable, Empty} THEN "inner" ELSE "both"

PairConjuncts(items) ==
    FlattenSeq([i \in DOMAIN OfName(AfterJoin(items), "filter") |->
                    Conjuncts(OfName(AfterJoin(items), "filter")[i].condition)])

NarrowsOf(items, side) ==
    LET mine == SelectSeq(PairConjuncts(items), LAMBDA c : Side(c) = side) IN
    [i \in DOMAIN mine |-> Narrow(side, Parse(mine[i], side))]

Resolved(items) ==
    IF ~Has(items, "join") THEN items
    ELSE LET at == items[JoinAt(items)]
             innerOptions == FoldLeft(Recorded, at.innerOptions, NarrowsOf(items, "inner")) IN
         Collected(BeforeJoin(items) \o NarrowsOf(items, "outer")
                   \o <<[at EXCEPT !.innerOptions = innerOptions]>> \o AfterJoin(items))

(* createQueryPayload and postProcessQuery: the plugin answers the database   *)
(* half; entities are postprocessed unless the half projects; the memory half *)
(* runs over the result.  A join nothing below could interpret is done here,  *)
(* with the inner rows read through their own plugin.                         *)
Answered(items) ==
    LET resolved == Resolved(items)
        database == Collected(OfTarget(resolved, "database"))
        memory   == Collected(OfTarget(resolved, "memory"))
        data     == Items(outer, "outer")
        others   == Items(inner, "inner")
        rows     == MemoryAnswers(database, data, others)
        entities == IF Has(database, "map") \/ Has(database, "join") THEN rows ELSE Entities(rows, "outer")
    IN IF ~Has(memory, "join") THEN Translated(memory, entities)
       ELSE LET at   == memory[JoinAt(memory)]
                kept == Translated(BeforeJoin(memory), entities)
                \* the inner plugin answers the inner conditions it can, and the join keys
                read == Translated(OfTarget(at.innerOptions, "database"), SemiJoined(kept, others))
            IN Translated(AfterJoin(memory), ExecuteJoin(at, kept, read))

(* What the caller wrote: every option in call order, over entities           *)
Written(items) ==
    LET data   == Entities(Items(outer, "outer"), "outer")
        others == Entities(Items(inner, "inner"), "inner") IN
    IF ~Has(items, "join") THEN Translated(items, data)
    ELSE LET at == items[JoinAt(items)] IN
         Translated(AfterJoin(items),
             HashJoin(at.kind, Translated(BeforeJoin(items), data), Translated(at.innerOptions, others)))

-----------------------------------------------------------------------------
(* The builder.  TypeScript offers what the shape still has.                  *)
Shape == IF Has(options, "map") THEN DOMAIN OfName(options, "map")[1].fields ELSE Properties \cup Unmapped

RECURSIVE Named(_)
Named(c) ==
    CASE c.form \in {"not", "is", "captures"} -> Named(c.arg)
      [] c.form \in {"and", "or"} -> Named(c.left) \cup Named(c.right)
      [] c.form = "always" -> {}
      [] c.form = "across" -> {c.outer, c.inner}
      [] OTHER -> {c.property}

Init ==
    /\ outer \in Rows
    /\ inner \in Inners
    /\ options = <<>>

Asking == Len(options) < MaxCalls

Asks(o) ==
    /\ options' = Recorded(options, o)
    /\ UNCHANGED <<outer, inner>>

Filtered ==
    /\ Asking /\ ~Has(options, "join")
    /\ \E c \in Conditions("rows") : Named(c) \subseteq Shape /\ Asks(Filter(c, "outer"))

PairsFiltered ==         \* recorded as not parsable: its two roots read like params
    /\ Asking /\ Has(options, "join")
    /\ \E c \in Conditions("pairs") :
           Asks([name |-> "filter", condition |-> c, tree |-> NotParsable])

Sorted ==
    /\ Asking
    /\ \E property \in {"v", "u"} \cap Shape, direction \in {"asc", "desc"} :
           Asks([name |-> "sort", property |-> property, direction |-> direction])

Skipped == Asking /\ Asks([name |-> "skip", amount |-> 1])
Taken   == Asking /\ Asks([name |-> "take", amount |-> 1])

Projected ==
    /\ Asking /\ ~Has(options, "map") /\ ~Has(options, "join")
    /\ \E fields \in Shapes : Asks([name |-> "map", fields |-> fields])

JoinedWith ==
    /\ Asking /\ ~Has(options, "join") /\ ~Has(options, "map")
    /\ \E kind \in Kinds, crossPlugin \in BOOLEAN, scope \in Conditions("scope") :
           Asks([name |-> "join", kind |-> kind, crossPlugin |-> crossPlugin,
                 innerOptions |-> Collected(<<Filter(scope, "inner")>>)])

Next == Filtered \/ PairsFiltered \/ Sorted \/ Skipped \/ Taken \/ Projected \/ JoinedWith

Spec == Init /\ [][Next]_vars

-----------------------------------------------------------------------------
(* The tree of a condition never contradicts it: over every stored row,       *)
(* evaluate() says what the closure says or nothing at all, and the rows a    *)
(* statement selects are rows the closure keeps -- all of them unless null is *)
(* compared (ExpressionParser, evaluate, toSql).                              *)
Filtering == {options[i] : i \in {n \in DOMAIN options : options[n].name = "filter"}}

TreesMeanTheirClosures ==
    \A o \in Filtering, n \in DOMAIN outer :
        o.tree # NotParsable =>
            LET row   == Enriched(outer[n])
                holds == Holds(o.condition, [outer |-> row]) IN
            /\ Evaluate(o.tree, row) \in {Truth(holds), "undefined"}
            /\ Selects(o.tree, row) => holds
            /\ holds /\ (\A p \in PropertiesOf(o.tree) : row[p] # Null) => Selects(o.tree, row)

(* Where the work runs never changes the answer: the halves, the pushed-down  *)
(* conjuncts, the semi-join and the leading filters give what the calls say,  *)
(* in the order they say it (QueryOptionsCollection, QueryableExecutor,       *)
(* EphemeralDataPlugin), whenever no conjunct was lifted out of a disjunction,*)
(* over a window, or into the unmatched side of a left join.                  *)
Windows(items) == {i \in DOMAIN items : items[i].name \in {"skip", "take"}}

Disjunctive(o) == o.name = "filter" /\ o.condition.form = "or" /\ Len(Conjuncts(o.condition)) > 1

LiftedSafely(items) ==
    Has(items, "join") /\ NarrowsOf(items, "outer") \o NarrowsOf(items, "inner") # <<>> =>
        /\ items[JoinAt(items)].kind = "inner"
        /\ \A i \in DOMAIN items : i > JoinAt(items) => ~Disjunctive(items[i])
        /\ \A i \in Windows(items) : i > JoinAt(items) =>
               \A j \in DOMAIN items : j > i => items[j].name # "filter"

TargetsKeepTheAnswer ==
    LiftedSafely(options) => Answered(options) = Written(options)

(* Of a condition split between the two reads, "the whole condition still     *)
(* decides the pairs" (docs/concepts/queries/joins.md:131-132; conjuncts.ts). *)
ConditionsDecideThePairs == Answered(options) = Written(options)

(* A statement answers what the same options answer in memory whenever its    *)
(* clauses can say them -- every filter before the one sort, then one skip,   *)
(* then one take -- and no null is compared (buildFromQueryOperation,         *)
(* buildJoinStatement).                                                       *)
Rank(name) == CASE name = "filter" -> 1 [] name = "sort" -> 2 [] name = "skip" -> 3
                [] name = "take" -> 4 [] name = "map" -> 5 [] name = "join" -> 6

Sayable(items) ==
    \A i, j \in DOMAIN items : i < j =>
        /\ Rank(items[i].name) <= Rank(items[j].name)
        /\ items[i].name = items[j].name => items[i].name = "filter"

Compared(items) == UNION {PropertiesOf(items[i].tree) : i \in {n \in DOMAIN items : items[n].name = "filter"}}

NoNullCompared(items) ==
    /\ \A n \in DOMAIN outer, p \in Compared(items) : outer[n][p] # Null
    /\ Has(items, "join") => \A n \in DOMAIN inner :
           \A p \in Compared(items[JoinAt(items)].innerOptions) : inner[n][p] # Null

StatementsMeanTheOptions ==
    LET database == Collected(OfTarget(Resolved(options), "database"))
        data == Items(outer, "outer")
        others == Items(inner, "inner") IN
    Sayable(database) /\ NoNullCompared(database) =>
        SqliteAnswers(database, data, others) = MemoryAnswers(database, data, others)
=============================================================================
