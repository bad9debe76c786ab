-------------------------- MODULE FilterExpressions --------------------------
(* A filter is written once, as a closure, and answered three times: by the   *)
(* closure itself, by evaluate() over the tree the parser made of its source, *)
(* and by a database over the statement toSql made of that tree.  This module *)
(* holds the closures (as the text the parser reads), the parser, and the     *)
(* three readings.  The operators recurse over trees: TLC alone uses them.    *)
EXTENDS Naturals, FiniteSets

CONSTANTS Null,        \* null: a stored absent value
          Undefined    \* undefined: an unmatched half, a property a row lacks

-----------------------------------------------------------------------------
(* Closures.  `on` names the parameter whose property is read: the row of a   *)
(* plain filter is "outer", a tuple filter reads "outer" and "inner".         *)
Compares(on, property, op, value) ==
    [form |-> "compares", on |-> on, property |-> property, op |-> op, value |-> value]
Swapped(on, property, op, value) ==             \* the literal on the left
    [form |-> "swapped", on |-> on, property |-> property, op |-> op, value |-> value]
Truthy(on, property, isFlag) == [form |-> "truthy", on |-> on, property |-> property, isFlag |-> isFlag]
OneOf(on, property, values)  == [form |-> "oneOf", on |-> on, property |-> property, values |-> values]
Is(op, answer, call)         == [form |-> "is", op |-> op, answer |-> answer, arg |-> call]
SameAcross(outer, inner)     == [form |-> "across", outer |-> outer, inner |-> inner]
Captures(condition)          == [form |-> "captures", arg |-> condition]   \* names an outer variable
Not(condition)               == [form |-> "not", arg |-> condition]
And(a, b)                    == [form |-> "and", left |-> a, right |-> b]
Or(a, b)                     == [form |-> "or", left |-> a, right |-> b]
Always                       == [form |-> "always"]
Narrows(on, tree)            == [form |-> "narrows", on |-> on, tree |-> tree]  \* toPredicate(tree)

(* What JavaScript answers.  A relational operator reads null as 0 and        *)
(* undefined as NaN; the loose equality takes null and undefined for equal.   *)
AsNumber(v) == IF v = Null THEN 0 ELSE v
Less(a, b)  == Undefined \notin {a, b} /\ AsNumber(a) < AsNumber(b)
AtMost(a, b) == Undefined \notin {a, b} /\ AsNumber(a) <= AsNumber(b)
Loosely(a, b) == a = b \/ {a, b} \subseteq {Null, Undefined}

Relates(op, a, b) ==
    CASE op = "===" -> a = b
      [] op = "!==" -> a # b
      [] op = "=="  -> Loosely(a, b)
      [] op = "!="  -> ~Loosely(a, b)
      [] op = "<"   -> Less(a, b)
      [] op = "<="  -> AtMost(a, b)
      [] op = ">"   -> Less(b, a)
      [] op = ">="  -> AtMost(b, a)

(* item[on]?.[property]; a row that does not store a property reads undefined *)
Reads(item, on, property) ==
    IF item[on] = Undefined \/ property \notin DOMAIN item[on] THEN Undefined ELSE item[on][property]

-----------------------------------------------------------------------------
(* Trees.                                                                     *)
Empty       == [type |-> "empty"]
NotParsable == [type |-> "not-parsable"]
Comparator(comparator, negated, property, value, strict) ==
    [type |-> "comparator", comparator |-> comparator, negated |-> negated,
     property |-> property, value |-> value, strict |-> strict]
Operator(operator, left, right) ==
    [type |-> "operator", operator |-> operator, left |-> left, right |-> right]

ComparisonOperators ==
    [op \in {"==", "===", "!=", "!==", ">", ">=", "<", "<="} |->
        [comparator |-> CASE op \in {"==", "===", "!=", "!=="} -> "equals"
                          [] op = ">"  -> "greater-than"
                          [] op = ">=" -> "greater-than-equals"
                          [] op = "<"  -> "less-than"
                          [] op = "<=" -> "less-than-equals",
         negated    |-> op \in {"!=", "!=="},
         strict     |-> op \in {"===", "!=="}]]

SwappedComparators ==
    [c \in {"equals", "greater-than", "greater-than-equals", "less-than", "less-than-equals"} |->
        CASE c = "equals"              -> "equals"
          [] c = "greater-than"        -> "less-than"
          [] c = "greater-than-equals" -> "less-than-equals"
          [] c = "less-than"           -> "greater-than"
          [] c = "less-than-equals"    -> "greater-than-equals"]

(* A literal `true` compared with a property goes through the type's          *)
(* converter: Boolean(true) is true, Number(true) is 1.                       *)
ConvertedTrue(isFlag) == IF isFlag THEN TRUE ELSE 1

(* The same operator on both sides of a negation: a variant, for the mutants  *)
RECURSIVE NegatedInside(_)
NegatedInside(tree) ==
    CASE tree.type = "comparator" -> [tree EXCEPT !.negated = ~@]
      [] tree.type = "operator" -> Operator(tree.operator, NegatedInside(tree.left), NegatedInside(tree.right))
      [] OTHER -> NotParsable

(* De Morgan over a parsed tree; a tautology cannot be negated.               *)
RECURSIVE Negated(_)
Negated(tree) ==
    CASE tree.type = "comparator" -> [tree EXCEPT !.negated = ~@]
      [] tree.type = "operator" ->
            LET left  == Negated(tree.left)
                right == Negated(tree.right) IN
            IF NotParsable \in {left, right} THEN NotParsable
            ELSE Operator(IF tree.operator = "&&" THEN "||" ELSE "&&", left, right)
      [] OTHER -> NotParsable

Joined(operator, left, right) ==
    IF NotParsable \in {left, right} THEN NotParsable
    ELSE IF operator = "||"
    THEN IF Empty \in {left, right} THEN Empty ELSE Operator("||", left, right)
    ELSE IF left = Empty THEN right ELSE IF right = Empty THEN left ELSE Operator("&&", left, right)

(* The parser, against one root: a condition that names another root, or a    *)
(* variable of the scope around it, does not parse.                           *)
RECURSIVE Parse(_, _)
Parse(c, root) ==
    IF "on" \in DOMAIN c /\ c.on # root THEN NotParsable
    ELSE CASE c.form = "compares" ->
                LET o == ComparisonOperators[c.op] IN
                Comparator(o.comparator, o.negated, c.property, c.value, o.strict)
           [] c.form = "swapped" ->
                LET o == ComparisonOperators[c.op] IN
                Comparator(SwappedComparators[o.comparator], o.negated, c.property, c.value, o.strict)
           [] c.form = "truthy" ->
                Comparator("equals", FALSE, c.property, ConvertedTrue(c.isFlag), TRUE)
           [] c.form = "oneOf"  -> Comparator("includes", FALSE, c.property, c.values, FALSE)
           [] c.form = "is" ->
                LET call == Parse(c.arg, root) IN
                IF call = NotParsable THEN NotParsable
                ELSE [call EXCEPT !.negated = @ # (ComparisonOperators[c.op].negated # ~c.answer)]
           [] c.form = "not"    -> Negated(Parse(c.arg, root))
           [] c.form = "and"    -> Joined("&&", Parse(c.left, root), Parse(c.right, root))
           [] c.form = "or"     -> Joined("||", Parse(c.left, root), Parse(c.right, root))
           [] c.form = "always" -> Empty
           [] c.form \in {"across", "captures", "narrows"} -> NotParsable

RECURSIVE PropertiesOf(_)
PropertiesOf(tree) ==
    CASE tree.type = "comparator" -> {tree.property}
      [] tree.type = "operator" -> PropertiesOf(tree.left) \cup PropertiesOf(tree.right)
      [] OTHER -> {}

-----------------------------------------------------------------------------
(* evaluate(): three answers, the third ("undefined") keeps the row.          *)
Flip(truth) == CASE truth = "true" -> "false" [] truth = "false" -> "true" [] OTHER -> truth
Truth(b)    == IF b THEN "true" ELSE "false"
Both(a, b, unknown) ==
    IF "false" \in {a, b} THEN "false" ELSE IF {a, b} = {"true"} THEN "true" ELSE unknown
Either(a, b, unknown) ==
    IF "true" \in {a, b} THEN "true" ELSE IF {a, b} = {"false"} THEN "false" ELSE unknown

Ordered(comparator, a, b) ==
    CASE comparator = "greater-than"        -> a > b
      [] comparator = "greater-than-equals" -> a >= b
      [] comparator = "less-than"           -> a < b
      [] comparator = "less-than-equals"    -> a <= b

RECURSIVE Evaluate(_, _)
Evaluate(tree, row) ==
    CASE tree.type = "operator" ->
            IF tree.operator = "&&"
            THEN Both(Evaluate(tree.left, row), Evaluate(tree.right, row), "undefined")
            ELSE Either(Evaluate(tree.left, row), Evaluate(tree.right, row), "undefined")
      [] tree.type = "comparator" ->
            LET v == IF tree.property \in DOMAIN row THEN row[tree.property] ELSE Undefined
                answer == CASE tree.comparator = "equals" ->
                                 Truth(IF tree.strict THEN v = tree.value ELSE Loosely(v, tree.value))
                            [] tree.comparator = "includes" -> Truth(v \in tree.value)
                            [] OTHER -> IF {v, tree.value} \cap {Null, Undefined} # {} THEN "undefined"
                                        ELSE Truth(Ordered(tree.comparator, v, tree.value))
            IN IF tree.negated THEN Flip(answer) ELSE answer
      [] tree.type = "empty" -> "true"
      [] OTHER -> "undefined"

Keeps(tree, row) == Evaluate(tree, row) # "false"

(* The closure's own answer.                                                  *)
RECURSIVE Holds(_, _)
Holds(c, item) ==
    CASE c.form = "compares" -> Relates(c.op, Reads(item, c.on, c.property), c.value)
      [] c.form = "swapped"  -> Relates(c.op, c.value, Reads(item, c.on, c.property))
      [] c.form = "truthy"   -> LET v == Reads(item, c.on, c.property) IN
                                v \notin {Null, Undefined} /\ (c.isFlag => v)
      [] c.form = "oneOf"    -> Reads(item, c.on, c.property) \in c.values
      [] c.form = "is"       -> Relates(c.op, Holds(c.arg, item), c.answer)
      [] c.form = "across"   -> Relates("===", Reads(item, "outer", c.outer), Reads(item, "inner", c.inner))
      [] c.form = "captures" -> Holds(c.arg, item)
      [] c.form = "not"      -> ~Holds(c.arg, item)
      [] c.form = "and"      -> Holds(c.left, item) /\ Holds(c.right, item)
      [] c.form = "or"       -> Holds(c.left, item) \/ Holds(c.right, item)
      [] c.form = "always"   -> TRUE
      [] c.form = "narrows"  -> Keeps(c.tree, item[c.on])

(* The statement's answer: NULL compares with nothing, a negated comparison   *)
(* is the opposite comparison, a comparison with the literal null is IS NULL. *)
RECURSIVE Statement(_, _)
Statement(tree, row) ==
    CASE tree.type = "operator" ->
            IF tree.operator = "&&"
            THEN Both(Statement(tree.left, row), Statement(tree.right, row), "null")
            ELSE Either(Statement(tree.left, row), Statement(tree.right, row), "null")
      [] tree.type = "comparator" ->
            LET v == row[tree.property]
                isNull == tree.comparator = "equals" /\ tree.value = Null
                answer == CASE tree.comparator = "equals"   -> Truth(v = tree.value)
                            [] tree.comparator = "includes" -> Truth(v \in tree.value)
                            [] OTHER -> IF v = Null THEN "null" ELSE Truth(Ordered(tree.comparator, v, tree.value))
            IN IF v = Null /\ ~isNull THEN "null" ELSE IF tree.negated THEN Flip(answer) ELSE answer
      [] tree.type = "empty" -> "true"

Selects(tree, row) == Statement(tree, row) = "true"
=============================================================================
