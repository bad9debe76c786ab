------------------------------- MODULE MCQueries -------------------------------
EXTENDS Queries

Row(id, k, v, b) == [id |-> id, k |-> k, v |-> v, b |-> b]

SomeRows ==
    {<<Row(1, 1, 2, TRUE), Row(2, 2, 1, FALSE), Row(3, 1, 1, TRUE)>>,
     <<Row(1, Null, 2, Null), Row(2, 1, Null, TRUE), Row(3, 2, 2, FALSE)>>}
SomeInners ==
    {<<Row(7, 1, 2, TRUE), Row(8, 1, 1, FALSE), Row(9, Null, 1, TRUE)>>,
     <<Row(7, 2, 1, TRUE), Row(8, 1, Null, Null)>>}

OuterV(op, n) == Compares("outer", "v", op, n)

SomeConditions(place) ==
    CASE place = "rows" ->
            {OuterV("===", 1),
             Swapped("outer", "v", ">=", 2),
             Compares("outer", "id", "!==", 2),
             Compares("outer", "u", ">", 1),
             Captures(OuterV("<", 2)),
             Not(And(Truthy("outer", "b", TRUE), OuterV("!=", Null))),
             Or(And(Always, Is("!==", TRUE, OneOf("outer", "k", {1}))),
                Not(Or(OuterV("<", 2), Truthy("outer", "b", TRUE))))}
      [] place = "pairs" ->
            {And(OuterV("<", 2), Compares("inner", "v", "!==", 1)),
             And(SameAcross("v", "v"), Not(Truthy("inner", "b", TRUE))),
             Or(Compares("inner", "id", "===", 7), And(Compares("inner", "id", "===", 8), OuterV("<", 2))),
             Compares("inner", "id", "===", 8)}
      [] place = "scope" -> {Compares("inner", "v", ">=", 1)}

SomeShapes == {[id |-> "id", k |-> "k", v |-> "v"], [key |-> "k", v |-> "u"]}
================================================================================
