-------------------------------- MODULE MCFilter --------------------------------
(* Instances of MlxFilter for TLC: a DOUBLE column x and a DECIMAL column d. *)
EXTENDS MlxFilter

MCLane == [c \in {"x", "d"} |-> IF c = "x" THEN "float" ELSE "int"]

Row(x, d) == [c \in {"x", "d"} |-> IF c = "x" THEN x ELSE d]
MCRowKinds == {Row(0, 1), Row(1, 2), Row(3, 1), Row(4, Null), Row(Null, 2), Row(Null, Null)}
MCLayouts == {<<2, 1>>, <<1, 2>>}

Node(class, code, col, value, kids) == [class |-> class, code |-> code, col |-> col, value |-> value, kids |-> kids]
Col(c) == Node("col", "", c, 0, <<>>)
Const(lane, v) == Node("const", lane, "", v, <<>>)

\* column, constant, comparison
Cmp(c, code, v) == <<Col(c), Const(MCLane[c], v), Node("cmp", code, "", 0, <<1, 2>>)>>
\* two comparisons under AND or OR, and that negated
Both(a, b, code) ==
    a \o [n \in DOMAIN b |-> [b[n] EXCEPT !.kids = [k \in DOMAIN @ |-> @[k] + Len(a)]]]
      \o <<Node("conj", code, "", 0, <<Len(a), Len(a) + Len(b)>>)>>
Neg(e) == e \o <<Node("not", "", "", 0, <<Len(e)>>)>>

\* table filters on one column
Leaf(code, v) == Node("cmp", code, "", v, <<>>)
Table(c, nodes) == [col |-> c, nodes |-> nodes]
Where(residual, table) == [residual |-> residual, table |-> table]

MCFilters ==
    {Where(<<>>, <<>>),
     Where(<<Cmp("x", "NE", 1)>>, <<>>),
     Where(<<Both(Cmp("x", "GE", 1), Cmp("d", "LT", 2), "AND")>>, <<>>),
     Where(<<Both(Cmp("d", "EQ", 2), Cmp("x", "LE", 1), "OR")>>, <<>>),
     Where(<<Neg(Both(Cmp("x", "GT", 1), Cmp("d", "EQ", 2), "OR"))>>, <<>>),
     Where(<<<<Col("d"), Node("cast", "", "", 0, <<1>>), Col("x"), Node("cmp", "LE", "", 0, <<2, 3>>)>>>>,
           <<Table("d", <<Node("not_null", "", "", 0, <<>>)>>)>>),
     Where(<<Cmp("x", "GT", 0), Cmp("d", "LE", 2)>>, <<Table("d", <<Leaf("NE", 1)>>)>>),
     Where(<<>>, <<Table("x", <<Leaf("LE", 3), Leaf("GT", 0), Node("conj", "AND", "", 0, <<1, 2>>)>>)>>),
     Where(<<>>, <<Table("d", <<Leaf("EQ", 1), Leaf("EQ", 2), Node("conj", "OR", "", 0, <<1, 2>>)>>)>>),
     Where(<<>>, <<Table("d", <<Leaf("GE", 1), Node("not_null", "", "", 0, <<>>), Node("conj", "AND", "", 0, <<1, 2>>)>>)>>),
     Where(<<Cmp("d", "LT", 1)>>, <<>>), Where(<<Cmp("x", "GE", 4)>>, <<>>),
     Where(<<>>, <<Table("x", <<Leaf("EQ", 3)>>)>>),
     Where(<<>>, <<Table("x", <<Leaf("GT", 1)>>)>>), Where(<<>>, <<Table("d", <<Leaf("GE", 2)>>)>>),
     Where(<<<<Col("d"), Col("x"), Node("cmp", "LT", "", 0, <<1, 2>>)>>>>, <<>>)}

\* the WHERE clause of the disagreement with the README
MCOrFilters == {Where(<<Both(Cmp("d", "EQ", 2), Cmp("x", "LE", 1), "OR")>>, <<>>)}

Agg(kind, arg) == [kind |-> kind, arg |-> arg]
Plus(c, v) == <<Col(c), Const(MCLane[c], v), Node("binary", "ADD", "", 0, <<1, 2>>)>>

MCAggregates ==
    {<<Agg("SUM", Plus("x", 1)), Agg("COUNT_STAR", <<Col("x")>>)>>,
     <<Agg("AVG", <<Col("d")>>), Agg("COUNT", <<Col("x")>>), Agg("MIN", <<Col("d"), Node("unary", "NEGATE", "", 0, <<1>>)>>),
       Agg("AVG", Plus("x", 0))>>,
     <<Agg("MAX", <<Col("x")>>), Agg("COUNT", <<Col("d")>>), Agg("SUM", <<Col("d")>>)>>,
     <<Agg("SUM", <<Col("d"), Col("d"), Node("binary", "DIV", "", 0, <<1, 2>>)>>), Agg("MIN", <<Col("x")>>)>>,
     <<Agg("COUNT_STAR", <<Col("x")>>)>>}

=============================================================================
