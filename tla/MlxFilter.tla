------------------------------- MODULE MlxFilter -------------------------------
(***************************************************************************)
(* MLX_SUM: how a WHERE clause and the aggregates of an ungrouped query    *)
(* are translated to postfix programs, evaluated on the GPU segment by     *)
(* segment and merged, and how zone maps keep segments out of the          *)
(* evaluation.                                                             *)
(*                                                                         *)
(* Rows are first appended to the column cache, with their zone maps; then *)
(* one query is planned.  A cached query masks the resident rows with its  *)
(* translated filter; any other query aggregates the rows that DuckDB's    *)
(* scan lets through, one MlxSumExprs per buffered segment.                *)
(*                                                                         *)
(* Abstraction.  DECIMAL columns are "int" columns, all other types are    *)
(* "float" ones; numbers are integers in units of the last decimal place,  *)
(* and floats above FpExact are rounded.  An expression is a list of       *)
(* nodes, children before parents, the root last.                          *)
(***************************************************************************)
EXTENDS Integers, Sequences, SequencesExt, FiniteSets, FiniteSetsExt

CONSTANTS
    Lane,            \* column -> "int" or "float"
    Null, RowKinds,  \* what a row can hold: column -> number or Null
    Layouts,         \* lists of segment sizes
    Filters,         \* WHERE clauses: residual expressions, and table filters by column
    Aggregates,      \* lists of aggregates: kind and argument
    FpExact,         \* 2^24
    Top              \* above every number (numeric_limits)

Columns == DOMAIN Lane

Comparisons == {"LT", "LE", "GT", "GE", "EQ", "NE"}

\* A bound expression: an operand comes before its operator, and operators have the
\* number of operands DuckDB's binder gives them.
ExprOK(e) ==
    /\ Len(e) \in Nat \ {0} /\ DOMAIN e = 1 .. Len(e)
    /\ \A n \in DOMAIN e :
        /\ e[n].kids \in Seq(1 .. n - 1)
        /\ e[n].class = "col" => e[n].col \in Columns
        /\ e[n].class = "const" => e[n].value \in -Top .. Top \cup {Null}
        /\ e[n].class \in {"cast", "not"} => Len(e[n].kids) = 1
        /\ e[n].class = "unary" => e[n].code \in {"NEGATE", "ABS"} /\ Len(e[n].kids) = 1
        /\ e[n].class = "cmp" => e[n].code \in Comparisons /\ Len(e[n].kids) = 2
        /\ e[n].class = "binary" => e[n].code \in {"ADD", "SUB", "MUL", "DIV"} /\ Len(e[n].kids) = 2
        /\ e[n].class = "conj" => e[n].code \in {"AND", "OR"} /\ Len(e[n].kids) > 0

\* A table filter on one column: comparisons, IS NOT NULL and conjunctions of them.
TableFilterOK(f) ==
    /\ f.col \in Columns
    /\ Len(f.nodes) \in Nat \ {0} /\ DOMAIN f.nodes = 1 .. Len(f.nodes)
    /\ \A n \in DOMAIN f.nodes :
        /\ f.nodes[n].kids \in Seq(1 .. n - 1)
        /\ f.nodes[n].class = "cmp" => f.nodes[n].code \in Comparisons /\ f.nodes[n].value \in -Top .. Top \cup {Null}
        /\ f.nodes[n].class = "conj" => f.nodes[n].code \in {"AND", "OR"}

ASSUME FilterAssumption ==
    /\ {FpExact, Top} \subseteq Nat \ {0}
    /\ Top <= 16 * FpExact    \* the numbers that Float below covers
    /\ \A c \in Columns : Lane[c] \in {"int", "float"}
    /\ \A row \in RowKinds : \A c \in Columns : row[c] = Null \/ row[c] \in -Top .. Top
    /\ \A where \in Filters :
        /\ Len(where.residual) \in Nat /\ DOMAIN where.residual = 1 .. Len(where.residual)
        /\ Len(where.table) \in Nat /\ DOMAIN where.table = 1 .. Len(where.table)
        /\ \A k \in DOMAIN where.residual : ExprOK(where.residual[k])
        /\ \A k \in DOMAIN where.table : TableFilterOK(where.table[k])
    /\ \A aggs \in Aggregates : \A p \in DOMAIN aggs : aggs[p].kind # "COUNT_STAR" => ExprOK(aggs[p].arg)

VARIABLES
    layout,       \* sizes of the segments being appended
    inherited,    \* columns whose scan segment, cut into these segments, holds a NULL
    segments,     \* the resident segments: stored rows, and the columns that carry a mask
    zones,        \* a zone map per segment and column
    pc, query,    \* the query's execution and plan
    next,         \* the segment to evaluate
    all,          \* outputs of the evaluated segments, flattened
    evaluated,    \* the segments they belong to
    pruned,       \* segments skipped by their zone maps
    results       \* MlxSumResult of each program

vars == <<layout, inherited, segments, zones, pc, query, next, all, evaluated, pruned, results>>

-----------------------------------------------------------------------------
(* Numbers *)

Abs(x) == IF x < 0 THEN -x ELSE x
Lesser(a, b) == IF a <= b THEN a ELSE b
Greater(a, b) == IF a >= b THEN a ELSE b

\* A float keeps every integer up to FpExact and every multiple of 2, 4, ... above,
\* and rounds halves to even.
Float(x) ==
    LET ulp == Min({u \in {1, 2, 4, 8, 16} : Abs(x) <= FpExact * u})
        low == x \div ulp
        rest == x % ulp
    IN  IF 2 * rest < ulp \/ (2 * rest = ulp /\ low % 2 = 0) THEN low * ulp ELSE (low + 1) * ulp

InLane(lane, x) == IF lane = "float" THEN Float(x) ELSE x

\* A double quotient, kept as a fraction.
Fraction(num, den) == [num |-> num, den |-> den]
SameFraction(a, b) == a.num * b.den = b.num * a.den

Compare(code, a, b) ==
    CASE code = "LT" -> a < b
      [] code = "LE" -> a <= b
      [] code = "GT" -> a > b
      [] code = "GE" -> a >= b
      [] code = "EQ" -> a = b
      [] code = "NE" -> a # b

Arithmetic(code, a, b) == CASE code = "ADD" -> a + b [] code = "SUB" -> a - b [] code = "MUL" -> a * b

-----------------------------------------------------------------------------
(* Translation *)

Op(code, col, value, int_lane) == [code |-> code, col |-> col, value |-> value, int_lane |-> int_lane]
Plain(code) == Op(code, "", 0, FALSE)

Declined == [ok |-> FALSE, ops |-> <<>>, cols |-> {}, lane |-> "bool"]
Done(ops, cols, lane) == [ok |-> TRUE, ops |-> ops, cols |-> cols, lane |-> lane]

\* Mutant of Joined: the operator of a conjunction is pushed before its second operand.
JoinInfix(parts, code) ==
    LET joined[k \in 0 .. Len(parts)] ==
            IF k = 0 THEN <<>> ELSE joined[k - 1] \o (IF k = 1 THEN <<>> ELSE <<Plain(code)>>) \o parts[k]
    IN  joined[Len(parts)]

\* The operands of a conjunction, the operator after each but the first.
Joined(parts, code) ==
    LET joined[k \in 0 .. Len(parts)] ==
            IF k = 0 THEN <<>> ELSE joined[k - 1] \o parts[k] \o (IF k = 1 THEN <<>> ELSE <<Plain(code)>>)
    IN  joined[Len(parts)]

\* MlxExprTranslator::Translate of a node whose children are translated.  Casts are to
\* DOUBLE; a class of its own stands for everything the translator does not know.
TranslateNode(node, kids) ==
    LET ops == FlattenSeq([k \in DOMAIN kids |-> kids[k].ops])
        cols == UNION {kids[k].cols : k \in DOMAIN kids}
        lanes == {kids[k].lane : k \in DOMAIN kids}
        ok == \A k \in DOMAIN kids : kids[k].ok
    IN  CASE node.class = "col" -> Done(<<Op("LOAD_COL", node.col, 0, FALSE)>>, {node.col}, Lane[node.col])
          [] node.class = "const" /\ node.value # Null ->
                Done(<<Op("CONST_VAL", "", node.value, node.code = "int")>>, {}, node.code)
          [] node.class = "cast" /\ ok /\ lanes = {"int"} -> Done(ops \o <<Plain("TO_FLOAT")>>, cols, "float")
          [] node.class = "cast" /\ ok /\ lanes = {"float"} -> Done(ops, cols, "float")
          [] node.class = "cmp" /\ ok /\ lanes \in {{"int"}, {"float"}} -> Done(ops \o <<Plain(node.code)>>, cols, "bool")
          [] node.class = "conj" /\ ok /\ lanes = {"bool"} ->
                Done(Joined([k \in DOMAIN kids |-> kids[k].ops], node.code), cols, "bool")
          [] node.class = "not" /\ ok /\ lanes = {"bool"} -> Done(ops \o <<Plain("NOT")>>, cols, "bool")
          [] node.class = "binary" /\ ok /\ lanes \in {{"int"}, {"float"}} /\ ~("int" \in lanes /\ node.code = "DIV") ->
                Done(ops \o <<Plain(node.code)>>, cols, CHOOSE lane \in lanes : TRUE)
          [] node.class = "unary" /\ ok /\ lanes \in {{"int"}, {"float"}} ->
                Done(ops \o <<Plain(node.code)>>, cols, CHOOSE lane \in lanes : TRUE)
          [] OTHER -> Declined

Translate(e) ==
    LET t[n \in DOMAIN e] == TranslateNode(e[n], [k \in DOMAIN e[n].kids |-> t[e[n].kids[k]]])
    IN  t[Len(e)]

\* TranslateTableFilter: IS NOT NULL adds no operation, only its column to the null mask.
TranslateTableNode(col, node, kids) ==
    CASE node.class = "cmp" /\ node.value # Null ->
            Done(<<Op("LOAD_COL", col, 0, FALSE), Op("CONST_VAL", "", node.value, Lane[col] = "int"), Plain(node.code)>>,
                 {col}, "bool")
      [] node.class = "conj" /\ Len(kids) > 0 /\ (\A k \in DOMAIN kids : kids[k].ok) ->
            Done(Joined([k \in DOMAIN kids |-> kids[k].ops], node.code), {col}, "bool")
      [] node.class = "not_null" -> Done(<<>>, {col}, "bool")
      [] OTHER -> Declined

TranslateTableFilter(f) ==
    LET t[n \in DOMAIN f.nodes] ==
            TranslateTableNode(f.col, f.nodes[n], [k \in DOMAIN f.nodes[n].kids |-> t[f.nodes[n].kids[k]]])
    IN  t[Len(f.nodes)]

\* The filter of a cached query: the residual expressions, then the table filters.
CacheFilter(where) ==
    LET parts == [k \in DOMAIN where.residual |-> Translate(where.residual[k])]
                    \o [k \in DOMAIN where.table |-> TranslateTableFilter(where.table[k])]
        ops[k \in 0 .. Len(parts)] ==
            IF k = 0 THEN <<>>
            ELSE IF parts[k].ops = <<>> THEN ops[k - 1]
            ELSE ops[k - 1] \o parts[k].ops \o (IF ops[k - 1] = <<>> THEN <<>> ELSE <<Plain("AND")>>)
    IN  [ok |-> \A k \in DOMAIN parts : parts[k].ok /\ parts[k].lane = "bool",
         ops |-> ops[Len(parts)],
         null_cols |-> UNION {parts[k].cols : k \in DOMAIN parts}]

\* BuildAggregatePrograms, for one aggregate.  COUNT(*) has no argument.
Program(agg) ==
    LET t == IF agg.kind = "COUNT_STAR" THEN Done(<<>>, {}, "float") ELSE Translate(agg.arg)
    IN  [ok |-> t.ok /\ t.lane # "bool", kind |-> agg.kind, ops |-> t.ops, null_cols |-> t.cols, int_lane |-> t.lane = "int"]

\* Aggregates the CPU is expected to win on stay there.
CpuFast(programs) ==
    LET values == {p \in DOMAIN programs : programs[p].kind # "COUNT_STAR"}
        plain(p) == programs[p].kind = "COUNT_STAR" \/ (Len(programs[p].ops) = 1 /\ programs[p].ops[1].code = "LOAD_COL")
    IN  \/ Len(programs) = 1 /\ plain(1)
        \/ (\E p \in values : programs[p].int_lane) /\ Cardinality(values) < 3

-----------------------------------------------------------------------------
(* Evaluation of one segment *)

\* The operands an operation pops.
Takes(op) ==
    CASE op.code \in {"LOAD_COL", "CONST_VAL"} -> 0
      [] op.code \in {"TO_FLOAT", "NOT", "NEGATE", "ABS"} -> 1
      [] OTHER -> 2

\* No operation finds too few values on the stack, and one is left.
Balanced(ops) ==
    LET depth[i \in 0 .. Len(ops)] == IF i = 0 THEN 0 ELSE depth[i - 1] - Takes(ops[i]) + 1
    IN  /\ \A i \in DOMAIN ops : depth[i - 1] >= Takes(ops[i])
        /\ depth[Len(ops)] = 1

\* One operation of EvalOps on the stack, at one row.
EvalOp(op, s, row) ==
    LET push(stack, lane, v) == Append(stack, [lane |-> lane, v |-> v])
        a == s[Len(s)]
        one == Front(s)
        b == s[Len(s) - 1]    \* operands of a binary operation: b, then a
        two == Front(one)
    IN  CASE op.code = "LOAD_COL" -> push(s, Lane[op.col], row.values[op.col])
          [] op.code = "CONST_VAL" /\ op.int_lane -> push(s, "int", op.value)
          [] op.code = "CONST_VAL" /\ ~op.int_lane -> push(s, "float", Float(op.value))
          [] op.code = "TO_FLOAT" -> push(one, "float", Float(a.v))
          [] op.code = "NOT" -> push(one, "bool", ~a.v)
          [] op.code = "NEGATE" -> push(one, a.lane, -a.v)
          [] op.code = "ABS" -> push(one, a.lane, Abs(a.v))
          [] op.code = "AND" -> push(two, "bool", b.v /\ a.v)
          [] op.code = "OR" -> push(two, "bool", b.v \/ a.v)
          [] op.code \in Comparisons -> push(two, "bool", Compare(op.code, b.v, a.v))
          [] OTHER -> push(two, b.lane, InLane(b.lane, Arithmetic(op.code, b.v, a.v)))

\* EvalOps at one row: arrays are evaluated elementwise.
EvalOps(ops, row) ==
    LET stack[i \in 0 .. Len(ops)] == IF i = 0 THEN <<>> ELSE EvalOp(ops[i], stack[i - 1], row)
    IN  Last(stack[Len(ops)]).v

\* Columns of cols that carry a validity array in the segment, and the AND of these.
MaskedCols(segment, cols) == cols \cap segment.masked
NullMask(segment, cols, row) == \A c \in MaskedCols(segment, cols) : row.valid[c]

\* A row's filter verdict: the filter program's, if there is one, and no NULL in its columns.
FilterMask(segment, filter, row) ==
    /\ filter.ops # <<>> => EvalOps(filter.ops, row)
    /\ NullMask(segment, filter.null_cols, row)

\* Mutant of SegmentHasMask: the NULLs of the program's own columns are forgotten.
HasFilterMask(segment, filter, program) ==
    filter.ops # <<>> \/ MaskedCols(segment, filter.null_cols) # {}

SegmentHasMask(segment, filter, program) ==
    \/ filter.ops # <<>>
    \/ MaskedCols(segment, filter.null_cols) # {}
    \/ MaskedCols(segment, program.null_cols) # {}

HasValueGraph(kind) == kind \notin {"COUNT", "COUNT_STAR"}
Neutral(kind) == CASE kind = "MIN" -> Top [] kind = "MAX" -> -Top [] OTHER -> 0

\* BuildSumGraphs: [value?][count?] of each program.  Rows outside the mask give the
\* neutral element; a float sum is rounded.
BuildSumGraphs(segment, programs, filter) ==
    LET rows(p) == {r \in DOMAIN segment.rows : FilterMask(segment, filter, segment.rows[r])
                                                  /\ NullMask(segment, programs[p].null_cols, segment.rows[r])}
        masked(p) == filter.ops # <<>> \/ MaskedCols(segment, filter.null_cols \cup programs[p].null_cols) # {}
        value(p, r) == EvalOps(programs[p].ops, segment.rows[r])
        found(p) == {value(p, r) : r \in rows(p)} \cup {Neutral(programs[p].kind)}
        reduced(p) ==
            CASE programs[p].kind = "MIN" -> Min(found(p))
              [] programs[p].kind = "MAX" -> Max(found(p))
              [] OTHER -> InLane(IF programs[p].int_lane THEN "int" ELSE "float",
                                 MapThenSumSet(LAMBDA r : value(p, r), rows(p)))
        outs(p) == (IF HasValueGraph(programs[p].kind) THEN <<reduced(p)>> ELSE <<>>)
                     \o (IF masked(p) THEN <<Cardinality(rows(p))>> ELSE <<>>)
    IN  FlattenSeq([p \in DOMAIN programs |-> outs(p)])

NoResult(programs) ==
    [p \in DOMAIN programs |-> [value |-> Fraction(Neutral(programs[p].kind), 1), valid_count |-> 0]]

\* The merge of a partial into a result, by kind.
Merge(kind, a, b) ==
    CASE kind = "MIN" -> Fraction(Lesser(a.num, b.num), 1)
      [] kind = "MAX" -> Fraction(Greater(a.num, b.num), 1)
      [] kind \in {"COUNT", "COUNT_STAR"} -> a
      [] OTHER -> Fraction(a.num * b.den + b.num * a.den, a.den * b.den)

\* The outputs of a segment start at the cursor; MergeSegmentOutputs reads them in the
\* order BuildSumGraphs wrote them.
MergeSegmentOutputs(segment, programs, filter, outs, cursor, res) ==
    LET width(p) == (IF HasValueGraph(programs[p].kind) THEN 1 ELSE 0)
                      + (IF SegmentHasMask(segment, filter, programs[p]) THEN 1 ELSE 0)
        at[p \in 1 .. Len(programs) + 1] == IF p = 1 THEN cursor ELSE at[p - 1] + width(p - 1)
        value(p) == IF HasValueGraph(programs[p].kind) THEN outs[at[p]] ELSE 0
        count(p) == IF SegmentHasMask(segment, filter, programs[p]) THEN outs[at[p + 1] - 1] ELSE Len(segment.rows)
    IN  [cursor |-> at[Len(programs) + 1],
         results |-> [p \in DOMAIN programs |->
            [value |-> Merge(programs[p].kind, res[p].value, Fraction(value(p), 1)),
             valid_count |-> res[p].valid_count + count(p)]]]

\* The average is divided once, over the merged sum.
Averaged(programs, res) ==
    [p \in DOMAIN programs |->
        IF programs[p].kind = "AVG" /\ res[p].valid_count > 0
        THEN [res[p] EXCEPT !.value = Fraction(@.num, @.den * res[p].valid_count)] ELSE res[p]]

-----------------------------------------------------------------------------
(* Zone maps *)

NoZone == [lo |-> Top, hi |-> -Top, any |-> FALSE, has_null |-> FALSE]

\* Mutant of ZoneWith: the upper bound follows the smaller of two values, not the greater.
ZoneHighFollowsLow(zone, value, valid) ==
    IF valid THEN [zone EXCEPT !.lo = Lesser(@, value), !.hi = Lesser(@, value), !.any = TRUE]
    ELSE [zone EXCEPT !.has_null = TRUE]

\* ComputeZoneMapT, one row.
ZoneWith(zone, value, valid) ==
    IF valid THEN [zone EXCEPT !.lo = Lesser(@, value), !.hi = Greater(@, value), !.any = TRUE]
    ELSE [zone EXCEPT !.has_null = TRUE]

\* A segment of NULLs only has the range 0 .. 0.
ZoneLow(zone) == IF zone.any THEN zone.lo ELSE 0
ZoneHigh(zone) == IF zone.any THEN zone.hi ELSE 0

\* BuildSegmentPrunePreds: column, constant, comparison, and then only such triples after
\* an AND each.
PrunePreds(filter) ==
    LET ops == filter.ops
        cmp(i) == /\ i + 2 <= Len(ops)
                  /\ ops[i].code = "LOAD_COL" /\ ops[i + 1].code = "CONST_VAL" /\ ops[i + 2].code \in Comparisons
        starts == {i \in 1 .. Len(ops) : i % 4 = 1}
        shape == Len(ops) % 4 = 3 /\ \A i \in starts : cmp(i) /\ (i > 1 => ops[i - 1].code = "AND")
    IN  IF ~shape THEN {}
        ELSE {[col |-> ops[i].col, code |-> ops[i + 2].code, constant |-> ops[i + 1].value, int_lane |-> ops[i + 1].int_lane] : i \in starts}

\* A predicate no value between the bounds satisfies.
RulesOut(pred, zone) ==
    LET lo == ZoneLow(zone)
        hi == ZoneHigh(zone)
        c == pred.constant
    IN  CASE pred.code = "LT" -> lo >= c
          [] pred.code = "LE" -> lo > c
          [] pred.code = "GT" -> hi <= c
          [] pred.code = "GE" -> hi < c
          [] pred.code = "EQ" -> c < lo \/ c > hi
          [] pred.code = "NE" -> ~zone.has_null /\ lo = hi /\ lo = c

\* SegmentShouldPrune.  The lanes of a column and of its constant agree when the filter was
\* translated, so the test for it never stops the loop.
SegmentShouldPrune(zone, filter) ==
    \E pred \in PrunePreds(filter) : pred.int_lane = (Lane[pred.col] = "int") /\ RulesOut(pred, zone[pred.col])

-----------------------------------------------------------------------------
(* SQL, for comparison: three-valued logic, over the numbers themselves or over what *)
(* keep(lane, x) leaves of a number x in its lane                                  *)

Exactly(lane, x) == x

Evaluate(e, row, keep(_, _)) ==
    LET v[n \in DOMAIN e] ==
        LET node == e[n]
            kids == [k \in DOMAIN node.kids |-> v[node.kids[k]]]
            nullKid == \E k \in DOMAIN kids : kids[k] = Null
            lane == Translate(SubSeq(e, 1, n)).lane
        IN  CASE node.class = "col" -> IF row[node.col] = Null THEN Null ELSE keep(Lane[node.col], row[node.col])
              [] node.class = "const" -> keep(node.code, node.value)
              [] node.class = "conj" /\ node.code = "AND" ->
                    IF \E k \in DOMAIN kids : kids[k] = FALSE THEN FALSE ELSE IF nullKid THEN Null ELSE TRUE
              [] node.class = "conj" /\ node.code = "OR" ->
                    IF \E k \in DOMAIN kids : kids[k] = TRUE THEN TRUE ELSE IF nullKid THEN Null ELSE FALSE
              [] nullKid -> Null
              [] node.class = "cast" -> keep("float", kids[1])
              [] node.class = "cmp" -> Compare(node.code, kids[1], kids[2])
              [] node.class = "not" -> ~kids[1]
              [] node.class = "unary" -> IF node.code = "ABS" THEN Abs(kids[1]) ELSE -kids[1]
              [] node.class = "binary" -> keep(lane, Arithmetic(node.code, kids[1], kids[2]))
    IN  v[Len(e)]

EvaluateTableFilter(f, row, keep(_, _)) ==
    LET v[n \in DOMAIN f.nodes] ==
        LET node == f.nodes[n]
            lane == Lane[f.col]
        IN  CASE node.class = "not_null" -> row[f.col] # Null
              [] node.class = "cmp" -> row[f.col] # Null /\ Compare(node.code, keep(lane, row[f.col]), keep(lane, node.value))
              [] node.code = "AND" -> \A k \in DOMAIN node.kids : v[node.kids[k]]
              [] OTHER -> \E k \in DOMAIN node.kids : v[node.kids[k]]
    IN  v[Len(f.nodes)]

\* The rows a WHERE clause is true of.
Selects(where, row, keep(_, _)) ==
    /\ \A k \in DOMAIN where.residual : Evaluate(where.residual[k], row, keep) = TRUE
    /\ \A k \in DOMAIN where.table : EvaluateTableFilter(where.table[k], row, keep)

\* For SQL, and for DuckDB's scan and FILTER, which compare the column's own values.
SqlSelects(where, row) == Selects(where, row, Exactly)

-----------------------------------------------------------------------------
(* Execution *)

\* A row in its lanes: 0 where it is NULL, and the validity it came with.
Stored(row) ==
    [row |-> row,
     valid |-> [c \in Columns |-> row[c] # Null],
     values |-> [c \in Columns |-> IF row[c] = Null THEN 0 ELSE InLane(Lane[c], row[c])]]

NoQuery == [where |-> [residual |-> <<>>, table |-> <<>>], aggs |-> <<>>, cached |-> FALSE,
            filter |-> [ok |-> TRUE, ops |-> <<>>, null_cols |-> {}], programs |-> <<>>]

Init ==
    /\ layout \in Layouts
    /\ inherited \in SUBSET Columns
    /\ segments = [s \in DOMAIN layout |-> [rows |-> <<>>, masked |-> inherited]]
    /\ zones = [s \in DOMAIN layout |-> [c \in Columns |-> NoZone]]
    /\ pc = "append" /\ query = NoQuery /\ next = 1
    /\ all = <<>> /\ evaluated = <<>> /\ pruned = {} /\ results = <<>>

\* AppendMlxColumnT and ComputeZoneMapT: the next row of the segment; a column carries a
\* mask once a NULL appeared in it.
AppendRow(s, row) ==
    /\ pc = "append" /\ next = s /\ Len(segments[s].rows) < layout[s]
    /\ segments' = [segments EXCEPT
            ![s].rows = Append(@, Stored(row)),
            ![s].masked = @ \cup {c \in Columns : row[c] = Null}]
    /\ zones' = [zones EXCEPT ![s] = [c \in Columns |->
            ZoneWith(zones[s][c], Stored(row).values[c], row[c] # Null)]]
    /\ next' = IF Len(segments'[s].rows) = layout[s] THEN next + 1 ELSE next
    /\ UNCHANGED <<layout, inherited, pc, query, all, evaluated, pruned, results>>

\* TryInterceptAggregate.  A cached query reads the resident segments; for any other the
\* scan and the FILTER stay below the operator and pass on the rows the WHERE clause is
\* true of, before they are stored in their lanes, and the operator aggregates without a
\* filter of its own.
Plan(where, aggs, cached) ==
    LET filter == CacheFilter(where)
        programs == [p \in DOMAIN aggs |-> Program(aggs[p])]
        accepted == filter.ok /\ (\A p \in DOMAIN aggs : programs[p].ok) /\ ~CpuFast(programs)
    IN  /\ pc = "append" /\ next > Len(layout)
        /\ query' = [where |-> where, aggs |-> aggs, cached |-> cached, programs |-> programs,
                     filter |-> IF cached THEN filter ELSE NoQuery.filter]
        /\ pc' = IF accepted THEN "eval" ELSE "declined"
        /\ segments' = IF cached \/ ~accepted THEN segments
                       ELSE [s \in DOMAIN segments |->
                                LET kept == SelectSeq(segments[s].rows, LAMBDA r : SqlSelects(where, r.row))
                                IN  [rows |-> kept, masked |-> {c \in Columns : \E k \in DOMAIN kept : ~kept[k].valid[c]}]]
        /\ results' = NoResult(programs)
        /\ next' = 1
        /\ UNCHANGED <<layout, inherited, zones, all, evaluated, pruned>>

\* EvalSegments, first loop: a segment is pruned or adds its outputs.  (Resident segments
\* have rows; the test for empty ones is HostSegment's.)
PruneSegment(s) ==
    /\ pc = "eval" /\ query.cached /\ next = s /\ s \in DOMAIN segments
    /\ segments[s].rows # <<>> /\ SegmentShouldPrune(zones[s], query.filter)
    /\ pruned' = pruned \cup {s}
    /\ next' = next + 1
    /\ UNCHANGED <<layout, inherited, segments, zones, pc, query, all, evaluated, results>>

\* The filter's program, if there is one, finds its operands.
FilterRuns == query.filter.ops # <<>> => Balanced(query.filter.ops)

EvalSegment(s) ==
    /\ pc = "eval" /\ query.cached /\ next = s /\ s \in DOMAIN segments
    /\ segments[s].rows # <<>> /\ ~SegmentShouldPrune(zones[s], query.filter)
    /\ FilterRuns
    /\ all' = all \o BuildSumGraphs(segments[s], query.programs, query.filter)
    /\ evaluated' = Append(evaluated, s)
    /\ next' = next + 1
    /\ UNCHANGED <<layout, inherited, segments, zones, pc, query, pruned, results>>

\* EvalOps calls back() on an empty vector: undefined behaviour, which is not followed further.
EvalUnderflow(s) ==
    /\ pc = "eval" /\ query.cached /\ next = s /\ s \in DOMAIN segments
    /\ segments[s].rows # <<>> /\ ~SegmentShouldPrune(zones[s], query.filter)
    /\ ~FilterRuns
    /\ pc' = "undefined"
    /\ UNCHANGED <<layout, inherited, segments, zones, query, next, all, evaluated, pruned, results>>

\* EvalSegments, second loop and division.
MergeOutputs ==
    LET merged == FoldLeft(LAMBDA m, s : MergeSegmentOutputs(segments[s], query.programs, query.filter, all, m.cursor, m.results),
                           [cursor |-> 1, results |-> results], evaluated)
    IN  /\ pc = "eval" /\ query.cached /\ next > Len(layout)
        /\ results' = Averaged(query.programs, merged.results)
        /\ pc' = "done"
        /\ UNCHANGED <<layout, inherited, segments, zones, query, next, all, evaluated, pruned>>

\* Finalize without population: MlxSumExprs of one buffered segment, averages included,
\* and its merge; an average is weighted by its count, through the sum in the int lane.
HostSegment(s) ==
    LET programs == query.programs
        none == NoResult(programs)
        partial == IF segments[s].rows = <<>> THEN none
                   ELSE Averaged(programs, MergeSegmentOutputs(segments[s], programs, query.filter,
                            BuildSumGraphs(segments[s], programs, query.filter), 1, none).results)
        weighted(p) == IF programs[p].kind = "AVG"
                       THEN Fraction(partial[p].value.num * partial[p].valid_count, partial[p].value.den) ELSE partial[p].value
    IN  /\ pc = "eval" /\ ~query.cached /\ next = s /\ s \in DOMAIN segments
        /\ results' = [p \in DOMAIN programs |->
                [value |-> Merge(programs[p].kind, results[p].value, weighted(p)),
                 valid_count |-> results[p].valid_count + partial[p].valid_count]]
        /\ next' = next + 1
        /\ UNCHANGED <<layout, inherited, segments, zones, pc, query, all, evaluated, pruned>>

FinalizeHost ==
    /\ pc = "eval" /\ ~query.cached /\ next > Len(layout)
    /\ results' = Averaged(query.programs, results)
    /\ pc' = "done"
    /\ UNCHANGED <<layout, inherited, segments, zones, query, next, all, evaluated, pruned>>

\* GetData: counts, and values that are NULL without a counted row.
Rendered(p) ==
    IF ~HasValueGraph(query.programs[p].kind) THEN Fraction(results[p].valid_count, 1)
    ELSE IF results[p].valid_count = 0 THEN Null
    ELSE results[p].value

Next ==
    \/ \E s \in DOMAIN layout : \/ \E row \in RowKinds : AppendRow(s, row)
                                \/ PruneSegment(s) \/ EvalSegment(s) \/ EvalUnderflow(s) \/ HostSegment(s)
    \/ \E where \in Filters, aggs \in Aggregates, cached \in BOOLEAN : Plan(where, aggs, cached)
    \/ MergeOutputs
    \/ FinalizeHost

Spec == Init /\ [][Next]_vars

-----------------------------------------------------------------------------
(* Properties *)

\* No IS NOT NULL stands below an AND or OR of a table filter.
NotNullApart(where) ==
    \A t \in DOMAIN where.table : LET nodes == where.table[t].nodes IN
        \A n \in DOMAIN nodes : nodes[n].class = "conj" =>
            \A k \in DOMAIN nodes[n].kids : nodes[nodes[n].kids[k]].class # "not_null"

\* Whatever mix of residual expressions, table filters and aggregates is accepted, EvalOps
\* finds the operands of every operation on its stack and leaves one result, so that
\* stack.back() and pop_back() are never called on an empty stack - but for a table filter
\* with an IS NOT NULL below AND or OR, whose operand TranslateTableFilter leaves out.
AcceptedProgramsBalanced ==
    pc = "eval" => /\ NotNullApart(query.where) => FilterRuns
                   /\ \A p \in DOMAIN query.programs :
                        HasValueGraph(query.programs[p].kind) => Balanced(query.programs[p].ops)

\* The mask compares with the fp32 rounding of a constant, pruning with the constant
\* itself: a row on that rounding is on different sides of the two.
OnRoundedConstant(row) ==
    \E pred \in PrunePreds(query.filter) :
        /\ ~pred.int_lane /\ Float(pred.constant) # pred.constant
        /\ row.values[pred.col] = Float(pred.constant)

\* SegmentShouldPrune never skips a segment with a row the filter's mask would select,
\* NULLs included, but for rows whose stored value is what fp32 makes of a constant that it
\* does not hold.
PrunedSegmentsEmpty ==
    \A s \in pruned : \A r \in DOMAIN segments[s].rows :
        FilterMask(segments[s], query.filter, segments[s].rows[r]) => OnRoundedConstant(segments[s].rows[r])

Rows == {x \in (DOMAIN segments) \X (1 .. Max(Range(layout))) : x[2] <= Len(segments[x[1]].rows)}
RowAt(x) == segments[x[1]].rows[x[2]]

\* Aggregate p is the aggregate of these rows.  Values are those of the lanes, and float
\* sums count as long as floats hold them.
Answered(p, rows) ==
    LET kind == query.aggs[p].kind
        value(x) == Evaluate(query.aggs[p].arg, RowAt(x).row, InLane)
        valued == {x \in rows : kind # "COUNT_STAR" => value(x) # Null}
        sum == MapThenSumSet(value, valued)
        n == Cardinality(valued)
    IN  IF ~HasValueGraph(kind) THEN Rendered(p) = Fraction(n, 1)
        ELSE IF n = 0 THEN Rendered(p) = Null
        ELSE /\ Rendered(p) # Null
             /\ \/ SameFraction(Rendered(p),
                        CASE kind = "MIN" -> Fraction(Min({value(x) : x \in valued}), 1)
                          [] kind = "MAX" -> Fraction(Max({value(x) : x \in valued}), 1)
                          [] kind = "SUM" -> Fraction(sum, 1)
                          [] OTHER -> Fraction(sum, n))
                \/ kind \in {"SUM", "AVG"} /\ ~query.programs[p].int_lane
                     /\ MapThenSumSet(LAMBDA x : Abs(value(x)), valued) > FpExact

\* Every aggregate is that of the same rows: those of rows that SQL selects, where a cached
\* query may count or miss a row on which rounding the stored values and the constants
\* changes the verdict of the WHERE clause, or of the zone map.
AnswersOver(rows) ==
    LET rounded(x) ==
            /\ query.cached
            /\ \/ SqlSelects(query.where, RowAt(x).row) # Selects(query.where, RowAt(x).row, InLane)
               \/ x[1] \in pruned /\ OnRoundedConstant(RowAt(x))
        sure == {x \in rows : ~rounded(x) /\ SqlSelects(query.where, RowAt(x).row)}
    IN  \E some \in SUBSET {x \in rows : rounded(x)} :
            \A p \in DOMAIN query.aggs : Answered(p, sure \cup some)

\* A finished query gives every aggregate SQL's value over the rows its WHERE clause is true
\* of: exactly these rows from a scan; from the cache, those of them that hold a value in
\* every column the clause names, and up to the rounding of stored values and constants.
\* Translation, lanes, masks, pruning and merging lose and add nothing else.
AnswersExact ==
    pc = "done" => AnswersOver({x \in Rows : \A c \in query.filter.null_cols : RowAt(x).valid[c]})

\* README: "NULL semantics are honored throughout" - with AND, OR and NOT in the WHERE
\* clause, every row it is true of is aggregated.
NullSemanticsHonored == pc = "done" => AnswersOver(Rows)

=============================================================================
