------------------------- MODULE GroupedAggregation -------------------------
(***************************************************************************)
(* What a grouped aggregation promises, however it is executed: every row  *)
(* is added to the accumulators of its group exactly once, no group is     *)
(* emitted before the last row is in, and every emitted group has the      *)
(* aggregates of all its rows.                                             *)
(***************************************************************************)
EXTENDS Integers, FiniteSets, FiniteSetsExt

VARIABLES
    input,   \* groups, programs and rows of the query: a row's group, and per
             \* program whether it is counted and its value
    left,    \* rows not yet added
    total,   \* group -> its number of rows, and per program its count and sum
    emitted  \* group -> its emitted aggregates, for the groups emitted so far

abstractVars == <<input, left, total, emitted>>

\* The totals of some rows of an input.
TotalOf(in, rows) ==
    [g \in in.groups |->
        LET mine == {r \in rows : in.rows[r].group = g}
            counted(p) == {r \in mine : in.rows[r].counted[p]}
        IN  [rows |-> Cardinality(mine),
             count |-> [p \in DOMAIN in.programs |-> Cardinality(counted(p))],
             sum |-> [p \in DOMAIN in.programs |->
                        MapThenSumSet(LAMBDA r : in.rows[r].value[p], counted(p))]]]

Total(rows) == TotalOf(input, rows)

Plus(t, u) ==
    [rows |-> t.rows + u.rows,
     count |-> [p \in DOMAIN t.count |-> t.count[p] + u.count[p]],
     sum |-> [p \in DOMAIN t.sum |-> t.sum[p] + u.sum[p]]]

\* The SQL value of an aggregate; an AVG is its sum and its count.
Result(kind, t, p) ==
    CASE kind = "COUNT_STAR" -> t.rows
      [] kind = "COUNT" -> t.count[p]
      [] t.count[p] = 0 -> "NULL"
      [] kind = "AVG" -> <<t.sum[p], t.count[p]>>
      [] OTHER -> t.sum[p]

AbstractInit ==
    /\ left = DOMAIN input.rows
    /\ total = Total({})
    /\ emitted = [g \in {} |-> 0]

Add(rows) ==
    /\ left' = left \ rows
    /\ total' = [g \in input.groups |-> Plus(total[g], Total(rows)[g])]
    /\ UNCHANGED <<input, emitted>>

Emit(groups) ==
    /\ left = {}
    /\ emitted' = [g \in DOMAIN emitted \cup groups |->
            IF g \in groups THEN [p \in DOMAIN input.programs |-> Result(input.programs[p], total[g], p)]
            ELSE emitted[g]]
    /\ UNCHANGED <<input, left, total>>

AbstractNext ==
    \/ \E rows \in SUBSET left : Add(rows)
    \/ \E groups \in SUBSET {g \in input.groups \ DOMAIN emitted : total[g].rows > 0} : Emit(groups)

AbstractSpec == AbstractInit /\ [][AbstractNext]_abstractVars

\* Every emitted group has a row, and its aggregates are those of all rows of the input.
EmittedExact ==
    \A g \in DOMAIN emitted :
        /\ \E r \in DOMAIN input.rows : input.rows[r].group = g
        /\ emitted[g] = [p \in DOMAIN input.programs |->
                Result(input.programs[p], Total(DOMAIN input.rows)[g], p)]

=============================================================================
