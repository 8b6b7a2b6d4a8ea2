--------------------------- MODULE MlxGroupbyDense ---------------------------
(***************************************************************************)
(* The dense GROUP BY table kept beside the column cache.                  *)
(*                                                                         *)
(* A cold "SELECT g, sum(v) ... GROUP BY g" that populates the cache also  *)
(* adds every segment it stores to a dense table of per-group sums, under  *)
(* the population it stores for.  A later query of the same shape without  *)
(* a filter is answered from that table, without reading the columns.  The *)
(* table has its own mutex, so a segment reaches the cache and the table   *)
(* in two steps, and reading it takes the population of the group column   *)
(* first and the table afterwards.  The read checks that the query has one *)
(* SUM, not that the SUM is of the column alone.                           *)
(*                                                                         *)
(* Abstraction.  The sums of the table are the cells added to it; the      *)
(* distinct spans of the group keys and the float rounding are left out.   *)
(* The actions here are composed with a session's other steps in MlxPinned.*)
(***************************************************************************)
EXTENDS MlxColumnCache, Functions

CONSTANTS
    GroupCol, ValueCol,  \* g and v of the modelled query
    StringCol,           \* a VARCHAR column, read only as the key of a grouping
    Summands,            \* what groupings sum: subset of SummandKind
    NullCells,           \* cells whose row has a NULL in g or v
    MaxDense             \* bound: no query is planned once the table holds more cells

\* SUM(v), or a SUM of an expression over v.
SummandKind == {"column", "expression"}

ASSUME DenseAssumption ==
    /\ GroupCol \in Col
    /\ ValueCol \in Col
    /\ StringCol \notin {GroupCol, ValueCol}
    /\ Summands \subseteq SummandKind
    /\ MaxDense \in Nat

VARIABLES
    dense,    \* DenseGroupbyStore()[(g, v)]
    pending,  \* session -> rows stored in the cache and not yet in the dense table
    seen,     \* session -> population of g as its cached read found it; 0 before that
    summand   \* session -> what its grouping sums

denseVars == <<dense, pending, seen, summand>>
allVars == <<vars, denseVars>>

NoDense == [population |-> 0, ready |-> FALSE, cells |-> <<>>]

DenseInit ==
    /\ Init
    /\ dense = NoDense
    /\ pending = [s \in Session |-> <<>>]
    /\ seen = [s \in Session |-> 0]
    /\ summand = [s \in Session |-> "column"]

-----------------------------------------------------------------------------
(* Filling the table *)

\* One integer key and one SUM over v.  Any further column is one the WHERE clause
\* reads.
SumGroupBy(q) ==
    /\ q.kind = "group"
    /\ {GroupCol, ValueCol} \subseteq q.cols
    /\ StringCol \notin q.cols
    /\ q.filter = "none" => q.cols = {GroupCol, ValueCol}

\* IsPlainSumGroupByPrograms: the queries that fill the table.
PlainSumGroupBy(s) == SumGroupBy(query[s]) /\ summand[s] = "column"

\* Mutant of Accumulated: a table that is ready is taken for complete.
AccumulateOnce(d, population, rows) ==
    IF d.population = population /\ d.ready THEN d
    ELSE [population |-> population, ready |-> TRUE, cells |-> rows]

\* MlxGroupbyDenseAccumulateColumns.  Another population starts the table over;
\* a NULL turns its row's key into INT64_MIN, which DenseSpanOk rejects, and the
\* whole segment with it.
Accumulated(d, population, rows) ==
    LET kept == IF d.population = population THEN d
                ELSE [population |-> population, ready |-> FALSE, cells |-> <<>>]
    IN  IF \E i \in DOMAIN rows : rows[i] \in NullCells THEN kept
        ELSE [kept EXCEPT !.ready = TRUE, !.cells = @ \o rows]

\* The population loop stores a segment whether or not its columns are kept
\* (store_col), and adds it to the dense table afterwards.
DenseStoreSegment(s) ==
    /\ pending[s] = <<>>
    /\ StoreSegment(s)
    /\ pending' = [pending EXCEPT ![s] = IF PlainSumGroupBy(s) THEN Head(segs[s]) ELSE <<>>]
    /\ UNCHANGED <<dense, seen, summand>>

DenseAccumulate(s) ==
    /\ pending[s] # <<>>
    /\ dense' = Accumulated(dense, plan[s].population, pending[s])
    /\ pending' = [pending EXCEPT ![s] = <<>>]
    /\ UNCHANGED <<vars, seen, summand>>

DenseStoreDone(s) ==
    /\ pending[s] = <<>>
    /\ StoreDone(s)
    /\ UNCHANGED denseVars

\* MlxCacheBeginPopulation drops the table: a cached column, or the layout, has
\* another row count.
DropsTable(s) ==
    \/ \E c \in Col : Resident(c) /\ store[c].rows # query[s].expected
    \/ layout.rows \notin {0, query[s].expected}

\* DropTableUnlocked and MlxCacheClearAll clear the dense table as well.
DenseBeginPopulation(s) ==
    /\ BeginPopulation(s)
    /\ dense' = IF DropsTable(s) THEN NoDense ELSE dense
    /\ UNCHANGED <<pending, seen, summand>>

DenseClearAll(s) ==
    /\ ClearAll(s)
    /\ dense' = NoDense
    /\ UNCHANGED <<pending, seen, summand>>

-----------------------------------------------------------------------------
(* Reading the table *)

\* Mutant of TriesDense: the query's filter is not looked at.
TriesDenseFiltered(q) == SumGroupBy(q)

\* TryGroupedDenseCached applies: no filter, one key, one SUM whose program begins
\* with v, also when the program goes on to compute an expression.
TriesDense(q) == SumGroupBy(q) /\ q.filter = "none"

\* MlxCachePopulation(g): the first of the read's two locks.
ReadPopulation(s) ==
    /\ pc[s] = "exec"
    /\ TriesDense(query[s])
    /\ seen[s] = 0
    /\ Resident(GroupCol)
    /\ seen' = [seen EXCEPT ![s] = store[GroupCol].population]
    /\ UNCHANGED <<vars, dense, pending, summand>>

\* MlxGroupbyDenseTryRead under the population seen.
DenseReadable(s) == dense.ready /\ dense.population = seen[s]

DenseServe(s) ==
    /\ pc[s] = "exec"
    /\ seen[s] # 0
    /\ DenseReadable(s)
    /\ answer' = [answer EXCEPT ![s] =
            [status |-> "rows",
             rows |-> {<<i, [c \in query[s].cols |-> dense.cells[i]]>> : i \in DOMAIN dense.cells}]]
    /\ pc' = [pc EXCEPT ![s] = "done"]
    /\ UNCHANGED <<query, todo, segs, plan, cacheVars, tableVars, denseVars>>

\* The dense table cannot answer: another shape of query, no group column, or
\* no table of that population.
NoDenseAnswer(s) ==
    \/ ~TriesDense(query[s])
    \/ seen[s] = 0 /\ ~Resident(GroupCol)
    \/ seen[s] # 0 /\ ~DenseReadable(s)

DenseServeFused(s) ==
    /\ NoDenseAnswer(s)
    /\ ServeGroupedFused(s)
    /\ UNCHANGED denseVars

\* MLX_SUM_CACHED, and the grouped reads that need no dense table first: the
\* hash GROUP BY, and the segment path as a fallback.
DenseServeCached(s) ==
    /\ ServeCached(s)
    /\ UNCHANGED denseVars

DenseReturn(s) ==
    /\ Return(s)
    /\ seen' = [seen EXCEPT ![s] = 0]
    /\ UNCHANGED <<dense, pending, summand>>

-----------------------------------------------------------------------------
(* Properties *)

\* Between requests, a dense table that a query would be answered from (the plan
\* is cached and the group column's population admits the table) holds exactly the
\* rows of the cached group column, each once; where a row has a NULL, its segment
\* may be missing.
DenseMatchesColumns ==
    /\ \A s \in Session : pc[s] = "idle"
    /\ MlxCacheHas({GroupCol, ValueCol}, Len(table))
    /\ dense.ready
    /\ dense.population = store[GroupCol].population
    => /\ IsInjective(dense.cells)
       /\ Range(dense.cells) \subseteq Range(store[GroupCol].cells)
       /\ Range(store[GroupCol].cells) \cap NullCells = {} =>
            Range(dense.cells) = Range(store[GroupCol].cells)

\* A grouped answer aggregates exactly the selected rows, each once, as the column
\* its filter reads shows them, whichever of the three sources it came from; only
\* when one of them has a NULL may the dense table have left some out.
GroupedRowsExact ==
    \A s \in Session : pc[s] = "done" /\ query[s].kind = "group" /\ answer[s].status = "rows" =>
        LET selected == {query[s].snapshot[i] : i \in Selected(query[s])}
            found(c) == {r[2][c] : r \in answer[s].rows}
        IN  \E c \in query[s].cols :
                /\ Cardinality(answer[s].rows) = Cardinality(found(c))
                /\ found(c) \subseteq selected
                /\ selected \cap NullCells = {} => found(c) = selected

=============================================================================
