--------------------------- MODULE MlxColumnCache ---------------------------
(***************************************************************************)
(* The GPU-resident column cache of one table and the sessions that fill,  *)
(* read, pin and clear it.                                                 *)
(*                                                                         *)
(* The cache keeps, per column, a vector of row segments.  A cold query    *)
(* scans the table with several threads, buffers one segment per thread    *)
(* and then populates the cache: MlxCacheBeginPopulation, one              *)
(* MlxCacheStoreSegment per buffered segment, MlxCacheFuseTable.  Each of  *)
(* these calls takes CacheMutex for its own duration only, so each is one  *)
(* action and the calls of different sessions interleave.                  *)
(*                                                                         *)
(* Abstraction.  The value of a row is the row's identity, a CELL: two     *)
(* columns read at one position belong together exactly when they hold the *)
(* same cell.  A column's segments are the concatenation of their cells    *)
(* plus the set of offsets at which a segment ends.  A missing column and  *)
(* a column without segments are the same entry, NoColumn (every reader    *)
(* treats them alike).                                                     *)
(***************************************************************************)
EXTENDS Integers, Sequences, FiniteSets

CONSTANTS
    Session,        \* connections that run queries
    Col,            \* cacheable columns of the table
    Kinds,          \* the requests sessions make: subset of RequestKind
    Filters,        \* the WHERE shapes queries have: subset of FilterKind
    Threads,        \* scan threads of one query
    ChunkRows,      \* STANDARD_VECTOR_SIZE: rows per chunk of a pin scan
    SegmentRows,    \* kCacheZoneMapSegmentRows
    Keep,           \* the cells that pass the modelled WHERE clause
    InitRows,       \* rows of the table at start
    MaxRows,        \* bound on the rows of the table
    MaxCells,       \* bound on the cells ever written
    MaxPopulation,  \* bound on the populations started
    Updates         \* whether rows are updated in place

RequestKind == {"sum", "group", "pin"}
FilterKind == {"none", "residual", "table"}

ASSUME CacheAssumption ==
    /\ Kinds \subseteq RequestKind
    /\ Filters \subseteq FilterKind
    /\ Threads \in Nat \ {0}
    /\ ChunkRows \in Nat \ {0}
    /\ SegmentRows \in Nat \ {0}
    /\ InitRows \in Nat
    /\ MaxRows \in Nat
    /\ MaxCells \in Nat
    /\ MaxPopulation \in Nat
    /\ Updates \in BOOLEAN

VARIABLES
    table,      \* committed rows of the base table, in storage order
    written,    \* cells written so far; the next cell is written + 1
    store,      \* CacheStore(): column -> cached column
    layout,     \* TableLayouts()[prefix]
    counter,    \* CachePopulationCounter()
    pc,         \* session -> the step it performs next
    query,      \* session -> its planned request
    todo,       \* session -> positions of the table its threads have still to scan
    segs,       \* session -> buffered segments not yet stored
    plan,       \* session -> MlxPopulationPlan of its population
    answer      \* session -> what the request returned

vars == <<table, written, store, layout, counter, pc, query, todo, segs, plan, answer>>
sessionVars == <<pc, query, todo, segs, plan, answer>>
cacheVars == <<store, layout, counter>>
tableVars == <<table, written>>

-----------------------------------------------------------------------------
(* Data *)

Cell == Nat

CachedColumn == [cells : Seq(Cell), ends : SUBSET Nat, rows : Nat,
                 population : Nat, fused : Seq(Cell)]

\* fused = <<>> stands for std::nullopt: a fused column is never empty.
NoColumn == [cells |-> <<>>, ends |-> {}, rows |-> 0, population |-> 0, fused |-> <<>>]

TableLayout == [rows : Nat, population : Nat, sizes : SUBSET Nat]

NoLayout == [rows |-> 0, population |-> 0, sizes |-> {}]

Query == [kind : RequestKind, cols : SUBSET Col, filter : FilterKind,
          cached : BOOLEAN, expected : Nat, snapshot : Seq(Cell)]

NoQuery == [kind |-> "sum", cols |-> {}, filter |-> "none",
            cached |-> FALSE, expected |-> 0, snapshot |-> <<>>]

PopulationPlan == [population : Nat, storeCols : SUBSET Col]

NoPlan == [population |-> 0, storeCols |-> {}]

\* An answer.  "miss" and "mismatch" are exceptions: a cached column is gone, or the
\* columns of the query do not have the same segments.
AnswerStatus == {"none", "rows", "miss", "mismatch"}

\* status, and the rows the aggregate was computed over: each with its position
\* and the cell of every column of the query.
NoAnswer == [status |-> "none", rows |-> {}]

Resident(c) == store[c].cells # <<>>

TypeOK ==
    /\ table \in Seq(Cell)
    /\ written \in Nat
    /\ store \in [Col -> CachedColumn]
    /\ layout \in TableLayout
    /\ counter \in Nat
    /\ pc \in [Session -> {"idle", "exec", "scan", "begin", "store", "fuse", "eval", "done"}]
    /\ query \in [Session -> Query]
    /\ todo \in [Session -> SUBSET Nat]
    /\ segs \in [Session -> Seq(Seq(Cell))]
    /\ plan \in [Session -> PopulationPlan]
    /\ DOMAIN answer = Session
    /\ \A s \in Session :
        answer[s] \in [status : AnswerStatus, rows : SUBSET (Nat \X [query[s].cols -> Cell])]

Init ==
    /\ table = [i \in 1..InitRows |-> i]
    /\ written = InitRows
    /\ store = [c \in Col |-> NoColumn]
    /\ layout = NoLayout
    /\ counter = 0
    /\ pc = [s \in Session |-> "idle"]
    /\ query = [s \in Session |-> NoQuery]
    /\ todo = [s \in Session |-> {}]
    /\ segs = [s \in Session |-> <<>>]
    /\ plan = [s \in Session |-> NoPlan]
    /\ answer = [s \in Session |-> NoAnswer]

-----------------------------------------------------------------------------
(* Reading the cache *)

\* Mutant of MlxCacheHas: the row count is not compared.
HasIgnoresRows(cols, expected) ==
    /\ \A c \in cols : Resident(c)
    /\ \A c, d \in cols : Cardinality(store[c].ends) = Cardinality(store[d].ends)

\* Every key resident with the expected rows, and as many segments each.
MlxCacheHas(cols, expected) ==
    /\ \A c \in cols : Resident(c) /\ store[c].rows = expected
    /\ \A c, d \in cols : Cardinality(store[c].ends) = Cardinality(store[d].ends)

\* The row mask of a filter, evaluated on column fc of the rows read.
Masked(cols, content, n, filter, fc) ==
    {<<p, [c \in cols |-> content[c][p]]>> :
        p \in {i \in 1..n : filter = "none" \/ content[fc][i] \in Keep}}

\* MlxSumExprsCached and the segment path of MlxGroupedAccumulateCached.  A
\* differing number of segments throws; segments of differing lengths do not
\* combine into one MLX expression.
ReadSegments(cols, filter, fc) ==
    IF \E c \in cols : ~Resident(c) THEN [status |-> "miss", rows |-> {}]
    ELSE IF \E c, d \in cols : store[c].ends # store[d].ends THEN [status |-> "mismatch", rows |-> {}]
    ELSE [status |-> "rows",
          rows |-> Masked(cols, [c \in cols |-> store[c].cells], store[fc].rows, filter, fc)]

\* The fused path of MlxGroupedAccumulateCached, which ignores segments.
ReadFused(cols, filter, fc) ==
    IF \E c \in cols : store[c].fused = <<>> THEN ReadSegments(cols, filter, fc)
    ELSE IF \E c, d \in cols : Len(store[c].fused) # Len(store[d].fused)
    THEN [status |-> "mismatch", rows |-> {}]
    ELSE [status |-> "rows",
          rows |-> Masked(cols, [c \in cols |-> store[c].fused], store[fc].rows, filter, fc)]

-----------------------------------------------------------------------------
(* Planning and scanning *)

\* Positions of the rows the statement's WHERE clause selects.
Selected(q) == {i \in DOMAIN q.snapshot : q.filter = "none" \/ q.snapshot[i] \in Keep}

\* The operator an interception puts in the plan: the rows it expects are the
\* storage's row count at planning time.
PlanAs(s, kind, cols, filter, cached) ==
    LET q == [kind |-> kind, cols |-> cols, filter |-> filter, cached |-> cached,
              expected |-> Len(table), snapshot |-> table]
    IN  /\ pc[s] = "idle"
        /\ kind \in {"sum", "group"}
        /\ Len(table) > 0
        /\ counter < MaxPopulation
        /\ query' = [query EXCEPT ![s] = q]
        /\ pc' = [pc EXCEPT ![s] = IF cached THEN "exec" ELSE "scan"]
        /\ todo' = [todo EXCEPT ![s] = IF cached THEN {} ELSE Selected(q)]
        /\ UNCHANGED <<segs, plan, answer, cacheVars, tableVars>>

\* TryInterceptAggregate and TryInterceptGroupBy: the decision to serve from the
\* cache is taken when the query is planned.
Plan(s, kind, cols, filter) == PlanAs(s, kind, cols, filter, MlxCacheHas(cols, Len(table)))

\* MLX_SUM_CACHED evaluates the cached segments; MLX_GROUPBY on a cached plan
\* takes the fused columns when the group count is small, the segments otherwise.
ServeCached(s) ==
    LET q == query[s]
    IN  /\ pc[s] = "exec"
        /\ \E fc \in q.cols :
             answer' = [answer EXCEPT ![s] = ReadSegments(q.cols, q.filter, fc)]
        /\ pc' = [pc EXCEPT ![s] = "done"]
        /\ UNCHANGED <<query, todo, segs, plan, cacheVars, tableVars>>

ServeGroupedFused(s) ==
    LET q == query[s]
    IN  /\ pc[s] = "exec"
        /\ q.kind = "group"
        /\ \E fc \in q.cols :
             answer' = [answer EXCEPT ![s] = ReadFused(q.cols, q.filter, fc)]
        /\ pc' = [pc EXCEPT ![s] = "done"]
        /\ UNCHANGED <<query, todo, segs, plan, cacheVars, tableVars>>

\* Mutant of CombineThread: the thread's rows arrive in any order.
CombineUnordered(s) ==
    /\ pc[s] = "scan"
    /\ \E P \in SUBSET todo[s] : \E n \in 1..Len(query[s].snapshot) : \E f \in [1..n -> P] :
        /\ P = {f[i] : i \in 1..n}
        /\ \A i, j \in 1..n : i # j => f[i] # f[j]
        /\ Len(segs[s]) + 1 = Threads => P = todo[s]
        /\ segs' = [segs EXCEPT ![s] = Append(@, [i \in 1..n |-> query[s].snapshot[f[i]]])]
        /\ todo' = [todo EXCEPT ![s] = @ \ P]
    /\ UNCHANGED <<pc, query, plan, answer, cacheVars, tableVars>>

\* Sink and Combine of one scan thread: the thread's rows, in storage order,
\* become one segment; threads combine in any order.  The last thread ends the
\* scan with whatever is left.
CombineThread(s) ==
    /\ pc[s] = "scan"
    /\ \E P \in SUBSET todo[s] : \E n \in 1..Len(query[s].snapshot) : \E f \in [1..n -> P] :
        /\ P = {f[i] : i \in 1..n}
        /\ \A i, j \in 1..n : i < j => f[i] < f[j]
        /\ Len(segs[s]) + 1 = Threads => P = todo[s]
        /\ segs' = [segs EXCEPT ![s] = Append(@, [i \in 1..n |-> query[s].snapshot[f[i]]])]
        /\ todo' = [todo EXCEPT ![s] = @ \ P]
    /\ UNCHANGED <<pc, query, plan, answer, cacheVars, tableVars>>

\* The aggregate over the session's own buffered segments.
OwnAnswer(s) ==
    LET row(t, i) == <<(t - 1) * Len(query[s].snapshot) + i,
                       [c \in query[s].cols |-> segs[s][t][i]]>>
    IN  [status |-> "rows",
         rows |-> UNION {{row(t, i) : i \in DOMAIN segs[s][t]} : t \in DOMAIN segs[s]}]

\* Finalize.  MLX_GROUPBY always, and MLX_SUM when table filters forbid
\* populating, aggregate the buffered segments; otherwise MLX_SUM waits for the
\* cache.  Without table filters both go on to populate.
Finalize(s) ==
    LET q == query[s]
        skip == q.filter = "table"
    IN  /\ pc[s] = "scan"
        /\ todo[s] = {}
        /\ answer' = [answer EXCEPT ![s] = IF q.kind = "group" \/ skip THEN OwnAnswer(s) ELSE @]
        /\ pc' = [pc EXCEPT ![s] = IF skip THEN "done" ELSE "begin"]
        /\ UNCHANGED <<query, todo, segs, plan, cacheVars, tableVars>>

\* The chunks of a serial scan in storage order.
Chunks(rows) ==
    [k \in 1..((Len(rows) + ChunkRows - 1) \div ChunkRows) |->
        SubSeq(rows, (k - 1) * ChunkRows + 1,
               IF k * ChunkRows < Len(rows) THEN k * ChunkRows ELSE Len(rows))]

\* MlxCachePinTable up to its population: an already resident table is only
\* fused, otherwise every chunk of a serial scan becomes one stored segment.
PinTable(s) ==
    LET resident == MlxCacheHas(Col, Len(table))
    IN  /\ pc[s] = "idle"
        /\ "pin" \in Kinds
        /\ Len(table) > 0
        /\ counter < MaxPopulation
        /\ query' = [query EXCEPT ![s] = [kind |-> "pin", cols |-> Col, filter |-> "none",
                                          cached |-> resident, expected |-> Len(table),
                                          snapshot |-> table]]
        /\ pc' = [pc EXCEPT ![s] = IF resident THEN "fuse" ELSE "begin"]
        /\ segs' = [segs EXCEPT ![s] = IF resident THEN <<>> ELSE Chunks(table)]
        /\ UNCHANGED <<todo, plan, answer, cacheVars, tableVars>>

-----------------------------------------------------------------------------
(* Populating the cache *)

\* Mutant of BeginPopulation: a partial miss stores only the missing columns.
BeginStoresMissingOnly(s) ==
    LET q == query[s]
        mismatch == \E c \in Col : Resident(c) /\ store[c].rows # q.expected
        store1 == IF mismatch THEN [c \in Col |-> NoColumn] ELSE store
        fresh == mismatch \/ layout.rows # q.expected
    IN  /\ pc[s] = "begin"
        /\ counter' = IF fresh THEN counter + 1 ELSE counter
        /\ layout' = IF fresh THEN [rows |-> q.expected, population |-> counter + 1, sizes |-> {}]
                     ELSE layout
        /\ plan' = [plan EXCEPT ![s] = [population |-> layout'.population,
                                        storeCols |-> {c \in q.cols : store1[c].cells = <<>>}]]
        /\ store' = store1
        /\ pc' = [pc EXCEPT ![s] = "store"]
        /\ UNCHANGED <<query, todo, segs, answer, tableVars>>

\* Mutant of BeginPopulation: a new row count keeps the table's population.
BeginKeepsPopulation(s) ==
    LET q == query[s]
        mismatch == \E c \in Col : Resident(c) /\ store[c].rows # q.expected
        id == IF layout.rows = 0 THEN counter + 1 ELSE layout.population
    IN  /\ pc[s] = "begin"
        /\ counter' = IF layout.rows = 0 THEN counter + 1 ELSE counter
        /\ layout' = [rows |-> q.expected, population |-> id, sizes |-> {}]
        /\ plan' = [plan EXCEPT ![s] = [population |-> id, storeCols |-> q.cols]]
        /\ store' = [c \in Col |-> IF mismatch \/ c \in q.cols THEN NoColumn ELSE store[c]]
        /\ pc' = [pc EXCEPT ![s] = "store"]
        /\ UNCHANGED <<query, todo, segs, answer, tableVars>>

\* MlxCacheBeginPopulation.  A cached column with another row count drops the
\* table.  When no column is cached but the layout has another row count, the
\* code drops the table, which frees the layout, and then assigns through the
\* reference it took before: the new row count and population reach freed
\* memory and the table is left without a layout.
BeginPopulation(s) ==
    LET q == query[s]
        mismatch == \E c \in Col : Resident(c) /\ store[c].rows # q.expected
        layout1 == IF mismatch THEN NoLayout ELSE layout
        fresh == layout1.rows # q.expected
        dangling == fresh /\ layout1.rows # 0
        store1 == IF mismatch \/ dangling THEN [c \in Col |-> NoColumn] ELSE store
        allPresent == \A c \in q.cols : store1[c].cells # <<>>
    IN  /\ pc[s] = "begin"
        /\ counter' = IF fresh THEN counter + 1 ELSE counter
        /\ layout' = IF dangling THEN NoLayout
                     ELSE IF fresh THEN [rows |-> q.expected, population |-> counter + 1, sizes |-> layout1.sizes]
                     ELSE layout1
        /\ plan' = [plan EXCEPT ![s] = [population |-> IF fresh THEN counter + 1 ELSE layout1.population,
                                        storeCols |-> IF allPresent THEN {} ELSE q.cols]]
        /\ store' = [c \in Col |-> IF c \in q.cols /\ ~allPresent THEN NoColumn ELSE store1[c]]
        /\ pc' = [pc EXCEPT ![s] = "store"]
        /\ UNCHANGED <<query, todo, segs, answer, tableVars>>

\* CanonicalSegmentSizesUnlocked: the boundaries of any resident column (the
\* first one of an unordered map), else those remembered by the layout.
CanonicalSizes ==
    IF \E c \in Col : Resident(c)
    THEN {store[c].ends : c \in {d \in Col : Resident(d)}}
    ELSE {layout.sizes}

\* The number of segments already stored, taken from the first key that has any.
StoredSegments(cols) ==
    IF \E c \in cols : Resident(c)
    THEN {Cardinality(store[c].ends) : c \in {d \in cols : Resident(d)}}
    ELSE {0}

\* The end of segment k, zero for the start of the table.
EndOf(ends, k) ==
    CHOOSE e \in ends \cup {0} : Cardinality({x \in ends : x <= e}) = k

\* Where MlxCacheStoreSegment cuts a batch of count rows whose first row opens
\* segment k (counted from 0): at the canonical boundaries that follow, and every
\* SegmentRows rows once they are exhausted.
Cuts(canonical, k, count) ==
    LET known == Cardinality(canonical)
        last == EndOf(canonical, known)
        base == IF k < known THEN EndOf(canonical, k) ELSE last
        tail == last - base
    IN  {o \in 1..count : \/ o = count
                          \/ o <= tail /\ base + o \in canonical
                          \/ o > tail /\ (o - tail) % SegmentRows = 0}

\* Mutants of AppendColumnSlices: the row count is assigned instead of added to,
\* and a fused copy survives the append.
AppendResetsRows(col, rows, cuts, population) ==
    [cells |-> col.cells \o rows,
     ends |-> col.ends \cup {col.rows + o : o \in cuts},
     rows |-> Len(rows),
     population |-> population,
     fused |-> <<>>]

AppendKeepsFused(col, rows, cuts, population) ==
    [cells |-> col.cells \o rows,
     ends |-> col.ends \cup {col.rows + o : o \in cuts},
     rows |-> col.rows + Len(rows),
     population |-> population,
     fused |-> col.fused]

\* AppendColumnSlice for all slices of one batch; a fused copy is invalidated.
AppendColumnSlices(col, rows, cuts, population) ==
    [cells |-> col.cells \o rows,
     ends |-> col.ends \cup {col.rows + o : o \in cuts},
     rows |-> col.rows + Len(rows),
     population |-> population,
     fused |-> <<>>]

\* MlxCacheStoreSegment for the next buffered segment.
StoreSegment(s) ==
    /\ pc[s] = "store"
    /\ segs[s] # <<>>
    /\ \E canonical \in CanonicalSizes : \E k \in StoredSegments(plan[s].storeCols) :
        LET rows == Head(segs[s])
            cuts == Cuts(canonical, k, Len(rows))
        IN  /\ store' = [c \in Col |->
                    IF c \in plan[s].storeCols
                    THEN AppendColumnSlices(store[c], rows, cuts, plan[s].population)
                    ELSE store[c]]
            /\ layout' = IF canonical = {} THEN [layout EXCEPT !.sizes = cuts] ELSE layout
    /\ segs' = [segs EXCEPT ![s] = Tail(@)]
    /\ UNCHANGED <<counter, pc, query, todo, plan, answer, tableVars>>

\* The loop over the buffered segments is over.
StoreDone(s) ==
    /\ pc[s] = "store"
    /\ segs[s] = <<>>
    /\ pc' = [pc EXCEPT ![s] = "fuse"]
    /\ UNCHANGED <<query, todo, segs, plan, answer, cacheVars, tableVars>>

FuseCachedColumn(col) == IF col.fused = <<>> THEN [col EXCEPT !.fused = col.cells] ELSE col

\* Mutant of FuseTable: it waits until no session reads the cache.
FuseWaitsForReaders(s) ==
    /\ pc[s] = "fuse"
    /\ \A t \in Session : pc[t] # "exec"
    /\ store' = [c \in Col |-> FuseCachedColumn(store[c])]
    /\ pc' = [pc EXCEPT ![s] = IF query[s].kind = "sum" THEN "eval" ELSE "done"]
    /\ UNCHANGED <<layout, counter, query, todo, segs, plan, answer, tableVars>>

\* MlxCacheFuseTable, the last call of a population.
FuseTable(s) ==
    /\ pc[s] = "fuse"
    /\ store' = [c \in Col |-> FuseCachedColumn(store[c])]
    /\ pc' = [pc EXCEPT ![s] = IF query[s].kind = "sum" THEN "eval" ELSE "done"]
    /\ UNCHANGED <<layout, counter, query, todo, segs, plan, answer, tableVars>>

\* Mutant of EvalPopulated: the programs are bound to every column of the table.
EvalAllColumns(s) ==
    /\ pc[s] = "eval"
    /\ \E fc \in Col : answer' = [answer EXCEPT ![s] = ReadSegments(Col, "none", fc)]
    /\ pc' = [pc EXCEPT ![s] = "done"]
    /\ UNCHANGED <<query, todo, segs, plan, cacheVars, tableVars>>

\* MLX_SUM evaluates its programs from the cache it has just populated, with no
\* filter: the scan has applied it.
EvalPopulated(s) ==
    /\ pc[s] = "eval"
    /\ \E fc \in query[s].cols :
         answer' = [answer EXCEPT ![s] = ReadSegments(query[s].cols, "none", fc)]
    /\ pc' = [pc EXCEPT ![s] = "done"]
    /\ UNCHANGED <<query, todo, segs, plan, cacheVars, tableVars>>

\* The client takes the result (or the error) and is free for another request.
Return(s) ==
    /\ pc[s] = "done"
    /\ pc' = [pc EXCEPT ![s] = "idle"]
    /\ query' = [query EXCEPT ![s] = NoQuery]
    /\ segs' = [segs EXCEPT ![s] = <<>>]
    /\ plan' = [plan EXCEPT ![s] = NoPlan]
    /\ answer' = [answer EXCEPT ![s] = NoAnswer]
    /\ UNCHANGED <<todo, cacheVars, tableVars>>

-----------------------------------------------------------------------------
(* Everything else that touches the cache or the table *)

\* Mutant of ClearAll: the population counter starts over.
ClearResetsCounter(s) ==
    /\ pc[s] = "idle"
    /\ store' = [c \in Col |-> NoColumn]
    /\ layout' = NoLayout
    /\ counter' = 0
    /\ UNCHANGED <<sessionVars, tableVars>>

\* mlx_cache_clear(): MlxCacheClearAll keeps the population counter.
ClearAll(s) ==
    /\ pc[s] = "idle"
    /\ store' = [c \in Col |-> NoColumn]
    /\ layout' = NoLayout
    /\ UNCHANGED <<counter, sessionVars, tableVars>>

\* Committed DML statements of a session (external: the database runs them).
Insert(s) ==
    /\ pc[s] = "idle"
    /\ Len(table) < MaxRows
    /\ written < MaxCells
    /\ table' = Append(table, written + 1)
    /\ written' = written + 1
    /\ UNCHANGED <<cacheVars, sessionVars>>

Update(s) ==
    /\ pc[s] = "idle"
    /\ Updates
    /\ written < MaxCells
    /\ \E i \in DOMAIN table : table' = [table EXCEPT ![i] = written + 1]
    /\ written' = written + 1
    /\ UNCHANGED <<cacheVars, sessionVars>>

Run(s) ==
    \/ ServeCached(s)
    \/ ServeGroupedFused(s)
    \/ CombineThread(s)
    \/ Finalize(s)
    \/ BeginPopulation(s)
    \/ StoreSegment(s)
    \/ StoreDone(s)
    \/ FuseTable(s)
    \/ EvalPopulated(s)

Request(s) ==
    \/ \E kind \in Kinds, cols \in (SUBSET Col) \ {{}}, filter \in Filters : Plan(s, kind, cols, filter)
    \/ PinTable(s)
    \/ ClearAll(s)
    \/ Insert(s)
    \/ Update(s)

Next == \E s \in Session : Run(s) \/ Request(s) \/ Return(s)

Spec == Init /\ [][Next]_vars

\* A query the database runs is not abandoned: its executor keeps scheduling it.
FairSpec == Spec /\ \A s \in Session : WF_vars(Run(s))

-----------------------------------------------------------------------------
(* Properties that hold under every interleaving *)

\* A cached column's bookkeeping describes its content: the row count
\* MlxCacheHas compares is the number of rows stored, the segment boundaries lie
\* inside them and the last one closes the column.  AppendColumnSlice keeps the
\* three in step for however many sessions append to the column.
ColumnWellFormed ==
    \A c \in Col :
        /\ store[c].rows = Len(store[c].cells)
        /\ store[c].ends \subseteq 1..store[c].rows
        /\ Resident(c) => store[c].rows \in store[c].ends

\* A fused copy is never behind the segments it was made from, even when a
\* second session appends to a column that the first has already fused.
FusedCurrent ==
    \A c \in Col : store[c].fused # <<>> => store[c].fused = store[c].cells

\* The session holds the population it got from MlxCacheBeginPopulation.
Populating(s) == pc[s] \in {"store", "fuse", "eval"} /\ plan[s].population # 0

\* A population id stands for one row count of the table: two sessions that
\* populate under the same id, and the layout that carries it, agree on the
\* expected rows.
PopulationNamesOneRowCount ==
    /\ \A s, t \in Session :
        Populating(s) /\ Populating(t) /\ plan[s].population = plan[t].population
            => query[s].expected = query[t].expected
    /\ \A s \in Session :
        Populating(s) /\ layout.rows # 0 /\ layout.population = plan[s].population
            => layout.rows = query[s].expected

\* Population ids are never issued twice: once the table has moved on to
\* another population (a drop, a clear), no later step of any session makes the
\* id of a population still in flight current again.
PopulationIsNotReissued ==
    [][\A s \in Session :
        Populating(s) /\ plan'[s] = plan[s] /\ layout.population # plan[s].population
            => layout'.population # plan[s].population]_vars

\* Every request ends, with a result or an error, whatever the other sessions
\* do: no call waits for another session.
RequestsEnd == \A s \in Session : (pc[s] # "idle") ~> (pc[s] = "done")

-----------------------------------------------------------------------------
(* What the cache promises the database *)

\* The answer is the one the CPU engine gives for the statement's snapshot: at
\* every position read all columns show the same row, and every selected row is
\* read exactly once.
Correct(s) ==
    LET rows == answer[s].rows
        cellsOf(r) == {r[2][c] : c \in query[s].cols}
    IN  /\ answer[s].status = "rows"
        /\ \A r \in rows : Cardinality(cellsOf(r)) = 1
        /\ \A r, t \in rows : r # t => cellsOf(r) # cellsOf(t)
        /\ UNION {cellsOf(r) : r \in rows} = {query[s].snapshot[i] : i \in Selected(query[s])}

\* Every query returns what DuckDB's own engine would ("correctness always wins
\* over speed").
AnswersCorrect ==
    \A s \in Session : pc[s] = "done" /\ query[s].kind # "pin" => Correct(s)

\* No query aggregates a row of the table more than once.
RowsReadOnce ==
    \A s \in Session : pc[s] = "done" /\ query[s].kind # "pin" =>
        \A r, t \in answer[s].rows : r # t =>
            \A c \in query[s].cols : r[2][c] # t[2][c]

\* MlxCacheHas is true only of columns that are row-aligned.
HasMeansAligned ==
    \A cols \in SUBSET Col : MlxCacheHas(cols, Len(table)) =>
        \A c, d \in cols : store[c].cells = store[d].cells

\* After an unfiltered cold query, or a pin, its columns are served from the
\* cache while the table keeps its rows.
PopulationMakesResident ==
    \A s \in Session :
        pc[s] = "done" /\ query[s].filter = "none" /\ query[s].snapshot = table
            => MlxCacheHas(query[s].cols, query[s].expected)

=============================================================================
