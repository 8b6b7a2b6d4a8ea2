# A TLA+ model of duckdb-mlx

duckdb-mlx is a DuckDB extension that runs aggregations on an Apple GPU through
MLX. An optimizer hook replaces an aggregate over a table scan by an operator
(MLX_SUM, MLX_GROUPBY) that buffers the scanned columns, evaluates the
aggregates on the GPU and leaves the columns in a process-wide GPU cache; later
queries on the same columns become pure sources (MLX_SUM_CACHED) that do not
scan at all. The hard part of the program is that cache: it is shared by all
connections, filled by parallel scans in several locked calls, validated by
nothing but a row count, and read by plans that were made earlier.

This directory holds the modules that model it, the TLC configurations, and the
TLAPS proofs.

## Inventory

| Component | State | Operations | Interacts with | Hard behaviour | Correct when |
|---|---|---|---|---|---|
| Plan interception (`planner/mlx_transparent.cpp`) | none | TryInterceptAggregate, TryInterceptGroupBy | asks MlxCacheHas | the answer is used later, at execution | a cached plan returns what a scan would |
| MLX_SUM / MLX_GROUPBY operators (`planner/mlx_transparent.cpp`) | buffered segments per thread, results | Sink, Combine, Finalize, GetData | populates and reads the cache | parallel sinks, several locked calls in Finalize, errors in the middle | every selected row is aggregated once |
| Column cache (`bridge/mlx_bridge.cpp`) | CacheStore, TableLayouts, population counter | Has, BeginPopulation, StoreSegment, FuseTable, SumExprsCached, ClearAll | all of the above, dense table | interleaved populations, stale rows, segment boundaries | columns served together are row-aligned and current |
| mlx_cache_pin (`planner/mlx_transparent.cpp`) | scan buffers | MlxCachePinTable | cache | long population while queries run | the table is resident afterwards |
| Dense GROUP BY table (`bridge/mlx_groupby.cpp`) | per (group, value) table of sums, population, ready | Accumulate, TryRead, ClearTable | filled beside the cache under its own mutex | two locks per read, accumulation per query | it holds the rows of the cached columns |
| Hash GROUP BY (`bridge/mlx_groupby.cpp`) | key, sum and count slots on the GPU | HashBuildKernel, GroupbySumHash | none | racing GPU threads | the groups are the reference GROUP BY |
| Wide-key GROUP BY, path selection (`bridge/mlx_groupby.cpp`, `mlx_groupby_paths.cpp`, `_radix.cpp`, `_slotlock.cpp`) | override string shared by all sessions, GPU buffers | PickGpuPath and its five paths, SET mlx_groupby_path | settings, MLX_GROUPBY, mlx_groupby_bench | a SET in the middle of the choice, checks that accept a wrong result | groups are unique and complete |
| Expression translation and evaluation (`planner/mlx_transparent.cpp`, `bridge/mlx_bridge.cpp`) | postfix programs, masks | MlxExprTranslator, TranslateTableFilter, EvalOps, BuildSumGraphs, MergeSegmentOutputs | plans, cached segments | two number lanes, NULLs, connectives | the answer is SQL's |
| Zone maps and pruning (`bridge/mlx_bridge.cpp`) | min, max and NULL flags per segment | ComputeZoneMapT, SegmentShouldPrune, EvalSegments | cached reads | boundary comparisons, NULLs | pruning never loses a row |
| Grouped accumulation (`bridge/mlx_bridge.cpp`) | GPU accumulators by handle | MlxGroupedInit, GroupedGpuScatter, flush, download, emission | MLX_GROUPBY | 32-bit partials, chunking, batches | equals row-by-row accumulation |
| Reduction kernels (`bridge/mlx_grouped_kernel.cpp`) | shared and device buffers | tile, packed, Q1 and streaming kernels | grouped accumulation | barriers, tile and grid boundaries | every row is added once |
| String dictionaries | strings per column and population | MlxDictInstall, MlxDictStrings | cached VARCHAR keys | installed after the columns, by every cold query | codes decode to the strings they encode |
| Derived columns, Q1 bundle | manifest, fused products | MaterializeDerived, TryLineitemQ1FastPath | pin, cache, drops | copies that outlive their base columns | equal to the expression on current columns |
| Vector search | named matrices | MlxVssPin, MlxVssSearch | none | none beyond one lock per call | not modelled |
| Extension entry points, settings, logger, benchmarks | settings | registration, formatting | everything | none | not modelled: pure I/O, except SET mlx_groupby_path |

The hazards of this code, each with its line and the properties that would catch
it, are listed in `PROJECT.json`.

## Modules

| Module | What it models |
|---|---|
| `MlxColumnCache` | the cache of one table; the sessions that plan, scan, populate, read, pin and clear; the table itself |
| `MlxGroupbyDense` | extends it with the dense GROUP BY table |
| `MlxPinned` | extends both with dictionaries, derived columns and the Q1 bundle: the composition of everything kept per table |
| `MlxFilter` | MLX_SUM: translation, evaluation, NULL masks, zone maps and pruning |
| `MlxGrouped` | MLX_GROUPBY: the accumulators, their chunks and batches, emission |
| `GroupedAggregation` | the abstract specification `MlxGrouped` implements |
| `MlxTileReduce` | the reduction kernels, thread by thread |
| `MlxWideGroupby` | GROUP BY over wide keys and the choice of its algorithm |
| `MlxHashGroupby` | the hash build kernel and its collection |
| `MlxColumnCacheProofs`, `MlxPinnedProofs`, `MlxHashGroupbyProofs`, `MlxTileReduceProofs`, `MlxFilterProofs`, `MlxWideGroupbyProofs`, `GroupedAggregationProofs` | the theorems |
| `MlxProofBasics` | lemmas the proofs share: induction over sets of numbers, recursion, remainders, sums over finite sets |
| `MCColumnCache`, `MCPinned`, `MCFilter`, `MCGrouped`, `MCTileReduce`, `MCWideGroupby`, `MCHashGroupby` | the modules TLC runs |

The first three say *which rows* reach an answer, under interleaving and over
long sequences of requests, and carry no values. `MlxFilter`, `MlxGrouped`,
`MlxTileReduce` and `MlxWideGroupby` say *what is computed* from the rows, and
keep the widths of numbers where they matter.

### MlxColumnCache

One action is one critical section of `CacheMutex` or one step between them, so
the calls of a population interleave with those of other sessions exactly as the
code allows. A session goes through `pc`: a query is planned (`Plan`: the choice
between cache and scan, the expected row count and the snapshot it will see),
then either served (`ServeCached`, `ServeGroupedFused`) or scanned
(`CombineThread` once for each thread), finalized (`Finalize`) and, unless
table filters forbid it, populates: `BeginPopulation`, one `StoreSegment` for
each buffered segment, `StoreDone`, `FuseTable`, and for MLX_SUM `EvalPopulated`.
`PinTable` starts the same population with one segment per chunk. `ClearAll`,
`Insert` and `Update` are what else can happen; the last two are external.

The value of a row is the row's identity (a *cell*). That keeps exactly what the
properties need: whether the columns read at one position belong to one row,
and which rows an aggregate covers. A cached column is its cells, the set of
offsets at which a segment ends, its row count, its population and its fused
copy. An answer is the set of rows aggregated, or the exception the code throws:
`"miss"` (a column is gone) or `"mismatch"` (segments do not combine).

A scan's rows come out in storage order within a thread; which rows a thread
gets and the order in which threads combine are free. Query plans run on the
snapshot of their planning. Which WHERE shape a query has matters: `"table"`
filters are pushed into the scan and forbid populating, a `"residual"` filter
is applied by the plan below the operator and does not.

In `BeginPopulation` the case in which no column is cached but the layout has
another row count is undefined behaviour in the code (an assignment through a
reference to an erased map element). The model takes the outcome in which the
freed memory still holds what was just written: the session gets the new
population, the table is left without a layout.

Left out here and modelled elsewhere: values, validity masks and zone maps
(`MlxFilter`, `MlxGrouped`), dictionaries and derived columns (`MlxPinned`). A
one-row segment that MLX would broadcast against a longer one counts as a
mismatch.

### MlxGroupbyDense and MlxPinned

The dense table has its own mutex: storing a segment and accumulating it are two
actions, and so are reading the group column's population and reading the table.
The cells of the table are the rows added to it. Whether a grouping sums a plain
column or an expression is part of the query (`summand`), because only one of
the two places that look at it makes the difference: the table is filled for a
plain SUM, but read for any SUM whose program begins with the column.

`MlxPinned` adds the rest of what the process keeps per table. A VARCHAR column
is cached as codes (`coded`); every cold query and every pin numbers the strings
in the order its threads meet them (`Encodings` is the set of those orders) and
installs its dictionary after the fuse (`DictInstall`). A cached grouping first
takes the dictionary (`ReadDict`), then reads the codes, then decodes. A pin
goes on, after its fuse, through `MaterializeDiscPrice`, `MaterializeCharge` and
`MaterializeQ1`, one critical section each; `ServeQ1` answers from the bundle.
Q1's two keys are one column, and the number of its sums, the last test of the
fast path, is left open. The module is for one session: reads that take two
locks are one action.

### MlxFilter

Rows are appended with their zone maps (`AppendRow`), then one query is planned:
`Translate` and `TranslateTableFilter` turn the WHERE clause and the aggregates
into postfix programs or decline. A cached query goes through `PruneSegment` or
`EvalSegment` per segment and `MergeOutputs`; a cold one through `HostSegment`
per buffered segment and `FinalizeHost`. The filters of a cold query stay with
DuckDB, which compares the columns' own values (`SqlSelects`) and passes on the
rows before they are stored in their lanes; the same query from the cache
compares stored values with stored constants. `Selects` is both, with the
rounding of the lanes as its parameter. A program that lacks an operand ends in
the state `"undefined"` (`EvalUnderflow`): the code then takes the back of an
empty vector. DECIMAL is the exact lane; every other
type is stored as a float that rounds above `FpExact` (2^24 in the code, 2 in
the run, so that the rounding happens; `Top`, 32 in the run, bounds the numbers
of rows and constants). Division is translated but never evaluated: quotients of
floats are left out of the numbers. A mask is inherited by all segments cut
from one scan segment that holds a NULL.

### MlxGrouped and GroupedAggregation

`MlxGroupedInit` chooses between three accumulators by the number of groups.
*Dense* reduces a segment, a batch of segments or the fused columns in one step,
through the tile kernel where the programs are eligible; *scatter* adds chunk by
chunk (`ScatterChunk`) into 32-bit partials and flushes them (`FlushPartials`);
*cpu* splits a segment over threads. `Finish` downloads the accumulator,
`EmitVector` emits groups.

`GroupedAggregation` is what all of that promises: rows are added, each once, to
exact totals, and groups are emitted with the aggregates of all their rows. The
refinement mapping takes the rows behind the read position as added and host
state plus device partials as the totals. `asked` is a history variable with the
query's exact values per row and changes no behaviour. A mask shorter than its
column, which the code can produce, is undefined behaviour and ends in the state
`"undefined"`; the properties say nothing about it.

### MlxTileReduce

The threads of a threadgroup interleave; threadgroups run one after the other
because they share nothing. An accumulator counts how often it added each row.
One step of a thread is its work between two barriers, which is sound because
`RaceFree` holds. The five kernels differ in the rows a thread scans (one tile,
or a grid stride) and in what they accumulate.

### MlxWideGroupby

A grouping is asked for (`AskGroupBy`, `AskBench`), its input is gathered
(`ColdInput`, `CachedInput`, `BenchInput`), `ReadPath` takes the pointer to the
override, and each comparison of `PickGpuPath` is an action, so that `SetPath`
and `SetDone` of another session fall between any two. A string that is being
written equals none of the names. The radix and slotlock paths start
with `n > static_cast<int>(UINT32_MAX)`, which is `n > -1`: the model evaluates
that conversion for integers below `IntHalf` (2^31) and so finds, like the code,
that they never return a group. `RadixPasses` and `HostSegmentReduce`, which come
after it, are in the model as they stand.

The reference is SQL over the table's own keys (`Selected`, `SqlSum`). The columns
keep a key as fp32 (`StoredKey`), so `GroupsExact` asks for SQL's group only of keys
that fp32 keeps and no other key rounds to (`KeyKept`). Of the others it says what
the code does: they come out rounded, and merged with the keys that round alike. It
also names the groups a cached query adds: the sentinel key of filtered rows, and
keys all of whose values are NULL, with the sum 0 where SQL has NULL (a cold query
has no such group at all).

### MlxHashGroupby

One thread per row; each compare-and-swap, each addition and the host's walk is
an action. The hash function is any function: `Init` chooses it together with
the keys, so the runs and the theorems hold for all of them.

## Runs

| Run | Bounds | What it shows |
|---|---|---|
| `cache_serial` | 1 session, 3 columns, 1 thread, 3 to 5 rows, 3 populations, all request kinds and filters | any sequence of requests gives the CPU engine's answers (`AnswersCorrect`), aligned columns (`HasMeansAligned`), and population makes resident (`PopulationMakesResident`) |
| `cache_concurrent` | 2 sessions, 2 columns, 2 to 3 rows, 2 populations, sums and pins, inserts and updates, fairness | bookkeeping, fused copies and population ids survive every interleaving; every request ends (`RequestsEnd`) |
| `pinned_serial` | 1 session, 4 columns in three nested column sets, 2 threads, 3 to 4 rows, 3 populations, all request kinds | dense table, dictionary, derived columns and bundle agree with the cached columns (`DenseMatchesColumns`, `KeysDecoded`, `PinnedCurrent`), grouped answers are exact (`GroupedRowsExact`) |
| `hash_build` | 3 rows, 3 keys, 3 slots, all hash functions, fairness | the groups are exact even in a full table; the build ends |
| `filter` | 2 columns, 6 kinds of row, 2 segments of 3 rows, 16 WHERE clauses, 5 lists of aggregates | accepted programs are well formed, but for an IS NOT NULL below AND or OR (`AcceptedProgramsBalanced`); a pruned segment holds no row the mask selects, but on the rounding of a constant (`PrunedSegmentsEmpty`); a scan aggregates exactly SQL's rows, a cached query those of them without NULLs in the filter's columns, give or take rows on which fp32 rounding changes the verdict (`AnswersExact`) |
| `grouped` | 3 rows in 1 to 3 segments, 3 key shapes, 4 lists of programs, 7 as the largest 32-bit number, fairness | groups are exact, the execution ends, `GroupedAggregation` is implemented |
| `tile_reduce` | 5 kernels, 4 threads, tiles of 4 rows, 1 to 11 rows, fairness | no race, every row added once, every launch ends |
| `wide_groupby` | 4 keys, of which two are stored alike; tables of up to 2 rows, and of 3 rows in which a key comes back after another; 3 filters, 2 queries, a SET at any point, fairness | SQL's groups for the keys that fp32 keeps, rounded and merged ones for the others, whichever algorithm is chosen; every query ends |
| `cache_parallel_scan` (violation) | 1 session, 2 threads | `HasMeansAligned` fails |
| `cache_two_cold_queries` (violation) | 2 sessions, 1 column | `RowsReadOnce` fails |
| `filter_or_null` (violation) | one WHERE clause with OR | `NullSemanticsHonored` fails |
| `pinned_dictionary` (violation) | 1 session, 2 threads, groupings over the key alone as well | `KeysDecoded` fails |

The violation runs each state what a comment, a document or a test says and are
quoted under `findings`. The passing runs give the scope in which the promise does
hold: one connection with one scan thread for the answers of the cache; columns
that are populated together for the dictionary and the bundle; filters over
columns without NULLs and values that fp32 keeps for SQL's answers from the cache;
any interleaving for the bookkeeping.

TLC showed further disagreements while the modules were written. They are listed
with their lines under `hazards`, and no run is kept for them because few
statements reproduce them: a residual filter that selects nothing ends in a
cache miss; `BeginPopulation` writes through a dangling reference; an UPDATE
leaves the stale cache in use; a repopulation with one more column fills the
dense table twice; a segment with a NULL is missing from it; it answers SUM of
an expression with SUM of the column; masks of mixed segments are too short;
pruning compares in doubles what the mask compares in floats; a cached count
differs from a cold one where rounding a value or a constant to fp32 changes the
verdict of the WHERE clause, although README.md:70 calls counts exact; an IS NOT
NULL below AND or OR of a table filter leaves the evaluator without an operand; a
wide BIGINT key above 2^24 is returned rounded, and merged with the keys that
round alike; a key whose values are all NULL is missing from a cold wide grouping
and has the sum 0 in a cached one, where SQL has NULL; a filtered cached
wide grouping has a group INT64_MIN; grouped MIN and MAX are returned as NULL unless
there are too many groups for the scatter, and COUNT of a column beside a SUM is
left at zero by the tile kernel; the capped grid of the dedicated Q1 kernel
leaves rows beyond 33.5 million unread; a derived column has no segments for a
grouping with more than 512 groups.

Why the bounds are enough. Three columns give a partial miss (some columns of a
query cached, some not) together with a column outside the query. Five rows
from three allow two changes of the row count; three populations allow a drop, a
rebuild and another. `SegmentRows = 2` makes one stored batch span several
segments, `ChunkRows = 1` makes a pin's boundaries differ from a scan's. Two
sessions reach every pair of critical sections. `MaxPopulation` stops *planning*,
not populating: a request in flight always completes, so the bound hides no late
step. `MaxDense` does the same for the dense table. Three rows in three slots
fill the hash table completely. In `pinned_serial` two threads give a dictionary
two orders, the inserted row brings a new string, and its NULL makes the dense
table reject a segment. In `filter` every comparison meets segments that lie
below, on and above its constant, with and without NULLs. In `grouped` the
limits of 32-bit sums and of exact floats lie inside the values' sums, so a chunk
one row too long overflows; group counts of 2, 4 and 6 lie on both sides of both
thresholds. In `tile_reduce` the row counts lie on both sides of every multiple
of the tile, and with two threadgroups the grid is capped; four threads give a
tree of two levels. In `wide_groupby` one key rounds to another number in fp32,
which is also a key, two are a dense window and one is far from it; the filter
on the key passes the rounded key and not the one it comes from.

Fairness. `FairSpec` of the cache assumes weak fairness of a session's own
steps: DuckDB's executor keeps scheduling a running query, and no modelled step
waits for another session (each lock is held for one action). Nothing is assumed
about new requests. `FairSpec` of the hash build assumes that the GPU runs every
thread of the grid to its end, that the host collects, and that a weak
compare-and-swap does not fail spuriously for ever. `Spec` of `MlxGrouped` and of
`MlxTileReduce` assumes that the execution takes some step while one is enabled:
each is a single execution, and threads of one threadgroup that wait at a barrier
have no step. `Spec` of `MlxWideGroupby` assumes that a running query continues
and that a SET which has begun writing the string ends.

## Proofs

All theorems hold for every value of the constants that satisfies the named
assumptions, which TLC evaluates on every run:

- `CacheAssumption`, `DenseAssumption`, `PinnedAssumption`, `HashAssumption`: the types of the constants, and a hash
  table with at least one slot per row (the code sizes it so);
- `TileAssumption`: positive sizes, and a threadgroup of 2^k threads with k from 1
  to 8 (the code has 256; the prover knows no laws of powers, so the eight values
  are taken one by one);
- `FilterAssumption`: well-formed expressions and table filters, as DuckDB's binder
  gives them (an IS NOT NULL may stand anywhere in a table filter), and numbers
  between `-Top` and `Top`, within the binades that `Float` is written for;
- `WideAssumption`: rows of integers or NULL, filters over the key or the value,
  and keys within the binades of `Float`.

`MlxColumnCacheProofs`. The inductive invariant is `CacheInv`: the types,
`ColumnWellFormed`, `FusedCurrent`, and `SessionsInStep`, which ties what a
session holds to where it is. The types alone are not inductive: an answer is
typed by the columns of the query, and that a read stays inside its columns
needs that columns with equal boundaries, or fused copies of equal length, have
the same number of rows, which is `ColumnWellFormed` and `FusedCurrent`. From it
follow `TypeCorrect`, `ColumnsWellFormed` and `FusedCopiesCurrent`. On top of it
`PopulationInv` bounds every id in use by the counter, and gives
`PopulationsNameOneRowCount` and the action property `PopulationsAreNotReissued`.

Serial use, in the same module. What the cache promises its readers holds in serial use
only, so these theorems have the hypothesis `Serial`: one session, one scan thread,
no UPDATE. Each part is needed: `cache_parallel_scan` and
`cache_two_cold_queries` are the counterexamples without the first two, and an
UPDATE leaves the row count that stands for the table's version as it was. The
invariant `SerialInv` says that every column is an increasing list of rows of the
table, and that resident columns of one length have the same segments. An
increasing list that is as long as the table is the table; hence columns that
`MlxCacheHas` accepts by their counts are aligned (`AlignedWhenServed`), cached
and cold queries agree with a scan (`AnswersAreCorrect`), and a population makes
its columns resident (`PopulationsStayCached`). `AnswersAreCorrect` also needs
`SomeRowKept`: a cold sum whose filter selects nothing stores no segment and then
misses its own columns (the hazard at `mlx_bridge.cpp:1466`).

`MlxPinnedProofs`. The composition of everything kept per table, in serial use. Two
invariants are stacked on that of the column cache, which holds again because every
step of `MlxPinned` is one of its steps, or one that leaves it alone (`CacheOK` is
`SerialInv` without its clause on the answers of finished requests, to which bound
groupings add errors of their own).
`PinnedInv` adds that the codes of the cached VARCHAR column decode, under the
dictionary of its population, to the strings of its rows, or will when the session
that is populating installs its own; and that what a pin derived equals the cached
columns wherever those are whole. It gives `KeysAreDecoded` and `PinsStayCurrent`
for any column sets. The first depends on one scan thread: with two, columns can be
resident and unequal in their segments, and a cold query then stores nothing but
replaces the dictionary (`pinned_dictionary`). `DenseInv` ties the dense table to the
layout: as long as the layout carries the table's population, g and v are cached
under it or being stored (`Anchored`); a table under the population of a complete
group column *is* the database's table (`DenseExact`); and a session never adds rows to
a table that has them (`Filling`). With it reading the dense table, and reading the
bundle, is a step `ServeCached` or `ServeGroupedFused` of the column cache
(`DenseServes`, `Q1Serves`), so the answers are exact by the theorem about that one.
`DenseTableIsColumns` and `GroupedAnswersExact` need, besides `Serial` and
`SomeRowKept`, the hypothesis `OneDenseShape`: no grouping over g and v reads
a further column in its WHERE clause. It is a restriction of the theorem and not of the
code: such a grouping shares the table of the plain one, and TLC finds
`DenseMatchesColumns` violated when column sets like {g, v} and {g, v, w} are
queried alternately, because each of them misses, populates under the same id and
adds its rows again (the hazard at `mlx_transparent.cpp:957`). The column
sets of `pinned_serial` satisfy it; that run goes beyond the theorems with two
scan threads.

`MlxHashGroupbyProofs`. `ClaimInv` says that every thread has passed only slots
of other keys, that every key in the table is where its probe sequence first
found room, that every key in the table is some row's key, and that no thread
has left the table. One slot per key follows, because a key's second slot would
lie behind its first. That a thread always has a slot left is the pigeonhole
principle: were all slots taken by other keys, these would be distinct keys
of distinct other rows, of which there are fewer than slots. `SumInv` adds that
settled threads are at a slot of their own key and that sums and counts are those
of the threads that have added, from which `RowsAreNotDropped` and
`GroupsAreExact` follow.

`MlxTileReduceProofs`. `TileInv` says where the rows of a threadgroup are. A row
is held by one thread at most; after t halvings of the tree the rows of thread m
are with thread m modulo the current offset. Threads are at most one barrier
apart, and a thread that a halving leaves out keeps its value, so a read gives
the same on either side of that barrier. `RaceFreedom` follows from the phases
alone; `Exactness` adds that the grid, where it covers the column, gives each row
to one threadgroup, and that the second launch adds each partial once.

`MlxFilterProofs`. `FilterInv` says of the segments that a zone map bounds every
stored value, tells whether there is a NULL, and that stored floats are numbers fp32
keeps; and of the query that each of its programs loads columns of the query and
leaves one value on the stack. `ProgramsBalanced` follows; the translators recurse
over expressions, and what they append is shown by induction over the size of the
expression. A table filter with an IS NOT NULL below a connective translates to a
program with an operand too few, which the theorem names as its one exception
(`NotNullApart`). `PruningLosesNothing` compares each of the six comparisons with the
bounds. The mask compares the stored values with the constant's rounding and
pruning compares the bounds with the constant itself; rounding is monotonic
(`FloatMonotonic`) and changes no number that it has produced (`FloatKept`), so no
stored value lies strictly between a constant and its rounding (`FloatNext`), and only a
row that is stored at the rounding itself can be on different sides of the two
(`OnRoundedConstant`). The proof brought out that only filters of one comparison ever
prune (`OnePredicate`): `BuildSegmentPrunePreds` looks for a connective between two
comparisons, while the programs are postfix and have it behind them, so a filter
with AND gives up pruning. That costs time and no rows.

`MlxWideGroupbyProofs`. `WideInv` says that the input of a query that is choosing
its algorithm *covers* what is asked: each selected row is there once, under its
stored key and with its value, and anything else adds nothing, being a NULL or a
masked row of cached columns. Sorting such an input gives one group per stored key
with the sum of the rows stored under it (`CoversGroups`), which is SQL's group where
the key is kept (`KeptKeys`). The dense scatter gives what sorting does or nothing,
and the radix and slotlock paths give nothing, because of their row limit; so a SET
between any two comparisons changes the path and not the groups (`WideGroupsExact`).
The theorem says nothing of an answer that comes empty from a forced path
(`ForcedEmpty`), nor of a cached filter that reads other columns than its own or that
rounding the keys takes another key in or out of (`FilterSound`), and claims SQL's sums for
kept keys only (`KeyKept`); without any of the three TLC finds `GroupsExact` violated.
The hypothesis `NoSentinelKey` excludes tables in which the smallest int64 is a
key: the code marks filtered rows with it, and `GroupbySumDenseHost` skips it.

`GroupedAggregationProofs`. `AggregationExact`: the abstract specification emits
every group with the aggregates of all its rows, however the rows are divided into
portions. `MlxGrouped` is checked by TLC to implement it.

The library's induction theorems take an operator as a parameter, which the
provers cannot instantiate. `MlxProofBasics` states induction for sets of numbers
instead (`SetInduction`, `LeastElement`), and `Recursion` and `SumOf` with it; that
is enough for sizes, lengths, phases and sums.

Only model-checked: the liveness properties (`RequestsEnd`, `TableIsCollected`,
`ExecutionEnds`, `KernelEnds`, `QueriesEnd`), which are outside the prover's
reach; `AnswersExact` of `MlxFilter`, whose answers are folds over the rows of each
segment; and `GroupsExact` of `MlxGrouped` with its refinement
`ImplementsAggregation`, for the same reason. The properties of `MlxPinned` with two
scan threads are model-checked only.

## Not modelled

- The histogram, scan and scatter kernels of the radix path and the partition and
  slot kernels of the slotlock path: as compiled, the row limit in front of them
  rejects every input, so they are never launched.
- Concurrent sessions that use dictionaries, derived columns or the bundle:
  their reads take several locks, and the column cache below them already fails
  with two sessions (`cache_two_cold_queries`).
- Queries that resemble Q1 closely enough to pass the tests of the fast path, and
  the arithmetic of the packed lanes.
- The window of the dense table's keys and its growth; the registry of GPU
  accumulators by handle.
- The row thresholds of the cost model: a declined query changes no state.
- Vector search (one call under one lock, MLX's matrix product and sort), the
  logger, registration and benchmarks: no state that several steps share.
- MLX itself (arrays, compile, eval), Metal's memory model beyond barriers and
  relaxed atomics, DuckDB's scans and transactions: external.

## Plan

1. Done: the column cache, its sessions, the dense table, the hash build, and the
   theorems above.
2. Done: expressions, NULL masks, zone maps and pruning; grouped accumulation and
   its abstract specification; the reduction kernels; wide keys and path
   selection; dictionaries, derived columns and the Q1 bundle.
3. Done: the theorems about the cache in serial use, the reduction kernels,
   programs and pruning, wide keys, and the abstract aggregation.
4. Done: the properties of `MlxGroupbyDense` and `MlxPinned` in serial use.
5. Theorems next: the init and step conditions of the refinement in `MlxGrouped`,
   with its `GroupsExact`; `AnswersExact` of `MlxFilter`.
6. Two sessions over dictionaries and the bundle, with the locks of a read apart.
