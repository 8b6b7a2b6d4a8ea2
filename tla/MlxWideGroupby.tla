--------------------------- MODULE MlxWideGroupby ---------------------------
(***************************************************************************)
(* GROUP BY over one integer key whose values span more than 65536         *)
(* (hash_groupby), and the choice of the algorithm that computes it.       *)
(*                                                                         *)
(* A query buffers its keys and values, cold from the scan or from the     *)
(* resident columns, and hands them to PickGpuPath; mlx_groupby_bench goes *)
(* there too, with its own lists.  PickGpuPath compares the setting        *)
(* mlx_groupby_path with one algorithm after another.  The setting is one  *)
(* string for all sessions: its mutex covers taking the pointer, not the   *)
(* comparisons, so a SET of another session shows in the middle of the     *)
(* choice, also half written.                                              *)
(*                                                                         *)
(* Abstraction.  Values are small integers, so only keys show the rounding *)
(* of the fp32 lane.  int64 has 8 digits of base RadixBase, like the       *)
(* code's 8 bytes, and a row count is an int below IntHalf.                *)
(***************************************************************************)
EXTENDS Integers, Sequences, FiniteSets, FiniteSetsExt

CONSTANTS
    Tables,                \* the tables looked at: rows with a key and a value
    NULL,
    MaxDistinct,           \* bound: the statistics' distinct count of the key
    Filters,               \* WHERE clauses, NoFilter included
    NoFilter,
    Paths,                 \* what sessions SET mlx_groupby_path to; "" is auto
    Env,                   \* MLX_GROUPBY_PATH; "" when it is not set
    MaxSets, MaxQueries,   \* bounds
    FpExact,               \* fp32 keeps every integer up to here (2^24)
    RadixBase,             \* 256
    IntHalf,               \* 2^31: an int is below it
    DenseMaxSpan,          \* kDenseMaxSpan
    MinGroups, SafeCap,    \* kMinGroups, kSafeCap
    MinRows                \* kMinRows of the radix path

\* The last bound is this model's: Float has the first eight binades above FpExact.
ASSUME WideAssumption ==
    /\ NULL \notin Int
    /\ {FpExact, RadixBase, IntHalf} \subseteq Nat \ {0}
    /\ NoFilter \in Filters /\ \A f \in Filters \ {NoFilter} : f.col \in {"key", "val"}
    /\ \A t \in Tables : t \in Seq([key : Int, val : Int \cup {NULL}])
    /\ \A t \in Tables : \A i \in DOMAIN t : t[i].key \in -256 * FpExact .. 256 * FpExact

VARIABLES
    table,     \* rows, with a key and a value
    keyFirst,  \* the key is the first of the two columns of the scan
    distinct,  \* the key's distinct count in the statistics
    resident,  \* both columns are in the GPU cache
    override,  \* g_path_override; "torn" while it is written
    setting,   \* what a SET under way writes; NULL without one
    sets,      \* what the SETs so far wrote
    query,     \* what is asked: source, hash and filter
    asked,     \* number of queries so far
    pc,        \* what the query does next
    path,      \* what path_env points to: the override, the environment or nothing
    input,     \* key_arr and val_arr
    estimate,  \* estimated_groups
    answer     \* the rows returned

vars == <<table, keyFirst, distinct, resident, override, setting, sets, query, asked, pc, path,
          input, estimate, answer>>

-----------------------------------------------------------------------------
(* Machine numbers *)

Int64Range == LET two == RadixBase * RadixBase
                  four == two * two
              IN  four * four
Int64Min == -(Int64Range \div 2)
Int64(x) == ((x - Int64Min) % Int64Range) + Int64Min

\* The largest uint32_t, and what static_cast<int> makes of it.
UintMax == 2 * IntHalf - 1
UintMaxAsInt == IF UintMax >= IntHalf THEN UintMax - 2 * IntHalf ELSE UintMax

\* fp32: integers above FpExact keep their leading bits, halves go to even.
Float(x) ==
    LET magnitude == IF x < 0 THEN -x ELSE x
        ulp == Min({u \in {1, 2, 4, 8, 16, 32, 64, 128, 256} : magnitude <= FpExact * u})
        low == x \div ulp
        rest == x % ulp
    IN  IF 2 * rest < ulp \/ (2 * rest = ulp /\ low % 2 = 0) THEN low * ulp ELSE (low + 1) * ulp

-----------------------------------------------------------------------------
(* The algorithms: a sequence of pairs to a sequence of groups *)

\* The n-th smallest element of a set of integers, and the rows at these places, in order.
Nth(S, n) == CHOOSE x \in S : Cardinality({y \in S : y <= x}) = n
RowsAt(rows, places) == [n \in 1 .. Cardinality(places) |-> rows[Nth(places, n)]]

KeysOf(rows) == {rows[i].key : i \in DOMAIN rows}
OfKey(rows, k) == {i \in DOMAIN rows : rows[i].key = k}
ValueSum(rows, places) == MapThenSumSet(LAMBDA i : rows[i].val, places)

Group(k, rows, places) == [key |-> k, sum |-> ValueSum(rows, places), count |-> Cardinality(places)]

\* GroupbySumSortScatter, and the hash table of MlxHashGroupby once collected and
\* sorted: one group per key.
GroupbySumSortScatter(rows) ==
    [n \in 1 .. Cardinality(KeysOf(rows)) |->
        LET k == Nth(KeysOf(rows), n) IN Group(k, rows, OfKey(rows, k))]

DenseSpanOk(kmin, kmax) ==
    /\ kmin # Int64Min
    /\ kmax - kmin + 1 \in 1 .. DenseMaxSpan

\* The dense scatter: the same groups, or nothing when the window is too small.
GroupbySumDenseGpu(rows) ==
    IF rows = <<>> \/ ~DenseSpanOk(Min(KeysOf(rows)), Max(KeysOf(rows))) THEN <<>>
    ELSE GroupbySumSortScatter(rows)

\* On the host, rows of the sentinel key are skipped instead.
GroupbySumDenseHost(rows) == GroupbySumDenseGpu(RowsAt(rows, {i \in DOMAIN rows : rows[i].key # Int64Min}))

\* GroupbySumHash: keys outside the kernel's range are sorted.
GroupbySumHash(rows) == GroupbySumSortScatter(rows)

\* The slotlock path has the same row limit as the radix path below, and behind it
\* the sum of the partition counts, read from an array that no kernel writes, has
\* to be the number of rows: it never has a result.
GroupbySumSlotlockGpu(rows) == <<>>

\* ActiveRadixBytes: the digits in which the smallest and the largest key differ.
ActiveRadixBytes(kmin, kmax) ==
    LET digit(k, p) == ((k - Int64Min) \div RadixBase ^ p) % RadixBase
        differing == {p \in 0 .. 7 : digit(kmin, p) # digit(kmax, p)}
    IN  IF differing = {} THEN {0} ELSE differing

\* HostSegmentReduce: one group per run of equal keys.
HostSegmentReduce(rows) ==
    LET ends == {i \in DOMAIN rows : i = Len(rows) \/ rows[i + 1].key # rows[i].key}
        first(g) == IF g = 1 THEN 1 ELSE Nth(ends, g - 1) + 1
    IN  [g \in 1 .. Cardinality(ends) |-> Group(rows[Nth(ends, g)].key, rows, first(g) .. Nth(ends, g))]

\* Every pass swaps the buffers and leaves the second one at zero: the kernels'
\* outputs are not what the host goes on with.
RadixPasses(rows) ==
    IF Cardinality(ActiveRadixBytes(Min(KeysOf(rows)), Max(KeysOf(rows)))) % 2 = 0 THEN rows
    ELSE [i \in DOMAIN rows |-> [key |-> 0, val |-> 0]]

\* Mutant: the row limit as it was meant.
RadixBelowRowLimit(rows) ==
    IF rows = <<>> \/ Len(rows) > UintMax THEN <<>> ELSE HostSegmentReduce(RadixPasses(rows))

GroupbySumRadixGpu(rows) ==
    IF rows = <<>> \/ Len(rows) > UintMaxAsInt THEN <<>> ELSE HostSegmentReduce(RadixPasses(rows))

\* SlotlockChecksumOk, RadixChecksumOk.
ChecksumOk(rows, groups) ==
    /\ groups # <<>>
    /\ ValueSum(rows, DOMAIN rows) = MapThenSumSet(LAMBDA g : groups[g].sum, DOMAIN groups)

EstimateGroupsFromKeys(rows) ==
    LET span == Int64(Max(KeysOf(rows)) - Min(KeysOf(rows)) + 1)
    IN  IF rows = <<>> \/ Min(KeysOf(rows)) = Int64Min THEN -1
        ELSE IF span <= Len(rows) THEN span ELSE Len(rows)

-----------------------------------------------------------------------------
(* The initial state *)

NoQuery == [source |-> "none", hash |-> FALSE, filter |-> NoFilter]

Init ==
    /\ table \in Tables
    /\ keyFirst \in BOOLEAN
    /\ distinct \in 1 .. MaxDistinct
    /\ resident = FALSE
    /\ override = ""
    /\ setting = NULL
    /\ sets = <<>>
    /\ query = NoQuery
    /\ asked = 0
    /\ pc = "idle"
    /\ path = "null"
    /\ input = <<>>
    /\ estimate = -1
    /\ answer = <<>>

settingVars == <<override, setting, sets>>
tableVars == <<table, keyFirst, distinct>>

-----------------------------------------------------------------------------
(* The setting *)

\* MlxGroupbySetPathOverride of some session, under the mutex, writes the string.
SetPath(p) ==
    /\ setting = NULL
    /\ Len(sets) < MaxSets
    /\ sets' = Append(sets, p)
    /\ setting' = p
    /\ override' = "torn"
    /\ UNCHANGED <<tableVars, resident, query, asked, pc, path, input, estimate, answer>>

\* Mutant of SetDone: clearing the override returns without unlocking.
SetDoneClearKeepsLock ==
    /\ setting # NULL
    /\ override' = setting
    /\ setting' = IF setting = "" THEN setting ELSE NULL
    /\ UNCHANGED <<tableVars, resident, sets, query, asked, pc, path, input, estimate, answer>>

SetDone ==
    /\ setting # NULL
    /\ override' = setting
    /\ setting' = NULL
    /\ UNCHANGED <<tableVars, resident, sets, query, asked, pc, path, input, estimate, answer>>

\* GroupbyPathFromEnv: the pointer it returns.
GroupbyPathFromEnv == IF override # "" THEN "override" ELSE IF Env # "" THEN "env" ELSE "null"

\* strcmp(path_env, p) == 0.
IsPath(at, p) == \/ at = "override" /\ override = p
                 \/ at = "env" /\ Env = p

GroupbyShouldTrySlotlock ==
    LET is(p) == IsPath(GroupbyPathFromEnv, p)
    IN  \/ is("slotlock")
        \/ ~is("radix") /\ ~is("sort") /\ ~is("dense") /\ estimate \in MinGroups .. SafeCap

GroupbyShouldTryRadix ==
    LET is(p) == IsPath(GroupbyPathFromEnv, p)
    IN  \/ is("radix")
        \/ /\ ~is("slotlock") /\ ~is("sort") /\ ~is("dense")
           /\ Len(input) >= MinRows
           /\ estimate \notin MinGroups .. SafeCap

-----------------------------------------------------------------------------
(* The input of a query *)

\* What the CPU engine selects; a NULL never passes a WHERE clause.
Passes(f, row) == f = NoFilter \/ (row[f.col] # NULL /\ row[f.col] \in f.pass)

\* A query is planned: resident columns are read, others are scanned.
AskGroupBy(f) ==
    /\ pc = "idle" /\ asked < MaxQueries
    /\ asked' = asked + 1
    /\ query' = [source |-> IF resident THEN "cached" ELSE "cold", hash |-> FALSE, filter |-> f]
    /\ pc' = "input"
    /\ UNCHANGED <<tableVars, settingVars, resident, path, input, estimate, answer>>

\* mlx_groupby_bench(list(key), list(value) [, use_hash]) over the same table.
AskBench(hash) ==
    /\ pc = "idle" /\ asked < MaxQueries
    /\ \A i \in DOMAIN table : table[i].val # NULL
    /\ asked' = asked + 1
    /\ query' = [source |-> "bench", hash |-> hash, filter |-> NoFilter]
    /\ pc' = "input"
    /\ UNCHANGED <<tableVars, settingVars, resident, path, input, estimate, answer>>

\* The buffered lanes: the key rides fp32, a NULL is stored as 0.
Lane(row) == [key |-> Float(row.key), val |-> IF row.val = NULL THEN 0 ELSE row.val]
Lanes(rows) == [i \in DOMAIN rows |-> Lane(rows[i])]

\* Sink and AppendHashRows, over the rows the scan lets through: rows with a NULL are
\* left out.
AppendHashRows(rows, places) == Lanes(RowsAt(rows, {i \in places : rows[i].val # NULL}))

ColdInput ==
    /\ pc = "input" /\ query.source = "cold"
    /\ input' = AppendHashRows(table, {i \in DOMAIN table : Passes(query.filter, table[i])})
    /\ estimate' = distinct
    /\ answer' = <<>>
    /\ pc' = IF input' = <<>> THEN "finish" ELSE "path"
    /\ UNCHANGED <<tableVars, settingVars, resident, query, asked, path>>

\* The columns as {keys, vals}, whatever the order the filter's columns count in.
FilterColumn(f) == IF keyFirst THEN f.col ELSE IF f.col = "key" THEN "val" ELSE "key"

\* A filtered row keeps its place, under the sentinel key.
Masked(f, row) ==
    IF f = NoFilter \/ row[FilterColumn(f)] \in f.pass THEN row ELSE [key |-> Int64Min, val |-> 0]

\* MlxGroupedHashGroupByCached.
CachedInput ==
    /\ pc = "input" /\ query.source = "cached"
    /\ input' = [i \in DOMAIN table |-> Masked(query.filter, Lane(table[i]))]
    /\ estimate' = distinct
    /\ answer' = <<>>
    /\ pc' = IF input' = <<>> THEN "finish" ELSE "path"
    /\ UNCHANGED <<tableVars, settingVars, resident, query, asked, path>>

\* MlxGroupbySum: the dense table on the host comes first, unless use_hash.
BenchInput ==
    /\ pc = "input" /\ query.source = "bench"
    /\ input' = table
    /\ estimate' = EstimateGroupsFromKeys(table)
    /\ answer' = IF query.hash THEN <<>> ELSE GroupbySumDenseHost(table)
    /\ pc' = IF table = <<>> \/ answer' # <<>> THEN "finish" ELSE "path"
    /\ UNCHANGED <<tableVars, settingVars, resident, query, asked, path>>

-----------------------------------------------------------------------------
(* PickGpuPath *)

Goto(label) == pc' = label /\ answer' = answer
Answer(groups) == pc' = "finish" /\ answer' = groups

choiceVars == <<tableVars, settingVars, resident, query, asked, input, estimate>>

\* The pointer is taken under the mutex.
ReadPath ==
    /\ pc = "path" /\ setting = NULL
    /\ path' = GroupbyPathFromEnv
    /\ Goto("dense")
    /\ UNCHANGED choiceVars

ChooseDense ==
    /\ pc = "dense"
    /\ \/ IsPath(path, "dense") /\ Answer(GroupbySumDenseGpu(input))
       \/ ~IsPath(path, "dense") /\ query.hash /\ Answer(GroupbySumHash(input))
       \/ /\ ~IsPath(path, "dense") /\ ~query.hash
          /\ \/ GroupbySumDenseGpu(input) # <<>> /\ Answer(GroupbySumDenseGpu(input))
             \/ GroupbySumDenseGpu(input) = <<>> /\ Goto("sort")
    /\ UNCHANGED <<choiceVars, path>>

ChooseSort ==
    /\ pc = "sort"
    /\ IF IsPath(path, "sort") THEN Answer(GroupbySumSortScatter(input)) ELSE Goto("radix")
    /\ UNCHANGED <<choiceVars, path>>

\* A forced radix result is returned as it is.
ChooseRadix ==
    /\ pc = "radix"
    /\ IF IsPath(path, "radix") THEN Answer(GroupbySumRadixGpu(input)) ELSE Goto("slotlock")
    /\ UNCHANGED <<choiceVars, path>>

ChooseSlotlock ==
    /\ pc = "slotlock"
    /\ IF IsPath(path, "slotlock")
       THEN Answer(IF ChecksumOk(input, GroupbySumSlotlockGpu(input)) THEN GroupbySumSlotlockGpu(input)
                   ELSE GroupbySumSortScatter(input))
       ELSE Goto("try_slotlock")
    /\ UNCHANGED <<choiceVars, path>>

TrySlotlock ==
    /\ pc = "try_slotlock" /\ setting = NULL
    /\ IF GroupbyShouldTrySlotlock /\ ChecksumOk(input, GroupbySumSlotlockGpu(input))
       THEN Answer(GroupbySumSlotlockGpu(input)) ELSE Goto("try_radix")
    /\ UNCHANGED <<choiceVars, path>>

TryRadix ==
    /\ pc = "try_radix" /\ setting = NULL
    /\ IF GroupbyShouldTryRadix /\ ChecksumOk(input, GroupbySumRadixGpu(input))
       THEN Answer(GroupbySumRadixGpu(input)) ELSE Answer(GroupbySumSortScatter(input))
    /\ UNCHANGED <<choiceVars, path>>

-----------------------------------------------------------------------------
(* Emitting *)

\* A cold query without table filters leaves its columns resident; the groups are
\* emitted with the keys they were computed under.
Finish ==
    /\ pc = "finish"
    /\ pc' = "done"
    /\ resident' = (resident \/ (query.source = "cold" /\ query.filter = NoFilter))
    /\ UNCHANGED <<tableVars, settingVars, query, asked, path, input, estimate, answer>>

\* The operator's states go with the query.
Return ==
    /\ pc = "done"
    /\ pc' = "idle"
    /\ query' = NoQuery
    /\ path' = "null"
    /\ input' = <<>>
    /\ estimate' = -1
    /\ answer' = <<>>
    /\ UNCHANGED <<tableVars, settingVars, resident, asked>>

Step ==
    \/ ColdInput
    \/ CachedInput
    \/ BenchInput
    \/ ReadPath
    \/ ChooseDense
    \/ ChooseSort
    \/ ChooseRadix
    \/ ChooseSlotlock
    \/ TrySlotlock
    \/ TryRadix
    \/ Finish

Next ==
    \/ \E f \in Filters : AskGroupBy(f)
    \/ \E hash \in BOOLEAN : AskBench(hash)
    \/ \E p \in Paths : SetPath(p)
    \/ SetDone
    \/ Step
    \/ Return

Spec == Init /\ [][Next]_vars /\ WF_vars(Step) /\ WF_vars(SetDone)

-----------------------------------------------------------------------------
(* Properties *)

\* The rows SQL selects, those of them that count in a sum, and the sum of a BIGINT key.
Selected == {i \in DOMAIN table : Passes(query.filter, table[i])}
Valued == {i \in Selected : table[i].val # NULL}
SqlSum(k) == ValueSum(table, {i \in Valued : table[i].key = k})

\* The key under which a query has a row: lists keep int64, columns the fp32 lane.
StoredKey(row) == IF query.source = "bench" THEN row.key ELSE Float(row.key)
StoredSum(k) == ValueSum(table, {i \in Valued : StoredKey(table[i]) = k})

\* fp32 keeps the key, and puts no other key that is summed in its place.
KeyKept(k) == \A i \in Valued : table[i].key = k \/ StoredKey(table[i]) = k =>
                                    table[i].key = k /\ StoredKey(table[i]) = k

\* The cached filter reads the columns the query means, and rounding the keys takes
\* none of them in or out of it.
FilterSound ==
    query.source = "cached" /\ query.filter # NoFilter =>
        /\ keyFirst
        /\ query.filter.col = "key" => \A i \in DOMAIN table :
                Float(table[i].key) \in query.filter.pass <=> table[i].key \in query.filter.pass

\* A forced dense or radix path has no fallback.
ForcedEmpty == answer = <<>> /\ \E p \in {"dense", "radix"} : p = Env \/ \E i \in DOMAIN sets : sets[i] = p

OneGroupPerKey == \A g, h \in DOMAIN answer : answer[g].key = answer[h].key => g = h

HasGroup(k, sum) == \E g \in DOMAIN answer : answer[g].key = k /\ answer[g].sum = sum

\* What SQL asks of the keys that fp32 keeps.
KeptKeysExact == \A i \in Valued : KeyKept(table[i].key) => HasGroup(table[i].key, SqlSum(table[i].key))

\* All keys are there as they are stored, rounded ones merged; a key of NULLs only,
\* which SQL answers with NULL, has the sum 0 if the columns are cached.
StoredKeysExact ==
    \A i \in Selected : table[i].val # NULL \/ query.source = "cached" =>
        HasGroup(StoredKey(table[i]), StoredSum(StoredKey(table[i])))

\* Other groups have the sum 0 and come from cached columns: keys of NULLs only, and
\* the sentinel under which filtered rows end.
OtherGroupsEmpty ==
    \A g \in DOMAIN answer :
        \/ \E i \in Valued : StoredKey(table[i]) = answer[g].key
        \/ /\ query.source = "cached" /\ answer[g].sum = 0
           /\ \/ \E i \in DOMAIN table : table[i].val = NULL /\ StoredKey(table[i]) = answer[g].key
              \/ query.filter # NoFilter /\ answer[g].key = Int64Min

\* Whatever algorithm the statistics, the estimate and the SETs of other sessions
\* during the choice lead to: a key of the selected rows that fp32 keeps has one
\* group, with the sum SQL gives it.  Keys that fp32 does not keep are answered
\* rounded, and merged with the keys that round alike.
GroupsExact ==
    pc = "done" /\ FilterSound /\ ~ForcedEmpty =>
        OneGroupPerKey /\ KeptKeysExact /\ StoredKeysExact /\ OtherGroupsEmpty

\* Every query ends, although other sessions write the string it compares.
QueriesEnd == (pc = "input") ~> (pc = "done")

=============================================================================
