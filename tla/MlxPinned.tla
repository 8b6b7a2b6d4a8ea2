------------------------------ MODULE MlxPinned ------------------------------
(***************************************************************************)
(* What one session keeps beside the cached columns and the dense table:   *)
(* the dictionary of a VARCHAR column, the columns mlx_cache_pin derives   *)
(* from others, and the bundle it prepares for TPC-H Q1.                   *)
(*                                                                         *)
(* A VARCHAR column is cached as codes.  Each query that scans it numbers  *)
(* the strings in the order its threads meet them, so a population of the  *)
(* column and the dictionary installed after it belong together; the       *)
(* dictionary has a mutex of its own and outlives the columns.  Derived    *)
(* columns and the bundle copy what the base columns held when the table   *)
(* was pinned, and are read later without looking at the base columns.     *)
(*                                                                         *)
(* Abstraction.  A row's string is a function of its cell.  A derived      *)
(* column holds, per position, the cells it was computed from: disc_price  *)
(* from the dense table's two columns, charge from disc_price and TaxCol.  *)
(* The two keys of Q1 are one, StringCol, and its WHERE clause is the      *)
(* table filter, which passes the cells of Keep.  With one session no step *)
(* comes between the locks a read takes one after another, so such a read  *)
(* is one action.                                                          *)
(***************************************************************************)
EXTENDS MlxGroupbyDense

CONSTANTS
    ColSets,     \* the column sets of the queries
    TaxCol,      \* the column charge reads beside disc_price
    StringOf     \* cell -> the string its row has in StringCol

ASSUME PinnedAssumption ==
    /\ Cardinality(Session) = 1
    /\ {StringCol, TaxCol} \subseteq Col
    /\ ColSets \subseteq (SUBSET Col) \ {{}}

VARIABLES
    coded,    \* the codes in the segments of StringCol
    dict,     \* DictStore()[StringCol]
    strings,  \* session -> strings by code: of its own scan, or read for a cached plan
    derived,  \* the derived columns in the cache; empty while missing
    bundle,   \* Q1PinBundles() and the x:q1 columns
    bound,    \* sessions whose program was bound to a derived column
    stage,    \* session -> what it does between the steps of the column cache
    emitted   \* session -> key string and key cell of every row a cached plan grouped

pinnedVars == <<coded, dict, strings, derived, bundle, bound, stage, emitted>>

NoDict == [population |-> 0, strings |-> <<>>]
NoDerived == [disc_price |-> <<>>, charge |-> <<>>]
NoBundle == [card |-> 0, codes |-> <<>>, cols |-> [c \in Col |-> <<>>], derived |-> NoDerived]

PinnedInit ==
    /\ DenseInit
    /\ coded = <<>>
    /\ dict = NoDict
    /\ strings = [s \in Session |-> <<>>]
    /\ derived = NoDerived
    /\ bundle = NoBundle
    /\ bound = {}
    /\ stage = [s \in Session |-> "none"]
    /\ emitted = [s \in Session |-> {}]

-----------------------------------------------------------------------------
(* Dictionaries *)

\* The orders in which threads that scan these segments can number the strings,
\* each chunk under dict_lock: a string is new to some thread whose earlier strings
\* all have a code.
Encodings(segments) ==
    LET stringsOf(t) == [i \in DOMAIN segments[t] |-> StringOf[segments[t][i]]]
        all == UNION {Range(stringsOf(t)) : t \in DOMAIN segments}
    IN  {d \in Injection(1..Cardinality(all), all) :
            \A i \in DOMAIN d : \E t \in DOMAIN segments : \E p \in DOMAIN segments[t] :
                /\ stringsOf(t)[p] = d[i]
                /\ \A q \in 1..(p - 1) : stringsOf(t)[q] \in {d[j] : j \in 1..(i - 1)}}

\* The codes of rows under a dictionary.
Encoded(rows, d) == [i \in DOMAIN rows |-> CHOOSE code \in DOMAIN d : d[code] = StringOf[rows[i]]]

\* Mutant of Installed: a population keeps the first dictionary installed for it.
InstalledOnce(population, d) ==
    IF dict.population = population THEN dict ELSE [population |-> population, strings |-> d]

\* MlxDictInstall replaces whatever the column had.
Installed(population, d) == [population |-> population, strings |-> d]

\* MlxDictStrings for the population of the cached column: none but its own.
DictStrings ==
    IF Resident(StringCol) /\ dict.population = store[StringCol].population THEN dict.strings ELSE <<>>

-----------------------------------------------------------------------------
(* Planning and scanning *)

\* TryInterceptGroupBy and TryInterceptAggregate.  A VARCHAR column is only ever a
\* key, and is served from the cache only with its dictionary.  A cached grouping
\* whose expression is the derived column's is bound to it.
PinnedPlan(s, kind, cols, filter) ==
    LET cached == /\ MlxCacheHas(cols, Len(table))
                  /\ StringCol \in cols => DictStrings # <<>>
    IN  /\ Len(dense.cells) <= MaxDense
        /\ kind = "sum" => StringCol \notin cols
        /\ PlanAs(s, kind, cols, filter, cached)
        /\ \E what \in Summands, matches \in BOOLEAN :
            /\ matches => /\ cached /\ kind = "group" /\ what = "expression"
                          /\ {GroupCol, ValueCol} \subseteq cols
                          /\ derived.disc_price # <<>>
            /\ summand' = [summand EXCEPT ![s] = what]
            /\ bound' = IF matches THEN bound \cup {s} ELSE bound
        /\ UNCHANGED <<dense, pending, seen, coded, dict, strings, derived, bundle, stage, emitted>>

\* Sink has numbered the strings by the time the operator is finalized.
PinnedFinalize(s) ==
    /\ Finalize(s)
    /\ \E d \in IF StringCol \in query[s].cols THEN Encodings(segs[s]) ELSE {<<>>} :
         strings' = [strings EXCEPT ![s] = d]
    /\ UNCHANGED <<denseVars, coded, dict, derived, bundle, bound, stage, emitted>>

\* mlx_cache_pin numbers the strings chunk by chunk in one dictionary.
PinnedPin(s) ==
    /\ PinTable(s)
    /\ \E d \in Encodings(<<table>>) : strings' = [strings EXCEPT ![s] = d]
    /\ UNCHANGED <<denseVars, coded, dict, derived, bundle, bound, stage, emitted>>

-----------------------------------------------------------------------------
(* Populating, and what follows a population *)

\* Mutant of PinnedBeginPopulation: a dropped table leaves the bundle behind.
BeginKeepsBundle(s) ==
    /\ DenseBeginPopulation(s)
    /\ coded' = IF store'[StringCol].cells = <<>> THEN <<>> ELSE coded
    /\ derived' = IF DropsTable(s) THEN NoDerived ELSE derived
    /\ UNCHANGED <<dict, strings, bundle, bound, stage, emitted>>

\* DropTableUnlocked takes the derived columns and the bundle with the table; a
\* population without a drop erases only its own columns.
PinnedBeginPopulation(s) ==
    /\ DenseBeginPopulation(s)
    /\ coded' = IF store'[StringCol].cells = <<>> THEN <<>> ELSE coded
    /\ derived' = IF DropsTable(s) THEN NoDerived ELSE derived
    /\ bundle' = IF DropsTable(s) THEN NoBundle ELSE bundle
    /\ UNCHANGED <<dict, strings, bound, stage, emitted>>

PinnedStoreSegment(s) ==
    /\ DenseStoreSegment(s)
    /\ coded' = IF StringCol \in plan[s].storeCols
                THEN coded \o Encoded(Head(segs[s]), strings[s]) ELSE coded
    /\ UNCHANGED <<dict, strings, derived, bundle, bound, stage, emitted>>

\* A fuse is followed by the derived columns when the table is pinned, and by the
\* dictionaries when a VARCHAR key was scanned.
PinnedFuse(s) ==
    /\ FuseTable(s)
    /\ stage' = [stage EXCEPT ![s] =
            IF query[s].kind = "pin" THEN "disc_price"
            ELSE IF StringCol \in query[s].cols THEN "install" ELSE "none"]
    /\ UNCHANGED <<denseVars, coded, dict, strings, derived, bundle, bound, emitted>>

\* CachedSegmentFromKeys and EvalOps: what a derived column is computed from.
DiscPrice ==
    [p \in DOMAIN store[GroupCol].fused |-> {store[GroupCol].fused[p], store[ValueCol].fused[p]}]

Charge ==
    [p \in DOMAIN derived.disc_price |-> derived.disc_price[p] \cup {store[TaxCol].fused[p]}]

\* MaterializeDerivedUnlocked: an existing column is kept.  With one session the
\* base columns are present, fused and of one length.
MaterializeDiscPrice(s) ==
    /\ stage[s] = "disc_price"
    /\ derived' = [derived EXCEPT !.disc_price = IF @ = <<>> THEN DiscPrice ELSE @]
    /\ stage' = [stage EXCEPT ![s] = "charge"]
    /\ UNCHANGED <<allVars, coded, dict, strings, bundle, bound, emitted>>

MaterializeCharge(s) ==
    /\ stage[s] = "charge"
    /\ derived' = [derived EXCEPT !.charge = IF @ = <<>> THEN Charge ELSE @]
    /\ stage' = [stage EXCEPT ![s] = "bundle"]
    /\ UNCHANGED <<allVars, coded, dict, strings, bundle, bound, emitted>>

\* MaterializeLineitemQ1Unlocked: every pin makes the bundle anew; the number of
\* groups is the largest code in it.
MaterializeQ1(s) ==
    /\ stage[s] = "bundle"
    /\ bundle' = [card |-> CHOOSE n \in Range(coded) : \A code \in Range(coded) : code <= n,
                  codes |-> coded,
                  cols |-> [c \in Col |-> store[c].fused],
                  derived |-> derived]
    /\ stage' = [stage EXCEPT ![s] = IF query[s].cached THEN "none" ELSE "install"]
    /\ UNCHANGED <<allVars, coded, dict, strings, derived, bound, emitted>>

DictInstall(s) ==
    /\ stage[s] = "install"
    /\ dict' = Installed(plan[s].population, strings[s])
    /\ stage' = [stage EXCEPT ![s] = "none"]
    /\ UNCHANGED <<allVars, coded, strings, derived, bundle, bound, emitted>>

\* MlxCacheClearAll empties everything but the dictionaries.
PinnedClearAll(s) ==
    /\ DenseClearAll(s)
    /\ coded' = <<>>
    /\ derived' = NoDerived
    /\ bundle' = NoBundle
    /\ UNCHANGED <<dict, strings, bound, stage, emitted>>

-----------------------------------------------------------------------------
(* Serving cached groupings *)

\* The source operator takes the dictionary of its key before it reads the columns.
ReadDict(s) ==
    /\ pc[s] = "exec"
    /\ stage[s] = "none"
    /\ StringCol \in query[s].cols
    /\ strings' = [strings EXCEPT ![s] = DictStrings]
    /\ stage' = [stage EXCEPT ![s] = "read"]
    /\ UNCHANGED <<allVars, coded, dict, derived, bundle, bound, emitted>>

ReadyToServe(s) == StringCol \in query[s].cols => stage[s] = "read"

\* The string a code is decoded to; a code beyond the dictionary is in no group.
Decoded(s, code) == IF code \in DOMAIN strings[s] THEN strings[s][code] ELSE "none"

\* The key of every row of the answer: its string as emitted, and its cell.
Emitted(s, codes) ==
    IF StringCol \in query[s].cols
    THEN {<<Decoded(s, codes[r[1]]), r[2][StringCol]>> : r \in answer'[s].rows} ELSE {}

\* TryLineitemQ1FastPath: the shipdate filter and the groups are those of Q1.  Its
\* last test, the number of sums, is left open: the query may also be served
\* from the columns.
Q1FastPath(s) ==
    /\ query[s].kind = "group"
    /\ query[s].cols = Col
    /\ query[s].filter = "table"
    /\ bundle # NoBundle
    /\ bundle.card = Len(strings[s])

ServeQ1(s) ==
    /\ pc[s] = "exec"
    /\ stage[s] = "read"
    /\ Q1FastPath(s)
    /\ \E fc \in Col :
        answer' = [answer EXCEPT ![s] =
            [status |-> "rows",
             rows |-> Masked(Col, bundle.cols, Len(bundle.codes), "table", fc)]]
    /\ pc' = [pc EXCEPT ![s] = "done"]
    /\ stage' = [stage EXCEPT ![s] = "none"]
    /\ emitted' = [emitted EXCEPT ![s] = Emitted(s, bundle.codes)]
    /\ UNCHANGED <<query, todo, segs, plan, cacheVars, tableVars, denseVars,
                   coded, dict, strings, derived, bundle, bound>>

\* The fused columns of few groups, the derived one among them; no dense table is
\* kept for a derived column.
PinnedServeFused(s) ==
    /\ ReadyToServe(s)
    /\ IF s \in bound THEN ServeGroupedFused(s) /\ UNCHANGED denseVars ELSE DenseServeFused(s)
    /\ stage' = [stage EXCEPT ![s] = "none"]
    /\ emitted' = [emitted EXCEPT ![s] = Emitted(s, coded)]
    /\ UNCHANGED <<coded, dict, strings, derived, bundle, bound>>

\* The segments of a grouping with many groups, and of MLX_SUM.
PinnedServeSegments(s) ==
    /\ ReadyToServe(s)
    /\ s \notin bound
    /\ DenseServeCached(s)
    /\ stage' = [stage EXCEPT ![s] = "none"]
    /\ emitted' = [emitted EXCEPT ![s] = Emitted(s, coded)]
    /\ UNCHANGED <<coded, dict, strings, derived, bundle, bound>>

\* A derived column has no segments: with many groups the read throws.
ServeBoundSegments(s) ==
    /\ pc[s] = "exec"
    /\ s \in bound
    /\ ReadyToServe(s)
    /\ answer' = [answer EXCEPT ![s] = [status |-> "mismatch", rows |-> {}]]
    /\ pc' = [pc EXCEPT ![s] = "done"]
    /\ stage' = [stage EXCEPT ![s] = "none"]
    /\ UNCHANGED <<query, todo, segs, plan, cacheVars, tableVars, denseVars,
                   coded, dict, strings, derived, bundle, bound, emitted>>

PinnedReturn(s) ==
    /\ stage[s] = "none"
    /\ DenseReturn(s)
    /\ strings' = [strings EXCEPT ![s] = <<>>]
    /\ bound' = bound \ {s}
    /\ emitted' = [emitted EXCEPT ![s] = {}]
    /\ UNCHANGED <<coded, dict, derived, bundle, stage>>

\* The steps that do not meet the pinned state.
PinnedElsewhere(s) ==
    /\ \/ DenseAccumulate(s)
       \/ DenseStoreDone(s)
       \/ s \notin bound /\ ReadPopulation(s)
       \/ DenseServe(s)
       \/ /\ CombineThread(s) \/ EvalPopulated(s) \/ Insert(s)
          /\ UNCHANGED denseVars
    /\ UNCHANGED pinnedVars

PinnedNext ==
    \E s \in Session :
        \/ \E kind \in Kinds, cols \in ColSets, filter \in Filters : PinnedPlan(s, kind, cols, filter)
        \/ PinnedFinalize(s)
        \/ PinnedPin(s)
        \/ PinnedBeginPopulation(s)
        \/ PinnedStoreSegment(s)
        \/ PinnedFuse(s)
        \/ MaterializeDiscPrice(s)
        \/ MaterializeCharge(s)
        \/ MaterializeQ1(s)
        \/ DictInstall(s)
        \/ PinnedClearAll(s)
        \/ ReadDict(s)
        \/ ServeQ1(s)
        \/ PinnedServeFused(s)
        \/ PinnedServeSegments(s)
        \/ ServeBoundSegments(s)
        \/ PinnedReturn(s)
        \/ PinnedElsewhere(s)

PinnedSpec == PinnedInit /\ [][PinnedNext]_<<allVars, pinnedVars>>

-----------------------------------------------------------------------------
(* Properties *)

\* Every row a cached plan groups is emitted under the string its VARCHAR key has in
\* the table: the codes it read and the dictionary it decoded them with, taken under
\* different locks, come from one scan, whichever query, pin or bundle left them.
KeysDecoded ==
    \A s \in Session : \A key \in emitted[s] : key[1] = StringOf[key[2]]

\* Between requests, what the last pin derived still describes the columns that are
\* served: position by position the derived columns and the bundle hold the rows of
\* the cached columns, through later cold queries, inserts, clears and pins.
PinnedCurrent ==
    (\A s \in Session : pc[s] = "idle") /\ MlxCacheHas(Col, Len(table)) =>
        /\ derived.disc_price # <<>> => derived.disc_price = DiscPrice
        /\ derived.charge # <<>> => derived.charge = Charge
        /\ bundle # NoBundle =>
            /\ bundle.codes = coded
            /\ \A c \in Col : bundle.cols[c] = store[c].cells
            /\ bundle.derived = derived

=============================================================================
