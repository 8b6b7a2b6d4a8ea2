------------------------------ MODULE MlxGrouped ------------------------------
(***************************************************************************)
(* Grouped aggregation on the GPU: MlxGroupedInit picks one of three       *)
(* accumulators by the number of groups, the rows of a cold scan or of the *)
(* cached columns are added to it segment by segment, batch by batch or    *)
(* all at once, and MLX_GROUPBY emits the groups in vectors.               *)
(*                                                                         *)
(*   "dense"    few groups: one masked reduction per group, exact int64;   *)
(*              over fused columns the tile kernel where it is eligible    *)
(*   "scatter"  GPU scatter-add into 32-bit partials, in chunks small      *)
(*              enough not to overflow, flushed to the host after each     *)
(*   "cpu"      more groups than the GPU accumulator has slots: threads    *)
(*              (the planner declines such an estimate, but the            *)
(*              dictionaries of VARCHAR keys can turn out larger)          *)
(*                                                                         *)
(* Abstraction.  A row has its group keys, one value column v (0 where it  *)
(* is NULL) and whether the WHERE clause accepts it; a program's value is  *)
(* a multiple of v.  Machine numbers keep their limits: 32-bit sums wrap,  *)
(* and floats above FpExact are rounded.  The sums inside one GPU          *)
(* reduction are one step (MlxTileReduce models the tile kernel's).        *)
(***************************************************************************)
EXTENDS Integers, Sequences, SequencesExt, FiniteSets, FiniteSetsExt

CONSTANTS
    Cards,            \* the queries: lists of key cardinalities ...
    Offsets,          \* ... smallest key value (column statistics) ...
    Programs,         \* ... lists of aggregates ...
    Sources,          \* ... "cold", "segments" or "fused"
    Values,           \* values of v
    Layouts,          \* lists of segment sizes
    DenseReduceCard, MaxScatterCard,               \* 512, 65536
    MaxTileCard, MaxTileSlots, MaxTileValProgs,    \* 64, 512, 8
    BatchRows, ChunkRows, VectorSize, Threads,     \* 8M, 2048, 2048, 8
    Int32Max, FpExact                              \* 2^31 - 1, 2^24

ASSUME GroupedAssumption ==
    /\ DenseReduceCard <= MaxScatterCard
    /\ {BatchRows, ChunkRows, VectorSize, Threads, Int32Max, FpExact} \subseteq Nat \ {0}
    /\ Values \subseteq Int

VARIABLES
    query,        \* the planned query and the segments it reads
    pc,           \* where its execution is
    path,         \* the accumulator MlxGroupedInit chose
    state,        \* MlxGroupedState: rows per group; counts and values per group and program
    acc,          \* the GPU accumulator (GroupedGpuAcc) of the scatter path
    pos, off,     \* next segment, and next row within it
    batch,        \* [begin, rows] of the cached batch being collected
    emitted,      \* group -> emitted aggregates
    cursor,       \* source.offset: next group to emit
    asked         \* history: what the query asks for, for the refinement

vars == <<query, pc, path, state, acc, pos, off, batch, emitted, cursor, asked>>

-----------------------------------------------------------------------------
(* Machine numbers *)

Abs(x) == IF x < 0 THEN -x ELSE x

\* int32 arithmetic wraps.
Wrap(x) == ((x + Int32Max + 1) % (2 * (Int32Max + 1))) - (Int32Max + 1)

\* A float keeps every integer up to FpExact and every multiple of 2, 4, ... above,
\* and rounds halves to even.
Float(x) ==
    LET ulp == Min({2 ^ k : k \in {k \in 0 .. 5 : Abs(x) <= FpExact * 2 ^ k}})
        low == x \div ulp
        rest == x % ulp
    IN  IF 2 * rest < ulp \/ (2 * rest = ulp /\ low % 2 = 0) THEN low * ulp ELSE (low + 1) * ulp

Infinity == 1000   \* above every sum of the model

-----------------------------------------------------------------------------
(* The query *)

Card(q) == FoldLeft(LAMBDA n, c : n * c, 1, q.cards)
Groups(q) == 0 .. Card(q) - 1
Progs(q) == DOMAIN q.programs
Slots(q) == Groups(q) \X Progs(q)
Kind(q, slot) == q.programs[slot[2]].kind

\* BuildAggregatePrograms bounds |value| by the column's statistics, and the bound
\* decides how rows are evaluated where the caller does not ask for exact int64.
Bound(p) == p.mult * Max({Abs(v) : v \in Values})
Width(p) ==
    IF ~p.int_lane THEN "float"
    ELSE IF p.kind \notin {"SUM", "AVG"} THEN "int64"
    ELSE IF Bound(p) <= Int32Max THEN "int32" ELSE "fp32"

IntSumPrograms(q) == {p \in Range(q.programs) : p.int_lane /\ p.kind \in {"SUM", "AVG"}}

\* The rows are numbered 1, 2, ... in segment order.
Rows(q) == DOMAIN q.rows
SegmentEnd(layout, s) == FoldLeft(+, 0, SubSeq(layout, 1, s))
SegmentRows(q, s) == SegmentEnd(q.layout, s - 1) + 1 .. SegmentEnd(q.layout, s)
RowsOf(q, segments) == UNION {SegmentRows(q, s) : s \in segments}

\* The combined code of a row's keys, computed in the float lane; the dump slot, which
\* is no group, for a row the filter rejects or whose code is out of range.
Code(cards, low, row) ==
    LET card == FoldLeft(LAMBDA n, c : n * c, 1, cards)
        code == FoldLeftDomain(LAMBDA c, k : c * cards[k] + (Float(row.keys[k]) - Float(low)), 0, cards)
    IN  IF row.pass /\ code \in 0 .. card - 1 THEN code ELSE card

\* A program's value of a row as EvalOps computes it at a width.
Eval(q, p, r, width) ==
    LET value == q.programs[p].mult * q.rows[r].v
    IN  CASE width = "int32" -> Wrap(value)
          [] width = "int64" -> value
          [] OTHER -> Float(value)

\* COUNT(*) is the one aggregate without a NULL mask.
Masked(p) == p.kind # "COUNT_STAR"

\* The validity mask an evaluation over these segments sees: the masks of the
\* segments that have one, concatenated (ConcatSegmentParts, FuseCachedColumnUnlocked).
MaskArray(q, segments) ==
    LET order == SetToSortSeq(RowsOf(q, segments \cap q.masked), <)
    IN  [i \in DOMAIN order |-> q.rows[order[i]].valid]

\* A mask of another length than its rows is an error when the graph is built,
\* unless it can be broadcast.
MaskFits(q, segments) ==
    \/ \A p \in Progs(q) : ~Masked(q.programs[p])
    \/ Len(MaskArray(q, segments)) \in {0, 1, Cardinality(RowsOf(q, segments))}

\* row -> not NULL, as the reductions over consecutive segments see it
Seen(q, segments) ==
    LET mask == MaskArray(q, segments)
        before == SegmentEnd(q.layout, Min(segments) - 1)
    IN  [r \in RowsOf(q, segments) |->
            CASE Len(mask) = 0 -> TRUE
              [] Len(mask) = 1 -> mask[1]
              [] OTHER -> mask[r - before]]

\* What an operation adds up: the rows of the slot's group its program does not mask.
Counted(q, slot, rows, seen) ==
    {r \in rows : q.codes[r] = slot[1] /\ (Masked(q.programs[slot[2]]) => seen[r])}
Count(q, slot, rows, seen) == Cardinality(Counted(q, slot, rows, seen))
RowCount(q, g, rows) == Cardinality({r \in rows : q.codes[r] = g})

NoState(q) ==
    [rows |-> [g \in Groups(q) |-> 0],
     counts |-> [slot \in Slots(q) |-> 0],
     values |-> [slot \in Slots(q) |->
        CASE Kind(q, slot) = "MIN" -> Infinity [] Kind(q, slot) = "MAX" -> -Infinity [] OTHER -> 0]]

\* open: is the accumulator in GroupedGpuStore (gpu_handle >= 0)
NoAcc(q) ==
    LET zeros == [slot \in Slots(q) |-> 0]
    IN  [open |-> FALSE, rows |-> [g \in Groups(q) |-> 0], counts |-> zeros, isums |-> zeros, fsums |-> zeros]

-----------------------------------------------------------------------------
(* The reductions *)

\* A slot's value after these rows: sums are added, extrema taken, and the values of
\* COUNT programs stay 0.
Folded(q, slot, old, rows, seen, width) ==
    LET counted == Counted(q, slot, rows, seen)
        found == {Eval(q, slot[2], r, width) : r \in counted}
    IN  CASE Kind(q, slot) \in {"SUM", "AVG"} -> old + MapThenSumSet(LAMBDA r : Eval(q, slot[2], r, width), counted)
          [] Kind(q, slot) = "MIN" -> Min(found \cup {old})
          [] Kind(q, slot) = "MAX" -> Max(found \cup {old})
          [] OTHER -> old

\* A state after these rows: counts of the programs of these kinds, values of those.
Reduced(q, st, rows, seen, counting, valuing, width(_)) ==
    [rows |-> [g \in Groups(q) |-> st.rows[g] + RowCount(q, g, rows)],
     counts |-> [slot \in Slots(q) |-> st.counts[slot] +
        (IF Kind(q, slot) \in counting THEN Count(q, slot, rows, seen) ELSE 0)],
     values |-> [slot \in Slots(q) |->
        IF Kind(q, slot) \in valuing
        THEN Folded(q, slot, st.values[slot], rows, seen, width(q.programs[slot[2]])) ELSE st.values[slot]]]

LaneWidth(p) == IF p.int_lane THEN "int64" ELSE "float"
Sums == {"SUM", "AVG"}
Extrema == {"MIN", "MAX"}

\* GroupedDenseGpuReduce and its merge: MIN and MAX do not update their counts.
DenseReduced(q, st, rows, seen) ==
    Reduced(q, st, rows, seen, Sums \cup {"COUNT"}, Sums \cup Extrema, LaneWidth)

\* ProgramsUseTileKernel, and the limit GroupedTileKernelAccumulate checks again.
TileEligible(q) ==
    LET sums == {p \in Progs(q) : q.programs[p].kind \in Sums}
    IN  /\ Card(q) <= MaxTileCard
        /\ \A p \in Progs(q) : q.programs[p].kind \notin Extrema
        /\ \A p \in sums : q.programs[p].int_lane
        /\ sums # {}
        /\ Cardinality(sums) * Card(q) <= MaxTileSlots

TileFits(q) == Cardinality({p \in Progs(q) : q.programs[p].kind \in Sums}) <= MaxTileValProgs

\* MergeTilePartials: rows, and values and counts of the SUM and AVG programs.
TileReduced(q, st, rows, seen) == Reduced(q, st, rows, seen, Sums, Sums, LaneWidth)

\* The CPU path: each thread accumulates a slice into a state of its own; the states
\* are merged in thread order.
CpuReduced(q, st, rows, seen) ==
    LET chunk == (Cardinality(rows) + Threads - 1) \div Threads
        low == Min(rows)
        slice(t) == (low + (t - 1) * chunk .. low + t * chunk - 1) \cap rows
    IN  FoldLeft(LAMBDA s, t : Reduced(q, s, slice(t), seen, Sums \cup Extrema \cup {"COUNT"}, Sums \cup Extrema, Width),
                 st, [t \in 1 .. Threads |-> t])

\* Mutants of ScatterChunkRows: the bounds are ignored; a bound above the limit
\* leaves chunks of no row.
ScatterChunkFixed(q) == ChunkRows
ScatterChunkEmpty(q) ==
    Min({ChunkRows} \cup {(IF Width(p) = "int32" THEN Int32Max ELSE FpExact) \div Max({Bound(p), 1}) : p \in IntSumPrograms(q)})

\* GpuScatterChunkRows: a chunk's sums fit the 32-bit partials.
ScatterChunkRows(q) ==
    LET limit(p) == (IF Width(p) = "int32" THEN Int32Max ELSE FpExact) \div Max({Bound(p), 1})
    IN  Min({ChunkRows} \cup {Max({1, limit(p)}) : p \in IntSumPrograms(q)})

\* GroupedGpuScatter of one chunk: the values of a program go to the integer or to the
\* float partials; MIN and MAX are left out.
Scattered(q, a, rows, seen) ==
    LET width(slot) == Width(q.programs[slot[2]])
        sum(slot) == Folded(q, slot, 0, rows, seen, width(slot))
        sums(slot) == Kind(q, slot) \in Sums
    IN  [open |-> a.open,
         rows |-> [g \in Groups(q) |-> a.rows[g] + RowCount(q, g, rows)],
         counts |-> [slot \in Slots(q) |-> a.counts[slot] +
            (IF sums(slot) \/ Kind(q, slot) = "COUNT" THEN Count(q, slot, rows, seen) ELSE 0)],
         isums |-> [slot \in Slots(q) |->
            IF sums(slot) /\ width(slot) = "int32" THEN Wrap(a.isums[slot] + sum(slot)) ELSE a.isums[slot]],
         fsums |-> [slot \in Slots(q) |->
            IF sums(slot) /\ width(slot) # "int32" THEN Float(a.fsums[slot] + sum(slot)) ELSE a.fsums[slot]]]

Wide(q, width) == {slot \in Slots(q) : Kind(q, slot) \in Sums /\ Width(q.programs[slot[2]]) = width}

\* The int-lane sum a slot has on the device.
DeviceSum(q, a, slot) ==
    CASE slot \in Wide(q, "int32") -> a.isums[slot] [] slot \in Wide(q, "fp32") -> a.fsums[slot] [] OTHER -> 0

\* Mutant of FlushedAcc: the partials that were read stay.
FlushKeepsPartials(q, a) == a

\* GroupedGpuFlushPartials: the int-lane partials move to the host, and an array that
\* was read is zeroed, whole.
FlushedState(q, st, a) ==
    [st EXCEPT !.values = [slot \in Slots(q) |-> st.values[slot] + DeviceSum(q, a, slot)]]
FlushedAcc(q, a) ==
    [a EXCEPT !.isums = IF Wide(q, "int32") # {} THEN NoAcc(q).isums ELSE @,
              !.fsums = IF Wide(q, "fp32") # {} THEN NoAcc(q).fsums ELSE @]

\* GroupedCpuScatterInt: int-lane MIN and MAX, whose counts nobody updates.
CpuScattered(q, st, rows, seen) ==
    [st EXCEPT !.values = [slot \in Slots(q) |->
        IF q.programs[slot[2]].int_lane /\ Kind(q, slot) \in Extrema
        THEN Folded(q, slot, st.values[slot], rows, seen, "int64") ELSE st.values[slot]]]

\* GroupedGpuDownload: a last flush, then the row counts, counts and float sums.
Downloaded(q, st, a) ==
    LET host == FlushedState(q, st, a)
        device == FlushedAcc(q, a)
    IN  [rows |-> [g \in Groups(q) |-> host.rows[g] + device.rows[g]],
         counts |-> [slot \in Slots(q) |-> host.counts[slot] + device.counts[slot]],
         values |-> [slot \in Slots(q) |-> host.values[slot] +
            (IF q.programs[slot[2]].int_lane THEN 0 ELSE device.fsums[slot])]]

-----------------------------------------------------------------------------
(* What the execution promises *)

\* The keys a group's code is decomposed into.
KeysOf(q, g) ==
    LET below(k) == FoldLeft(LAMBDA n, c : n * c, 1, SubSeq(q.cards, k + 1, Len(q.cards)))
    IN  [k \in DOMAIN q.cards |-> ((g \div below(k)) % q.cards[k]) + q.offset]

\* Where the code gives a program the aggregate SQL asks for:
\*  - grouped MIN and MAX are counted only on the CPU path, and NULL elsewhere;
\*  - COUNT(x) is not filled in by the tile kernel's merge;
\*  - a DECIMAL program that 32-bit integers cannot hold is scattered as floats, and
\*    its flush zeroes the float programs of the query;
\*  - float programs are exact while their sums are.
Accurate(q, p) ==
    LET prog == q.programs[p]
        value(r) == prog.mult * q.rows[r].v
        sums == prog.kind \in Sums
        dense == Card(q) <= DenseReduceCard
        scatter == ~dense /\ Card(q) <= MaxScatterCard
        wide == IntSumPrograms(q) \cap {x \in Range(q.programs) : Width(x) = "fp32"}
    IN  /\ prog.kind \in Extrema => ~dense /\ ~scatter
        /\ prog.kind = "COUNT" => ~(dense /\ q.source = "fused" /\ TileEligible(q))
        /\ sums /\ ~prog.int_lane => MapThenSumSet(LAMBDA r : Abs(value(r)), Rows(q)) <= FpExact /\ (scatter => wide = {})
        /\ sums /\ Width(prog) = "fp32" /\ scatter => \A r \in Rows(q) : Float(value(r)) = value(r)

\* Queries whose keys floats tell apart, whose segments have a mask each or none, and
\* that the CPU path does not misread.
Sound(q) ==
    /\ Card(q) > MaxScatterCard => \A p \in IntSumPrograms(q) : Width(p) # "fp32"
    /\ \A k \in DOMAIN q.cards : q.offset + q.cards[k] - 1 <= FpExact
    /\ q.masked \in {{}, DOMAIN q.layout}

\* What the query asks for, as far as the code promises it.
Asked(q) ==
    LET additive == {p \in Progs(q) : Accurate(q, p) /\ q.programs[p].kind \in Sums \cup {"COUNT", "COUNT_STAR"}}
    IN  IF Sound(q)
        THEN [groups |-> Groups(q),
              programs |-> [p \in additive |-> q.programs[p].kind],
              rows |-> [r \in Rows(q) |->
                [group |-> IF q.rows[r].pass THEN CHOOSE g \in Groups(q) : KeysOf(q, g) = q.rows[r].keys ELSE Card(q),
                 counted |-> [p \in additive |-> q.programs[p].kind # "COUNT_STAR" /\ q.rows[r].valid],
                 value |-> [p \in additive |-> IF q.programs[p].kind \in Sums THEN q.programs[p].mult * q.rows[r].v ELSE 0]]]]
        ELSE [groups |-> {}, programs |-> <<>>, rows |-> <<>>]

-----------------------------------------------------------------------------
(* Execution *)

\* Two groups with keys at opposite ends of each key's range.  A key column that can
\* be NULL is declined by the planner.
LowKeys(cards, low) == [k \in DOMAIN cards |-> low + (IF k = 1 THEN 0 ELSE cards[k] - 1)]
HighKeys(cards, low) == [k \in DOMAIN cards |-> low + (IF k = 1 THEN cards[k] - 1 ELSE 0)]

RowKinds(cards, low) ==
    [keys : {LowKeys(cards, low), HighKeys(cards, low)}, pass : {TRUE}, valid : {TRUE}, v : Values]
        \cup {[keys |-> LowKeys(cards, low), pass |-> TRUE, valid |-> FALSE, v |-> 0],
              [keys |-> HighKeys(cards, low), pass |-> FALSE, valid |-> TRUE, v |-> Max(Values)]}

\* A planned query over a table.  A cold scan has applied the filter.  A segment has a
\* mask if it holds a NULL; when it was cut from a larger scan segment that does (whole),
\* all have one.  Pruning skips only segments without a selected row.
Init ==
    /\ \E cards \in Cards, low \in Offsets, programs \in Programs, source \in Sources, layout \in Layouts :
        \E rows \in [1 .. FoldLeft(+, 0, layout) -> RowKinds(cards, low)], whole, prune \in BOOLEAN :
            LET segs == DOMAIN layout
                table == [layout |-> layout]
                null == {s \in segs : \E r \in SegmentRows(table, s) : ~rows[r].valid}
                rejected == {s \in segs : \A r \in SegmentRows(table, s) : ~rows[r].pass}
            IN  /\ source = "cold" => ~prune /\ \A r \in DOMAIN rows : rows[r].pass
                /\ query = [cards |-> cards, offset |-> low, programs |-> programs, source |-> source,
                            layout |-> layout, rows |-> rows,
                            codes |-> [r \in DOMAIN rows |-> Code(cards, low, rows[r])],
                            masked |-> IF whole /\ null # {} THEN segs ELSE null,
                            pruned |-> IF prune THEN rejected ELSE {}]
    /\ pc = "init"
    /\ path = "none"
    /\ state = NoState(query)
    /\ acc = NoAcc(query)
    /\ pos = 1 /\ off = 0
    /\ batch = [begin |-> 1, rows |-> 0]
    /\ emitted = [g \in {} |-> 0]
    /\ cursor = 0
    /\ asked = Asked(query)

Go(to) == pc' = to

\* MlxGroupedInit, and the choice of MlxGroupedAccumulateCached: the fused columns are
\* read only by the dense reduction.
MlxGroupedInit ==
    /\ pc = "init"
    /\ path' = IF Card(query) <= DenseReduceCard THEN "dense"
               ELSE IF Card(query) <= MaxScatterCard THEN "scatter" ELSE "cpu"
    /\ acc' = [NoAcc(query) EXCEPT !.open = path' = "scatter"]
    /\ Go(IF query.source = "fused" /\ path' = "dense" THEN "fused"
          ELSE IF query.source # "cold" /\ path' = "dense" THEN "batch" ELSE "segment")
    /\ UNCHANGED <<query, state, pos, off, batch, emitted, cursor, asked>>

\* One dense reduction over the rows of some segments, or the error its mask raises.
DenseReduce(segments, to) ==
    IF MaskFits(query, segments)
    THEN /\ state' = DenseReduced(query, state, RowsOf(query, segments), Seen(query, segments))
         /\ Go(to)
    ELSE /\ UNCHANGED state
         /\ Go("error")

\* All columns are fused: one segment of all rows.  The tile kernel reads its mask by
\* row number without a length check, so what it sees past a short mask is anything.
TileReduce ==
    /\ pc = "fused"
    /\ TileEligible(query) /\ TileFits(query)
    /\ LET rows == Rows(query)
           mask == MaskArray(query, DOMAIN query.layout)
       IN  \E beyond \in [Len(mask) + 1 .. Len(query.rows) -> IF mask = <<>> THEN {TRUE} ELSE BOOLEAN] :
            state' = TileReduced(query, state, rows,
                        [r \in rows |-> IF r <= Len(mask) THEN mask[r] ELSE beyond[r]])
    /\ Go("finish")
    /\ UNCHANGED <<query, path, acc, pos, off, batch, emitted, cursor, asked>>

\* The dense reduction where the tile kernel is not eligible, or threw: too many value
\* programs, or no such kernel on this machine.
FusedReduce ==
    /\ pc = "fused"
    /\ DenseReduce(DOMAIN query.layout, "finish")
    /\ UNCHANGED <<query, path, acc, pos, off, batch, emitted, cursor, asked>>

\* The cached segments in batches of at most BatchRows rows: one iteration of the loop
\* over the segments, flush_batch included.
BatchSegment ==
    /\ pc = "batch"
    /\ pos <= Len(query.layout)
    /\ LET n == query.layout[pos]
           kept == n > 0 /\ pos \notin query.pruned
           full == kept /\ batch.rows > 0 /\ batch.rows + n > BatchRows
           flush == batch.rows > 0 /\ (full \/ ~kept)
       IN  /\ IF flush THEN DenseReduce(batch.begin .. pos - 1, "batch") ELSE UNCHANGED <<state, pc>>
           /\ batch' = IF ~kept THEN [begin |-> pos, rows |-> 0]
                       ELSE IF batch.rows = 0 \/ full THEN [begin |-> pos, rows |-> n]
                       ELSE [batch EXCEPT !.rows = @ + n]
    /\ pos' = pos + 1
    /\ UNCHANGED <<query, path, acc, off, emitted, cursor, asked>>

LastBatch ==
    /\ pc = "batch"
    /\ pos > Len(query.layout)
    /\ IF batch.rows > 0 THEN DenseReduce(batch.begin .. pos - 1, "finish")
       ELSE Go("finish") /\ UNCHANGED state
    /\ batch' = [begin |-> pos, rows |-> 0]
    /\ UNCHANGED <<query, path, acc, pos, off, emitted, cursor, asked>>

\* The other sources add one segment after the other.
Skipped == query.layout[pos] = 0 \/ pos \in query.pruned

SkipSegment ==
    /\ pc = "segment"
    /\ pos <= Len(query.layout)
    /\ Skipped
    /\ pos' = pos + 1
    /\ UNCHANGED <<query, pc, path, state, acc, off, batch, emitted, cursor, asked>>

DenseSegment ==
    /\ pc = "segment"
    /\ pos <= Len(query.layout)
    /\ ~Skipped
    /\ path = "dense"
    /\ DenseReduce({pos}, "segment")
    /\ pos' = pos + 1
    /\ UNCHANGED <<query, path, acc, off, batch, emitted, cursor, asked>>

\* The threads read 32-bit floats as 64-bit integers: undefined.
CpuSegment ==
    /\ pc = "segment"
    /\ pos <= Len(query.layout)
    /\ ~Skipped
    /\ path = "cpu"
    /\ IF Wide(query, "fp32") = {}
       THEN /\ state' = CpuReduced(query, state, SegmentRows(query, pos), Seen(query, {pos}))
            /\ Go("segment")
       ELSE Go("undefined") /\ UNCHANGED state
    /\ pos' = pos + 1
    /\ UNCHANGED <<query, path, acc, off, batch, emitted, cursor, asked>>

\* The scatter path: chunks of a segment, each flushed, then the MIN and MAX programs.
Chunk(q, s, o) ==
    LET first == SegmentEnd(q.layout, s - 1) + o + 1
    IN  (first .. first + ScatterChunkRows(q) - 1) \cap SegmentRows(q, s)

ScatterChunk ==
    /\ pc = "segment"
    /\ pos <= Len(query.layout)
    /\ ~Skipped
    /\ path = "scatter"
    /\ off < query.layout[pos]
    /\ acc' = Scattered(query, acc, Chunk(query, pos, off), Seen(query, {pos}))
    /\ off' = Min({off + ScatterChunkRows(query), query.layout[pos]})
    /\ Go("flush")
    /\ UNCHANGED <<query, path, state, pos, batch, emitted, cursor, asked>>

FlushPartials ==
    /\ pc = "flush"
    /\ state' = FlushedState(query, state, acc)
    /\ acc' = FlushedAcc(query, acc)
    /\ Go("segment")
    /\ UNCHANGED <<query, path, pos, off, batch, emitted, cursor, asked>>

ScatterRest ==
    /\ pc = "segment"
    /\ pos <= Len(query.layout)
    /\ ~Skipped
    /\ path = "scatter"
    /\ off = query.layout[pos]
    /\ state' = CpuScattered(query, state, SegmentRows(query, pos), Seen(query, {pos}))
    /\ pos' = pos + 1
    /\ off' = 0
    /\ UNCHANGED <<query, pc, path, acc, batch, emitted, cursor, asked>>

\* MlxGroupedGpuFinish
Finish ==
    /\ \/ pc = "finish"
       \/ pc = "segment" /\ pos > Len(query.layout)
    /\ state' = IF acc.open THEN Downloaded(query, state, acc) ELSE state
    /\ acc' = NoAcc(query)
    /\ Go("emit")
    /\ UNCHANGED <<query, path, pos, off, batch, emitted, cursor, asked>>

\* What is emitted for a program of a group.
Rendered(q, st, g, p) ==
    LET kind == q.programs[p].kind
        count == st.counts[<<g, p>>]
        value == st.values[<<g, p>>]
    IN  CASE kind = "COUNT_STAR" -> st.rows[g]
          [] kind = "COUNT" -> count
          [] count = 0 -> "NULL"
          [] kind = "AVG" -> <<value, count>>
          [] OTHER -> value

\* One call of GetData: the next VectorSize groups that have a row.  Only a call that
\* finds none ends the source.
EmitVector ==
    /\ pc = "emit"
    /\ LET live == {g \in Groups(query) : g >= cursor /\ state.rows[g] # 0}
           now == {g \in live : Cardinality({h \in live : h <= g}) <= VectorSize}
       IN  /\ emitted' = [k \in DOMAIN emitted \cup {KeysOf(query, g) : g \in now} |->
                IF k \in DOMAIN emitted THEN emitted[k]
                ELSE LET g == CHOOSE g \in now : KeysOf(query, g) = k
                     IN  [p \in Progs(query) |-> Rendered(query, state, g, p)]]
           /\ cursor' = IF Cardinality(now) = VectorSize THEN Max(now) + 1 ELSE Card(query)
           /\ Go(IF now = {} THEN "done" ELSE "emit")
    /\ UNCHANGED <<query, path, state, acc, pos, off, batch, asked>>

Next ==
    \/ MlxGroupedInit
    \/ TileReduce
    \/ FusedReduce
    \/ BatchSegment
    \/ LastBatch
    \/ SkipSegment
    \/ DenseSegment
    \/ CpuSegment
    \/ ScatterChunk
    \/ FlushPartials
    \/ ScatterRest
    \/ Finish
    \/ EmitVector

Spec == Init /\ [][Next]_vars /\ WF_vars(Next)

-----------------------------------------------------------------------------
(* Properties *)

\* A program's aggregate over a group, by definition.
Reference(q, keys, p) ==
    LET prog == q.programs[p]
        mine == {r \in Rows(q) : q.rows[r].pass /\ q.rows[r].keys = keys}
        counted == {r \in mine : q.rows[r].valid}
        values == {prog.mult * q.rows[r].v : r \in counted}
        sum == MapThenSumSet(LAMBDA r : prog.mult * q.rows[r].v, counted)
    IN  CASE prog.kind = "COUNT_STAR" -> Cardinality(mine)
          [] prog.kind = "COUNT" -> Cardinality(counted)
          [] counted = {} -> "NULL"
          [] prog.kind = "SUM" -> sum
          [] prog.kind = "AVG" -> <<sum, Cardinality(counted)>>
          [] prog.kind = "MIN" -> Min(values)
          [] prog.kind = "MAX" -> Max(values)

\* When the last vector has been emitted, the emitted groups are exactly the groups
\* of the selected rows, and every accurate aggregate has its SQL value, whichever
\* accumulator, source, segmentation, chunk and pruning the rows went through.
GroupsExact ==
    pc = "done" /\ Sound(query) =>
        /\ DOMAIN emitted = {query.rows[r].keys : r \in {r \in Rows(query) : query.rows[r].pass}}
        /\ \A k \in DOMAIN emitted, p \in Progs(query) :
            Accurate(query, p) => emitted[k][p] = Reference(query, k, p)

\* Every execution ends; the scatter loop in particular advances whatever the bound
\* of a program's values.
ExecutionEnds == <>(pc \in {"done", "error", "undefined"})

\* The refinement mapping.  Rows whose sums are in the state or in the accumulator
\* have been added; the totals of a group are the two together.
Added ==
    CASE pc \in {"init", "fused"} -> {}
      [] pc = "batch" -> RowsOf(query, 1 .. (IF batch.rows > 0 THEN batch.begin ELSE pos) - 1)
      [] pc \in {"segment", "flush"} /\ pos <= Len(query.layout) ->
            1 .. SegmentEnd(query.layout, pos - 1) + off
      [] OTHER -> Rows(query)

Totals ==
    [g \in asked.groups |->
        [rows |-> state.rows[g] + acc.rows[g],
         count |-> [p \in DOMAIN asked.programs |-> state.counts[<<g, p>>] + acc.counts[<<g, p>>]],
         sum |-> [p \in DOMAIN asked.programs |->
            state.values[<<g, p>>] + (IF query.programs[p].int_lane THEN DeviceSum(query, acc, <<g, p>>)
                                      ELSE acc.fsums[<<g, p>>])]]]

Aggregation == INSTANCE GroupedAggregation WITH
    input <- asked,
    left <- DOMAIN asked.rows \ Added,
    total <- Totals,
    emitted <- [g \in {g \in asked.groups : KeysOf(query, g) \in DOMAIN emitted} |->
                    Restrict(emitted[KeysOf(query, g)], DOMAIN asked.programs)]

\* The execution implements the abstract aggregation: every scatter, batch and
\* reduction adds rows exactly once to host state and device partials together,
\* flushes and the download move sums and change none, and emission starts with
\* the last row in.
ImplementsAggregation == Aggregation!AbstractSpec

=============================================================================
