----------------------------- MODULE MlxTileReduce -----------------------------
(***************************************************************************)
(* The reduction kernels: threadgroups of Lanes threads scan their share   *)
(* of the rows into thread-local accumulators, add these up through shared *)
(* memory in a tree, a batch of accumulators at a time with a barrier      *)
(* after every step, and write one partial per threadgroup; a second       *)
(* launch, one threadgroup per accumulator, adds up the partials.          *)
(*                                                                         *)
(*   "tile", "packed"   a threadgroup per TileRows rows                    *)
(*   "q1_fused"         at most MaxQ1Grid threadgroups, grid stride        *)
(*   "q1_dedicated"     at most MaxQ1Grid threadgroups, TileRows rows each *)
(*   "stream"           at most MaxSumGrid threadgroups; sum, and the      *)
(*                      sum/min/max/count kernel, of a whole column        *)
(*                                                                         *)
(* Abstraction.  An accumulator holds how often it added each row; what    *)
(* the rows' values are does not matter to whether every row is added once.*)
(* Threadgroups share nothing, so they run one after the other; the        *)
(* threads of one interleave.  A thread's work between two barriers is one *)
(* step, which RaceFree justifies.                                         *)
(***************************************************************************)
EXTENDS Integers, Sequences, FiniteSets, FiniteSetsExt, Functions

CONSTANTS
    Kernels,
    Tables,                  \* lists of rows: group code, filter verdict, NULL mask
    Card,                    \* groups
    Lanes,                   \* 256, a power of two
    ReduceBatch,             \* 4 accumulators share a buffer
    TileRows,                \* 131072
    MaxQ1Grid, MaxSumGrid    \* 256, 4096 threadgroups

ASSUME TileAssumption ==
    /\ \E k \in 1 .. 8 : Lanes = 2 ^ k
    /\ {Card, ReduceBatch, TileRows, MaxQ1Grid, MaxSumGrid} \subseteq Nat \ {0}
    /\ \A table \in Tables : table \in Seq([code : Nat, pass : BOOLEAN, valid : BOOLEAN])

VARIABLES
    kernel, rows,    \* the kernel and its input
    launch,          \* 1: over the rows, 2: over the partials, 3: finished
    block,           \* the threadgroup that runs
    phase,           \* lane -> steps done, one between every two barriers
    local,           \* lane -> thread-local accumulators
    shared,          \* the threadgroup buffers: batch position -> lane -> value
    sums,            \* the results of this threadgroup
    partials,        \* threadgroup -> its results
    final

vars == <<kernel, rows, launch, block, phase, local, shared, sums, partials, final>>

-----------------------------------------------------------------------------

Lane == 0 .. Lanes - 1
Groups == 0 .. Card - 1
RowIds == DOMAIN rows
CeilDiv(a, b) == (a + b - 1) \div b

Nothing == [r \in RowIds |-> 0]
Plus(a, b) == [r \in RowIds |-> a[r] + b[r]]

\* PickSumGrid, PickQ1Grid, and the tile kernels' one threadgroup per tile.
Grid ==
    CASE kernel = "stream" -> Min({Max({CeilDiv(Len(rows), Lanes), 1}), MaxSumGrid})
      [] kernel \in {"q1_fused", "q1_dedicated"} -> Min({Max({CeilDiv(Len(rows), TileRows), 1}), MaxQ1Grid})
      [] OTHER -> CeilDiv(Len(rows), TileRows)

\* The rows a thread looks at.  The tile kernels split a tile among the threads of a
\* threadgroup, the others stride over the column.  The stream kernels' stride is 256
\* times threads_per_grid, which counts threads already.
Scanned(b, l) ==
    LET first == IF kernel \in {"stream", "q1_fused"} THEN b * Lanes + l ELSE b * TileRows + l
        step == IF kernel = "stream" THEN Lanes * Grid * Lanes ELSE IF kernel = "q1_fused" THEN Grid * Lanes ELSE Lanes
        end == IF kernel \in {"stream", "q1_fused"} THEN Len(rows) ELSE Min({Len(rows), (b + 1) * TileRows})
    IN  {r \in RowIds : \E k \in 0 .. Len(rows) : r - 1 = first + k * step /\ r - 1 < end}

\* The accumulators in the order they are reduced: first the values' (with their counts),
\* then the groups' row counts; the stream kernels have one.
Cells == IF kernel = "stream" THEN <<[kind |-> "value", group |-> 0]>>
         ELSE [c \in 1 .. 2 * Card |-> IF c <= Card THEN [kind |-> "value", group |-> c - 1]
                                                    ELSE [kind |-> "rows", group |-> c - Card - 1]]

\* Does a scanned row go to a cell?  Rows the filter rejects or with a code out of range
\* are skipped; only the tile kernel has NULL masks.
Adds(row, cell) ==
    \/ kernel = "stream"
    \/ /\ row.pass /\ row.code = cell.group
       /\ kernel = "tile" /\ cell.kind = "value" => row.valid

\* The accumulators reduced together: batches of values, then batches of row counts.
Batches ==
    IF kernel = "stream" \/ launch = 2 THEN <<<<1>>>>
    ELSE LET n == CeilDiv(Card, ReduceBatch)
             batch(i, base) == [j \in 1 .. Min({ReduceBatch, Card - i * ReduceBatch}) |-> base + i * ReduceBatch + j]
         IN  [i \in 1 .. 2 * n |-> IF i <= n THEN batch(i - 1, 0) ELSE batch(i - n - 1, Card)]

\* The steps of a batch, a barrier after each: load the buffers, add in halves, copy.
Halvings == CHOOSE k \in 0 .. 8 : 2 ^ k = Lanes
StepsPerBatch == Halvings + 2
Batch(p) == Batches[p \div StepsPerBatch + 1]
Step(p) == p % StepsPerBatch
Last == Len(Batches) * StepsPerBatch     \* then thread 0 writes the partial

Offset(step) == Lanes \div 2 ^ step

-----------------------------------------------------------------------------

\* Pass 1: the scan.  Pass 2: the threadgroup of one accumulator adds up the partials.
Scan(b) ==
    [l \in Lane |-> [c \in DOMAIN Cells |->
        [r \in RowIds |-> IF r \in Scanned(b, l) /\ Adds(rows[r], Cells[c]) THEN 1 ELSE 0]]]

Share(found, l) == {t \in 0 .. Len(found) - 1 : t % Lanes = l}
ShareSum(found, l, c, r) == MapThenSumSet(LAMBDA t : found[t + 1][c][r], Share(found, l))

Collect(c, found) == [l \in Lane |-> <<[r \in RowIds |-> ShareSum(found, l, c, r)]>>]

NoBuffers == [i \in 1 .. ReduceBatch |-> [l \in Lane |-> Nothing]]

Start(k, table) ==
    /\ kernel = k /\ rows = table /\ launch = 1 /\ block = 0
    /\ phase = [l \in Lane |-> 0]
    /\ local = Scan(0)
    /\ shared = NoBuffers
    /\ sums = [c \in DOMAIN Cells |-> Nothing]
    /\ partials = <<>>
    /\ final = <<>>

\* An empty column launches nothing.
Init == \E k \in Kernels, table \in Tables : Start(k, table)

\* Mutants of Barrier: none after the buffers are loaded; in a halving, only for the
\* threads that add.
NoLoadBarrier(l) == Step(phase[l]) = 1 \/ \A m \in Lane : phase[m] >= phase[l]
BarrierInBranch(l) ==
    /\ \A m \in Lane : phase[m] >= phase[l]
    /\ Step(phase[l]) \in 1 .. Halvings => l < Offset(Step(phase[l]))

\* threadgroup_barrier: no thread goes on before all have come as far.
Barrier(l) == \A m \in Lane : phase[m] >= phase[l]

\* Mutant of Folds: one thread too many takes part in a halving.
FoldsOneMore(l, step) == l <= Offset(step)

\* tg_tree_add_n: the threads below the offset add the values above it.
Folds(l, step) == l < Offset(step)

\* What a thread reads and writes in the shared buffers in its next step.
Adding(l) == Step(phase[l]) \in 1 .. Halvings /\ Folds(l, Step(phase[l]))
Writes(l) == IF phase[l] < Last /\ (Step(phase[l]) = 0 \/ Adding(l)) THEN {l} ELSE {}
Reads(l) ==
    IF phase[l] = Last THEN {}
    ELSE IF Adding(l) THEN {l, l + Offset(Step(phase[l]))}
    ELSE IF Step(phase[l]) = Halvings + 1 /\ l = 0 THEN {0} ELSE {}

Load(l) ==
    /\ phase[l] < Last /\ Step(phase[l]) = 0 /\ Barrier(l)
    /\ shared' = [i \in DOMAIN shared |->
            IF i \in DOMAIN Batch(phase[l]) THEN [shared[i] EXCEPT ![l] = local[l][Batch(phase[l])[i]]] ELSE shared[i]]
    /\ phase' = [phase EXCEPT ![l] = @ + 1]
    /\ UNCHANGED <<kernel, rows, launch, block, local, sums, partials, final>>

TreeAdd(l) ==
    /\ phase[l] < Last /\ Step(phase[l]) \in 1 .. Halvings /\ Barrier(l)
    /\ shared' = [i \in DOMAIN shared |->
            IF i \in DOMAIN Batch(phase[l]) /\ Folds(l, Step(phase[l])) /\ l + Offset(Step(phase[l])) \in Lane
            THEN [shared[i] EXCEPT ![l] = Plus(@, shared[i][l + Offset(Step(phase[l]))])] ELSE shared[i]]
    /\ phase' = [phase EXCEPT ![l] = @ + 1]
    /\ UNCHANGED <<kernel, rows, launch, block, local, sums, partials, final>>

\* Thread 0 keeps the sums of the batch.
Copy(l) ==
    /\ phase[l] < Last /\ Step(phase[l]) = Halvings + 1 /\ Barrier(l)
    /\ sums' = IF l # 0 THEN sums
               ELSE [c \in DOMAIN sums |->
                        IF \E i \in DOMAIN Batch(phase[l]) : Batch(phase[l])[i] = c
                        THEN shared[CHOOSE i \in DOMAIN Batch(phase[l]) : Batch(phase[l])[i] = c][0] ELSE sums[c]]
    /\ phase' = [phase EXCEPT ![l] = @ + 1]
    /\ UNCHANGED <<kernel, rows, launch, block, local, shared, partials, final>>

\* The threadgroup has written its partial; the next one starts, with fresh threads, or
\* the second launch does.
NextBlock ==
    /\ launch = 1 /\ \A l \in Lane : phase[l] = Last
    /\ LET found == Append(partials, sums)
           more == block + 1 < Grid
       IN  /\ partials' = found
           /\ launch' = IF more THEN 1 ELSE 2
           /\ block' = IF more THEN block + 1 ELSE 0
           /\ local' = IF more THEN Scan(block + 1) ELSE Collect(1, found)
    /\ phase' = [l \in Lane |-> 0]
    /\ sums' = [c \in DOMAIN Cells |-> Nothing]
    /\ UNCHANGED <<kernel, rows, shared, final>>

NextCell ==
    /\ launch = 2 /\ \A l \in Lane : phase[l] = Last
    /\ LET more == block + 1 < Len(Cells)
       IN  /\ final' = Append(final, sums[1])
           /\ launch' = IF more THEN 2 ELSE 3
           /\ block' = IF more THEN block + 1 ELSE block
           /\ local' = IF more THEN Collect(block + 2, partials) ELSE local
    /\ phase' = [l \in Lane |-> 0]
    /\ sums' = [c \in DOMAIN Cells |-> Nothing]
    /\ UNCHANGED <<kernel, rows, shared, partials>>

Next ==
    \/ launch # 3 /\ \E l \in Lane : Load(l) \/ TreeAdd(l) \/ Copy(l)
    \/ NextBlock
    \/ NextCell

\* The GPU runs every thread of a threadgroup, and every threadgroup of a launch.
Spec == Init /\ [][Next]_vars /\ WF_vars(Next)

-----------------------------------------------------------------------------
(* Properties *)

\* Between two barriers no thread touches a buffer another one writes: the steps of the
\* threads commute, and the result does not depend on the schedule.
RaceFree ==
    launch # 3 =>
        \A l, m \in Lane : l # m /\ Barrier(l) /\ Barrier(m) /\ phase[l] = phase[m] =>
            Writes(l) \cap (Reads(m) \cup Writes(m)) = {}

\* Every accumulator ends with each of its rows added once.
Exact ==
    \A c \in DOMAIN final : final[c] = [r \in RowIds |-> IF Adds(rows[r], Cells[c]) THEN 1 ELSE 0]

\* Where the launch covers the column: always for the tile and the grid-stride kernels; up
\* to MaxQ1Grid tiles and MaxSumGrid threadgroups for the other two.
Covered ==
    /\ kernel = "q1_dedicated" => Len(rows) <= MaxQ1Grid * TileRows
    /\ kernel = "stream" => Len(rows) <= MaxSumGrid * Lanes

\* The batches, barriers and the two passes lose no row and add none twice, whatever the
\* order the threads run in.
ReductionExact == Covered => Exact

\* Every launch ends: no thread waits for good at a barrier.
KernelEnds == <>(launch = 3)

=============================================================================
