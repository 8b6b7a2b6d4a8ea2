-------------------------- MODULE MlxTileReduceProofs --------------------------
(***************************************************************************)
(* Proofs about the reduction kernels of MlxTileReduce, for every table,   *)
(* number of groups, batch and tile size, and for every power of two       *)
(* Lanes up to 256:                                                        *)
(*                                                                         *)
(*   RaceFreedom    no thread touches a buffer another one writes          *)
(*   Exactness      every accumulator ends with each of its rows added once*)
(*                                                                         *)
(* The argument for the second.  A row is scanned by at most one thread of *)
(* at most one threadgroup, so in every accumulator it is held by one lane *)
(* at most (LocalUnit).  After t halvings the rows held by lane m have     *)
(* come to lane m % Offset(t) (LaneOK); a lane a halving leaves out keeps  *)
(* its value, so a thread reads the same whether the other one is still    *)
(* before this barrier or just behind it.  After the last halving all are  *)
(* in lane 0 (SumsOK), for a threadgroup of rows (PartialsOK) and for one  *)
(* of partials (FinalOK) alike.                                            *)
(***************************************************************************)
EXTENDS MlxTileReduce, MlxProofBasics

-----------------------------------------------------------------------------
(* The inductive invariant *)

\* The accumulators a thread has in this launch.
LocalCells == IF launch = 1 THEN DOMAIN Cells ELSE {1}

\* Is r a row of cell c that a thread of threadgroup b scans?
ScannedIn(b, c, r) == Adds(rows[r], Cells[c]) /\ \E l \in Lane : r \in Scanned(b, l)
Indicator(b, c) == [r \in RowIds |-> IF ScannedIn(b, c, r) THEN 1 ELSE 0]

\* The rows of cell c that the grid scans.
Counted(c) == [r \in RowIds |-> IF \E b \in 0 .. Grid - 1 : ScannedIn(b, c, r) THEN 1 ELSE 0]

\* The rows of cell c that lanes congruent to l hold.
Held(o, l, c) == [r \in RowIds |-> IF \E m \in Lane : m % o = l /\ local[m][c][r] = 1 THEN 1 ELSE 0]

\* The barriers keep the threads within a step of each other.
PhasesOK ==
    /\ launch \in 1 .. 3 /\ block \in Nat
    /\ rows \in Seq([code : Nat, pass : BOOLEAN, valid : BOOLEAN])
    /\ phase \in [Lane -> Nat]
    /\ \A l \in Lane : launch # 3 => phase[l] <= Last
    /\ \A l, m \in Lane : phase[l] <= phase[m] + 1

\* A row is held by one lane at most.
LocalUnit ==
    launch # 3 =>
    /\ \A l \in Lane, c \in LocalCells : local[l][c] \in [RowIds -> {0, 1}]
    /\ \A l, m \in Lane, c \in LocalCells, r \in RowIds : local[l][c][r] = 1 /\ local[m][c][r] = 1 => l = m

\* After step s of a batch lane l has the rows of the last halving that it took part in.
LaneOK(l) ==
    Step(phase[l]) >= 1 =>
        \A i \in DOMAIN Batch(phase[l]), t \in 0 .. Step(phase[l]) - 1 :
            l < Offset(t) /\ (t = Step(phase[l]) - 1 \/ l >= Offset(t + 1)) =>
                shared[i][l] = Held(Offset(t), l, Batch(phase[l])[i])

SharedOK ==
    /\ shared \in [1 .. ReduceBatch -> [Lane -> [RowIds -> Nat]]]
    /\ launch # 3 => \A l \in Lane : LaneOK(l)

\* The batches thread 0 has copied are complete.
SumsOK ==
    /\ sums \in [DOMAIN Cells -> [RowIds -> Nat]]
    /\ launch # 3 =>
         \A q \in 1 .. Len(Batches) : \A i \in DOMAIN Batches[q] :
            phase[0] >= q * StepsPerBatch => sums[Batches[q][i]] = Held(1, 0, Batches[q][i])

\* Every threadgroup's partial counts what it scanned.
PartialsOK ==
    /\ partials \in Seq([DOMAIN Cells -> [RowIds -> Nat]])
    /\ \A b \in 1 .. Len(partials), c \in DOMAIN Cells : partials[b][c] = Indicator(b - 1, c)
    /\ launch = 1 => /\ Len(partials) = block
                     /\ RowIds # {} => block < Grid
                     /\ local = Scan(block)
    /\ launch # 1 /\ RowIds # {} => Len(partials) = Grid
    /\ launch = 2 => block < Len(Cells) /\ local = Collect(block + 1, partials)

\* Every result counts what the grid scanned.
FinalOK ==
    /\ final \in Seq([RowIds -> Nat]) /\ Len(final) <= Len(Cells)
    /\ launch = 1 => Len(final) = 0
    /\ launch = 2 => Len(final) = block
    /\ \A c \in 1 .. Len(final) : final[c] = Counted(c)

TileInv == PhasesOK /\ LocalUnit /\ SharedOK /\ SumsOK /\ PartialsOK /\ FinalOK

-----------------------------------------------------------------------------
(* Steps and offsets *)

LEMMA ConstantsOK ==
    /\ Card \in Nat \ {0} /\ ReduceBatch \in Nat \ {0} /\ TileRows \in Nat \ {0}
    /\ MaxQ1Grid \in Nat \ {0} /\ MaxSumGrid \in Nat \ {0}
BY TileAssumption

LEMMA PowersOfTwo ==
    ASSUME NEW k \in 0 .. 8
    PROVE  <<k, 2 ^ k>> \in {<<0, 1>>, <<1, 2>>, <<2, 4>>, <<3, 8>>, <<4, 16>>,
                              <<5, 32>>, <<6, 64>>, <<7, 128>>, <<8, 256>>}
<1>1. /\ 2 ^ 0 = 1 /\ 2 ^ 1 = 2 /\ 2 ^ 2 = 4 /\ 2 ^ 3 = 8 /\ 2 ^ 4 = 16
      /\ 2 ^ 5 = 32 /\ 2 ^ 6 = 64 /\ 2 ^ 7 = 128 /\ 2 ^ 8 = 256
  OBVIOUS
<1>2. CASE k = 0
  BY <1>1, <1>2, Zenon
<1>3. CASE k = 1
  BY <1>1, <1>3, Zenon
<1>4. CASE k = 2
  BY <1>1, <1>4, Zenon
<1>5. CASE k = 3
  BY <1>1, <1>5, Zenon
<1>6. CASE k = 4
  BY <1>1, <1>6, Zenon
<1>7. CASE k = 5
  BY <1>1, <1>7, Zenon
<1>8. CASE k = 6
  BY <1>1, <1>8, Zenon
<1>9. CASE k = 7
  BY <1>1, <1>9, Zenon
<1>10. CASE k = 8
  BY <1>1, <1>10, Zenon
<1> QED BY <1>2, <1>3, <1>4, <1>5, <1>6, <1>7, <1>8, <1>9, <1>10

\* The number of halvings is the logarithm of Lanes.
LEMMA HalvingsOK ==
    /\ Halvings \in 1 .. 8 /\ 2 ^ Halvings = Lanes /\ Lanes \in Nat \ {0}
    /\ StepsPerBatch \in Nat \ {0} /\ StepsPerBatch = Halvings + 2
<1>1. PICK k \in 1 .. 8 : Lanes = 2 ^ k
  BY TileAssumption
<1>2. k \in 0 .. 8 /\ 2 ^ k = Lanes
  BY <1>1
<1>3. Halvings \in 0 .. 8 /\ 2 ^ Halvings = Lanes
  BY <1>2 DEF Halvings
<1>4. Lanes \in {2, 4, 8, 16, 32, 64, 128, 256}
  <2>1. <<k, 2 ^ k>> \in {<<0, 1>>, <<1, 2>>, <<2, 4>>, <<3, 8>>, <<4, 16>>,
                          <<5, 32>>, <<6, 64>>, <<7, 128>>, <<8, 256>>}
    BY <1>2, PowersOfTwo, Zenon
  <2> QED BY <2>1, <1>1
<1>5. Halvings # 0
  <2>1. 2 ^ 0 = 1
    OBVIOUS
  <2>2. Halvings = 0 => Lanes = 1
    BY <2>1, <1>3, Zenon
  <2> QED BY <2>2, <1>4
<1> QED BY <1>3, <1>4, <1>5 DEF StepsPerBatch

\* Each offset is half of the one before; the first is Lanes, the last is 1.
LEMMA OffsetOK ==
    /\ Offset(0) = Lanes /\ Offset(Halvings) = 1
    /\ \A t \in 0 .. Halvings : Offset(t) \in 1 .. Lanes
    /\ \A t \in 1 .. Halvings : Offset(t - 1) = 2 * Offset(t)
    /\ \A t, u \in 0 .. Halvings : t <= u => Offset(u) <= Offset(t)
<1>1. /\ Offset(0) = Lanes \div 1 /\ Offset(1) = Lanes \div 2 /\ Offset(2) = Lanes \div 4
      /\ Offset(3) = Lanes \div 8 /\ Offset(4) = Lanes \div 16 /\ Offset(5) = Lanes \div 32
      /\ Offset(6) = Lanes \div 64 /\ Offset(7) = Lanes \div 128 /\ Offset(8) = Lanes \div 256
  BY DEF Offset
<1>3. CASE Halvings = 1
  BY <1>1, <1>3, HalvingsOK, PowersOfTwo
<1>4. CASE Halvings = 2
  BY <1>1, <1>4, HalvingsOK, PowersOfTwo
<1>5. CASE Halvings = 3
  BY <1>1, <1>5, HalvingsOK, PowersOfTwo
<1>6. CASE Halvings = 4
  BY <1>1, <1>6, HalvingsOK, PowersOfTwo
<1>7. CASE Halvings = 5
  BY <1>1, <1>7, HalvingsOK, PowersOfTwo
<1>8. CASE Halvings = 6
  BY <1>1, <1>8, HalvingsOK, PowersOfTwo
<1>9. CASE Halvings = 7
  BY <1>1, <1>9, HalvingsOK, PowersOfTwo
<1>10. CASE Halvings = 8
  BY <1>1, <1>10, HalvingsOK, PowersOfTwo
<1> QED BY <1>3, <1>4, <1>5, <1>6, <1>7, <1>8, <1>9, <1>10, HalvingsOK

LEMMA LaneOf == Lane = 0 .. Lanes - 1 /\ 0 \in Lane
BY HalvingsOK DEF Lane

-----------------------------------------------------------------------------
(* The grid: who scans a row *)

LEMMA MinMaxOK ==
    ASSUME NEW a \in Int, NEW b \in Int
    PROVE  /\ Min({a, b}) = IF a <= b THEN a ELSE b
           /\ Max({a, b}) = IF a >= b THEN a ELSE b
BY DEF Min, Max

LEMMA CeilDivOK ==
    ASSUME NEW a \in Nat, NEW b \in Nat \ {0}
    PROVE  /\ CeilDiv(a, b) \in Nat
           /\ \A x \in 0 .. a - 1 : x \div b < CeilDiv(a, b)
           /\ a > 0 => CeilDiv(a, b) > 0
           /\ \A n \in Nat : a <= n * b => CeilDiv(a, b) <= n
           /\ a <= CeilDiv(a, b) * b
<1> DEFINE n == CeilDiv(a, b)
           r == (a + b - 1) % b
<1>0. a + b - 1 \in Nat
  OBVIOUS
<1>1. n \in Nat /\ r \in 0 .. b - 1 /\ a + b - 1 = n * b + r
  BY <1>0, DivModOf DEF CeilDiv
<1> HIDE DEF n, r
<1>2. a <= n * b
  BY <1>1
<1>3. ASSUME NEW x \in 0 .. a - 1 PROVE x \div b < n
  <2> DEFINE q == x \div b
             s == x % b
  <2>0. x \in Nat
    OBVIOUS
  <2>1. q \in Nat /\ s \in 0 .. b - 1 /\ x = q * b + s
    BY <2>0, DivModOf
  <2> HIDE DEF q, s
  <2>2. q * b < n * b
    BY <2>1, <1>2, <1>1
  <2>3. q < n
    <3> SUFFICES ASSUME n <= q PROVE FALSE
      BY <2>1, <1>1
    <3>1. n * b <= q * b
      BY <2>1, <1>1
    <3> QED BY <3>1, <2>2, <2>1, <1>1
  <2> QED BY <2>3 DEF q
<1>4. ASSUME NEW m \in Nat, a <= m * b PROVE n <= m
  <2> SUFFICES ASSUME n >= m + 1 PROVE FALSE
    BY <1>1
  <2>1. n * b >= (m + 1) * b
    BY <1>1
  <2> QED BY <2>1, <1>1, <1>4
<1>5. a > 0 => n > 0
  BY <1>1, <1>2
<1> QED BY <1>1, <1>2, <1>3, <1>4, <1>5 DEF n

LEMMA RowsOK ==
    ASSUME PhasesOK
    PROVE  Len(rows) \in Nat /\ RowIds = 1 .. Len(rows)
BY DEF PhasesOK, RowIds

LEMMA GridOK ==
    ASSUME PhasesOK
    PROVE  Grid \in Nat /\ (RowIds # {} => Grid > 0)
<1>1. CeilDiv(Len(rows), Lanes) \in Nat /\ CeilDiv(Len(rows), TileRows) \in Nat
  BY RowsOK, CeilDivOK, HalvingsOK, ConstantsOK
<1>2. RowIds # {} => CeilDiv(Len(rows), TileRows) > 0
  BY RowsOK, CeilDivOK, ConstantsOK
<1> DEFINE n == CeilDiv(Len(rows), Lanes)
           m == CeilDiv(Len(rows), TileRows)
           Cap(x, c) == Min({Max({x, 1}), c})
<1>3. ASSUME NEW x \in Nat, NEW c \in Nat \ {0} PROVE Cap(x, c) \in Nat \ {0}
  <2>0. Max({x, 1}) = IF x >= 1 THEN x ELSE 1
    BY DEF Max
  <2>1. Max({x, 1}) \in Nat \ {0}
    BY <2>0
  <2> QED BY <2>1, MinMaxOK
<1>4. Cap(n, MaxSumGrid) \in Nat \ {0} /\ Cap(m, MaxQ1Grid) \in Nat \ {0}
  BY <1>1, <1>3, ConstantsOK
<1>5. Grid \in {Cap(n, MaxSumGrid), Cap(m, MaxQ1Grid), m}
  BY DEF Grid
<1> QED BY <1>1, <1>2, <1>4, <1>5

Strided == {"stream", "q1_fused"}
Tiles == IF kernel = "stream" THEN Lanes * Grid ELSE Grid

\* What Scanned says of a row, by kind of kernel.
LEMMA ScannedOK ==
    ASSUME NEW b \in Nat, NEW l \in Lane, NEW r \in RowIds, PhasesOK
    PROVE  /\ kernel \in Strided =>
                (r \in Scanned(b, l) <=>
                    \E k \in 0 .. Len(rows) : r - 1 = b * Lanes + l + k * (Tiles * Lanes))
           /\ kernel \notin Strided =>
                (r \in Scanned(b, l) <=>
                    \E k \in 0 .. Len(rows) : r - 1 = b * TileRows + l + k * Lanes /\ r - 1 < (b + 1) * TileRows)
<1>1. r - 1 < Len(rows) /\ r \in Nat \ {0} /\ Len(rows) \in Nat
  BY RowsOK
<1>2. CASE kernel \in Strided
  BY <1>1, <1>2 DEF Scanned, Strided, Tiles
<1>3. CASE kernel \notin Strided
  <2> DEFINE e == (b + 1) * TileRows
  <2>1. e \in Nat
    BY ConstantsOK
  <2>2. Min({Len(rows), e}) = IF Len(rows) <= e THEN Len(rows) ELSE e
    BY <2>1, <1>1, MinMaxOK
  <2>3. r - 1 < Min({Len(rows), e}) <=> r - 1 < e
    BY <2>1, <2>2, <1>1
  <2> HIDE DEF e
  <2>4. r \in Scanned(b, l) <=> \E k \in 0 .. Len(rows) : r - 1 = b * TileRows + l + k * Lanes /\ r - 1 < e
    BY <2>3, <1>3 DEF Scanned, Strided, e
  <2> QED BY <2>4, <1>3 DEF e
<1> QED BY <1>2, <1>3

LEMMA TilesOK ==
    ASSUME PhasesOK, RowIds # {}
    PROVE  Tiles \in Nat \ {0} /\ Tiles >= Grid
<1>1. Grid \in Nat \ {0} /\ Lanes \in Nat \ {0}
  BY GridOK, HalvingsOK
<1>2. Lanes * Grid \in Nat /\ Lanes * Grid >= Grid
  BY <1>1
<1> QED BY <1>1, <1>2 DEF Tiles

\* A row is scanned by at most one thread of at most one threadgroup of the grid.
LEMMA ScannedOnce ==
    ASSUME PhasesOK, NEW r \in RowIds,
           NEW b \in 0 .. Grid - 1, NEW l \in Lane, r \in Scanned(b, l),
           NEW d \in 0 .. Grid - 1, NEW m \in Lane, r \in Scanned(d, m)
    PROVE  b = d /\ l = m
<1>0. /\ Lanes \in Nat \ {0} /\ Lane = 0 .. Lanes - 1 /\ TileRows \in Nat \ {0} /\ Grid \in Nat
      /\ b \in Nat /\ d \in Nat /\ l \in 0 .. Lanes - 1 /\ m \in 0 .. Lanes - 1
      /\ Len(rows) \in Nat
  BY HalvingsOK, LaneOf, ConstantsOK, GridOK, RowsOK
<1>1. CASE kernel \in Strided
  <2> DEFINE T == Tiles
  <2>1. T \in Nat \ {0} /\ T >= Grid
    BY TilesOK
  <2>2. PICK j \in 0 .. Len(rows) : r - 1 = b * Lanes + l + j * (T * Lanes)
    BY <1>1, <1>0, ScannedOK
  <2>3. PICK k \in 0 .. Len(rows) : r - 1 = d * Lanes + m + k * (T * Lanes)
    BY <1>1, <1>0, ScannedOK
  <2> HIDE DEF T
  <2>4. j \in Nat /\ k \in Nat /\ b + j * T \in Nat /\ d + k * T \in Nat
    BY <2>1, <1>0
  <2> DEFINE u == b + j * T
             v == d + k * T
  <2>5. At(r - 1, Lanes, u, l)
    BY <2>1, <2>2, <2>4, <1>0 DEF At
  <2>6. At(r - 1, Lanes, v, m)
    BY <2>1, <2>3, <2>4, <1>0 DEF At
  <2>7. l = m /\ u = v
    <3> HIDE DEF u, v
    <3> QED BY <2>5, <2>6, <1>0, AtOnce
  <2>8. b = d
    <3>1. At(u, T, j, b)
      BY <2>1, <2>4, <1>0 DEF At
    <3>2. At(u, T, k, d)
      BY <2>1, <2>4, <2>7, <1>0 DEF At
    <3> HIDE DEF u
    <3> QED BY <3>1, <3>2, <2>1, AtOnce
  <2> QED BY <2>7, <2>8
<1>2. CASE kernel \notin Strided
  <2>1. PICK j \in 0 .. Len(rows) : r - 1 = b * TileRows + l + j * Lanes /\ r - 1 < (b + 1) * TileRows
    BY <1>2, <1>0, ScannedOK
  <2>2. PICK k \in 0 .. Len(rows) : r - 1 = d * TileRows + m + k * Lanes /\ r - 1 < (d + 1) * TileRows
    BY <1>2, <1>0, ScannedOK
  <2>3. j * Lanes + l \in Nat /\ k * Lanes + m \in Nat
    BY <1>0
  <2>4. j * Lanes + l < TileRows /\ k * Lanes + m < TileRows
    BY <2>1, <2>2, <2>3, <1>0
  <2> DEFINE u == j * Lanes + l
             v == k * Lanes + m
  <2>5. At(r - 1, TileRows, b, u)
    BY <2>1, <2>3, <2>4, <1>0 DEF At
  <2>6. At(r - 1, TileRows, d, v)
    BY <2>2, <2>3, <2>4, <1>0 DEF At
  <2>7. b = d /\ u = v
    <3> HIDE DEF u, v
    <3> QED BY <2>5, <2>6, <1>0, AtOnce
  <2>8. At(u, Lanes, j, l)
    BY <1>0 DEF At
  <2>9. At(u, Lanes, k, m)
    BY <2>7, <1>0 DEF At
  <2> HIDE DEF u
  <2> QED BY <2>7, <2>8, <2>9, <1>0, AtOnce
<1> QED BY <1>1, <1>2

\* Where the launch covers the column every row is scanned.
LEMMA ScannedAll ==
    ASSUME PhasesOK, Covered, NEW r \in RowIds
    PROVE  \E b \in 0 .. Grid - 1, l \in Lane : r \in Scanned(b, l)
<1> DEFINE x == r - 1
           n == Len(rows)
<1>0. /\ Lanes \in Nat \ {0} /\ Lane = 0 .. Lanes - 1 /\ TileRows \in Nat \ {0}
      /\ n \in Nat /\ x \in 0 .. n - 1 /\ x \in Nat /\ r \in Nat /\ n > 0
      /\ MaxQ1Grid \in Nat \ {0} /\ MaxSumGrid \in Nat \ {0} /\ Grid \in Nat \ {0}
  BY HalvingsOK, LaneOf, ConstantsOK, GridOK, RowsOK
<1>1. CASE kernel = "q1_fused"
  <2> DEFINE y == x \div Lanes
             l == x % Lanes
             k == y \div Grid
             b == y % Grid
  <2>1. y \in Nat /\ l \in 0 .. Lanes - 1 /\ x = y * Lanes + l
    BY <1>0, DivModOf, Zenon
  <2> HIDE DEF y, l
  <2>2. k \in Nat /\ b \in 0 .. Grid - 1 /\ y = k * Grid + b
    BY <2>1, <1>0, DivModOf, Zenon
  <2> HIDE DEF k, b
  <2>3. x = b * Lanes + l + k * (Grid * Lanes)
    BY <2>1, <2>2, <1>0
  <2>4. k <= n
    <3>1. k <= k * (Grid * Lanes)
      BY <2>2, <1>0
    <3>2. k * (Grid * Lanes) <= x
      BY <2>3, <2>2, <2>1, <1>0
    <3> QED BY <3>1, <3>2, <2>2, <1>0
  <2>5. r \in Scanned(b, l)
    BY <2>1, <2>2, <2>3, <2>4, <1>0, <1>1, ScannedOK DEF Strided, Tiles
  <2> QED BY <2>1, <2>2, <2>5, <1>0
<1>2. CASE kernel = "stream"
  <2> DEFINE b == x \div Lanes
             l == x % Lanes
  <2>1. b \in Nat /\ l \in 0 .. Lanes - 1 /\ x = b * Lanes + l
    BY <1>0, DivModOf, Zenon
  <2> HIDE DEF n, x
  <2>2. b < CeilDiv(n, Lanes) /\ CeilDiv(n, Lanes) <= MaxSumGrid /\ CeilDiv(n, Lanes) \in Nat \ {0}
    <3>1. n <= MaxSumGrid * Lanes
      BY <1>2 DEF Covered, n
    <3>2. /\ CeilDiv(n, Lanes) \in Nat /\ CeilDiv(n, Lanes) > 0
          /\ \A c \in Nat : n <= c * Lanes => CeilDiv(n, Lanes) <= c
          /\ \A z \in 0 .. n - 1 : z \div Lanes < CeilDiv(n, Lanes)
      BY <1>0, CeilDivOK
    <3>3. b < CeilDiv(n, Lanes)
      BY <3>2, <1>0, Zenon
    <3>4. CeilDiv(n, Lanes) <= MaxSumGrid
      BY <3>1, <3>2, <1>0
    <3> QED BY <3>2, <3>3, <3>4
  <2> USE DEF n, x
  <2>3. Grid = CeilDiv(n, Lanes)
    <3>1. Max({CeilDiv(n, Lanes), 1}) = CeilDiv(n, Lanes)
      BY <2>2 DEF Max
    <3>2. Min({CeilDiv(n, Lanes), MaxSumGrid}) = CeilDiv(n, Lanes)
      BY <2>2, <1>0 DEF Min
    <3> QED BY <3>1, <3>2, <1>2 DEF Grid
  <2> HIDE DEF b, l
  <2>4. x = b * Lanes + l + 0 * (Tiles * Lanes) /\ 0 \in 0 .. n
    BY <2>1, <1>0, TilesOK
  <2>5. r \in Scanned(b, l)
    BY <2>1, <2>4, <1>0, <1>2, ScannedOK DEF Strided
  <2> QED BY <2>1, <2>2, <2>3, <2>5, <1>0
<1>3. CASE kernel \notin Strided
  <2> DEFINE b == x \div TileRows
             y == x % TileRows
             k == y \div Lanes
             l == y % Lanes
  <2>1. b \in Nat /\ y \in 0 .. TileRows - 1 /\ x = b * TileRows + y
    BY <1>0, DivModOf, Zenon
  <2> HIDE DEF n, x
  <2>2. b < CeilDiv(n, TileRows) /\ CeilDiv(n, TileRows) \in Nat \ {0}
    <3>1. /\ CeilDiv(n, TileRows) \in Nat /\ CeilDiv(n, TileRows) > 0
          /\ \A z \in 0 .. n - 1 : z \div TileRows < CeilDiv(n, TileRows)
      BY <1>0, CeilDivOK
    <3>2. b < CeilDiv(n, TileRows)
      BY <3>1, <1>0, Zenon
    <3> QED BY <3>1, <3>2
  <2> USE DEF n, x
  <2>3. Grid = CeilDiv(n, TileRows)
    <3>1. CASE kernel = "q1_dedicated"
      <4>1. CeilDiv(n, TileRows) <= MaxQ1Grid
        BY <1>0, <3>1, CeilDivOK DEF Covered
      <4>2. Max({CeilDiv(n, TileRows), 1}) = CeilDiv(n, TileRows)
        BY <2>2 DEF Max
      <4>3. Min({CeilDiv(n, TileRows), MaxQ1Grid}) = CeilDiv(n, TileRows)
        BY <2>2, <1>0, <4>1 DEF Min
      <4> QED BY <4>2, <4>3, <3>1 DEF Grid
    <3>2. CASE kernel # "q1_dedicated"
      BY <3>2, <1>3 DEF Grid, Strided
    <3> QED BY <3>1, <3>2
  <2> HIDE DEF b, y
  <2>4. k \in Nat /\ l \in 0 .. Lanes - 1 /\ y = k * Lanes + l
    <3>1. y \in Nat
      BY <2>1, <1>0
    <3> QED BY <3>1, <1>0, DivModOf, Zenon
  <2> HIDE DEF k, l
  <2>5. x = b * TileRows + l + k * Lanes /\ x < (b + 1) * TileRows
    BY <2>1, <2>4, <1>0
  <2>6. k <= n
    <3>1. k <= k * Lanes
      BY <2>4, <1>0
    <3>2. b * TileRows >= 0
      BY <2>1, <1>0
    <3>3. k * Lanes <= x
      BY <2>5, <2>4, <2>1, <1>0, <3>2
    <3> QED BY <3>1, <3>3, <2>4, <1>0
  <2>7. r \in Scanned(b, l)
    BY <2>1, <2>4, <2>5, <2>6, <1>0, <1>3, ScannedOK
  <2> QED BY <2>1, <2>2, <2>3, <2>4, <2>7, <1>0
<1> QED BY <1>1, <1>2, <1>3 DEF Strided

-----------------------------------------------------------------------------
(* Accumulators and batches *)

LEMMA CellsOK ==
    /\ Len(Cells) \in Nat \ {0} /\ DOMAIN Cells = 1 .. Len(Cells)
    /\ DOMAIN Cells = IF kernel = "stream" THEN {1} ELSE 1 .. 2 * Card
<1>1. CASE kernel = "stream"
  BY <1>1 DEF Cells
<1>2. CASE kernel # "stream"
  <2>1. 2 * Card \in Nat \ {0}
    BY ConstantsOK
  <2> DEFINE g(c) == IF c <= Card THEN [kind |-> "value", group |-> c - 1]
                                  ELSE [kind |-> "rows", group |-> c - Card - 1]
             n == 2 * Card
  <2>2. Cells = [c \in 1 .. n |-> g(c)]
    BY <1>2 DEF Cells
  <2> HIDE DEF n, g
  <2>3. n \in Nat \ {0}
    BY <2>1 DEF n
  <2>4. Len(Cells) = n /\ DOMAIN Cells = 1 .. n
    BY <2>2, <2>3
  <2> QED BY <2>3, <2>4, <1>2 DEF n
<1> QED BY <1>1, <1>2

\* A batch fits the buffers and holds different accumulators; in the first launch the
\* batches cover all of them.
LEMMA BatchesOK ==
    /\ Len(Batches) \in Nat \ {0} /\ DOMAIN Batches = 1 .. Len(Batches)
    /\ \A q \in 1 .. Len(Batches) :
          /\ DOMAIN Batches[q] \subseteq 1 .. ReduceBatch
          /\ \A i \in DOMAIN Batches[q] : Batches[q][i] \in IF launch = 2 THEN {1} ELSE DOMAIN Cells
          /\ \A i, j \in DOMAIN Batches[q] : Batches[q][i] = Batches[q][j] => i = j
    /\ launch # 2 => \A c \in DOMAIN Cells : \E q \in 1 .. Len(Batches) : \E i \in DOMAIN Batches[q] : Batches[q][i] = c
    /\ launch = 2 => Batches = <<<<1>>>>
<1>0. Card \in Nat \ {0} /\ ReduceBatch \in Nat \ {0}
  BY ConstantsOK
<1>1. CASE kernel = "stream" \/ launch = 2
  <2>1. Batches = <<<<1>>>>
    BY <1>1 DEF Batches
  <2>2. Len(Batches) = 1 /\ DOMAIN Batches = 1 .. 1 /\ Batches[1] = <<1>>
    BY <2>1
  <2>3. DOMAIN Batches[1] = {1} /\ Batches[1][1] = 1
    BY <2>2
  <2> QED BY <2>1, <2>2, <2>3, <1>0, <1>1, CellsOK
<1>2. CASE kernel # "stream" /\ launch # 2
  <2> DEFINE n == CeilDiv(Card, ReduceBatch)
             size(i) == Min({ReduceBatch, Card - i * ReduceBatch})
             batch(i, base) == [j \in 1 .. size(i) |-> base + i * ReduceBatch + j]
             N == 2 * n
             g(i) == IF i <= n THEN batch(i - 1, 0) ELSE batch(i - n - 1, Card)
  <2>1. n \in Nat \ {0} /\ \A x \in 0 .. Card - 1 : x \div ReduceBatch < n
    <3>1. Card \in Nat /\ Card > 0
      BY <1>0
    <3>2. /\ n \in Nat
          /\ Card > 0 => n > 0
          /\ \A x \in 0 .. Card - 1 : x \div ReduceBatch < n
      BY <3>1, <1>0, CeilDivOK, Zenon
    <3>3. n \in Nat \ {0}
      <4> HIDE DEF n
      <4> QED BY <3>1, <3>2
    <3> QED BY <3>2, <3>3, Zenon
  <2>2. Batches = [i \in 1 .. N |-> g(i)]
    BY <1>2 DEF Batches
  <2>3. ASSUME NEW i \in Nat
        PROVE  /\ size(i) \in Int
               /\ \A j \in Nat : j <= size(i) <=> (j <= ReduceBatch /\ i * ReduceBatch + j <= Card)
    <3> DEFINE k == Card - i * ReduceBatch
    <3>1. k \in Int /\ i * ReduceBatch \in Nat
      BY <1>0
    <3>2. Min({ReduceBatch, k}) = IF ReduceBatch <= k THEN ReduceBatch ELSE k
      BY <1>0, <3>1, MinMaxOK
    <3>3. size(i) = IF ReduceBatch <= k THEN ReduceBatch ELSE k
      BY <3>2
    <3> HIDE DEF size
    <3> QED BY <3>1, <3>3, <1>0
  <2>4. N \in Nat \ {0}
    BY <2>1
  <2> HIDE DEF n, N, g
  <2>5. Len(Batches) = N /\ DOMAIN Batches = 1 .. N /\ \A q \in 1 .. N : Batches[q] = g(q)
    BY <2>2, <2>4
  <2>6. DOMAIN Cells = 1 .. 2 * Card
    BY <1>2, CellsOK
  <2> HIDE DEF size
  <2>7. ASSUME NEW i \in Nat, NEW base \in {0, Card}
        PROVE  /\ DOMAIN batch(i, base) \subseteq 1 .. ReduceBatch
               /\ \A j \in DOMAIN batch(i, base) : batch(i, base)[j] \in 1 .. 2 * Card
               /\ \A j, k \in DOMAIN batch(i, base) : batch(i, base)[j] = batch(i, base)[k] => j = k
    <3>1. i * ReduceBatch \in Nat
      BY <1>0
    <3>2. size(i) \in Int
      BY <2>3
    <3>3. ASSUME NEW j \in 1 .. size(i) PROVE j \in 1 .. ReduceBatch /\ i * ReduceBatch + j <= Card
      <4>1. j \in Nat /\ j <= size(i)
        BY <3>2
      <4> QED BY <4>1, <2>3
    <3>4. \A j \in 1 .. size(i) : batch(i, base)[j] = base + i * ReduceBatch + j
      OBVIOUS
    <3>5. DOMAIN batch(i, base) = 1 .. size(i)
      OBVIOUS
    <3> HIDE DEF batch
    <3> QED BY <3>1, <3>2, <3>3, <3>4, <3>5, <1>0
  <2>8. \A q \in 1 .. N : \E i \in Nat, base \in {0, Card} : g(q) = batch(i, base)
    <3> SUFFICES ASSUME NEW q \in 1 .. N PROVE \E i \in Nat, base \in {0, Card} : g(q) = batch(i, base)
      OBVIOUS
    <3>1. CASE q <= n
      <4>1. q - 1 \in Nat
        BY <2>4
      <4>2. g(q) = batch(q - 1, 0)
        BY <3>1 DEF g
      <4> HIDE DEF batch
      <4> QED BY <4>1, <4>2
    <3>2. CASE ~(q <= n)
      <4>1. q - n - 1 \in Nat
        BY <2>1, <2>4, <3>2
      <4>2. g(q) = batch(q - n - 1, Card)
        BY <3>2 DEF g
      <4> HIDE DEF batch
      <4> QED BY <4>1, <4>2
    <3> QED BY <3>1, <3>2
  <2>9. ASSUME NEW c \in 1 .. 2 * Card
        PROVE  \E q \in 1 .. N : \E j \in DOMAIN g(q) : g(q)[j] = c
    <3> DEFINE base == IF c <= Card THEN 0 ELSE Card
               x == c - base - 1
               i == x \div ReduceBatch
               y == x % ReduceBatch
               q == IF c <= Card THEN i + 1 ELSE n + i + 1
               j == y + 1
    <3>1. x \in 0 .. Card - 1 /\ x \in Nat /\ base \in {0, Card} /\ c = base + x + 1
      BY <1>0
    <3> HIDE DEF x, base
    <3>2. i < n
      BY <3>1, <2>1, Zenon
    <3>3. i \in Nat /\ y \in 0 .. ReduceBatch - 1 /\ x = i * ReduceBatch + y
      BY <3>1, <1>0, DivModOf, Zenon
    <3> HIDE DEF i, y
    <3>4. j <= size(i) /\ j \in Nat
      BY <3>3, <3>1, <2>3, <1>0
    <3>5. j \in 1 .. size(i)
      BY <3>3, <3>4, <2>3
    <3>6. batch(i, base)[j] = c /\ j \in DOMAIN batch(i, base)
      BY <3>5, <3>3, <3>1, <1>0
    <3>7. q \in 1 .. N
      BY <3>2, <3>3, <2>1 DEF N
    <3>8. g(q) = batch(i, base)
      <4>1. CASE c <= Card
        BY <4>1, <3>2, <3>3, <2>1, <1>0 DEF g, base
      <4>2. CASE ~(c <= Card)
        <5>1. ~(n + i + 1 <= n) /\ (n + i + 1) - n - 1 = i
          BY <3>3, <2>1
        <5>2. g(q) = batch((n + i + 1) - n - 1, Card)
          BY <4>2, <5>1 DEF g
        <5> QED BY <5>1, <5>2, <4>2 DEF base
      <4> QED BY <4>1, <4>2
    <3> HIDE DEF batch, q, j
    <3> QED BY <3>6, <3>7, <3>8
  <2> HIDE DEF batch
  <2>10. \A q \in 1 .. N :
            /\ DOMAIN g(q) \subseteq 1 .. ReduceBatch
            /\ \A i \in DOMAIN g(q) : g(q)[i] \in 1 .. 2 * Card
            /\ \A i, j \in DOMAIN g(q) : g(q)[i] = g(q)[j] => i = j
    BY <2>7, <2>8
  <2> QED BY <2>4, <2>5, <2>6, <2>9, <2>10, <1>2
<1> QED BY <1>1, <1>2

-----------------------------------------------------------------------------
(* Phases, and the absence of races *)

LEMMA StepOK ==
    ASSUME NEW p \in Nat
    PROVE  /\ Step(p) \in 0 .. Halvings + 1
           /\ Last \in Nat
           /\ p < Last => p + 1 <= Last /\ (p \div StepsPerBatch) + 1 \in 1 .. Len(Batches)
           /\ p < Last => Batch(p) = Batches[(p \div StepsPerBatch) + 1]
           /\ Step(p) <= Halvings => Step(p + 1) = Step(p) + 1 /\ Batch(p + 1) = Batch(p)
           /\ Step(p) = Halvings + 1 => Step(p + 1) = 0
<1> DEFINE S == StepsPerBatch
           n == Len(Batches)
           q == p \div S
           s == p % S
<1>1. S \in Nat \ {0} /\ S = Halvings + 2 /\ Halvings \in 1 .. 8 /\ n \in Nat \ {0}
  BY HalvingsOK, BatchesOK
<1>2. q \in Nat /\ s \in 0 .. S - 1 /\ p = q * S + s
  BY <1>1, DivModOf
<1>3. /\ s < S - 1 => (p + 1) \div S = q /\ (p + 1) % S = s + 1
      /\ s = S - 1 => (p + 1) \div S = q + 1 /\ (p + 1) % S = 0
  BY <1>1, DivModNext
<1>4. /\ Last = n * S /\ Step(p) = s /\ Step(p + 1) = (p + 1) % S
      /\ Batch(p) = Batches[q + 1] /\ Batch(p + 1) = Batches[((p + 1) \div S) + 1]
  BY DEF Last, Step, Batch
<1> HIDE DEF q, s, S, n
<1>5. n * S \in Nat
  BY <1>1
<1>6. p < n * S => q < n
  <2> SUFFICES ASSUME p < n * S, q >= n PROVE FALSE
    BY <1>1, <1>2
  <2>1. q * S >= n * S
    BY <1>1, <1>2
  <2> QED BY <2>1, <1>1, <1>2
<1>7. p < n * S => p + 1 <= n * S
  BY <1>5
<1>8. p < n * S => q + 1 \in 1 .. n
  BY <1>6, <1>1, <1>2
<1>9. /\ Step(p) \in 0 .. Halvings + 1 /\ Last \in Nat
      /\ Step(p) = Halvings + 1 => Step(p + 1) = 0
  BY <1>1, <1>2, <1>3, <1>4, <1>5
<1>10. p < Last => p + 1 <= Last /\ q + 1 \in 1 .. n
  BY <1>4, <1>7, <1>8
<1>11. Step(p) <= Halvings => Step(p + 1) = Step(p) + 1 /\ Batch(p + 1) = Batch(p)
  BY <1>1, <1>2, <1>3, <1>4
<1> QED BY <1>4, <1>9, <1>10, <1>11, Zenon DEF q, n, S

\* At a barrier the threads are in the same step, or one behind the other by one.
LEMMA FoldsOK ==
    ASSUME NEW l \in Lane, NEW s \in 1 .. Halvings, Folds(l, s)
    PROVE  /\ Offset(s) \in Nat \ {0} /\ l < Offset(s)
           /\ l + Offset(s) \in Lane /\ l + Offset(s) >= Offset(s)
           /\ l + Offset(s) < Offset(s - 1) /\ Offset(s - 1) = 2 * Offset(s)
<1>1. /\ l \in Nat /\ Lanes \in Nat /\ Lane = 0 .. Lanes - 1
      /\ s \in 0 .. Halvings /\ s - 1 \in 0 .. Halvings
  BY LaneOf, HalvingsOK
<1>2. Offset(s) \in 1 .. Lanes /\ Offset(s - 1) \in 1 .. Lanes /\ Offset(s - 1) = 2 * Offset(s)
  BY OffsetOK, <1>1
<1> QED BY <1>1, <1>2 DEF Folds

LEMMA NoRace ==
    ASSUME PhasesOK
    PROVE  RaceFree
<1> SUFFICES ASSUME launch # 3, NEW l \in Lane, NEW m \in Lane, l # m, phase[l] = phase[m]
             PROVE  Writes(l) \cap (Reads(m) \cup Writes(m)) = {}
  BY DEF RaceFree
<1> DEFINE s == Step(phase[l])
<1>1. l \in Nat /\ m \in Nat /\ phase[l] \in Nat
  BY LaneOf DEF PhasesOK
<1>2. CASE s = 0
  BY <1>2, HalvingsOK DEF Writes, Reads, Adding
<1>3. CASE s \in 1 .. Halvings
  <2>1. Folds(l, s) /\ Folds(m, s) => l # m + Offset(s)
    BY <1>1, <1>3, FoldsOK
  <2> QED BY <1>3, <2>1, HalvingsOK DEF Writes, Reads, Adding
<1>4. CASE s = Halvings + 1
  BY <1>4, HalvingsOK DEF Writes, Reads, Adding
<1>5. s \in 0 .. Halvings + 1
  BY <1>1, StepOK
<1>6. s = 0 \/ s \in 1 .. Halvings \/ s = Halvings + 1
  BY <1>5, HalvingsOK
<1> QED BY <1>2, <1>3, <1>4, <1>6

LEMMA BoundaryOK ==
    ASSUME NEW p \in Nat, NEW q \in Nat, p + 1 >= q * StepsPerBatch
    PROVE  \/ p >= q * StepsPerBatch
           \/ Step(p) = Halvings + 1 /\ (p \div StepsPerBatch) + 1 = q
<1> DEFINE S == StepsPerBatch
<1>1. S \in Nat \ {0} /\ S = Halvings + 2 /\ Halvings \in 1 .. 8
  BY HalvingsOK
<1> SUFFICES ASSUME ~(p >= q * S) PROVE Step(p) = Halvings + 1 /\ (p \div S) + 1 = q
  OBVIOUS
<1>2. p + 1 = q * S + 0 /\ q * S \in Nat
  BY <1>1
<1>3. (p + 1) \div S = q /\ (p + 1) % S = 0
  <2>1. (q * S + 0) \div S = q /\ (q * S + 0) % S = 0
    BY <1>1, DivMod
  <2> QED BY <2>1, <1>2
<1>4. p % S \in 0 .. S - 1 /\ p \div S \in Nat
  BY <1>1, DivModOf
<1>5. /\ p % S < S - 1 => (p + 1) \div S = p \div S /\ (p + 1) % S = (p % S) + 1
      /\ p % S = S - 1 => (p + 1) \div S = (p \div S) + 1 /\ (p + 1) % S = 0
  BY <1>1, DivModNext
<1> QED BY <1>1, <1>3, <1>4, <1>5 DEF Step

LEMMA LastStep == Step(Last) = 0
<1>0. 0 \in 0 .. StepsPerBatch - 1 /\ StepsPerBatch \in Nat \ {0} /\ Len(Batches) \in Nat
  BY HalvingsOK, BatchesOK
<1>1. (Len(Batches) * StepsPerBatch + 0) % StepsPerBatch = 0
  BY <1>0, DivMod, Zenon
<1>2. Len(Batches) * StepsPerBatch + 0 = Len(Batches) * StepsPerBatch
  BY HalvingsOK, BatchesOK
<1> QED BY <1>1, <1>2 DEF Step, Last

-----------------------------------------------------------------------------
(* The steps of a thread *)

\* What depends on the kernel and its input, or also on the launch, or on the scan.
LEMMA Frame ==
    ASSUME UNCHANGED <<kernel, rows>>
    PROVE  /\ RowIds' = RowIds /\ Cells' = Cells /\ Grid' = Grid
           /\ \A b, c : Indicator(b, c)' = Indicator(b, c)
           /\ \A b, c, r : ScannedIn(b, c, r)' = ScannedIn(b, c, r)
           /\ \A b : Scan(b)' = Scan(b)
           /\ \A c : Counted(c)' = Counted(c)
<1>1. RowIds' = RowIds /\ Cells' = Cells /\ Grid' = Grid
  BY DEF RowIds, Cells, Grid
<1>2. \A b, l : Scanned(b, l)' = Scanned(b, l)
  BY <1>1 DEF Scanned
<1>3. \A row, cell : Adds(row, cell)' = Adds(row, cell)
  BY DEF Adds
<1>4. \A b, c, r : ScannedIn(b, c, r)' = ScannedIn(b, c, r)
  BY <1>1, <1>2, <1>3 DEF ScannedIn
<1>5. \A b, c : Indicator(b, c)' = Indicator(b, c)
  BY <1>1, <1>4 DEF Indicator
<1>6. \A b : Scan(b)' = Scan(b)
  BY <1>1, <1>2, <1>3 DEF Scan
<1>7. \A c : Counted(c)' = Counted(c)
  BY <1>1, <1>4 DEF Counted
<1> QED BY <1>1, <1>4, <1>5, <1>6, <1>7

LEMMA FrameLane ==
    ASSUME UNCHANGED <<kernel, rows, launch, local>>
    PROVE  /\ Batches' = Batches /\ Last' = Last /\ LocalCells' = LocalCells
           /\ \A p : Batch(p)' = Batch(p)
           /\ \A o, l, c : Held(o, l, c)' = Held(o, l, c)
           /\ \A c, found : Collect(c, found)' = Collect(c, found)
<1>1. RowIds' = RowIds /\ Cells' = Cells
  BY Frame
<1>2. Batches' = Batches
  BY DEF Batches
<1> QED BY <1>1, <1>2 DEF Last, LocalCells, Batch, Held, Collect

\* A thread that takes a step keeps the phases in line.
LEMMA PhaseStep ==
    ASSUME PhasesOK, launch # 3, NEW l \in Lane, phase[l] < Last, Barrier(l),
           phase' = [phase EXCEPT ![l] = @ + 1], UNCHANGED <<kernel, rows, launch, block, local>>
    PROVE  PhasesOK'
<1>1. phase[l] + 1 <= Last /\ Last' = Last /\ Last \in Nat
  BY StepOK, FrameLane DEF PhasesOK
<1>2. phase' \in [Lane -> Nat]
  BY DEF PhasesOK
<1>3. \A m \in Lane : phase'[m] <= Last
  BY <1>1 DEF PhasesOK
<1>4. \A m, k \in Lane : phase'[m] <= phase'[k] + 1
  BY DEF PhasesOK, Barrier
<1> QED BY <1>1, <1>2, <1>3, <1>4 DEF PhasesOK

\* The slots of the batch a phase belongs to.
LEMMA BatchSlots ==
    ASSUME NEW p \in Nat, p < Last
    PROVE  DOMAIN Batch(p) \subseteq 1 .. ReduceBatch
<1> DEFINE q == (p \div StepsPerBatch) + 1
<1>1. q \in 1 .. Len(Batches) /\ Batch(p) = Batches[q]
  BY StepOK
<1> HIDE DEF q
<1>2. DOMAIN Batches[q] \subseteq 1 .. ReduceBatch
  BY <1>1, BatchesOK
<1> QED BY <1>1, <1>2

\* The other lanes do not notice.
LEMMA OtherLane ==
    ASSUME PhasesOK, launch # 3, NEW m \in Lane, LaneOK(m), phase'[m] = phase[m],
           \A i \in 1 .. ReduceBatch : shared'[i][m] = shared[i][m],
           UNCHANGED <<kernel, rows, launch, local>>
    PROVE  LaneOK(m)'
<1> SUFFICES ASSUME Step(phase[m]) >= 1,
                    NEW i \in DOMAIN Batch(phase[m]), NEW t \in 0 .. Step(phase[m]) - 1,
                    m < Offset(t), t = Step(phase[m]) - 1 \/ m >= Offset(t + 1)
             PROVE  shared'[i][m] = Held(Offset(t), m, Batch(phase[m])[i])
  BY FrameLane DEF LaneOK, Step, Offset
<1>1. phase[m] \in Nat /\ phase[m] < Last
  <2>1. phase[m] \in Nat /\ phase[m] <= Last /\ phase[m] # Last
    BY LastStep DEF PhasesOK
  <2> QED BY <2>1, StepOK
<1>2. i \in 1 .. ReduceBatch
  BY <1>1, BatchSlots
<1> QED BY <1>2 DEF LaneOK

\* What a step of a thread leaves alone.
LEMMA LaneKeeps ==
    ASSUME LocalUnit, PartialsOK, FinalOK, UNCHANGED <<kernel, rows, launch, block, local, partials, final>>
    PROVE  LocalUnit' /\ PartialsOK' /\ FinalOK'
<1>1. LocalUnit'
  BY Frame, FrameLane DEF LocalUnit
<1>2. PartialsOK'
  BY Frame, FrameLane DEF PartialsOK
<1>3. FinalOK'
  BY Frame, FrameLane DEF FinalOK
<1> QED BY <1>1, <1>2, <1>3

\* Thread 0 passes the end of a batch only in the step that copies it.
LEMMA SumsKept ==
    ASSUME PhasesOK, SumsOK, launch # 3, NEW l \in Lane, Step(phase[l]) <= Halvings,
           phase' = [phase EXCEPT ![l] = @ + 1], UNCHANGED <<kernel, rows, launch, local, sums>>
    PROVE  SumsOK'
<1>1. RowIds' = RowIds /\ Cells' = Cells /\ Batches' = Batches
  BY Frame, FrameLane
<1>2. StepsPerBatch' = StepsPerBatch
  OBVIOUS
<1>3. ASSUME NEW q \in 1 .. Len(Batches), NEW i \in DOMAIN Batches[q], phase'[0] >= q * StepsPerBatch
      PROVE  sums[Batches[q][i]] = Held(1, 0, Batches[q][i])
  <2>1. phase[0] \in Nat /\ q \in Nat /\ StepsPerBatch \in Nat
    BY LaneOf, BatchesOK, HalvingsOK DEF PhasesOK
  <2>2. phase[0] >= q * StepsPerBatch
    <3>1. CASE l = 0
      <4>1. phase'[0] = phase[0] + 1
        BY <3>1 DEF PhasesOK
      <4>2. Step(phase[0]) # Halvings + 1
        BY <3>1, <2>1, StepOK, HalvingsOK
      <4> QED BY <4>1, <4>2, <2>1, <1>3, BoundaryOK
    <3>2. CASE l # 0
      BY <3>2, <1>3, LaneOf DEF PhasesOK
    <3> QED BY <3>1, <3>2
  <2> QED BY <2>2 DEF SumsOK
<1>4. \A o, k, c : Held(o, k, c)' = Held(o, k, c)
  BY FrameLane
<1> QED BY <1>1, <1>3, <1>4 DEF SumsOK

\* A thread that loads its accumulators holds just its own rows.
LEMMA LoadInv ==
    ASSUME TileInv, launch # 3, NEW l \in Lane, Load(l)
    PROVE  TileInv'
<1> USE DEF TileInv
<1> DEFINE p == phase[l]
           B == Batch(phase[l])
<1>1. /\ p \in Nat /\ p < Last /\ Step(p) = 0 /\ Barrier(l)
      /\ phase' = [phase EXCEPT ![l] = @ + 1]
      /\ UNCHANGED <<kernel, rows, launch, block, local, sums, partials, final>>
      /\ phase'[l] = p + 1 /\ \A m \in Lane : m # l => phase'[m] = phase[m]
  BY DEF Load, PhasesOK
<1>2. /\ Step(p + 1) = 1 /\ Batch(p + 1) = B
      /\ \E q \in 1 .. Len(Batches) : B = Batches[q]
  <2>1. Step(p) <= Halvings
    BY <1>1, HalvingsOK
  <2>2. /\ Step(p + 1) = Step(p) + 1 /\ Batch(p + 1) = Batch(p)
        /\ (p \div StepsPerBatch) + 1 \in 1 .. Len(Batches)
        /\ Batch(p) = Batches[(p \div StepsPerBatch) + 1]
    <3> HIDE DEF p
    <3> QED BY <1>1, <2>1, StepOK
  <2> QED BY <1>1, <2>2
<1>3. DOMAIN B \subseteq 1 .. ReduceBatch /\ \A i \in DOMAIN B : B[i] \in LocalCells
  BY <1>2, BatchesOK DEF LocalCells, PhasesOK
<1>4. PhasesOK' /\ LocalUnit' /\ PartialsOK' /\ FinalOK'
  BY <1>1, PhaseStep, LaneKeeps
<1>5. RowIds' = RowIds
  BY <1>1, Frame
<1>6. /\ shared' \in [1 .. ReduceBatch -> [Lane -> [RowIds -> Nat]]]
      /\ \A i \in DOMAIN B : shared'[i][l] = local[l][B[i]]
      /\ \A m \in Lane, i \in 1 .. ReduceBatch : m # l => shared'[i][m] = shared[i][m]
  <2>1. shared \in [1 .. ReduceBatch -> [Lane -> [RowIds -> Nat]]]
    BY DEF SharedOK
  <2>2. shared' = [i \in 1 .. ReduceBatch |->
            IF i \in DOMAIN B THEN [shared[i] EXCEPT ![l] = local[l][B[i]]] ELSE shared[i]]
    BY <2>1 DEF Load
  <2>3. \A i \in DOMAIN B : local[l][B[i]] \in [RowIds -> Nat]
    BY <1>3 DEF LocalUnit
  <2> HIDE DEF B
  <2> QED BY <2>1, <2>2, <2>3, <1>3
<1>7. LaneOK(l)'
  <2> SUFFICES ASSUME NEW i \in DOMAIN B
               PROVE  shared'[i][l] = Held(Offset(0), l, B[i])
    <3>1. /\ Step(phase'[l]) = 1 /\ \A k : Batch(k)' = Batch(k)
          /\ \A o, k, c : Held(o, k, c)' = Held(o, k, c)
      BY <1>1, <1>2, FrameLane
    <3>2. \A t \in 0 .. Step(phase'[l]) - 1 : t = 0
      BY <3>1
    <3>3. Batch(phase[l])' = B
      BY <1>1, <1>2, <3>1
    <3> HIDE DEF B
    <3> QED BY <3>1, <3>2, <3>3 DEF LaneOK
  <2>1. local[l][B[i]] \in [RowIds -> {0, 1}]
    BY <1>3 DEF LocalUnit
  <2>2. Offset(0) = Lanes
    BY OffsetOK
  <2>3. \A m \in Lane : m % Lanes = l <=> m = l
    BY LaneOf, HalvingsOK
  <2>4. Held(Lanes, l, B[i]) = local[l][B[i]]
    BY <2>1, <2>3 DEF Held
  <2> QED BY <2>2, <2>4, <1>6
<1>8. \A m \in Lane : m # l => LaneOK(m)'
  BY <1>1, <1>6, OtherLane DEF SharedOK
<1>9. SharedOK'
  BY <1>5, <1>6, <1>7, <1>8 DEF SharedOK
<1>10. SumsOK'
  <2>1. Step(phase[l]) <= Halvings
    BY <1>1, HalvingsOK
  <2> QED BY <1>1, <2>1, SumsKept
<1> QED BY <1>4, <1>9, <1>10

\* Adding the values of two lanes joins the rows they hold.
LEMMA HeldJoins ==
    ASSUME LocalUnit, launch # 3, NEW c \in LocalCells, NEW o \in Nat \ {0}, NEW l \in 0 .. o - 1
    PROVE  Plus(Held(2 * o, l, c), Held(2 * o, l + o, c)) = Held(o, l, c)
<1> SUFFICES ASSUME NEW r \in RowIds
             PROVE  Held(2 * o, l, c)[r] + Held(2 * o, l + o, c)[r] = Held(o, l, c)[r]
  BY DEF Plus, Held
<1> DEFINE In(n, k) == \E m \in Lane : m % n = k /\ local[m][c][r] = 1
<1>1. /\ Held(2 * o, l, c)[r] = IF In(2 * o, l) THEN 1 ELSE 0
      /\ Held(2 * o, l + o, c)[r] = IF In(2 * o, l + o) THEN 1 ELSE 0
      /\ Held(o, l, c)[r] = IF In(o, l) THEN 1 ELSE 0
  BY DEF Held
<1>2. ASSUME NEW m \in Lane
      PROVE  m % o = l <=> (m % (2 * o) = l \/ m % (2 * o) = l + o)
  <2>1. m \in Nat
    BY LaneOf
  <2> QED BY <2>1, ModHalf, Zenon
<1>3. In(o, l) <=> In(2 * o, l) \/ In(2 * o, l + o)
  BY <1>2
<1>4. ~(In(2 * o, l) /\ In(2 * o, l + o))
  <2> SUFFICES ASSUME In(2 * o, l), In(2 * o, l + o) PROVE FALSE
    OBVIOUS
  <2>1. PICK m \in Lane : m % (2 * o) = l /\ local[m][c][r] = 1
    OBVIOUS
  <2>2. PICK k \in Lane : k % (2 * o) = l + o /\ local[k][c][r] = 1
    OBVIOUS
  <2>3. m = k
    BY <2>1, <2>2 DEF LocalUnit
  <2>4. l # l + o
    OBVIOUS
  <2> QED BY <2>1, <2>2, <2>3, <2>4
<1> HIDE DEF In
<1> QED BY <1>1, <1>3, <1>4

\* A halving: the thread below the offset has the rows of two lanes; one above keeps its own.
LEMMA TreeAddInv ==
    ASSUME TileInv, launch # 3, NEW l \in Lane, TreeAdd(l)
    PROVE  TileInv'
<1> USE DEF TileInv
<1> DEFINE p == phase[l]
           s == Step(phase[l])
           B == Batch(phase[l])
           k == l + Offset(s)
<1>1. /\ p \in Nat /\ p < Last /\ s \in 1 .. Halvings /\ Barrier(l)
      /\ phase' = [phase EXCEPT ![l] = @ + 1]
      /\ UNCHANGED <<kernel, rows, launch, block, local, sums, partials, final>>
      /\ phase'[l] = p + 1 /\ \A m \in Lane : m # l => phase'[m] = phase[m]
  BY DEF TreeAdd, PhasesOK
<1>2. /\ Step(p + 1) = s + 1 /\ Batch(p + 1) = B
      /\ \E q \in 1 .. Len(Batches) : B = Batches[q]
  <2>1. Step(p) <= Halvings
    BY <1>1, HalvingsOK
  <2>2. /\ Step(p + 1) = Step(p) + 1 /\ Batch(p + 1) = Batch(p)
        /\ (p \div StepsPerBatch) + 1 \in 1 .. Len(Batches)
        /\ Batch(p) = Batches[(p \div StepsPerBatch) + 1]
    <3> HIDE DEF p
    <3> QED BY <1>1, <2>1, StepOK
  <2> QED BY <1>1, <2>2
<1>3. DOMAIN B \subseteq 1 .. ReduceBatch /\ \A i \in DOMAIN B : B[i] \in LocalCells
  BY <1>2, BatchesOK DEF LocalCells, PhasesOK
<1>4. PhasesOK' /\ LocalUnit' /\ PartialsOK' /\ FinalOK'
  BY <1>1, PhaseStep, LaneKeeps
<1>5. RowIds' = RowIds
  BY <1>1, Frame
<1>6. shared \in [1 .. ReduceBatch -> [Lane -> [RowIds -> Nat]]]
  BY DEF SharedOK
<1>7. s - 1 \in 0 .. Halvings /\ s - 1 \in 0 .. s - 1 /\ s \in 0 .. Halvings /\ s \in Nat /\ l \in Nat
  BY <1>1, HalvingsOK, LaneOf
<1>8. SumsOK'
  <2>1. Step(phase[l]) <= Halvings
    BY <1>1, HalvingsOK
  <2> QED BY <1>1, <2>1, SumsKept
<1>9. CASE Folds(l, s)
  <2>1. /\ k \in Lane /\ k >= Offset(s) /\ k < Offset(s - 1) /\ k # l /\ l < Offset(s) /\ l < Offset(s - 1)
        /\ Offset(s) \in Nat \ {0} /\ Offset(s - 1) = 2 * Offset(s)
    <3> HIDE DEF s
    <3>1. /\ Offset(s) \in Nat \ {0} /\ l < Offset(s) /\ k \in Lane /\ k >= Offset(s)
          /\ k < Offset(s - 1) /\ Offset(s - 1) = 2 * Offset(s)
      BY <1>1, <1>9, FoldsOK
    <3> QED BY <3>1, <1>7
  <2>2. shared' = [i \in 1 .. ReduceBatch |->
            IF i \in DOMAIN B THEN [shared[i] EXCEPT ![l] = Plus(shared[i][l], shared[i][k])] ELSE shared[i]]
    BY <1>6, <1>9, <2>1 DEF TreeAdd
  <2>3. \A i \in 1 .. ReduceBatch : Plus(shared[i][l], shared[i][k]) \in [RowIds -> Nat]
    <3> HIDE DEF k
    <3> QED BY <1>6, <2>1 DEF Plus
  <2>4. /\ shared' \in [1 .. ReduceBatch -> [Lane -> [RowIds -> Nat]]]
        /\ \A i \in DOMAIN B : shared'[i][l] = Plus(shared[i][l], shared[i][k])
        /\ \A m \in Lane, i \in 1 .. ReduceBatch : m # l => shared'[i][m] = shared[i][m]
    <3> HIDE DEF B, k
    <3> QED BY <1>3, <1>6, <2>2, <2>3
  <2>5. ASSUME NEW i \in DOMAIN B
        PROVE  shared[i][l] = Held(Offset(s - 1), l, B[i])
    <3>1. LaneOK(l)
      BY DEF SharedOK
    <3> QED BY <3>1, <1>7, <2>1 DEF LaneOK
  <2>6. ASSUME NEW i \in DOMAIN B
        PROVE  shared[i][k] = Held(Offset(s - 1), k, B[i])
    <3>1. LaneOK(k)
      BY <2>1 DEF SharedOK
    <3>2. phase[k] = p \/ phase[k] = p + 1
      BY <2>1, <1>1 DEF PhasesOK, Barrier
    <3> HIDE DEF k
    <3>3. CASE phase[k] = p
      BY <3>1, <3>3, <1>7, <2>1 DEF LaneOK
    <3>4. CASE phase[k] = p + 1
      <4>1. Step(phase[k]) = s + 1 /\ Batch(phase[k]) = B
        BY <3>4, <1>2
      <4>2. s - 1 \in 0 .. Step(phase[k]) - 1 /\ (s - 1) + 1 = s /\ Step(phase[k]) >= 1
        BY <4>1, <1>7
      <4> HIDE DEF s, p, B
      <4> QED BY <3>1, <4>1, <4>2, <2>1 DEF LaneOK
    <3> QED BY <3>2, <3>3, <3>4
  <2>7. ASSUME NEW i \in DOMAIN B
        PROVE  shared'[i][l] = Held(Offset(s), l, B[i])
    <3> DEFINE o == Offset(s)
    <3>1. l \in 0 .. o - 1 /\ o \in Nat \ {0} /\ B[i] \in LocalCells
      BY <2>1, <1>3, <1>7
    <3>2. shared[i][l] = Held(2 * o, l, B[i]) /\ shared[i][k] = Held(2 * o, l + o, B[i])
      BY <2>1, <2>5, <2>6
    <3> HIDE DEF o, B
    <3>3. Plus(Held(2 * o, l, B[i]), Held(2 * o, l + o, B[i])) = Held(o, l, B[i])
      BY <3>1, HeldJoins
    <3> QED BY <3>2, <3>3, <2>4 DEF o
  <2>8. LaneOK(l)'
    <3>1. /\ Step(phase'[l]) = s + 1 /\ Batch(phase[l])' = B
          /\ \A o, m, c : Held(o, m, c)' = Held(o, m, c)
      BY <1>1, <1>2, FrameLane
    <3>2. ASSUME NEW t \in 0 .. s, t = s \/ l >= Offset(t + 1) PROVE t = s
      <4> HIDE DEF s
      <4> SUFFICES ASSUME t # s PROVE FALSE
        OBVIOUS
      <4>1. t + 1 \in 0 .. Halvings /\ t + 1 <= s
        BY <1>7, HalvingsOK
      <4>2. Offset(s) <= Offset(t + 1) /\ Offset(t + 1) \in Nat
        BY <4>1, <1>7, OffsetOK
      <4> QED BY <4>2, <3>2, <2>1, <1>7
    <3>3. (s + 1) - 1 = s
      BY <1>7
    <3> HIDE DEF s, B
    <3> QED BY <3>1, <3>2, <3>3, <2>7 DEF LaneOK
  <2>9. \A m \in Lane : m # l => LaneOK(m)'
    BY <1>1, <2>4, OtherLane DEF SharedOK
  <2>10. SharedOK'
    BY <1>5, <2>4, <2>8, <2>9 DEF SharedOK
  <2> QED BY <1>4, <1>8, <2>10
<1>10. CASE ~Folds(l, s)
  <2>1. shared' = shared
    BY <1>6, <1>10 DEF TreeAdd
  <2>2. l >= Offset(s) /\ Offset(s) \in Nat
    BY <1>7, <1>10, OffsetOK DEF Folds
  <2>3. LaneOK(l)'
    <3>1. /\ Step(phase'[l]) = s + 1 /\ Batch(phase[l])' = B
          /\ \A o, m, c : Held(o, m, c)' = Held(o, m, c)
      BY <1>1, <1>2, FrameLane
    <3>2. LaneOK(l) /\ s >= 1 /\ (s + 1) - 1 = s
      BY <1>1, <1>7 DEF SharedOK
    <3>3. ASSUME NEW t \in 0 .. s, l < Offset(t), t = s \/ l >= Offset(t + 1), NEW i \in DOMAIN B
          PROVE  shared[i][l] = Held(Offset(t), l, B[i])
      <4>1. t # s /\ t \in 0 .. s - 1
        BY <3>3, <2>2, <1>7
      <4> QED BY <4>1, <3>2, <3>3 DEF LaneOK
    <3> HIDE DEF s, B
    <3> QED BY <3>1, <3>2, <3>3, <2>1 DEF LaneOK
  <2>4. \A m \in Lane : m # l => LaneOK(m)'
    BY <1>1, <2>1, OtherLane DEF SharedOK
  <2>5. SharedOK'
    BY <1>5, <1>6, <2>1, <2>3, <2>4 DEF SharedOK
  <2> QED BY <1>4, <1>8, <2>5
<1> QED BY <1>9, <1>10

\* Thread 0 copies a batch when lane 0 has the rows of all lanes.
LEMMA CopyInv ==
    ASSUME TileInv, launch # 3, NEW l \in Lane, Copy(l)
    PROVE  TileInv'
<1> USE DEF TileInv
<1> DEFINE p == phase[l]
           B == Batch(phase[l])
           S == StepsPerBatch
<1>1. /\ p \in Nat /\ p < Last /\ Step(p) = Halvings + 1 /\ Barrier(l)
      /\ phase' = [phase EXCEPT ![l] = @ + 1]
      /\ UNCHANGED <<kernel, rows, launch, block, local, shared, partials, final>>
      /\ phase'[l] = p + 1 /\ \A m \in Lane : m # l => phase'[m] = phase[m]
  BY DEF Copy, PhasesOK
<1>2. /\ Step(p + 1) = 0
      /\ (p \div S) + 1 \in 1 .. Len(Batches) /\ B = Batches[(p \div S) + 1]
  <2> HIDE DEF p
  <2> QED BY <1>1, StepOK DEF p
<1>3. /\ DOMAIN B \subseteq 1 .. ReduceBatch /\ \A i \in DOMAIN B : B[i] \in LocalCells
      /\ \A i, j \in DOMAIN B : B[i] = B[j] => i = j
  BY <1>2, BatchesOK DEF LocalCells, PhasesOK
<1>4. PhasesOK' /\ LocalUnit' /\ PartialsOK' /\ FinalOK'
  BY <1>1, PhaseStep, LaneKeeps
<1>5. /\ RowIds' = RowIds /\ Cells' = Cells /\ Batches' = Batches /\ S' = S
      /\ \A o, m, c : Held(o, m, c)' = Held(o, m, c)
  BY <1>1, Frame, FrameLane
<1>6. SharedOK'
  <2>1. LaneOK(l)'
    <3>1. Step(phase'[l]) = 0
      BY <1>1, <1>2
    <3> QED BY <3>1 DEF LaneOK
  <2>2. \A m \in Lane : m # l => LaneOK(m)'
    BY <1>1, OtherLane DEF SharedOK
  <2> QED BY <1>1, <1>5, <2>1, <2>2 DEF SharedOK
<1>7. LocalCells \subseteq DOMAIN Cells
  BY CellsOK DEF LocalCells
<1>8. CASE l = 0
  <2>1. ASSUME NEW j \in DOMAIN B PROVE shared[j][0] = Held(1, 0, B[j]) /\ shared[j][0] \in [RowIds -> Nat]
    <3>1. LaneOK(0)
      BY LaneOf DEF SharedOK
    <3>2. Halvings \in 0 .. Step(p) - 1 /\ Step(p) >= 1 /\ Halvings = Step(p) - 1
      BY <1>1, HalvingsOK
    <3>3. Offset(Halvings) = 1 /\ 0 < 1
      BY OffsetOK
    <3>4. shared[j][0] = Held(1, 0, B[j])
      BY <3>1, <3>2, <3>3, <1>8 DEF LaneOK
    <3>5. shared[j][0] \in [RowIds -> Nat]
      BY <1>3, LaneOf DEF SharedOK
    <3> QED BY <3>4, <3>5
  <2>2. sums' = [c \in DOMAIN Cells |->
            IF \E i \in DOMAIN B : B[i] = c THEN shared[CHOOSE i \in DOMAIN B : B[i] = c][0] ELSE sums[c]]
    BY <1>8 DEF Copy, SumsOK
  <2> HIDE DEF B
  <2>3. ASSUME NEW j \in DOMAIN B PROVE sums'[B[j]] = Held(1, 0, B[j])
    <3>1. B[j] \in DOMAIN Cells
      BY <1>3, <1>7
    <3>2. (CHOOSE i \in DOMAIN B : B[i] = B[j]) = j
      BY <1>3
    <3> QED BY <2>1, <2>2, <3>1, <3>2
  <2>4. \A c \in DOMAIN Cells : (\A i \in DOMAIN B : B[i] # c) => sums'[c] = sums[c]
    BY <2>2
  <2>5. ASSUME NEW c \in DOMAIN Cells PROVE sums'[c] \in [RowIds -> Nat]
    <3>1. CASE \E i \in DOMAIN B : B[i] = c
      <4>1. PICK j \in DOMAIN B : B[j] = c
        BY <3>1
      <4> QED BY <4>1, <2>1, <2>3
    <3>2. CASE ~\E i \in DOMAIN B : B[i] = c
      BY <3>2, <2>4 DEF SumsOK
    <3> QED BY <3>1, <3>2
  <2>6. sums' \in [DOMAIN Cells -> [RowIds -> Nat]]
    BY <2>2, <2>5
  <2>7. ASSUME NEW q \in 1 .. Len(Batches), NEW i \in DOMAIN Batches[q], phase'[0] >= q * S
        PROVE  sums'[Batches[q][i]] = Held(1, 0, Batches[q][i])
    <3> DEFINE c == Batches[q][i]
    <3>1. c \in DOMAIN Cells
      BY BatchesOK, CellsOK
    <3>2. CASE \E j \in DOMAIN B : B[j] = c
      BY <2>3, <3>2
    <3>3. CASE ~\E j \in DOMAIN B : B[j] = c
      <4>1. q # (p \div S) + 1
        BY <3>3, <1>2
      <4>2. p + 1 >= q * S /\ q \in Nat
        BY <1>1, <1>8, <2>7, BatchesOK
      <4>3. p >= q * S
        <5> HIDE DEF p
        <5> QED BY <4>1, <4>2, <1>1, BoundaryOK
      <4>4. sums[c] = Held(1, 0, c)
        BY <4>3, <1>8 DEF SumsOK
      <4> QED BY <4>4, <3>1, <3>3, <2>4
    <3> QED BY <3>2, <3>3
  <2>8. SumsOK'
    <3> HIDE DEF S
    <3> QED BY <1>5, <2>6, <2>7 DEF SumsOK, S
  <2> QED BY <1>4, <1>6, <2>8
<1>9. CASE l # 0
  <2>1. sums' = sums /\ phase'[0] = phase[0]
    BY <1>1, <1>9, LaneOf DEF Copy
  <2>2. SumsOK'
    BY <1>1, <1>5, <2>1 DEF SumsOK
  <2> QED BY <1>4, <1>6, <2>2
<1> QED BY <1>8, <1>9

-----------------------------------------------------------------------------
(* From a threadgroup to the next *)

\* When all threads have ended thread 0 has the rows of all lanes.
LEMMA GroupEnds ==
    ASSUME TileInv, launch # 3, \A l \in Lane : phase[l] = Last,
           NEW c \in LocalCells
    PROVE  sums[c] = [r \in RowIds |-> IF \E l \in Lane : local[l][c][r] = 1 THEN 1 ELSE 0]
<1>1. PICK q \in 1 .. Len(Batches) : \E i \in DOMAIN Batches[q] : Batches[q][i] = c
  <2>1. CASE launch = 2
    <3>1. c = 1 /\ Batches = <<<<1>>>>
      BY <2>1, BatchesOK DEF LocalCells
    <3>2. Len(Batches) = 1 /\ Batches[1] = <<1>> /\ DOMAIN <<1>> = {1} /\ <<1>>[1] = 1
      BY <3>1
    <3> QED BY <3>1, <3>2
  <2>2. CASE launch # 2
    BY <2>2, BatchesOK DEF LocalCells, TileInv, PhasesOK
  <2> QED BY <2>1, <2>2
<1>2. PICK i \in DOMAIN Batches[q] : Batches[q][i] = c
  BY <1>1
<1>3. phase[0] >= q * StepsPerBatch
  <2> DEFINE n == Len(Batches)
             S == StepsPerBatch
  <2>1. phase[0] = n * S
    BY LaneOf DEF Last
  <2>2. n \in Nat /\ S \in Nat /\ q \in Nat /\ q <= n
    BY BatchesOK, HalvingsOK
  <2> HIDE DEF n, S
  <2>3. n * S >= q * S /\ n * S \in Int /\ q * S \in Int
    BY <2>2
  <2> QED BY <2>1, <2>3 DEF S
<1>4. sums[c] = Held(1, 0, c)
  BY <1>2, <1>3 DEF TileInv, SumsOK
<1>5. \A m \in Lane : m % 1 = 0
  BY LaneOf
<1> QED BY <1>4, <1>5 DEF Held

\* The accumulators of the first launch.
LEMMA ScanUnit ==
    ASSUME PhasesOK, NEW b \in Nat, RowIds # {} => b < Grid
    PROVE  /\ \A l \in Lane, c \in DOMAIN Cells : Scan(b)[l][c] \in [RowIds -> {0, 1}]
           /\ \A l, m \in Lane, c \in DOMAIN Cells, r \in RowIds : Scan(b)[l][c][r] = 1 /\ Scan(b)[m][c][r] = 1 => l = m
           /\ \A c \in DOMAIN Cells :
                Indicator(b, c) = [r \in RowIds |-> IF \E l \in Lane : Scan(b)[l][c][r] = 1 THEN 1 ELSE 0]
<1>1. ASSUME NEW l \in Lane, NEW c \in DOMAIN Cells
      PROVE  /\ Scan(b)[l][c] \in [RowIds -> {0, 1}]
             /\ \A r \in RowIds : Scan(b)[l][c][r] = 1 <=> (r \in Scanned(b, l) /\ Adds(rows[r], Cells[c]))
  <2>1. Scan(b)[l][c] = [r \in RowIds |-> IF r \in Scanned(b, l) /\ Adds(rows[r], Cells[c]) THEN 1 ELSE 0]
    BY DEF Scan
  <2> QED BY <2>1
<1>2. ASSUME NEW l \in Lane, NEW m \in Lane, NEW c \in DOMAIN Cells, NEW r \in RowIds,
             Scan(b)[l][c][r] = 1, Scan(b)[m][c][r] = 1
      PROVE  l = m
  <2>1. r \in Scanned(b, l) /\ r \in Scanned(b, m)
    BY <1>1, <1>2
  <2>2. b \in 0 .. Grid - 1
    BY GridOK
  <2> QED BY <2>1, <2>2, ScannedOnce
<1>3. ASSUME NEW c \in DOMAIN Cells
      PROVE  Indicator(b, c) = [r \in RowIds |-> IF \E l \in Lane : Scan(b)[l][c][r] = 1 THEN 1 ELSE 0]
  <2>1. \A r \in RowIds : ScannedIn(b, c, r) <=> \E l \in Lane : Scan(b)[l][c][r] = 1
    BY <1>1 DEF ScannedIn
  <2> QED BY <2>1 DEF Indicator
<1> QED BY <1>1, <1>2, <1>3

\* A thread's sum over its share of the partials: each row is in one of them at most.
LEMMA ShareSumOK ==
    ASSUME PhasesOK, NEW found, Len(found) \in Nat, NEW c \in DOMAIN Cells, NEW r \in RowIds, NEW l \in Lane,
           \A b \in 1 .. Len(found) : found[b][c] = Indicator(b - 1, c),
           Len(found) = Grid
    PROVE  ShareSum(found, l, c, r) = IF \E t \in Share(found, l) : ScannedIn(t, c, r) THEN 1 ELSE 0
<1> DEFINE T == Share(found, l)
           g == [t \in T |-> found[t + 1][c][r]]
           R(it) == it = [s \in SUBSET T |-> IF s = {} THEN 0 ELSE found[Pick(s) + 1][c][r] + it[s \ {Pick(s)}]]
<1>1. T \in SUBSET (0 .. Len(found) - 1) /\ IsFiniteSet(T)
  <2>1. T \in SUBSET (0 .. Len(found) - 1)
    BY DEF Share
  <2>2. IsFiniteSet(0 .. Len(found) - 1)
    <3>1. Len(found) - 1 \in Int /\ 0 \in Int
      OBVIOUS
    <3> QED BY <3>1, FS_Interval, Zenon
  <2> HIDE DEF T
  <2> QED BY <2>1, <2>2, FS_Subset
<1>2. ASSUME NEW t \in T PROVE g[t] = IF ScannedIn(t, c, r) THEN 1 ELSE 0
  <2>1. t \in 0 .. Len(found) - 1
    BY <1>1
  <2>2. t + 1 \in 1 .. Len(found) /\ (t + 1) - 1 = t
    BY <2>1
  <2>3. found[t + 1][c] = Indicator(t, c)
    BY <2>2
  <2> QED BY <2>3 DEF Indicator
<1>3. ASSUME NEW t \in T, NEW u \in T, g[t] = 1, g[u] = 1 PROVE t = u
  <2>1. ScannedIn(t, c, r) /\ ScannedIn(u, c, r)
    BY <1>2, <1>3
  <2>2. PICK k \in Lane, m \in Lane : r \in Scanned(t, k) /\ r \in Scanned(u, m)
    BY <2>1 DEF ScannedIn
  <2>3. t \in 0 .. Grid - 1 /\ u \in 0 .. Grid - 1
    BY <1>1
  <2> QED BY <2>2, <2>3, ScannedOnce
<1>4. ASSUME NEW s \in SUBSET T, s # {} PROVE Pick(s) \in T /\ g[Pick(s)] = found[Pick(s) + 1][c][r]
  <2>1. Pick(s) \in s
    BY <1>4 DEF Pick
  <2> QED BY <2>1
<1> HIDE DEF T, g
<1>5. PICK jt : Sums(jt, SUBSET T, g)
  BY <1>1, SumsExist
<1>6. R(jt)
  BY <1>4, <1>5 DEF Sums
<1> DEFINE it == CHOOSE k : R(k)
<1>7. R(it)
  BY <1>6
<1>8. ShareSum(found, l, c, r) = it[T]
  BY Zenon DEF ShareSum, MapThenSumSet, MapThenFoldSet, Pick, T
<1> HIDE DEF it
<1>9. Sums(it, SUBSET T, g)
  BY <1>4, <1>7 DEF Sums
<1>10. it[T] = IF \E t \in T : g[t] = 1 THEN 1 ELSE 0
  <2>1. \A t \in T : g[t] \in {0, 1}
    BY <1>2
  <2>2. \A t, u \in T : g[t] = 1 /\ g[u] = 1 => t = u
    BY <1>3
  <2>3. IsFiniteSet(T)
    BY <1>1
  <2> QED BY <1>9, <2>1, <2>2, <2>3, SumOfUnit, Zenon
<1> QED BY <1>2, <1>8, <1>10 DEF T

\* The accumulators of the second launch.
LEMMA CollectUnit ==
    ASSUME PhasesOK, NEW found, Len(found) \in Nat, NEW c \in DOMAIN Cells,
           \A b \in 1 .. Len(found) : found[b][c] = Indicator(b - 1, c),
           RowIds # {} => Len(found) = Grid
    PROVE  /\ \A l \in Lane : Collect(c, found)[l][1] \in [RowIds -> {0, 1}]
           /\ \A l, m \in Lane, r \in RowIds :
                Collect(c, found)[l][1][r] = 1 /\ Collect(c, found)[m][1][r] = 1 => l = m
           /\ Counted(c) = [r \in RowIds |-> IF \E l \in Lane : Collect(c, found)[l][1][r] = 1 THEN 1 ELSE 0]
<1>1. ASSUME NEW l \in Lane
      PROVE  Collect(c, found)[l][1] = [r \in RowIds |-> IF \E t \in Share(found, l) : ScannedIn(t, c, r) THEN 1 ELSE 0]
  <2>1. Collect(c, found)[l][1] = [r \in RowIds |-> ShareSum(found, l, c, r)]
    BY DEF Collect
  <2>2. \A r \in RowIds : ShareSum(found, l, c, r) = IF \E t \in Share(found, l) : ScannedIn(t, c, r) THEN 1 ELSE 0
    BY ShareSumOK
  <2> QED BY <2>1, <2>2
<1>2. ASSUME NEW l \in Lane, NEW r \in RowIds
      PROVE  Collect(c, found)[l][1][r] = 1 <=> \E t \in 0 .. Len(found) - 1 : t % Lanes = l /\ ScannedIn(t, c, r)
  <2>1. Collect(c, found)[l][1][r] = IF \E t \in Share(found, l) : ScannedIn(t, c, r) THEN 1 ELSE 0
    BY <1>1
  <2>2. (\E t \in Share(found, l) : ScannedIn(t, c, r))
          <=> \E t \in 0 .. Len(found) - 1 : t % Lanes = l /\ ScannedIn(t, c, r)
    BY Zenon DEF Share
  <2>3. 0 # 1
    OBVIOUS
  <2> QED BY <2>1, <2>2, <2>3, Zenon
<1>3. \A l \in Lane : Collect(c, found)[l][1] \in [RowIds -> {0, 1}]
  BY <1>1
<1>4. ASSUME NEW l \in Lane, NEW m \in Lane, NEW r \in RowIds,
             Collect(c, found)[l][1][r] = 1, Collect(c, found)[m][1][r] = 1
      PROVE  l = m
  <2>1. PICK t \in 0 .. Len(found) - 1 : t % Lanes = l /\ ScannedIn(t, c, r)
    BY <1>2, <1>4
  <2>2. PICK u \in 0 .. Len(found) - 1 : u % Lanes = m /\ ScannedIn(u, c, r)
    BY <1>2, <1>4
  <2>3. PICK i \in Lane, j \in Lane : r \in Scanned(t, i) /\ r \in Scanned(u, j)
    BY <2>1, <2>2 DEF ScannedIn
  <2>4. t \in 0 .. Grid - 1 /\ u \in 0 .. Grid - 1
    BY <2>1, <2>2
  <2>5. t = u
    BY <2>3, <2>4, ScannedOnce
  <2> QED BY <2>1, <2>2, <2>5
<1>5. ASSUME NEW r \in RowIds
      PROVE  (\E b \in 0 .. Grid - 1 : ScannedIn(b, c, r)) <=> \E l \in Lane : Collect(c, found)[l][1][r] = 1
  <2>1. ASSUME NEW t \in 0 .. Grid - 1 PROVE t % Lanes \in Lane
    BY LaneOf, HalvingsOK, GridOK
  <2> QED BY <1>2, <2>1
<1>6. Counted(c) = [r \in RowIds |-> IF \E l \in Lane : Collect(c, found)[l][1][r] = 1 THEN 1 ELSE 0]
  BY <1>5 DEF Counted
<1> QED BY <1>3, <1>4, <1>6

LEMMA BatchCount == Len(Batches) \in Nat \ {0}
BY BatchesOK

LEMMA BatchCountNext == (Len(Batches) \in Nat \ {0})'
BY BatchCount, PTL

\* A threadgroup starts: no thread has taken a step, and nothing is summed.
LEMMA FreshGroup ==
    ASSUME PhasesOK, SharedOK, SumsOK,
           launch' \in 1 .. 3, block' \in Nat,
           phase' = [l \in Lane |-> 0], sums' = [c \in DOMAIN Cells |-> Nothing],
           UNCHANGED <<kernel, rows, shared>>
    PROVE  PhasesOK' /\ SharedOK' /\ SumsOK'
<1>1. RowIds' = RowIds /\ Cells' = Cells
  BY Frame
<1>2. Len(Batches)' \in Nat \ {0} /\ StepsPerBatch \in Nat \ {0} /\ Last' = Len(Batches)' * StepsPerBatch
  BY BatchCountNext, HalvingsOK DEF Last
<1>3. Last' \in Nat
  BY <1>2
<1>4. PhasesOK'
  BY <1>3 DEF PhasesOK
<1>5. \A l \in Lane : LaneOK(l)'
  <2>1. Step(0) = 0
    BY HalvingsOK DEF Step
  <2>2. \A l \in Lane : Step(phase'[l]) = 0
    BY <2>1
  <2> QED BY <2>2 DEF LaneOK
<1>6. SharedOK'
  BY <1>1, <1>5 DEF SharedOK
<1>7. SumsOK'
  <2>1. Nothing \in [RowIds -> Nat]
    BY DEF Nothing
  <2>2. sums' \in [DOMAIN Cells' -> [RowIds' -> Nat]]
    BY <1>1, <2>1
  <2>3. ASSUME NEW q \in 1 .. Len(Batches') PROVE ~(phase'[0] >= q * StepsPerBatch)
    <3>1. q * StepsPerBatch > 0 /\ q * StepsPerBatch \in Int
      BY <1>2
    <3>2. phase'[0] = 0
      BY LaneOf
    <3> QED BY <3>1, <3>2
  <2> QED BY <2>2, <2>3 DEF SumsOK
<1> QED BY <1>4, <1>6, <1>7

LEMMA NextBlockInv ==
    ASSUME TileInv, NextBlock
    PROVE  TileInv'
<1> USE DEF TileInv
<1> DEFINE found == Append(partials, sums)
           more == block + 1 < Grid
           n == Len(partials)
<1>1. /\ launch = 1 /\ partials' = found /\ UNCHANGED <<kernel, rows, shared, final>>
      /\ launch' = IF more THEN 1 ELSE 2
      /\ block' = IF more THEN block + 1 ELSE 0
      /\ local' = IF more THEN Scan(block + 1) ELSE Collect(1, found)
      /\ phase' = [l \in Lane |-> 0] /\ sums' = [c \in DOMAIN Cells |-> Nothing]
  BY DEF NextBlock
<1>2. /\ block \in Nat /\ n = block /\ local = Scan(block) /\ Grid \in Nat
      /\ RowIds # {} => block < Grid
  BY <1>1, GridOK DEF PhasesOK, PartialsOK
<1>3. PhasesOK' /\ SharedOK' /\ SumsOK'
  BY <1>1, <1>2, FreshGroup
<1>4. /\ RowIds' = RowIds /\ Cells' = Cells /\ Grid' = Grid
      /\ \A b, c : Indicator(b, c)' = Indicator(b, c)
      /\ \A b : Scan(b)' = Scan(b)
      /\ \A c : Counted(c)' = Counted(c)
  BY <1>1, Frame
<1>5. /\ found \in Seq([DOMAIN Cells -> [RowIds -> Nat]]) /\ Len(found) = n + 1
      /\ found[n + 1] = sums /\ \A b \in 1 .. n : found[b] = partials[b]
  BY DEF PartialsOK, SumsOK
<1>6. \A c \in DOMAIN Cells : sums[c] = Indicator(block, c)
  <2>1. \A l \in Lane : phase[l] = Last
    BY DEF NextBlock
  <2>2. ASSUME NEW c \in DOMAIN Cells
        PROVE  sums[c] = [r \in RowIds |-> IF \E l \in Lane : local[l][c][r] = 1 THEN 1 ELSE 0]
    <3>1. c \in LocalCells /\ launch # 3
      BY <1>1 DEF LocalCells
    <3> QED BY <2>1, <3>1, GroupEnds, Zenon
  <2>3. \A c \in DOMAIN Cells :
            Indicator(block, c) = [r \in RowIds |-> IF \E l \in Lane : Scan(block)[l][c][r] = 1 THEN 1 ELSE 0]
    BY <1>2, ScanUnit
  <2> QED BY <1>2, <2>2, <2>3
<1>7. \A b \in 1 .. Len(found), c \in DOMAIN Cells : found[b][c] = Indicator(b - 1, c)
  <2> SUFFICES ASSUME NEW b \in 1 .. Len(found), NEW c \in DOMAIN Cells PROVE found[b][c] = Indicator(b - 1, c)
    OBVIOUS
  <2> HIDE DEF found
  <2>1. CASE b = n + 1
    <3>1. b - 1 = block
      BY <2>1, <1>2
    <3> QED BY <3>1, <2>1, <1>5, <1>6
  <2>2. CASE b # n + 1
    <3>1. b \in 1 .. n
      BY <2>2, <1>2, <1>5
    <3> QED BY <3>1, <1>5 DEF PartialsOK
  <2> QED BY <2>1, <2>2
<1>8. Len(found) \in Nat /\ 1 \in DOMAIN Cells /\ Len(Cells) \in Nat \ {0}
  BY <1>2, <1>5, CellsOK
<1> HIDE DEF found, n
<1>9. CASE more
  <2>1. /\ launch' = 1 /\ block' = block + 1 /\ local' = Scan(block + 1)
        /\ block + 1 \in Nat /\ block + 1 < Grid
    BY <1>1, <1>2, <1>9
  <2>2. LocalUnit'
    <3>1. LocalCells' = DOMAIN Cells
      BY <2>1, <1>4 DEF LocalCells
    <3> QED BY <2>1, <1>4, <3>1, ScanUnit DEF LocalUnit
  <2>3. PartialsOK'
    BY <2>1, <1>1, <1>2, <1>4, <1>5, <1>7 DEF PartialsOK
  <2>4. FinalOK'
    BY <2>1, <1>1, <1>4 DEF FinalOK
  <2> QED BY <1>3, <2>2, <2>3, <2>4
<1>10. CASE ~more
  <2>1. /\ launch' = 2 /\ block' = 0 /\ local' = Collect(1, found)
        /\ RowIds # {} => Len(found) = Grid
    BY <1>1, <1>2, <1>5, <1>10
  <2>2. LocalUnit'
    <3>1. LocalCells' = {1}
      BY <2>1 DEF LocalCells
    <3>2. /\ \A l \in Lane : local'[l][1] \in [RowIds -> {0, 1}]
          /\ \A l, m \in Lane, r \in RowIds : local'[l][1][r] = 1 /\ local'[m][1][r] = 1 => l = m
      BY <2>1, <1>7, <1>8, CollectUnit
    <3> QED BY <1>4, <3>1, <3>2 DEF LocalUnit
  <2>3. PartialsOK'
    <3>1. partials' = found /\ block' + 1 = 1
      BY <2>1, <1>1
    <3>2. Collect(block + 1, partials)' = Collect(1, found)
      BY <1>4, <3>1 DEF Collect
    <3> QED BY <2>1, <3>2, <1>1, <1>4, <1>5, <1>7, <1>8 DEF PartialsOK
  <2>4. FinalOK'
    BY <2>1, <1>1, <1>4 DEF FinalOK
  <2> QED BY <1>3, <2>2, <2>3, <2>4
<1> QED BY <1>9, <1>10

LEMMA NextCellInv ==
    ASSUME TileInv, NextCell
    PROVE  TileInv'
<1> USE DEF TileInv
<1> DEFINE more == block + 1 < Len(Cells)
<1>1. /\ launch = 2 /\ final' = Append(final, sums[1]) /\ UNCHANGED <<kernel, rows, shared, partials>>
      /\ launch' = IF more THEN 2 ELSE 3
      /\ block' = IF more THEN block + 1 ELSE block
      /\ local' = IF more THEN Collect(block + 2, partials) ELSE local
      /\ phase' = [l \in Lane |-> 0] /\ sums' = [c \in DOMAIN Cells |-> Nothing]
  BY DEF NextCell
<1>2. /\ block \in Nat /\ block < Len(Cells) /\ Len(Cells) \in Nat /\ DOMAIN Cells = 1 .. Len(Cells)
      /\ block + 1 \in DOMAIN Cells /\ 1 \in DOMAIN Cells
      /\ local = Collect(block + 1, partials) /\ Len(partials) \in Nat
      /\ RowIds # {} => Len(partials) = Grid
  BY <1>1, CellsOK DEF PhasesOK, PartialsOK
<1>3. PhasesOK' /\ SharedOK' /\ SumsOK'
  BY <1>1, <1>2, FreshGroup
<1>4. /\ RowIds' = RowIds /\ Cells' = Cells /\ Grid' = Grid
      /\ \A b, c : Indicator(b, c)' = Indicator(b, c)
      /\ \A c : Counted(c)' = Counted(c)
  BY <1>1, Frame
<1>5. \A c \in DOMAIN Cells :
          /\ \A l \in Lane : Collect(c, partials)[l][1] \in [RowIds -> {0, 1}]
          /\ \A l, m \in Lane, r \in RowIds :
                Collect(c, partials)[l][1][r] = 1 /\ Collect(c, partials)[m][1][r] = 1 => l = m
          /\ Counted(c) = [r \in RowIds |-> IF \E l \in Lane : Collect(c, partials)[l][1][r] = 1 THEN 1 ELSE 0]
  <2> SUFFICES ASSUME NEW c \in DOMAIN Cells
               PROVE  /\ \A l \in Lane : Collect(c, partials)[l][1] \in [RowIds -> {0, 1}]
                      /\ \A l, m \in Lane, r \in RowIds :
                            Collect(c, partials)[l][1][r] = 1 /\ Collect(c, partials)[m][1][r] = 1 => l = m
                      /\ Counted(c) = [r \in RowIds |->
                            IF \E l \in Lane : Collect(c, partials)[l][1][r] = 1 THEN 1 ELSE 0]
    OBVIOUS
  <2>1. /\ \A b \in 1 .. Len(partials) : partials[b][c] = Indicator(b - 1, c)
        /\ Len(partials) \in Nat
        /\ RowIds # {} => Len(partials) = Grid
    BY <1>2 DEF PartialsOK
  <2>2. PhasesOK
    OBVIOUS
  <2> HIDE DEF TileInv
  <2> QED BY <2>1, <2>2, CollectUnit
<1>6. sums[1] = Counted(block + 1)
  <2>1. \A l \in Lane : phase[l] = Last
    BY DEF NextCell
  <2>2. 1 \in LocalCells /\ launch # 3
    BY <1>1 DEF LocalCells
  <2>3. sums[1] = [r \in RowIds |-> IF \E l \in Lane : local[l][1][r] = 1 THEN 1 ELSE 0]
    BY <2>1, <2>2, GroupEnds
  <2>4. Counted(block + 1) = [r \in RowIds |->
            IF \E l \in Lane : Collect(block + 1, partials)[l][1][r] = 1 THEN 1 ELSE 0]
    BY <1>2, <1>5
  <2> QED BY <1>2, <2>3, <2>4
<1>7. FinalOK'
  <2> DEFINE n == Len(final)
  <2>1. n = block /\ n \in Nat /\ sums[1] \in [RowIds -> Nat]
    BY <1>1, <1>2 DEF FinalOK, SumsOK
  <2>2. /\ final' \in Seq([RowIds -> Nat]) /\ Len(final') = n + 1
        /\ final'[n + 1] = sums[1] /\ \A c \in 1 .. n : final'[c] = final[c]
    BY <1>1, <2>1 DEF FinalOK
  <2>3. \A c \in 1 .. n + 1 : final'[c] = Counted(c)
    <3> SUFFICES ASSUME NEW c \in 1 .. n + 1 PROVE final'[c] = Counted(c)
      OBVIOUS
    <3>1. CASE c = n + 1
      BY <3>1, <2>1, <2>2, <1>6
    <3>2. CASE c # n + 1
      <4>1. c \in 1 .. n
        BY <3>2, <2>1
      <4> QED BY <4>1, <2>2 DEF FinalOK
    <3> QED BY <3>1, <3>2
  <2> HIDE DEF n
  <2>4. Len(final') <= Len(Cells) /\ launch' # 1 /\ (launch' = 2 => Len(final') = block')
    BY <1>1, <1>2, <2>1, <2>2
  <2> QED BY <1>4, <2>2, <2>3, <2>4 DEF FinalOK
<1>8. CASE more
  <2>1. launch' = 2 /\ block' = block + 1 /\ local' = Collect(block + 2, partials)
    BY <1>1, <1>8
  <2>2. block + 2 \in DOMAIN Cells /\ (block + 1) + 1 = block + 2
    BY <1>2, <1>8
  <2>3. LocalUnit'
    <3>1. LocalCells' = {1}
      BY <2>1 DEF LocalCells
    <3>2. /\ \A l \in Lane : local'[l][1] \in [RowIds -> {0, 1}]
          /\ \A l, m \in Lane, r \in RowIds : local'[l][1][r] = 1 /\ local'[m][1][r] = 1 => l = m
      BY <2>1, <2>2, <1>5
    <3> QED BY <1>4, <3>1, <3>2 DEF LocalUnit
  <2>4. PartialsOK'
    <3>0. partials' = partials /\ block' + 1 = block + 2
      BY <2>1, <2>2, <1>1
    <3>1. Collect(block + 1, partials)' = Collect(block + 2, partials)
      BY <1>4, <3>0 DEF Collect
    <3> QED BY <2>1, <3>1, <1>1, <1>2, <1>4, <1>8 DEF PartialsOK
  <2> QED BY <1>3, <1>7, <2>3, <2>4
<1>9. CASE ~more
  <2>1. launch' = 3
    BY <1>1, <1>9
  <2>2. LocalUnit'
    BY <2>1 DEF LocalUnit
  <2>3. PartialsOK'
    BY <2>1, <1>1, <1>4 DEF PartialsOK
  <2> QED BY <1>3, <1>7, <2>2, <2>3
<1> QED BY <1>8, <1>9

-----------------------------------------------------------------------------
(* The theorems *)

LEMMA InitInv ==
    ASSUME Init
    PROVE  TileInv
<1>1. PICK k \in Kernels, table \in Tables : Start(k, table)
  BY DEF Init
<1>2. /\ rows \in Seq([code : Nat, pass : BOOLEAN, valid : BOOLEAN]) /\ launch = 1 /\ block = 0
      /\ phase = [l \in Lane |-> 0] /\ local = Scan(0) /\ shared = NoBuffers
      /\ sums = [c \in DOMAIN Cells |-> Nothing] /\ partials = <<>> /\ final = <<>>
  BY <1>1, TileAssumption DEF Start
<1>3. Len(Batches) \in Nat \ {0} /\ StepsPerBatch \in Nat \ {0} /\ Last = Len(Batches) * StepsPerBatch
  BY BatchesOK, HalvingsOK DEF Last
<1>4. Last \in Nat
  BY <1>3
<1>5. PhasesOK
  BY <1>2, <1>4 DEF PhasesOK
<1>6. Nothing \in [RowIds -> Nat]
  BY DEF Nothing
<1>7. SharedOK
  <2>1. Step(0) = 0
    BY HalvingsOK DEF Step
  <2>2. \A l \in Lane : LaneOK(l)
    BY <1>2, <2>1 DEF LaneOK
  <2> QED BY <1>2, <1>6, <2>2 DEF SharedOK, NoBuffers
<1>8. SumsOK
  <2>1. ASSUME NEW q \in 1 .. Len(Batches) PROVE ~(phase[0] >= q * StepsPerBatch)
    <3>1. q * StepsPerBatch > 0 /\ q * StepsPerBatch \in Int
      BY <1>3
    <3>2. phase[0] = 0
      BY <1>2, LaneOf
    <3> QED BY <3>1, <3>2
  <2> QED BY <1>2, <1>6, <2>1 DEF SumsOK
<1>9. RowIds # {} => 0 < Grid
  BY <1>5, GridOK
<1>10. LocalUnit
  <2>1. LocalCells = DOMAIN Cells
    BY <1>2 DEF LocalCells
  <2> QED BY <1>2, <1>5, <1>9, <2>1, ScanUnit DEF LocalUnit
<1>11. PartialsOK
  BY <1>2, <1>9 DEF PartialsOK
<1>12. FinalOK
  BY <1>2, CellsOK DEF FinalOK
<1> QED BY <1>5, <1>7, <1>8, <1>10, <1>11, <1>12 DEF TileInv

LEMMA NextInv ==
    ASSUME TileInv, [Next]_vars
    PROVE  TileInv'
<1>1. ASSUME launch # 3, NEW l \in Lane, Load(l) PROVE TileInv'
  BY <1>1, LoadInv
<1>2. ASSUME launch # 3, NEW l \in Lane, TreeAdd(l) PROVE TileInv'
  BY <1>2, TreeAddInv
<1>3. ASSUME launch # 3, NEW l \in Lane, Copy(l) PROVE TileInv'
  BY <1>3, CopyInv
<1>4. CASE NextBlock
  BY <1>4, NextBlockInv
<1>5. CASE NextCell
  BY <1>5, NextCellInv
<1>6. CASE UNCHANGED vars
  <2> USE <1>6 DEF vars
  <2>1. /\ RowIds' = RowIds /\ Cells' = Cells /\ Grid' = Grid
        /\ \A b, c : Indicator(b, c)' = Indicator(b, c)
      /\ \A b : Scan(b)' = Scan(b)
        /\ \A c : Counted(c)' = Counted(c)
    BY Frame
  <2>2. Batches' = Batches /\ Last' = Last /\ \A p : Batch(p)' = Batch(p)
    BY DEF Batches, Last, Batch
  <2>3. \A o, l, c : Held(o, l, c)' = Held(o, l, c)
    BY <2>1 DEF Held
  <2>4. PhasesOK'
    BY <2>2 DEF TileInv, PhasesOK
  <2>5. LocalUnit'
    BY <2>1 DEF TileInv, LocalUnit, LocalCells
  <2>6. SharedOK'
    <3>1. \A l \in Lane : LaneOK(l)' <=> LaneOK(l)
      BY <2>2, <2>3 DEF LaneOK
    <3> QED BY <2>1, <3>1 DEF TileInv, SharedOK
  <2>7. SumsOK'
    BY <2>1, <2>2, <2>3 DEF TileInv, SumsOK
  <2>8. PartialsOK'
    <3>1. Collect(block + 1, partials)' = Collect(block + 1, partials)
      BY <2>1 DEF Collect
    <3> QED BY <2>1, <3>1 DEF TileInv, PartialsOK
  <2>9. FinalOK'
    BY <2>1 DEF TileInv, FinalOK
  <2> QED BY <2>4, <2>5, <2>6, <2>7, <2>8, <2>9 DEF TileInv
<1> QED BY <1>1, <1>2, <1>3, <1>4, <1>5, <1>6 DEF Next

\* The invariant holds of every schedule of the threads.
THEOREM TileInvariant == Spec => []TileInv
<1>1. Init => TileInv
  BY InitInv
<1>2. TileInv /\ [Next]_vars => TileInv'
  BY NextInv
<1> QED BY <1>1, <1>2, PTL DEF Spec

\* Between two barriers no thread of tg_tree_add and tg_tree_add_n reads or writes a shared
\* buffer that another one writes: the barrier after every step suffices for every width of
\* a threadgroup.
THEOREM RaceFreedom == Spec => []RaceFree
<1>1. TileInv => RaceFree
  BY NoRace DEF TileInv
<1> QED BY <1>1, TileInvariant, PTL

LEMMA CountedExact ==
    ASSUME TileInv, Covered
    PROVE  Exact
<1>1. ASSUME NEW c \in DOMAIN final
      PROVE  final[c] = [r \in RowIds |-> IF Adds(rows[r], Cells[c]) THEN 1 ELSE 0]
  <2>1. final[c] = Counted(c)
    BY DEF TileInv, FinalOK
  <2>2. ASSUME NEW r \in RowIds
        PROVE  (\E b \in 0 .. Grid - 1 : ScannedIn(b, c, r)) <=> Adds(rows[r], Cells[c])
    <3>1. \E b \in 0 .. Grid - 1, l \in Lane : r \in Scanned(b, l)
      BY ScannedAll DEF TileInv
    <3> QED BY <3>1 DEF ScannedIn
  <2> QED BY <2>1, <2>2 DEF Counted
<1> QED BY <1>1 DEF Exact

\* Where the grid covers the column, every accumulator of every kernel ends with each of
\* its rows added once: no row is lost between tiles, strides, batches, halvings and passes,
\* and none is added twice, whatever the order in which the threads run.
THEOREM Exactness == Spec => []ReductionExact
<1>1. TileInv => ReductionExact
  BY CountedExact DEF ReductionExact
<1> QED BY <1>1, TileInvariant, PTL

=============================================================================
