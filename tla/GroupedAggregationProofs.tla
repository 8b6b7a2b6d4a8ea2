---------------------- MODULE GroupedAggregationProofs ----------------------
(***************************************************************************)
(* What the abstract grouped aggregation guarantees for every input: the   *)
(* totals are those of the rows added, in whatever portions, and every     *)
(* group comes out with the aggregates of all its rows.  MlxGrouped is     *)
(* checked to implement it, so the guarantee carries over to each of the   *)
(* accumulators.                                                           *)
(***************************************************************************)
EXTENDS GroupedAggregation, MlxProofBasics

\* The rows of a query: finitely many, with whole numbers as values.
InputOK ==
    /\ IsFiniteSet(DOMAIN input.rows)
    /\ \A r \in DOMAIN input.rows, p \in DOMAIN input.programs : input.rows[r].value[p] \in Int

Mine(rows, g) == {r \in rows : input.rows[r].group = g}
CountedBy(rows, g, p) == {r \in Mine(rows, g) : input.rows[r].counted[p]}
ValueOf(p) == [r \in DOMAIN input.rows |-> input.rows[r].value[p]]

\* The sum in Total, as a sum of a function.
LEMMA TotalSum ==
    ASSUME InputOK, NEW C \in SUBSET DOMAIN input.rows, NEW p \in DOMAIN input.programs
    PROVE  MapThenSumSet(LAMBDA r : input.rows[r].value[p], C) = SumOf(ValueOf(p), C)
<1> DEFINE g == ValueOf(p)
           R(k) == k = [s \in SUBSET C |-> IF s = {} THEN 0 ELSE input.rows[Pick(s)].value[p] + k[s \ {Pick(s)}]]
<1>1. IsFiniteSet(C)
  BY FS_Subset DEF InputOK
<1>2. ASSUME NEW s \in SUBSET C, s # {} PROVE g[Pick(s)] = input.rows[Pick(s)].value[p]
  <2>1. Pick(s) \in s
    BY <1>2 DEF Pick
  <2> QED BY <2>1 DEF ValueOf
<1> HIDE DEF g
<1>3. PICK jt : Summing(jt, C, g) /\ SumOf(g, C) = jt[C]
  BY <1>1, SumOfIs DEF Summing
<1>4. R(jt)
  BY <1>2, <1>3 DEF Sums, Summing
<1> DEFINE it == CHOOSE k : R(k)
<1>5. R(it)
  BY <1>4
<1>6. MapThenSumSet(LAMBDA r : input.rows[r].value[p], C) = it[C]
  BY Zenon DEF MapThenSumSet, MapThenFoldSet, Pick
<1> HIDE DEF it
<1>7. Summing(it, C, g)
  BY <1>2, <1>5 DEF Sums, Summing
<1>8. it[C] = jt[C]
  BY <1>1, <1>3, <1>7, SumsAgree
<1> QED BY <1>3, <1>6, <1>8 DEF g

TotalAt(rows, g) ==
    [rows |-> Cardinality(Mine(rows, g)),
     count |-> [p \in DOMAIN input.programs |-> Cardinality(CountedBy(rows, g, p))],
     sum |-> [p \in DOMAIN input.programs |-> SumOf(ValueOf(p), CountedBy(rows, g, p))]]

LEMMA TotalIs ==
    ASSUME InputOK, NEW rows \in SUBSET DOMAIN input.rows
    PROVE  Total(rows) = [g \in input.groups |-> TotalAt(rows, g)]
<1>1. ASSUME NEW g \in input.groups PROVE Total(rows)[g] = TotalAt(rows, g)
  <2>1. ASSUME NEW p \in DOMAIN input.programs
        PROVE  MapThenSumSet(LAMBDA r : input.rows[r].value[p], CountedBy(rows, g, p))
                 = SumOf(ValueOf(p), CountedBy(rows, g, p))
    <3>1. CountedBy(rows, g, p) \in SUBSET DOMAIN input.rows
      BY DEF CountedBy, Mine
    <3> HIDE DEF CountedBy
    <3> QED BY <3>1, TotalSum
  <2>2. Total(rows)[g] =
          [rows |-> Cardinality(Mine(rows, g)),
           count |-> [p \in DOMAIN input.programs |-> Cardinality(CountedBy(rows, g, p))],
           sum |-> [p \in DOMAIN input.programs |->
                      MapThenSumSet(LAMBDA r : input.rows[r].value[p], CountedBy(rows, g, p))]]
    BY Zenon DEF Total, TotalOf, CountedBy, Mine
  <2> QED BY <2>1, <2>2, Zenon DEF TotalAt
<1>2. Total(rows) = [g \in input.groups |-> Total(rows)[g]]
  BY DEF Total, TotalOf
<1> QED BY <1>1, <1>2

\* Adding two sets of rows one after the other is adding their union.
LEMMA TotalPlus ==
    ASSUME InputOK, NEW S \in SUBSET DOMAIN input.rows, NEW T \in SUBSET DOMAIN input.rows,
           S \cap T = {}, NEW g \in input.groups
    PROVE  Plus(TotalAt(S, g), TotalAt(T, g)) = TotalAt(S \cup T, g)
<1>1. ASSUME NEW A \in SUBSET S, NEW B \in SUBSET T
      PROVE  Cardinality(A) + Cardinality(B) = Cardinality(A \cup B)
  <2>1. IsFiniteSet(A) /\ IsFiniteSet(B) /\ A \cap B = {}
    BY FS_Subset DEF InputOK
  <2>2. Cardinality(A \cup B) = Cardinality(A) + Cardinality(B) - Cardinality(A \cap B)
    BY <2>1, FS_Union
  <2>3. Cardinality(A \cap B) = 0
    BY <2>1, FS_EmptySet, Zenon
  <2>4. Cardinality(A) \in Nat /\ Cardinality(B) \in Nat
    BY <2>1, FS_CardinalityType
  <2> QED BY <2>2, <2>3, <2>4
<1>2. Cardinality(Mine(S, g)) + Cardinality(Mine(T, g)) = Cardinality(Mine(S \cup T, g))
  <2>1. Mine(S, g) \in SUBSET S /\ Mine(T, g) \in SUBSET T /\ Mine(S \cup T, g) = Mine(S, g) \cup Mine(T, g)
    BY DEF Mine
  <2> QED BY <1>1, <2>1
<1>3. ASSUME NEW p \in DOMAIN input.programs
      PROVE  /\ Cardinality(CountedBy(S, g, p)) + Cardinality(CountedBy(T, g, p)) = Cardinality(CountedBy(S \cup T, g, p))
             /\ SumOf(ValueOf(p), CountedBy(S, g, p)) + SumOf(ValueOf(p), CountedBy(T, g, p))
                  = SumOf(ValueOf(p), CountedBy(S \cup T, g, p))
  <2> DEFINE A == CountedBy(S, g, p)
             B == CountedBy(T, g, p)
  <2>1. A \in SUBSET S /\ B \in SUBSET T /\ CountedBy(S \cup T, g, p) = A \cup B
    BY DEF CountedBy, Mine
  <2>2. \A t \in A \cup B : ValueOf(p)[t] \in Int
    BY <2>1 DEF ValueOf, InputOK
  <2>3. IsFiniteSet(A) /\ IsFiniteSet(B) /\ A \cap B = {}
    BY <2>1, FS_Subset DEF InputOK
  <2> HIDE DEF A, B
  <2>4. SumOf(ValueOf(p), A \cup B) = SumOf(ValueOf(p), A) + SumOf(ValueOf(p), B)
    BY <2>2, <2>3, SumOfUnion
  <2>5. Cardinality(A) + Cardinality(B) = Cardinality(A \cup B)
    BY <1>1, <2>1
  <2> QED BY <2>1, <2>4, <2>5 DEF A, B
<1> QED BY <1>2, <1>3, Zenon DEF Plus, TotalAt

-----------------------------------------------------------------------------
(* The inductive invariant *)

\* The totals are those of the rows added so far.
TotalsExact == left \subseteq DOMAIN input.rows /\ total = Total(DOMAIN input.rows \ left)

AbstractInv == InputOK /\ TotalsExact /\ EmittedExact

LEMMA InitAbstract == InputOK /\ AbstractInit => AbstractInv
<1> SUFFICES ASSUME InputOK, AbstractInit PROVE AbstractInv
  OBVIOUS
<1>1. DOMAIN input.rows \ left = {}
  BY DEF AbstractInit
<1>2. TotalsExact
  BY <1>1 DEF AbstractInit, TotalsExact
<1>3. DOMAIN emitted = {}
  BY DEF AbstractInit
<1> QED BY <1>2, <1>3 DEF AbstractInv, EmittedExact

\* A portion of rows keeps the totals exact.
LEMMA AddKeeps ==
    ASSUME AbstractInv, NEW rows \in SUBSET left, Add(rows)
    PROVE  AbstractInv'
<1> DEFINE A == DOMAIN input.rows \ left
<1>1. input' = input /\ emitted' = emitted /\ left' = left \ rows
  BY DEF Add
<1>2. /\ A \in SUBSET DOMAIN input.rows /\ rows \in SUBSET DOMAIN input.rows /\ A \cap rows = {}
      /\ DOMAIN input.rows \ left' = A \cup rows
      /\ A \cup rows \in SUBSET DOMAIN input.rows
  BY <1>1 DEF AbstractInv, TotalsExact
<1>i. InputOK
  BY DEF AbstractInv
<1>3. total = [g \in input.groups |-> TotalAt(A, g)]
  BY <1>2, <1>i, TotalIs DEF AbstractInv, TotalsExact
<1>4. total' = [g \in input.groups |-> Plus(TotalAt(A, g), TotalAt(rows, g))]
  <2>1. Total(rows) = [g \in input.groups |-> TotalAt(rows, g)]
    BY <1>2, <1>i, TotalIs
  <2>2. total' = [g \in input.groups |-> Plus(total[g], Total(rows)[g])]
    BY DEF Add
  <2>3. \A g \in input.groups : total[g] = TotalAt(A, g) /\ Total(rows)[g] = TotalAt(rows, g)
    BY <1>3, <2>1
  <2> HIDE DEF A
  <2> QED BY <2>2, <2>3, Zenon
<1>5. total' = [g \in input.groups |-> TotalAt(A \cup rows, g)]
  <2> HIDE DEF A
  <2> QED BY <1>2, <1>4, <1>i, TotalPlus, Zenon
<1>6. total' = Total(A \cup rows)
  BY <1>2, <1>5, <1>i, TotalIs
<1>7. TotalsExact'
  <2>1. left' \subseteq DOMAIN input'.rows
    BY <1>1 DEF AbstractInv, TotalsExact
  <2>2. total' = TotalOf(input', DOMAIN input'.rows \ left')
    BY <1>1, <1>2, <1>6 DEF Total
  <2> QED BY <2>1, <2>2 DEF TotalsExact, Total
<1>8. InputOK' /\ EmittedExact'
  BY <1>1 DEF AbstractInv, InputOK, EmittedExact, Total
<1> QED BY <1>7, <1>8 DEF AbstractInv

\* A group is emitted with the last row in, and only if it has a row.
LEMMA EmitKeeps ==
    ASSUME AbstractInv, NEW groups \in SUBSET {g \in input.groups \ DOMAIN emitted : total[g].rows > 0},
           Emit(groups)
    PROVE  AbstractInv'
<1>1. input' = input /\ total' = total /\ left' = left /\ left = {}
  BY DEF Emit
<1>2. InputOK' /\ TotalsExact'
  BY <1>1 DEF AbstractInv, InputOK, TotalsExact, Total
<1>3. total = Total(DOMAIN input.rows)
  BY <1>1 DEF AbstractInv, TotalsExact
<1>4. ASSUME NEW g \in groups PROVE \E r \in DOMAIN input.rows : input.rows[r].group = g
  <2>1. total[g] = TotalAt(DOMAIN input.rows, g)
    BY <1>3, TotalIs DEF AbstractInv
  <2>2. Cardinality(Mine(DOMAIN input.rows, g)) > 0
    BY <2>1 DEF TotalAt
  <2>3. Mine(DOMAIN input.rows, g) # {}
    <3>1. Mine(DOMAIN input.rows, g) = {} => Cardinality(Mine(DOMAIN input.rows, g)) = 0
      BY FS_EmptySet, Zenon
    <3> QED BY <2>2, <3>1
  <2> QED BY <2>3 DEF Mine
<1>5. EmittedExact'
  <2> SUFFICES ASSUME NEW g \in DOMAIN emitted'
               PROVE  /\ \E r \in DOMAIN input.rows : input.rows[r].group = g
                      /\ emitted'[g] = [p \in DOMAIN input.programs |->
                            Result(input.programs[p], Total(DOMAIN input.rows)[g], p)]
    BY <1>1 DEF EmittedExact, Total
  <2>1. CASE g \in groups
    <3>1. emitted'[g] = [p \in DOMAIN input.programs |-> Result(input.programs[p], total[g], p)]
      BY <2>1, Zenon DEF Emit
    <3> QED BY <1>3, <1>4, <2>1, <3>1, Zenon
  <2>2. CASE g \notin groups
    <3>1. g \in DOMAIN emitted /\ emitted'[g] = emitted[g]
      BY <2>2 DEF Emit
    <3> QED BY <3>1, Zenon DEF AbstractInv, EmittedExact
  <2> QED BY <2>1, <2>2
<1> QED BY <1>2, <1>5 DEF AbstractInv

\* However the rows of a query are split into chunks, segments, batches and passes, and in
\* whatever order these are added, every group the aggregation emits has a row, and its
\* aggregates are those of all rows of the group.
THEOREM AggregationExact == InputOK /\ AbstractSpec => []EmittedExact
<1>1. InputOK /\ AbstractInit => AbstractInv
  BY InitAbstract
<1>2. AbstractInv /\ [AbstractNext]_abstractVars => AbstractInv'
  <2>1. ASSUME AbstractInv, UNCHANGED abstractVars PROVE AbstractInv'
    BY <2>1 DEF abstractVars, AbstractInv, InputOK, TotalsExact, EmittedExact, Total
  <2> QED BY <2>1, AddKeeps, EmitKeeps DEF AbstractNext
<1>3. AbstractInv => EmittedExact
  BY DEF AbstractInv
<1> QED BY <1>1, <1>2, <1>3, PTL DEF AbstractSpec

=============================================================================
