---------------------------- MODULE MlxFilterProofs ----------------------------
(***************************************************************************)
(* Proofs about MlxFilter, for every table, layout, WHERE clause and list  *)
(* of aggregates: the programs of an accepted query keep the stack of      *)
(* EvalOps balanced, unless an IS NOT NULL stands below a connective, and  *)
(* zone maps only skip segments with no row for the query, but for rows    *)
(* on the fp32 rounding of a constant that fp32 does not hold.             *)
(***************************************************************************)
EXTENDS MlxFilter, MlxProofBasics, SequenceTheorems

-----------------------------------------------------------------------------
(* Postfix programs *)

Connectives == {"AND", "OR"}
BinaryCodes == Connectives \cup Comparisons \cup {"ADD", "SUB", "MUL", "DIV"}
UnaryCodes == {"TO_FLOAT", "NOT", "NEGATE", "ABS"}
LeafCodes == {"LOAD_COL", "CONST_VAL"}

ColOfOp == Columns \cup {""}

OpSet == [code : LeafCodes \cup UnaryCodes \cup BinaryCodes, col : ColOfOp, value : -Top .. Top, int_lane : BOOLEAN]

\* dep is the depth of the stack after each operation, none of which finds too few operands.
Depths(dep, ops) ==
    /\ dep \in [0 .. Len(ops) -> Nat] /\ dep[0] = 0
    /\ \A i \in 1 .. Len(ops) : dep[i - 1] >= Takes(ops[i]) /\ dep[i] = dep[i - 1] - Takes(ops[i]) + 1

\* The program runs from an empty stack and leaves d values on it.
Runs(ops, d) == \E dep : Depths(dep, ops) /\ dep[Len(ops)] = d

\* A program that loads from cols only and leaves d values.
Good(ops, cols, d) ==
    /\ ops \in Seq(OpSet)
    /\ cols \in SUBSET Columns
    /\ \A i \in 1 .. Len(ops) : ops[i].code = "LOAD_COL" => ops[i].col \in cols
    /\ Runs(ops, d)

LEMMA TakesType == ASSUME NEW op PROVE Takes(op) \in {0, 1, 2}
BY DEF Takes

LEMMA GoodSeq ==
    ASSUME NEW ops, NEW cols, NEW d, Good(ops, cols, d)
    PROVE  /\ ops \in Seq(OpSet) /\ Len(ops) \in Nat /\ cols \in SUBSET Columns /\ d \in Nat
           /\ ops = <<>> => d = 0
<1>1. ops \in Seq(OpSet) /\ Len(ops) \in Nat
  BY LenProperties DEF Good
<1>2. PICK dep : Depths(dep, ops) /\ dep[Len(ops)] = d
  BY DEF Good, Runs
<1> QED BY <1>1, <1>2 DEF Depths, Good

LEMMA GoodMore ==
    ASSUME NEW ops, NEW cols, NEW more \in SUBSET Columns, NEW d, Good(ops, cols, d), cols \subseteq more
    PROVE  Good(ops, more, d)
BY DEF Good

\* The empty program.
LEMMA GoodNone == ASSUME NEW cols \in SUBSET Columns PROVE Good(<<>>, cols, 0)
<1>1. Depths([i \in 0 .. 0 |-> 0], <<>>)
  BY DEF Depths
<1>2. Runs(<<>>, 0)
  BY <1>1 DEF Runs
<1> QED BY <1>2, EmptySeq DEF Good

\* One program after the other.
LEMMA GoodJoin ==
    ASSUME NEW a, NEW b, NEW cols, NEW m, NEW n, Good(a, cols, m), Good(b, cols, n)
    PROVE  Good(a \o b, cols, m + n)
<1> DEFINE ab == a \o b
<1>1. /\ a \in Seq(OpSet) /\ b \in Seq(OpSet) /\ Len(a) \in Nat /\ Len(b) \in Nat /\ m \in Nat /\ n \in Nat
  BY GoodSeq
<1>2. /\ ab \in Seq(OpSet) /\ Len(ab) = Len(a) + Len(b)
      /\ \A i \in 1 .. Len(a) + Len(b) : ab[i] = IF i <= Len(a) THEN a[i] ELSE b[i - Len(a)]
  BY <1>1, ConcatProperties
<1> HIDE DEF ab
<1>3. PICK da : Depths(da, a) /\ da[Len(a)] = m
  BY DEF Good, Runs
<1>4. PICK db : Depths(db, b) /\ db[Len(b)] = n
  BY DEF Good, Runs
<1> DEFINE dep == [i \in 0 .. Len(a) + Len(b) |-> IF i <= Len(a) THEN da[i] ELSE m + db[i - Len(a)]]
<1>5. dep \in [0 .. Len(ab) -> Nat] /\ dep[0] = 0 /\ dep[Len(ab)] = m + n
  BY <1>1, <1>2, <1>3, <1>4 DEF Depths
<1>6. ASSUME NEW i \in 1 .. Len(ab)
      PROVE  dep[i - 1] >= Takes(ab[i]) /\ dep[i] = dep[i - 1] - Takes(ab[i]) + 1
  <2>1. CASE i <= Len(a)
    <3>1. ab[i] = a[i] /\ dep[i] = da[i] /\ dep[i - 1] = da[i - 1] /\ i \in 1 .. Len(a)
      BY <1>1, <1>2, <2>1
    <3> QED BY <3>1, <1>3 DEF Depths
  <2>2. CASE i > Len(a)
    <3> DEFINE j == i - Len(a)
    <3>1. j \in 1 .. Len(b) /\ ab[i] = b[j] /\ dep[i] = m + db[j]
      BY <1>1, <1>2, <2>2
    <3>2. dep[i - 1] = m + db[j - 1]
      <4>1. CASE j = 1
        BY <4>1, <1>1, <1>2, <1>3, <1>4 DEF Depths
      <4>2. CASE j # 1
        BY <4>2, <3>1, <1>1, <1>2, <2>2
      <4> QED BY <4>1, <4>2
    <3>3. Takes(b[j]) \in {0, 1, 2}
      BY TakesType
    <3> HIDE DEF j, dep
    <3>4. j - 1 \in 0 .. Len(b) /\ j \in 0 .. Len(b)
      BY <3>1, <1>1
    <3>5. db[j - 1] \in Nat /\ db[j] \in Nat
      BY <3>4, <1>4 DEF Depths
    <3>6. db[j - 1] >= Takes(b[j]) /\ db[j] = db[j - 1] - Takes(b[j]) + 1
      BY <3>1, <1>4 DEF Depths
    <3>7. Takes(ab[i]) = Takes(b[j])
      BY <3>1, Zenon
    <3> DEFINE before == db[j - 1]
               after == db[j]
               takes == Takes(b[j])
    <3>8. /\ before \in Nat /\ after \in Nat /\ takes \in Int /\ m \in Nat
          /\ before >= takes /\ after = before - takes + 1
          /\ dep[i] = m + after /\ dep[i - 1] = m + before /\ Takes(ab[i]) = takes
      BY <1>1, <3>1, <3>2, <3>3, <3>5, <3>6, <3>7
    <3> HIDE DEF before, after, takes
    <3>9. m + before >= takes /\ m + after = m + before - takes + 1
      BY <3>8
    <3> QED BY <3>8, <3>9
  <2> QED BY <2>1, <2>2, <1>1, <1>2
<1>7. Runs(ab, m + n)
  <2>1. Depths(dep, ab)
    BY <1>5, <1>6 DEF Depths
  <2> HIDE DEF dep
  <2> QED BY <2>1, <1>5 DEF Runs
<1>8. ASSUME NEW i \in 1 .. Len(ab), ab[i].code = "LOAD_COL" PROVE ab[i].col \in cols
  <2>1. CASE i <= Len(a)
    BY <1>1, <1>2, <1>8, <2>1 DEF Good
  <2>2. CASE i > Len(a)
    <3> DEFINE j == i - Len(a)
    <3>1. j \in 1 .. Len(b) /\ ab[i] = b[j]
      BY <1>1, <1>2, <2>2
    <3> HIDE DEF j
    <3> QED BY <3>1, <1>8 DEF Good
  <2> QED BY <2>1, <2>2, <1>1, <1>2
<1> QED BY <1>2, <1>7, <1>8 DEF Good, ab

\* A program, then an operation that finds its operands.
LEMMA GoodThen ==
    ASSUME NEW a, NEW cols, NEW m, NEW op \in OpSet, Good(a, cols, m), Takes(op) <= m,
           op.code = "LOAD_COL" => op.col \in cols
    PROVE  Good(a \o <<op>>, cols, m - Takes(op) + 1)
<1> DEFINE ab == a \o <<op>>
<1>1. a \in Seq(OpSet) /\ Len(a) \in Nat /\ m \in Nat /\ Takes(op) \in {0, 1, 2}
  BY GoodSeq, TakesType
<1>2. /\ ab \in Seq(OpSet) /\ Len(ab) = Len(a) + 1 /\ ab[Len(a) + 1] = op
      /\ \A i \in 1 .. Len(a) : ab[i] = a[i]
  BY <1>1
<1> HIDE DEF ab
<1>3. PICK da : Depths(da, a) /\ da[Len(a)] = m
  BY DEF Good, Runs
<1> DEFINE dep == [i \in 0 .. Len(a) + 1 |-> IF i <= Len(a) THEN da[i] ELSE m - Takes(op) + 1]
<1>4. Depths(dep, ab)
  <2>1. dep \in [0 .. Len(ab) -> Nat] /\ dep[0] = 0
    BY <1>1, <1>2, <1>3 DEF Depths
  <2>2. ASSUME NEW i \in 1 .. Len(ab)
        PROVE  dep[i - 1] >= Takes(ab[i]) /\ dep[i] = dep[i - 1] - Takes(ab[i]) + 1
    <3>1. CASE i <= Len(a)
      <4>1. ab[i] = a[i] /\ dep[i] = da[i] /\ dep[i - 1] = da[i - 1] /\ i \in 1 .. Len(a)
        BY <1>1, <1>2, <3>1
      <4> QED BY <4>1, <1>3 DEF Depths
    <3>2. CASE i = Len(a) + 1
      BY <3>2, <1>1, <1>2, <1>3
    <3> QED BY <3>1, <3>2, <1>1, <1>2
  <2> QED BY <2>1, <2>2 DEF Depths
<1>5. dep[Len(ab)] = m - Takes(op) + 1
  BY <1>1, <1>2
<1>6. Runs(ab, m - Takes(op) + 1)
  <2> HIDE DEF dep
  <2> QED BY <1>4, <1>5 DEF Runs
<1>7. \A i \in 1 .. Len(ab) : ab[i].code = "LOAD_COL" => ab[i].col \in cols
  BY <1>1, <1>2 DEF Good
<1> QED BY <1>2, <1>6, <1>7 DEF Good, ab

\* One operation without operands.
LEMMA GoodOne ==
    ASSUME NEW op \in OpSet, NEW cols \in SUBSET Columns, Takes(op) = 0, op.code = "LOAD_COL" => op.col \in cols
    PROVE  Good(<<op>>, cols, 1)
<1>1. Good(<<>>, cols, 0)
  BY GoodNone
<1>2. Takes(op) <= 0
  OBVIOUS
<1>3. Good(<<>> \o <<op>>, cols, 0 - Takes(op) + 1)
  BY <1>1, <1>2, GoodThen, Zenon
<1>4. <<>> \o <<op>> = <<op>>
  BY ConcatEmptySeq
<1> QED BY <1>3, <1>4

LEMMA ZeroInRange == 0 \in -Top .. Top
BY FilterAssumption

LEMMA LoadGood ==
    ASSUME NEW col \in Columns
    PROVE  Good(<<Op("LOAD_COL", col, 0, FALSE)>>, {col}, 1)
<1> DEFINE op == Op("LOAD_COL", col, 0, FALSE)
<1>1. op \in OpSet /\ op.code = "LOAD_COL" /\ op.col = col
  <2>1. col \in ColOfOp
    BY Zenon DEF ColOfOp
  <2> QED BY <2>1, ZeroInRange DEF Op, OpSet, LeafCodes
<1>2. Takes(op) = 0
  BY <1>1 DEF Takes
<1> HIDE DEF op
<1>3. Good(<<op>>, {col}, 1)
  BY <1>1, <1>2, GoodOne
<1> QED BY <1>3 DEF op

LEMMA ConstGood ==
    ASSUME NEW value \in -Top .. Top, NEW lane \in BOOLEAN, NEW cols \in SUBSET Columns
    PROVE  Good(<<Op("CONST_VAL", "", value, lane)>>, cols, 1)
<1> DEFINE op == Op("CONST_VAL", "", value, lane)
<1>1. op \in OpSet /\ op.code = "CONST_VAL"
  BY DEF Op, OpSet, LeafCodes, ColOfOp
<1>2. Takes(op) = 0 /\ op.code # "LOAD_COL"
  BY <1>1 DEF Takes
<1> HIDE DEF op
<1>3. Good(<<op>>, cols, 1)
  BY <1>1, <1>2, GoodOne
<1> QED BY <1>3 DEF op

\* Such a program is balanced.
LEMMA GoodBalanced ==
    ASSUME NEW ops, NEW cols, Good(ops, cols, 1)
    PROVE  Balanced(ops)
<1> DEFINE R(f) == f = [i \in 0 .. Len(ops) |-> IF i = 0 THEN 0 ELSE f[i - 1] - Takes(ops[i]) + 1]
           depth == CHOOSE f : R(f)
<1>1. ops \in Seq(OpSet) /\ Len(ops) \in Nat /\ DOMAIN ops = 1 .. Len(ops)
  BY GoodSeq, LenProperties
<1>2. PICK dep : Depths(dep, ops) /\ dep[Len(ops)] = 1
  BY DEF Good, Runs
<1>3. R(dep)
  BY <1>1, <1>2 DEF Depths
<1>4. R(depth)
  BY <1>3
<1>5. Balanced(ops) <=> /\ \A i \in DOMAIN ops : depth[i - 1] >= Takes(ops[i])
                        /\ depth[Len(ops)] = 1
  BY Zenon DEF Balanced
<1> HIDE DEF depth
<1> DEFINE M == {n \in Nat : n <= Len(ops) => depth[n] = dep[n]}
<1>6. 0 \in M
  BY <1>1, <1>3, <1>4
<1>7. ASSUME NEW n \in Nat, n \in M PROVE n + 1 \in M
  <2> SUFFICES ASSUME n + 1 <= Len(ops) PROVE depth[n + 1] = dep[n + 1]
    OBVIOUS
  <2>1. n + 1 \in 0 .. Len(ops) /\ n + 1 # 0 /\ (n + 1) - 1 = n
    BY <1>1
  <2>2. depth[n + 1] = depth[n] - Takes(ops[n + 1]) + 1 /\ dep[n + 1] = dep[n] - Takes(ops[n + 1]) + 1
    BY <1>3, <1>4, <2>1
  <2> QED BY <2>2, <1>7, <1>1
<1>8. M = Nat
  <2> HIDE DEF M
  <2> QED BY <1>6, <1>7, SetInduction DEF M
<1>9. \A n \in 0 .. Len(ops) : depth[n] = dep[n]
  BY <1>8, <1>1
<1>10. \A i \in DOMAIN ops : depth[i - 1] >= Takes(ops[i])
  BY <1>1, <1>2, <1>9 DEF Depths
<1>11. depth[Len(ops)] = 1
  BY <1>1, <1>2, <1>9
<1> QED BY <1>5, <1>10, <1>11

-----------------------------------------------------------------------------
(* Joining programs *)

LEMMA FlattenOne == ASSUME NEW seqs, Len(seqs) = 1 PROVE FlattenSeq(seqs) = seqs[1]
<1> DEFINE R(f) == f = [i \in 1 .. Len(seqs) |-> IF i = 1 THEN seqs[i] ELSE f[i - 1] \o seqs[i]]
           flatten == CHOOSE f : R(f)
<1>1. R([i \in 1 .. 1 |-> seqs[1]])
  OBVIOUS
<1>2. R(flatten)
  BY <1>1
<1>3. FlattenSeq(seqs) = IF Len(seqs) = 0 THEN seqs ELSE flatten[Len(seqs)]
  BY Zenon DEF FlattenSeq
<1> HIDE DEF flatten
<1> QED BY <1>2, <1>3

LEMMA FlattenTwo == ASSUME NEW seqs, Len(seqs) = 2 PROVE FlattenSeq(seqs) = seqs[1] \o seqs[2]
<1> DEFINE R(f) == f = [i \in 1 .. Len(seqs) |-> IF i = 1 THEN seqs[i] ELSE f[i - 1] \o seqs[i]]
           flatten == CHOOSE f : R(f)
           g == [i \in 1 .. 2 |-> IF i = 1 THEN seqs[1] ELSE seqs[1] \o seqs[2]]
<1>1. R(g)
  <2>1. g[1] = seqs[1] /\ g[2] = seqs[1] \o seqs[2]
    OBVIOUS
  <2>2. ASSUME NEW i \in 1 .. 2 PROVE g[i] = IF i = 1 THEN seqs[i] ELSE g[i - 1] \o seqs[i]
    <3>1. i = 1 \/ (i = 2 /\ i - 1 = 1)
      OBVIOUS
    <3> QED BY <2>1, <3>1
  <2>3. g = [i \in 1 .. 2 |-> g[i]]
    OBVIOUS
  <2> HIDE DEF g
  <2> QED BY <2>2, <2>3
<1> HIDE DEF g
<1>2. R(flatten)
  BY <1>1
<1>3. FlattenSeq(seqs) = IF Len(seqs) = 0 THEN seqs ELSE flatten[Len(seqs)]
  BY Zenon DEF FlattenSeq
<1> HIDE DEF flatten
<1>4. flatten[1] = seqs[1]
  BY <1>2
<1>5. flatten[2] = flatten[2 - 1] \o seqs[2]
  BY <1>2
<1>6. FlattenSeq(seqs) = flatten[2]
  BY <1>3
<1>7. 2 - 1 = 1
  OBVIOUS
<1> QED BY <1>4, <1>5, <1>6, <1>7, Zenon

LEMMA PlainOp ==
    ASSUME NEW code \in UnaryCodes \cup BinaryCodes
    PROVE  /\ Plain(code) \in OpSet /\ Plain(code).code # "LOAD_COL"
           /\ code \in UnaryCodes => Takes(Plain(code)) = 1
           /\ code \in BinaryCodes => Takes(Plain(code)) = 2
<1>1. Plain(code).code = code
  BY DEF Plain, Op
<1>2. Plain(code) \in OpSet
  BY ZeroInRange DEF Plain, Op, OpSet, ColOfOp
<1> QED BY <1>1, <1>2 DEF Takes, UnaryCodes, BinaryCodes, Connectives, Comparisons

\* Two programs and a binary operator.
LEMMA GoodBinary ==
    ASSUME NEW a, NEW b, NEW cols, NEW op \in OpSet, Good(a, cols, 1), Good(b, cols, 1),
           Takes(op) = 2, op.code # "LOAD_COL"
    PROVE  Good(a \o b \o <<op>>, cols, 1)
<1>1. Good(a \o b, cols, 2)
  <2>1. Good(a \o b, cols, 1 + 1)
    BY GoodJoin, Zenon
  <2> QED BY <2>1
<1>2. Takes(op) <= 2
  OBVIOUS
<1>3. Good((a \o b) \o <<op>>, cols, 2 - Takes(op) + 1)
  BY <1>1, <1>2, GoodThen, Zenon
<1> QED BY <1>3

\* f joins the programs one by one.
Joins(f, parts, code) ==
    /\ f[0] = <<>>
    /\ \A k \in 1 .. Len(parts) :
        f[k - 1] \in Seq(OpSet) /\ f[k] = f[k - 1] \o parts[k] \o (IF k = 1 THEN <<>> ELSE <<Plain(code)>>)

LEMMA JoinedSteps ==
    ASSUME NEW parts, NEW code \in Connectives, Len(parts) \in Nat \ {0},
           \A k \in 1 .. Len(parts) : parts[k] \in Seq(OpSet)
    PROVE  \E f : Joins(f, parts, code) /\ Joined(parts, code) = f[Len(parts)]
<1> DEFINE N == Len(parts)
           last(k) == IF k = 1 THEN <<>> ELSE <<Plain(code)>>
           R(f) == f = [k \in 0 .. N |-> IF k = 0 THEN <<>> ELSE f[k - 1] \o parts[k] \o last(k)]
           joined == CHOOSE f : R(f)
           h == [x \in Seq(OpSet) \X (1 .. N) |-> x[1] \o parts[x[2]] \o last(x[2])]
<1>1. /\ Plain(code) \in OpSet /\ Plain(code).code # "LOAD_COL" /\ Takes(Plain(code)) = 2
  <2>1. code \in BinaryCodes
    BY DEF BinaryCodes
  <2> QED BY <2>1, PlainOp
<1>2. ASSUME NEW k \in 1 .. N PROVE last(k) \in Seq(OpSet) /\ parts[k] \in Seq(OpSet)
  BY <1>1, EmptySeq
<1>3. ASSUME NEW x \in Seq(OpSet), NEW k \in 1 .. N
      PROVE  h[<<x, k>>] = x \o parts[k] \o last(k) /\ h[<<x, k>>] \in Seq(OpSet)
  <2> HIDE DEF last
  <2>1. <<x, k>> \in Seq(OpSet) \X (1 .. N) /\ <<x, k>>[1] = x /\ <<x, k>>[2] = k
    OBVIOUS
  <2>2. h[<<x, k>>] = x \o parts[k] \o last(k)
    BY <2>1
  <2>3. x \o parts[k] \in Seq(OpSet)
    BY <1>2, ConcatProperties
  <2>4. (x \o parts[k]) \o last(k) \in Seq(OpSet)
    BY <1>2, <2>3, ConcatProperties
  <2> QED BY <2>2, <2>4
<1> HIDE DEF h
<1>4. PICK f : DefinedBy(f, Seq(OpSet), <<>>, h, N)
  <2>1. <<>> \in Seq(OpSet) /\ N \in Nat
    BY EmptySeq
  <2>2. Steps(h, Seq(OpSet), N)
    BY <1>3 DEF Steps
  <2> QED BY <2>1, <2>2, Recursion
<1>5. R(f)
  <2>1. ASSUME NEW k \in 0 .. N PROVE f[k] = IF k = 0 THEN <<>> ELSE f[k - 1] \o parts[k] \o last(k)
    <3> HIDE DEF last
    <3>1. CASE k = 0
      BY <3>1, <1>4 DEF DefinedBy
    <3>2. CASE k # 0
      <4>1. k \in 1 .. N /\ k - 1 \in 0 .. N
        BY <3>2
      <4>2. f[k - 1] \in Seq(OpSet)
        BY <4>1, <1>4 DEF DefinedBy
      <4>3. f[k] = h[<<f[k - 1], k>>]
        BY <4>1, <1>4 DEF DefinedBy
      <4> QED BY <3>2, <4>1, <4>2, <4>3, <1>3
    <3> QED BY <3>1, <3>2
  <2>2. f = [k \in 0 .. N |-> f[k]]
    BY <1>4 DEF DefinedBy
  <2> HIDE DEF last
  <2> QED BY <2>1, <2>2
<1>6. R(joined)
  BY <1>5
<1>7. Joined(parts, code) = joined[N]
  BY Zenon DEF Joined
<1> HIDE DEF joined
<1> DEFINE V == {k \in Nat : k <= N => joined[k] \in Seq(OpSet)}
<1>8. 0 \in V
  BY <1>6, EmptySeq
<1>9. ASSUME NEW k \in Nat, k \in V PROVE k + 1 \in V
  <2> SUFFICES ASSUME k + 1 <= N PROVE joined[k + 1] \in Seq(OpSet)
    OBVIOUS
  <2>1. k + 1 \in 1 .. N /\ (k + 1) - 1 = k /\ k + 1 \in 0 .. N /\ k + 1 # 0
    OBVIOUS
  <2> HIDE DEF last
  <2>2. joined[k + 1] = joined[k] \o parts[k + 1] \o last(k + 1)
    BY <1>6, <2>1
  <2>3. joined[k] \o parts[k + 1] \in Seq(OpSet)
    BY <1>2, <1>9, <2>1, ConcatProperties
  <2> QED BY <1>2, <2>1, <2>2, <2>3, ConcatProperties
<1>10. V = Nat
  <2> HIDE DEF V
  <2> QED BY <1>8, <1>9, SetInduction DEF V
<1>11. Joins(joined, parts, code)
  <2>1. joined[0] = <<>>
    BY <1>6
  <2>2. ASSUME NEW k \in 1 .. N
        PROVE  joined[k - 1] \in Seq(OpSet) /\ joined[k] = joined[k - 1] \o parts[k] \o last(k)
    <3>1. k \in 0 .. N /\ k # 0 /\ k - 1 \in Nat /\ k - 1 <= N
      OBVIOUS
    <3>2. k - 1 \in V
      BY <1>10, <3>1, Zenon
    <3> HIDE DEF last
    <3>3. joined[k] = joined[k - 1] \o parts[k] \o last(k)
      BY <1>6, <3>1
    <3> QED BY <3>1, <3>2, <3>3
  <2> QED BY <2>1, <2>2 DEF Joins
<1> QED BY <1>7, <1>11

\* The programs of a conjunction, joined, leave one value.
LEMMA JoinedGood ==
    ASSUME NEW parts, NEW cols \in SUBSET Columns, NEW code \in Connectives, Len(parts) \in Nat \ {0},
           \A k \in 1 .. Len(parts) : Good(parts[k], cols, 1)
    PROVE  Good(Joined(parts, code), cols, 1)
<1> DEFINE N == Len(parts)
           last(k) == IF k = 1 THEN <<>> ELSE <<Plain(code)>>
<1>1. /\ Plain(code) \in OpSet /\ Plain(code).code # "LOAD_COL" /\ Takes(Plain(code)) = 2
  <2>1. code \in BinaryCodes
    BY DEF BinaryCodes
  <2> QED BY <2>1, PlainOp
<1>2. \A k \in 1 .. N : parts[k] \in Seq(OpSet)
  BY GoodSeq
<1>6. PICK joined : Joins(joined, parts, code) /\ Joined(parts, code) = joined[N]
  BY <1>2, JoinedSteps
<1>7. Joined(parts, code) = joined[N]
  BY <1>6
<1> DEFINE M == {k \in Nat : k \in 1 .. N => Good(joined[k], cols, 1)}
<1>8. 0 \in M
  OBVIOUS
<1>9. ASSUME NEW k \in Nat, k \in M PROVE k + 1 \in M
  <2> SUFFICES ASSUME k + 1 \in 1 .. N PROVE Good(joined[k + 1], cols, 1)
    OBVIOUS
  <2>0. (k + 1) - 1 = k /\ k + 1 # 0 /\ k + 1 \in 0 .. N
    OBVIOUS
  <2>1. joined[k + 1] = joined[k] \o parts[k + 1] \o last(k + 1)
    BY <1>6, <2>0 DEF Joins
  <2>2. Good(parts[k + 1], cols, 1)
    OBVIOUS
  <2>3. CASE k = 0
    <3>1. joined[0] = <<>>
      BY <1>6 DEF Joins
    <3>2. joined[k + 1] = <<>> \o parts[k + 1] \o <<>>
      <4>1. last(k + 1) = <<>>
        BY <2>3
      <4> HIDE DEF last
      <4> QED BY <2>1, <3>1, <2>3, <4>1
    <3>3. parts[k + 1] \in Seq(OpSet)
      BY <2>2, GoodSeq
    <3>4. joined[k + 1] = parts[k + 1]
      BY <3>2, <3>3, ConcatEmptySeq
    <3> QED BY <3>4, <2>2
  <2>4. CASE k # 0
    <3>1. Good(joined[k], cols, 1)
      BY <1>9, <2>4
    <3>2. joined[k + 1] = joined[k] \o parts[k + 1] \o <<Plain(code)>>
      <4>1. last(k + 1) = <<Plain(code)>>
        BY <2>4
      <4> HIDE DEF last
      <4> QED BY <2>1, <2>4, <4>1
    <3> QED BY <3>1, <3>2, <2>2, <1>1, GoodBinary
  <2> QED BY <2>3, <2>4
<1>10. M = Nat
  <2> HIDE DEF M
  <2> QED BY <1>8, <1>9, SetInduction DEF M
<1> QED BY <1>7, <1>10

\* An operand that IS NOT NULL leaves out makes a program that finds too few values, but
\* such a program ends with its connective.
Ends(ops) == Len(ops) > 0 /\ ops[Len(ops)].code \in Connectives

\* No operation; or a program that loads from cols and leaves one value; or, where a
\* conjunction is not whole, one that ends with a connective.
Conjunct(ops, cols, whole) ==
    /\ ops \in Seq(OpSet)
    /\ ops = <<>> \/ Good(ops, cols, 1) \/ (~whole /\ Ends(ops))

LEMMA ConjunctMore ==
    ASSUME NEW ops, NEW cols, NEW more \in SUBSET Columns, NEW whole, Conjunct(ops, cols, whole), cols \subseteq more
    PROVE  Conjunct(ops, more, whole)
BY GoodMore DEF Conjunct

LEMMA GoodConjunct == ASSUME NEW ops, NEW cols, NEW whole, Good(ops, cols, 1) PROVE Conjunct(ops, cols, whole)
BY GoodSeq DEF Conjunct

LEMMA EndsThen ==
    ASSUME NEW ops \in Seq(OpSet), NEW code \in Connectives
    PROVE  ops \o <<Plain(code)>> \in Seq(OpSet) /\ Ends(ops \o <<Plain(code)>>)
<1> DEFINE op == Plain(code)
           more == ops \o <<op>>
<1>1. op \in OpSet
  BY PlainOp DEF BinaryCodes
<1>2. op.code = code
  BY DEF Plain, Op
<1> HIDE DEF op
<1>3. more \in Seq(OpSet) /\ Len(ops) \in Nat /\ Len(more) = Len(ops) + 1 /\ more[Len(ops) + 1] = op
  BY <1>1
<1> HIDE DEF more
<1>4. Len(more) > 0 /\ more[Len(more)].code = code
  BY <1>2, <1>3
<1> QED BY <1>3, <1>4 DEF Ends, more, op

\* A conjunction that is not whole.
LEMMA JoinedEnds ==
    ASSUME NEW parts, NEW cols, NEW code \in Connectives, Len(parts) \in Nat \ {0},
           \A k \in 1 .. Len(parts) : Conjunct(parts[k], cols, FALSE)
    PROVE  Conjunct(Joined(parts, code), cols, FALSE)
<1> DEFINE N == Len(parts)
<1>1. \A k \in 1 .. N : parts[k] \in Seq(OpSet)
  BY DEF Conjunct
<1>2. PICK f : Joins(f, parts, code) /\ Joined(parts, code) = f[N]
  BY <1>1, JoinedSteps
<1>3. N \in 1 .. N /\ 1 - 1 = 0
  OBVIOUS
<1>4. CASE N = 1
  <2>1. f[1] = <<>> \o parts[1] \o <<>>
    BY <1>2, <1>3, <1>4 DEF Joins
  <2>2. f[1] = parts[1]
    BY <2>1, <1>1, <1>3, <1>4, ConcatEmptySeq
  <2> QED BY <2>2, <1>2, <1>3, <1>4
<1>5. CASE N # 1
  <2>1. f[N - 1] \in Seq(OpSet) /\ f[N] = f[N - 1] \o parts[N] \o <<Plain(code)>>
    BY <1>2, <1>3, <1>5 DEF Joins
  <2>2. f[N - 1] \o parts[N] \in Seq(OpSet)
    BY <2>1, <1>1, <1>3, ConcatProperties
  <2> DEFINE ops == f[N - 1] \o parts[N]
  <2>3. f[N] = ops \o <<Plain(code)>> /\ ops \in Seq(OpSet)
    BY <2>1, <2>2
  <2> HIDE DEF ops
  <2>4. f[N] \in Seq(OpSet) /\ Ends(f[N])
    BY <2>3, EndsThen
  <2> QED BY <2>4, <1>2 DEF Conjunct
<1> QED BY <1>4, <1>5

-----------------------------------------------------------------------------
(* Translation *)

LEMMA Two == ASSUME NEW a, NEW b PROVE Append(<<a>>, b) = <<a, b>>
<1> DEFINE S == {a, b}
           m == Append(<<a>>, b)
<1>1. <<a>> \in Seq(S) /\ b \in S /\ <<a, b>> \in Seq(S) /\ Len(<<a>>) = 1 /\ <<a>>[1] = a
  OBVIOUS
<1>2. m \in Seq(S) /\ Len(m) = 2 /\ m[1] = a /\ m[2] = b
  <2> HIDE DEF S
  <2> QED BY <1>1, AppendProperties
<1> HIDE DEF m, S
<1>3. Len(<<a, b>>) = 2 /\ <<a, b>>[1] = a /\ <<a, b>>[2] = b
  OBVIOUS
<1>4. m = <<a, b>>
  BY <1>1, <1>2, <1>3, SeqEqual
<1> QED BY <1>4 DEF m

LEMMA Three == ASSUME NEW a, NEW b, NEW c PROVE <<a>> \o <<b>> \o <<c>> = <<a, b, c>>
<1> DEFINE S == {a, b, c}
           l == <<a>> \o <<b>>
           m == l \o <<c>>
<1>1. <<a>> \in Seq(S) /\ <<b>> \in Seq(S) /\ <<c>> \in Seq(S) /\ <<a, b, c>> \in Seq(S)
  OBVIOUS
<1>2. l \in Seq(S) /\ Len(l) = 2 /\ l[1] = a /\ l[2] = b
  BY <1>1
<1> HIDE DEF l
<1>3. m \in Seq(S) /\ Len(m) = 3 /\ m[1] = l[1] /\ m[2] = l[2] /\ m[3] = c
  <2> DEFINE k == <<c>>
  <2>1. k \in Seq(S) /\ Len(k) = 1 /\ k[1] = c
    BY <1>1
  <2> HIDE DEF k, S
  <2>2. /\ l \o k \in Seq(S) /\ Len(l \o k) = Len(l) + Len(k)
        /\ \A i \in 1 .. Len(l) + Len(k) : (l \o k)[i] = IF i <= Len(l) THEN l[i] ELSE k[i - Len(l)]
    BY <2>1, <1>2, ConcatProperties
  <2>3. (l \o k)[1] = l[1] /\ (l \o k)[2] = l[2] /\ (l \o k)[3] = k[1]
    BY <2>1, <2>2, <1>2
  <2> QED BY <2>1, <2>2, <2>3, <1>2 DEF k
<1> HIDE DEF m, S
<1>4. Len(<<a, b, c>>) = 3 /\ <<a, b, c>>[1] = a /\ <<a, b, c>>[2] = b /\ <<a, b, c>>[3] = c
  OBVIOUS
<1>5. m = <<a, b, c>>
  BY <1>1, <1>2, <1>3, <1>4, SeqEqual
<1> QED BY <1>5 DEF l, m

LEMMA LenOf ==
    ASSUME NEW n \in Nat, NEW f, f = [k \in 1 .. n |-> f[k]]
    PROVE  Len(f) = n
OBVIOUS

\* What an accepted translation is: a program that loads its columns and leaves one value.
TransOK(t) == t.ok => Good(t.ops, t.cols, 1)

\* The conditions of ExprOK on one node.
NodeOK(node) ==
    /\ node.class = "col" => node.col \in Columns
    /\ node.class = "const" => node.value \in -Top .. Top \cup {Null}
    /\ node.class \in {"cast", "not"} => Len(node.kids) = 1
    /\ node.class = "unary" => node.code \in {"NEGATE", "ABS"} /\ Len(node.kids) = 1
    /\ node.class = "cmp" => node.code \in Comparisons /\ Len(node.kids) = 2
    /\ node.class = "binary" => node.code \in {"ADD", "SUB", "MUL", "DIV"} /\ Len(node.kids) = 2
    /\ node.class = "conj" => node.code \in {"AND", "OR"} /\ Len(node.kids) > 0

\* A node of translated children is translated to such a program.
LEMMA NodeGood ==
    ASSUME NEW node, NEW kids, NodeOK(node), NEW len \in Nat, len = Len(node.kids),
           kids = [k \in 1 .. len |-> kids[k]],
           \A k \in 1 .. len : TransOK(kids[k]),
           TranslateNode(node, kids).ok
    PROVE  LET t == TranslateNode(node, kids) IN Good(t.ops, t.cols, 1)
<1> DEFINE t == TranslateNode(node, kids)
           progs == [k \in DOMAIN kids |-> kids[k].ops]
           ops == FlattenSeq(progs)
           cols == UNION {kids[k].cols : k \in DOMAIN kids}
           lanes == {kids[k].lane : k \in DOMAIN kids}
           ok == \A k \in DOMAIN kids : kids[k].ok
<1>1. t = CASE node.class = "col" -> Done(<<Op("LOAD_COL", node.col, 0, FALSE)>>, {node.col}, Lane[node.col])
          [] node.class = "const" /\ node.value # Null ->
                Done(<<Op("CONST_VAL", "", node.value, node.code = "int")>>, {}, node.code)
          [] node.class = "cast" /\ ok /\ lanes = {"int"} -> Done(ops \o <<Plain("TO_FLOAT")>>, cols, "float")
          [] node.class = "cast" /\ ok /\ lanes = {"float"} -> Done(ops, cols, "float")
          [] node.class = "cmp" /\ ok /\ lanes \in {{"int"}, {"float"}} -> Done(ops \o <<Plain(node.code)>>, cols, "bool")
          [] node.class = "conj" /\ ok /\ lanes = {"bool"} -> Done(Joined(progs, node.code), cols, "bool")
          [] node.class = "not" /\ ok /\ lanes = {"bool"} -> Done(ops \o <<Plain("NOT")>>, cols, "bool")
          [] node.class = "binary" /\ ok /\ lanes \in {{"int"}, {"float"}} /\ ~("int" \in lanes /\ node.code = "DIV") ->
                Done(ops \o <<Plain(node.code)>>, cols, CHOOSE lane \in lanes : TRUE)
          [] node.class = "unary" /\ ok /\ lanes \in {{"int"}, {"float"}} ->
                Done(ops \o <<Plain(node.code)>>, cols, CHOOSE lane \in lanes : TRUE)
          [] OTHER -> Declined
  BY Zenon DEF TranslateNode
<1>2. t.ok
  OBVIOUS
<1>3. DOMAIN kids = 1 .. len /\ Len(progs) = len /\ \A k \in 1 .. len : progs[k] = kids[k].ops
  <2>1. DOMAIN kids = 1 .. len
    BY Zenon
  <2>2. progs = [k \in 1 .. len |-> progs[k]]
    BY <2>1
  <2>3. \A k \in 1 .. len : progs[k] = kids[k].ops
    BY <2>1
  <2> HIDE DEF progs
  <2> QED BY <2>1, <2>2, <2>3, LenOf
<1>4. ASSUME ok PROVE cols \in SUBSET Columns /\ \A k \in 1 .. len : Good(progs[k], cols, 1)
  <2>1. \A k \in 1 .. len : Good(kids[k].ops, kids[k].cols, 1)
    BY <1>3, <1>4 DEF TransOK
  <2>2. ASSUME NEW k \in 1 .. len PROVE kids[k].cols \in SUBSET Columns
    BY <2>1 DEF Good
  <2>3. cols \in SUBSET Columns
    <3> SUFFICES ASSUME NEW x \in cols PROVE x \in Columns
      BY Zenon
    <3>1. PICK k \in DOMAIN kids : x \in kids[k].cols
      BY Zenon
    <3>2. k \in 1 .. len
      BY <3>1, <1>3
    <3> QED BY <3>1, <3>2, <2>2
  <2>4. ASSUME NEW k \in 1 .. len PROVE Good(kids[k].ops, cols, 1)
    <3>1. kids[k].cols \subseteq cols
      BY <1>3
    <3> HIDE DEF cols
    <3> QED BY <2>1, <2>3, <3>1, GoodMore
  <2> QED BY <2>3, <2>4, <1>3
<1> HIDE DEF t, progs, ops, cols, lanes, ok
<1>5. CASE node.class = "col"
  <2> DEFINE op == Op("LOAD_COL", node.col, 0, FALSE)
  <2>1. t.ops = <<op>> /\ t.cols = {node.col}
    BY <1>1, <1>5 DEF Done
  <2>2. node.col \in Columns
    BY <1>5 DEF NodeOK
  <2> QED BY <2>1, <2>2, LoadGood DEF t
<1>6. CASE node.class = "const"
  <2> DEFINE op == Op("CONST_VAL", "", node.value, node.code = "int")
  <2>1. t.ops = <<op>> /\ t.cols = {} /\ node.value # Null
    BY <1>1, <1>2, <1>6 DEF Done, Declined
  <2>2. node.value \in -Top .. Top /\ (node.code = "int") \in BOOLEAN
    BY <1>6, <2>1 DEF NodeOK
  <2>3. {} \in SUBSET Columns
    OBVIOUS
  <2>4. Good(<<op>>, {}, 1)
    BY <2>2, <2>3, ConstGood
  <2> HIDE DEF op
  <2> QED BY <2>1, <2>4 DEF t
<1>7. CASE node.class \in {"cast", "not", "unary"}
  <2>1. len = 1
    BY <1>7 DEF NodeOK
  <2>2. ops = progs[1]
    BY <2>1, <1>3, FlattenOne DEF ops
  <2>3. \/ t = Done(ops, cols, "float") /\ ok
        \/ t = Done(ops \o <<Plain("TO_FLOAT")>>, cols, "float") /\ ok
        \/ t = Done(ops \o <<Plain("NOT")>>, cols, "bool") /\ ok
        \/ t = Done(ops \o <<Plain(node.code)>>, cols, CHOOSE lane \in lanes : TRUE) /\ ok /\ node.code \in {"NEGATE", "ABS"}
    BY <1>1, <1>2, <1>7 DEF Declined, NodeOK
  <2>4. ok /\ t.cols = cols /\ (t.ops = ops \/ \E code \in UnaryCodes : t.ops = ops \o <<Plain(code)>>)
    <3>1. CASE t = Done(ops, cols, "float") /\ ok
      BY <3>1 DEF Done
    <3>2. ASSUME NEW code \in UnaryCodes, NEW lane, t = Done(ops \o <<Plain(code)>>, cols, lane), ok
          PROVE  ok /\ t.cols = cols /\ t.ops = ops \o <<Plain(code)>>
      BY <3>2 DEF Done
    <3>3. {"TO_FLOAT", "NOT"} \subseteq UnaryCodes /\ (node.code \in {"NEGATE", "ABS"} => node.code \in UnaryCodes)
      BY DEF UnaryCodes
    <3>4. "TO_FLOAT" \in UnaryCodes /\ "NOT" \in UnaryCodes
      BY <3>3
    <3> QED BY <2>3, <3>1, <3>2, <3>3, <3>4, Zenon
  <2>5. Good(ops, cols, 1)
    BY <1>4, <2>1, <2>2, <2>4
  <2>6. ASSUME NEW code \in UnaryCodes PROVE Good(ops \o <<Plain(code)>>, cols, 1)
    <3>1. Plain(code) \in OpSet /\ Plain(code).code # "LOAD_COL" /\ Takes(Plain(code)) = 1
      BY PlainOp
    <3>2. Takes(Plain(code)) <= 1
      BY <3>1
    <3>3. Good(ops \o <<Plain(code)>>, cols, 1 - Takes(Plain(code)) + 1)
      BY <2>5, <3>1, <3>2, GoodThen, Zenon
    <3> QED BY <3>1, <3>3
  <2> QED BY <2>4, <2>5, <2>6 DEF t
<1>8. CASE node.class \in {"cmp", "binary"}
  <2>1. len = 2 /\ node.code \in BinaryCodes
    BY <1>8 DEF NodeOK, BinaryCodes
  <2>2. ops = progs[1] \o progs[2]
    BY <2>1, <1>3, FlattenTwo DEF ops
  <2>3. ok /\ t.cols = cols /\ t.ops = ops \o <<Plain(node.code)>>
    BY <1>1, <1>2, <1>8 DEF Declined, Done
  <2>4. Good(progs[1], cols, 1) /\ Good(progs[2], cols, 1)
    BY <1>4, <2>1, <2>3
  <2>5. Plain(node.code) \in OpSet /\ Plain(node.code).code # "LOAD_COL" /\ Takes(Plain(node.code)) = 2
    BY <2>1, PlainOp
  <2> QED BY <2>2, <2>3, <2>4, <2>5, GoodBinary DEF t
<1>9. CASE node.class = "conj"
  <2>1. ok /\ t.cols = cols /\ t.ops = Joined(progs, node.code)
    BY <1>1, <1>2, <1>9 DEF Declined, Done
  <2>2. node.code \in Connectives /\ len \in Nat \ {0}
    BY <1>9 DEF NodeOK, Connectives
  <2> QED BY <2>1, <2>2, <1>3, <1>4, JoinedGood DEF t
<1>10. node.class \in {"col", "const", "cast", "not", "unary", "cmp", "binary", "conj"}
  BY <1>1, <1>2 DEF Declined
<1> QED BY <1>5, <1>6, <1>7, <1>8, <1>9, <1>10

\* The results of the children of node n.
Kids(e, f, n) == [k \in DOMAIN e[n].kids |-> f[e[n].kids[k]]]

LEMMA KidsSame ==
    ASSUME NEW e, NEW f, NEW g, NEW n \in Nat, e[n].kids \in Seq(1 .. n - 1),
           \A k \in 1 .. n - 1 : f[k] = g[k]
    PROVE  Kids(e, f, n) = Kids(e, g, n)
<1>1. \A k \in DOMAIN e[n].kids : e[n].kids[k] \in 1 .. n - 1
  BY LenProperties, ElementOfSeq
<1> QED BY <1>1 DEF Kids

LEMMA KidsShape ==
    ASSUME NEW e, NEW f, NEW n \in Nat, e[n].kids \in Seq(1 .. n - 1)
    PROVE  /\ Len(e[n].kids) \in Nat
           /\ Kids(e, f, n) = [k \in 1 .. Len(e[n].kids) |-> Kids(e, f, n)[k]]
           /\ \A k \in 1 .. Len(e[n].kids) : e[n].kids[k] \in 1 .. n - 1 /\ Kids(e, f, n)[k] = f[e[n].kids[k]]
<1>1. Len(e[n].kids) \in Nat /\ DOMAIN e[n].kids = 1 .. Len(e[n].kids)
  BY LenProperties
<1>2. \A k \in 1 .. Len(e[n].kids) : e[n].kids[k] \in 1 .. n - 1
  BY ElementOfSeq
<1>3. Kids(e, f, n) = [k \in 1 .. Len(e[n].kids) |-> f[e[n].kids[k]]]
  BY <1>1 DEF Kids
<1> QED BY <1>1, <1>2, <1>3

\* f translates the first m nodes of e.
Translates(f, e, m) == f = [n \in 1 .. m |-> TranslateNode(e[n], Kids(e, f, n))]

\* The recursion of Translate is well defined.
LEMMA TranslatesExist ==
    ASSUME NEW e, NEW len \in Nat, \A n \in 1 .. len : e[n].kids \in Seq(1 .. n - 1)
    PROVE  \E f : Translates(f, e, len)
<1> DEFINE M == {m \in Nat : m <= len => \E f : Translates(f, e, m)}
<1>1. 0 \in M
  <2>1. Translates([n \in 1 .. 0 |-> 0], e, 0)
    BY DEF Translates
  <2> QED BY <2>1
<1>2. ASSUME NEW m \in Nat, m \in M PROVE m + 1 \in M
  <2> SUFFICES ASSUME m + 1 <= len PROVE \E f : Translates(f, e, m + 1)
    OBVIOUS
  <2>1. PICK f : Translates(f, e, m)
    BY <1>2
  <2> DEFINE g == [n \in 1 .. m + 1 |-> TranslateNode(e[n], Kids(e, f, n))]
  <2>2. \A n \in 1 .. m : f[n] = g[n]
    BY <2>1 DEF Translates
  <2>3. g = [n \in 1 .. m + 1 |-> g[n]] /\ \A n \in 1 .. m + 1 : g[n] = TranslateNode(e[n], Kids(e, f, n))
    OBVIOUS
  <2> HIDE DEF g
  <2>4. ASSUME NEW n \in 1 .. m + 1 PROVE Kids(e, f, n) = Kids(e, g, n)
    <3>1. n \in Nat /\ e[n].kids \in Seq(1 .. n - 1) /\ \A k \in 1 .. n - 1 : f[k] = g[k]
      BY <2>2
    <3> QED BY <3>1, KidsSame
  <2>5. \A n \in 1 .. m + 1 : g[n] = TranslateNode(e[n], Kids(e, g, n))
    BY <2>3, <2>4
  <2>6. Translates(g, e, m + 1)
    BY <2>3, <2>5 DEF Translates
  <2> QED BY <2>6
<1>3. M = Nat
  <2> HIDE DEF M
  <2> QED BY <1>1, <1>2, SetInduction DEF M
<1>4. len <= len
  OBVIOUS
<1>5. len \in M
  <2> HIDE DEF M
  <2> QED BY <1>3
<1> QED BY <1>4, <1>5

\* An accepted expression is a program that loads its columns and leaves one value.
LEMMA TranslateGood ==
    ASSUME NEW e, ExprOK(e)
    PROVE  TransOK(Translate(e))
<1> DEFINE len == Len(e)
           R(f) == f = [n \in DOMAIN e |-> TranslateNode(e[n], [k \in DOMAIN e[n].kids |-> f[e[n].kids[k]]])]
           t == CHOOSE f : R(f)
<1>1. len \in Nat \ {0} /\ DOMAIN e = 1 .. len
  BY DEF ExprOK
<1>2. \A n \in 1 .. len : e[n].kids \in Seq(1 .. n - 1) /\ NodeOK(e[n])
  BY <1>1 DEF ExprOK, NodeOK
<1>3. Translate(e) = t[len]
  BY Zenon DEF Translate
<1>4. \A f : R(f) <=> Translates(f, e, len)
  BY <1>1, Zenon DEF Translates, Kids
<1>5. \E f : Translates(f, e, len)
  BY <1>1, <1>2, TranslatesExist
<1>6. Translates(t, e, len)
  BY <1>4, <1>5, Zenon
<1> HIDE DEF t, len
<1>7. \A n \in 1 .. len : t[n] = TranslateNode(e[n], Kids(e, t, n))
  BY <1>6 DEF Translates
<1> DEFINE M == {m \in Nat : \A n \in 1 .. m : n <= len => TransOK(t[n])}
<1>8. 0 \in M
  OBVIOUS
<1>9. ASSUME NEW m \in Nat, m \in M PROVE m + 1 \in M
  <2>1. ASSUME m + 1 <= len PROVE TransOK(t[m + 1])
    <3> DEFINE n == m + 1
               kids == Kids(e, t, n)
               size == Len(e[n].kids)
    <3>1. n \in 1 .. len /\ n \in Nat /\ \A k \in 1 .. n - 1 : k \in 1 .. m /\ k <= len
      BY <2>1, <1>1
    <3>2. t[n] = TranslateNode(e[n], kids) /\ NodeOK(e[n]) /\ e[n].kids \in Seq(1 .. n - 1)
      BY <3>1, <1>2, <1>7
    <3>3. size \in Nat /\ kids = [k \in 1 .. size |-> kids[k]]
      BY <3>1, <3>2, KidsShape
    <3>4. \A k \in 1 .. size : e[n].kids[k] \in 1 .. n - 1 /\ kids[k] = t[e[n].kids[k]]
      BY <3>1, <3>2, KidsShape
    <3>5. ASSUME NEW k \in 1 .. size PROVE TransOK(kids[k])
      BY <3>1, <3>4, <1>9
    <3>6. size = Len(e[n].kids)
      OBVIOUS
    <3> HIDE DEF n, kids, size
    <3>7. ASSUME TranslateNode(e[n], kids).ok PROVE Good(TranslateNode(e[n], kids).ops, TranslateNode(e[n], kids).cols, 1)
      BY <3>2, <3>3, <3>5, <3>6, <3>7, NodeGood
    <3>8. TransOK(t[n])
      BY <3>2, <3>7 DEF TransOK
    <3> QED BY <3>8 DEF n
  <2> QED BY <2>1, <1>9
<1>10. M = Nat
  <2> HIDE DEF M
  <2> QED BY <1>8, <1>9, SetInduction DEF M
<1>11. len \in 1 .. len /\ len <= len /\ len \in Nat
  BY <1>1
<1>12. len \in M
  BY <1>10, <1>11, Zenon
<1> QED BY <1>3, <1>11, <1>12

-----------------------------------------------------------------------------
(* Table filters *)

\* An operand of a conjunction that is whole leaves one value.
Operand(ops, col, whole) == IF whole THEN Good(ops, {col}, 1) ELSE Conjunct(ops, {col}, FALSE)

\* The translation of a node of a table filter on col: IS NOT NULL has no operation.
TableOK(t, col, class, whole) ==
    t.ok => /\ t.cols = {col}
            /\ IF class = "not_null" THEN t.ops = <<>> ELSE Operand(t.ops, col, whole)

LEMMA TableNodeGood ==
    ASSUME NEW col \in Columns, NEW node, NEW kids, NEW len \in Nat, NEW whole \in BOOLEAN,
           node.class = "cmp" => node.code \in Comparisons /\ node.value \in -Top .. Top \cup {Null},
           node.class = "conj" => node.code \in {"AND", "OR"},
           kids = [k \in 1 .. len |-> kids[k]],
           node.class = "conj" => \A k \in 1 .. len : kids[k].ok => Operand(kids[k].ops, col, whole)
    PROVE  TableOK(TranslateTableNode(col, node, kids), col, node.class, whole)
<1> DEFINE t == TranslateTableNode(col, node, kids)
           progs == [k \in DOMAIN kids |-> kids[k].ops]
           load == Op("LOAD_COL", col, 0, FALSE)
           const == Op("CONST_VAL", "", node.value, Lane[col] = "int")
<1> SUFFICES ASSUME t.ok
             PROVE  t.cols = {col} /\ IF node.class = "not_null" THEN t.ops = <<>> ELSE Operand(t.ops, col, whole)
  BY DEF TableOK
<1>1. t = CASE node.class = "cmp" /\ node.value # Null -> Done(<<load, const, Plain(node.code)>>, {col}, "bool")
            [] node.class = "conj" /\ Len(kids) > 0 /\ (\A k \in DOMAIN kids : kids[k].ok) ->
                  Done(Joined(progs, node.code), {col}, "bool")
            [] node.class = "not_null" -> Done(<<>>, {col}, "bool")
            [] OTHER -> Declined
  BY Zenon DEF TranslateTableNode
<1>2. DOMAIN kids = 1 .. len /\ Len(progs) = len /\ \A k \in 1 .. len : progs[k] = kids[k].ops
  <2>1. DOMAIN kids = 1 .. len
    BY Zenon
  <2>2. progs = [k \in 1 .. len |-> progs[k]]
    BY <2>1
  <2>3. \A k \in 1 .. len : progs[k] = kids[k].ops
    BY <2>1
  <2> HIDE DEF progs
  <2> QED BY <2>1, <2>2, <2>3, LenOf
<1>3. Len(kids) = len
  BY LenOf
<1> HIDE DEF t, progs
<1>4. CASE node.class = "cmp"
  <2>1. t.cols = {col} /\ t.ops = <<load, const, Plain(node.code)>> /\ node.value # Null
    <3> HIDE DEF load, const
    <3> QED BY <1>1, <1>4 DEF Done, Declined
  <2>2. node.value \in -Top .. Top /\ (Lane[col] = "int") \in BOOLEAN /\ {col} \in SUBSET Columns
    BY <1>4, <2>1
  <2>3. Good(<<load>>, {col}, 1) /\ Good(<<const>>, {col}, 1)
    BY <2>2, LoadGood, ConstGood
  <2>4. Plain(node.code) \in OpSet /\ Plain(node.code).code # "LOAD_COL" /\ Takes(Plain(node.code)) = 2
    <3>1. node.code \in BinaryCodes
      BY <1>4 DEF BinaryCodes
    <3> QED BY <3>1, PlainOp
  <2> HIDE DEF load, const
  <2>5. Good(<<load>> \o <<const>> \o <<Plain(node.code)>>, {col}, 1)
    BY <2>3, <2>4, GoodBinary
  <2>6. <<load>> \o <<const>> \o <<Plain(node.code)>> = <<load, const, Plain(node.code)>>
    BY Three
  <2>7. Operand(t.ops, col, whole)
    BY <2>1, <2>5, <2>6, GoodConjunct DEF Operand
  <2> QED BY <2>1, <2>7, <1>4
<1>5. CASE node.class = "conj"
  <2>1. /\ t.cols = {col} /\ t.ops = Joined(progs, node.code)
        /\ Len(kids) > 0 /\ \A k \in DOMAIN kids : kids[k].ok
    BY <1>1, <1>5 DEF Done, Declined
  <2>2. \A k \in 1 .. len : Operand(progs[k], col, whole)
    BY <2>1, <1>2, <1>5
  <2>3. node.code \in Connectives /\ len \in Nat \ {0} /\ {col} \in SUBSET Columns
    BY <1>3, <1>5, <2>1 DEF Connectives
  <2>4. Operand(Joined(progs, node.code), col, whole)
    <3>1. CASE whole
      <4>1. \A k \in 1 .. len : Good(progs[k], {col}, 1)
        BY <2>2, <3>1 DEF Operand
      <4>2. Good(Joined(progs, node.code), {col}, 1)
        BY <4>1, <1>2, <2>3, JoinedGood
      <4> QED BY <3>1, <4>2 DEF Operand
    <3>2. CASE ~whole
      <4>1. \A k \in 1 .. len : Conjunct(progs[k], {col}, FALSE)
        BY <2>2, <3>2 DEF Operand
      <4>2. Conjunct(Joined(progs, node.code), {col}, FALSE)
        BY <4>1, <1>2, <2>3, JoinedEnds
      <4> QED BY <3>2, <4>2 DEF Operand
    <3> QED BY <3>1, <3>2
  <2> QED BY <2>1, <2>4, <1>5
<1>6. CASE node.class = "not_null"
  BY <1>1, <1>6 DEF Done
<1>7. node.class \in {"cmp", "conj", "not_null"}
  BY <1>1 DEF Declined
<1> QED BY <1>4, <1>5, <1>6, <1>7

\* f translates the first m nodes e of a table filter on col.
TableTranslates(f, col, e, m) == f = [n \in 1 .. m |-> TranslateTableNode(col, e[n], Kids(e, f, n))]

\* The recursion of TranslateTableFilter is well defined.
LEMMA TableTranslatesExist ==
    ASSUME NEW e, NEW col, NEW len \in Nat, \A n \in 1 .. len : e[n].kids \in Seq(1 .. n - 1)
    PROVE  \E f : TableTranslates(f, col, e, len)
<1> DEFINE M == {m \in Nat : m <= len => \E f : TableTranslates(f, col, e, m)}
<1>1. 0 \in M
  <2>1. TableTranslates([n \in 1 .. 0 |-> 0], col, e, 0)
    BY DEF TableTranslates
  <2> QED BY <2>1
<1>2. ASSUME NEW m \in Nat, m \in M PROVE m + 1 \in M
  <2> SUFFICES ASSUME m + 1 <= len PROVE \E f : TableTranslates(f, col, e, m + 1)
    OBVIOUS
  <2>1. PICK f : TableTranslates(f, col, e, m)
    BY <1>2
  <2> DEFINE g == [n \in 1 .. m + 1 |-> TranslateTableNode(col, e[n], Kids(e, f, n))]
  <2>2. \A n \in 1 .. m : f[n] = g[n]
    BY <2>1 DEF TableTranslates
  <2>3. g = [n \in 1 .. m + 1 |-> g[n]] /\ \A n \in 1 .. m + 1 : g[n] = TranslateTableNode(col, e[n], Kids(e, f, n))
    OBVIOUS
  <2> HIDE DEF g
  <2>4. ASSUME NEW n \in 1 .. m + 1 PROVE Kids(e, f, n) = Kids(e, g, n)
    <3>1. n \in Nat /\ e[n].kids \in Seq(1 .. n - 1) /\ \A k \in 1 .. n - 1 : f[k] = g[k]
      BY <2>2
    <3> QED BY <3>1, KidsSame
  <2>5. \A n \in 1 .. m + 1 : g[n] = TranslateTableNode(col, e[n], Kids(e, g, n))
    BY <2>3, <2>4
  <2>6. TableTranslates(g, col, e, m + 1)
    BY <2>3, <2>5 DEF TableTranslates
  <2> QED BY <2>6
<1>3. M = Nat
  <2> HIDE DEF M
  <2> QED BY <1>1, <1>2, SetInduction DEF M
<1>4. len <= len
  OBVIOUS
<1>5. len \in M
  <2> HIDE DEF M
  <2> QED BY <1>3
<1> QED BY <1>4, <1>5

\* An accepted conjunct of the WHERE clause.
PartOK(t, whole) == t.ok => t.cols \in SUBSET Columns /\ Conjunct(t.ops, t.cols, whole)

\* No IS NOT NULL below a conjunction.
Apart(f) ==
    \A n \in DOMAIN f.nodes : f.nodes[n].class = "conj" =>
        \A k \in DOMAIN f.nodes[n].kids : f.nodes[f.nodes[n].kids[k]].class # "not_null"

LEMMA TableGood ==
    ASSUME NEW f, TableFilterOK(f), NEW whole \in BOOLEAN, whole => Apart(f)
    PROVE  PartOK(TranslateTableFilter(f), whole)
<1> DEFINE e == f.nodes
           col == f.col
           len == Len(e)
           R(g) == g = [n \in DOMAIN f.nodes |->
                          TranslateTableNode(f.col, f.nodes[n], [k \in DOMAIN f.nodes[n].kids |-> g[f.nodes[n].kids[k]]])]
           t == CHOOSE g : R(g)
<1>1. len \in Nat \ {0} /\ DOMAIN e = 1 .. len /\ col \in Columns
  BY DEF TableFilterOK
<1>2. \A n \in 1 .. len : e[n].kids \in Seq(1 .. n - 1)
  BY <1>1 DEF TableFilterOK
<1>3. ASSUME NEW n \in 1 .. len
      PROVE  /\ e[n].class = "cmp" => e[n].code \in Comparisons /\ e[n].value \in -Top .. Top \cup {Null}
             /\ e[n].class = "conj" => /\ e[n].code \in {"AND", "OR"}
                                       /\ whole => \A k \in DOMAIN e[n].kids : e[e[n].kids[k]].class # "not_null"
  BY <1>1 DEF TableFilterOK, Apart
<1>4. TranslateTableFilter(f) = t[len]
  BY Zenon DEF TranslateTableFilter
<1>5. \A g : R(g) <=> TableTranslates(g, col, e, len)
  BY <1>1, Zenon DEF TableTranslates, Kids
<1>6. \E g : TableTranslates(g, col, e, len)
  BY <1>1, <1>2, TableTranslatesExist
<1>7. TableTranslates(t, col, e, len)
  BY <1>5, <1>6, Zenon
<1> HIDE DEF t, len, e, col
<1>8. \A n \in 1 .. len : t[n] = TranslateTableNode(col, e[n], Kids(e, t, n))
  BY <1>7 DEF TableTranslates
<1> DEFINE M == {m \in Nat : \A n \in 1 .. m : n <= len => TableOK(t[n], col, e[n].class, whole)}
<1>9. 0 \in M
  OBVIOUS
<1>10. ASSUME NEW m \in Nat, m \in M PROVE m + 1 \in M
  <2>1. ASSUME m + 1 <= len PROVE TableOK(t[m + 1], col, e[m + 1].class, whole)
    <3> DEFINE n == m + 1
               kids == Kids(e, t, n)
               size == Len(e[n].kids)
    <3>1. n \in 1 .. len /\ n \in Nat /\ \A k \in 1 .. n - 1 : k \in 1 .. m /\ k <= len
      BY <2>1, <1>1
    <3>2. t[n] = TranslateTableNode(col, e[n], kids) /\ e[n].kids \in Seq(1 .. n - 1)
      BY <3>1, <1>2, <1>8
    <3>3. size \in Nat /\ kids = [k \in 1 .. size |-> kids[k]]
      BY <3>1, <3>2, KidsShape
    <3>4. \A k \in 1 .. size : e[n].kids[k] \in 1 .. n - 1 /\ kids[k] = t[e[n].kids[k]]
      BY <3>1, <3>2, KidsShape
    <3>5. ASSUME NEW k \in 1 .. size, e[n].class = "conj", kids[k].ok PROVE Operand(kids[k].ops, col, whole)
      <4>1. TableOK(kids[k], col, e[e[n].kids[k]].class, whole)
        BY <3>1, <3>4, <1>10
      <4>2. DOMAIN e[n].kids = 1 .. size
        BY <3>2, LenProperties
      <4>3. whole => e[e[n].kids[k]].class # "not_null"
        BY <3>1, <3>5, <4>2, <1>3
      <4>4. CASE e[e[n].kids[k]].class # "not_null"
        BY <4>1, <4>4, <3>5 DEF TableOK
      <4>5. CASE e[e[n].kids[k]].class = "not_null"
        <5>1. kids[k].ops = <<>> /\ ~whole
          BY <4>1, <4>3, <4>5, <3>5 DEF TableOK
        <5> HIDE DEF kids
        <5> QED BY <5>1, EmptySeq DEF Operand, Conjunct
      <4> QED BY <4>4, <4>5
    <3>6. e[n].class = "cmp" => e[n].code \in Comparisons /\ e[n].value \in -Top .. Top \cup {Null}
      BY <3>1, <1>3
    <3>7. e[n].class = "conj" => e[n].code \in {"AND", "OR"}
      BY <3>1, <1>3
    <3> HIDE DEF n, kids, size
    <3>8. TableOK(TranslateTableNode(col, e[n], kids), col, e[n].class, whole)
      BY <1>1, <3>3, <3>5, <3>6, <3>7, TableNodeGood
    <3>9. TableOK(t[n], col, e[n].class, whole)
      BY <3>2, <3>8
    <3> QED BY <3>9 DEF n
  <2> QED BY <2>1, <1>10
<1>11. M = Nat
  <2> HIDE DEF M
  <2> QED BY <1>9, <1>10, SetInduction DEF M
<1>12. len \in 1 .. len /\ len <= len /\ len \in Nat
  BY <1>1
<1>13. len \in M
  BY <1>11, <1>12, Zenon
<1>14. TableOK(t[len], col, e[len].class, whole)
  BY <1>12, <1>13
<1>15. ASSUME t[len].ok PROVE t[len].cols = {col} /\ Conjunct(t[len].ops, {col}, whole)
  <2>1. /\ t[len].cols = {col}
        /\ IF e[len].class = "not_null" THEN t[len].ops = <<>> ELSE Operand(t[len].ops, col, whole)
    BY <1>14, <1>15 DEF TableOK
  <2>2. t[len].ops = <<>> => Conjunct(t[len].ops, {col}, whole)
    BY EmptySeq DEF Conjunct
  <2>3. Operand(t[len].ops, col, whole) => Conjunct(t[len].ops, {col}, whole)
    <3>1. CASE whole
      BY <3>1, GoodConjunct DEF Operand
    <3>2. CASE ~whole
      BY <3>2 DEF Operand
    <3> QED BY <3>1, <3>2
  <2> QED BY <2>1, <2>2, <2>3
<1> QED BY <1>1, <1>4, <1>15 DEF PartOK

-----------------------------------------------------------------------------
(* The filter of a cached query *)

\* One conjunct more.
AndAlso(ops, part) ==
    IF part = <<>> THEN ops
    ELSE ops \o part \o (IF ops = <<>> THEN <<>> ELSE <<Plain("AND")>>)

LEMMA AndAlsoGood ==
    ASSUME NEW ops, NEW part, NEW cols, NEW whole, Conjunct(ops, cols, whole), Conjunct(part, cols, whole)
    PROVE  Conjunct(AndAlso(ops, part), cols, whole)
<1>0. ops \in Seq(OpSet) /\ part \in Seq(OpSet)
  BY DEF Conjunct
<1>1. CASE part = <<>>
  BY <1>1 DEF AndAlso
<1>2. CASE part # <<>> /\ ops = <<>>
  <2>1. AndAlso(ops, part) = <<>> \o part \o <<>>
    BY <1>2 DEF AndAlso
  <2>2. AndAlso(ops, part) = part
    BY <2>1, <1>0, ConcatEmptySeq
  <2> QED BY <2>2
<1>3. CASE part # <<>> /\ ops # <<>>
  <2>1. AndAlso(ops, part) = ops \o part \o <<Plain("AND")>>
    BY <1>3 DEF AndAlso
  <2>2. CASE Good(ops, cols, 1) /\ Good(part, cols, 1)
    <3>1. "AND" \in BinaryCodes
      BY DEF BinaryCodes, Connectives
    <3>2. Plain("AND") \in OpSet /\ Plain("AND").code # "LOAD_COL" /\ Takes(Plain("AND")) = 2
      BY <3>1, PlainOp
    <3>3. Good(ops \o part \o <<Plain("AND")>>, cols, 1)
      BY <2>2, <3>2, GoodBinary
    <3> QED BY <2>1, <3>3, GoodConjunct
  <2>3. CASE ~(Good(ops, cols, 1) /\ Good(part, cols, 1))
    <3>1. ~whole
      BY <1>3, <2>3 DEF Conjunct
    <3>2. ops \o part \in Seq(OpSet) /\ "AND" \in Connectives
      BY <1>0, ConcatProperties DEF Connectives
    <3>3. AndAlso(ops, part) \in Seq(OpSet) /\ Ends(AndAlso(ops, part))
      BY <2>1, <3>2, EndsThen
    <3> QED BY <3>1, <3>3 DEF Conjunct
  <2> QED BY <2>2, <2>3
<1> QED BY <1>1, <1>2, <1>3

\* f conjoins parts one by one.
Conjoins(f, parts) ==
    f = [k \in 0 .. Len(parts) |->
            IF k = 0 THEN <<>>
            ELSE IF parts[k].ops = <<>> THEN f[k - 1]
            ELSE f[k - 1] \o parts[k].ops \o (IF f[k - 1] = <<>> THEN <<>> ELSE <<Plain("AND")>>)]

LEMMA ConjoinsStep ==
    ASSUME NEW parts, Len(parts) \in Nat, NEW f
    PROVE  Conjoins(f, parts) <=> /\ f = [k \in 0 .. Len(parts) |-> f[k]]
                                  /\ f[0] = <<>>
                                  /\ \A k \in 1 .. Len(parts) : f[k] = AndAlso(f[k - 1], parts[k].ops)
<1> DEFINE N == Len(parts)
           v(k) == IF k = 0 THEN <<>> ELSE AndAlso(f[k - 1], parts[k].ops)
<1>1. Conjoins(f, parts) <=> f = [k \in 0 .. N |-> v(k)]
  BY Zenon DEF Conjoins, AndAlso
<1>2. f = [k \in 0 .. N |-> v(k)] <=> f = [k \in 0 .. N |-> f[k]] /\ \A k \in 0 .. N : f[k] = v(k)
  <2> HIDE DEF v, N
  <2> QED OBVIOUS
<1>3. (\A k \in 0 .. N : f[k] = v(k)) <=> f[0] = v(0) /\ \A k \in 1 .. N : f[k] = v(k)
  <2> HIDE DEF v
  <2> QED OBVIOUS
<1>4. \A k \in 1 .. N : k # 0
  OBVIOUS
<1>5. \A k \in 1 .. N : v(k) = AndAlso(f[k - 1], parts[k].ops)
  BY <1>4, Zenon
<1>6. v(0) = <<>>
  BY Zenon
<1> HIDE DEF v
<1> QED BY <1>1, <1>2, <1>3, <1>5, <1>6

LEMMA ConjoinsExist ==
    ASSUME NEW parts, NEW cols, NEW whole, Len(parts) \in Nat,
           \A k \in 1 .. Len(parts) : Conjunct(parts[k].ops, cols, whole)
    PROVE  \E f : Conjoins(f, parts)
<1> DEFINE D == {ops \in Seq(OpSet) : Conjunct(ops, cols, whole)}
           h == [x \in D \X (1 .. Len(parts)) |-> AndAlso(x[1], parts[x[2]].ops)]
<1>1. \A ops : ops \in D <=> Conjunct(ops, cols, whole)
  BY DEF Conjunct
<1>2. <<>> \in D
  BY <1>1, EmptySeq DEF Conjunct
<1> HIDE DEF D
<1>3. ASSUME NEW x \in D, NEW k \in 1 .. Len(parts)
      PROVE  h[<<x, k>>] = AndAlso(x, parts[k].ops) /\ h[<<x, k>>] \in D
  <2>1. h[<<x, k>>] = AndAlso(x, parts[k].ops)
    OBVIOUS
  <2>2. Conjunct(AndAlso(x, parts[k].ops), cols, whole)
    BY <1>1, AndAlsoGood
  <2> QED BY <2>1, <2>2, <1>1
<1> HIDE DEF h
<1>4. PICK f : DefinedBy(f, D, <<>>, h, Len(parts))
  <2>1. Steps(h, D, Len(parts))
    BY <1>3 DEF Steps
  <2> QED BY <1>2, <2>1, Recursion
<1>5. ASSUME NEW k \in 1 .. Len(parts) PROVE f[k] = AndAlso(f[k - 1], parts[k].ops)
  <2>1. k - 1 \in 0 .. Len(parts)
    OBVIOUS
  <2>2. f[k - 1] \in D /\ f[k] = h[<<f[k - 1], k>>]
    BY <2>1, <1>4 DEF DefinedBy
  <2> QED BY <2>2, <1>3
<1>6. f = [k \in 0 .. Len(parts) |-> f[k]] /\ f[0] = <<>>
  BY <1>4 DEF DefinedBy
<1>7. Conjoins(f, parts)
  BY <1>5, <1>6, ConjoinsStep
<1> QED BY <1>7

LEMMA ConjoinsGood ==
    ASSUME NEW parts, NEW cols, NEW whole, Len(parts) \in Nat,
           \A k \in 1 .. Len(parts) : Conjunct(parts[k].ops, cols, whole),
           NEW f, Conjoins(f, parts)
    PROVE  Conjunct(f[Len(parts)], cols, whole)
<1> DEFINE M == {k \in Nat : k <= Len(parts) => Conjunct(f[k], cols, whole)}
<1>1. f[0] = <<>> /\ \A k \in 1 .. Len(parts) : f[k] = AndAlso(f[k - 1], parts[k].ops)
  BY ConjoinsStep
<1>2. 0 \in M
  BY <1>1, EmptySeq DEF Conjunct
<1>3. ASSUME NEW k \in Nat, k \in M PROVE k + 1 \in M
  <2> SUFFICES ASSUME k + 1 <= Len(parts) PROVE Conjunct(f[k + 1], cols, whole)
    OBVIOUS
  <2>1. Conjunct(f[k], cols, whole) /\ k + 1 \in 1 .. Len(parts) /\ (k + 1) - 1 = k
    BY <1>3
  <2>2. f[k + 1] = AndAlso(f[k], parts[k + 1].ops) /\ Conjunct(parts[k + 1].ops, cols, whole)
    BY <1>1, <2>1
  <2> QED BY <2>1, <2>2, AndAlsoGood
<1>4. M = Nat
  <2> HIDE DEF M
  <2> QED BY <1>2, <1>3, SetInduction DEF M
<1>5. Len(parts) <= Len(parts)
  OBVIOUS
<1>6. Len(parts) \in M
  <2> HIDE DEF M
  <2> QED BY <1>4
<1> QED BY <1>5, <1>6

\* The two lists of conjuncts of a WHERE clause, one after the other.
LEMMA TwoLists ==
    ASSUME NEW a, NEW b, NEW m \in Nat, NEW n \in Nat,
           a = [k \in 1 .. m |-> a[k]], b = [k \in 1 .. n |-> b[k]]
    PROVE  /\ Len(a \o b) \in Nat /\ DOMAIN (a \o b) = 1 .. Len(a \o b)
           /\ \A k \in 1 .. Len(a \o b) : \/ k \in 1 .. m /\ (a \o b)[k] = a[k]
                                          \/ k - m \in 1 .. n /\ (a \o b)[k] = b[k - m]
<1> DEFINE S == {a[k] : k \in 1 .. m} \cup {b[k] : k \in 1 .. n}
           ab == a \o b
<1>1. Len(a) = m /\ Len(b) = n
  BY LenOf
<1>2. a \in [1 .. m -> S] /\ b \in [1 .. n -> S]
  OBVIOUS
<1> HIDE DEF S
<1>3. a \in Seq(S) /\ b \in Seq(S)
  BY <1>2, SeqDef
<1>4. /\ ab \in Seq(S) /\ Len(ab) = Len(a) + Len(b)
      /\ \A k \in 1 .. Len(a) + Len(b) : ab[k] = IF k <= Len(a) THEN a[k] ELSE b[k - Len(a)]
  BY <1>3, ConcatProperties
<1> HIDE DEF ab
<1>5. Len(ab) \in Nat /\ DOMAIN ab = 1 .. Len(ab) /\ Len(ab) = m + n
  BY <1>1, <1>4, LenProperties
<1>6. ASSUME NEW k \in 1 .. Len(ab)
      PROVE  \/ k \in 1 .. m /\ ab[k] = a[k]
             \/ k - m \in 1 .. n /\ ab[k] = b[k - m]
  BY <1>1, <1>4, <1>5
<1> QED BY <1>5, <1>6 DEF ab

WhereOK(where) ==
    /\ Len(where.residual) \in Nat /\ DOMAIN where.residual = 1 .. Len(where.residual)
    /\ Len(where.table) \in Nat /\ DOMAIN where.table = 1 .. Len(where.table)
    /\ \A k \in DOMAIN where.residual : ExprOK(where.residual[k])
    /\ \A k \in DOMAIN where.table : TableFilterOK(where.table[k])

\* An accepted filter, over the columns whose NULLs it masks.
FilterOK(filter, whole) ==
    filter.null_cols \in SUBSET Columns /\ Conjunct(filter.ops, filter.null_cols, whole)

LEMMA CacheFilterGood ==
    ASSUME NEW where, WhereOK(where), CacheFilter(where).ok, NEW whole \in BOOLEAN, whole => NotNullApart(where)
    PROVE  FilterOK(CacheFilter(where), whole)
<1> DEFINE m == Len(where.residual)
           n == Len(where.table)
           a == [k \in DOMAIN where.residual |-> Translate(where.residual[k])]
           b == [k \in DOMAIN where.table |-> TranslateTableFilter(where.table[k])]
           parts == a \o b
           N == Len(parts)
           cols == UNION {parts[k].cols : k \in DOMAIN parts}
           ops == CHOOSE f : f = [k \in 0 .. Len(parts) |->
                    IF k = 0 THEN <<>>
                    ELSE IF parts[k].ops = <<>> THEN f[k - 1]
                    ELSE f[k - 1] \o parts[k].ops \o (IF f[k - 1] = <<>> THEN <<>> ELSE <<Plain("AND")>>)]
           filter == CacheFilter(where)
<1>1. filter = [ok |-> \A k \in DOMAIN parts : parts[k].ok /\ parts[k].lane = "bool",
                ops |-> ops[N], null_cols |-> cols]
  BY Zenon DEF CacheFilter
<1>2. filter.ops = ops[N] /\ filter.null_cols = cols /\ \A k \in DOMAIN parts : parts[k].ok
  <2> HIDE DEF parts, ops, cols, N
  <2> QED BY <1>1
<1>3. ops = CHOOSE f : Conjoins(f, parts)
  BY Zenon DEF Conjoins
<1>4. m \in Nat /\ n \in Nat /\ a = [k \in 1 .. m |-> a[k]] /\ b = [k \in 1 .. n |-> b[k]]
  BY DEF WhereOK
<1>5. ASSUME NEW k \in 1 .. m PROVE PartOK(a[k], whole)
  <2>1. a[k] = Translate(where.residual[k]) /\ ExprOK(where.residual[k])
    BY DEF WhereOK
  <2>2. TransOK(a[k])
    BY <2>1, TranslateGood
  <2>3. ASSUME a[k].ok PROVE a[k].cols \in SUBSET Columns /\ Conjunct(a[k].ops, a[k].cols, whole)
    <3>1. Good(a[k].ops, a[k].cols, 1)
      BY <2>2, <2>3 DEF TransOK
    <3> HIDE DEF a
    <3> QED BY <3>1, GoodConjunct, GoodSeq
  <2> HIDE DEF a
  <2> QED BY <2>3 DEF PartOK
<1>6. ASSUME NEW k \in 1 .. n PROVE PartOK(b[k], whole)
  <2>1. b[k] = TranslateTableFilter(where.table[k]) /\ TableFilterOK(where.table[k])
    BY DEF WhereOK
  <2>2. whole => Apart(where.table[k])
    BY <1>4 DEF WhereOK, NotNullApart, Apart
  <2> QED BY <2>1, <2>2, TableGood
<1> HIDE DEF a, b, m, n, ops
<1>7. N \in Nat /\ DOMAIN parts = 1 .. N
  BY <1>4, TwoLists
<1>8. ASSUME NEW k \in 1 .. N PROVE PartOK(parts[k], whole)
  <2>1. \/ k \in 1 .. m /\ parts[k] = a[k]
        \/ k - m \in 1 .. n /\ parts[k] = b[k - m]
    BY <1>4, TwoLists
  <2> HIDE DEF parts, N
  <2> QED BY <2>1, <1>5, <1>6
<1> HIDE DEF parts
<1>9. ASSUME NEW k \in 1 .. N PROVE parts[k].cols \in SUBSET Columns /\ Conjunct(parts[k].ops, parts[k].cols, whole)
  BY <1>2, <1>7, <1>8 DEF PartOK
<1>10. cols \in SUBSET Columns
  <2> SUFFICES ASSUME NEW x \in cols PROVE x \in Columns
    BY Zenon
  <2>1. PICK k \in DOMAIN parts : x \in parts[k].cols
    BY Zenon
  <2>2. k \in 1 .. N
    BY <2>1, <1>7
  <2> QED BY <2>1, <2>2, <1>9
<1>11. ASSUME NEW k \in 1 .. N PROVE Conjunct(parts[k].ops, cols, whole)
  <2>1. parts[k].cols \subseteq cols
    BY <1>7
  <2> HIDE DEF cols
  <2> QED BY <2>1, <1>9, <1>10, ConjunctMore
<1> HIDE DEF cols
<1>12. Conjoins(ops, parts)
  <2>1. \E f : Conjoins(f, parts)
    BY <1>7, <1>11, ConjoinsExist
  <2> QED BY <2>1, <1>3, Zenon
<1>13. Conjunct(ops[N], cols, whole)
  BY <1>7, <1>11, <1>12, ConjoinsGood
<1> QED BY <1>2, <1>10, <1>13 DEF FilterOK

\* The program of an accepted aggregate leaves one value, if it has an argument.
LEMMA ProgramGood ==
    ASSUME NEW agg, agg.kind # "COUNT_STAR" => ExprOK(agg.arg), Program(agg).ok, HasValueGraph(Program(agg).kind)
    PROVE  Good(Program(agg).ops, Program(agg).null_cols, 1)
<1> DEFINE t == IF agg.kind = "COUNT_STAR" THEN Done(<<>>, {}, "float") ELSE Translate(agg.arg)
           accepted == t.ok /\ t.lane # "bool"
<1>1. Program(agg) = [ok |-> accepted, kind |-> agg.kind, ops |-> t.ops,
                      null_cols |-> t.cols, int_lane |-> t.lane = "int"]
  BY Zenon DEF Program
<1> HIDE DEF t, accepted
<1>2. Program(agg).kind = agg.kind /\ Program(agg).ops = t.ops /\ Program(agg).null_cols = t.cols
  BY <1>1
<1>0. t.ok
  <2>1. Program(agg).ok = accepted
    BY <1>1
  <2> QED BY <2>1, Zenon DEF accepted
<1>3. agg.kind # "COUNT_STAR"
  BY <1>2 DEF HasValueGraph
<1>4. t = Translate(agg.arg)
  BY <1>3 DEF t
<1>5. TransOK(t)
  BY <1>3, <1>4, TranslateGood
<1> QED BY <1>0, <1>2, <1>5 DEF TransOK

-----------------------------------------------------------------------------
(* Numbers *)

Ulps == {1, 2, 4, 8, 16}

\* The numbers Float covers, and those among them that it keeps.
InFloats == -(16 * FpExact) .. 16 * FpExact
Kept(v) == v \in InFloats /\ Float(v) = v

UlpOf(x, u) ==
    /\ u \in Ulps /\ Abs(x) <= FpExact * u
    /\ \A v \in Ulps : Abs(x) <= FpExact * v => u <= v

\* The multiple of u next to x, halves to even.
Rounded(x, u) ==
    IF 2 * (x % u) < u \/ (2 * (x % u) = u /\ (x \div u) % 2 = 0) THEN (x \div u) * u ELSE (x \div u + 1) * u

LEMMA AbsNat == ASSUME NEW x \in Int PROVE Abs(x) \in Nat /\ x <= Abs(x) /\ -x <= Abs(x) /\ (Abs(x) = x \/ Abs(x) = -x)
BY DEF Abs

LEMMA FloatRounds == ASSUME NEW x \in InFloats PROVE \E u : UlpOf(x, u) /\ Float(x) = Rounded(x, u)
<1> DEFINE U == {u \in {1, 2, 4, 8, 16} : Abs(x) <= FpExact * u}
           ulp == Min(U)
<1>1. FpExact \in Nat \ {0} /\ x \in Int
  BY FilterAssumption DEF InFloats
<1>2. Abs(x) \in Nat /\ Abs(x) <= FpExact * 16
  BY <1>1 DEF Abs, InFloats
<1>3. 16 \in U
  BY <1>2
<1>4. U \in SUBSET Nat /\ U # {} /\ \A u : u \in U <=> u \in Ulps /\ Abs(x) <= FpExact * u
  BY <1>3 DEF Ulps
<1> HIDE DEF U
<1>5. \E u \in U : \A v \in U : u <= v
  BY <1>4, LeastElement
<1>6. ulp \in U /\ \A v \in U : ulp <= v
  BY <1>5 DEF Min
<1>7. Float(x) = Rounded(x, ulp)
  BY Zenon DEF Float, Rounded, U
<1>8. UlpOf(x, ulp)
  BY <1>4, <1>6 DEF UlpOf
<1> QED BY <1>7, <1>8

\* Rounding to a multiple of u passes no multiple of u.
LEMMA RoundedMultiple ==
    ASSUME NEW x \in Int, NEW u \in Ulps
    PROVE  /\ Rounded(x, u) \in Int
           /\ \E q \in Int : Rounded(x, u) = q * u
           /\ \A n \in Int : /\ x <= n * u => Rounded(x, u) <= n * u
                             /\ n * u <= x => n * u <= Rounded(x, u)
<1> DEFINE low == x \div u
           rest == x % u
<1>1. low \in Int /\ low + 1 \in Int /\ rest \in Int /\ x = low * u + rest /\ 0 <= rest /\ rest < u
  <2>1. CASE u = 1
    BY <2>1
  <2>2. CASE u = 2
    BY <2>2
  <2>3. CASE u = 4
    BY <2>3
  <2>4. CASE u = 8
    BY <2>4
  <2>5. CASE u = 16
    BY <2>5
  <2> QED BY <2>1, <2>2, <2>3, <2>4, <2>5 DEF Ulps
<1>2. /\ Rounded(x, u) = low * u \/ Rounded(x, u) = (low + 1) * u
      /\ rest = 0 => Rounded(x, u) = low * u
  <2>1. rest = 0 => 2 * rest < u
    BY DEF Ulps
  <2> QED BY <2>1 DEF Rounded
<1> HIDE DEF low, rest
<1>3. \E q \in Int : Rounded(x, u) = q * u
  BY <1>1, <1>2
<1>4. Rounded(x, u) \in Int
  BY <1>3 DEF Ulps
<1>5. ASSUME NEW n \in Int, x <= n * u PROVE Rounded(x, u) <= n * u
  <2>1. CASE u = 1
    BY <1>1, <1>2, <1>5, <2>1
  <2>2. CASE u = 2
    BY <1>1, <1>2, <1>5, <2>2
  <2>3. CASE u = 4
    BY <1>1, <1>2, <1>5, <2>3
  <2>4. CASE u = 8
    BY <1>1, <1>2, <1>5, <2>4
  <2>5. CASE u = 16
    BY <1>1, <1>2, <1>5, <2>5
  <2> QED BY <2>1, <2>2, <2>3, <2>4, <2>5 DEF Ulps
<1>6. ASSUME NEW n \in Int, n * u <= x PROVE n * u <= Rounded(x, u)
  <2>1. CASE u = 1
    BY <1>1, <1>2, <1>6, <2>1
  <2>2. CASE u = 2
    BY <1>1, <1>2, <1>6, <2>2
  <2>3. CASE u = 4
    BY <1>1, <1>2, <1>6, <2>3
  <2>4. CASE u = 8
    BY <1>1, <1>2, <1>6, <2>4
  <2>5. CASE u = 16
    BY <1>1, <1>2, <1>6, <2>5
  <2> QED BY <2>1, <2>2, <2>3, <2>4, <2>5 DEF Ulps
<1> QED BY <1>3, <1>4, <1>5, <1>6

LEMMA RoundedMonotonic ==
    ASSUME NEW x \in Int, NEW y \in Int, x <= y, NEW u \in Ulps
    PROVE  Rounded(x, u) <= Rounded(y, u)
<1>1. CASE u = 1
  BY <1>1 DEF Rounded
<1>2. CASE u = 2
  BY <1>2 DEF Rounded
<1>3. CASE u = 4
  BY <1>3 DEF Rounded
<1>4. CASE u = 8
  BY <1>4 DEF Rounded
<1>5. CASE u = 16
  BY <1>5 DEF Rounded
<1> QED BY <1>1, <1>2, <1>3, <1>4, <1>5 DEF Ulps

\* Beyond a multiple of half of u, rounding does not come back.
LEMMA RoundedPast ==
    ASSUME NEW x \in Int, NEW n \in Int, NEW h \in {1, 2, 4, 8}
    PROVE  /\ n * h < x => n * h <= Rounded(x, 2 * h)
           /\ x < n * h => Rounded(x, 2 * h) <= n * h
<1>1. CASE h = 1
  BY <1>1 DEF Rounded
<1>2. CASE h = 2
  BY <1>2 DEF Rounded
<1>3. CASE h = 4
  BY <1>3 DEF Rounded
<1>4. CASE h = 8
  BY <1>4 DEF Rounded
<1> QED BY <1>1, <1>2, <1>3, <1>4

\* A number is in the range of its ulp, and beyond that of half of it.
LEMMA UlpBounds ==
    ASSUME NEW x \in Int, NEW u, UlpOf(x, u)
    PROVE  /\ u \in Ulps /\ Abs(x) <= FpExact * u
           /\ u # 1 => \E h \in {1, 2, 4, 8} : u = 2 * h /\ FpExact * h < Abs(x)
<1>1. u \in Ulps /\ Abs(x) <= FpExact * u /\ Abs(x) \in Nat /\ FpExact \in Nat
  BY AbsNat, FilterAssumption DEF UlpOf
<1>2. ASSUME NEW h \in {1, 2, 4, 8}, u = 2 * h PROVE FpExact * h < Abs(x)
  <2>1. h \in Ulps /\ ~(u <= h)
    BY <1>2 DEF Ulps
  <2>2. ~(Abs(x) <= FpExact * h)
    BY <2>1 DEF UlpOf
  <2> QED BY <2>2, <1>1
<1>3. u # 1 => \E h \in {1, 2, 4, 8} : u = 2 * h
  BY <1>1 DEF Ulps
<1> QED BY <1>1, <1>2, <1>3

LEMMA FloatInt == ASSUME NEW x \in InFloats PROVE Float(x) \in InFloats
<1>1. PICK u : UlpOf(x, u) /\ Float(x) = Rounded(x, u)
  BY FloatRounds
<1>2. x \in Int /\ FpExact \in Nat
  BY FilterAssumption DEF InFloats
<1>3. u \in Ulps /\ Abs(x) <= FpExact * u
  BY <1>1, <1>2, UlpBounds
<1>4. x <= FpExact * u /\ (-FpExact) * u <= x
  BY <1>2, <1>3, AbsNat DEF Ulps
<1>5. Float(x) \in Int /\ Float(x) <= FpExact * u /\ (-FpExact) * u <= Float(x)
  BY <1>1, <1>2, <1>3, <1>4, RoundedMultiple
<1> QED BY <1>2, <1>3, <1>5 DEF InFloats, Ulps

LEMMA FloatMonotonic ==
    ASSUME NEW x \in InFloats, NEW y \in InFloats, x <= y
    PROVE  Float(x) <= Float(y)
<1>1. PICK u : UlpOf(x, u) /\ Float(x) = Rounded(x, u)
  BY FloatRounds
<1>2. PICK w : UlpOf(y, w) /\ Float(y) = Rounded(y, w)
  BY FloatRounds
<1>3. x \in Int /\ y \in Int /\ FpExact \in Nat
  BY FilterAssumption DEF InFloats
<1>4. u \in Ulps /\ w \in Ulps /\ Abs(x) <= FpExact * u /\ Abs(y) <= FpExact * w
  BY <1>1, <1>2, <1>3, UlpBounds
<1>5. Float(x) \in Int /\ Float(y) \in Int
  BY <1>1, <1>2, <1>3, <1>4, RoundedMultiple
<1>6. CASE u = w
  BY <1>1, <1>2, <1>3, <1>4, <1>6, RoundedMonotonic
<1>7. CASE w < u
  <2>1. PICK h \in {1, 2, 4, 8} : u = 2 * h /\ FpExact * h < Abs(x)
    BY <1>1, <1>3, <1>4, <1>7, UlpBounds DEF Ulps
  <2>2. w <= h /\ FpExact * w <= FpExact * h
    BY <1>3, <1>4, <1>7, <2>1 DEF Ulps
  <2>3. x < (-FpExact) * h /\ (-FpExact) * w <= y /\ (-FpExact) * h <= (-FpExact) * w
    BY <1>3, <1>4, <2>1, <2>2, AbsNat DEF Ulps
  <2>4. Rounded(x, u) <= (-FpExact) * h
    <3>1. -FpExact \in Int
      BY <1>3
    <3>2. Rounded(x, 2 * h) <= (-FpExact) * h
      BY <1>3, <2>3, <3>1, RoundedPast
    <3> QED BY <2>1, <3>2
  <2>5. (-FpExact) * w <= Rounded(y, w)
    BY <1>3, <1>4, <2>3, RoundedMultiple
  <2>6. (-FpExact) * h \in Int /\ (-FpExact) * w \in Int
    BY <1>3, <1>4, <2>1 DEF Ulps
  <2> QED BY <1>1, <1>2, <1>5, <2>3, <2>4, <2>5, <2>6
<1>8. CASE u < w
  <2>1. PICK h \in {1, 2, 4, 8} : w = 2 * h /\ FpExact * h < Abs(y)
    BY <1>2, <1>3, <1>4, <1>8, UlpBounds DEF Ulps
  <2>2. u <= h /\ FpExact * u <= FpExact * h
    BY <1>3, <1>4, <1>8, <2>1 DEF Ulps
  <2>3. FpExact * h < y /\ x <= FpExact * u
    BY <1>3, <1>4, <2>1, <2>2, AbsNat DEF Ulps
  <2>4. FpExact * h <= Rounded(y, w)
    <3>1. FpExact \in Int
      BY <1>3
    <3>2. FpExact * h <= Rounded(y, 2 * h)
      BY <1>3, <2>3, <3>1, RoundedPast
    <3> QED BY <2>1, <3>2
  <2>5. Rounded(x, u) <= FpExact * u
    BY <1>3, <1>4, <2>3, RoundedMultiple
  <2>6. FpExact * h \in Int /\ FpExact * u \in Int
    BY <1>3, <1>4, <2>1 DEF Ulps
  <2> QED BY <1>1, <1>2, <1>5, <2>2, <2>4, <2>5, <2>6
<1> QED BY <1>4, <1>6, <1>7, <1>8 DEF Ulps

\* What a float holds it keeps.
LEMMA FloatKept == ASSUME NEW x \in InFloats PROVE Kept(Float(x))
<1> DEFINE v == Float(x)
<1>1. PICK u : UlpOf(x, u) /\ v = Rounded(x, u)
  BY FloatRounds
<1>2. v \in InFloats /\ v \in Int /\ x \in Int /\ FpExact \in Nat
  BY FloatInt, FilterAssumption DEF InFloats
<1>3. PICK w : UlpOf(v, w) /\ Float(v) = Rounded(v, w)
  BY <1>2, FloatRounds
<1> HIDE DEF v
<1>4. u \in Ulps /\ w \in Ulps /\ Abs(x) <= FpExact * u
  BY <1>1, <1>2, <1>3, UlpBounds
<1>5. PICK q \in Int : v = q * u
  BY <1>1, <1>2, <1>4, RoundedMultiple
<1>6. w <= u
  <2>1. x <= FpExact * u /\ (-FpExact) * u <= x
    BY <1>2, <1>4, AbsNat DEF Ulps
  <2>2. v <= FpExact * u /\ (-FpExact) * u <= v
    BY <1>1, <1>2, <1>4, <2>1, RoundedMultiple
  <2>3. Abs(v) <= FpExact * u
    BY <1>2, <1>4, <2>2, AbsNat DEF Ulps
  <2> QED BY <1>3, <1>4, <2>3 DEF UlpOf
<1>7. \E n \in Int : v = n * w
  <2>1. \E k \in {1, 2, 4, 8, 16} : u = k * w
    BY <1>4, <1>6 DEF Ulps
  <2>2. PICK k \in {1, 2, 4, 8, 16} : u = k * w
    BY <2>1
  <2>3. q * k \in Int /\ v = (q * k) * w
    BY <1>4, <1>5, <2>2 DEF Ulps
  <2> QED BY <2>3
<1>8. Rounded(v, w) = v
  <2>1. PICK n \in Int : v = n * w
    BY <1>7
  <2>2. Rounded(v, w) \in Int /\ Rounded(v, w) <= n * w /\ n * w <= Rounded(v, w)
    BY <1>2, <1>4, <2>1, RoundedMultiple
  <2> QED BY <1>2, <2>1, <2>2
<1> QED BY <1>2, <1>3, <1>8 DEF Kept, v

\* No number that a float holds is between a number and its rounding.
LEMMA FloatNext ==
    ASSUME NEW c \in InFloats, NEW v, Kept(v)
    PROVE  /\ v \in Int /\ Float(c) \in Int
           /\ c <= v => Float(c) <= v
           /\ v <= c => v <= Float(c)
<1>1. v \in InFloats /\ Float(v) = v
  BY DEF Kept
<1>2. FpExact \in Nat
  BY FilterAssumption
<1> QED BY <1>1, <1>2, FloatInt, FloatMonotonic DEF InFloats

RowSet == {Stored(row) : row \in RowKinds}

LEMMA TopInFloats == -Top .. Top \subseteq InFloats
BY FilterAssumption DEF InFloats

LEMMA StoredRow ==
    ASSUME NEW row \in RowKinds, NEW c \in Columns
    PROVE  /\ Stored(row).valid[c] = (row[c] # Null)
           /\ Stored(row).values[c] \in Int
           /\ Lane[c] = "float" => (Stored(row).valid[c] => Kept(Stored(row).values[c]))
<1>1. FpExact \in Nat \ {0} /\ Top \in Nat \ {0} /\ (row[c] = Null \/ row[c] \in -Top .. Top)
  BY FilterAssumption
<1>2. Stored(row).valid[c] = (row[c] # Null)
  BY Zenon DEF Stored
<1>3. Stored(row).values[c] = IF row[c] = Null THEN 0 ELSE InLane(Lane[c], row[c])
  BY DEF Stored
<1>4. row[c] # Null => Kept(Float(row[c])) /\ Float(row[c]) \in Int
  BY <1>1, TopInFloats, FloatKept DEF Kept, InFloats
<1>5. CASE row[c] = Null
  <2>1. Stored(row).values[c] = 0
    BY <1>3, <1>5
  <2>2. ~Stored(row).valid[c]
    BY <1>2, <1>5
  <2> QED BY <1>2, <2>1, <2>2
<1>6. CASE row[c] # Null
  <2>1. Stored(row).values[c] = InLane(Lane[c], row[c])
    BY <1>3, <1>6
  <2>2. InLane(Lane[c], row[c]) \in Int
    BY <1>1, <1>4, <1>6 DEF InLane
  <2>3. Lane[c] = "float" => InLane(Lane[c], row[c]) = Float(row[c])
    BY DEF InLane
  <2> QED BY <1>2, <1>4, <1>6, <2>1, <2>2, <2>3
<1> QED BY <1>5, <1>6

-----------------------------------------------------------------------------
(* Programs of three operations *)

LEMMA EvalLeaf ==
    ASSUME NEW op, NEW s, NEW row
    PROVE  /\ op.code = "LOAD_COL" =>
                EvalOp(op, s, row) = Append(s, [lane |-> Lane[op.col], v |-> row.values[op.col]])
           /\ op.code = "CONST_VAL" /\ op.int_lane =>
                EvalOp(op, s, row) = Append(s, [lane |-> "int", v |-> op.value])
           /\ op.code = "CONST_VAL" /\ ~op.int_lane =>
                EvalOp(op, s, row) = Append(s, [lane |-> "float", v |-> Float(op.value)])
<1>1. ASSUME op.code = "LOAD_COL"
      PROVE  EvalOp(op, s, row) = Append(s, [lane |-> Lane[op.col], v |-> row.values[op.col]])
  BY <1>1, Zenon DEF EvalOp, Comparisons
<1>2. ASSUME op.code = "CONST_VAL", op.int_lane
      PROVE  EvalOp(op, s, row) = Append(s, [lane |-> "int", v |-> op.value])
  BY <1>2, Zenon DEF EvalOp, Comparisons
<1>3. ASSUME op.code = "CONST_VAL", ~op.int_lane
      PROVE  EvalOp(op, s, row) = Append(s, [lane |-> "float", v |-> Float(op.value)])
  BY <1>3, Zenon DEF EvalOp, Comparisons
<1> QED BY <1>1, <1>2, <1>3

\* EvalOps of column, constant, comparison.
LEMMA EvalThree ==
    ASSUME NEW ops, NEW row, Len(ops) = 3, ops[1].code = "LOAD_COL", ops[2].code = "CONST_VAL",
           ops[3].code \in Comparisons, ops[2].int_lane \in BOOLEAN
    PROVE  EvalOps(ops, row) =
             Compare(ops[3].code, row.values[ops[1].col],
                     IF ops[2].int_lane THEN ops[2].value ELSE Float(ops[2].value))
<1> DEFINE x == row.values[ops[1].col]
           y == IF ops[2].int_lane THEN ops[2].value ELSE Float(ops[2].value)
           a == [lane |-> Lane[ops[1].col], v |-> x]
           b == [lane |-> IF ops[2].int_lane THEN "int" ELSE "float", v |-> y]
           z == Compare(ops[3].code, x, y)
           c == [lane |-> "bool", v |-> z]
           R(f) == f = [i \in 0 .. Len(ops) |-> IF i = 0 THEN <<>> ELSE EvalOp(ops[i], f[i - 1], row)]
           stack == CHOOSE f : R(f)
           s1 == EvalOp(ops[1], <<>>, row)
           s2 == EvalOp(ops[2], s1, row)
           s3 == EvalOp(ops[3], s2, row)
           g == [i \in 0 .. 3 |-> IF i = 0 THEN <<>> ELSE IF i = 1 THEN s1 ELSE IF i = 2 THEN s2 ELSE s3]
<1>1. R(g)
  <2>1. g = [i \in 0 .. 3 |-> g[i]] /\ g[0] = <<>> /\ g[1] = s1 /\ g[2] = s2 /\ g[3] = s3
    <3> HIDE DEF s1, s2, s3
    <3> QED OBVIOUS
  <2>2. s1 = EvalOp(ops[1], g[0], row) /\ s2 = EvalOp(ops[2], g[1], row) /\ s3 = EvalOp(ops[3], g[2], row)
    BY <2>1, Zenon
  <2> HIDE DEF g, s1, s2, s3
  <2>3. ASSUME NEW i \in 0 .. 3 PROVE g[i] = IF i = 0 THEN <<>> ELSE EvalOp(ops[i], g[i - 1], row)
    <3>1. i = 0 \/ (i = 1 /\ i - 1 = 0) \/ (i = 2 /\ i - 1 = 1) \/ (i = 3 /\ i - 1 = 2)
      OBVIOUS
    <3> QED BY <2>1, <2>2, <3>1
  <2> QED BY <2>1, <2>3
<1> HIDE DEF g
<1>2. R(stack)
  BY <1>1
<1>3. EvalOps(ops, row) = Last(stack[Len(ops)]).v
  BY Zenon DEF EvalOps
<1> HIDE DEF stack
<1>4. /\ stack[0] = <<>> /\ stack[1] = EvalOp(ops[1], stack[1 - 1], row)
      /\ stack[2] = EvalOp(ops[2], stack[2 - 1], row) /\ stack[3] = EvalOp(ops[3], stack[3 - 1], row)
  BY <1>2
<1>5. 1 - 1 = 0 /\ 2 - 1 = 1 /\ 3 - 1 = 2
  OBVIOUS
<1>6. stack[3] = s3
  BY <1>4, <1>5, Zenon
<1>7. s1 = <<a>>
  <2>1. s1 = Append(<<>>, a)
    BY EvalLeaf, Zenon
  <2> HIDE DEF a, s1
  <2> QED BY <2>1
<1>8. s2 = <<a, b>>
  <2>1. CASE ops[2].int_lane
    <3>1. s2 = Append(s1, [lane |-> "int", v |-> ops[2].value])
      <4> HIDE DEF s1
      <4> QED BY <2>1, EvalLeaf
    <3>2. b = [lane |-> "int", v |-> ops[2].value]
      BY <2>1
    <3> HIDE DEF a, b, s1, s2
    <3> QED BY <3>1, <3>2, <1>7, Two
  <2>2. CASE ~ops[2].int_lane
    <3>1. s2 = Append(s1, [lane |-> "float", v |-> Float(ops[2].value)])
      <4> HIDE DEF s1
      <4> QED BY <2>2, EvalLeaf
    <3>2. b = [lane |-> "float", v |-> Float(ops[2].value)]
      BY <2>2
    <3> HIDE DEF a, b, s1, s2
    <3> QED BY <3>1, <3>2, <1>7, Two
  <2> QED BY <2>1, <2>2
<1>9. s3 = <<c>>
  <2>1. Len(s2) = 2 /\ s2[1] = a /\ s2[2] = b
    <3> HIDE DEF a, b, s2
    <3> QED BY <1>8
  <2>2. Front(Front(s2)) = <<>>
    <3> DEFINE S == {a, b}
    <3>1. s2 \in Seq(S)
      <4> HIDE DEF a, b, s2
      <4> QED BY <1>8
    <3> HIDE DEF s2, S
    <3>2. Front(s2) \in Seq(S) /\ Len(Front(s2)) = 1
      <4>1. Front(s2) = SubSeq(s2, 1, Len(s2) - 1)
        BY Zenon DEF Front
      <4>2. Front(s2) = SubSeq(s2, 1, 1)
        BY <4>1, <2>1
      <4>3. SubSeq(s2, 1, 1) \in Seq(S) /\ Len(SubSeq(s2, 1, 1)) = 1
        BY <2>1, <3>1, SubSeqProperties
      <4> QED BY <4>2, <4>3
    <3>3. Front(Front(s2)) = SubSeq(Front(s2), 1, 0)
      <4> DEFINE q == Front(s2)
      <4>1. Len(q) - 1 = 0
        BY <3>2
      <4> HIDE DEF q
      <4>2. Front(q) = SubSeq(q, 1, Len(q) - 1)
        BY Zenon DEF Front
      <4>3. Front(q) = SubSeq(q, 1, 0)
        BY <4>1, <4>2
      <4> QED BY <4>3 DEF q
    <3> QED BY <3>3, SubSeqEmpty
  <2>3. s3 = Append(Front(Front(s2)), [lane |-> "bool", v |-> Compare(ops[3].code, s2[Len(s2) - 1].v, s2[Len(s2)].v)])
    <3> HIDE DEF s2
    <3> QED BY Zenon DEF EvalOp, Comparisons
  <2>4. Len(s2) - 1 = 1 /\ a.v = x /\ b.v = y
    BY <2>1
  <2>5. s3 = Append(<<>>, c)
    <3> HIDE DEF s2, s3, a, b, x, y
    <3> QED BY <2>1, <2>2, <2>3, <2>4
  <2> HIDE DEF s3, c
  <2> QED BY <2>5
<1>10. Last(s3) = c
  <2> HIDE DEF s3, c
  <2> QED BY <1>9 DEF Last
<1>11. c.v = z
  <2> HIDE DEF z
  <2> QED OBVIOUS
<1>12. EvalOps(ops, row) = z
  <2> HIDE DEF z, c, s3
  <2> QED BY <1>3, <1>6, <1>10, <1>11
<1> QED BY <1>12

-----------------------------------------------------------------------------
(* Zone maps *)

ZoneSet == [lo : Int, hi : Int, any : BOOLEAN, has_null : BOOLEAN]
SegmentSet == [rows : Seq(RowSet), masked : SUBSET Columns]

\* What a zone map and a mask say of a row's value in column c.
Covers(zone, masked, row, c) ==
    IF row.valid[c] THEN zone[c].any /\ zone[c].lo <= row.values[c] /\ row.values[c] <= zone[c].hi
    ELSE zone[c].has_null /\ c \in masked

SegmentOK(segment, zone) ==
    \A r \in 1 .. Len(segment.rows), c \in Columns : Covers(zone, segment.masked, segment.rows[r], c)

LEMMA RowOf ==
    ASSUME NEW segment \in SegmentSet, NEW r \in 1 .. Len(segment.rows), NEW c \in Columns
    PROVE  /\ segment.rows[r] \in RowSet /\ segment.rows[r].values[c] \in Int
           /\ Lane[c] = "float" => (segment.rows[r].valid[c] => Kept(segment.rows[r].values[c]))
<1>1. segment.rows \in Seq(RowSet)
  BY DEF SegmentSet
<1>2. segment.rows[r] \in RowSet
  BY <1>1, ElementOfSeq
<1>3. PICK row \in RowKinds : segment.rows[r] = Stored(row)
  BY <1>2 DEF RowSet
<1> QED BY <1>2, <1>3, StoredRow

LEMMA ThreeOrSeven == ASSUME NEW n \in Nat, n % 4 = 3 PROVE n = 3 \/ n >= 7
<1>1. 4 % 4 = 0 /\ 5 % 4 = 1 /\ 6 % 4 = 2 /\ 0 % 4 = 0 /\ 1 % 4 = 1 /\ 2 % 4 = 2
  OBVIOUS
<1>2. n \notin {0, 1, 2, 4, 5, 6}
  BY <1>1
<1> QED BY <1>2

\* A filter with predicates for pruning is one comparison: it ends with a comparison, so it
\* leaves one value, and further conjuncts would come with their AND before them, which
\* finds one operand only.
LEMMA OnePredicate ==
    ASSUME NEW filter, FilterOK(filter, FALSE), NEW pred \in PrunePreds(filter)
    PROVE  LET ops == filter.ops
           IN  /\ Len(ops) = 3 /\ ops[1] \in OpSet /\ ops[2] \in OpSet /\ ops[3] \in OpSet
               /\ ops[1].code = "LOAD_COL" /\ ops[2].code = "CONST_VAL" /\ ops[3].code \in Comparisons
               /\ ops[1].col \in filter.null_cols
               /\ pred.col = ops[1].col /\ pred.code = ops[3].code
               /\ pred.constant = ops[2].value /\ pred.int_lane = ops[2].int_lane
<1> DEFINE ops == filter.ops
           cmp(i) == /\ i + 2 <= Len(ops)
                     /\ ops[i].code = "LOAD_COL" /\ ops[i + 1].code = "CONST_VAL" /\ ops[i + 2].code \in Comparisons
           starts == {i \in 1 .. Len(ops) : i % 4 = 1}
           shape == Len(ops) % 4 = 3 /\ \A i \in starts : cmp(i) /\ (i > 1 => ops[i - 1].code = "AND")
           preds == {[col |-> ops[i].col, code |-> ops[i + 2].code, constant |-> ops[i + 1].value,
                      int_lane |-> ops[i + 1].int_lane] : i \in starts}
<1>1. PrunePreds(filter) = IF ~shape THEN {} ELSE preds
  BY Zenon DEF PrunePreds
<1>2. shape /\ pred \in preds
  <2> HIDE DEF shape, preds
  <2> QED BY <1>1
<1>3. Conjunct(ops, filter.null_cols, FALSE)
  BY DEF FilterOK
<1>4. ops \in Seq(OpSet) /\ Len(ops) \in Nat
  BY <1>3, LenProperties DEF Conjunct
<1> HIDE DEF ops
<1>5. Len(ops) >= 3 /\ 1 \in starts
  <2>1. Len(ops) % 4 = 3
    BY <1>2
  <2>2. Len(ops) >= 3
    BY <2>1, <1>4
  <2>3. 1 % 4 = 1
    OBVIOUS
  <2> QED BY <2>2, <2>3, <1>4
<1>6. cmp(1) /\ 1 + 1 = 2 /\ 1 + 2 = 3
  BY <1>2, <1>5
<1>7. ops[1].code = "LOAD_COL" /\ ops[2].code = "CONST_VAL" /\ ops[3].code \in Comparisons
  BY <1>6
<1>8. Good(ops, filter.null_cols, 1)
  <2>1. Len(ops) % 4 = 3
    BY <1>2
  <2>2. Len(ops) - 2 \in starts
    BY <2>1, <1>4, <1>5
  <2>3. cmp(Len(ops) - 2)
    BY <1>2, <2>2
  <2>4. (Len(ops) - 2) + 2 = Len(ops)
    BY <1>4
  <2>5. ops[Len(ops)].code \in Comparisons
    BY <2>3, <2>4
  <2>6. ~Ends(ops)
    BY <2>5 DEF Ends, Connectives, Comparisons
  <2> QED BY <2>6, <1>3, <1>5, EmptySeq DEF Conjunct
<1>9. PICK dep : Depths(dep, ops)
  BY <1>8 DEF Good, Runs
<1>10. Takes(ops[1]) = 0 /\ Takes(ops[2]) = 0 /\ Takes(ops[3]) = 2
  BY <1>7 DEF Takes, Comparisons
<1>11. dep[0] = 0 /\ dep[1] = dep[1 - 1] - Takes(ops[1]) + 1 /\ dep[2] = dep[2 - 1] - Takes(ops[2]) + 1
       /\ dep[3] = dep[3 - 1] - Takes(ops[3]) + 1
  BY <1>5, <1>9, <1>4 DEF Depths
<1>12. dep[3] = 1
  BY <1>10, <1>11
<1>13. Len(ops) = 3
  <2> SUFFICES ASSUME Len(ops) # 3 PROVE FALSE
    OBVIOUS
  <2>1. Len(ops) >= 7 /\ 5 \in starts
    <3>1. Len(ops) % 4 = 3
      BY <1>2
    <3>2. Len(ops) >= 7
      BY <3>1, <1>4, ThreeOrSeven
    <3>3. 5 % 4 = 1
      OBVIOUS
    <3> QED BY <3>2, <3>3, <1>4
  <2>2. ops[5 - 1].code = "AND"
    BY <1>2, <2>1
  <2>3. Takes(ops[4]) = 2
    BY <2>2 DEF Takes
  <2>4. dep[4 - 1] >= Takes(ops[4])
    BY <2>1, <1>9, <1>4 DEF Depths
  <2> QED BY <2>3, <2>4, <1>12
<1>14. starts = {1}
  BY <1>13
<1>15. pred = [col |-> ops[1].col, code |-> ops[1 + 2].code, constant |-> ops[1 + 1].value, int_lane |-> ops[1 + 1].int_lane]
  <2> HIDE DEF starts
  <2> QED BY <1>2, <1>14
<1>16. pred.col = ops[1].col /\ pred.code = ops[3].code /\ pred.constant = ops[2].value /\ pred.int_lane = ops[2].int_lane
  BY <1>6, <1>15
<1>17. ops[1].col \in filter.null_cols
  BY <1>7, <1>8, <1>13 DEF Good
<1>18. ops[1] \in OpSet /\ ops[2] \in OpSet /\ ops[3] \in OpSet
  <2>1. \A n \in 1 .. 3 : ops[n] \in OpSet
    BY <1>4, <1>13, ElementOfSeq
  <2> QED BY <2>1
<1> QED BY <1>7, <1>13, <1>16, <1>17, <1>18 DEF ops

\* Of the values in a zone map that rules a comparison with c out, the comparison with k,
\* when none of them is between c and k, is true of k only.
LEMMA RuledOut ==
    ASSUME NEW pred, NEW z \in ZoneSet, NEW v \in Int, NEW k \in Int, pred.constant \in Int, pred.code \in Comparisons,
           z.any, z.lo <= v, v <= z.hi, RulesOut(pred, z),
           pred.constant <= v => k <= v, v <= pred.constant => v <= k,
           Compare(pred.code, v, k)
    PROVE  v = k /\ k # pred.constant
<1> DEFINE c == pred.constant
<1>1. z.lo \in Int /\ z.hi \in Int
  BY DEF ZoneSet
<1>2. ZoneLow(z) = z.lo /\ ZoneHigh(z) = z.hi
  BY DEF ZoneLow, ZoneHigh
<1>3. CASE pred.code = "LT"
  <2>1. z.lo >= c /\ v < k
    BY <1>2, <1>3 DEF RulesOut, Compare
  <2> QED BY <2>1, <1>1
<1>4. CASE pred.code = "LE"
  <2>1. z.lo > c /\ v <= k
    BY <1>2, <1>4 DEF RulesOut, Compare
  <2> QED BY <2>1, <1>1
<1>5. CASE pred.code = "GT"
  <2>1. z.hi <= c /\ v > k
    BY <1>2, <1>5 DEF RulesOut, Compare
  <2> QED BY <2>1, <1>1
<1>6. CASE pred.code = "GE"
  <2>1. z.hi < c /\ v >= k
    BY <1>2, <1>6 DEF RulesOut, Compare
  <2> QED BY <2>1, <1>1
<1>7. CASE pred.code = "EQ"
  <2>1. (c < z.lo \/ c > z.hi) /\ v = k
    BY <1>2, <1>7 DEF RulesOut, Compare
  <2> QED BY <2>1, <1>1
<1>8. CASE pred.code = "NE"
  <2>1. z.lo = z.hi /\ z.lo = c /\ v # k
    BY <1>2, <1>8 DEF RulesOut, Compare
  <2> QED BY <2>1, <1>1
<1> QED BY <1>3, <1>4, <1>5, <1>6, <1>7, <1>8 DEF Comparisons

\* The filter compares in its float lane with a constant that fp32 does not hold, and the
\* row has what fp32 makes of it.
OnRounded(filter, row) ==
    \E pred \in PrunePreds(filter) :
        /\ ~pred.int_lane /\ Float(pred.constant) # pred.constant
        /\ row.values[pred.col] = Float(pred.constant)

\* A pruned segment has no other row the filter selects.
LEMMA PrunedEmpty ==
    ASSUME NEW filter, FilterOK(filter, FALSE), NEW segment \in SegmentSet, NEW zone \in [Columns -> ZoneSet],
           SegmentOK(segment, zone), SegmentShouldPrune(zone, filter),
           NEW r \in 1 .. Len(segment.rows), FilterMask(segment, filter, segment.rows[r])
    PROVE  OnRounded(filter, segment.rows[r])
<1> DEFINE row == segment.rows[r]
           ops == filter.ops
<1>1. PICK pred \in PrunePreds(filter) : pred.int_lane = (Lane[pred.col] = "int") /\ RulesOut(pred, zone[pred.col])
  BY Zenon DEF SegmentShouldPrune
<1>2. /\ Len(ops) = 3 /\ ops[1] \in OpSet /\ ops[2] \in OpSet /\ ops[3] \in OpSet
      /\ ops[1].code = "LOAD_COL" /\ ops[2].code = "CONST_VAL" /\ ops[3].code \in Comparisons
      /\ ops[1].col \in filter.null_cols
      /\ pred.col = ops[1].col /\ pred.code = ops[3].code
      /\ pred.constant = ops[2].value /\ pred.int_lane = ops[2].int_lane
  BY OnePredicate
<1> DEFINE c == pred.col
           v == row.values[c]
           k == IF pred.int_lane THEN pred.constant ELSE Float(pred.constant)
<1>3. c \in filter.null_cols /\ c \in Columns
  BY <1>2 DEF FilterOK
<1>4. /\ v \in Int /\ Covers(zone, segment.masked, row, c)
      /\ Lane[c] = "float" => (row.valid[c] => Kept(v))
  BY <1>3, RowOf DEF SegmentOK
<1>5. row.valid[c]
  <2> SUFFICES ASSUME ~row.valid[c] PROVE FALSE
    OBVIOUS
  <2>1. c \in MaskedCols(segment, filter.null_cols)
    BY <1>3, <1>4 DEF Covers, MaskedCols
  <2> QED BY <2>1, Zenon DEF FilterMask, NullMask
<1>6. zone[c].any /\ zone[c].lo <= v /\ v <= zone[c].hi
  BY <1>4, <1>5 DEF Covers
<1>7. /\ zone[c] \in ZoneSet /\ pred.constant \in -Top .. Top /\ pred.int_lane \in BOOLEAN
      /\ pred.code \in Comparisons
  BY <1>2, <1>3 DEF OpSet
<1>8. Top \in Nat /\ Lane[c] \in {"int", "float"}
  BY <1>3, FilterAssumption
<1>9. k \in Int /\ (pred.constant <= v => k <= v) /\ (v <= pred.constant => v <= k)
  <2>1. CASE pred.int_lane
    BY <2>1, <1>4, <1>7, <1>8
  <2>2. CASE ~pred.int_lane
    <3>1. Kept(v)
      BY <2>2, <1>1, <1>4, <1>5, <1>8
    <3>2. pred.constant \in InFloats
      BY <1>7, TopInFloats
    <3> HIDE DEF v
    <3> QED BY <2>2, <3>1, <3>2, FloatNext
  <2> QED BY <2>1, <2>2
<1>10. Compare(pred.code, v, k)
  <2>1. EvalOps(ops, row) = Compare(ops[3].code, row.values[ops[1].col],
                                    IF ops[2].int_lane THEN ops[2].value ELSE Float(ops[2].value))
    BY <1>2, <1>7, EvalThree
  <2>2. EvalOps(ops, row) = Compare(pred.code, v, k)
    BY <2>1, <1>2, Zenon
  <2>3. ops # <<>>
    BY <1>2
  <2>4. EvalOps(ops, row)
    BY <2>3, Zenon DEF FilterMask
  <2> HIDE DEF k, v, ops, row
  <2> QED BY <2>2, <2>4, Zenon
<1>11. v = k /\ k # pred.constant
  <2> HIDE DEF v, k, row, ops
  <2>1. pred.constant \in Int /\ RulesOut(pred, zone[c])
    BY <1>1, <1>7, <1>8
  <2> HIDE DEF c
  <2> QED BY <2>1, <1>4, <1>6, <1>7, <1>9, <1>10, RuledOut
<1>12. ~pred.int_lane /\ k = Float(pred.constant)
  <2> HIDE DEF v
  <2> QED BY <1>11, <1>7
<1> QED BY <1>11, <1>12, Zenon DEF OnRounded

\* One row more, in the segment and in its zone maps.
LEMMA ZoneStep ==
    ASSUME NEW z \in ZoneSet, NEW v \in Int, NEW valid \in BOOLEAN
    PROVE  LET w == ZoneWith(z, v, valid)
           IN  /\ w \in ZoneSet
               /\ z.any => w.any
               /\ z.has_null => w.has_null
               /\ w.lo <= z.lo /\ z.hi <= w.hi
               /\ IF valid THEN w.any /\ w.lo <= v /\ v <= w.hi ELSE w.has_null
<1> DEFINE w == ZoneWith(z, v, valid)
<1>1. /\ z.lo \in Int /\ z.hi \in Int /\ z.any \in BOOLEAN /\ z.has_null \in BOOLEAN
      /\ z = [lo |-> z.lo, hi |-> z.hi, any |-> z.any, has_null |-> z.has_null]
  BY DEF ZoneSet
<1>2. CASE valid
  <2> DEFINE l == Lesser(z.lo, v)
             h == Greater(z.hi, v)
  <2>1. l \in Int /\ l <= v /\ l <= z.lo
    BY <1>1 DEF Lesser
  <2>2. h \in Int /\ v <= h /\ z.hi <= h
    BY <1>1 DEF Greater
  <2>3. w = [z EXCEPT !.lo = l, !.hi = h, !.any = TRUE]
    BY <1>2 DEF ZoneWith
  <2> HIDE DEF l, h, w
  <2>4. w = [lo |-> l, hi |-> h, any |-> TRUE, has_null |-> z.has_null]
    BY <2>3, <1>1
  <2>5. w \in ZoneSet /\ w.lo = l /\ w.hi = h /\ w.any /\ w.has_null = z.has_null
    BY <2>1, <2>2, <2>4, <1>1 DEF ZoneSet
  <2> QED BY <2>1, <2>2, <2>5, <1>1, <1>2 DEF w
<1>3. CASE ~valid
  <2>1. w = [z EXCEPT !.has_null = TRUE]
    BY <1>3 DEF ZoneWith
  <2> HIDE DEF w
  <2>2. w = [lo |-> z.lo, hi |-> z.hi, any |-> z.any, has_null |-> TRUE]
    BY <2>1, <1>1
  <2>3. w \in ZoneSet /\ w.lo = z.lo /\ w.hi = z.hi /\ w.any = z.any /\ w.has_null
    BY <2>2, <1>1 DEF ZoneSet
  <2> QED BY <2>3, <1>1, <1>3 DEF w
<1> QED BY <1>2, <1>3

LEMMA AppendKeeps ==
    ASSUME NEW segment \in SegmentSet, NEW zone \in [Columns -> ZoneSet], SegmentOK(segment, zone),
           NEW row \in RowKinds,
           NEW segment2, segment2 = [rows |-> Append(segment.rows, Stored(row)),
                                     masked |-> segment.masked \cup {c \in Columns : row[c] = Null}],
           NEW zone2, zone2 = [c \in Columns |-> ZoneWith(zone[c], Stored(row).values[c], row[c] # Null)]
    PROVE  segment2 \in SegmentSet /\ zone2 \in [Columns -> ZoneSet] /\ SegmentOK(segment2, zone2)
<1> DEFINE new == Stored(row)
           n == Len(segment.rows)
<1>1. segment.rows \in Seq(RowSet) /\ segment.masked \in SUBSET Columns /\ new \in RowSet
  BY DEF SegmentSet, RowSet
<1>2. segment2.rows = Append(segment.rows, new) /\ segment2.masked = segment.masked \cup {c \in Columns : row[c] = Null}
  <2> HIDE DEF new
  <2> QED BY DEF new
<1>3. ASSUME NEW c \in Columns
      PROVE  LET w == zone2[c] IN
             /\ w \in ZoneSet
             /\ zone[c].any => w.any
             /\ zone[c].has_null => w.has_null
             /\ w.lo <= zone[c].lo /\ zone[c].hi <= w.hi
             /\ IF new.valid[c] THEN w.any /\ w.lo <= new.values[c] /\ new.values[c] <= w.hi ELSE w.has_null
  <2> DEFINE valid == row[c] # Null
  <2>1. zone[c] \in ZoneSet /\ new.values[c] \in Int /\ valid \in BOOLEAN /\ new.valid[c] = valid
    BY StoredRow
  <2>2. zone2[c] = ZoneWith(zone[c], new.values[c], valid)
    BY Zenon
  <2> HIDE DEF new, valid
  <2> QED BY <2>1, <2>2, ZoneStep
<1> HIDE DEF new
<1>4. n \in Nat /\ Len(segment2.rows) = n + 1 /\ segment2.rows[n + 1] = new
      /\ \A r \in 1 .. n : segment2.rows[r] = segment.rows[r]
  BY <1>1, <1>2, AppendProperties, LenProperties
<1>5. segment2 \in SegmentSet
  <2>1. Append(segment.rows, new) \in Seq(RowSet)
    BY <1>1, AppendProperties
  <2> QED BY <2>1, <1>1, <1>2 DEF SegmentSet, new
<1>6. zone2 \in [Columns -> ZoneSet]
  BY <1>3
<1>7. ASSUME NEW r \in 1 .. Len(segment2.rows), NEW c \in Columns
      PROVE  Covers(zone2, segment2.masked, segment2.rows[r], c)
  <2>1. CASE r = n + 1
    <3>1. ~new.valid[c] => row[c] = Null
      BY StoredRow DEF new
    <3>2. ~new.valid[c] => c \in segment2.masked
      BY <1>2, <3>1
    <3> QED BY <2>1, <1>3, <1>4, <3>2 DEF Covers
  <2>2. CASE r # n + 1
    <3> DEFINE old == segment.rows[r]
    <3>1. r \in 1 .. n /\ segment2.rows[r] = old
      BY <2>2, <1>4
    <3>2. Covers(zone, segment.masked, old, c) /\ old.values[c] \in Int
      BY <3>1, RowOf DEF SegmentOK
    <3>3. c \in segment.masked => c \in segment2.masked
      BY <1>2
    <3>4. zone[c].lo \in Int /\ zone[c].hi \in Int /\ zone2[c].lo \in Int /\ zone2[c].hi \in Int
      BY <1>6 DEF ZoneSet
    <3> HIDE DEF old
    <3>5. Covers(zone2, segment2.masked, old, c)
      BY <3>2, <3>3, <3>4, <1>3 DEF Covers
    <3> QED BY <3>1, <3>5
  <2> QED BY <2>1, <2>2
<1> QED BY <1>5, <1>6, <1>7 DEF SegmentOK

-----------------------------------------------------------------------------
(* The invariant *)

\* The programs of an accepted query.
Executing == pc \in {"eval", "done", "undefined"}

PlanOK ==
    Executing =>
        /\ FilterOK(query.filter, FALSE)
        /\ NotNullApart(query.where) => FilterOK(query.filter, TRUE)
        /\ \A p \in DOMAIN query.programs :
            HasValueGraph(query.programs[p].kind) => Good(query.programs[p].ops, query.programs[p].null_cols, 1)

\* The segments are the appended ones.
Resident == Executing => query.cached

ZonesOK ==
    Resident =>
        /\ segments \in [DOMAIN layout -> SegmentSet]
        /\ zones \in [DOMAIN layout -> [Columns -> ZoneSet]]
        /\ \A s \in DOMAIN layout : SegmentOK(segments[s], zones[s])

PrunedOK ==
    \A s \in pruned :
        Executing /\ query.cached /\ s \in DOMAIN layout /\ SegmentShouldPrune(zones[s], query.filter)

FilterInv == PlanOK /\ ZonesOK /\ PrunedOK

LEMMA InitFilter == Init => FilterInv
<1> SUFFICES ASSUME Init PROVE FilterInv
  OBVIOUS
<1>1. PlanOK
  BY DEF Init, PlanOK, Executing
<1>2. PrunedOK
  BY DEF Init, PrunedOK
<1>3. Top \in Nat
  BY FilterAssumption
<1>4. NoZone \in ZoneSet
  BY <1>3 DEF NoZone, ZoneSet
<1>5. <<>> \in Seq(RowSet) /\ Len(<<>>) = 0
  BY EmptySeq
<1>6. zones \in [DOMAIN layout -> [Columns -> ZoneSet]]
  BY <1>4 DEF Init
<1>7. segments \in [DOMAIN layout -> SegmentSet] /\ \A s \in DOMAIN layout : segments[s].rows = <<>>
  BY <1>5 DEF Init, SegmentSet
<1>8. \A s \in DOMAIN layout : SegmentOK(segments[s], zones[s])
  BY <1>5, <1>7 DEF SegmentOK
<1> QED BY <1>1, <1>2, <1>6, <1>7, <1>8 DEF FilterInv, ZonesOK

LEMMA ReplaceFields ==
    ASSUME NEW a, NEW b, NEW c, NEW d, NEW z, z = [rows |-> a, masked |-> b]
    PROVE  [z EXCEPT !.rows = c, !.masked = d] = [rows |-> c, masked |-> d]
<1> DEFINE w == [z EXCEPT !.rows = c, !.masked = d]
<1>1. w = [z EXCEPT !.rows = c, !.masked = d]
  OBVIOUS
<1> HIDE DEF w
<1>2. w = [rows |-> c, masked |-> d]
  BY <1>1
<1> QED BY <1>1, <1>2, Zenon

LEMMA AppendRowKeeps ==
    ASSUME FilterInv, NEW s \in DOMAIN layout, NEW row \in RowKinds, AppendRow(s, row)
    PROVE  FilterInv'
<1>1. pc = "append" /\ pc' = "append" /\ Resident /\ layout' = layout /\ pruned' = pruned
  BY DEF AppendRow, Resident, Executing
<1>2. PlanOK'
  BY <1>1 DEF PlanOK, Executing
<1>3. PrunedOK'
  BY <1>1 DEF PrunedOK, FilterInv, Executing
<1>4. /\ segments \in [DOMAIN layout -> SegmentSet]
      /\ zones \in [DOMAIN layout -> [Columns -> ZoneSet]]
      /\ \A x \in DOMAIN layout : SegmentOK(segments[x], zones[x])
  BY <1>1 DEF FilterInv, ZonesOK
<1> DEFINE segment2 == [rows |-> Append(segments[s].rows, Stored(row)),
                        masked |-> segments[s].masked \cup {c \in Columns : row[c] = Null}]
           zone2 == [c \in Columns |-> ZoneWith(zones[s][c], Stored(row).values[c], row[c] # Null)]
<1>5. segments' = [segments EXCEPT ![s] = segment2]
  <2>1. segments[s] \in SegmentSet
    BY <1>4
  <2> DEFINE rows2 == Append(segments[s].rows, Stored(row))
             masked2 == segments[s].masked \cup {c \in Columns : row[c] = Null}
  <2>2. segments' = [segments EXCEPT ![s].rows = rows2, ![s].masked = masked2]
    BY Zenon DEF AppendRow
  <2>3. segments[s] = [rows |-> segments[s].rows, masked |-> segments[s].masked]
    BY <2>1 DEF SegmentSet
  <2>4. segment2 = [rows |-> rows2, masked |-> masked2]
    OBVIOUS
  <2> HIDE DEF rows2, masked2, segment2
  <2>5. [segments[s] EXCEPT !.rows = rows2, !.masked = masked2] = segment2
    <3> DEFINE z == segments[s]
               a == z.rows
               b == z.masked
    <3>1. [z EXCEPT !.rows = rows2, !.masked = masked2] = [rows |-> rows2, masked |-> masked2]
      <4>1. z = [rows |-> a, masked |-> b]
        BY <2>3, Zenon
      <4> HIDE DEF z, a, b
      <4> QED BY <4>1, ReplaceFields, Zenon
    <3> QED BY <2>4, <3>1, Zenon
  <2>6. segments' = [segments EXCEPT ![s] = [segments[s] EXCEPT !.rows = rows2, !.masked = masked2]]
    BY <2>2, <1>4
  <2> QED BY <2>5, <2>6
<1>6. zones' = [zones EXCEPT ![s] = zone2]
  BY Zenon DEF AppendRow
<1>7. segment2 \in SegmentSet /\ zone2 \in [Columns -> ZoneSet] /\ SegmentOK(segment2, zone2)
  <2>1. segments[s] \in SegmentSet /\ zones[s] \in [Columns -> ZoneSet] /\ SegmentOK(segments[s], zones[s])
    BY <1>4
  <2> QED BY <2>1, AppendKeeps, Zenon
<1> HIDE DEF segment2, zone2
<1>8. segments' \in [DOMAIN layout -> SegmentSet] /\ zones' \in [DOMAIN layout -> [Columns -> ZoneSet]]
  BY <1>4, <1>5, <1>6, <1>7
<1>9. ASSUME NEW x \in DOMAIN layout PROVE SegmentOK(segments'[x], zones'[x])
  BY <1>4, <1>5, <1>6, <1>7
<1>10. ZonesOK'
  BY <1>1, <1>8, <1>9 DEF ZonesOK
<1> QED BY <1>2, <1>3, <1>10 DEF FilterInv

LEMMA PlanKeeps ==
    ASSUME FilterInv, NEW where \in Filters, NEW aggs \in Aggregates, NEW cached \in BOOLEAN, Plan(where, aggs, cached)
    PROVE  FilterInv'
<1> DEFINE filter == CacheFilter(where)
           programs == [p \in DOMAIN aggs |-> Program(aggs[p])]
           accepted == filter.ok /\ (\A p \in DOMAIN aggs : programs[p].ok) /\ ~CpuFast(programs)
<1>1. /\ pc = "append" /\ layout' = layout /\ zones' = zones /\ pruned' = pruned
      /\ pc' = IF accepted THEN "eval" ELSE "declined"
      /\ cached \/ ~accepted => segments' = segments
      /\ query' = [where |-> where, aggs |-> aggs, cached |-> cached, programs |-> programs,
                   filter |-> IF cached THEN filter ELSE NoQuery.filter]
  BY Zenon DEF Plan
<1>2. /\ query'.cached = cached /\ query'.programs = programs /\ query'.where = where
      /\ query'.filter = IF cached THEN filter ELSE NoQuery.filter
  <2> HIDE DEF programs, filter
  <2> QED BY <1>1
<1>3. pruned = {}
  BY <1>1 DEF FilterInv, PrunedOK, Executing
<1>4. PrunedOK'
  BY <1>1, <1>3 DEF PrunedOK
<1>5. PlanOK'
  <2> SUFFICES ASSUME Executing'
               PROVE  /\ FilterOK(query'.filter, FALSE)
                      /\ NotNullApart(query'.where) => FilterOK(query'.filter, TRUE)
                      /\ \A p \in DOMAIN query'.programs :
                            HasValueGraph(query'.programs[p].kind) =>
                                Good(query'.programs[p].ops, query'.programs[p].null_cols, 1)
    BY DEF PlanOK
  <2>1. accepted
    <3> HIDE DEF accepted
    <3> QED BY <1>1 DEF Executing
  <2>2. FilterOK(query'.filter, FALSE) /\ (NotNullApart(query'.where) => FilterOK(query'.filter, TRUE))
    <3>1. CASE cached
      <4>1. WhereOK(where)
        BY FilterAssumption DEF WhereOK
      <4>2. filter.ok
        BY <2>1
      <4>3. FilterOK(filter, FALSE)
        BY <4>1, <4>2, CacheFilterGood
      <4>4. NotNullApart(where) => FilterOK(filter, TRUE)
        BY <4>1, <4>2, CacheFilterGood
      <4> HIDE DEF filter
      <4> QED BY <4>3, <4>4, <3>1, <1>2
    <3>2. CASE ~cached
      <4>1. query'.filter.ops = <<>> /\ query'.filter.null_cols = {}
        BY <1>2, <3>2 DEF NoQuery
      <4> QED BY <4>1, EmptySeq DEF FilterOK, Conjunct
    <3> QED BY <3>1, <3>2
  <2>3. ASSUME NEW p \in DOMAIN aggs, HasValueGraph(programs[p].kind)
        PROVE  Good(programs[p].ops, programs[p].null_cols, 1)
    <3>1. programs[p] = Program(aggs[p]) /\ programs[p].ok
      BY <2>1
    <3>2. aggs[p].kind # "COUNT_STAR" => ExprOK(aggs[p].arg)
      BY FilterAssumption
    <3> HIDE DEF programs
    <3> QED BY <3>1, <3>2, <2>3, ProgramGood
  <2>4. DOMAIN programs = DOMAIN aggs
    OBVIOUS
  <2> HIDE DEF programs
  <2> QED BY <2>2, <2>3, <2>4, <1>2
<1>6. ZonesOK'
  <2> SUFFICES ASSUME Resident'
               PROVE  /\ segments' \in [DOMAIN layout -> SegmentSet]
                      /\ zones' \in [DOMAIN layout -> [Columns -> ZoneSet]]
                      /\ \A s \in DOMAIN layout : SegmentOK(segments'[s], zones'[s])
    BY <1>1 DEF ZonesOK
  <2>1. cached \/ ~accepted
    <3> HIDE DEF accepted
    <3> QED BY <1>1, <1>2 DEF Resident, Executing
  <2>2. segments' = segments /\ Resident
    BY <2>1, <1>1 DEF Resident, Executing
  <2> QED BY <2>2, <1>1 DEF FilterInv, ZonesOK
<1> QED BY <1>4, <1>5, <1>6 DEF FilterInv

\* Steps that leave the segments, their zone maps and the plan alone.
LEMMA RestKeeps ==
    ASSUME FilterInv, UNCHANGED <<layout, segments, zones, query>>,
           \/ UNCHANGED pc
           \/ pc = "eval" /\ pc' \in {"done", "undefined"},
           \A s \in pruned' \ pruned : /\ pc = "eval" /\ query.cached /\ s \in DOMAIN layout
                                       /\ SegmentShouldPrune(zones[s], query.filter)
    PROVE  FilterInv'
<1>0. Executing <=> Executing'
  BY DEF Executing
<1>1. PlanOK'
  BY <1>0 DEF FilterInv, PlanOK
<1>2. Resident' => Resident
  BY <1>0 DEF Resident
<1>3. ZonesOK'
  BY <1>2 DEF FilterInv, ZonesOK
<1>4. PrunedOK'
  <2> SUFFICES ASSUME NEW s \in pruned'
               PROVE  /\ Executing' /\ query'.cached /\ s \in DOMAIN layout'
                      /\ SegmentShouldPrune(zones'[s], query'.filter)
    BY DEF PrunedOK
  <2>1. CASE s \in pruned
    BY <1>0, <2>1 DEF FilterInv, PrunedOK
  <2>2. CASE s \notin pruned
    BY <2>2 DEF Executing
  <2> QED BY <2>1, <2>2
<1> QED BY <1>1, <1>3, <1>4 DEF FilterInv

LEMMA NextFilter == FilterInv /\ [Next]_vars => FilterInv'
<1> SUFFICES ASSUME FilterInv, [Next]_vars PROVE FilterInv'
  OBVIOUS
<1>1. ASSUME NEW s \in DOMAIN layout, NEW row \in RowKinds, AppendRow(s, row) PROVE FilterInv'
  BY <1>1, AppendRowKeeps
<1>2. ASSUME NEW where \in Filters, NEW aggs \in Aggregates, NEW cached \in BOOLEAN, Plan(where, aggs, cached)
      PROVE  FilterInv'
  BY <1>2, PlanKeeps
<1>3. ASSUME NEW s \in DOMAIN layout, PruneSegment(s) PROVE FilterInv'
  <2>1. /\ UNCHANGED <<layout, segments, zones, query>> /\ UNCHANGED pc
        /\ pc = "eval" /\ query.cached /\ SegmentShouldPrune(zones[s], query.filter) /\ pruned' = pruned \cup {s}
    BY <1>3 DEF PruneSegment
  <2>2. \A x \in pruned' \ pruned : x = s
    BY <2>1
  <2> QED BY <2>1, <2>2, RestKeeps
<1>4. ASSUME NEW s \in DOMAIN layout, EvalSegment(s) PROVE FilterInv'
  <2>1. UNCHANGED <<layout, segments, zones, query, pruned>> /\ UNCHANGED pc
    BY <1>4, Zenon DEF EvalSegment
  <2>2. pruned' \ pruned = {}
    BY <2>1
  <2> QED BY <2>1, <2>2, RestKeeps
<1>5. ASSUME NEW s \in DOMAIN layout, HostSegment(s) PROVE FilterInv'
  <2>1. UNCHANGED <<layout, segments, zones, query, pruned>> /\ UNCHANGED pc
    BY <1>5, Zenon DEF HostSegment
  <2>2. pruned' \ pruned = {}
    BY <2>1
  <2> QED BY <2>1, <2>2, RestKeeps
<1>6. ASSUME MergeOutputs PROVE FilterInv'
  <2>1. UNCHANGED <<layout, segments, zones, query, pruned>> /\ pc = "eval" /\ pc' = "done"
    BY <1>6, Zenon DEF MergeOutputs
  <2>2. pruned' \ pruned = {}
    BY <2>1
  <2> QED BY <2>1, <2>2, RestKeeps
<1>7. ASSUME FinalizeHost PROVE FilterInv'
  <2>1. UNCHANGED <<layout, segments, zones, query, pruned>> /\ pc = "eval" /\ pc' = "done"
    BY <1>7, Zenon DEF FinalizeHost
  <2>2. pruned' \ pruned = {}
    BY <2>1
  <2> QED BY <2>1, <2>2, RestKeeps
<1>8. ASSUME UNCHANGED vars PROVE FilterInv'
  <2>1. UNCHANGED <<layout, segments, zones, query, pruned>> /\ UNCHANGED pc
    BY <1>8, Zenon DEF vars
  <2>2. pruned' \ pruned = {}
    BY <2>1
  <2> QED BY <2>1, <2>2, RestKeeps
<1>9. ASSUME NEW s \in DOMAIN layout, EvalUnderflow(s) PROVE FilterInv'
  <2>1. UNCHANGED <<layout, segments, zones, query, pruned>> /\ pc = "eval" /\ pc' = "undefined"
    BY <1>9, Zenon DEF EvalUnderflow
  <2>2. pruned' \ pruned = {}
    BY <2>1
  <2> QED BY <2>1, <2>2, RestKeeps
<1> QED BY <1>1, <1>2, <1>3, <1>4, <1>5, <1>6, <1>7, <1>8, <1>9, Zenon DEF Next

\* FilterInv is an inductive invariant: an accepted query holds programs that run on the
\* stack of EvalOps, and the zone maps and masks of the resident segments bound their rows.
THEOREM FilterInvariant == Spec => []FilterInv
BY InitFilter, NextFilter, PTL DEF Spec

-----------------------------------------------------------------------------
(* What follows *)

\* Whatever the WHERE clause and the aggregates, EvalOps never pops from an empty stack
\* when it evaluates a query the translators accepted, and leaves one value, unless a table
\* filter has an IS NOT NULL below AND or OR.
THEOREM ProgramsBalanced == Spec => []AcceptedProgramsBalanced
<1>1. FilterInv => AcceptedProgramsBalanced
  <2> SUFFICES ASSUME FilterInv, pc = "eval"
               PROVE  /\ NotNullApart(query.where) => FilterRuns
                      /\ \A p \in DOMAIN query.programs :
                            HasValueGraph(query.programs[p].kind) => Balanced(query.programs[p].ops)
    BY DEF AcceptedProgramsBalanced
  <2>1. /\ NotNullApart(query.where) => FilterOK(query.filter, TRUE)
        /\ \A p \in DOMAIN query.programs :
             HasValueGraph(query.programs[p].kind) => Good(query.programs[p].ops, query.programs[p].null_cols, 1)
    BY DEF FilterInv, PlanOK, Executing
  <2>2. NotNullApart(query.where) => (query.filter.ops # <<>> => Good(query.filter.ops, query.filter.null_cols, 1))
    BY <2>1 DEF FilterOK, Conjunct
  <2> QED BY <2>1, <2>2, GoodBalanced DEF FilterRuns
<1> QED BY <1>1, FilterInvariant, PTL

\* Whatever the rows, the segments and the filter, SegmentShouldPrune skips no segment with
\* a row the filter's mask would select, but for rows that hold the fp32 rounding of a
\* constant, when this is not the constant.
THEOREM PruningLosesNothing == Spec => []PrunedSegmentsEmpty
<1>1. FilterInv => PrunedSegmentsEmpty
  <2> SUFFICES ASSUME FilterInv, NEW s \in pruned, NEW r \in DOMAIN segments[s].rows,
                      FilterMask(segments[s], query.filter, segments[s].rows[r])
               PROVE  OnRoundedConstant(segments[s].rows[r])
    BY Zenon DEF PrunedSegmentsEmpty
  <2>1. /\ Executing /\ Resident /\ s \in DOMAIN layout
        /\ SegmentShouldPrune(zones[s], query.filter)
    BY DEF FilterInv, PrunedOK, Resident
  <2>2. FilterOK(query.filter, FALSE)
    BY <2>1 DEF FilterInv, PlanOK
  <2>3. segments[s] \in SegmentSet /\ zones[s] \in [Columns -> ZoneSet] /\ SegmentOK(segments[s], zones[s])
    BY <2>1 DEF FilterInv, ZonesOK
  <2>4. r \in 1 .. Len(segments[s].rows)
    <3>1. segments[s].rows \in Seq(RowSet)
      BY <2>3 DEF SegmentSet
    <3> QED BY <3>1, LenProperties
  <2>5. OnRounded(query.filter, segments[s].rows[r])
    BY <2>1, <2>2, <2>3, <2>4, PrunedEmpty
  <2> QED BY <2>5, Zenon DEF OnRounded, OnRoundedConstant
<1> QED BY <1>1, FilterInvariant, PTL

=============================================================================
