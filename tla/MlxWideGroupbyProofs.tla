------------------------ MODULE MlxWideGroupbyProofs ------------------------
(***************************************************************************)
(* Proof of GroupsExact: what GROUP BY over a wide key answers, whatever   *)
(* the table, the statistics and the SETs of other sessions while the      *)
(* algorithm is chosen.                                                    *)
(*                                                                         *)
(* The argument.  However a query gathers its input, the input covers the  *)
(* rows it asks about (Covers): each of them is there once, under the key  *)
(* that is stored, and whatever else is there adds nothing.  Grouping such *)
(* an input by sorting gives one group per stored key (CoversGroups), which*)
(* is SQL's group for a key that is kept as it is (KeptKeys).  Every       *)
(* other algorithm of PickGpuPath returns what sorting does, or nothing,   *)
(* and nothing reaches the query only from a path it was forced to.        *)
(***************************************************************************)
EXTENDS MlxWideGroupby, MlxProofBasics

\* The smallest int64 is no key.  The code marks masked rows with it, and the dense table
\* on the host leaves it out.
NoSentinelKey ==
    \A t \in Tables : \A i \in DOMAIN t : t[i].key # Int64Min /\ Float(t[i].key) # Int64Min

-----------------------------------------------------------------------------
(* The inductive invariant *)

KeyIn(q, row) == IF q.source = "bench" THEN row.key ELSE Float(row.key)
ValuedOf(q, t) == {i \in DOMAIN t : Passes(q.filter, t[i]) /\ t[i].val # NULL}
SumIn(q, t, k) == ValueSum(t, {i \in ValuedOf(q, t) : KeyIn(q, t[i]) = k})

\* The rows whose keys are answered, and the values they are there with.
AnsweredOf(q, t) == {i \in DOMAIN t : Passes(q.filter, t[i]) /\ (t[i].val # NULL \/ q.source = "cached")}
ValueIn(row) == IF row.val = NULL THEN 0 ELSE row.val

\* Where the input may have rows that the query does not ask about, adding nothing.
Padded(q, t, i) == q.source = "cached" /\ t[i].val = NULL
MaskedKey(q, k) == q.source = "cached" /\ q.filter # NoFilter /\ k = Int64Min

\* e tells where in the table an input row comes from.
Places(q, t, rows, e) ==
    /\ e \in [DOMAIN rows -> DOMAIN t]
    /\ \A j, k \in DOMAIN rows : e[j] = e[k] => j = k
    /\ \A i \in AnsweredOf(q, t) : \E j \in DOMAIN rows :
            e[j] = i /\ rows[j].key = KeyIn(q, t[i]) /\ rows[j].val = ValueIn(t[i])
    /\ \A j \in DOMAIN rows :
            \/ MaskedKey(q, rows[j].key) /\ rows[j].val = 0
            \/ /\ rows[j].key = KeyIn(q, t[e[j]])
               /\ e[j] \in ValuedOf(q, t) \/ (Padded(q, t, e[j]) /\ rows[j].val = 0)

Covers(q, t, rows) ==
    /\ rows \in Seq([key : Int, val : Int])
    /\ \E e \in [DOMAIN rows -> DOMAIN t] : Places(q, t, rows, e)

\* What GroupsExact asks of an answer, in terms of the keys as they are stored.
GroupsOK(q, t, groups) ==
    /\ \A g, h \in DOMAIN groups : groups[g].key = groups[h].key => g = h
    /\ \A i \in AnsweredOf(q, t) : \E g \in DOMAIN groups :
            groups[g].key = KeyIn(q, t[i]) /\ groups[g].sum = SumIn(q, t, KeyIn(q, t[i]))
    /\ \A g \in DOMAIN groups :
            \/ \E i \in ValuedOf(q, t) : KeyIn(q, t[i]) = groups[g].key
            \/ /\ groups[g].sum = 0
               /\ \/ \E i \in DOMAIN t : Padded(q, t, i) /\ KeyIn(q, t[i]) = groups[g].key
                  \/ MaskedKey(q, groups[g].key)

\* A path that is set was asked for.
Written(p) == \E i \in DOMAIN sets : sets[i] = p

SettingOK ==
    /\ sets \in Seq(Paths)
    /\ override \in {"", "torn"} \/ Written(override)
    /\ setting = NULL \/ Written(setting)

QueryOK ==
    /\ query.filter \in Filters
    /\ query.source = "bench" => query.filter = NoFilter /\ \A i \in DOMAIN table : table[i].val # NULL

Choosing == {"path", "dense", "sort", "radix", "slotlock", "try_slotlock", "try_radix"}

InputOK == pc \in Choosing /\ FilterSound => Covers(query, table, input)

AnswerOK == pc \in {"finish", "done"} /\ FilterSound => GroupsOK(query, table, answer) \/ ForcedEmpty

WideInv == NoSentinelKey /\ table \in Tables /\ SettingOK /\ QueryOK /\ InputOK /\ AnswerOK

-----------------------------------------------------------------------------
(* Numbers and orders *)

LEMMA FloatInt == ASSUME NEW x \in -256 * FpExact .. 256 * FpExact PROVE Float(x) \in Int
<1> DEFINE magnitude == IF x < 0 THEN -x ELSE x
           U == {u \in {1, 2, 4, 8, 16, 32, 64, 128, 256} : magnitude <= FpExact * u}
           ulp == Min(U)
<1>1. FpExact \in Nat \ {0}
  BY WideAssumption
<1>2. magnitude \in Nat /\ magnitude <= FpExact * 256
  BY <1>1
<1> HIDE DEF magnitude
<1>4. U \in SUBSET Nat /\ U # {} /\ 0 \notin U
  BY <1>2
<1>5. \E u \in U : \A v \in U : u <= v
  <2> HIDE DEF U
  <2> QED BY <1>4, LeastElement
<1>6. ulp \in U
  <2> HIDE DEF U
  <2> QED BY <1>5 DEF Min
<1>7. ulp \in Nat \ {0}
  BY <1>4, <1>6
<1> DEFINE low == x \div ulp
           rest == x % ulp
<1>8. Float(x) = IF 2 * rest < ulp \/ (2 * rest = ulp /\ low % 2 = 0) THEN low * ulp ELSE (low + 1) * ulp
  BY Zenon DEF Float, magnitude
<1> HIDE DEF ulp
<1>9. low \in Int
  BY <1>7
<1> HIDE DEF low
<1>10. low * ulp \in Int /\ (low + 1) * ulp \in Int
  BY <1>7, <1>9
<1> QED BY <1>8, <1>10

Rank(S, x) == Cardinality({y \in S : y <= x})

\* Nth lists the elements of a finite set, each once.
LEMMA NthLists ==
    ASSUME NEW S \in SUBSET Int, IsFiniteSet(S)
    PROVE  /\ Cardinality(S) \in Nat
           /\ \A n \in 1 .. Cardinality(S) : Nth(S, n) \in S
           /\ \A m, n \in 1 .. Cardinality(S) : Nth(S, m) = Nth(S, n) => m = n
           /\ \A x \in S : \E n \in 1 .. Cardinality(S) : Nth(S, n) = x
<1> DEFINE N == Cardinality(S)
           rank == [x \in S |-> Rank(S, x)]
<1>1. N \in Nat
  BY FS_CardinalityType
<1>2. ASSUME NEW x \in S PROVE Rank(S, x) \in 1 .. N
  <2> DEFINE low == {y \in S : y <= x}
  <2>1. low \in SUBSET S /\ x \in low
    OBVIOUS
  <2> HIDE DEF low
  <2>2. IsFiniteSet(low) /\ Cardinality(low) <= N
    BY <2>1, FS_Subset
  <2>3. Cardinality(low) \in Nat
    BY <2>2, FS_CardinalityType
  <2>4. Cardinality(low) # 0
    BY <2>1, <2>2, FS_EmptySet
  <2>5. Rank(S, x) = Cardinality(low)
    BY DEF Rank, low
  <2> QED BY <1>1, <2>2, <2>3, <2>4, <2>5
<1>3. ASSUME NEW x \in S, NEW y \in S, x < y PROVE Rank(S, x) # Rank(S, y)
  <2> DEFINE low == {z \in S : z <= x}
             high == {z \in S : z <= y}
  <2>0. x \in Int /\ y \in Int /\ \A z \in S : z \in Int
    OBVIOUS
  <2>1. low \in SUBSET high /\ high \in SUBSET S /\ y \in high /\ y \notin low
    <3>1. \A z \in S : z <= x => z <= y
      BY <1>3, <2>0
    <3>2. y <= y /\ ~(y <= x)
      BY <1>3, <2>0
    <3> QED BY <3>1, <3>2
  <2> HIDE DEF low, high
  <2>2. IsFiniteSet(high)
    BY <2>1, FS_Subset
  <2>3. Cardinality(high) # Cardinality(low)
    BY <2>1, <2>2, FS_Subset
  <2> QED BY <2>3 DEF Rank, low, high
<1>4. ASSUME NEW x \in S, NEW y \in S, Rank(S, x) = Rank(S, y) PROVE x = y
  <2>1. x < y \/ y < x \/ x = y
    OBVIOUS
  <2> QED BY <1>3, <1>4, <2>1
<1>5. rank \in Surjection(S, 1 .. N)
  <2>1. rank \in Injection(S, 1 .. N)
    <3>1. rank \in [S -> 1 .. N] /\ \A x, y \in S : rank[x] = rank[y] => x = y
      BY <1>2, <1>4
    <3> HIDE DEF rank
    <3> QED BY <3>1 DEF Injection, IsInjective
  <2>2. IsFiniteSet(1 .. N) /\ Cardinality(1 .. N) = N
    BY <1>1, FS_Interval
  <2> HIDE DEF rank
  <2> QED BY <2>1, <2>2, FS_Injection
<1>6. ASSUME NEW n \in 1 .. N PROVE \E x \in S : Rank(S, x) = n
  BY <1>5 DEF Surjection
<1>7. ASSUME NEW n \in 1 .. N PROVE Nth(S, n) \in S /\ Rank(S, Nth(S, n)) = n
  <2>1. Nth(S, n) = CHOOSE x \in S : Rank(S, x) = n
    BY Zenon DEF Nth, Rank
  <2> QED BY <1>6, <2>1
<1>8. ASSUME NEW x \in S PROVE Nth(S, Rank(S, x)) = x
  <2>1. Rank(S, x) \in 1 .. N
    BY <1>2
  <2>2. Nth(S, Rank(S, x)) \in S /\ Rank(S, Nth(S, Rank(S, x))) = Rank(S, x)
    BY <1>7, <2>1
  <2> QED BY <1>4, <2>2
<1>9. \A m, n \in 1 .. N : Nth(S, m) = Nth(S, n) => m = n
  BY <1>7
<1> QED BY <1>1, <1>2, <1>7, <1>8, <1>9

-----------------------------------------------------------------------------
(* Sums of values *)

Vals(rows) == [i \in DOMAIN rows |-> rows[i].val]

LEMMA ValueSumIs ==
    ASSUME NEW rows, NEW C \in SUBSET DOMAIN rows, IsFiniteSet(C)
    PROVE  ValueSum(rows, C) = SumOf(Vals(rows), C)
<1> DEFINE g == Vals(rows)
           R(k) == k = [s \in SUBSET C |-> IF s = {} THEN 0 ELSE rows[Pick(s)].val + k[s \ {Pick(s)}]]
<1>2. ASSUME NEW s \in SUBSET C, s # {} PROVE g[Pick(s)] = rows[Pick(s)].val
  <2>1. Pick(s) \in s
    BY <1>2 DEF Pick
  <2> QED BY <2>1 DEF Vals
<1> HIDE DEF g
<1>3. PICK jt : Summing(jt, C, g) /\ SumOf(g, C) = jt[C]
  BY SumOfIs DEF Summing
<1>4. R(jt)
  BY <1>2, <1>3 DEF Sums, Summing
<1> DEFINE it == CHOOSE k : R(k)
<1>5. R(it)
  BY <1>4
<1>6. ValueSum(rows, C) = it[C]
  BY Zenon DEF ValueSum, MapThenSumSet, MapThenFoldSet, Pick
<1> HIDE DEF it
<1>7. Summing(it, C, g)
  BY <1>2, <1>5 DEF Sums, Summing
<1>8. it[C] = jt[C]
  BY <1>3, <1>7, SumsAgree
<1> QED BY <1>3, <1>6, <1>8 DEF g

Matching(rows, t, e, J, V) ==
    /\ J \in SUBSET DOMAIN rows /\ V \in SUBSET DOMAIN t /\ IsFiniteSet(J)
    /\ \A j \in J : rows[j].val \in Int
    /\ \A j, k \in J : e[j] = e[k] => j = k
    /\ \A j \in J : IF e[j] \in V THEN rows[j].val = t[e[j]].val ELSE rows[j].val = 0
    /\ \A i \in V : \E j \in J : e[j] = i

\* Rows of an input that come from distinct rows of the table, but for some that add
\* nothing, have the sum of the rows they come from.
LEMMA KeySum ==
    ASSUME NEW rows, NEW t, NEW e, NEW J, NEW V, Matching(rows, t, e, J, V)
    PROVE  ValueSum(rows, J) = ValueSum(t, V)
<1> USE DEF Matching
<1> DEFINE A == {j \in J : e[j] \in V}
           B == J \ A
           f == Vals(rows)
           g == Vals(t)
<1>1. IsFiniteSet(A) /\ IsFiniteSet(B)
  BY FS_Subset
<1>2. \A j \in J : f[j] = rows[j].val
  BY DEF Vals
<1>3. Image(e, A) = V
  BY DEF Image
<1>4. \A j \in A : f[j] \in Int /\ g[e[j]] = f[j]
  BY <1>2 DEF Vals
<1>5. \A j \in B : f[j] = 0
  BY <1>2
<1>6. A \cup B = J /\ A \cap B = {} /\ \A j, k \in A : e[j] = e[k] => j = k
  OBVIOUS
<1> HIDE DEF A, B, f, g
<1>7. IsFiniteSet(V)
  BY <1>1, <1>3, ImageFinite
<1>8. SumOf(f, A) = SumOf(g, V)
  BY <1>1, <1>3, <1>4, <1>6, SumOfImage
<1>9. SumOf(f, B) = 0
  BY <1>1, <1>5, SumOfZeros
<1>10. SumOf(f, J) = SumOf(f, A) + SumOf(f, B)
  <2>1. \A j \in A \cup B : f[j] \in Int
    BY <1>4, <1>5
  <2>2. SumOf(f, A \cup B) = SumOf(f, A) + SumOf(f, B)
    BY <1>1, <1>6, <2>1, SumOfUnion
  <2> QED BY <1>6, <2>2
<1>11. SumOf(f, A) \in Int
  BY <1>1, <1>4, SumOfType
<1>12. ValueSum(rows, J) = SumOf(f, J) /\ ValueSum(t, V) = SumOf(g, V)
  BY <1>7, ValueSumIs DEF f, g
<1> QED BY <1>8, <1>9, <1>10, <1>11, <1>12

-----------------------------------------------------------------------------
(* Grouping an input that covers what is asked *)

TableOK(t) ==
    /\ t \in Seq([key : Int, val : Int \cup {NULL}])
    /\ \A i \in DOMAIN t : t[i].key # Int64Min /\ Float(t[i].key) # Int64Min /\ Float(t[i].key) \in Int

LEMMA TablesOK == ASSUME NoSentinelKey, NEW t \in Tables PROVE TableOK(t)
<1>1. t \in Seq([key : Int, val : Int \cup {NULL}])
  BY WideAssumption
<1>2. ASSUME NEW i \in DOMAIN t PROVE Float(t[i].key) \in Int
  BY WideAssumption, FloatInt
<1> QED BY <1>1, <1>2 DEF TableOK, NoSentinelKey

LEMMA InSeq == ASSUME NEW S, NEW s \in Seq(S), NEW i \in DOMAIN s PROVE s[i] \in S
OBVIOUS

LEMMA KeysFinite ==
    ASSUME NEW rows \in Seq([key : Int, val : Int])
    PROVE  /\ KeysOf(rows) \in SUBSET Int /\ IsFiniteSet(KeysOf(rows))
           /\ \A k : OfKey(rows, k) \in SUBSET DOMAIN rows /\ IsFiniteSet(OfKey(rows, k))
<1>1. DOMAIN rows = 1 .. Len(rows) /\ Len(rows) \in Nat
  OBVIOUS
<1>2. IsFiniteSet(DOMAIN rows)
  BY <1>1, FS_Interval
<1>3. KeysOf(rows) \in SUBSET Int
  <2>1. \A i \in DOMAIN rows : rows[i] \in [key : Int, val : Int]
    BY InSeq
  <2>2. \A i \in DOMAIN rows : rows[i].key \in Int
    BY <2>1
  <2> QED BY <2>2 DEF KeysOf
<1>4. IsFiniteSet(KeysOf(rows))
  <2> DEFINE e == [i \in DOMAIN rows |-> rows[i].key]
  <2>1. Image(e, DOMAIN rows) = KeysOf(rows)
    BY DEF Image, KeysOf
  <2> QED BY <1>2, <2>1, ImageFinite
<1>5. ASSUME NEW k PROVE OfKey(rows, k) \in SUBSET DOMAIN rows /\ IsFiniteSet(OfKey(rows, k))
  BY <1>2, FS_Subset DEF OfKey
<1> QED BY <1>3, <1>4, <1>5

\* The sum of a group.
LEMMA CoversSum ==
    ASSUME NEW q, NEW t, TableOK(t), NEW rows \in Seq([key : Int, val : Int]), NEW e,
           Places(q, t, rows, e), NEW k
    PROVE  ValueSum(rows, OfKey(rows, k)) = SumIn(q, t, k)
<1> DEFINE J == OfKey(rows, k)
           V == {i \in ValuedOf(q, t) : KeyIn(q, t[i]) = k}
<1>1. J \in SUBSET DOMAIN rows /\ IsFiniteSet(J) /\ V \in SUBSET DOMAIN t
  BY KeysFinite DEF ValuedOf
<1>2. ASSUME NEW j \in J
      PROVE  /\ rows[j].val \in Int
             /\ IF e[j] \in V THEN rows[j].val = t[e[j]].val ELSE rows[j].val = 0
  <2>1. j \in DOMAIN rows /\ rows[j].key = k /\ e[j] \in DOMAIN t
    BY DEF OfKey, Places
  <2>t. rows[j].val \in Int
    <3>1. rows[j] \in [key : Int, val : Int]
      BY <2>1, InSeq
    <3> QED BY <3>1
  <2>2. \/ k = Int64Min /\ rows[j].val = 0
        \/ k = KeyIn(q, t[e[j]]) /\ (e[j] \in ValuedOf(q, t) \/ rows[j].val = 0)
    BY <2>1 DEF Places, MaskedKey
  <2>3. CASE e[j] \in V
    <3>1. e[j] \in ValuedOf(q, t) /\ KeyIn(q, t[e[j]]) = k
      BY <2>3
    <3>2. e[j] \in AnsweredOf(q, t) /\ ValueIn(t[e[j]]) = t[e[j]].val
      BY <3>1 DEF ValuedOf, AnsweredOf, ValueIn
    <3>3. PICK m \in DOMAIN rows : e[m] = e[j] /\ rows[m].val = ValueIn(t[e[j]])
      BY <3>2, Zenon DEF Places
    <3>4. m = j
      BY <2>1, <3>3 DEF Places
    <3> QED BY <2>t, <2>3, <3>2, <3>3, <3>4
  <2>4. CASE e[j] \notin V
    <3>1. e[j] \in ValuedOf(q, t) => k # KeyIn(q, t[e[j]])
      BY <2>4
    <3> QED BY <2>t, <2>2, <2>4, <3>1
  <2> QED BY <2>3, <2>4
<1>3. \A i, j \in J : e[i] = e[j] => i = j
  BY <1>1 DEF Places
<1>4. ASSUME NEW i \in V PROVE \E j \in J : e[j] = i
  <2>1. i \in AnsweredOf(q, t) /\ KeyIn(q, t[i]) = k
    BY DEF ValuedOf, AnsweredOf
  <2>2. PICK j \in DOMAIN rows : e[j] = i /\ rows[j].key = KeyIn(q, t[i])
    BY <2>1, Zenon DEF Places
  <2> QED BY <2>1, <2>2 DEF OfKey
<1> HIDE DEF J, V
<1>5. ValueSum(rows, J) = ValueSum(t, V)
  <2>1. Matching(rows, t, e, J, V)
    BY <1>1, <1>2, <1>3, <1>4 DEF Matching
  <2> QED BY <2>1, KeySum
<1> QED BY <1>5 DEF J, V, SumIn

\* Sorting such an input gives the groups that are asked for.
LEMMA CoversGroups ==
    ASSUME NEW q, NEW t, TableOK(t), NEW rows, Covers(q, t, rows)
    PROVE  GroupsOK(q, t, GroupbySumSortScatter(rows))
<1> DEFINE K == KeysOf(rows)
           groups == GroupbySumSortScatter(rows)
<1>r. rows \in Seq([key : Int, val : Int])
  BY DEF Covers
<1>e. PICK e : Places(q, t, rows, e)
  BY DEF Covers
<1>k. K \in SUBSET Int /\ IsFiniteSet(K)
  BY <1>r, KeysFinite
<1>n. /\ \A n \in 1 .. Cardinality(K) : Nth(K, n) \in K
      /\ \A m, n \in 1 .. Cardinality(K) : Nth(K, m) = Nth(K, n) => m = n
      /\ \A x \in K : \E n \in 1 .. Cardinality(K) : Nth(K, n) = x
  <2> HIDE DEF K
  <2> QED BY <1>k, NthLists
<1>v. \A k : ValueSum(rows, OfKey(rows, k)) = SumIn(q, t, k)
  BY <1>r, <1>e, CoversSum
<1>g. /\ DOMAIN groups = 1 .. Cardinality(K)
      /\ \A n \in 1 .. Cardinality(K) :
            groups[n].key = Nth(K, n) /\ groups[n].sum = SumIn(q, t, Nth(K, n))
  BY <1>v DEF GroupbySumSortScatter, Group
<1> HIDE DEF groups
<1>1. \A g, h \in DOMAIN groups : groups[g].key = groups[h].key => g = h
  BY <1>n, <1>g
<1>2. ASSUME NEW i \in AnsweredOf(q, t)
      PROVE  \E g \in DOMAIN groups :
                groups[g].key = KeyIn(q, t[i]) /\ groups[g].sum = SumIn(q, t, KeyIn(q, t[i]))
  <2> DEFINE k == KeyIn(q, t[i])
  <2>1. PICK at \in DOMAIN rows : rows[at].key = k
    BY <1>e, Zenon DEF Places
  <2>2. k \in K
    BY <2>1 DEF KeysOf
  <2> HIDE DEF k
  <2>3. PICK n \in 1 .. Cardinality(K) : Nth(K, n) = k
    BY <1>n, <2>2
  <2>4. n \in DOMAIN groups /\ groups[n].key = k /\ groups[n].sum = SumIn(q, t, k)
    BY <1>g, <2>3
  <2> QED BY <2>4 DEF k
<1>3. ASSUME NEW g \in DOMAIN groups
      PROVE  \/ \E i \in ValuedOf(q, t) : KeyIn(q, t[i]) = groups[g].key
             \/ /\ groups[g].sum = 0
                /\ \/ \E i \in DOMAIN t : Padded(q, t, i) /\ KeyIn(q, t[i]) = groups[g].key
                   \/ MaskedKey(q, groups[g].key)
  <2> DEFINE k == groups[g].key
             V == {i \in ValuedOf(q, t) : KeyIn(q, t[i]) = k}
  <2>1. k \in K /\ groups[g].sum = SumIn(q, t, k)
    BY <1>g, <1>n
  <2>2. PICK j \in DOMAIN rows : rows[j].key = k
    BY <2>1 DEF KeysOf
  <2>3. \/ MaskedKey(q, k)
        \/ /\ e[j] \in DOMAIN t /\ k = KeyIn(q, t[e[j]])
           /\ e[j] \in ValuedOf(q, t) \/ Padded(q, t, e[j])
    BY <1>e, <2>2 DEF Places
  <2>4. CASE V = {}
    <3>1. ValueSum(t, V) = 0
      <4>1. V \in SUBSET DOMAIN t /\ IsFiniteSet(V)
        BY <2>4, FS_EmptySet
      <4>2. ValueSum(t, V) = SumOf(Vals(t), V)
        BY <4>1, ValueSumIs
      <4> QED BY <2>4, <4>2, FS_EmptySet, SumOfStep
    <3>2. groups[g].sum = 0
      BY <2>1, <3>1 DEF SumIn
    <3>3. MaskedKey(q, k) \/ (e[j] \in DOMAIN t /\ Padded(q, t, e[j]) /\ k = KeyIn(q, t[e[j]]))
      BY <2>3, <2>4
    <3> QED BY <3>2, <3>3
  <2>5. CASE V # {}
    BY <2>5
  <2> QED BY <2>4, <2>5
<1>4. GroupsOK(q, t, groups)
  BY <1>1, <1>2, <1>3, Zenon DEF GroupsOK
<1> QED BY <1>4 DEF groups

\* No input, no group.
LEMMA CoversNothing ==
    ASSUME NEW q, NEW t, Covers(q, t, <<>>)
    PROVE  GroupsOK(q, t, <<>>)
<1>1. PICK e : Places(q, t, <<>>, e)
  BY DEF Covers
<1>2. DOMAIN << >> = {}
  OBVIOUS
<1>3. AnsweredOf(q, t) = {}
  BY <1>1, <1>2 DEF Places
<1> QED BY <1>2, <1>3 DEF GroupsOK

-----------------------------------------------------------------------------
(* The inputs *)

LEMMA RowOf ==
    ASSUME NEW t, TableOK(t), NEW i \in DOMAIN t
    PROVE  /\ t[i].key \in Int /\ t[i].val \in Int \cup {NULL} /\ Float(t[i].key) \in Int
           /\ t[i] = [key |-> t[i].key, val |-> t[i].val]
           /\ t[i].key # Int64Min
<1>1. t[i] \in [key : Int, val : Int \cup {NULL}]
  BY InSeq DEF TableOK
<1> QED BY <1>1 DEF TableOK

LEMMA SeqOfFunction == ASSUME NEW S, NEW n \in Nat, NEW s \in [1 .. n -> S] PROVE s \in Seq(S)
OBVIOUS

\* An input of the rows asked about, in the order of the table, where NULLs are left out.
LEMMA CoversOrdered ==
    ASSUME NEW q, q.source # "cached", NEW t, TableOK(t), NEW P, P = ValuedOf(q, t), NEW rows,
           rows = [n \in 1 .. Cardinality(P) |->
                     [key |-> KeyIn(q, t[Nth(P, n)]), val |-> t[Nth(P, n)].val]]
    PROVE  Covers(q, t, rows)
<1>1. P \in SUBSET DOMAIN t /\ P \in SUBSET Int /\ IsFiniteSet(P)
  <2>1. DOMAIN t = 1 .. Len(t) /\ Len(t) \in Nat
    BY DEF TableOK
  <2>2. IsFiniteSet(DOMAIN t)
    BY <2>1, FS_Interval
  <2>3. P \in SUBSET DOMAIN t
    BY DEF ValuedOf
  <2> QED BY <2>1, <2>2, <2>3, FS_Subset
<1>2. /\ Cardinality(P) \in Nat
      /\ \A n \in 1 .. Cardinality(P) : Nth(P, n) \in P
      /\ \A m, n \in 1 .. Cardinality(P) : Nth(P, m) = Nth(P, n) => m = n
      /\ \A x \in P : \E n \in 1 .. Cardinality(P) : Nth(P, n) = x
  BY <1>1, NthLists
<1>3. ASSUME NEW i \in P PROVE KeyIn(q, t[i]) \in Int /\ t[i].val \in Int
  <2>1. i \in DOMAIN t /\ t[i].val # NULL
    BY DEF ValuedOf
  <2> QED BY <2>1, RowOf DEF KeyIn
<1> DEFINE N == 1 .. Cardinality(P)
           e == [n \in N |-> Nth(P, n)]
<1>4. DOMAIN rows = N
  OBVIOUS
<1>5. \A n \in N : /\ rows[n].key = KeyIn(q, t[e[n]]) /\ rows[n].val = t[e[n]].val
                   /\ e[n] \in P /\ e[n] = Nth(P, n)
  BY <1>2
<1>6. rows \in Seq([key : Int, val : Int])
  <2>1. \A n \in N : rows[n] \in [key : Int, val : Int]
    BY <1>2, <1>3
  <2>2. rows \in [1 .. Cardinality(P) -> [key : Int, val : Int]]
    BY <2>1
  <2> QED BY <1>2, <2>2, SeqOfFunction
<1>7. e \in [DOMAIN rows -> DOMAIN t]
  BY <1>1, <1>4, <1>5
<1> HIDE DEF e
<1>8. \A j, k \in N : e[j] = e[k] => j = k
  BY <1>2, <1>5
<1>9. ASSUME NEW i \in AnsweredOf(q, t)
      PROVE  \E j \in N : e[j] = i /\ rows[j].key = KeyIn(q, t[i]) /\ rows[j].val = ValueIn(t[i])
  <2>1. i \in P /\ ValueIn(t[i]) = t[i].val
    BY DEF AnsweredOf, ValuedOf, ValueIn
  <2>2. PICK n \in N : Nth(P, n) = i
    BY <1>2, <2>1
  <2> QED BY <1>5, <2>1, <2>2
<1>10. Places(q, t, rows, e)
  BY <1>4, <1>5, <1>7, <1>8, <1>9 DEF Places
<1> QED BY <1>6, <1>7, <1>10 DEF Covers

\* An input of all rows of the table, each at its place.
LEMMA CoversInPlace ==
    ASSUME NEW q, NEW t, TableOK(t), NEW rows, DOMAIN rows = DOMAIN t,
           \A i \in DOMAIN t : rows[i] \in [key : Int, val : Int],
           rows = [i \in DOMAIN t |-> rows[i]],
           \A i \in AnsweredOf(q, t) : rows[i].key = KeyIn(q, t[i]) /\ rows[i].val = ValueIn(t[i]),
           \A i \in DOMAIN t : \/ MaskedKey(q, rows[i].key) /\ rows[i].val = 0
                               \/ /\ rows[i].key = KeyIn(q, t[i])
                                  /\ i \in ValuedOf(q, t) \/ (Padded(q, t, i) /\ rows[i].val = 0)
    PROVE  Covers(q, t, rows)
<1> DEFINE e == [i \in DOMAIN t |-> i]
<1>1. rows \in Seq([key : Int, val : Int])
  <2>1. DOMAIN t = 1 .. Len(t) /\ Len(t) \in Nat
    BY DEF TableOK
  <2>2. rows \in [1 .. Len(t) -> [key : Int, val : Int]]
    BY <2>1
  <2> QED BY <2>1, <2>2
<1>2. e \in [DOMAIN rows -> DOMAIN t] /\ \A i \in DOMAIN t : e[i] = i
  OBVIOUS
<1> HIDE DEF e
<1>3. \A i \in AnsweredOf(q, t) : i \in DOMAIN t
  BY DEF AnsweredOf
<1>4. Places(q, t, rows, e)
  BY <1>2, <1>3 DEF Places
<1> QED BY <1>1, <1>2, <1>4 DEF Covers

\* The rows of a cold scan.
LEMMA ColdCovers ==
    ASSUME TableOK(table), query.source = "cold"
    PROVE  Covers(query, table, AppendHashRows(table, {i \in DOMAIN table : Passes(query.filter, table[i])}))
<1> DEFINE P == ValuedOf(query, table)
           places == {i \in DOMAIN table : Passes(query.filter, table[i])}
           rows == AppendHashRows(table, places)
<1>1. {i \in places : table[i].val # NULL} = P
  BY DEF ValuedOf
<1>2. rows = Lanes(RowsAt(table, P))
  BY <1>1 DEF AppendHashRows
<1> HIDE DEF rows
<1>p. IsFiniteSet(P) /\ P \in SUBSET Int
  <2>1. DOMAIN table = 1 .. Len(table) /\ Len(table) \in Nat
    BY DEF TableOK
  <2>2. IsFiniteSet(DOMAIN table) /\ P \in SUBSET DOMAIN table
    BY <2>1, FS_Interval DEF ValuedOf
  <2> QED BY <2>1, <2>2, FS_Subset
<1>3. ASSUME NEW n \in 1 .. Cardinality(P)
      PROVE  Lane(table[Nth(P, n)]) = [key |-> KeyIn(query, table[Nth(P, n)]), val |-> table[Nth(P, n)].val]
  <2>1. Nth(P, n) \in P
    BY <1>p, NthLists
  <2>2. table[Nth(P, n)].val # NULL
    BY <2>1 DEF ValuedOf
  <2> QED BY <2>2 DEF Lane, KeyIn
<1> HIDE DEF P
<1>4. RowsAt(table, P) = [n \in 1 .. Cardinality(P) |-> table[Nth(P, n)]]
  BY DEF RowsAt
<1>5. rows = [n \in 1 .. Cardinality(P) |-> Lane(table[Nth(P, n)])]
  BY <1>2, <1>4 DEF Lanes
<1>6. rows = [n \in 1 .. Cardinality(P) |->
                [key |-> KeyIn(query, table[Nth(P, n)]), val |-> table[Nth(P, n)].val]]
  BY <1>3, <1>5
<1>7. Covers(query, table, rows)
  BY <1>6, CoversOrdered DEF P
<1> QED BY <1>7 DEF rows

\* The cached columns, where the mask of the filter is read as it is meant.
LEMMA CachedCovers ==
    ASSUME TableOK(table), query.source = "cached", query.filter \in Filters, FilterSound
    PROVE  Covers(query, table, [i \in DOMAIN table |-> Masked(query.filter, Lane(table[i]))])
<1> DEFINE f == query.filter
           rows == [i \in DOMAIN table |-> Masked(f, Lane(table[i]))]
           Unmasked(i) == f = NoFilter \/ Lane(table[i])[FilterColumn(f)] \in f.pass
<1>1. ASSUME NEW i \in DOMAIN table
      PROVE  /\ rows[i] = IF Unmasked(i) THEN Lane(table[i]) ELSE [key |-> Int64Min, val |-> 0]
             /\ Lane(table[i]).key = KeyIn(query, table[i])
             /\ Lane(table[i]).val = IF table[i].val = NULL THEN 0 ELSE table[i].val
  BY DEF Masked, Lane, KeyIn
<1>2. ASSUME NEW i \in DOMAIN table PROVE Lane(table[i]) \in [key : Int, val : Int]
  BY RowOf DEF Lane
<1>m. Int64Min \in Int
  <2>1. RadixBase \in Nat \ {0}
    BY WideAssumption
  <2> DEFINE two == RadixBase * RadixBase
             four == two * two
  <2>2. two \in Int
    BY <2>1
  <2> HIDE DEF two
  <2>3. four \in Int
    BY <2>2
  <2> HIDE DEF four
  <2>4. four * four \in Int
    BY <2>3
  <2>5. Int64Range = four * four
    BY DEF Int64Range, four, two
  <2> QED BY <2>4, <2>5 DEF Int64Min
<1>3. ASSUME NEW i \in DOMAIN table PROVE rows[i] \in [key : Int, val : Int]
  BY <1>1, <1>2, <1>m
<1>4. ASSUME NEW i \in DOMAIN table
      PROVE  /\ Passes(f, table[i]) => Unmasked(i)
             /\ Unmasked(i) => Passes(f, table[i]) \/ table[i].val = NULL
  <2>1. CASE f = NoFilter
    BY <2>1 DEF Passes
  <2>2. CASE f # NoFilter
    <3>1. f.col \in {"key", "val"} /\ FilterColumn(f) = f.col
      BY <2>2, WideAssumption DEF FilterSound, FilterColumn
    <3>2. table[i].key # NULL
      BY RowOf, WideAssumption
    <3>3. CASE f.col = "key"
      <4>1. Float(table[i].key) \in f.pass <=> table[i].key \in f.pass
        BY <2>2, <3>3 DEF FilterSound
      <4>2. Passes(f, table[i]) <=> table[i].key \in f.pass
        BY <2>2, <3>2, <3>3 DEF Passes
      <4>3. Unmasked(i) <=> Float(table[i].key) \in f.pass
        BY <2>2, <3>1, <3>3 DEF Lane
      <4> QED BY <4>1, <4>2, <4>3
    <3>4. CASE f.col = "val"
      <4>1. Passes(f, table[i]) <=> table[i].val # NULL /\ table[i].val \in f.pass
        BY <2>2, <3>4 DEF Passes
      <4>2. Unmasked(i) <=> Lane(table[i]).val \in f.pass
        BY <2>2, <3>1, <3>4
      <4>3. table[i].val # NULL => Lane(table[i]).val = table[i].val
        BY DEF Lane
      <4> QED BY <4>1, <4>2, <4>3
    <3> QED BY <3>1, <3>3, <3>4
  <2> QED BY <2>1, <2>2
<1>5. ASSUME NEW i \in AnsweredOf(query, table)
      PROVE  rows[i].key = KeyIn(query, table[i]) /\ rows[i].val = ValueIn(table[i])
  <2>1. i \in DOMAIN table /\ Passes(f, table[i])
    BY DEF AnsweredOf
  <2> QED BY <1>1, <1>4, <2>1 DEF ValueIn
<1>6. ASSUME NEW i \in DOMAIN table
      PROVE  \/ MaskedKey(query, rows[i].key) /\ rows[i].val = 0
             \/ /\ rows[i].key = KeyIn(query, table[i])
                /\ i \in ValuedOf(query, table) \/ (Padded(query, table, i) /\ rows[i].val = 0)
  <2>1. CASE ~Unmasked(i)
    BY <1>1, <2>1 DEF MaskedKey
  <2>2. CASE Unmasked(i) /\ table[i].val = NULL
    BY <1>1, <2>2 DEF Padded
  <2>3. CASE Unmasked(i) /\ table[i].val # NULL
    BY <1>1, <1>4, <2>3 DEF ValuedOf
  <2> QED BY <2>1, <2>2, <2>3
<1>7. DOMAIN rows = DOMAIN table /\ rows = [i \in DOMAIN table |-> rows[i]]
  OBVIOUS
<1>8. Covers(query, table, rows)
  <2> HIDE DEF rows
  <2> QED BY <1>3, <1>5, <1>6, <1>7, CoversInPlace
<1> QED BY <1>8

\* The lists of mlx_groupby_bench, and what the dense table on the host makes of them.
LEMMA BenchCovers ==
    ASSUME TableOK(table), QueryOK, query.source = "bench"
    PROVE  /\ Covers(query, table, table)
           /\ Covers(query, table, RowsAt(table, {i \in DOMAIN table : table[i].key # Int64Min}))
<1> DEFINE P == ValuedOf(query, table)
<1>1. P = DOMAIN table
  BY DEF QueryOK, ValuedOf, Passes
<1>a. \A i \in AnsweredOf(query, table) : i \in DOMAIN table /\ ValueIn(table[i]) = table[i].val
  BY DEF AnsweredOf, ValueIn, QueryOK
<1>2. ASSUME NEW i \in DOMAIN table
      PROVE  /\ KeyIn(query, table[i]) = table[i].key /\ table[i].key # Int64Min
             /\ table[i] = [key |-> table[i].key, val |-> table[i].val]
             /\ table[i] \in [key : Int, val : Int]
  BY RowOf DEF KeyIn, QueryOK
<1>3. Covers(query, table, table)
  <2>1. table = [i \in DOMAIN table |-> table[i]]
    BY DEF TableOK
  <2> QED BY <1>1, <1>2, <1>a, <2>1, CoversInPlace
<1>4. {i \in DOMAIN table : table[i].key # Int64Min} = P
  BY <1>1, <1>2
<1>5. IsFiniteSet(P) /\ P \in SUBSET Int
  <2>1. DOMAIN table = 1 .. Len(table) /\ Len(table) \in Nat
    BY DEF TableOK
  <2> QED BY <1>1, <2>1, FS_Interval
<1> HIDE DEF P
<1>6. \A n \in 1 .. Cardinality(P) : Nth(P, n) \in DOMAIN table
  BY <1>1, <1>5, NthLists
<1>7. RowsAt(table, P) = [n \in 1 .. Cardinality(P) |->
                            [key |-> KeyIn(query, table[Nth(P, n)]), val |-> table[Nth(P, n)].val]]
  BY <1>2, <1>6 DEF RowsAt
<1>8. Covers(query, table, RowsAt(table, P))
  BY <1>7, CoversOrdered DEF P
<1> QED BY <1>3, <1>4, <1>8

-----------------------------------------------------------------------------
(* The choice of the algorithm *)

\* The dense scatter does what sorting does, or nothing.
LEMMA DenseGpu ==
    ASSUME NEW rows
    PROVE  GroupbySumDenseGpu(rows) = <<>> \/ GroupbySumDenseGpu(rows) = GroupbySumSortScatter(rows)
BY Zenon DEF GroupbySumDenseGpu

\* The radix path has no rows below its limit: static_cast<int> makes -1 of the largest
\* uint32_t.
LEMMA RadixNothing ==
    ASSUME NEW rows \in Seq([key : Int, val : Int]) PROVE GroupbySumRadixGpu(rows) = <<>>
<1>1. IntHalf \in Nat \ {0}
  BY WideAssumption
<1>2. UintMaxAsInt = -1
  BY <1>1 DEF UintMaxAsInt, UintMax
<1>3. Len(rows) \in Nat
  OBVIOUS
<1>4. Len(rows) > UintMaxAsInt
  BY <1>2, <1>3
<1> QED BY <1>4, Zenon DEF GroupbySumRadixGpu

LEMMA NoChecksum == ASSUME NEW rows PROVE ~ChecksumOk(rows, <<>>)
BY Zenon DEF ChecksumOk

\* A path that is compared equal was forced.
Forced(p) == p = Env \/ Written(p)

LEMMA IsPathForced ==
    ASSUME SettingOK, NEW p \in {"dense", "radix"}, IsPath(path, p) PROVE Forced(p)
<1>1. p # "" /\ p # "torn"
  OBVIOUS
<1>2. override = p \/ Env = p
  BY Zenon DEF IsPath
<1>3. CASE Env = p
  BY <1>3, Zenon DEF Forced
<1>4. CASE override = p
  <2>1. override \notin {"", "torn"}
    BY <1>1, <1>4
  <2>2. Written(override)
    BY <2>1, Zenon DEF SettingOK
  <2> QED BY <1>4, <2>2, Zenon DEF Forced
<1> QED BY <1>2, <1>3, <1>4

LEMMA SameFilterSound ==
    ASSUME UNCHANGED <<table, keyFirst, query>> PROVE FilterSound' <=> FilterSound
BY DEF FilterSound

\* A step of the choice keeps the invariant if it goes on choosing, or answers what
\* sorting answers, or answers nothing on a forced path.
LEMMA ChoiceStep ==
    ASSUME WideInv, UNCHANGED choiceVars, pc \in Choosing,
           \/ pc' \in Choosing
           \/ /\ pc' = "finish"
              /\ \/ answer' = GroupbySumSortScatter(input)
                 \/ answer' = <<>> /\ \E p \in {"dense", "radix"} : Forced(p)
    PROVE  WideInv'
<1>1. /\ table' = table /\ keyFirst' = keyFirst /\ query' = query /\ input' = input
      /\ sets' = sets /\ override' = override /\ setting' = setting
  BY DEF choiceVars, tableVars, settingVars
<1>2. FilterSound' <=> FilterSound
  BY <1>1, SameFilterSound
<1>3. SettingOK' /\ QueryOK' /\ table' \in Tables /\ NoSentinelKey
  BY <1>1 DEF WideInv, SettingOK, QueryOK, Written
<1>4. InputOK'
  BY <1>1, <1>2 DEF WideInv, InputOK
<1>5. AnswerOK'
  <2>1. CASE pc' \in Choosing
    BY <2>1 DEF AnswerOK, Choosing
  <2>2. CASE answer' = GroupbySumSortScatter(input)
    <3>1. FilterSound => Covers(query, table, input)
      BY DEF WideInv, InputOK
    <3>2. TableOK(table)
      BY TablesOK DEF WideInv
    <3>3. FilterSound => GroupsOK(query, table, answer')
      BY <2>2, <3>1, <3>2, CoversGroups
    <3>4. FilterSound' => GroupsOK(query', table', answer')
      BY <1>1, <1>2, <3>3
    <3> QED BY <3>4, Zenon DEF AnswerOK
  <2>3. CASE answer' = <<>> /\ \E p \in {"dense", "radix"} : Forced(p)
    <3>1. ForcedEmpty'
      BY <1>1, <2>3, Zenon DEF ForcedEmpty, Forced, Written
    <3> QED BY <3>1, Zenon DEF AnswerOK
  <2> QED BY <2>1, <2>2, <2>3
<1> QED BY <1>3, <1>4, <1>5, Zenon DEF WideInv, NoSentinelKey

\* Where the cached filter is read wrongly, nothing is claimed of the answer.
LEMMA UnsoundStep ==
    ASSUME WideInv, UNCHANGED choiceVars, ~FilterSound PROVE WideInv'
<1>1. /\ table' = table /\ keyFirst' = keyFirst /\ query' = query
      /\ sets' = sets /\ override' = override /\ setting' = setting
  BY DEF choiceVars, tableVars, settingVars
<1>2. ~FilterSound'
  BY <1>1, SameFilterSound
<1>3. SettingOK' /\ QueryOK' /\ table' \in Tables /\ NoSentinelKey
  BY <1>1 DEF WideInv, SettingOK, QueryOK, Written
<1>4. InputOK' /\ AnswerOK'
  BY <1>2 DEF InputOK, AnswerOK
<1> QED BY <1>3, <1>4, Zenon DEF WideInv, NoSentinelKey

-----------------------------------------------------------------------------
(* The actions *)

LEMMA ChoiceKeeps ==
    ASSUME WideInv,
           \/ ReadPath \/ ChooseDense \/ ChooseSort \/ ChooseRadix \/ ChooseSlotlock
           \/ TrySlotlock \/ TryRadix
    PROVE  WideInv'
<1>s. SettingOK
  BY DEF WideInv
<1>1. CASE ReadPath
  <2>1. UNCHANGED choiceVars /\ pc \in Choosing /\ pc' \in Choosing
    BY <1>1 DEF ReadPath, Goto, Choosing
  <2> QED BY <2>1, ChoiceStep
<1>2. CASE ChooseDense
  <2>1. UNCHANGED choiceVars /\ pc \in Choosing
    BY <1>2 DEF ChooseDense, Choosing
  <2>2. CASE IsPath(path, "dense") /\ Answer(GroupbySumDenseGpu(input))
    <3>1. pc' = "finish" /\ answer' = GroupbySumDenseGpu(input)
      BY <2>2, Zenon DEF Answer
    <3>2. Forced("dense")
      BY <1>s, <2>2, IsPathForced
    <3>3. answer' = <<>> \/ answer' = GroupbySumSortScatter(input)
      BY <3>1, DenseGpu, Zenon
    <3> QED BY <2>1, <3>1, <3>2, <3>3, ChoiceStep
  <2>3. CASE Answer(GroupbySumHash(input))
    <3>1. pc' = "finish" /\ answer' = GroupbySumSortScatter(input)
      BY <2>3, Zenon DEF Answer, GroupbySumHash
    <3> QED BY <2>1, <3>1, ChoiceStep
  <2>4. CASE GroupbySumDenseGpu(input) # <<>> /\ Answer(GroupbySumDenseGpu(input))
    <3>1. pc' = "finish" /\ answer' = GroupbySumSortScatter(input)
      BY <2>4, DenseGpu, Zenon DEF Answer
    <3> QED BY <2>1, <3>1, ChoiceStep
  <2>5. CASE Goto("sort")
    <3>1. pc' \in Choosing
      BY <2>5 DEF Goto, Choosing
    <3> QED BY <2>1, <3>1, ChoiceStep
  <2> QED BY <1>2, <2>2, <2>3, <2>4, <2>5, Zenon DEF ChooseDense
<1>3. CASE ChooseSort
  <2>1. UNCHANGED choiceVars /\ pc \in Choosing
    BY <1>3 DEF ChooseSort, Choosing
  <2>2. pc' \in Choosing \/ (pc' = "finish" /\ answer' = GroupbySumSortScatter(input))
    BY <1>3 DEF ChooseSort, Answer, Goto, Choosing
  <2> QED BY <2>1, <2>2, ChoiceStep
<1>4. CASE ChooseRadix
  <2>1. UNCHANGED choiceVars /\ pc \in Choosing
    BY <1>4 DEF ChooseRadix, Choosing
  <2>2. CASE ~IsPath(path, "radix")
    <3>1. pc' \in Choosing
      BY <1>4, <2>2 DEF ChooseRadix, Goto, Choosing
    <3> QED BY <2>1, <3>1, ChoiceStep
  <2>3. CASE IsPath(path, "radix")
    <3>1. pc' = "finish" /\ answer' = GroupbySumRadixGpu(input)
      BY <1>4, <2>3, Zenon DEF ChooseRadix, Answer
    <3>2. Forced("radix")
      BY <1>s, <2>3, IsPathForced
    <3>3. FilterSound => input \in Seq([key : Int, val : Int])
      BY <2>1, Zenon DEF WideInv, InputOK, Covers
    <3>4. CASE FilterSound
      <4>1. answer' = <<>>
        BY <3>1, <3>3, <3>4, RadixNothing
      <4> QED BY <2>1, <3>1, <3>2, <4>1, ChoiceStep
    <3>5. CASE ~FilterSound
      BY <2>1, <3>1, <3>5, UnsoundStep
    <3> QED BY <3>4, <3>5
  <2> QED BY <2>2, <2>3
<1>5. CASE ChooseSlotlock
  <2>1. UNCHANGED choiceVars /\ pc \in Choosing
    BY <1>5 DEF ChooseSlotlock, Choosing
  <2>2. pc' \in Choosing \/ (pc' = "finish" /\ answer' = GroupbySumSortScatter(input))
    <3>1. ~ChecksumOk(input, GroupbySumSlotlockGpu(input))
      BY NoChecksum, Zenon DEF GroupbySumSlotlockGpu
    <3> QED BY <1>5, <3>1 DEF ChooseSlotlock, Answer, Goto, Choosing
  <2> QED BY <2>1, <2>2, ChoiceStep
<1>6. CASE TrySlotlock
  <2>1. UNCHANGED choiceVars /\ pc \in Choosing
    BY <1>6 DEF TrySlotlock, Choosing
  <2>2. pc' \in Choosing
    <3>1. ~ChecksumOk(input, GroupbySumSlotlockGpu(input))
      BY NoChecksum, Zenon DEF GroupbySumSlotlockGpu
    <3> QED BY <1>6, <3>1 DEF TrySlotlock, Goto, Choosing
  <2> QED BY <2>1, <2>2, ChoiceStep
<1>7. CASE TryRadix
  <2>1. UNCHANGED choiceVars /\ pc \in Choosing
    BY <1>7 DEF TryRadix, Choosing
  <2>2. pc' = "finish"
    BY <1>7, Zenon DEF TryRadix, Answer
  <2>3. CASE FilterSound
    <3>1. input \in Seq([key : Int, val : Int])
      BY <2>1, <2>3, Zenon DEF WideInv, InputOK, Covers
    <3>2. ~ChecksumOk(input, GroupbySumRadixGpu(input))
      BY <3>1, RadixNothing, NoChecksum
    <3>3. answer' = GroupbySumSortScatter(input)
      BY <1>7, <3>2, Zenon DEF TryRadix, Answer
    <3> QED BY <2>1, <2>2, <3>3, ChoiceStep
  <2>4. CASE ~FilterSound
    BY <2>1, <2>2, <2>4, UnsoundStep
  <2> QED BY <2>3, <2>4
<1> QED BY <1>1, <1>2, <1>3, <1>4, <1>5, <1>6, <1>7

\* The table and the setting stay; the query is new, or gone.
LEMMA AskKeeps ==
    ASSUME WideInv, \/ \E f \in Filters : AskGroupBy(f)
                    \/ \E hash \in BOOLEAN : AskBench(hash)
                    \/ Return
    PROVE  WideInv'
<1>1. /\ table' = table /\ sets' = sets /\ override' = override /\ setting' = setting
  BY DEF AskGroupBy, AskBench, Return, tableVars, settingVars
<1>2. pc' \in {"input", "idle"}
  BY DEF AskGroupBy, AskBench, Return
<1>3. InputOK' /\ AnswerOK'
  BY <1>2 DEF InputOK, AnswerOK, Choosing
<1>4. SettingOK' /\ table' \in Tables /\ NoSentinelKey
  BY <1>1 DEF WideInv, SettingOK, Written
<1>5. QueryOK'
  <2>1. ASSUME NEW f \in Filters, AskGroupBy(f) PROVE QueryOK'
    <3>1. query'.filter = f /\ query'.source # "bench"
      BY <2>1 DEF AskGroupBy
    <3> QED BY <3>1 DEF QueryOK
  <2>2. ASSUME NEW hash \in BOOLEAN, AskBench(hash) PROVE QueryOK'
    <3>1. query'.filter = NoFilter /\ \A i \in DOMAIN table : table[i].val # NULL
      BY <2>2 DEF AskBench
    <3>2. NoFilter \in Filters
      BY WideAssumption
    <3> QED BY <1>1, <3>1, <3>2 DEF QueryOK
  <2>3. ASSUME Return PROVE QueryOK'
    <3>1. query'.filter = NoFilter /\ query'.source = "none"
      BY <2>3 DEF Return, NoQuery
    <3>2. NoFilter \in Filters
      BY WideAssumption
    <3> QED BY <3>1, <3>2 DEF QueryOK
  <2> QED BY <2>1, <2>2, <2>3
<1> QED BY <1>3, <1>4, <1>5, Zenon DEF WideInv, NoSentinelKey

\* A SET is written down before the string shows it.
LEMMA SetKeeps ==
    ASSUME WideInv, (\E p \in Paths : SetPath(p)) \/ SetDone
    PROVE  WideInv'
<1>1. /\ table' = table /\ keyFirst' = keyFirst /\ query' = query /\ input' = input
      /\ pc' = pc /\ answer' = answer
  BY DEF SetPath, SetDone, tableVars
<1>2. SettingOK /\ sets \in Seq(Paths)
  BY DEF WideInv, SettingOK
<1>3. /\ \A p : Written(p) => Written(p)'
      /\ SettingOK'
  <2>1. ASSUME NEW p \in Paths, SetPath(p) PROVE (\A r : Written(r) => Written(r)') /\ SettingOK'
    <3>1. sets' = Append(sets, p) /\ setting' = p /\ override' = "torn"
      BY <2>1 DEF SetPath
    <3>2. /\ sets' \in Seq(Paths) /\ DOMAIN sets \subseteq DOMAIN sets'
          /\ \A i \in DOMAIN sets : sets'[i] = sets[i]
          /\ Len(sets) + 1 \in DOMAIN sets' /\ sets'[Len(sets) + 1] = p
      BY <1>2, <3>1
    <3>3. ASSUME NEW r, Written(r) PROVE Written(r)'
      BY <3>2, <3>3, Zenon DEF Written
    <3>4. Written(setting)'
      BY <3>1, <3>2, Zenon DEF Written
    <3> QED BY <3>1, <3>2, <3>3, <3>4 DEF SettingOK
  <2>2. ASSUME SetDone PROVE (\A r : Written(r) => Written(r)') /\ SettingOK'
    <3>1. sets' = sets /\ setting # NULL /\ override' = setting /\ setting' = NULL
      BY <2>2 DEF SetDone
    <3>2. ASSUME NEW r, Written(r) PROVE Written(r)'
      BY <3>1, <3>2, Zenon DEF Written
    <3>3. Written(setting)
      BY <1>2, <3>1, Zenon DEF SettingOK
    <3>4. Written(override)'
      BY <3>1, <3>3, Zenon DEF Written
    <3> QED BY <1>2, <3>1, <3>2, <3>4 DEF SettingOK
  <2> QED BY <2>1, <2>2
<1>4. FilterSound' <=> FilterSound
  BY <1>1, SameFilterSound
<1>5. ForcedEmpty => ForcedEmpty'
  <2> SUFFICES ASSUME ForcedEmpty PROVE ForcedEmpty'
    OBVIOUS
  <2>1. PICK p \in {"dense", "radix"} : p = Env \/ Written(p)
    BY Zenon DEF ForcedEmpty, Written
  <2>2. answer' = <<>>
    BY <1>1, Zenon DEF ForcedEmpty
  <2>3. p = Env \/ Written(p)'
    BY <1>3, <2>1
  <2> QED BY <2>2, <2>3, Zenon DEF ForcedEmpty, Written
<1>6. InputOK'
  BY <1>1, <1>4 DEF WideInv, InputOK
<1>7. AnswerOK'
  BY <1>1, <1>4, <1>5 DEF WideInv, AnswerOK
<1>8. QueryOK' /\ table' \in Tables
  BY <1>1 DEF WideInv, QueryOK
<1> QED BY <1>3, <1>6, <1>7, <1>8, Zenon DEF WideInv, NoSentinelKey

\* A query has its input, and the dense table on the host may answer at once.
LEMMA InputStep ==
    ASSUME WideInv, UNCHANGED <<tableVars, settingVars, query>>,
           pc' \in {"path", "finish"},
           FilterSound => Covers(query, table, input'),
           pc' = "finish" => \/ input' = <<>> /\ answer' = <<>>
                             \/ GroupsOK(query, table, answer')
    PROVE  WideInv'
<1>1. /\ table' = table /\ keyFirst' = keyFirst /\ query' = query
      /\ sets' = sets /\ override' = override /\ setting' = setting
  BY DEF tableVars, settingVars
<1>2. FilterSound' <=> FilterSound
  BY <1>1, SameFilterSound
<1>3. SettingOK' /\ QueryOK' /\ table' \in Tables /\ NoSentinelKey
  BY <1>1 DEF WideInv, SettingOK, QueryOK, Written
<1>4. InputOK'
  BY <1>1, <1>2, Zenon DEF InputOK
<1>5. FilterSound /\ input' = <<>> => GroupsOK(query, table, <<>>)
  BY CoversNothing
<1>6. pc' = "finish" /\ FilterSound => GroupsOK(query, table, answer')
  BY <1>5
<1>7. pc' # "done"
  OBVIOUS
<1>8. pc' \in {"finish", "done"} /\ FilterSound' => GroupsOK(query', table', answer')
  BY <1>1, <1>2, <1>6, <1>7
<1>9. AnswerOK'
  BY <1>8, Zenon DEF AnswerOK
<1> QED BY <1>3, <1>4, <1>9, Zenon DEF WideInv, NoSentinelKey

LEMMA InputKeeps ==
    ASSUME WideInv, ColdInput \/ CachedInput \/ BenchInput
    PROVE  WideInv'
<1>t. TableOK(table) /\ QueryOK /\ query.filter \in Filters
  BY TablesOK DEF WideInv, QueryOK
<1>1. CASE ColdInput
  <2>1. /\ query.source = "cold" /\ UNCHANGED <<tableVars, settingVars, query>>
        /\ input' = AppendHashRows(table, {i \in DOMAIN table : Passes(query.filter, table[i])})
        /\ answer' = <<>> /\ pc' = IF input' = <<>> THEN "finish" ELSE "path"
    BY <1>1, Zenon DEF ColdInput
  <2>2. Covers(query, table, input')
    BY <1>t, <2>1, ColdCovers
  <2>3. pc' \in {"path", "finish"} /\ (pc' = "finish" => input' = <<>>)
    BY <2>1
  <2> QED BY <2>1, <2>2, <2>3, InputStep
<1>2. CASE CachedInput
  <2>1. /\ query.source = "cached" /\ UNCHANGED <<tableVars, settingVars, query>>
        /\ input' = [i \in DOMAIN table |-> Masked(query.filter, Lane(table[i]))]
        /\ answer' = <<>> /\ pc' = IF input' = <<>> THEN "finish" ELSE "path"
    BY <1>2, Zenon DEF CachedInput
  <2>2. FilterSound => Covers(query, table, input')
    BY <1>t, <2>1, CachedCovers
  <2>3. pc' \in {"path", "finish"} /\ (pc' = "finish" => input' = <<>>)
    BY <2>1
  <2> QED BY <2>1, <2>2, <2>3, InputStep
<1>3. CASE BenchInput
  <2> DEFINE kept == RowsAt(table, {i \in DOMAIN table : table[i].key # Int64Min})
  <2>1. /\ query.source = "bench" /\ UNCHANGED <<tableVars, settingVars, query>>
        /\ input' = table
        /\ answer' = IF query.hash THEN <<>> ELSE GroupbySumDenseHost(table)
        /\ pc' = IF table = <<>> \/ answer' # <<>> THEN "finish" ELSE "path"
    BY <1>3, Zenon DEF BenchInput
  <2>2. Covers(query, table, table) /\ Covers(query, table, kept)
    BY <1>t, <2>1, BenchCovers
  <2>3. GroupbySumDenseHost(table) = GroupbySumDenseGpu(kept)
    BY Zenon DEF GroupbySumDenseHost
  <2> HIDE DEF kept
  <2>4. answer' = <<>> \/ answer' = GroupbySumSortScatter(kept)
    BY <2>1, <2>3, DenseGpu
  <2>5. answer' = <<>> \/ GroupsOK(query, table, answer')
    BY <1>t, <2>2, <2>4, CoversGroups
  <2>6. pc' \in {"path", "finish"}
        /\ (pc' = "finish" => (input' = <<>> /\ answer' = <<>>) \/ GroupsOK(query, table, answer'))
    BY <2>1, <2>5
  <2>7. Covers(query, table, input')
    BY <2>1, <2>2
  <2> QED BY <2>1, <2>6, <2>7, InputStep
<1> QED BY <1>1, <1>2, <1>3

LEMMA FinishKeeps == ASSUME WideInv, Finish PROVE WideInv'
<1>1. /\ table' = table /\ keyFirst' = keyFirst /\ query' = query /\ answer' = answer
      /\ sets' = sets /\ override' = override /\ setting' = setting
      /\ pc = "finish" /\ pc' = "done"
  BY DEF Finish, tableVars, settingVars
<1>2. FilterSound' <=> FilterSound
  BY <1>1, SameFilterSound
<1>3. SettingOK' /\ QueryOK' /\ table' \in Tables /\ NoSentinelKey
  BY <1>1 DEF WideInv, SettingOK, QueryOK, Written
<1>4. InputOK'
  BY <1>1 DEF InputOK, Choosing
<1>5. ForcedEmpty' <=> ForcedEmpty
  BY <1>1 DEF ForcedEmpty
<1>6. AnswerOK'
  BY <1>1, <1>2, <1>5 DEF WideInv, AnswerOK
<1> QED BY <1>3, <1>4, <1>6, Zenon DEF WideInv, NoSentinelKey

LEMMA StutterKeeps == ASSUME WideInv, UNCHANGED vars PROVE WideInv'
<1>1. /\ table' = table /\ keyFirst' = keyFirst /\ query' = query /\ answer' = answer
      /\ sets' = sets /\ override' = override /\ setting' = setting
      /\ pc' = pc /\ input' = input
  BY DEF vars
<1>2. FilterSound' <=> FilterSound
  BY <1>1, SameFilterSound
<1>3. SettingOK' /\ QueryOK' /\ table' \in Tables /\ NoSentinelKey
  BY <1>1 DEF WideInv, SettingOK, QueryOK, Written
<1>5. ForcedEmpty' <=> ForcedEmpty
  BY <1>1 DEF ForcedEmpty
<1>6. InputOK' /\ AnswerOK'
  BY <1>1, <1>2, <1>5 DEF WideInv, InputOK, AnswerOK
<1> QED BY <1>3, <1>6, Zenon DEF WideInv, NoSentinelKey

-----------------------------------------------------------------------------
(* The theorems *)

\* From the scan, the resident columns or the lists of mlx_groupby_bench to the groups
\* PickGpuPath returns: the input of a query that is choosing covers the rows asked
\* about, and the answer has their groups or comes empty from a forced path.
THEOREM WideInvariant == NoSentinelKey /\ Spec => []WideInv
<1>1. NoSentinelKey /\ Init => WideInv
  <2> SUFFICES ASSUME NoSentinelKey, Init PROVE WideInv
    OBVIOUS
  <2>1. SettingOK
    <3>1. sets = <<>> /\ override = "" /\ setting = NULL
      BY DEF Init
    <3>2. <<>> \in Seq(Paths)
      OBVIOUS
    <3> QED BY <3>1, <3>2, Zenon DEF SettingOK
  <2>2. NoFilter \in Filters
    BY WideAssumption
  <2>3. QueryOK
    BY <2>2 DEF Init, NoQuery, QueryOK
  <2>4. InputOK /\ AnswerOK /\ table \in Tables
    BY DEF Init, InputOK, AnswerOK, Choosing
  <2> QED BY <2>1, <2>3, <2>4, Zenon DEF WideInv
<1>2. WideInv /\ [Next]_vars => WideInv'
  <2> SUFFICES ASSUME WideInv, [Next]_vars PROVE WideInv'
    OBVIOUS
  <2>1. CASE UNCHANGED vars
    BY <2>1, StutterKeeps
  <2>2. CASE Step
    BY <2>2, InputKeeps, ChoiceKeeps, FinishKeeps, Zenon DEF Step
  <2>3. CASE (\E f \in Filters : AskGroupBy(f)) \/ (\E hash \in BOOLEAN : AskBench(hash)) \/ Return
    BY <2>3, AskKeeps
  <2>4. CASE (\E p \in Paths : SetPath(p)) \/ SetDone
    BY <2>4, SetKeeps
  <2> QED BY <2>1, <2>2, <2>3, <2>4, Zenon DEF Next
<1> QED BY <1>1, <1>2, PTL DEF Spec

\* A key that is kept as it is has the rows under it that SQL groups under it.
LEMMA KeptKeys ==
    ASSUME NEW i \in Valued, KeyKept(table[i].key)
    PROVE  StoredKey(table[i]) = table[i].key /\ StoredSum(table[i].key) = SqlSum(table[i].key)
<1>1. StoredKey(table[i]) = table[i].key
  BY DEF KeyKept
<1>2. \A j \in Valued : StoredKey(table[j]) = table[i].key <=> table[j].key = table[i].key
  BY DEF KeyKept
<1>3. {j \in Valued : StoredKey(table[j]) = table[i].key} = {j \in Valued : table[j].key = table[i].key}
  BY <1>2
<1> QED BY <1>1, <1>3 DEF StoredSum, SqlSum

\* PickGpuPath and GroupsExact: whatever the tables, the statistics, the limits of the
\* paths and the SETs of other sessions in the middle of the choice, a key of the
\* selected rows that is stored as it is has one group with SQL's sum, and the other
\* groups are those that GroupsExact names.  It holds for keys other than the sentinel,
\* and answers that no forced path emptied, of a cached filter that reads its own
\* columns and that rounding the keys does not change.
THEOREM WideGroupsExact == NoSentinelKey /\ Spec => []GroupsExact
<1>1. WideInv => GroupsExact
  <2> SUFFICES ASSUME WideInv, pc = "done", FilterSound, ~ForcedEmpty
               PROVE  OneGroupPerKey /\ KeptKeysExact /\ StoredKeysExact /\ OtherGroupsEmpty
    BY Zenon DEF GroupsExact
  <2>1. GroupsOK(query, table, answer)
    BY DEF WideInv, AnswerOK
  <2>2. Valued = ValuedOf(query, table)
    BY DEF Valued, Selected, ValuedOf
  <2>3. \A row : StoredKey(row) = KeyIn(query, row)
    BY Zenon DEF StoredKey, KeyIn
  <2>4. \A k : StoredSum(k) = SumIn(query, table, k)
    BY <2>2, <2>3 DEF StoredSum, SumIn
  <2>5. OneGroupPerKey
    BY <2>1, Zenon DEF GroupsOK, OneGroupPerKey
  <2>6. StoredKeysExact
    <3> SUFFICES ASSUME NEW i \in Selected, table[i].val # NULL \/ query.source = "cached"
                 PROVE  HasGroup(StoredKey(table[i]), StoredSum(StoredKey(table[i])))
      BY Zenon DEF StoredKeysExact
    <3>1. i \in AnsweredOf(query, table)
      BY DEF Selected, AnsweredOf
    <3>2. PICK g \in DOMAIN answer :
             /\ answer[g].key = KeyIn(query, table[i])
             /\ answer[g].sum = SumIn(query, table, KeyIn(query, table[i]))
      BY <2>1, <3>1, Zenon DEF GroupsOK
    <3> QED BY <2>3, <2>4, <3>2, Zenon DEF HasGroup
  <2>7. KeptKeysExact
    <3> SUFFICES ASSUME NEW i \in Valued, KeyKept(table[i].key)
                 PROVE  HasGroup(table[i].key, SqlSum(table[i].key))
      BY Zenon DEF KeptKeysExact
    <3>1. HasGroup(StoredKey(table[i]), StoredSum(StoredKey(table[i])))
      BY <2>6 DEF StoredKeysExact, Valued
    <3> QED BY <3>1, KeptKeys
  <2>8. OtherGroupsEmpty
    <3> SUFFICES ASSUME NEW g \in DOMAIN answer
                 PROVE  \/ \E i \in Valued : StoredKey(table[i]) = answer[g].key
                        \/ /\ query.source = "cached" /\ answer[g].sum = 0
                           /\ \/ \E i \in DOMAIN table :
                                    table[i].val = NULL /\ StoredKey(table[i]) = answer[g].key
                              \/ query.filter # NoFilter /\ answer[g].key = Int64Min
      BY Zenon DEF OtherGroupsEmpty
    <3>1. \/ \E i \in ValuedOf(query, table) : KeyIn(query, table[i]) = answer[g].key
          \/ /\ answer[g].sum = 0
             /\ \/ \E i \in DOMAIN table : Padded(query, table, i) /\ KeyIn(query, table[i]) = answer[g].key
                \/ MaskedKey(query, answer[g].key)
      BY <2>1, Zenon DEF GroupsOK
    <3> QED BY <2>2, <2>3, <3>1 DEF Padded, MaskedKey
  <2> QED BY <2>5, <2>6, <2>7, <2>8
<1> QED BY <1>1, WideInvariant, PTL

=============================================================================
