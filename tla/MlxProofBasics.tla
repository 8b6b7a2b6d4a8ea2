---------------------------- MODULE MlxProofBasics ----------------------------
(***************************************************************************)
(* Lemmas about numbers, sets and folds that the proofs share.             *)
(*                                                                         *)
(* The provers cannot instantiate an induction principle that takes a      *)
(* predicate.  Here induction is stated over a set of numbers instead: the *)
(* numbers for which the claim holds.                                      *)
(***************************************************************************)
EXTENDS Integers, Sequences, FiniteSets, FiniteSetsExt, FiniteSetTheorems,
        WellFoundedInduction, TLAPS

\* A nonempty set of natural numbers has a least element.
LEMMA LeastElement ==
    ASSUME NEW T \in SUBSET Nat, T # {}
    PROVE  \E x \in T : \A y \in T : x <= y
<1>1. PICK x \in T : \A y \in T : ~ (<<y, x>> \in OpToRel(<, Nat))
  BY WFMin, NatLessThanWellFounded, Zenon
<1>2. ASSUME NEW y \in T, y < x PROVE FALSE
  <2>1. <<y, x>> \in OpToRel(<, Nat)
    BY <1>2 DEF OpToRel
  <2> QED BY <1>1, <2>1
<1> QED BY <1>2

\* Induction: a set with 0, and with n + 1 for each of its n, has every number.
LEMMA SetInduction ==
    ASSUME NEW S \in SUBSET Nat, 0 \in S, \A n \in Nat : n \in S => n + 1 \in S
    PROVE  S = Nat
<1> SUFFICES ASSUME Nat \ S # {} PROVE FALSE
  OBVIOUS
<1>1. PICK x \in Nat \ S : \A y \in Nat \ S : x <= y
  BY LeastElement
<1>2. x - 1 \in Nat /\ x - 1 \notin Nat \ S
  BY <1>1
<1> QED BY <1>1, <1>2

\* h takes a value of D and the number of a step to a value of D.
Steps(h, D, n) == \A x \in D, k \in 1 .. n : h[<<x, k>>] \in D

\* f starts with x0 and is then given by h.
DefinedBy(f, D, x0, h, n) ==
    f \in [0 .. n -> D] /\ f[0] = x0 /\ \A k \in 1 .. n : f[k] = h[<<f[k - 1], k>>]

\* A function defined by recursion on 0 .. n, with values in D, exists.
LEMMA Recursion ==
    ASSUME NEW D, NEW x0 \in D, NEW n \in Nat, NEW h, Steps(h, D, n)
    PROVE  \E f : DefinedBy(f, D, x0, h, n)
<1> DEFINE P(f, m) == DefinedBy(f, D, x0, h, m)
           M == {m \in Nat : m <= n => \E f : P(f, m)}
<1>1. 0 \in M
  <2>1. P([i \in 0 .. 0 |-> x0], 0)
    BY DEF DefinedBy
  <2> HIDE DEF P
  <2> QED BY <2>1
<1>2. ASSUME NEW m \in Nat, m \in M PROVE m + 1 \in M
  <2> SUFFICES ASSUME m + 1 <= n PROVE \E f : P(f, m + 1)
    OBVIOUS
  <2>1. PICK f : P(f, m)
    BY <1>2
  <2> DEFINE y == h[<<f[m], m + 1>>]
             g == [i \in 0 .. m + 1 |-> IF i = m + 1 THEN y ELSE f[i]]
  <2>2. f[m] \in D /\ m + 1 \in 1 .. n
    BY <2>1 DEF DefinedBy
  <2>3. y \in D
    BY <2>2 DEF Steps
  <2>4. y = h[<<f[m], m + 1>>]
    OBVIOUS
  <2> HIDE DEF y
  <2>5. g \in [0 .. m + 1 -> D] /\ g[0] = x0 /\ g[m + 1] = y /\ \A i \in 0 .. m : g[i] = f[i]
    BY <2>1, <2>3 DEF DefinedBy
  <2> HIDE DEF g
  <2>6. ASSUME NEW k \in 1 .. m + 1 PROVE g[k] = h[<<g[k - 1], k>>]
    <3>1. CASE k = m + 1
      <4>1. k - 1 = m /\ g[m] = f[m]
        BY <3>1, <2>5
      <4> QED BY <4>1, <3>1, <2>4, <2>5
    <3>2. CASE k # m + 1
      <4>1. k \in 1 .. m /\ g[k] = f[k] /\ g[k - 1] = f[k - 1]
        BY <3>2, <2>5
      <4> QED BY <4>1, <2>1 DEF DefinedBy
    <3> QED BY <3>1, <3>2
  <2>7. P(g, m + 1)
    BY <2>5, <2>6 DEF DefinedBy
  <2> HIDE DEF P
  <2> QED BY <2>7
<1>3. M = Nat
  <2> HIDE DEF M
  <2> QED BY <1>1, <1>2, SetInduction DEF M
<1> QED BY <1>3

-----------------------------------------------------------------------------
(* Division *)

\* A number in a block of S numbers: its block and its place there are unique.
LEMMA DivMod ==
    ASSUME NEW S \in Nat \ {0}, NEW q \in Nat, NEW r \in 0 .. S - 1
    PROVE  (q * S + r) \div S = q /\ (q * S + r) % S = r
OBVIOUS

\* Every number is in a block.
LEMMA DivModOf ==
    ASSUME NEW S \in Nat \ {0}, NEW p \in Nat
    PROVE  /\ p \div S \in Nat /\ p % S \in 0 .. S - 1
           /\ p = (p \div S) * S + (p % S)
OBVIOUS

\* Number p is at place r of block q, in blocks of S.
At(p, S, q, r) == q \in Nat /\ r \in 0 .. S - 1 /\ p = q * S + r

LEMMA AtOnce ==
    ASSUME NEW S \in Nat \ {0}, NEW p, NEW q, NEW r, NEW v, NEW u, At(p, S, q, r), At(p, S, v, u)
    PROVE  q = v /\ r = u
<1>1. (q * S + r) \div S = q /\ (q * S + r) % S = r
  BY DivMod DEF At
<1>2. (v * S + u) \div S = v /\ (v * S + u) % S = u
  BY DivMod DEF At
<1> QED BY <1>1, <1>2 DEF At

\* The next number is in the same block, unless it starts the next one.
LEMMA DivModNext ==
    ASSUME NEW S \in Nat \ {0}, NEW p \in Nat
    PROVE  /\ p % S < S - 1 => (p + 1) \div S = p \div S /\ (p + 1) % S = (p % S) + 1
           /\ p % S = S - 1 => (p + 1) \div S = (p \div S) + 1 /\ (p + 1) % S = 0
<1> DEFINE q == p \div S
           r == p % S
<1>1. q \in Nat /\ r \in 0 .. S - 1 /\ p = q * S + r
  BY DivModOf
<1> HIDE DEF q, r
<1>2. CASE r < S - 1
  <2>1. p + 1 = q * S + (r + 1)
    BY <1>1
  <2>2. (p + 1) \div S = q /\ (p + 1) % S = r + 1
    BY <2>1, <1>1, <1>2, DivMod
  <2> QED BY <2>2, <1>2, <1>1 DEF q, r
<1>3. CASE r = S - 1
  <2>1. p + 1 = (q + 1) * S + 0
    BY <1>1, <1>3
  <2>2. (p + 1) \div S = q + 1 /\ (p + 1) % S = 0
    BY <2>1, <1>1, DivMod
  <2> QED BY <2>2, <1>3, <1>1 DEF q, r
<1> QED BY <1>1, <1>2, <1>3 DEF q, r

\* Halving a modulus joins two residues.
LEMMA ModHalf ==
    ASSUME NEW o \in Nat \ {0}, NEW l \in 0 .. o - 1, NEW x \in Nat
    PROVE  x % o = l <=> (x % (2 * o) = l \/ x % (2 * o) = l + o)
<1> DEFINE q == x \div (2 * o)
           r == x % (2 * o)
<1>0. 2 * o \in Nat \ {0}
  OBVIOUS
<1>1. q \in Nat /\ r \in 0 .. (2 * o) - 1 /\ x = q * (2 * o) + r
  BY <1>0, DivModOf
<1> HIDE DEF q, r
<1>2. CASE r < o
  <2>1. x = (2 * q) * o + r
    BY <1>1
  <2>2. x % o = r
    BY <2>1, <1>1, <1>2, DivMod
  <2> QED BY <2>2, <1>1, <1>2 DEF r
<1>3. CASE r >= o
  <2>1. x = ((2 * q) + 1) * o + (r - o)
    BY <1>1
  <2>2. x % o = r - o
    BY <2>1, <1>1, <1>3, DivMod
  <2> QED BY <2>2, <1>1, <1>3 DEF r
<1> QED BY <1>1, <1>2, <1>3

-----------------------------------------------------------------------------
(* Sums over finite sets, as MapThenSumSet computes them *)

Pick(s) == CHOOSE x \in s : TRUE

\* it is the recursive sum of g over the sets of D.
Sums(it, D, g) ==
    /\ it = [s \in D |-> it[s]]
    /\ \A s \in D : it[s] = IF s = {} THEN 0 ELSE g[Pick(s)] + it[s \ {Pick(s)}]

\* The recursion is well defined on the subsets of a finite set.
LEMMA SumsExist ==
    ASSUME NEW S, NEW g, IsFiniteSet(S)
    PROVE  \E it : Sums(it, SUBSET S, g)
<1> DEFINE D(n) == {s \in SUBSET S : Cardinality(s) <= n}
           M == {n \in Nat : \E it : Sums(it, D(n), g)}
<1>0. \A s \in SUBSET S : IsFiniteSet(s) /\ Cardinality(s) \in Nat
  BY FS_Subset, FS_CardinalityType
<1>1. 0 \in M
  <2>1. \A s \in D(0) : s = {}
    BY <1>0, FS_EmptySet
  <2>2. Sums([s \in D(0) |-> 0], D(0), g)
    BY <2>1 DEF Sums
  <2> QED BY <2>2
<1>2. ASSUME NEW n \in Nat, n \in M PROVE n + 1 \in M
  <2>1. PICK it : Sums(it, D(n), g)
    BY <1>2
  <2> DEFINE jt == [s \in D(n + 1) |-> IF s = {} THEN 0 ELSE g[Pick(s)] + it[s \ {Pick(s)}]]
  <2>2. ASSUME NEW s \in D(n + 1), s # {} PROVE s \ {Pick(s)} \in D(n)
    <3>1. Pick(s) \in s
      BY <2>2 DEF Pick
    <3>2. Cardinality(s \ {Pick(s)}) = Cardinality(s) - 1
      BY <3>1, <1>0, FS_RemoveElement
    <3> QED BY <3>2, <1>0
  <2>3. ASSUME NEW s \in D(n) PROVE jt[s] = it[s]
    <3>1. s \in D(n + 1)
      BY <1>0
    <3> QED BY <3>1, <2>1 DEF Sums
  <2>4. Sums(jt, D(n + 1), g)
    <3>1. jt = [s \in D(n + 1) |-> jt[s]]
      OBVIOUS
    <3>2. ASSUME NEW s \in D(n + 1)
          PROVE  jt[s] = IF s = {} THEN 0 ELSE g[Pick(s)] + jt[s \ {Pick(s)}]
      BY <2>2, <2>3
    <3> HIDE DEF jt, D
    <3> QED BY <3>1, <3>2 DEF Sums
  <2> HIDE DEF jt, D
  <2> QED BY <2>4
<1>3. M = Nat
  <2> HIDE DEF M
  <2> QED BY <1>1, <1>2, SetInduction DEF M
<1>4. Cardinality(S) \in M
  BY <1>3, FS_CardinalityType
<1>5. D(Cardinality(S)) = SUBSET S
  BY FS_Subset, FS_CardinalityType
<1> QED BY <1>4, <1>5

\* A sum of zeros and at most one 1 tells whether the 1 is there.
LEMMA SumOfUnit ==
    ASSUME NEW S, NEW g, IsFiniteSet(S), NEW it, Sums(it, SUBSET S, g),
           \A t \in S : g[t] \in {0, 1},
           \A t, u \in S : g[t] = 1 /\ g[u] = 1 => t = u
    PROVE  it[S] = IF \E t \in S : g[t] = 1 THEN 1 ELSE 0
<1> DEFINE Right(s) == it[s] = IF \E t \in s : g[t] = 1 THEN 1 ELSE 0
           M == {n \in Nat : \A s \in SUBSET S : Cardinality(s) = n => Right(s)}
<1>0. \A s \in SUBSET S : IsFiniteSet(s) /\ Cardinality(s) \in Nat
  BY FS_Subset, FS_CardinalityType
<1>1. 0 \in M
  <2> SUFFICES ASSUME NEW s \in SUBSET S, Cardinality(s) = 0 PROVE Right(s)
    OBVIOUS
  <2>1. s = {}
    BY <1>0, FS_EmptySet
  <2> QED BY <2>1 DEF Sums
<1>2. ASSUME NEW n \in Nat, n \in M PROVE n + 1 \in M
  <2> SUFFICES ASSUME NEW s \in SUBSET S, Cardinality(s) = n + 1 PROVE Right(s)
    OBVIOUS
  <2>0. s = {} => Cardinality(s) = 0
    BY FS_EmptySet, Zenon
  <2>1. s # {}
    BY <2>0
  <2> DEFINE x == Pick(s)
             rest == s \ {x}
  <2>2. x \in s
    BY <2>1 DEF Pick
  <2>3. rest \in SUBSET S /\ Cardinality(rest) = n
    <3>1. IsFiniteSet(s)
      BY <1>0
    <3>2. Cardinality(rest) = Cardinality(s) - 1
      BY <2>2, <3>1, FS_RemoveElement
    <3> QED BY <3>2
  <2>4. Right(rest)
    BY <2>3, <1>2
  <2>5. it[s] = g[x] + it[rest]
    BY <2>1 DEF Sums
  <2> HIDE DEF x
  <2> QED BY <2>2, <2>4, <2>5
<1>3. M = Nat
  <2> HIDE DEF M
  <2> QED BY <1>1, <1>2, SetInduction DEF M
<1> QED BY <1>3, FS_CardinalityType

\* A set with n + 1 elements loses one.
LEMMA OneLess ==
    ASSUME NEW s, IsFiniteSet(s), NEW n \in Nat, Cardinality(s) = n + 1
    PROVE  /\ s # {}
           /\ \A x \in s : IsFiniteSet(s \ {x}) /\ Cardinality(s \ {x}) = n
<1>1. s = {} => Cardinality(s) = 0
  BY FS_EmptySet, Zenon
<1>2. ASSUME NEW x \in s PROVE IsFiniteSet(s \ {x}) /\ Cardinality(s \ {x}) = n
  <2>1. Cardinality(s \ {x}) = Cardinality(s) - 1 /\ IsFiniteSet(s \ {x})
    BY FS_RemoveElement, Zenon
  <2> QED BY <2>1
<1> QED BY <1>1, <1>2

\* The sum of a function over a finite set.
SumOf(g, S) == MapThenSumSet(LAMBDA t : g[t], S)

\* What MapThenSumSet returns is such a recursive sum.
LEMMA SumOfIs ==
    ASSUME NEW S, NEW g, IsFiniteSet(S)
    PROVE  \E it : Sums(it, SUBSET S, g) /\ SumOf(g, S) = it[S]
<1> DEFINE R(k) == k = [s \in SUBSET S |-> IF s = {} THEN 0 ELSE g[Pick(s)] + k[s \ {Pick(s)}]]
<1>1. PICK jt : Sums(jt, SUBSET S, g)
  BY SumsExist
<1>2. R(jt)
  BY <1>1 DEF Sums
<1> DEFINE it == CHOOSE k : R(k)
<1>3. R(it)
  BY <1>2
<1>4. SumOf(g, S) = it[S]
  BY Zenon DEF SumOf, MapThenSumSet, MapThenFoldSet, Pick
<1> HIDE DEF it
<1>5. Sums(it, SUBSET S, g)
  BY <1>3 DEF Sums
<1> QED BY <1>4, <1>5

\* Two recursive sums of one function agree where both are defined.
Summing(it, S, g) == Sums(it, SUBSET S, g)

LEMMA SumsAgree ==
    ASSUME NEW S, NEW T, NEW g, NEW it, NEW jt, IsFiniteSet(T), T \in SUBSET S,
           Summing(it, S, g), Summing(jt, T, g)
    PROVE  it[T] = jt[T]
<1> USE DEF Summing
<1> DEFINE Right(s) == it[s] = jt[s]
           M == {n \in Nat : \A s \in SUBSET T : Cardinality(s) = n => Right(s)}
<1>0. \A s \in SUBSET T : IsFiniteSet(s) /\ Cardinality(s) \in Nat /\ s \in SUBSET S
  BY FS_Subset, FS_CardinalityType
<1>1. 0 \in M
  <2> SUFFICES ASSUME NEW s \in SUBSET T, Cardinality(s) = 0 PROVE Right(s)
    OBVIOUS
  <2>1. s = {}
    BY <1>0, FS_EmptySet
  <2> QED BY <2>1 DEF Sums
<1>2. ASSUME NEW n \in Nat, n \in M PROVE n + 1 \in M
  <2> SUFFICES ASSUME NEW s \in SUBSET T, Cardinality(s) = n + 1 PROVE Right(s)
    OBVIOUS
  <2>0. IsFiniteSet(s)
    BY <1>0
  <2>1. s # {} /\ \A y \in s : Cardinality(s \ {y}) = n
    BY <2>0, OneLess
  <2> DEFINE x == Pick(s)
             rest == s \ {x}
  <2>2. x \in s
    BY <2>1 DEF Pick
  <2>3. rest \in SUBSET T /\ Cardinality(rest) = n
    BY <2>1, <2>2
  <2>4. Right(rest)
    BY <2>3, <1>2
  <2>5. it[s] = g[x] + it[rest] /\ jt[s] = g[x] + jt[rest]
    BY <1>0, <2>1 DEF Sums
  <2> HIDE DEF x
  <2> QED BY <2>4, <2>5
<1>3. M = Nat
  <2> HIDE DEF M
  <2> QED BY <1>1, <1>2, SetInduction DEF M
<1> QED BY <1>3, FS_CardinalityType

\* The recursion, without the function that computes it.
LEMMA SumOfStep ==
    ASSUME NEW S, NEW g, IsFiniteSet(S)
    PROVE  /\ SumOf(g, {}) = 0
           /\ S # {} => /\ Pick(S) \in S
                        /\ SumOf(g, S) = g[Pick(S)] + SumOf(g, S \ {Pick(S)})
<1>1. SumOf(g, {}) = 0
  <2>1. PICK it : Sums(it, SUBSET {}, g) /\ SumOf(g, {}) = it[{}]
    BY FS_EmptySet, SumOfIs
  <2> QED BY <2>1 DEF Sums
<1>2. ASSUME S # {}
      PROVE  Pick(S) \in S /\ SumOf(g, S) = g[Pick(S)] + SumOf(g, S \ {Pick(S)})
  <2> DEFINE T == S \ {Pick(S)}
  <2>1. Pick(S) \in S
    BY <1>2 DEF Pick
  <2>2. PICK it : Sums(it, SUBSET S, g) /\ SumOf(g, S) = it[S]
    BY SumOfIs
  <2>3. IsFiniteSet(T) /\ T \subseteq S
    BY FS_Subset
  <2>4. PICK jt : Sums(jt, SUBSET T, g) /\ SumOf(g, T) = jt[T]
    BY <2>3, SumOfIs
  <2>5. it[T] = jt[T]
    <3> HIDE DEF T
    <3>1. Summing(it, S, g) /\ Summing(jt, T, g) /\ IsFiniteSet(T) /\ T \in SUBSET S
      BY <2>2, <2>3, <2>4 DEF Summing
    <3> QED BY <3>1, SumsAgree
  <2>6. it[S] = g[Pick(S)] + it[T]
    BY <1>2, <2>2 DEF Sums
  <2> QED BY <2>1, <2>2, <2>4, <2>5, <2>6
<1> QED BY <1>1, <1>2

LEMMA SumOfType ==
    ASSUME NEW S, NEW g, IsFiniteSet(S), \A t \in S : g[t] \in Int
    PROVE  SumOf(g, S) \in Int
<1> DEFINE M == {n \in Nat : \A s \in SUBSET S : Cardinality(s) = n => SumOf(g, s) \in Int}
<1>0. \A s \in SUBSET S : IsFiniteSet(s) /\ Cardinality(s) \in Nat
  BY FS_Subset, FS_CardinalityType
<1>1. 0 \in M
  BY <1>0, FS_EmptySet, SumOfStep
<1>2. ASSUME NEW n \in Nat, n \in M PROVE n + 1 \in M
  <2> SUFFICES ASSUME NEW s \in SUBSET S, Cardinality(s) = n + 1 PROVE SumOf(g, s) \in Int
    OBVIOUS
  <2>0. IsFiniteSet(s)
    BY <1>0
  <2>n. s # {} /\ \A y \in s : Cardinality(s \ {y}) = n
    BY <2>0, OneLess
  <2>1. Pick(s) \in s /\ SumOf(g, s) = g[Pick(s)] + SumOf(g, s \ {Pick(s)})
    BY <2>0, <2>n, SumOfStep, Zenon
  <2>2. s \ {Pick(s)} \in SUBSET S /\ Cardinality(s \ {Pick(s)}) = n
    BY <2>n, <2>1
  <2> QED BY <1>2, <2>1, <2>2
<1>3. M = Nat
  <2> HIDE DEF M
  <2> QED BY <1>1, <1>2, SetInduction DEF M
<1> QED BY <1>3, FS_CardinalityType

\* A sum does not depend on the order in which the recursion takes the elements.
LEMMA SumOfRemove ==
    ASSUME NEW S, NEW g, IsFiniteSet(S), \A t \in S : g[t] \in Int, NEW e \in S
    PROVE  SumOf(g, S) = g[e] + SumOf(g, S \ {e})
<1> DEFINE Right(s) == \A x \in s : SumOf(g, s) = g[x] + SumOf(g, s \ {x})
           M == {n \in Nat : \A s \in SUBSET S : Cardinality(s) = n => Right(s)}
<1>0. \A s \in SUBSET S : IsFiniteSet(s) /\ Cardinality(s) \in Nat /\ SumOf(g, s) \in Int
  BY FS_Subset, FS_CardinalityType, SumOfType
<1>1. 0 \in M
  BY <1>0, FS_EmptySet
<1>2. ASSUME NEW n \in Nat, n \in M PROVE n + 1 \in M
  <2> SUFFICES ASSUME NEW s \in SUBSET S, Cardinality(s) = n + 1, NEW x \in s
               PROVE  SumOf(g, s) = g[x] + SumOf(g, s \ {x})
    OBVIOUS
  <2>0. IsFiniteSet(s)
    BY <1>0
  <2>n. \A z \in s : Cardinality(s \ {z}) = n
    BY <2>0, OneLess
  <2> DEFINE y == Pick(s)
  <2>1. y \in s /\ SumOf(g, s) = g[y] + SumOf(g, s \ {y})
    <3>1. s # {}
      OBVIOUS
    <3> QED BY <2>0, <3>1, SumOfStep, Zenon
  <2> HIDE DEF y
  <2>2. CASE x = y
    BY <2>1, <2>2
  <2>3. CASE x # y
    <3> DEFINE sx == s \ {x}
               sy == s \ {y}
               sxy == s \ {x, y}
    <3>1. sx \in SUBSET S /\ Cardinality(sx) = n /\ y \in sx /\ sx \ {y} = sxy
      BY <2>n, <2>1, <2>3
    <3>2. sy \in SUBSET S /\ Cardinality(sy) = n /\ x \in sy /\ sy \ {x} = sxy
      BY <2>n, <2>1, <2>3
    <3>3. SumOf(g, sx) = g[y] + SumOf(g, sxy)
      <4>1. Right(sx)
        BY <1>2, <3>1
      <4> QED BY <3>1, <4>1
    <3>4. SumOf(g, sy) = g[x] + SumOf(g, sxy)
      <4>1. Right(sy)
        BY <1>2, <3>2
      <4> QED BY <3>2, <4>1
    <3>5. g[x] \in Int /\ g[y] \in Int /\ SumOf(g, sxy) \in Int
      BY <1>0, <2>1
    <3> HIDE DEF sx, sy, sxy
    <3>6. SumOf(g, s) = g[y] + SumOf(g, sy)
      BY <2>1 DEF sy
    <3>7. SumOf(g, s) = g[x] + SumOf(g, sx)
      BY <3>3, <3>4, <3>5, <3>6
    <3> QED BY <3>7 DEF sx
  <2> QED BY <2>2, <2>3
<1>3. M = Nat
  <2> HIDE DEF M
  <2> QED BY <1>1, <1>2, SetInduction DEF M
<1> QED BY <1>3, FS_CardinalityType

\* The sum over two disjoint sets is the sum of their sums.
LEMMA SumOfUnion ==
    ASSUME NEW S, NEW T, NEW g, IsFiniteSet(S), IsFiniteSet(T), S \cap T = {},
           \A t \in S \cup T : g[t] \in Int
    PROVE  SumOf(g, S \cup T) = SumOf(g, S) + SumOf(g, T)
<1> DEFINE Right(s) == SumOf(g, s \cup T) = SumOf(g, s) + SumOf(g, T)
           M == {n \in Nat : \A s \in SUBSET S : Cardinality(s) = n => Right(s)}
<1>0. \A s \in SUBSET S : /\ IsFiniteSet(s) /\ Cardinality(s) \in Nat /\ SumOf(g, s) \in Int
                          /\ IsFiniteSet(s \cup T) /\ SumOf(g, s \cup T) \in Int
  <2> TAKE s \in SUBSET S
  <2>1. IsFiniteSet(s) /\ Cardinality(s) \in Nat
    BY FS_Subset, FS_CardinalityType
  <2>2. IsFiniteSet(s \cup T)
    BY <2>1, FS_Union
  <2> QED BY <2>1, <2>2, SumOfType
<1>t. SumOf(g, T) \in Int
  BY SumOfType
<1>1. 0 \in M
  <2> SUFFICES ASSUME NEW s \in SUBSET S, Cardinality(s) = 0 PROVE Right(s)
    OBVIOUS
  <2>1. s = {} /\ s \cup T = T
    BY <1>0, FS_EmptySet
  <2>2. SumOf(g, s) = 0
    BY <2>1, FS_EmptySet, SumOfStep
  <2> QED BY <1>t, <2>1, <2>2
<1>2. ASSUME NEW n \in Nat, n \in M PROVE n + 1 \in M
  <2> SUFFICES ASSUME NEW s \in SUBSET S, Cardinality(s) = n + 1 PROVE Right(s)
    OBVIOUS
  <2>0. IsFiniteSet(s)
    BY <1>0
  <2>n. s # {} /\ \A z \in s : Cardinality(s \ {z}) = n
    BY <2>0, OneLess
  <2>1. PICK x : x \in s
    BY <2>n
  <2> DEFINE rest == s \ {x}
  <2>2. rest \in SUBSET S /\ Cardinality(rest) = n
    BY <2>n, <2>1
  <2>3. (s \cup T) \ {x} = rest \cup T
    BY <2>1
  <2>4. SumOf(g, s) = g[x] + SumOf(g, rest)
    BY <1>0, <2>1, SumOfRemove
  <2>5. SumOf(g, s \cup T) = g[x] + SumOf(g, rest \cup T)
    <3>1. \A t \in s \cup T : g[t] \in Int
      OBVIOUS
    <3>2. SumOf(g, s \cup T) = g[x] + SumOf(g, (s \cup T) \ {x})
      BY <1>0, <2>1, <3>1, SumOfRemove
    <3> QED BY <2>3, <3>2
  <2>6. Right(rest)
    BY <1>2, <2>2
  <2>7. g[x] \in Int /\ SumOf(g, rest) \in Int
    BY <1>0, <2>1, <2>2
  <2> QED BY <1>t, <2>4, <2>5, <2>6, <2>7
<1>3. M = Nat
  <2> HIDE DEF M
  <2> QED BY <1>1, <1>2, SetInduction DEF M
<1> QED BY <1>3, FS_CardinalityType

LEMMA SumOfZeros ==
    ASSUME NEW S, NEW g, IsFiniteSet(S), \A t \in S : g[t] = 0
    PROVE  SumOf(g, S) = 0
<1> DEFINE M == {n \in Nat : \A s \in SUBSET S : Cardinality(s) = n => SumOf(g, s) = 0}
<1>0. \A s \in SUBSET S : IsFiniteSet(s) /\ Cardinality(s) \in Nat
  BY FS_Subset, FS_CardinalityType
<1>1. 0 \in M
  BY <1>0, FS_EmptySet, SumOfStep
<1>2. ASSUME NEW n \in Nat, n \in M PROVE n + 1 \in M
  <2> SUFFICES ASSUME NEW s \in SUBSET S, Cardinality(s) = n + 1 PROVE SumOf(g, s) = 0
    OBVIOUS
  <2>0. IsFiniteSet(s)
    BY <1>0
  <2>n. s # {} /\ \A y \in s : Cardinality(s \ {y}) = n
    BY <2>0, OneLess
  <2>1. Pick(s) \in s /\ SumOf(g, s) = g[Pick(s)] + SumOf(g, s \ {Pick(s)})
    BY <2>0, <2>n, SumOfStep, Zenon
  <2>2. s \ {Pick(s)} \in SUBSET S /\ Cardinality(s \ {Pick(s)}) = n
    BY <2>n, <2>1
  <2> QED BY <1>2, <2>1, <2>2
<1>3. M = Nat
  <2> HIDE DEF M
  <2> QED BY <1>1, <1>2, SetInduction DEF M
<1> QED BY <1>3, FS_CardinalityType

Image(e, S) == {e[t] : t \in S}

\* The image of a finite set.
LEMMA ImageFinite == ASSUME NEW S, NEW e, IsFiniteSet(S) PROVE IsFiniteSet(Image(e, S))
<1> DEFINE f == [t \in S |-> e[t]]
<1>1. f \in Surjection(S, Image(e, S))
  BY DEF Surjection, Image
<1> HIDE DEF f
<1> QED BY <1>1, FS_Surjection

\* A sum over renamed elements.
LEMMA SumOfImage ==
    ASSUME NEW S, NEW e, NEW f, NEW g, IsFiniteSet(S), \A t \in S : f[t] \in Int /\ g[e[t]] = f[t],
           \A t, u \in S : e[t] = e[u] => t = u
    PROVE  SumOf(f, S) = SumOf(g, Image(e, S))
<1> DEFINE Right(s) == SumOf(f, s) = SumOf(g, Image(e, s))
           M == {n \in Nat : \A s \in SUBSET S : Cardinality(s) = n => Right(s)}
<1>0. \A s \in SUBSET S : IsFiniteSet(s) /\ Cardinality(s) \in Nat
  BY FS_Subset, FS_CardinalityType
<1>1. 0 \in M
  <2> SUFFICES ASSUME NEW s \in SUBSET S, Cardinality(s) = 0 PROVE Right(s)
    OBVIOUS
  <2>1. s = {}
    BY <1>0, FS_EmptySet
  <2>2. Image(e, s) = {}
    BY <2>1 DEF Image
  <2> QED BY <2>1, <2>2, FS_EmptySet, SumOfStep
<1>2. ASSUME NEW n \in Nat, n \in M PROVE n + 1 \in M
  <2> SUFFICES ASSUME NEW s \in SUBSET S, Cardinality(s) = n + 1 PROVE Right(s)
    OBVIOUS
  <2>0. IsFiniteSet(s)
    BY <1>0
  <2>n. s # {} /\ \A z \in s : Cardinality(s \ {z}) = n
    BY <2>0, OneLess
  <2>1. PICK x : x \in s
    BY <2>n
  <2> DEFINE rest == s \ {x}
  <2>2. rest \in SUBSET S /\ Cardinality(rest) = n
    BY <2>n, <2>1
  <2>3. Image(e, s) \ {e[x]} = Image(e, rest) /\ e[x] \in Image(e, s)
    BY <2>1 DEF Image
  <2>4. SumOf(f, s) = f[x] + SumOf(f, rest)
    <3>1. \A t \in s : f[t] \in Int
      OBVIOUS
    <3> QED BY <2>0, <2>1, <3>1, SumOfRemove
  <2>5. SumOf(g, Image(e, s)) = g[e[x]] + SumOf(g, Image(e, rest))
    <3>1. IsFiniteSet(Image(e, s))
      BY <2>0, ImageFinite
    <3>2. \A t \in Image(e, s) : g[t] \in Int
      BY DEF Image
    <3>3. SumOf(g, Image(e, s)) = g[e[x]] + SumOf(g, Image(e, s) \ {e[x]})
      BY <2>3, <3>1, <3>2, SumOfRemove
    <3> QED BY <2>3, <3>3
  <2>6. Right(rest)
    BY <1>2, <2>2
  <2>7. g[e[x]] = f[x]
    BY <2>1
  <2> QED BY <2>4, <2>5, <2>6, <2>7
<1>3. M = Nat
  <2> HIDE DEF M
  <2> QED BY <1>1, <1>2, SetInduction DEF M
<1> QED BY <1>3, FS_CardinalityType

=============================================================================
