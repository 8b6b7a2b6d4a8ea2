--------------------------- MODULE MlxPinnedProofs ---------------------------
(***************************************************************************)
(* Proofs about what a session keeps beside the cached columns, for every  *)
(* number of columns and rows and any sequence of queries, pins, inserts   *)
(* and clears in serial use (one session, one scan thread, no updates).    *)
(***************************************************************************)
EXTENDS MlxPinned, MlxColumnCacheProofs, FunctionTheorems

-----------------------------------------------------------------------------
(* Dictionaries *)

\* A dictionary has a code for every string of the rows.
Names(d, rows) == \A p \in DOMAIN rows : \E code \in DOMAIN d : d[code] = StringOf[rows[p]]

\* The codes are those of the rows under a dictionary.
Decodes(codes, d, rows) ==
    /\ codes \in Seq(Nat) /\ Len(codes) = Len(rows)
    /\ \A p \in 1 .. Len(rows) : codes[p] \in DOMAIN d /\ d[codes[p]] = StringOf[rows[p]]

\* Whatever order the threads meet the strings in, each of them gets a code.
LEMMA EncodesAll ==
    ASSUME NEW segments \in Seq(Seq(Nat)), NEW d \in Encodings(segments)
    PROVE  /\ DOMAIN d \subseteq Nat
           /\ \A t \in DOMAIN segments : Names(d, segments[t])
<1> DEFINE stringsOf(t) == [i \in DOMAIN segments[t] |-> StringOf[segments[t][i]]]
           all == UNION {Range(stringsOf(t)) : t \in DOMAIN segments}
           n == Cardinality(all)
<1>1. d \in Injection(1 .. n, all)
  BY Zenon DEF Encodings
<1>2. IsFiniteSet(all)
  <2> DEFINE ranges == [t \in DOMAIN segments |-> Range(stringsOf(t))]
             S == {ranges[t] : t \in DOMAIN segments}
  <2>1. IsFiniteSet(DOMAIN segments)
    <3>1. DOMAIN segments = 1 .. Len(segments) /\ Len(segments) \in Nat
      BY LenProperties
    <3> QED BY <3>1, FS_Interval
  <2>2. ASSUME NEW t \in DOMAIN segments PROVE IsFiniteSet(Range(stringsOf(t)))
    <3> DEFINE f == stringsOf(t)
    <3>1. segments[t] \in Seq(Nat)
      OBVIOUS
    <3>2. DOMAIN segments[t] = 1 .. Len(segments[t]) /\ Len(segments[t]) \in Nat
      BY <3>1, LenProperties
    <3>3. IsFiniteSet(DOMAIN segments[t]) /\ DOMAIN f = DOMAIN segments[t]
      BY <3>2, FS_Interval
    <3> HIDE DEF f
    <3>4. IsFiniteSet(Image(f, DOMAIN f))
      BY <3>3, ImageFinite
    <3>5. IsFiniteSet(Range(f))
      BY <3>4 DEF Image, Range
    <3> QED BY <3>5 DEF f
  <2>3. IsFiniteSet(Image(ranges, DOMAIN segments))
    <3> HIDE DEF ranges
    <3> QED BY <2>1, ImageFinite
  <2>4. all = UNION Image(ranges, DOMAIN segments)
    BY DEF Image
  <2>5. \A T \in Image(ranges, DOMAIN segments) : IsFiniteSet(T)
    BY <2>2 DEF Image
  <2> HIDE DEF all, ranges
  <2> QED BY <2>3, <2>4, <2>5, FS_UNION
<1>3. n \in Nat /\ Cardinality(1 .. n) = n
  <2>1. n \in Nat
    BY <1>2, FS_CardinalityType
  <2> HIDE DEF n
  <2>0. n \in Int /\ 1 \in Int
    BY <2>1
  <2>2. Cardinality(1 .. n) = IF 1 > n THEN 0 ELSE n - 1 + 1
    BY <2>0, FS_Interval, Zenon
  <2> QED BY <2>1, <2>2
<1>4. d \in Surjection(1 .. n, all)
  <2> HIDE DEF all
  <2> QED BY <1>1, <1>2, <1>3, FS_Injection
<1>5. DOMAIN d = 1 .. n /\ \A x \in all : \E code \in 1 .. n : d[code] = x
  <2> HIDE DEF all, n
  <2> QED BY <1>4 DEF Surjection
<1>6. ASSUME NEW t \in DOMAIN segments, NEW p \in DOMAIN segments[t]
      PROVE  \E code \in DOMAIN d : d[code] = StringOf[segments[t][p]]
  <2>1. StringOf[segments[t][p]] \in Range(stringsOf(t))
    BY DEF Range
  <2>2. StringOf[segments[t][p]] \in all
    BY <2>1
  <2> QED BY <1>5, <2>2
<1>7. DOMAIN d \subseteq Nat
  <2> HIDE DEF n
  <2> QED BY <1>3, <1>5
<1> HIDE DEF all, n, stringsOf
<1> QED BY <1>6, <1>7 DEF Names

\* The codes of rows whose strings the dictionary has.
LEMMA EncodedDecodes ==
    ASSUME NEW rows \in Seq(Nat), NEW d, DOMAIN d \subseteq Nat, Names(d, rows)
    PROVE  Decodes(Encoded(rows, d), d, rows)
<1> DEFINE e == Encoded(rows, d)
           n == Len(rows)
<1>1. n \in Nat /\ DOMAIN rows = 1 .. n
  BY LenProperties
<1>2. e = [i \in 1 .. n |-> CHOOSE code \in DOMAIN d : d[code] = StringOf[rows[i]]]
  BY <1>1 DEF Encoded
<1>3. ASSUME NEW i \in 1 .. n PROVE e[i] \in DOMAIN d /\ d[e[i]] = StringOf[rows[i]]
  <2>1. \E code \in DOMAIN d : d[code] = StringOf[rows[i]]
    BY <1>1 DEF Names
  <2>2. e[i] = CHOOSE code \in DOMAIN d : d[code] = StringOf[rows[i]]
    BY <1>2
  <2> QED BY <2>1, <2>2, Zenon
<1> HIDE DEF e
<1>4. e \in [1 .. n -> Nat]
  <2>1. DOMAIN e = 1 .. n
    BY <1>2
  <2>2. \A i \in 1 .. n : e[i] \in Nat
    BY <1>3
  <2>3. e = [i \in 1 .. n |-> e[i]]
    BY <1>2, <2>1
  <2> QED BY <2>2, <2>3
<1>5. e \in Seq(Nat) /\ Len(e) = n
  BY <1>1, <1>4
<1> QED BY <1>3, <1>5 DEF Decodes, e

\* Rows appended under the same dictionary.
LEMMA DecodesMore ==
    ASSUME NEW d, NEW a, NEW b, NEW rows \in Seq(Nat), NEW more \in Seq(Nat),
           Decodes(a, d, rows), Decodes(b, d, more)
    PROVE  Decodes(a \o b, d, rows \o more)
<1>1. /\ a \in Seq(Nat) /\ b \in Seq(Nat) /\ Len(a) = Len(rows) /\ Len(b) = Len(more)
      /\ \A p \in 1 .. Len(rows) : a[p] \in DOMAIN d /\ d[a[p]] = StringOf[rows[p]]
      /\ \A p \in 1 .. Len(more) : b[p] \in DOMAIN d /\ d[b[p]] = StringOf[more[p]]
  BY DEF Decodes
<1> DEFINE m == Len(rows)
           n == Len(more)
           ab == a \o b
           both == rows \o more
<1>2. /\ m \in Nat /\ n \in Nat
      /\ ab \in Seq(Nat) /\ Len(ab) = m + n /\ \A i \in 1 .. m + n : ab[i] = IF i <= m THEN a[i] ELSE b[i - m]
      /\ both \in Seq(Nat) /\ Len(both) = m + n /\ \A i \in 1 .. m + n : both[i] = IF i <= m THEN rows[i] ELSE more[i - m]
  <2>1. m \in Nat /\ n \in Nat /\ Len(a) = m /\ Len(b) = n
    BY <1>1, LenProperties
  <2>2. ab \in Seq(Nat) /\ Len(ab) = m + n /\ \A i \in 1 .. m + n : ab[i] = IF i <= m THEN a[i] ELSE b[i - m]
    <3>1. a \in Seq(Nat) /\ b \in Seq(Nat)
      BY <1>1
    <3>2. /\ ab \in Seq(Nat) /\ Len(ab) = Len(a) + Len(b)
          /\ \A i \in 1 .. Len(a) + Len(b) : ab[i] = IF i <= Len(a) THEN a[i] ELSE b[i - Len(a)]
      BY <3>1, ConcatProperties
    <3> HIDE DEF ab, m, n
    <3> QED BY <2>1, <3>2
  <2>3. both \in Seq(Nat) /\ Len(both) = m + n /\ \A i \in 1 .. m + n : both[i] = IF i <= m THEN rows[i] ELSE more[i - m]
    BY <2>1, ConcatProperties
  <2> QED BY <2>1, <2>2, <2>3
<1> HIDE DEF m, n, ab, both
<1>3. ASSUME NEW p \in 1 .. m + n PROVE ab[p] \in DOMAIN d /\ d[ab[p]] = StringOf[both[p]]
  <2>1. CASE p <= m
    <3>1. p \in 1 .. m /\ ab[p] = a[p] /\ both[p] = rows[p]
      BY <1>2, <2>1
    <3> QED BY <1>1, <3>1 DEF m
  <2>2. CASE p > m
    <3> DEFINE q == p - m
    <3>1. q \in 1 .. n /\ ab[p] = b[q] /\ both[p] = more[q]
      BY <1>2, <2>2
    <3> HIDE DEF q
    <3> QED BY <1>1, <3>1 DEF n
  <2> QED BY <1>2, <2>1, <2>2
<1>4. Decodes(ab, d, both)
  BY <1>2, <1>3 DEF Decodes
<1> QED BY <1>4 DEF ab, both

LEMMA DecodesNone == ASSUME NEW d PROVE Decodes(<<>>, d, <<>>)
BY DEF Decodes

\* A dictionary that decodes something is not empty.
LEMMA DecodesSome ==
    ASSUME NEW codes, NEW d, NEW rows \in Seq(Nat), rows # <<>>, Decodes(codes, d, rows)
    PROVE  d # <<>> /\ codes # <<>>
<1>1. Len(rows) \in Nat /\ Len(rows) # 0
  BY EmptySeq
<1>2. 1 \in 1 .. Len(rows)
  BY <1>1
<1>3. codes[1] \in DOMAIN d /\ Len(codes) # 0
  BY <1>1, <1>2 DEF Decodes
<1> QED BY <1>3

-----------------------------------------------------------------------------
(* The inductive invariant *)

\* The column cache is as in serial use; of an answer that is ready nothing is said
\* here, since a derived column may have failed it and the dense table may have given it.
CacheOK ==
    /\ Serial /\ CacheInv /\ TableOK /\ ColumnsOK
    /\ \A s \in Session : StepOK(s) /\ (pc[s] # "done" => AnswerOK(s))

Stages == {"none", "read", "disc_price", "charge", "bundle", "install"}

DenseTable(d) == d = [population |-> d.population, ready |-> d.ready, cells |-> d.cells]

PinnedTypeOK ==
    /\ dense.cells \in Seq(Nat)
    /\ DenseTable(dense)
    /\ pending \in [Session -> Seq(Nat)]
    /\ DOMAIN seen = Session /\ DOMAIN summand = Session
    /\ stage \in [Session -> Stages]
    /\ DOMAIN strings = Session /\ DOMAIN emitted = Session
    /\ \A s \in Session : DOMAIN strings[s] \subseteq Nat
    /\ DOMAIN dict.strings \subseteq Nat
    /\ derived = [disc_price |-> derived.disc_price, charge |-> derived.charge]

\* What a session does between the steps of the column cache.
StageOK(s) ==
    /\ pc[s] = "exec" => query[s].cached
    /\ pc[s] \in {"scan", "begin", "store", "eval"} => ~query[s].cached
    /\ pc[s] = "fuse" /\ query[s].cached => query[s].kind = "pin"
    /\ pc[s] # "idle" /\ query[s].kind = "sum" => StringCol \notin query[s].cols
    /\ seen[s] # 0 => pc[s] \in {"exec", "done"} /\ StringCol \notin query[s].cols
    /\ stage[s] = "read" => pc[s] = "exec" /\ StringCol \in query[s].cols /\ strings[s] = dict.strings
    /\ stage[s] \in {"disc_price", "charge", "bundle"} => pc[s] = "done" /\ query[s].kind = "pin"
    /\ stage[s] = "install" => pc[s] = "done" /\ ~query[s].cached /\ StringCol \in query[s].cols
    /\ pc[s] \in {"begin", "store"} /\ StringCol \in query[s].cols =>
            \A t \in DOMAIN segs[s] : Names(strings[s], segs[s][t])

\* From the population of StringCol to the installation of its dictionary, the codes in
\* the cache are those of the session's own scan.
OwnDict(s) ==
    /\ ~query[s].cached /\ StringCol \in query[s].cols
    /\ pc[s] \in {"store", "fuse"} \/ stage[s] \in {"disc_price", "charge", "bundle", "install"}

KeysOK(s) ==
    /\ Decodes(coded, IF OwnDict(s) THEN strings[s] ELSE dict.strings, store[StringCol].cells)
    /\ Resident(StringCol) =>
            store[StringCol].population = IF OwnDict(s) THEN plan[s].population ELSE dict.population

\* Every column is cached and fused.
Whole ==
    \A c \in Col : /\ Resident(c) /\ store[c].fused = store[c].cells
                   /\ store[c].rows = store[GroupCol].rows

\* What a pin has derived stays with the columns it was derived from: a population that
\* touches one of them drops the table first.
DerivedOK(s) ==
    /\ derived.disc_price # <<>> =>
            /\ Whole /\ derived.disc_price = DiscPrice
            /\ pc[s] # "store" /\ (pc[s] = "fuse" => query[s].cached)
    /\ derived.charge # <<>> => derived.disc_price # <<>> /\ derived.charge = Charge
    /\ bundle # NoBundle =>
            /\ derived.charge # <<>> /\ bundle.derived = derived
            /\ bundle.codes = coded /\ bundle.cols = [c \in Col |-> store[c].fused]
    /\ stage[s] \in {"disc_price", "charge", "bundle"} => Whole
    /\ stage[s] \in {"charge", "bundle"} => derived.disc_price # <<>>
    /\ stage[s] = "bundle" => derived.charge # <<>>

EmittedOK(s) == \A key \in emitted[s] : key[1] = StringOf[key[2]]

PinnedInv ==
    /\ CacheOK /\ PinnedTypeOK
    /\ \A s \in Session : StageOK(s) /\ KeysOK(s) /\ DerivedOK(s) /\ EmittedOK(s)

\* The types the steps use.
LEMMA PinnedKnown ==
    ASSUME PinnedInv, NEW s \in Session
    PROVE  /\ \A t \in Session : t = s
           /\ Serial /\ CacheInv /\ TypeOK /\ TableOK /\ ColumnsOK /\ StepOK(s)
           /\ pc[s] # "done" => SerialInv
           /\ PinnedTypeOK /\ StageOK(s) /\ KeysOK(s) /\ DerivedOK(s) /\ EmittedOK(s)
           /\ query[s] \in Query /\ query[s].cols \in SUBSET Col /\ segs[s] \in Seq(Seq(Nat))
           /\ table \in Seq(Nat) /\ Len(table) \in Nat /\ DOMAIN table = 1 .. Len(table)
           /\ DOMAIN pc = Session /\ DOMAIN query = Session /\ DOMAIN segs = Session
           /\ DOMAIN todo = Session /\ DOMAIN plan = Session /\ DOMAIN answer = Session
           /\ \A c \in Col : /\ store[c] \in CachedColumn /\ store[c].cells \in Seq(Nat)
                             /\ store[c].rows = Len(store[c].cells)
                             /\ store[c].fused # <<>> => store[c].fused = store[c].cells
           /\ StringCol \in Col /\ GroupCol \in Col /\ ValueCol \in Col /\ TaxCol \in Col
<1>1. /\ Serial /\ CacheInv /\ TypeOK /\ TableOK /\ ColumnsOK /\ StepOK(s)
      /\ PinnedTypeOK /\ StageOK(s) /\ KeysOK(s) /\ DerivedOK(s) /\ EmittedOK(s)
  BY DEF PinnedInv, CacheOK, CacheInv
<1>2. \A t \in Session : t = s
  BY <1>1 DEF Serial
<1>3. pc[s] # "done" => SerialInv
  BY <1>2 DEF PinnedInv, CacheOK, SerialInv
<1>4. query[s] \in Query /\ query[s].cols \in SUBSET Col /\ segs[s] \in Seq(Seq(Nat))
  BY <1>1 DEF TypeOK, Query, Cell
<1>5. table \in Seq(Nat) /\ Len(table) \in Nat /\ DOMAIN table = 1 .. Len(table)
  BY <1>1 DEF TypeOK, Cell
<1>6. /\ DOMAIN pc = Session /\ DOMAIN query = Session /\ DOMAIN segs = Session
      /\ DOMAIN todo = Session /\ DOMAIN plan = Session /\ DOMAIN answer = Session
  BY <1>1 DEF TypeOK
<1>7. ASSUME NEW c \in Col
      PROVE  /\ store[c] \in CachedColumn /\ store[c].cells \in Seq(Nat) /\ store[c].rows = Len(store[c].cells)
             /\ store[c].fused # <<>> => store[c].fused = store[c].cells
  BY <1>1 DEF CacheInv, TypeOK, CachedColumn, Cell, ColumnWellFormed, FusedCurrent
<1>8. StringCol \in Col /\ GroupCol \in Col /\ ValueCol \in Col /\ TaxCol \in Col
  BY DenseAssumption, PinnedAssumption
<1> QED BY <1>1, <1>2, <1>3, <1>4, <1>5, <1>6, <1>7, <1>8

\* Only a session that serves or has served is between the steps of the column cache.
LEMMA Quiet ==
    ASSUME PinnedInv, NEW s \in Session, pc[s] \notin {"exec", "done"}
    PROVE  stage[s] = "none" /\ seen[s] = 0
<1>1. StageOK(s) /\ stage[s] \in Stages
  BY DEF PinnedInv, PinnedTypeOK, DenseTable
<1> QED BY <1>1 DEF StageOK, Stages

\* A step of the column cache keeps it as in serial use.
LEMMA CacheStep ==
    ASSUME PinnedInv, NEW s \in Session, pc[s] # "done", [Next]_vars
    PROVE  CacheOK' /\ SerialInv'
<1>1. SerialInv
  BY PinnedKnown
<1>2. SerialInv'
  BY <1>1, NextSerial
<1> QED BY <1>2 DEF SerialInv, CacheOK

\* So does the end of a request, whatever its answer was.
LEMMA ReturnStep ==
    ASSUME PinnedInv, NEW s \in Session, Return(s)
    PROVE  CacheOK'
<1>1. /\ pc'[s] = "idle" /\ segs'[s] = <<>> /\ UNCHANGED <<todo, store, table, written>>
  BY PinnedKnown DEF Return, cacheVars, tableVars
<1>2. TableOK' /\ ColumnsOK'
  BY <1>1, PinnedKnown DEF TableOK, ColumnsOK, Resident
<1>3. CacheInv' /\ Serial'
  <2>1. Next
    BY DEF Next
  <2> QED BY <2>1, PinnedKnown, NextCacheInv DEF Serial
<1>4. StepOK(s)' /\ AnswerOK(s)'
  BY <1>1 DEF StepOK, AnswerOK
<1> QED BY <1>2, <1>3, <1>4, PinnedKnown DEF CacheOK

\* Steps that leave the cache and the sessions' requests alone.
LEMMA StutterStep ==
    ASSUME PinnedInv, UNCHANGED vars
    PROVE  CacheOK'
<1>1. CacheInv' /\ Serial'
  BY NextCacheInv DEF PinnedInv, CacheOK, Serial
<1>2. TableOK' /\ ColumnsOK'
  BY DEF PinnedInv, CacheOK, vars, TableOK, ColumnsOK, Resident
<1>3. ASSUME NEW s \in Session PROVE StepOK(s)' /\ (pc[s] # "done" => AnswerOK(s))'
  <2>1. StepOK(s) /\ (pc[s] # "done" => AnswerOK(s))
    BY DEF PinnedInv, CacheOK
  <2>2. Correct(s)' <=> Correct(s)
    BY CorrectIs DEF vars
  <2>3. MlxCacheHas(query[s].cols, Len(table))' <=> MlxCacheHas(query[s].cols, Len(table))
    BY HasKept DEF vars
  <2>4. (Buffered(s)' <=> Buffered(s)) /\ (Stored(s)' <=> Stored(s)) /\ (Storing(s)' <=> Storing(s))
    BY DEF vars, Buffered, Stored, Storing, Prefix, Resident
  <2>5. StepOK(s)'
    BY <2>1, <2>3, <2>4 DEF vars, StepOK
  <2> QED BY <2>1, <2>2, <2>5 DEF vars, AnswerOK
<1> QED BY <1>1, <1>2, <1>3 DEF CacheOK

-----------------------------------------------------------------------------
(* What a step leaves alone *)

LEMMA Together ==
    ASSUME PinnedInv, NEW s \in Session, CacheOK', PinnedTypeOK',
           StageOK(s)', KeysOK(s)', DerivedOK(s)', EmittedOK(s)'
    PROVE  PinnedInv'
<1>1. \A t \in Session : t = s
  BY PinnedKnown
<1> QED BY <1>1 DEF PinnedInv

LEMMA KeysKept ==
    ASSUME NEW s, KeysOK(s), coded' = coded, dict' = dict,
           store'[StringCol].cells = store[StringCol].cells,
           store'[StringCol].population = store[StringCol].population,
           OwnDict(s)' <=> OwnDict(s),
           OwnDict(s) => strings'[s] = strings[s] /\ plan'[s] = plan[s]
    PROVE  KeysOK(s)'
<1>1. Resident(StringCol)' <=> Resident(StringCol)
  BY DEF Resident
<1>2. \A d, rows : Decodes(coded, d, rows)' <=> Decodes(coded, d, rows)
  BY DEF Decodes
<1>3. CASE OwnDict(s)
  <2>1. Decodes(coded, strings[s], store[StringCol].cells) /\ (Resident(StringCol) => store[StringCol].population = plan[s].population)
    BY <1>3 DEF KeysOK
  <2>2. Decodes(coded', strings'[s], store'[StringCol].cells)
    BY <1>3, <2>1
  <2> QED BY <1>1, <1>3, <2>1, <2>2 DEF KeysOK, Decodes
<1>4. CASE ~OwnDict(s)
  <2>1. Decodes(coded, dict.strings, store[StringCol].cells) /\ (Resident(StringCol) => store[StringCol].population = dict.population)
    BY <1>4 DEF KeysOK
  <2>2. Decodes(coded', dict'.strings, store'[StringCol].cells)
    BY <2>1
  <2> QED BY <1>1, <1>4, <2>1, <2>2 DEF KeysOK, Decodes
<1> QED BY <1>3, <1>4

LEMMA DerivedSame ==
    ASSUME UNCHANGED <<store, derived>>
    PROVE  (Whole' <=> Whole) /\ DiscPrice' = DiscPrice /\ Charge' = Charge
BY DEF Whole, Resident, DiscPrice, Charge

LEMMA DerivedKept ==
    ASSUME NEW s, DerivedOK(s), UNCHANGED <<store, derived, bundle, coded>>,
           stage'[s] = stage[s] \/ stage'[s] \in {"none", "read", "install"},
           derived.disc_price # <<>> => pc'[s] # "store" /\ (pc'[s] = "fuse" => query'[s].cached)
    PROVE  DerivedOK(s)'
BY DerivedSame DEF DerivedOK

LEMMA EmittedKept == ASSUME NEW s, EmittedOK(s), emitted'[s] = emitted[s] PROVE EmittedOK(s)'
BY DEF EmittedOK

\* A step of a session that is idle, scanning, reading or evaluating needs no more of what is
\* kept beside the columns than that it stays.
LEMMA ElsewhereKept ==
    ASSUME PinnedInv, NEW s \in Session, CacheOK', PinnedTypeOK',
           UNCHANGED <<store, coded, dict, derived, bundle, stage, emitted, strings, query>>,
           stage[s] = "none" \/ pc'[s] = pc[s],
           pc[s] \in {"idle", "exec", "scan", "eval", "done"},
           pc'[s] \in {"idle", "exec", "scan", "eval", "done"},
           pc'[s] = "exec" => query[s].cached,
           pc'[s] \in {"scan", "eval"} => ~query[s].cached,
           pc'[s] # "idle" => pc[s] # "idle",
           seen'[s] # 0 => pc'[s] \in {"exec", "done"} /\ StringCol \notin query[s].cols,
           plan'[s] = plan[s]
    PROVE  PinnedInv'
<1>1. /\ PinnedTypeOK /\ StageOK(s) /\ KeysOK(s) /\ DerivedOK(s) /\ EmittedOK(s)
  BY PinnedKnown
<1>2. StageOK(s)'
  BY <1>1 DEF StageOK
<1>3. OwnDict(s)' <=> OwnDict(s)
  BY DEF OwnDict
<1>4. KeysOK(s)'
  BY <1>1, <1>3, KeysKept
<1>5. DerivedOK(s)'
  BY <1>1, DerivedKept
<1>6. EmittedOK(s)'
  BY <1>1, EmittedKept
<1> QED BY <1>2, <1>4, <1>5, <1>6, Together

-----------------------------------------------------------------------------
(* The steps after a population *)

LEMMA ReplaceDerived ==
    ASSUME NEW d, NEW a, NEW b, NEW x, d = [disc_price |-> a, charge |-> b]
    PROVE  /\ [d EXCEPT !.disc_price = x] = [disc_price |-> x, charge |-> b]
           /\ [d EXCEPT !.charge = x] = [disc_price |-> a, charge |-> x]
<1> DEFINE y == [d EXCEPT !.disc_price = x]
           z == [d EXCEPT !.charge = x]
<1>1. y = [d EXCEPT !.disc_price = x] /\ z = [d EXCEPT !.charge = x]
  OBVIOUS
<1> HIDE DEF y, z
<1>2. y = [disc_price |-> x, charge |-> b] /\ z = [disc_price |-> a, charge |-> x]
  BY <1>1
<1> QED BY <1>1, <1>2, Zenon

\* A pinned table has rows, and so have the columns derived from it.
LEMMA WholePrice ==
    ASSUME PinnedInv, Whole
    PROVE  1 \in DOMAIN DiscPrice /\ DiscPrice # <<>>
<1> DEFINE col == store[GroupCol]
<1>1. col.fused = col.cells /\ col.cells \in Seq(Nat) /\ col.cells # <<>>
  <2>1. GroupCol \in Col /\ TypeOK
    BY DenseAssumption DEF PinnedInv, CacheOK, CacheInv
  <2> QED BY <2>1 DEF Whole, Resident, TypeOK, CachedColumn, Cell
<1> HIDE DEF col
<1>2. 1 \in DOMAIN col.fused
  <2>1. Len(col.cells) \in Nat /\ Len(col.cells) # 0 /\ DOMAIN col.cells = 1 .. Len(col.cells)
    BY <1>1, EmptySeq, LenProperties
  <2> QED BY <1>1, <2>1
<1>3. DOMAIN DiscPrice = DOMAIN col.fused
  BY DEF DiscPrice, col
<1> QED BY <1>2, <1>3

\* A derived column that exists is kept: it is the one that would be made.
LEMMA DiscPriceKeeps ==
    ASSUME PinnedInv, NEW s \in Session, MaterializeDiscPrice(s)
    PROVE  PinnedInv'
<1>1. /\ PinnedTypeOK /\ StageOK(s) /\ KeysOK(s) /\ DerivedOK(s) /\ EmittedOK(s)
      /\ GroupCol \in Col /\ \A c \in Col : store[c].cells \in Seq(Nat)
  BY PinnedKnown
<1>2. /\ stage[s] = "disc_price" /\ stage'[s] = "charge" /\ stage' \in [Session -> Stages]
      /\ UNCHANGED <<vars, denseVars, coded, dict, strings, bundle, bound, emitted>>
  BY <1>1 DEF MaterializeDiscPrice, PinnedTypeOK, DenseTable, Stages, allVars
<1>3. CacheOK'
  BY <1>2, StutterStep
<1> DEFINE made == IF derived.disc_price = <<>> THEN DiscPrice ELSE derived.disc_price
<1>13. derived' = [disc_price |-> made, charge |-> derived.charge]
  <2>1. derived' = [derived EXCEPT !.disc_price = made]
    BY Zenon DEF MaterializeDiscPrice
  <2>2. derived = [disc_price |-> derived.disc_price, charge |-> derived.charge]
    BY <1>1 DEF PinnedTypeOK, DenseTable
  <2> HIDE DEF made
  <2> QED BY <2>1, <2>2, ReplaceDerived, Zenon
<1>4. PinnedTypeOK'
  <2> HIDE DEF made
  <2> QED BY <1>1, <1>2, <1>13 DEF PinnedTypeOK, DenseTable, denseVars
<1>5. UNCHANGED <<store, pc, query, segs, plan, seen>> /\ pc[s] = "done"
  BY <1>1, <1>2 DEF vars, denseVars, StageOK
<1>6. StageOK(s)'
  BY <1>1, <1>2, <1>5 DEF StageOK
<1>7. OwnDict(s)' <=> OwnDict(s)
  BY <1>2, <1>5 DEF OwnDict
<1>8. KeysOK(s)'
  BY <1>1, <1>2, <1>5, <1>7, KeysKept
<1>9. Whole
  BY <1>1, <1>2 DEF DerivedOK
<1>10. DiscPrice # <<>>
  BY <1>9, WholePrice
<1>11. CASE derived.disc_price # <<>>
  <2>3. derived' = derived
    BY <1>1, <1>11, <1>13 DEF PinnedTypeOK, DenseTable
  <2>4. DerivedOK(s)'
    BY <1>1, <1>2, <1>5, <1>9, <1>11, <2>3, DerivedSame DEF DerivedOK
  <2> QED BY <1>3, <1>4, <1>6, <1>8, <1>1, <1>2, <2>4, EmittedKept, Together
<1>12. CASE derived.disc_price = <<>>
  <2>2. derived.charge = <<>> /\ bundle = NoBundle
    BY <1>1, <1>12 DEF DerivedOK
  <2>3. derived'.disc_price = DiscPrice /\ derived'.charge = <<>>
    BY <1>12, <1>13, <2>2
  <2>4. DiscPrice' = DiscPrice /\ (Whole' <=> Whole)
    BY <1>5 DEF DiscPrice, Whole, Resident
  <2>5. bundle' = NoBundle
    BY <1>2, <2>2
  <2>6. DerivedOK(s)'
    BY <1>2, <1>5, <1>9, <1>10, <2>3, <2>4, <2>5 DEF DerivedOK, NoBundle
  <2> QED BY <1>3, <1>4, <1>6, <1>8, <1>1, <1>2, <2>6, EmittedKept, Together
<1> QED BY <1>11, <1>12

LEMMA ChargeKeeps ==
    ASSUME PinnedInv, NEW s \in Session, MaterializeCharge(s)
    PROVE  PinnedInv'
<1>1. /\ PinnedTypeOK /\ StageOK(s) /\ KeysOK(s) /\ DerivedOK(s) /\ EmittedOK(s)
  BY PinnedKnown
<1>2. /\ stage[s] = "charge" /\ stage'[s] = "bundle" /\ stage' \in [Session -> Stages]
      /\ UNCHANGED <<vars, denseVars, coded, dict, strings, bundle, bound, emitted>>
  BY <1>1 DEF MaterializeCharge, PinnedTypeOK, DenseTable, Stages, allVars
<1>3. CacheOK'
  BY <1>2, StutterStep
<1> DEFINE made == IF derived.charge = <<>> THEN Charge ELSE derived.charge
<1>4. derived' = [disc_price |-> derived.disc_price, charge |-> made]
  <2>1. derived' = [derived EXCEPT !.charge = made]
    BY Zenon DEF MaterializeCharge
  <2>2. derived = [disc_price |-> derived.disc_price, charge |-> derived.charge]
    BY <1>1 DEF PinnedTypeOK, DenseTable
  <2> HIDE DEF made
  <2> QED BY <2>1, <2>2, ReplaceDerived, Zenon
<1>5. PinnedTypeOK'
  <2> HIDE DEF made
  <2> QED BY <1>1, <1>2, <1>4 DEF PinnedTypeOK, DenseTable, denseVars
<1>6. UNCHANGED <<store, pc, query, segs, plan, seen>> /\ pc[s] = "done"
  BY <1>1, <1>2 DEF vars, denseVars, StageOK
<1>7. StageOK(s)'
  BY <1>1, <1>2, <1>6 DEF StageOK
<1>8. OwnDict(s)' <=> OwnDict(s)
  BY <1>2, <1>6 DEF OwnDict
<1>9. KeysOK(s)'
  BY <1>1, <1>2, <1>6, <1>8, KeysKept
<1>10. Whole /\ derived.disc_price = DiscPrice /\ derived.disc_price # <<>>
  BY <1>1, <1>2 DEF DerivedOK
<1>11. Charge # <<>>
  <2>1. DOMAIN Charge = DOMAIN derived.disc_price
    BY DEF Charge
  <2> QED BY <1>10, <2>1, WholePrice
<1>12. derived'.disc_price = derived.disc_price /\ derived'.charge = made /\ made # <<>> /\ made = Charge
  BY <1>1, <1>4, <1>11 DEF DerivedOK
<1>13. (Whole' <=> Whole) /\ DiscPrice' = DiscPrice /\ Charge' = Charge
  <2> HIDE DEF made
  <2> QED BY <1>6, <1>12 DEF DiscPrice, Whole, Resident, Charge
<1>14. bundle # NoBundle => derived' = derived
  <2>1. bundle # NoBundle => made = derived.charge
    BY <1>1 DEF DerivedOK
  <2> HIDE DEF made
  <2> QED BY <1>1, <1>4, <2>1 DEF PinnedTypeOK, DenseTable
<1>15. DerivedOK(s)'
  <2> HIDE DEF made
  <2>1. NoBundle' = NoBundle
    BY DEF NoBundle
  <2> QED BY <1>1, <1>2, <1>6, <1>10, <1>12, <1>13, <1>14, <2>1 DEF DerivedOK
<1> QED BY <1>3, <1>5, <1>7, <1>9, <1>15, <1>1, <1>2, EmittedKept, Together

LEMMA BundleKeeps ==
    ASSUME PinnedInv, NEW s \in Session, MaterializeQ1(s)
    PROVE  PinnedInv'
<1>1. /\ PinnedTypeOK /\ StageOK(s) /\ KeysOK(s) /\ DerivedOK(s) /\ EmittedOK(s) /\ StepOK(s)
      /\ StringCol \in Col
  BY PinnedKnown
<1>2. /\ stage[s] = "bundle" /\ stage'[s] = (IF query[s].cached THEN "none" ELSE "install")
      /\ stage' \in [Session -> Stages]
      /\ UNCHANGED <<vars, denseVars, coded, dict, strings, derived, bound, emitted>>
  BY <1>1 DEF MaterializeQ1, PinnedTypeOK, DenseTable, Stages, allVars
<1>3. CacheOK'
  BY <1>2, StutterStep
<1>4. PinnedTypeOK'
  BY <1>1, <1>2 DEF PinnedTypeOK, DenseTable, denseVars
<1>5. UNCHANGED <<store, pc, query, segs, plan, seen>> /\ pc[s] = "done" /\ StringCol \in query[s].cols
  BY <1>1, <1>2 DEF vars, denseVars, StageOK, StepOK
<1>6. StageOK(s)'
  BY <1>1, <1>2, <1>5 DEF StageOK
<1>7. OwnDict(s)' <=> OwnDict(s)
  BY <1>2, <1>5 DEF OwnDict
<1>8. KeysOK(s)'
  BY <1>1, <1>2, <1>5, <1>7, KeysKept
<1>9. /\ bundle'.codes = coded /\ bundle'.derived = derived
      /\ bundle'.cols = [c \in Col |-> store[c].fused]
  BY DEF MaterializeQ1
<1>10. DerivedOK(s)'
  <2>1. (Whole' <=> Whole) /\ DiscPrice' = DiscPrice /\ Charge' = Charge
    BY <1>2, <1>5, DerivedSame
  <2> QED BY <1>1, <1>2, <1>5, <1>9, <2>1 DEF DerivedOK
<1> QED BY <1>3, <1>4, <1>6, <1>8, <1>10, <1>1, <1>2, EmittedKept, Together

\* A population's codes get the dictionary of its own scan before another query reads them.
LEMMA InstallKeeps ==
    ASSUME PinnedInv, NEW s \in Session, DictInstall(s)
    PROVE  PinnedInv'
<1>1. /\ PinnedTypeOK /\ StageOK(s) /\ KeysOK(s) /\ DerivedOK(s) /\ EmittedOK(s)
  BY PinnedKnown
<1>2. /\ stage[s] = "install" /\ stage'[s] = "none" /\ stage' \in [Session -> Stages]
      /\ dict' = [population |-> plan[s].population, strings |-> strings[s]]
      /\ UNCHANGED <<vars, denseVars, coded, strings, derived, bundle, bound, emitted>>
  BY <1>1 DEF DictInstall, Installed, PinnedTypeOK, DenseTable, Stages, allVars
<1>3. CacheOK'
  BY <1>2, StutterStep
<1>4. PinnedTypeOK'
  BY <1>1, <1>2 DEF PinnedTypeOK, DenseTable, denseVars
<1>5. UNCHANGED <<store, pc, query, segs, plan, seen>> /\ pc[s] = "done" /\ OwnDict(s)
  BY <1>1, <1>2 DEF vars, denseVars, StageOK, OwnDict
<1>6. StageOK(s)' /\ ~OwnDict(s)'
  BY <1>1, <1>2, <1>5 DEF StageOK, OwnDict
<1>7. KeysOK(s)'
  BY <1>1, <1>2, <1>5, <1>6 DEF KeysOK, Resident, Decodes
<1>8. DerivedOK(s)'
  BY <1>1, <1>2, <1>5, DerivedKept
<1> QED BY <1>3, <1>4, <1>6, <1>7, <1>8, <1>1, <1>2, EmittedKept, Together

\* A cached plan decodes its keys with the dictionary its codes were made under.
LEMMA ReadDictKeeps ==
    ASSUME PinnedInv, NEW s \in Session, ReadDict(s)
    PROVE  PinnedInv'
<1>1. /\ PinnedTypeOK /\ StageOK(s) /\ KeysOK(s) /\ DerivedOK(s) /\ EmittedOK(s) /\ StepOK(s)
  BY PinnedKnown
<1>2. /\ pc[s] = "exec" /\ stage[s] = "none" /\ stage'[s] = "read" /\ StringCol \in query[s].cols
      /\ stage' \in [Session -> Stages]
      /\ strings' = [strings EXCEPT ![s] = DictStrings]
      /\ UNCHANGED <<vars, denseVars, coded, dict, derived, bundle, bound, emitted>>
  BY <1>1 DEF ReadDict, PinnedTypeOK, DenseTable, Stages, allVars
<1>3. CacheOK'
  BY <1>2, StutterStep
<1>4. Resident(StringCol) /\ query[s].cached
  BY <1>1, <1>2 DEF StepOK, MlxCacheHas, StageOK
<1>5. DictStrings = dict.strings
  BY <1>1, <1>2, <1>4 DEF KeysOK, OwnDict, DictStrings
<1>6. /\ strings'[s] = dict.strings /\ DOMAIN strings' = Session
      /\ \A t \in Session : t = s
  BY <1>1, <1>2, <1>5, PinnedKnown DEF PinnedTypeOK, DenseTable
<1>7. PinnedTypeOK'
  BY <1>1, <1>2, <1>6 DEF PinnedTypeOK, DenseTable, denseVars
<1>8. UNCHANGED <<store, pc, query, segs, plan, seen>>
  BY <1>2 DEF vars, denseVars
<1>9. StageOK(s)' /\ (OwnDict(s)' <=> OwnDict(s)) /\ ~OwnDict(s)
  BY <1>1, <1>2, <1>4, <1>6, <1>8 DEF StageOK, OwnDict
<1>10. KeysOK(s)'
  BY <1>1, <1>2, <1>8, <1>9, KeysKept
<1>11. DerivedOK(s)'
  BY <1>1, <1>2, <1>8, DerivedKept
<1> QED BY <1>3, <1>7, <1>9, <1>10, <1>11, <1>1, <1>2, EmittedKept, Together

\* Nothing is left to be decoded or derived from.
LEMMA ClearKeeps ==
    ASSUME PinnedInv, NEW s \in Session, PinnedClearAll(s)
    PROVE  PinnedInv'
<1>1. /\ PinnedTypeOK /\ StageOK(s) /\ EmittedOK(s) /\ StringCol \in Col
  BY PinnedKnown
<1>2. /\ pc[s] = "idle" /\ ClearAll(s) /\ UNCHANGED <<sessionVars, pending, seen, summand>>
      /\ dense' = NoDense /\ coded' = <<>> /\ derived' = NoDerived /\ bundle' = NoBundle
      /\ UNCHANGED <<dict, strings, bound, stage, emitted>>
      /\ store' = [c \in Col |-> NoColumn]
  BY DEF PinnedClearAll, DenseClearAll, ClearAll
<1>3. CacheOK'
  <2>1. [Next]_vars
    BY <1>2 DEF Next, Request
  <2> QED BY <1>2, <2>1, CacheStep
<1>4. PinnedTypeOK'
  BY <1>1, <1>2 DEF PinnedTypeOK, DenseTable, NoDense, NoDerived
<1>5. UNCHANGED <<pc, query, segs, plan, seen>> /\ stage[s] = "none" /\ seen[s] = 0
  BY <1>2, Quiet DEF sessionVars
<1>6. StageOK(s)'
  BY <1>1, <1>2, <1>5 DEF StageOK
<1>7. KeysOK(s)'
  <2>1. store'[StringCol].cells = <<>> /\ ~Resident(StringCol)'
    BY <1>1, <1>2 DEF NoColumn, Resident
  <2>2. \A d : Decodes(coded', d, store'[StringCol].cells)
    BY <1>2, <2>1, DecodesNone
  <2> QED BY <2>1, <2>2 DEF KeysOK, Decodes
<1>8. DerivedOK(s)'
  BY <1>2, <1>5 DEF DerivedOK, NoDerived, NoBundle
<1> QED BY <1>1, <1>2, <1>3, <1>4, <1>6, <1>7, <1>8, EmittedKept, Together

-----------------------------------------------------------------------------
(* Planning, scanning and pinning *)

\* Any part of the rows is named where the table is.
LEMMA NamesPart ==
    ASSUME PinnedInv, NEW d, Names(d, table), NEW part \in Seq(Nat),
           \A p \in 1 .. Len(part) : part[p] \in 1 .. Len(table)
    PROVE  Names(d, part)
<1>1. TableOK /\ table \in Seq(Nat)
  BY DEF PinnedInv, CacheOK, CacheInv, TypeOK, Cell
<1>2. DOMAIN table = 1 .. Len(table) /\ \A i \in 1 .. Len(table) : table[i] = i
  BY <1>1 DEF TableOK
<1>3. DOMAIN part = 1 .. Len(part)
  BY LenProperties
<1> QED BY <1>2, <1>3 DEF Names

\* Buffered segments hold rows of the query's snapshot.
LEMMA RemainRows ==
    ASSUME NEW q, q.snapshot \in Seq(Nat), NEW list \in Listings(q), NEW parts \in Seq(Seq(Nat)), Remain(parts, list, 0),
           NEW t \in DOMAIN parts, NEW p \in 1 .. Len(parts[t])
    PROVE  parts[t][p] \in 1 .. Len(q.snapshot)
<1> DEFINE n == Len(q.snapshot)
<1>2. n \in Nat
  OBVIOUS
<1>3. PICK m \in 0 .. n : list \in [1 .. m -> 1 .. n]
  <2>1. list \in UNION {[1 .. k -> 1 .. n] : k \in 0 .. n}
    BY DEF Listings
  <2> QED BY <2>1
<1> HIDE DEF n
<1>4. m \in Nat /\ Len(list) = m /\ \A i \in 1 .. m : list[i] \in 1 .. n
  BY <1>2, <1>3
<1>5. PICK e \in [0 .. Len(parts) -> 0 .. m] :
        \A i \in 1 .. Len(parts) :
            e[i - 1] <= e[i] /\ parts[i] = [j \in 1 .. e[i] - e[i - 1] |-> list[e[i - 1] + j]]
  BY <1>4 DEF Remain
<1>6. t \in 1 .. Len(parts) /\ Len(parts) \in Nat /\ parts[t] \in Seq(Nat)
  OBVIOUS
<1>7. t \in 0 .. Len(parts) /\ t - 1 \in 0 .. Len(parts)
  BY <1>6
<1> DEFINE a == e[t - 1]
           b == e[t]
<1>8. a \in 0 .. m /\ b \in 0 .. m /\ a <= b /\ parts[t] = [j \in 1 .. b - a |-> list[a + j]]
  BY <1>5, <1>6, <1>7
<1> HIDE DEF a, b
<1>9. Len(parts[t]) = b - a
  <2>1. b - a \in Nat
    BY <1>4, <1>8
  <2> QED BY <1>8, <2>1
<1>10. p \in 1 .. b - a /\ a + p \in 1 .. m
  BY <1>4, <1>8, <1>9
<1>11. parts[t][p] = list[a + p]
  BY <1>8, <1>10
<1>12. parts[t][p] \in 1 .. n
  BY <1>4, <1>10, <1>11
<1> QED BY <1>12 DEF n

\* A VARCHAR column that is cached between requests has its dictionary.
\* A cached VARCHAR column has its dictionary, so the plan is the one of the column cache.
LEMMA PlanIs ==
    ASSUME PinnedInv, NEW s \in Session, NEW kind \in Kinds, NEW cols \in ColSets, NEW filter \in Filters,
           PinnedPlan(s, kind, cols, filter)
    PROVE  Plan(s, kind, cols, filter) /\ [Next]_vars
<1>1. /\ PinnedTypeOK /\ KeysOK(s) /\ store[StringCol].cells \in Seq(Nat) /\ StringCol \in Col
  BY PinnedKnown
<1> DEFINE cached == MlxCacheHas(cols, Len(table)) /\ (StringCol \in cols => DictStrings # <<>>)
<1>2. PlanAs(s, kind, cols, filter, cached) /\ pc[s] = "idle"
  BY DEF PinnedPlan, PlanAs
<1>3. StringCol \in cols /\ MlxCacheHas(cols, Len(table)) => DictStrings # <<>>
  <2> SUFFICES ASSUME StringCol \in cols, MlxCacheHas(cols, Len(table)) PROVE DictStrings # <<>>
    OBVIOUS
  <2>1. Resident(StringCol)
    BY DEF MlxCacheHas
  <2>2. ~OwnDict(s)
    BY <1>2, Quiet DEF OwnDict
  <2>3. Decodes(coded, dict.strings, store[StringCol].cells) /\ store[StringCol].population = dict.population
    BY <1>1, <2>1, <2>2 DEF KeysOK
  <2>4. dict.strings # <<>>
    BY <1>1, <2>1, <2>3, DecodesSome DEF Resident
  <2> QED BY <2>1, <2>3, <2>4 DEF DictStrings
<1>4. cached <=> MlxCacheHas(cols, Len(table))
  BY <1>3
<1>5. cached \in BOOLEAN /\ cached = MlxCacheHas(cols, Len(table))
  BY <1>4 DEF MlxCacheHas
<1>6. Plan(s, kind, cols, filter)
  <2> HIDE DEF cached
  <2> QED BY <1>2, <1>5 DEF Plan
<1>7. cols \in (SUBSET Col) \ {{}}
  BY PinnedAssumption
<1> QED BY <1>6, <1>7 DEF Next, Request

LEMMA PlanKeeps ==
    ASSUME PinnedInv, NEW s \in Session, NEW kind \in Kinds, NEW cols \in ColSets, NEW filter \in Filters,
           PinnedPlan(s, kind, cols, filter)
    PROVE  PinnedInv'
<1>1. /\ PinnedTypeOK /\ StageOK(s) /\ KeysOK(s) /\ DerivedOK(s) /\ EmittedOK(s)
      /\ DOMAIN pc = Session /\ DOMAIN query = Session
      /\ store[StringCol].cells \in Seq(Nat) /\ StringCol \in Col
  BY PinnedKnown
<1> DEFINE cached == MlxCacheHas(cols, Len(table)) /\ (StringCol \in cols => DictStrings # <<>>)
<1>2. /\ PlanAs(s, kind, cols, filter, cached) /\ pc[s] = "idle" /\ (kind = "sum" => StringCol \notin cols)
      /\ UNCHANGED <<dense, pending, seen, coded, dict, strings, derived, bundle, stage, emitted>>
      /\ DOMAIN summand' = DOMAIN summand
  BY DEF PinnedPlan, PlanAs
<1>7. CacheOK'
  BY <1>2, PlanIs, CacheStep
<1>8. /\ query'[s].kind = kind /\ query'[s].cols = cols /\ query'[s].cached = cached
      /\ pc'[s] = IF cached THEN "exec" ELSE "scan"
      /\ UNCHANGED <<store, segs, plan>>
  <2> HIDE DEF cached
  <2> QED BY <1>1, <1>2 DEF PlanAs, cacheVars
<1>9. stage[s] = "none" /\ seen[s] = 0
  BY <1>2, Quiet
<1>10. PinnedTypeOK'
  BY <1>1, <1>2 DEF PinnedTypeOK, DenseTable
<1> HIDE DEF cached
<1>11. StageOK(s)'
  BY <1>1, <1>2, <1>8, <1>9 DEF StageOK
<1>12. (OwnDict(s)' <=> OwnDict(s)) /\ ~OwnDict(s)
  BY <1>2, <1>8, <1>9 DEF OwnDict
<1>13. KeysOK(s)'
  BY <1>1, <1>2, <1>8, <1>12, KeysKept
<1>14. DerivedOK(s)'
  BY <1>1, <1>2, <1>8, <1>9, DerivedKept
<1> QED BY <1>7, <1>10, <1>11, <1>13, <1>14, <1>1, <1>2, EmittedKept, Together

\* Every string of the buffered rows has a code when the population begins.
LEMMA FinalizeKeeps ==
    ASSUME PinnedInv, NEW s \in Session, PinnedFinalize(s)
    PROVE  PinnedInv'
<1>1. /\ PinnedTypeOK /\ StageOK(s) /\ KeysOK(s) /\ DerivedOK(s) /\ EmittedOK(s)
      /\ DOMAIN pc = Session /\ segs[s] \in Seq(Seq(Nat)) /\ \A t \in Session : t = s
  BY PinnedKnown
<1>2. /\ Finalize(s) /\ pc[s] = "scan"
      /\ UNCHANGED <<denseVars, query, segs, plan, store, coded, dict, derived, bundle, stage, emitted>>
      /\ pc'[s] = "done" \/ pc'[s] = "begin"
  BY <1>1 DEF PinnedFinalize, Finalize, cacheVars
<1>3. PICK d \in IF StringCol \in query[s].cols THEN Encodings(segs[s]) ELSE {<<>>} :
        strings' = [strings EXCEPT ![s] = d]
  BY DEF PinnedFinalize
<1>4. /\ strings'[s] = d /\ DOMAIN strings' = Session
  BY <1>1, <1>3 DEF PinnedTypeOK, DenseTable
<1>5. /\ DOMAIN d \subseteq Nat
      /\ StringCol \in query[s].cols => \A t \in DOMAIN segs[s] : Names(d, segs[s][t])
  <2>1. CASE StringCol \in query[s].cols
    BY <1>1, <1>3, <2>1, EncodesAll
  <2>2. CASE StringCol \notin query[s].cols
    BY <1>3, <2>2
  <2> QED BY <2>1, <2>2
<1>6. CacheOK'
  <2>1. [Next]_vars
    BY <1>2 DEF Next, Run
  <2> QED BY <1>2, <2>1, CacheStep
<1>7. stage[s] = "none" /\ seen[s] = 0
  BY <1>2, Quiet
<1>8. PinnedTypeOK'
  BY <1>1, <1>2, <1>4, <1>5 DEF PinnedTypeOK, DenseTable, denseVars
<1>9. StageOK(s)'
  BY <1>1, <1>2, <1>4, <1>5, <1>7 DEF StageOK, denseVars
<1>10. (OwnDict(s)' <=> OwnDict(s)) /\ ~OwnDict(s)
  BY <1>2, <1>7 DEF OwnDict
<1>11. KeysOK(s)'
  BY <1>1, <1>2, <1>10, KeysKept
<1>12. DerivedOK(s)'
  BY <1>1, <1>2, <1>7, DerivedKept
<1> QED BY <1>6, <1>8, <1>9, <1>11, <1>12, <1>1, <1>2, EmittedKept, Together

LEMMA PinKeeps ==
    ASSUME PinnedInv, NEW s \in Session, PinnedPin(s)
    PROVE  PinnedInv'
<1>1. /\ PinnedTypeOK /\ StageOK(s) /\ KeysOK(s) /\ DerivedOK(s) /\ EmittedOK(s)
      /\ DOMAIN pc = Session /\ DOMAIN query = Session /\ \A t \in Session : t = s
      /\ table \in Seq(Nat)
  BY PinnedKnown
<1> DEFINE resident == MlxCacheHas(Col, Len(table))
<1>2. /\ PinTable(s) /\ pc[s] = "idle"
      /\ UNCHANGED <<denseVars, plan, store, table, coded, dict, derived, bundle, stage, emitted>>
      /\ query'[s].kind = "pin" /\ query'[s].cached = resident /\ query'[s].snapshot = table
      /\ pc'[s] = IF resident THEN "fuse" ELSE "begin"
  BY <1>1 DEF PinnedPin, PinTable, cacheVars, tableVars
<1> HIDE DEF resident
<1>3. PICK d \in Encodings(<<table>>) : strings' = [strings EXCEPT ![s] = d]
  BY DEF PinnedPin
<1>4. /\ strings'[s] = d /\ DOMAIN strings' = Session
  BY <1>1, <1>3 DEF PinnedTypeOK, DenseTable
<1>5. DOMAIN d \subseteq Nat /\ Names(d, table)
  <2>1. <<table>> \in Seq(Seq(Nat)) /\ 1 \in DOMAIN <<table>> /\ <<table>>[1] = table
    BY <1>1
  <2> HIDE DEF Names
  <2> QED BY <1>3, <2>1, EncodesAll
<1>6. CacheOK'
  <2>1. [Next]_vars
    BY <1>2 DEF Next, Request
  <2> QED BY <1>2, <2>1, CacheStep
<1>7. stage[s] = "none" /\ seen[s] = 0
  BY <1>2, Quiet
<1>8. PinnedTypeOK'
  BY <1>1, <1>2, <1>4, <1>5 DEF PinnedTypeOK, DenseTable, denseVars
<1>9. ASSUME pc'[s] = "begin", NEW t \in DOMAIN segs'[s] PROVE Names(d, segs'[s][t])
  <2>1. StepOK(s)' /\ TypeOK'
    BY <1>6 DEF CacheOK, CacheInv
  <2>2. Buffered(s)'
    BY <1>9, <2>1 DEF StepOK
  <2>3. segs'[s] \in Seq(Seq(Nat))
    BY <2>1 DEF TypeOK, Cell
  <2>4. \A p \in 1 .. Len(segs'[s][t]) : segs'[s][t][p] \in 1 .. Len(table)
    <3> DEFINE parts == segs'[s]
    <3>1. PICK list \in Listings(query'[s]) : Remain(parts, list, 0)
      BY <2>2 DEF Buffered, Listings, Selected
    <3> QED BY <1>1, <1>2, <2>3, <3>1, RemainRows
  <2> DEFINE part == segs'[s][t]
  <2>5. part \in Seq(Nat)
    BY <2>3
  <2> HIDE DEF part, Names
  <2>6. \A p \in 1 .. Len(part) : part[p] \in 1 .. Len(table)
    BY <2>4 DEF part
  <2>7. Names(d, part)
    BY <1>5, <2>5, <2>6, NamesPart
  <2> QED BY <2>7 DEF part
<1>10. StageOK(s)'
  BY <1>1, <1>2, <1>4, <1>7, <1>9 DEF StageOK, denseVars
<1>11. (OwnDict(s)' <=> OwnDict(s)) /\ ~OwnDict(s)
  BY <1>2, <1>7 DEF OwnDict
<1>12. KeysOK(s)'
  BY <1>1, <1>2, <1>11, KeysKept
<1>13. DerivedOK(s)'
  BY <1>1, <1>2, <1>7, DerivedKept
<1> QED BY <1>6, <1>8, <1>10, <1>12, <1>13, <1>1, <1>2, EmittedKept, Together

-----------------------------------------------------------------------------
(* A population *)

\* MlxCacheBeginPopulation empties the columns it is going to store, and keeps another
\* column only where it does not drop the table.
LEMMA BeginEffect ==
    ASSUME PinnedInv, NEW s \in Session, BeginPopulation(s), CacheOK'
    PROVE  /\ pc'[s] = "store" /\ plan'[s].storeCols = query[s].cols
           /\ UNCHANGED <<query, segs, table>>
           /\ \A c \in query[s].cols : store'[c] = NoColumn
           /\ DropsTable(s) => \A c \in Col : store'[c] = NoColumn
           /\ ~DropsTable(s) => \A c \in Col \ query[s].cols : store'[c] = store[c]
<1> DEFINE q == query[s]
           mismatch == \E c \in Col : Resident(c) /\ store[c].rows # q.expected
           layout1 == IF mismatch THEN NoLayout ELSE layout
           fresh == layout1.rows # q.expected
           dangling == fresh /\ layout1.rows # 0
           drops == mismatch \/ dangling
           store1 == IF drops THEN [c \in Col |-> NoColumn] ELSE store
           allPresent == \A c \in q.cols : store1[c].cells # <<>>
           id == IF fresh THEN counter + 1 ELSE layout1.population
<1>1. /\ DOMAIN pc = Session /\ DOMAIN plan = Session /\ q.cols \in SUBSET Col /\ StepOK(s)
  BY PinnedKnown
<1>2. /\ pc' = [pc EXCEPT ![s] = "store"] /\ UNCHANGED <<query, segs, table>> /\ pc[s] = "begin"
      /\ plan' = [plan EXCEPT ![s] = [population |-> id, storeCols |-> IF allPresent THEN {} ELSE q.cols]]
      /\ store' = [c \in Col |-> IF c \in q.cols /\ ~allPresent THEN NoColumn ELSE store1[c]]
  BY Zenon DEF BeginPopulation, tableVars
<1>3. DropsTable(s) <=> drops
  BY DEF DropsTable
<1> HIDE DEF mismatch, allPresent, drops
<1>4. pc'[s] = "store" /\ plan'[s].storeCols = IF allPresent THEN {} ELSE q.cols
  <2> HIDE DEF id
  <2> QED BY <1>1, <1>2
<1>5. plan'[s].storeCols = q.cols
  <2>1. StepOK(s)'
    BY DEF CacheOK
  <2>2. Storing(s)'
    BY <1>4, <2>1 DEF StepOK
  <2> QED BY <1>2, <2>2 DEF Storing
<1>6. q.cols # {}
  <2>1. q.kind = "pin" => q.cols = Col
    BY <1>1, <1>2 DEF StepOK
  <2> QED BY <1>1, <1>2, <2>1, PinnedAssumption DEF StepOK
<1>7. ~allPresent
  BY <1>4, <1>5, <1>6
<1>8. \A c \in Col : store'[c] = IF c \in q.cols THEN NoColumn ELSE store1[c]
  BY <1>2, <1>7
<1>9. \A c \in Col : store1[c] = IF drops THEN NoColumn ELSE store[c]
  OBVIOUS
<1> HIDE DEF store1
<1> QED BY <1>1, <1>2, <1>3, <1>4, <1>5, <1>8, <1>9

\* A population follows a miss: with every column cached and fused it is the number of rows
\* that has changed, and the table is dropped with what was derived from it.
LEMMA BeginDrops ==
    ASSUME PinnedInv, NEW s \in Session, pc[s] = "begin", derived.disc_price # <<>>
    PROVE  DropsTable(s)
<1>1. DerivedOK(s) /\ StepOK(s) /\ ColumnsOK /\ query[s].cols \in SUBSET Col /\ GroupCol \in Col
  BY PinnedKnown
<1>2. Whole
  BY <1>1 DEF DerivedOK
<1>3. ~MlxCacheHas(query[s].cols, Len(table)) /\ query[s].expected = Len(table)
  BY <1>1 DEF StepOK
<1>4. \A c, d \in Col : store[c].ends = store[d].ends
  BY <1>1, <1>2 DEF Whole, ColumnsOK
<1>5. \E c \in query[s].cols : ~(Resident(c) /\ store[c].rows = Len(table))
  <2>1. \A c, d \in query[s].cols : Cardinality(store[c].ends) = Cardinality(store[d].ends)
    BY <1>1, <1>4
  <2> QED BY <1>3, <2>1 DEF MlxCacheHas
<1> QED BY <1>1, <1>2, <1>3, <1>5 DEF Whole, DropsTable

LEMMA BeginKeeps ==
    ASSUME PinnedInv, NEW s \in Session, PinnedBeginPopulation(s)
    PROVE  PinnedInv'
<1>1. /\ PinnedTypeOK /\ StageOK(s) /\ KeysOK(s) /\ DerivedOK(s) /\ EmittedOK(s) /\ StringCol \in Col
      /\ query[s].cols \in SUBSET Col
  BY PinnedKnown
<1>2. /\ BeginPopulation(s) /\ pc[s] = "begin"
      /\ coded' = (IF store'[StringCol].cells = <<>> THEN <<>> ELSE coded)
      /\ derived' = (IF DropsTable(s) THEN NoDerived ELSE derived)
      /\ bundle' = (IF DropsTable(s) THEN NoBundle ELSE bundle)
      /\ dense' = (IF DropsTable(s) THEN NoDense ELSE dense)
      /\ UNCHANGED <<pending, seen, summand, dict, strings, bound, stage, emitted>>
  BY DEF PinnedBeginPopulation, DenseBeginPopulation, BeginPopulation
<1>3. CacheOK'
  <2>1. [Next]_vars
    BY <1>2 DEF Next, Run
  <2> QED BY <1>2, <2>1, CacheStep
<1>4. /\ pc'[s] = "store" /\ UNCHANGED <<query, segs, table>>
      /\ \A c \in query[s].cols : store'[c] = NoColumn
      /\ DropsTable(s) => \A c \in Col : store'[c] = NoColumn
      /\ ~DropsTable(s) => \A c \in Col \ query[s].cols : store'[c] = store[c]
  BY <1>2, <1>3, BeginEffect
<1>5. stage[s] = "none" /\ seen[s] = 0
  BY <1>2, Quiet
<1>6. PinnedTypeOK'
  <2>1. CASE DropsTable(s)
    BY <1>1, <1>2, <2>1 DEF PinnedTypeOK, DenseTable, NoDense, NoDerived
  <2>2. CASE ~DropsTable(s)
    BY <1>1, <1>2, <2>2 DEF PinnedTypeOK, DenseTable
  <2> QED BY <2>1, <2>2
<1>7. StageOK(s)'
  BY <1>1, <1>2, <1>4, <1>5 DEF StageOK
<1>8. NoColumn.cells = <<>>
  BY DEF NoColumn
<1>9. KeysOK(s)'
  <2>1. CASE store'[StringCol].cells = <<>>
    <3>1. \A d : Decodes(coded', d, store'[StringCol].cells)
      BY <1>2, <2>1, DecodesNone
    <3> QED BY <2>1, <3>1 DEF KeysOK, Decodes, Resident
  <2>2. CASE store'[StringCol].cells # <<>>
    <3>1. store'[StringCol] = store[StringCol] /\ StringCol \notin query[s].cols /\ coded' = coded
      BY <1>1, <1>2, <1>4, <1>8, <2>2
    <3>2. ~OwnDict(s) /\ ~OwnDict(s)'
      BY <1>4, <3>1 DEF OwnDict
    <3> QED BY <1>1, <1>2, <3>1, <3>2, KeysKept
  <2> QED BY <2>1, <2>2
<1>10. derived'.disc_price = <<>> /\ derived'.charge = <<>> /\ bundle' = NoBundle
  <2>1. CASE DropsTable(s)
    BY <1>2, <2>1 DEF NoDerived
  <2>2. CASE ~DropsTable(s)
    <3>1. derived.disc_price = <<>>
      BY <1>2, <2>2, BeginDrops
    <3> QED BY <1>1, <1>2, <2>2, <3>1 DEF DerivedOK
  <2> QED BY <2>1, <2>2
<1>11. DerivedOK(s)'
  BY <1>2, <1>5, <1>10 DEF DerivedOK, NoBundle
<1> QED BY <1>1, <1>2, <1>3, <1>6, <1>7, <1>9, <1>11, EmittedKept, Together

\* A batch is appended to the session's own columns, with the codes of its strings.
LEMMA SegmentKeeps ==
    ASSUME PinnedInv, NEW s \in Session, PinnedStoreSegment(s)
    PROVE  PinnedInv'
<1>1. /\ PinnedTypeOK /\ StageOK(s) /\ KeysOK(s) /\ DerivedOK(s) /\ EmittedOK(s) /\ StringCol \in Col
      /\ query[s].cols \in SUBSET Col /\ segs[s] \in Seq(Seq(Nat)) /\ DOMAIN segs = Session
      /\ store[StringCol].cells \in Seq(Nat) /\ StepOK(s) /\ \A t \in Session : t = s
  BY PinnedKnown
<1> DEFINE rows == Head(segs[s])
           d == strings[s]
<1>2. /\ StoreSegment(s) /\ pc[s] = "store" /\ segs[s] # <<>>
      /\ segs' = [segs EXCEPT ![s] = Tail(segs[s])]
      /\ UNCHANGED <<pc, query, plan, table>>
      /\ coded' = (IF StringCol \in plan[s].storeCols THEN coded \o Encoded(rows, d) ELSE coded)
      /\ pending' = [pending EXCEPT ![s] = IF PlainSumGroupBy(s) THEN rows ELSE <<>>]
      /\ UNCHANGED <<dense, seen, summand, dict, strings, derived, bundle, bound, stage, emitted>>
  BY DEF PinnedStoreSegment, DenseStoreSegment, StoreSegment, tableVars
<1>3. CacheOK'
  <2>1. [Next]_vars
    BY <1>2 DEF Next, Run
  <2> QED BY <1>2, <2>1, CacheStep
<1>4. rows \in Seq(Nat) /\ Tail(segs[s]) \in Seq(Seq(Nat)) /\ segs'[s] = Tail(segs[s])
      /\ 1 \in DOMAIN segs[s] /\ rows = segs[s][1]
      /\ \A t \in DOMAIN Tail(segs[s]) : t + 1 \in DOMAIN segs[s] /\ Tail(segs[s])[t] = segs[s][t + 1]
  BY <1>1, <1>2
<1>5. plan[s].storeCols = query[s].cols
  BY <1>1, <1>2 DEF StepOK, Storing
<1>6. stage[s] = "none" /\ seen[s] = 0 /\ ~query[s].cached
  BY <1>1, <1>2, Quiet DEF StageOK
<1>7. PinnedTypeOK'
  <2>1. pending' \in [Session -> Seq(Nat)]
    <3> HIDE DEF rows
    <3> QED BY <1>1, <1>2, <1>4 DEF PinnedTypeOK, DenseTable
  <2> QED BY <1>1, <1>2, <2>1 DEF PinnedTypeOK, DenseTable
<1>8. ASSUME StringCol \in query[s].cols
      PROVE  Names(d, rows) /\ \A t \in DOMAIN segs'[s] : Names(d, segs'[s][t])
  <2>1. \A t \in DOMAIN segs[s] : Names(d, segs[s][t])
    BY <1>1, <1>2, <1>8 DEF StageOK
  <2> HIDE DEF d, rows
  <2> QED BY <1>4, <2>1
<1>9. StageOK(s)'
  <2> HIDE DEF rows
  <2> QED BY <1>1, <1>2, <1>6, <1>8 DEF StageOK
<1>10. PICK canonical, k :
        store' = [c \in Col |->
            IF c \in plan[s].storeCols
            THEN AppendColumnSlices(store[c], rows, Cuts(canonical, k, Len(rows)), plan[s].population)
            ELSE store[c]]
  BY <1>2 DEF StoreSegment
<1> HIDE DEF rows, d
<1>11. KeysOK(s)'
  <2>1. CASE StringCol \in query[s].cols
    <3>1. OwnDict(s) /\ OwnDict(s)'
      BY <1>2, <1>6, <2>1 DEF OwnDict
    <3>2. store'[StringCol].cells = store[StringCol].cells \o rows /\ store'[StringCol].population = plan[s].population
      BY <1>1, <1>5, <1>10, <2>1 DEF AppendColumnSlices
    <3>3. DOMAIN d \subseteq Nat /\ Decodes(coded, d, store[StringCol].cells)
      BY <1>1, <3>1 DEF KeysOK, PinnedTypeOK, DenseTable, d
    <3>4. Decodes(Encoded(rows, d), d, rows)
      BY <1>4, <1>8, <2>1, <3>3, EncodedDecodes
    <3>5. Decodes(coded \o Encoded(rows, d), d, store[StringCol].cells \o rows)
      BY <1>1, <1>4, <3>3, <3>4, DecodesMore
    <3>6. coded' = coded \o Encoded(rows, d) /\ strings'[s] = d
      BY <1>2, <1>5, <2>1 DEF d
    <3>7. Decodes(coded', strings'[s], store'[StringCol].cells)
      BY <3>2, <3>5, <3>6
    <3> QED BY <1>2, <3>1, <3>2, <3>7 DEF KeysOK, Decodes
  <2>2. CASE StringCol \notin query[s].cols
    <3>1. ~OwnDict(s) /\ ~OwnDict(s)'
      BY <1>2, <2>2 DEF OwnDict
    <3>2. store'[StringCol] = store[StringCol] /\ coded' = coded
      BY <1>1, <1>2, <1>5, <1>10, <2>2
    <3> QED BY <1>1, <1>2, <3>1, <3>2, KeysKept
  <2> QED BY <2>1, <2>2
<1>12. derived.disc_price = <<>> /\ derived.charge = <<>> /\ bundle = NoBundle
  BY <1>1, <1>2 DEF DerivedOK
<1>13. DerivedOK(s)'
  BY <1>2, <1>6, <1>12 DEF DerivedOK, NoBundle
<1> QED BY <1>1, <1>2, <1>3, <1>7, <1>9, <1>11, <1>13, EmittedKept, Together

\* Between the last batch and the fuse.
LEMMA StoreDoneKeeps ==
    ASSUME PinnedInv, NEW s \in Session, DenseStoreDone(s), UNCHANGED pinnedVars
    PROVE  PinnedInv'
<1>1. /\ PinnedTypeOK /\ StageOK(s) /\ KeysOK(s) /\ DerivedOK(s) /\ EmittedOK(s) /\ DOMAIN pc = Session
  BY PinnedKnown
<1>2. /\ StoreDone(s) /\ pc[s] = "store" /\ pc'[s] = "fuse"
      /\ UNCHANGED <<store, query, segs, plan, denseVars, coded, dict, strings, derived, bundle, bound, stage, emitted>>
  BY <1>1 DEF DenseStoreDone, StoreDone, cacheVars, pinnedVars
<1>3. CacheOK'
  <2>1. [Next]_vars
    BY <1>2 DEF Next, Run
  <2> QED BY <1>2, <2>1, CacheStep
<1>4. stage[s] = "none" /\ seen[s] = 0 /\ ~query[s].cached
  BY <1>1, <1>2, Quiet DEF StageOK
<1>5. PinnedTypeOK'
  BY <1>1, <1>2 DEF PinnedTypeOK, DenseTable, denseVars
<1>6. StageOK(s)'
  BY <1>1, <1>2, <1>4 DEF StageOK, denseVars
<1>7. OwnDict(s)' <=> OwnDict(s)
  BY <1>2 DEF OwnDict
<1>8. KeysOK(s)'
  BY <1>1, <1>2, <1>7, KeysKept
<1>9. DerivedOK(s)'
  BY <1>1, <1>2, DerivedKept DEF DerivedOK
<1> QED BY <1>1, <1>2, <1>3, <1>5, <1>6, <1>8, <1>9, EmittedKept, Together

\* After a fuse every cached column is fused, and a pin has left every column cached.
LEMMA FuseKeeps ==
    ASSUME PinnedInv, NEW s \in Session, PinnedFuse(s)
    PROVE  PinnedInv'
<1>1. /\ PinnedTypeOK /\ StageOK(s) /\ KeysOK(s) /\ DerivedOK(s) /\ EmittedOK(s) /\ StepOK(s)
      /\ DOMAIN pc = Session /\ StringCol \in Col /\ GroupCol \in Col /\ \A t \in Session : t = s
      /\ TypeOK /\ query[s] \in Query
      /\ \A c \in Col : store[c] \in CachedColumn /\ (store[c].fused # <<>> => store[c].fused = store[c].cells)
  BY PinnedKnown
<1>2. /\ FuseTable(s) /\ pc[s] = "fuse" /\ pc'[s] = (IF query[s].kind = "sum" THEN "eval" ELSE "done")
      /\ store' = [c \in Col |-> FuseCachedColumn(store[c])]
      /\ UNCHANGED <<query, segs, plan, table>>
      /\ UNCHANGED <<denseVars, coded, dict, strings, derived, bundle, bound, emitted>>
  BY <1>1 DEF PinnedFuse, FuseTable, tableVars
<1> DEFINE after == IF query[s].kind = "pin" THEN "disc_price"
                    ELSE IF StringCol \in query[s].cols THEN "install" ELSE "none"
<1>3. stage' = [stage EXCEPT ![s] = after] /\ after \in Stages
  BY DEF PinnedFuse, Stages
<1> HIDE DEF after
<1>4. stage'[s] = after /\ stage' \in [Session -> Stages]
  BY <1>1, <1>3 DEF PinnedTypeOK, DenseTable
<1>5. CacheOK'
  <2>1. [Next]_vars
    BY <1>2 DEF Next, Run
  <2> QED BY <1>2, <2>1, CacheStep
<1>6. stage[s] = "none" /\ seen[s] = 0
  BY <1>1, <1>2, Quiet
<1>7. ASSUME NEW c \in Col
      PROVE  /\ store'[c].cells = store[c].cells /\ store'[c].rows = store[c].rows
             /\ store'[c].population = store[c].population /\ store'[c].fused = store[c].cells
             /\ store[c].fused # <<>> => store'[c] = store[c]
  <2>1. store[c] \in CachedColumn /\ store'[c] = FuseCachedColumn(store[c])
    BY <1>1, <1>2
  <2> QED BY <1>1, <2>1 DEF FuseCachedColumn, CachedColumn
<1>8. PinnedTypeOK'
  BY <1>1, <1>2, <1>4 DEF PinnedTypeOK, DenseTable, denseVars
<1>9. StageOK(s)'
  BY <1>1, <1>2, <1>4, <1>6 DEF StageOK, denseVars, after
<1>10. OwnDict(s)' <=> OwnDict(s)
  BY <1>2, <1>4, <1>6 DEF OwnDict, after
<1>11. KeysOK(s)'
  BY <1>1, <1>2, <1>7, <1>10, KeysKept
<1>12. query[s].kind = "pin" => Whole'
  <2> SUFFICES ASSUME query[s].kind = "pin" PROVE Whole'
    OBVIOUS
  <2>1. query[s].cols = Col /\ query[s].filter = "none" /\ pc'[s] = "done"
    BY <1>1, <1>2 DEF StepOK
  <2>2. StepOK(s)'
    BY <1>5 DEF CacheOK
  <2>3. MlxCacheHas(Col, Len(table))'
    BY <1>2, <2>1, <2>2 DEF StepOK, MlxCacheHas, Resident
  <2>4. \A c \in Col : Resident(c)' /\ store'[c].rows = Len(table')
    BY <2>3 DEF MlxCacheHas
  <2>5. \A c \in Col : store'[c].fused = store'[c].cells
    BY <1>7
  <2> QED BY <1>1, <2>4, <2>5 DEF Whole
<1>13. DerivedOK(s)'
  <2>1. CASE derived.disc_price # <<>>
    <3>1. Whole
      BY <1>1, <2>1 DEF DerivedOK
    <3>2. \A c \in Col : store'[c] = store[c]
      BY <1>7, <3>1 DEF Whole, Resident
    <3>3. store' = store
      <4>1. store \in [Col -> CachedColumn]
        BY <1>1 DEF TypeOK
      <4>2. DOMAIN store' = Col /\ store' = [c \in Col |-> store'[c]]
        BY <1>2
      <4> QED BY <3>2, <4>1, <4>2
    <3>4. (Whole' <=> Whole) /\ DiscPrice' = DiscPrice /\ Charge' = Charge
      BY <1>2, <3>3, DerivedSame
    <3> QED BY <1>1, <1>2, <1>4, <2>1, <3>1, <3>3, <3>4 DEF DerivedOK, NoBundle, after
  <2>2. CASE derived.disc_price = <<>>
    <3>1. derived.charge = <<>> /\ bundle = NoBundle
      BY <1>1, <2>2 DEF DerivedOK
    <3> QED BY <1>2, <1>4, <1>12, <2>2, <3>1 DEF DerivedOK, NoBundle, after
  <2> QED BY <2>1, <2>2
<1> QED BY <1>1, <1>2, <1>5, <1>8, <1>9, <1>11, <1>13, EmittedKept, Together

-----------------------------------------------------------------------------
(* Serving *)

\* An answer, whatever it is, ends the read of a cached plan.
LEMMA Answered ==
    ASSUME PinnedInv, NEW s \in Session, pc[s] = "exec",
           NEW a \in [status : AnswerStatus, rows : SUBSET (Nat \X [query[s].cols -> Cell])],
           answer' = [answer EXCEPT ![s] = a], pc' = [pc EXCEPT ![s] = "done"],
           UNCHANGED <<query, todo, segs, plan, store, layout, counter, table, written>>
    PROVE  CacheOK' /\ pc'[s] = "done"
<1>1. /\ CacheInv /\ Serial /\ TableOK /\ ColumnsOK /\ StepOK(s) /\ DOMAIN pc = Session
      /\ \A t \in Session : t = s
  BY PinnedKnown
<1>2. CacheInv'
  BY <1>1, AnswerStep
<1>3. TableOK' /\ ColumnsOK' /\ pc'[s] = "done" /\ Serial'
  BY <1>1 DEF TableOK, ColumnsOK, Resident, Serial
<1>4. MlxCacheHas(query[s].cols, Len(table))'
  <2>1. MlxCacheHas(query[s].cols, Len(table))' <=> MlxCacheHas(query[s].cols, Len(table))
    BY HasKept
  <2> QED BY <1>1, <2>1 DEF StepOK
<1>5. StepOK(s)'
  BY <1>1, <1>3, <1>4 DEF StepOK
<1> QED BY <1>1, <1>2, <1>3, <1>5 DEF CacheOK

\* The rows of the table at some positions.
Aligned(a, cols) == \A r \in a.rows : r[1] \in 1 .. Len(table) /\ \A c \in cols : r[2][c] = table[r[1]]

LEMMA MaskedAligned ==
    ASSUME NEW cols, NEW n, NEW filter, NEW fc, n = Len(table)
    PROVE  Aligned(RowsOf(cols, table, n, filter, fc), cols)
BY DEF Aligned, RowsOf, Masked

\* Both reads of a cached plan find the rows of the table.
LEMMA CachedRead ==
    ASSUME PinnedInv, NEW s \in Session, pc[s] = "exec", NEW fc \in query[s].cols, NEW filter
    PROVE  /\ Aligned(ReadSegments(query[s].cols, filter, fc), query[s].cols)
           /\ Aligned(ReadFused(query[s].cols, filter, fc), query[s].cols)
<1> DEFINE cols == query[s].cols
           n == Len(table)
<1>1. /\ CacheInv /\ TableOK /\ ColumnsOK /\ StepOK(s) /\ cols \in SUBSET Col /\ n \in Nat
  BY PinnedKnown
<1>2. MlxCacheHas(cols, n) /\ n > 0
  BY <1>1 DEF StepOK
<1>3. Hold(cols, table)
  BY <1>1, <1>2, FullColumn DEF Hold, MlxCacheHas
<1> HIDE DEF cols, n
<1>4. n \in Nat \ {0} /\ n = Len(table) /\ fc \in cols
  BY <1>1, <1>2 DEF n, cols
<1>5. /\ ReadSegments(cols, filter, fc) = RowsOf(cols, table, n, filter, fc)
      /\ ReadFused(cols, filter, fc) = RowsOf(cols, table, n, filter, fc)
  BY <1>1, <1>3, <1>4, ReadList
<1>6. Aligned(RowsOf(cols, table, n, filter, fc), cols)
  BY <1>4, MaskedAligned
<1> QED BY <1>5, <1>6 DEF cols

\* The codes of the cached column and the dictionary belong to one scan, so a row is emitted
\* under its own string.
LEMMA EmittedExact ==
    ASSUME PinnedInv, NEW s \in Session, pc[s] = "exec",
           StringCol \in query[s].cols => stage[s] = "read",
           Aligned(answer'[s], query[s].cols),
           NEW key \in Emitted(s, coded)
    PROVE  key[1] = StringOf[key[2]]
<1>1. /\ StageOK(s) /\ KeysOK(s) /\ StepOK(s) /\ CacheInv /\ TableOK /\ ColumnsOK /\ StringCol \in Col
      /\ Len(table) \in Nat
  BY PinnedKnown
<1>2. StringCol \in query[s].cols
  BY DEF Emitted
<1>3. PICK r \in answer'[s].rows : key = <<Decoded(s, coded[r[1]]), r[2][StringCol]>>
  BY <1>2 DEF Emitted
<1>4. r[1] \in 1 .. Len(table) /\ r[2][StringCol] = table[r[1]]
  BY <1>2 DEF Aligned
<1>5. store[StringCol].cells = table
  BY <1>1, <1>2, FullColumn DEF StepOK, MlxCacheHas
<1>6. strings[s] = dict.strings /\ ~OwnDict(s)
  BY <1>1, <1>2 DEF StageOK, OwnDict
<1>7. coded[r[1]] \in DOMAIN strings[s] /\ strings[s][coded[r[1]]] = StringOf[table[r[1]]]
  BY <1>1, <1>4, <1>5, <1>6 DEF KeysOK, Decodes
<1>8. Decoded(s, coded[r[1]]) = StringOf[table[r[1]]]
  BY <1>7, Zenon DEF Decoded
<1> QED BY <1>3, <1>4, <1>8

\* A read that ends the request.
LEMMA ServedKept ==
    ASSUME PinnedInv, NEW s \in Session, pc[s] = "exec", pc'[s] = "done", CacheOK',
           PinnedTypeOK', stage'[s] = "none", seen' = seen, EmittedOK(s)',
           UNCHANGED <<query, segs, plan, store, coded, dict, strings, derived, bundle>>
    PROVE  PinnedInv'
<1>1. /\ StageOK(s) /\ KeysOK(s) /\ DerivedOK(s)
  BY PinnedKnown
<1>2. StageOK(s)'
  BY <1>1 DEF StageOK
<1>3. (OwnDict(s)' <=> OwnDict(s)) /\ ~OwnDict(s)
  BY <1>1 DEF StageOK, OwnDict
<1>4. KeysOK(s)'
  BY <1>1, <1>3, KeysKept
<1>5. DerivedOK(s)'
  BY <1>1, DerivedKept
<1> QED BY <1>2, <1>4, <1>5, Together

LEMMA ServeTypes ==
    ASSUME PinnedTypeOK, NEW s \in Session, stage' = [stage EXCEPT ![s] = "none"],
           NEW e, emitted' = [emitted EXCEPT ![s] = e],
           UNCHANGED <<dense, pending, seen, summand, strings, dict, derived>>
    PROVE  PinnedTypeOK' /\ stage'[s] = "none" /\ emitted'[s] = e
BY DEF PinnedTypeOK, DenseTable, Stages

\* The read of a cached plan, whichever of the two it is.
LEMMA ReadServes ==
    ASSUME PinnedInv, NEW s \in Session, ServeCached(s) \/ ServeGroupedFused(s), ReadyToServe(s),
           stage' = [stage EXCEPT ![s] = "none"],
           emitted' = [emitted EXCEPT ![s] = Emitted(s, coded)],
           UNCHANGED <<denseVars, coded, dict, strings, derived, bundle, bound>>
    PROVE  PinnedInv'
<1>1. /\ PinnedTypeOK /\ DOMAIN pc = Session /\ DOMAIN answer = Session
  BY PinnedKnown
<1>2. /\ pc[s] = "exec" /\ pc' = [pc EXCEPT ![s] = "done"]
      /\ UNCHANGED <<query, todo, segs, plan, store>>
  BY DEF ServeCached, ServeGroupedFused, cacheVars
<1>3. CacheOK'
  <2>1. [Next]_vars
    BY DEF Next, Run
  <2> QED BY <1>2, <2>1, CacheStep
<1>4. Aligned(answer'[s], query[s].cols)
  <2>1. CASE ServeCached(s)
    <3>1. PICK fc \in query[s].cols : answer'[s] = ReadSegments(query[s].cols, query[s].filter, fc)
      BY <1>1, <2>1 DEF ServeCached
    <3> QED BY <1>2, <3>1, CachedRead
  <2>2. CASE ServeGroupedFused(s)
    <3>1. PICK fc \in query[s].cols : answer'[s] = ReadFused(query[s].cols, query[s].filter, fc)
      BY <1>1, <2>2 DEF ServeGroupedFused
    <3> QED BY <1>2, <3>1, CachedRead
  <2> QED BY <2>1, <2>2
<1>5. PinnedTypeOK' /\ stage'[s] = "none" /\ emitted'[s] = Emitted(s, coded)
  BY <1>1, ServeTypes DEF denseVars
<1>6. EmittedOK(s)'
  BY <1>2, <1>4, <1>5, EmittedExact DEF EmittedOK, ReadyToServe
<1> QED BY <1>1, <1>2, <1>3, <1>5, <1>6, ServedKept DEF denseVars

\* The bundle a pin left is what the fused columns hold now.
LEMMA Q1Serves ==
    ASSUME PinnedInv, NEW s \in Session, ServeQ1(s)
    PROVE  ServeGroupedFused(s) /\ bundle.codes = coded
<1>1. /\ KeysOK(s) /\ DerivedOK(s) /\ StringCol \in Col /\ GroupCol \in Col
      /\ \A c \in Col : store[c].cells \in Seq(Nat) /\ store[c].rows = Len(store[c].cells)
  BY PinnedKnown
<1>2. /\ pc[s] = "exec" /\ query[s].kind = "group" /\ query[s].cols = Col /\ query[s].filter = "table"
      /\ bundle # NoBundle
      /\ pc' = [pc EXCEPT ![s] = "done"] /\ UNCHANGED <<query, todo, segs, plan, cacheVars, tableVars>>
  BY DEF ServeQ1, Q1FastPath
<1>3. PICK fc \in Col :
        answer' = [answer EXCEPT ![s] =
            [status |-> "rows", rows |-> Masked(Col, bundle.cols, Len(bundle.codes), "table", fc)]]
  BY DEF ServeQ1
<1>4. Whole /\ bundle.codes = coded /\ bundle.cols = [c \in Col |-> store[c].fused]
  BY <1>1, <1>2 DEF DerivedOK
<1>5. Len(coded) = store[fc].rows
  <2>1. Len(coded) = Len(store[StringCol].cells)
    BY <1>1 DEF KeysOK, Decodes
  <2> QED BY <1>1, <1>4, <2>1 DEF Whole
<1>6. /\ \A c \in Col : store[c].fused # <<>>
      /\ \A c, d \in Col : Len(store[c].fused) = Len(store[d].fused)
  <2>1. \A c \in Col : store[c].fused = store[c].cells /\ store[c].cells # <<>> /\ store[c].rows = store[GroupCol].rows
    BY <1>4 DEF Whole, Resident
  <2>2. \A c \in Col : Len(store[c].fused) = store[GroupCol].rows
    BY <1>1, <2>1
  <2>3. ASSUME NEW c \in Col, NEW d \in Col PROVE Len(store[c].fused) = Len(store[d].fused)
    BY <2>2
  <2> QED BY <2>1, <2>3, Zenon
<1>7. ReadFused(Col, "table", fc)
        = [status |-> "rows", rows |-> Masked(Col, [c \in Col |-> store[c].fused], store[fc].rows, "table", fc)]
  BY <1>6, Zenon DEF ReadFused
<1>8. answer' = [answer EXCEPT ![s] = ReadFused(query[s].cols, query[s].filter, fc)]
  BY <1>2, <1>3, <1>4, <1>5, <1>7
<1> QED BY <1>2, <1>3, <1>4, <1>8 DEF ServeGroupedFused

LEMMA ServeKeeps ==
    ASSUME PinnedInv, NEW s \in Session, PinnedServeFused(s) \/ PinnedServeSegments(s) \/ ServeQ1(s)
    PROVE  PinnedInv'
<1>1. CASE PinnedServeFused(s)
  <2>1. ServeGroupedFused(s) /\ UNCHANGED denseVars
    BY <1>1 DEF PinnedServeFused, DenseServeFused
  <2> QED BY <1>1, <2>1, ReadServes DEF PinnedServeFused
<1>2. CASE PinnedServeSegments(s)
  <2>1. ServeCached(s) /\ UNCHANGED denseVars
    BY <1>2 DEF PinnedServeSegments, DenseServeCached
  <2> QED BY <1>2, <2>1, ReadServes DEF PinnedServeSegments
<1>3. CASE ServeQ1(s)
  <2>1. ServeGroupedFused(s) /\ bundle.codes = coded
    BY <1>3, Q1Serves
  <2> QED BY <1>3, <2>1, ReadServes DEF ServeQ1, ReadyToServe
<1> QED BY <1>1, <1>2, <1>3

\* A grouping bound to a derived column fails in the segment path, and leaves everything as it was.
LEMMA BoundKeeps ==
    ASSUME PinnedInv, NEW s \in Session, ServeBoundSegments(s)
    PROVE  PinnedInv'
<1> DEFINE a == [status |-> "mismatch", rows |-> {}]
<1>1. PinnedTypeOK /\ EmittedOK(s)
  BY PinnedKnown
<1>2. /\ pc[s] = "exec" /\ pc' = [pc EXCEPT ![s] = "done"] /\ answer' = [answer EXCEPT ![s] = a]
      /\ stage' = [stage EXCEPT ![s] = "none"]
      /\ UNCHANGED <<query, todo, segs, plan, store, layout, counter, table, written>>
      /\ UNCHANGED <<dense, pending, seen, summand, coded, dict, strings, derived, bundle, bound, emitted>>
  BY DEF ServeBoundSegments, cacheVars, tableVars, denseVars
<1>3. a \in [status : AnswerStatus, rows : SUBSET (Nat \X [query[s].cols -> Cell])]
  BY DEF AnswerStatus
<1> HIDE DEF a
<1>4. CacheOK' /\ pc'[s] = "done"
  BY <1>2, <1>3, Answered
<1>5. PinnedTypeOK' /\ stage'[s] = "none"
  BY <1>1, <1>2 DEF PinnedTypeOK, DenseTable, Stages
<1> QED BY <1>1, <1>2, <1>4, <1>5, EmittedKept, ServedKept

\* The end of a request frees what the session read.
LEMMA ReturnKeeps ==
    ASSUME PinnedInv, NEW s \in Session, PinnedReturn(s)
    PROVE  PinnedInv'
<1>1. /\ PinnedTypeOK /\ StageOK(s) /\ KeysOK(s) /\ DerivedOK(s) /\ \A t \in Session : t = s
      /\ DOMAIN pc = Session /\ DOMAIN query = Session
  BY PinnedKnown
<1>2. /\ Return(s) /\ pc[s] = "done" /\ stage[s] = "none" /\ UNCHANGED <<store, coded, dict, derived, bundle, stage, dense, pending, summand>>
      /\ seen' = [seen EXCEPT ![s] = 0] /\ strings' = [strings EXCEPT ![s] = <<>>]
      /\ emitted' = [emitted EXCEPT ![s] = {}]
      /\ pc'[s] = "idle" /\ query'[s] = NoQuery
  BY <1>1 DEF PinnedReturn, DenseReturn, Return, cacheVars
<1>3. CacheOK'
  BY <1>2, ReturnStep
<1>4. PinnedTypeOK' /\ emitted'[s] = {} /\ seen'[s] = 0
  BY <1>1, <1>2 DEF PinnedTypeOK, DenseTable
<1>5. StageOK(s)'
  BY <1>1, <1>2, <1>4 DEF StageOK
<1>6. (OwnDict(s)' <=> OwnDict(s)) /\ ~OwnDict(s)
  BY <1>2 DEF OwnDict, NoQuery
<1>7. KeysOK(s)'
  BY <1>1, <1>2, <1>6, KeysKept
<1>8. DerivedOK(s)'
  BY <1>1, <1>2, DerivedKept
<1>9. EmittedOK(s)'
  BY <1>4 DEF EmittedOK
<1> QED BY <1>3, <1>4, <1>5, <1>7, <1>8, <1>9, Together

-----------------------------------------------------------------------------
(* The steps that do not meet the pinned state *)

\* The dense table of a session, and what it has seen, are no part of what is kept for a pin.
LEMMA AsideKept ==
    ASSUME PinnedInv, NEW s \in Session, UNCHANGED <<vars, pinnedVars>>, PinnedTypeOK',
           seen'[s] # 0 => pc[s] \in {"exec", "done"} /\ StringCol \notin query[s].cols
    PROVE  PinnedInv'
<1>1. /\ StageOK(s) /\ KeysOK(s) /\ DerivedOK(s) /\ EmittedOK(s)
  BY PinnedKnown
<1>2. UNCHANGED <<store, pc, query, segs, plan, coded, dict, strings, derived, bundle, stage, emitted>>
  BY DEF vars, pinnedVars
<1>3. CacheOK'
  BY StutterStep
<1>4. StageOK(s)' /\ (OwnDict(s)' <=> OwnDict(s))
  BY <1>1, <1>2 DEF StageOK, OwnDict
<1>5. KeysOK(s)'
  BY <1>1, <1>2, <1>4, KeysKept
<1>6. DerivedOK(s)'
  BY <1>1, <1>2, DerivedKept DEF DerivedOK
<1> QED BY <1>1, <1>2, <1>3, <1>4, <1>5, <1>6, EmittedKept, Together

HasNull(rows) == \E i \in DOMAIN rows : rows[i] \in NullCells

Base(d, n) == IF d.population = n THEN d.cells ELSE <<>>

\* Rows are added to the table of their population, or start a new one.
AddedTo(new, d, n, rows) ==
    /\ new.population = n
    /\ new.cells = IF HasNull(rows) THEN Base(d, n) ELSE Base(d, n) \o rows
    /\ new.ready = IF HasNull(rows) THEN (IF d.population = n THEN d.ready ELSE FALSE) ELSE TRUE

LEMMA AccumulatedIs ==
    ASSUME NEW d, DenseTable(d), d.cells \in Seq(Nat), NEW n, NEW rows \in Seq(Nat)
    PROVE  /\ DenseTable(Accumulated(d, n, rows)) /\ Accumulated(d, n, rows).cells \in Seq(Nat)
           /\ AddedTo(Accumulated(d, n, rows), d, n, rows)
<1> DEFINE new == Accumulated(d, n, rows)
<1> DEFINE kept == IF d.population = n THEN d ELSE [population |-> n, ready |-> FALSE, cells |-> <<>>]
           base == IF d.population = n THEN d.cells ELSE <<>>
           was == IF d.population = n THEN d.ready ELSE FALSE
           null == HasNull(rows)
<1>1. new = IF null THEN kept ELSE [kept EXCEPT !.ready = TRUE, !.cells = @ \o rows]
  BY DEF Accumulated, HasNull
<1>2. base \in Seq(Nat) /\ base \o rows \in Seq(Nat)
  <2>1. CASE d.population = n
    BY <2>1
  <2>2. CASE d.population # n
    <3>1. base = <<>>
      BY <2>2
    <3> HIDE DEF base
    <3> QED BY <3>1
  <2> QED BY <2>1, <2>2
<1> HIDE DEF base, null
<1>3. DenseTable(kept) /\ kept.population = n /\ kept.cells = base
  <2>1. CASE d.population = n
    BY <2>1 DEF base
  <2>2. CASE d.population # n
    BY <2>2 DEF base, DenseTable
  <2> QED BY <2>1, <2>2
<1>4. kept.ready = was
  <2>1. CASE d.population = n
    <3>1. kept = d
      BY <2>1
    <3> QED BY <2>1, <3>1
  <2>2. CASE d.population # n
    BY <2>2
  <2> QED BY <2>1, <2>2
<1> HIDE DEF kept, was, new
<1>5. CASE null
  BY <1>1, <1>2, <1>3, <1>4, <1>5 DEF base, was, null, new, Base, AddedTo
<1>6. CASE ~null
  <2>1. new = [kept EXCEPT !.ready = TRUE, !.cells = base \o rows]
    BY <1>1, <1>3, <1>6
  <2>2. new.ready = TRUE /\ new.cells = base \o rows /\ new.population = n /\ DenseTable(new)
    <3> DEFINE more == base \o rows
    <3> HIDE DEF more
    <3>1. new = [kept EXCEPT !.ready = TRUE, !.cells = more]
      BY <2>1 DEF more
    <3>2. new.ready = TRUE /\ new.cells = more /\ new.population = n /\ DenseTable(new)
      BY <1>3, <3>1 DEF DenseTable
    <3> QED BY <3>2 DEF more
  <2> QED BY <1>2, <1>6, <2>2 DEF base, was, null, new, Base, AddedTo
<1> QED BY <1>5, <1>6

LEMMA ElsewhereKeeps ==
    ASSUME PinnedInv, NEW s \in Session, PinnedElsewhere(s)
    PROVE  PinnedInv'
<1>1. /\ PinnedTypeOK /\ StageOK(s) /\ DOMAIN pc = Session /\ DOMAIN plan = Session /\ UNCHANGED pinnedVars
  BY PinnedKnown DEF PinnedElsewhere
<1>2. UNCHANGED <<coded, dict, strings, derived, bundle, bound, stage, emitted>>
  BY <1>1 DEF pinnedVars
<1>3. CASE DenseAccumulate(s)
  <2>1. /\ dense' = Accumulated(dense, plan[s].population, pending[s])
        /\ pending' = [pending EXCEPT ![s] = <<>>] /\ UNCHANGED <<vars, seen, summand>>
    BY <1>3 DEF DenseAccumulate
  <2>2. PinnedTypeOK'
    <3>1. dense.cells \in Seq(Nat) /\ pending[s] \in Seq(Nat) /\ DenseTable(dense)
      BY <1>1 DEF PinnedTypeOK, DenseTable
    <3>2. DenseTable(dense') /\ dense'.cells \in Seq(Nat)
      BY <2>1, <3>1, AccumulatedIs
    <3>3. DenseTable(dense)'
      BY <3>2 DEF DenseTable
    <3> QED BY <1>1, <1>2, <2>1, <3>2, <3>3 DEF PinnedTypeOK, DenseTable
  <2> QED BY <1>1, <2>1, <2>2, AsideKept DEF StageOK
<1>4. CASE ReadPopulation(s)
  <2>1. /\ pc[s] = "exec" /\ StringCol \notin query[s].cols
        /\ seen' = [seen EXCEPT ![s] = store[GroupCol].population] /\ UNCHANGED <<vars, dense, pending, summand>>
    BY <1>4 DEF ReadPopulation, TriesDense, SumGroupBy
  <2>2. PinnedTypeOK'
    BY <1>1, <1>2, <2>1 DEF PinnedTypeOK, DenseTable
  <2> QED BY <1>1, <2>1, <2>2, AsideKept
<1>5. CASE DenseStoreDone(s)
  BY <1>1, <1>5, StoreDoneKeeps
<1>6. CASE DenseServe(s)
  <2> DEFINE row(i) == <<i, [c \in query[s].cols |-> dense.cells[i]]>>
             a == [status |-> "rows", rows |-> {row(i) : i \in DOMAIN dense.cells}]
  <2>1. /\ pc[s] = "exec" /\ seen[s] # 0 /\ pc' = [pc EXCEPT ![s] = "done"] /\ answer' = [answer EXCEPT ![s] = a]
        /\ UNCHANGED <<query, todo, segs, plan, store, layout, counter, table, written, denseVars>>
    BY <1>6 DEF DenseServe, cacheVars, tableVars
  <2>2. a \in [status : AnswerStatus, rows : SUBSET (Nat \X [query[s].cols -> Cell])]
    <3>1. ASSUME NEW i \in DOMAIN dense.cells PROVE row(i) \in Nat \X [query[s].cols -> Cell]
      <4>1. dense.cells \in Seq(Nat)
        BY <1>1 DEF PinnedTypeOK, DenseTable
      <4>2. i \in Nat /\ dense.cells[i] \in Nat
        BY <4>1
      <4> QED BY <4>2 DEF Cell
    <3> HIDE DEF row
    <3> QED BY <3>1 DEF AnswerStatus
  <2> HIDE DEF a
  <2>3. CacheOK' /\ pc'[s] = "done"
    BY <2>1, <2>2, Answered
  <2>4. PinnedTypeOK'
    BY <1>1, <1>2, <2>1 DEF PinnedTypeOK, DenseTable, denseVars
  <2>5. stage[s] = "none" /\ StringCol \notin query[s].cols
    <3>1. stage[s] \in Stages
      BY <1>1 DEF PinnedTypeOK, DenseTable
    <3> QED BY <1>1, <2>1, <3>1 DEF StageOK, Stages
  <2>6. stage'[s] = "none" /\ seen' = seen /\ EmittedOK(s)'
    BY <1>2, <2>1, <2>5, PinnedKnown, EmittedKept DEF denseVars
  <2> QED BY <1>2, <2>1, <2>3, <2>4, <2>6, ServedKept
<1>7. CASE (CombineThread(s) \/ EvalPopulated(s) \/ Insert(s)) /\ UNCHANGED denseVars
  <2>1. /\ UNCHANGED <<store, query, plan, dense, pending, seen, summand>> /\ [Next]_vars
        /\ \/ pc[s] = "scan" /\ pc'[s] = "scan"
           \/ pc[s] = "eval" /\ pc'[s] = "done"
           \/ pc[s] = "idle" /\ pc'[s] = "idle"
    <3>1. [Next]_vars
      BY <1>7 DEF Next, Run, Request
    <3>2. CASE CombineThread(s)
      BY <1>7, <3>1, <3>2 DEF CombineThread, cacheVars, denseVars
    <3>3. CASE EvalPopulated(s)
      BY <1>1, <1>7, <3>1, <3>3 DEF EvalPopulated, cacheVars, denseVars
    <3>4. CASE Insert(s)
      BY <1>7, <3>1, <3>4 DEF Insert, cacheVars, sessionVars, denseVars
    <3> QED BY <1>7, <3>2, <3>3, <3>4
  <2>2. CacheOK'
    BY <2>1, CacheStep
  <2>3. PinnedTypeOK'
    BY <1>1, <1>2, <2>1 DEF PinnedTypeOK, DenseTable
  <2>4. stage[s] = "none" /\ seen[s] = 0
    BY <2>1, Quiet
  <2> QED BY <1>1, <1>2, <2>1, <2>2, <2>3, <2>4, ElsewhereKept DEF StageOK
<1> QED BY <1>3, <1>4, <1>5, <1>6, <1>7 DEF PinnedElsewhere

-----------------------------------------------------------------------------
(* What is kept for a pin, and the dictionary: the theorems *)

LEMMA PinnedFirst == Serial /\ PinnedInit => PinnedInv
<1> SUFFICES ASSUME Serial, PinnedInit PROVE PinnedInv
  OBVIOUS
<1>1. Init /\ dense = NoDense /\ pending = [s \in Session |-> <<>>] /\ seen = [s \in Session |-> 0]
      /\ summand = [s \in Session |-> "column"]
  BY DEF PinnedInit, DenseInit
<1>2. /\ coded = <<>> /\ dict = NoDict /\ strings = [s \in Session |-> <<>>] /\ derived = NoDerived
      /\ bundle = NoBundle /\ stage = [s \in Session |-> "none"] /\ emitted = [s \in Session |-> {}]
  BY DEF PinnedInit
<1>3. SerialInv
  BY <1>1, InitSerial
<1>4. CacheOK
  BY <1>3 DEF SerialInv, CacheOK
<1>5. PinnedTypeOK
  BY <1>1, <1>2 DEF PinnedTypeOK, DenseTable, NoDense, NoDict, NoDerived, Stages
<1>6. ASSUME NEW s \in Session PROVE StageOK(s) /\ KeysOK(s) /\ DerivedOK(s) /\ EmittedOK(s)
  <2>1. pc[s] = "idle" /\ stage[s] = "none" /\ seen[s] = 0 /\ emitted[s] = {}
    BY <1>1, <1>2 DEF Init
  <2>2. store[StringCol] = NoColumn
    BY <1>1, PinnedAssumption DEF Init
  <2>3. store[StringCol].cells = <<>> /\ ~Resident(StringCol)
    BY <2>2 DEF NoColumn, Resident
  <2>4. \A d : Decodes(coded, d, store[StringCol].cells)
    BY <1>2, <2>3, DecodesNone
  <2>5. KeysOK(s)
    BY <2>3, <2>4 DEF KeysOK
  <2> QED BY <1>2, <2>1, <2>5 DEF StageOK, DerivedOK, EmittedOK, NoDerived
<1> QED BY <1>4, <1>5, <1>6 DEF PinnedInv

LEMMA PinnedStep == PinnedInv /\ [PinnedNext]_<<allVars, pinnedVars>> => PinnedInv'
<1> SUFFICES ASSUME PinnedInv, [PinnedNext]_<<allVars, pinnedVars>> PROVE PinnedInv'
  OBVIOUS
<1>1. CASE UNCHANGED <<allVars, pinnedVars>>
  <2>1. PICK s \in Session : TRUE
    <3>1. Cardinality(Session) = 1
      BY PinnedAssumption
    <3>2. Session # {}
      BY <3>1, FS_EmptySet
    <3> QED BY <3>2
  <2>2. UNCHANGED vars /\ UNCHANGED pinnedVars /\ UNCHANGED denseVars
    BY <1>1 DEF allVars
  <2>3. PinnedTypeOK /\ StageOK(s)
    BY PinnedKnown
  <2>4. PinnedTypeOK' /\ (seen'[s] # 0 => pc[s] \in {"exec", "done"} /\ StringCol \notin query[s].cols)
    BY <2>2, <2>3 DEF PinnedTypeOK, DenseTable, StageOK, pinnedVars, denseVars
  <2> QED BY <2>2, <2>4, AsideKept
<1>2. CASE PinnedNext
  <2>1. PICK s \in Session :
        \/ \E kind \in Kinds, cols \in ColSets, filter \in Filters : PinnedPlan(s, kind, cols, filter)
        \/ PinnedFinalize(s) \/ PinnedPin(s) \/ PinnedBeginPopulation(s) \/ PinnedStoreSegment(s) \/ PinnedFuse(s)
        \/ MaterializeDiscPrice(s) \/ MaterializeCharge(s) \/ MaterializeQ1(s) \/ DictInstall(s)
        \/ PinnedClearAll(s) \/ ReadDict(s) \/ ServeQ1(s) \/ PinnedServeFused(s) \/ PinnedServeSegments(s)
        \/ ServeBoundSegments(s) \/ PinnedReturn(s) \/ PinnedElsewhere(s)
    BY <1>2, Zenon DEF PinnedNext
  <2>2. CASE \E kind \in Kinds, cols \in ColSets, filter \in Filters : PinnedPlan(s, kind, cols, filter)
    BY <2>2, PlanKeeps
  <2>3. CASE PinnedFinalize(s) \/ PinnedPin(s) \/ PinnedBeginPopulation(s) \/ PinnedStoreSegment(s) \/ PinnedFuse(s)
    BY <2>3, FinalizeKeeps, PinKeeps, BeginKeeps, SegmentKeeps, FuseKeeps
  <2>4. CASE MaterializeDiscPrice(s) \/ MaterializeCharge(s) \/ MaterializeQ1(s) \/ DictInstall(s) \/ PinnedClearAll(s)
    BY <2>4, DiscPriceKeeps, ChargeKeeps, BundleKeeps, InstallKeeps, ClearKeeps
  <2>5. CASE ReadDict(s) \/ ServeQ1(s) \/ PinnedServeFused(s) \/ PinnedServeSegments(s) \/ ServeBoundSegments(s)
    BY <2>5, ReadDictKeeps, ServeKeeps, BoundKeeps
  <2>6. CASE PinnedReturn(s) \/ PinnedElsewhere(s)
    BY <2>6, ReturnKeeps, ElsewhereKeeps
  <2> QED BY <2>1, <2>2, <2>3, <2>4, <2>5, <2>6
<1> QED BY <1>1, <1>2

LEMMA PinnedInvariant == Serial /\ PinnedSpec => []PinnedInv
BY PinnedFirst, PinnedStep, PTL DEF PinnedSpec

\* In serial use the codes of a cached VARCHAR column are always decoded with the dictionary of
\* the scan they come from, for any strings, any columns and any sequence of cold queries,
\* pins, inserts and clears: MlxDictInstall follows each population that stored the column, and
\* the planner asks MlxDictStrings for a dictionary before it trusts the columns.
THEOREM KeysAreDecoded == Serial /\ PinnedSpec => []KeysDecoded
<1>1. PinnedInv => KeysDecoded
  BY DEF PinnedInv, EmittedOK, KeysDecoded
<1> QED BY <1>1, PinnedInvariant, PTL

\* In serial use a derived column and the Q1 bundle describe the columns that are cached
\* whenever all of them can be served: DropTableUnlocked takes them with the table, and a
\* population that does not drop the table cannot touch a column they were made from.
THEOREM PinsStayCurrent == Serial /\ PinnedSpec => []PinnedCurrent
<1>1. PinnedInv => PinnedCurrent
  <2> SUFFICES ASSUME PinnedInv PROVE PinnedCurrent
    OBVIOUS
  <2>1. PICK s \in Session : TRUE
    <3>1. Cardinality(Session) = 1
      BY PinnedAssumption
    <3>2. Session # {}
      BY <3>1, FS_EmptySet
    <3> QED BY <3>2
  <2>2. DerivedOK(s)
    BY PinnedKnown
  <2>3. bundle # NoBundle => \A c \in Col : bundle.cols[c] = store[c].cells
    BY <2>2 DEF DerivedOK, Whole
  <2> QED BY <2>2, <2>3 DEF DerivedOK, PinnedCurrent
<1> QED BY <1>1, PinnedInvariant, PTL

-----------------------------------------------------------------------------
(* The dense table: the inductive invariant *)

\* No grouping over g and v reads a further column in its WHERE clause: such a query fills the
\* table with the rows it selects, again and again under one population.
OneDenseShape ==
    \A cols \in ColSets :
        {GroupCol, ValueCol} \subseteq cols /\ StringCol \notin cols => cols = {GroupCol, ValueCol}

Filled == dense.cells # <<>>

DenseTyped ==
    /\ dense.ready <=> Filled
    /\ dense.population \in Nat /\ dense.population <= counter
    /\ Filled => dense.population # 0

\* While the layout still carries the population of the dense table, g and v are cached under
\* it, or are being stored.
Anchored(s) ==
    Filled /\ layout.rows # 0 /\ layout.population = dense.population =>
        \A c \in {GroupCol, ValueCol} :
            \/ Resident(c) /\ store[c].population = dense.population
            \/ pc[s] = "store" /\ c \in plan[s].storeCols /\ segs[s] # <<>>

\* A table under the population of a complete group column has exactly its rows.
DenseExact ==
    Filled /\ Resident(GroupCol) /\ store[GroupCol].population = dense.population
           /\ store[GroupCol].rows = Len(table) => dense.cells = table

\* A population that stores: if the dense table already has its id, it is complete, unless this
\* very population has just filled it.
Filling(s) ==
    /\ pc[s] = "store" =>
            plan[s].population # 0 /\ (layout.rows # 0 => plan[s].population = layout.population)
    /\ pc[s] = "store" /\ Filled /\ plan[s].population = dense.population =>
            dense.cells = table \/ (PlainSumGroupBy(s) /\ segs[s] = <<>>)
    /\ pc[s] = "store" /\ PlainSumGroupBy(s) /\ (segs[s] # <<>> \/ pending[s] # <<>>) =>
            ~Filled \/ dense.population # plan[s].population
    /\ pending[s] # <<>> =>
            /\ pc[s] = "store" /\ PlainSumGroupBy(s) /\ segs[s] = <<>>
            /\ \A c \in {GroupCol, ValueCol} :
                    store[c].cells = pending[s] /\ store[c].population = plan[s].population

\* The population a read has seen is still that of the group column.
Reading(s) ==
    seen[s] # 0 => /\ pc[s] \in {"exec", "done"} /\ TriesDense(query[s])
                   /\ pc[s] = "exec" => seen[s] = store[GroupCol].population

Shaped(q) ==
    q.kind = "group" /\ {GroupCol, ValueCol} \subseteq q.cols /\ StringCol \notin q.cols =>
        q.cols = {GroupCol, ValueCol}

\* An answer is the one the engine would give, or an error.
AnsweredOK(s) == pc[s] = "done" => answer[s].status = "mismatch" \/ AnswerOK(s)

DenseOK(s) ==
    Anchored(s) /\ Filling(s) /\ Reading(s) /\ Shaped(query[s]) /\ AnsweredOK(s)

DenseInv ==
    /\ SomeRowKept /\ OneDenseShape
    /\ PinnedInv /\ PopulationInv /\ DenseTyped /\ DenseExact
    /\ \A s \in Session : DenseOK(s)

LEMMA DenseKnown ==
    ASSUME DenseInv, NEW s \in Session
    PROVE  /\ SomeRowKept /\ OneDenseShape /\ PinnedInv /\ PopulationInv /\ DenseTyped /\ DenseExact
           /\ Anchored(s) /\ Filling(s) /\ Reading(s) /\ Shaped(query[s]) /\ AnsweredOK(s)
           /\ Numbered(query[s]) \/ pc[s] = "idle"
           /\ counter \in Nat /\ layout.population \in Nat /\ layout.rows \in Nat /\ layout \in TableLayout
           /\ plan[s].population \in Nat
<1>1. PinnedInv /\ DenseOK(s)
  BY DEF DenseInv
<1>2. TypeOK /\ StepOK(s) /\ TableOK /\ table \in Seq(Nat)
  BY <1>1, PinnedKnown
<1>3. Numbered(query[s]) \/ pc[s] = "idle"
  BY <1>2 DEF StepOK, TableOK, Numbered
<1> QED BY <1>1, <1>2, <1>3 DEF DenseInv, DenseOK, TypeOK, TableLayout, PopulationPlan

\* A step of the column cache by a session that is not done.
LEMMA DenseStep ==
    ASSUME DenseInv, NEW s \in Session, pc[s] # "done", [Next]_vars
    PROVE  PopulationInv' /\ AnswerOK(s)' /\ AnsweredOK(s)'
<1>1. PinnedInv /\ PopulationInv
  BY DenseKnown
<1>2. CacheInv
  BY <1>1, PinnedKnown
<1>3. PopulationInv'
  BY <1>1, <1>2, NextPopulationInv
<1>4. SerialInv'
  BY <1>1, CacheStep
<1> QED BY <1>3, <1>4 DEF SerialInv, AnsweredOK

LEMMA DenseTogether ==
    ASSUME DenseInv, NEW s \in Session, PinnedInv', PopulationInv', DenseTyped', DenseExact',
           Anchored(s)', Filling(s)', Reading(s)', Shaped(query'[s]), AnsweredOK(s)'
    PROVE  DenseInv'
<1>1. \A t \in Session : t = s
  BY PinnedKnown DEF DenseInv
<1>2. SomeRowKept' /\ OneDenseShape' /\ Shaped(query[s])'
  BY DEF DenseInv, SomeRowKept, OneDenseShape, Shaped
<1> QED BY <1>1, <1>2 DEF DenseInv, DenseOK

\* Steps that leave the dense table and the columns g and v alone.
LEMMA DenseKept ==
    ASSUME DenseInv, NEW s \in Session, PinnedInv', PopulationInv',
           pc[s] # "store" \/ (segs[s] = <<>> /\ pending[s] = <<>>), pc'[s] # "store",
           dense' = dense, pending' = pending, UNCHANGED <<layout, counter, table>>,
           \A c \in {GroupCol, ValueCol} :
                /\ store'[c].cells = store[c].cells /\ store'[c].rows = store[c].rows
                /\ store'[c].population = store[c].population,
           Reading(s)', Shaped(query'[s]), AnsweredOK(s)'
    PROVE  DenseInv'
<1>1. DenseTyped /\ DenseExact /\ Anchored(s) /\ Filling(s)
  BY DenseKnown
<1>2. pending[s] = <<>>
  BY <1>1 DEF Filling
<1>3. Filled' <=> Filled
  BY DEF Filled
<1>4. DenseTyped'
  BY <1>1, <1>3 DEF DenseTyped
<1>5. DenseExact'
  BY <1>1, <1>3 DEF DenseExact, Resident
<1>6. Anchored(s)'
  BY <1>1, <1>3 DEF Anchored, Resident
<1>7. Filling(s)'
  BY <1>2 DEF Filling
<1> QED BY <1>4, <1>5, <1>6, <1>7, DenseTogether

\* A query selects some row, so a population has something to store, and a stored column is not
\* empty.
LEMMA SomethingListed ==
    ASSUME DenseInv, NEW s \in Session, pc[s] # "idle", NEW list \in Listings(query[s])
    PROVE  Len(list) \in Nat /\ Len(list) # 0
<1>1. Numbered(query[s]) /\ SomeRowKept /\ PinnedInv
  BY DenseKnown
<1>2. /\ query[s].snapshot = table /\ Len(table) \in Nat /\ Len(table) > 0 /\ Len(table) >= InitRows
  BY <1>1, PinnedKnown DEF StepOK, TableOK
<1>3. /\ Len(list) \in Nat /\ {list[i] : i \in 1 .. Len(list)} = Selected(query[s])
      /\ Selected(query[s]) = {x \in 1 .. Len(table) : query[s].filter = "none" \/ x \in Keep}
  BY <1>1, <1>2, ListingOK
<1>4. PICK x \in 1 .. Len(table) : x \in Keep
  BY <1>1, <1>2 DEF SomeRowKept
<1>5. x \in Selected(query[s])
  BY <1>3, <1>4
<1> QED BY <1>3, <1>5

-----------------------------------------------------------------------------
(* The dense table: filling it *)

\* MlxCacheBeginPopulation joins the population of the layout, and then every cached column has
\* the rows of the table; or it starts one that the dense table has never had.
LEMMA BeginJoins ==
    ASSUME DenseInv, NEW s \in Session, BeginPopulation(s)
    PROVE  \/ /\ layout' = layout /\ counter' = counter /\ plan'[s].population = layout.population
              /\ layout.rows # 0 /\ layout.population # 0
              /\ \A c \in Col : Resident(c) => store[c].rows = Len(table)
              /\ ~DropsTable(s)
           \/ /\ counter' = counter + 1 /\ plan'[s].population = counter + 1
              /\ layout'.rows # 0 => layout'.population = counter + 1
<1> DEFINE q == query[s]
           mismatch == \E c \in Col : Resident(c) /\ store[c].rows # q.expected
           layout1 == IF mismatch THEN NoLayout ELSE layout
           fresh == layout1.rows # q.expected
           dangling == fresh /\ layout1.rows # 0
           drops == mismatch \/ dangling
           store1 == IF drops THEN [c \in Col |-> NoColumn] ELSE store
           allPresent == \A c \in q.cols : store1[c].cells # <<>>
           id == IF fresh THEN counter + 1 ELSE layout1.population
           cols == IF allPresent THEN {} ELSE q.cols
<1>1. PinnedInv /\ PopulationInv /\ counter \in Nat
  BY DenseKnown
<1>2. /\ DOMAIN plan = Session /\ StepOK(s)
  BY <1>1, PinnedKnown
<1>3. /\ pc[s] = "begin" /\ counter' = (IF fresh THEN counter + 1 ELSE counter)
      /\ plan' = [plan EXCEPT ![s] = [population |-> id, storeCols |-> cols]]
      /\ layout' = IF dangling THEN NoLayout
                   ELSE IF fresh THEN [rows |-> q.expected, population |-> counter + 1, sizes |-> layout1.sizes]
                   ELSE layout1
  BY Zenon DEF BeginPopulation
<1>4. q.expected = Len(table) /\ q.expected # 0
  BY <1>2, <1>3, PinnedKnown, <1>1 DEF StepOK
<1> HIDE DEF cols, q
<1>5. plan'[s].population = id
  <2> HIDE DEF id
  <2> QED BY <1>2, <1>3
<1>6. NoLayout.rows = 0
  BY DEF NoLayout
<1>7. CASE fresh
  <2>1. layout' = NoLayout \/ layout'.population = counter + 1
    BY <1>3, <1>7
  <2> QED BY <1>3, <1>5, <1>6, <1>7, <2>1
<1>8. CASE ~fresh
  <2>1. ~mismatch
    BY <1>4, <1>6, <1>8
  <2>2. layout1 = layout /\ layout.rows = q.expected
    BY <1>8, <2>1
  <2>3. layout' = layout /\ counter' = counter /\ id = layout.population
    BY <1>3, <1>8, <2>2
  <2>4. layout.population # 0
    BY <1>1, <1>4, <2>2 DEF PopulationInv
  <2>5. \A c \in Col : Resident(c) => store[c].rows = Len(table)
    BY <1>4, <2>1
  <2>6. ~DropsTable(s)
    BY <1>4, <2>2, <2>5 DEF DropsTable, q
  <2> QED BY <1>4, <1>5, <2>2, <2>3, <2>4, <2>5, <2>6
<1> QED BY <1>7, <1>8

LEMMA DenseBegins ==
    ASSUME DenseInv, NEW s \in Session, PinnedBeginPopulation(s), PinnedInv'
    PROVE  DenseInv'
<1>1. /\ PinnedInv /\ PopulationInv /\ DenseTyped /\ DenseExact /\ Anchored(s) /\ Filling(s) /\ Shaped(query[s])
      /\ counter \in Nat
  BY DenseKnown
<1>2. /\ BeginPopulation(s) /\ pc[s] = "begin"
      /\ dense' = (IF DropsTable(s) THEN NoDense ELSE dense)
      /\ UNCHANGED <<pending, seen, summand>>
  BY DEF PinnedBeginPopulation, DenseBeginPopulation, BeginPopulation
<1>3. CacheOK'
  BY DEF PinnedInv
<1>4. /\ pc'[s] = "store" /\ plan'[s].storeCols = query[s].cols /\ UNCHANGED <<query, segs, table>>
      /\ \A c \in query[s].cols : store'[c] = NoColumn
      /\ DropsTable(s) => \A c \in Col : store'[c] = NoColumn
      /\ ~DropsTable(s) => \A c \in Col \ query[s].cols : store'[c] = store[c]
  BY <1>1, <1>2, <1>3, BeginEffect
<1>5. /\ GroupCol \in Col /\ ValueCol \in Col /\ query[s].cols \in SUBSET Col /\ StepOK(s) /\ ColumnsOK
      /\ DOMAIN answer = Session /\ segs[s] \in Seq(Seq(Nat))
  BY <1>1, PinnedKnown
<1>6. stage[s] = "none" /\ seen[s] = 0 /\ pending[s] = <<>>
  BY <1>1, <1>2, Quiet DEF Filling
<1>7. PopulationInv' /\ AnsweredOK(s)'
  <2>1. [Next]_vars
    BY <1>2 DEF Next, Run
  <2> QED BY <1>2, <2>1, DenseStep
<1>8. Reading(s)' /\ Shaped(query'[s])
  BY <1>1, <1>2, <1>4, <1>6 DEF Reading
<1>9. NoColumn.cells = <<>> /\ NoDense.cells = <<>> /\ NoDense.ready = FALSE /\ NoDense.population = 0
  BY DEF NoColumn, NoDense
<1>10. \A c \in Col : Resident(c)' => ~DropsTable(s) /\ c \notin query[s].cols /\ store'[c] = store[c]
  BY <1>4, <1>9 DEF Resident
<1>11. Filled' => ~DropsTable(s) /\ dense' = dense /\ Filled
  BY <1>2, <1>9 DEF Filled
<1>12. DenseExact'
  BY <1>1, <1>4, <1>5, <1>10, <1>11 DEF DenseExact, Resident
<1>13. counter' \in {counter, counter + 1}
  BY <1>2, BeginJoins
<1>14. DenseTyped'
  <2>1. CASE DropsTable(s)
    <3>1. ~Filled' /\ dense' = NoDense
      BY <1>2, <1>9, <2>1 DEF Filled
    <3> QED BY <1>1, <1>9, <1>13, <3>1 DEF DenseTyped
  <2>2. CASE ~DropsTable(s)
    <3>1. dense' = dense /\ (Filled' <=> Filled)
      BY <1>2, <2>2 DEF Filled
    <3> QED BY <1>1, <1>13, <3>1 DEF DenseTyped
  <2> QED BY <2>1, <2>2
<1>15. Anchored(s)' /\ Filling(s)'
  <2>1. CASE /\ layout' = layout /\ counter' = counter /\ plan'[s].population = layout.population
             /\ layout.rows # 0 /\ layout.population # 0
             /\ \A c \in Col : Resident(c) => store[c].rows = Len(table)
             /\ ~DropsTable(s)
    <3>1. dense' = dense /\ (Filled' <=> Filled)
      BY <1>2, <2>1 DEF Filled
    <3>2. segs[s] # <<>>
      <4> SUFFICES ASSUME segs[s] = <<>> PROVE FALSE
        OBVIOUS
      <4>1. PICK list \in Listings(query[s]) : Remain(<<>>, list, 0)
        BY <1>2, <1>5 DEF StepOK, Buffered
      <4>2. Len(list) \in Nat /\ Len(list) # 0
        BY <1>2, SomethingListed
      <4> QED BY <4>1, <4>2, RemainAll
    <3>3. ASSUME Filled, layout.population = dense.population
          PROVE  \A c \in {GroupCol, ValueCol} :
                    Resident(c) /\ store[c].population = dense.population /\ store[c].rows = Len(table)
      BY <1>1, <1>2, <1>5, <2>1, <3>3 DEF Anchored
    <3>4. Anchored(s)'
      <4> SUFFICES ASSUME Filled, layout.population = dense.population, NEW c \in {GroupCol, ValueCol}
                   PROVE  \/ Resident(c)' /\ store'[c].population = dense.population
                          \/ c \in query[s].cols
        BY <1>4, <2>1, <3>1, <3>2 DEF Anchored
      <4> QED BY <1>4, <1>5, <2>1, <3>3 DEF Resident
    <3>5. Filled /\ layout.population = dense.population => dense.cells = table
      BY <1>1, <3>3 DEF DenseExact
    <3>6. PlainSumGroupBy(s) => ~Filled \/ dense.population # layout.population
      <4> SUFFICES ASSUME PlainSumGroupBy(s), Filled, layout.population = dense.population PROVE FALSE
        OBVIOUS
      <4>1. query[s].cols = {GroupCol, ValueCol}
        BY <1>1 DEF PlainSumGroupBy, SumGroupBy, Shaped
      <4>2. \A c \in query[s].cols : Resident(c) /\ store[c].rows = Len(table)
        BY <3>3, <4>1
      <4>3. \A c, d \in query[s].cols : store[c].ends = store[d].ends
        BY <1>5, <4>1, <4>2 DEF ColumnsOK
      <4>4. MlxCacheHas(query[s].cols, Len(table))
        BY <4>2, <4>3 DEF MlxCacheHas
      <4> QED BY <1>2, <1>5, <4>4 DEF StepOK
    <3>7. PlainSumGroupBy(s)' <=> PlainSumGroupBy(s)
      BY <1>2, <1>4 DEF PlainSumGroupBy
    <3>8. Filling(s)'
      BY <1>2, <1>4, <1>6, <2>1, <3>1, <3>5, <3>6, <3>7 DEF Filling
    <3> QED BY <3>4, <3>8
  <2>2. CASE /\ counter' = counter + 1 /\ plan'[s].population = counter + 1
             /\ layout'.rows # 0 => layout'.population = counter + 1
    <3>1. dense'.population \in Nat /\ dense'.population <= counter
      BY <1>1, <1>2, <1>9 DEF DenseTyped
    <3>2. dense'.population # counter + 1 /\ counter + 1 # 0
      BY <1>1, <3>1
    <3>3. Anchored(s)'
      BY <2>2, <3>2 DEF Anchored
    <3>4. Filling(s)'
      BY <1>2, <1>6, <2>2, <3>2 DEF Filling
    <3> QED BY <3>3, <3>4
  <2> QED BY <1>2, <2>1, <2>2, BeginJoins
<1> QED BY <1>7, <1>8, <1>12, <1>14, <1>15, DenseTogether

LEMMA DenseStores ==
    ASSUME DenseInv, NEW s \in Session, PinnedStoreSegment(s), PinnedInv'
    PROVE  DenseInv'
<1>1. /\ PinnedInv /\ PopulationInv /\ DenseTyped /\ DenseExact /\ Anchored(s) /\ Filling(s) /\ Shaped(query[s])
      /\ layout \in TableLayout
  BY DenseKnown
<1>2. /\ StoreSegment(s) /\ pc[s] = "store" /\ segs[s] # <<>> /\ pending[s] = <<>>
      /\ segs' = [segs EXCEPT ![s] = Tail(segs[s])]
      /\ UNCHANGED <<counter, pc, query, plan, table>>
      /\ pending' = [pending EXCEPT ![s] = IF PlainSumGroupBy(s) THEN Head(segs[s]) ELSE <<>>]
      /\ UNCHANGED <<dense, seen, summand>>
  BY DEF PinnedStoreSegment, DenseStoreSegment, StoreSegment, tableVars
<1>3. /\ GroupCol \in Col /\ ValueCol \in Col /\ query[s].cols \in SUBSET Col /\ StepOK(s)
      /\ DOMAIN segs = Session /\ segs[s] \in Seq(Seq(Nat)) /\ PinnedTypeOK
  BY <1>1, PinnedKnown
<1>4. /\ segs'[s] = Tail(segs[s])
      /\ pending'[s] = IF PlainSumGroupBy(s) THEN Head(segs[s]) ELSE <<>>
  BY <1>2, <1>3 DEF PinnedTypeOK, DenseTable
<1>5. stage[s] = "none" /\ seen[s] = 0
  BY <1>1, <1>2, Quiet
<1>6. PopulationInv' /\ AnsweredOK(s)'
  <2>1. [Next]_vars
    BY <1>2 DEF Next, Run
  <2> QED BY <1>2, <2>1, DenseStep
<1>7. Reading(s)' /\ Shaped(query'[s])
  BY <1>1, <1>2, <1>5 DEF Reading
<1>8. (Filled' <=> Filled) /\ (PlainSumGroupBy(s)' <=> PlainSumGroupBy(s))
  BY <1>2 DEF Filled, PlainSumGroupBy
<1>9. DenseTyped'
  BY <1>1, <1>2, <1>8 DEF DenseTyped
<1>10. Storing(s) /\ plan[s].storeCols = query[s].cols
  BY <1>2, <1>3 DEF StepOK, Storing
<1>11. layout'.rows = layout.rows /\ layout'.population = layout.population
  BY <1>1, <1>2 DEF StoreSegment, TableLayout
<1> DEFINE rows == Head(segs[s])
<1>12. PICK canonical, k :
        store' = [c \in Col |->
            IF c \in plan[s].storeCols
            THEN AppendColumnSlices(store[c], rows, Cuts(canonical, k, Len(rows)), plan[s].population)
            ELSE store[c]]
  BY <1>2 DEF StoreSegment
<1> HIDE DEF rows
<1>13. /\ \A c \in query[s].cols : store'[c].cells = store[c].cells \o rows /\ store'[c].population = plan[s].population
       /\ \A c \in Col \ query[s].cols : store'[c] = store[c]
  BY <1>3, <1>10, <1>12 DEF AppendColumnSlices
<1>14. Filled /\ plan[s].population = dense.population => dense.cells = table
  BY <1>1, <1>2 DEF Filling
<1>15. DenseExact'
  <2>1. CASE GroupCol \in query[s].cols
    BY <1>2, <1>8, <1>13, <1>14, <2>1 DEF DenseExact
  <2>2. CASE GroupCol \notin query[s].cols
    BY <1>1, <1>2, <1>3, <1>8, <1>13, <2>2 DEF DenseExact, Resident
  <2> QED BY <2>1, <2>2
<1>16. segs'[s] = <<>> => \A c \in query[s].cols : Resident(c)'
  <2> SUFFICES ASSUME segs'[s] = <<>>, NEW c \in query[s].cols PROVE store'[c].cells # <<>>
    BY DEF Resident
  <2>1. Storing(s)'
    BY <1>2 DEF PinnedInv, CacheOK, StepOK
  <2>2. PICK list \in Listings(query[s]) : \E n \in 0 .. Len(list) :
          store'[c].cells = [i \in 1 .. n |-> list[i]] /\ Remain(segs'[s], list, n)
    <3>1. PICK list \in Listings(query'[s]) : \E n \in 0 .. Len(list) :
              Prefix(query[s].cols, list, n)' /\ Remain(segs'[s], list, n)
      BY <2>1, Zenon DEF Storing
    <3>2. PICK n \in 0 .. Len(list) : Prefix(query[s].cols, list, n)' /\ Remain(segs'[s], list, n)
      BY <3>1
    <3>3. store'[c].cells = [i \in 1 .. n |-> list[i]]
      BY <1>2, <3>2 DEF Prefix
    <3> QED BY <1>2, <3>2, <3>3
  <2>6. PICK n \in 0 .. Len(list) : store'[c].cells = [i \in 1 .. n |-> list[i]] /\ Remain(segs'[s], list, n)
    BY <2>2
  <2>3. Len(list) \in Nat /\ Len(list) # 0
    BY <1>2, SomethingListed
  <2>4. n = Len(list)
    BY <2>3, <2>6, RemainAll
  <2>5. 1 \in DOMAIN store'[c].cells
    BY <2>3, <2>4, <2>6
  <2> QED BY <2>5
<1>17. Anchored(s)'
  <2> SUFFICES ASSUME Filled, layout.rows # 0, layout.population = dense.population, NEW c \in {GroupCol, ValueCol}
               PROVE  \/ Resident(c)' /\ store'[c].population = dense.population
                      \/ c \in query[s].cols /\ segs'[s] # <<>>
    BY <1>2, <1>8, <1>10, <1>11 DEF Anchored
  <2>1. plan[s].population = dense.population
    BY <1>1, <1>2 DEF Filling
  <2>2. CASE c \in query[s].cols
    BY <1>13, <1>16, <2>1, <2>2
  <2>3. CASE c \notin query[s].cols
    BY <1>1, <1>3, <1>10, <1>13, <2>3 DEF Anchored, Resident
  <2> QED BY <2>2, <2>3
<1>18. PlainSumGroupBy(s) =>
          /\ segs'[s] = <<>>
          /\ \A c \in {GroupCol, ValueCol} : store'[c].cells = rows /\ store'[c].population = plan[s].population
  <2> SUFFICES ASSUME PlainSumGroupBy(s)
               PROVE  /\ segs'[s] = <<>>
                      /\ \A c \in {GroupCol, ValueCol} :
                            store'[c].cells = rows /\ store'[c].population = plan[s].population
    OBVIOUS
  <2>1. query[s].kind # "pin" /\ {GroupCol, ValueCol} \subseteq query[s].cols
    BY DEF PlainSumGroupBy, SumGroupBy
  <2>2. PICK list \in Listings(query[s]) : \E n \in 0 .. Len(list) :
            Prefix(query[s].cols, list, n) /\ n = 0 /\ Len(segs[s]) = 1
    BY <1>2, <1>10, <2>1 DEF Storing
  <2>3. Prefix(query[s].cols, list, 0) /\ Len(segs[s]) = 1
    BY <2>2
  <2>4. \A c \in query[s].cols : store[c].cells = <<>>
    BY <2>3 DEF Prefix
  <2>5. segs'[s] = <<>> /\ rows \in Seq(Nat)
    <3>1. Len(segs[s]) <= 1
      BY <2>3
    <3>2. 1 \in DOMAIN segs[s] /\ rows = segs[s][1]
      BY <1>2, <1>3, OnePart DEF rows
    <3> QED BY <1>2, <1>3, <1>4, <3>1, <3>2, TailOfOne
  <2>6. <<>> \o rows = rows
    BY <2>5
  <2> QED BY <1>13, <2>1, <2>4, <2>5, <2>6
<1>19. Filling(s)'
  <2>1. PlainSumGroupBy(s) => ~Filled \/ dense.population # plan[s].population
    BY <1>1, <1>2 DEF Filling
  <2>2. plan[s].population # 0 /\ (layout.rows # 0 => plan[s].population = layout.population)
    BY <1>1, <1>2 DEF Filling
  <2>3. pending'[s] # <<>> => PlainSumGroupBy(s) /\ pending'[s] = rows
    BY <1>4 DEF rows
  <2> QED BY <1>2, <1>8, <1>11, <1>14, <1>18, <2>1, <2>2, <2>3 DEF Filling
<1> QED BY <1>6, <1>7, <1>9, <1>15, <1>17, <1>19, DenseTogether

\* The batch just stored starts the dense table of its population, unless a NULL keeps it out.
LEMMA DenseAdds ==
    ASSUME DenseInv, NEW s \in Session, DenseAccumulate(s), PinnedInv'
    PROVE  DenseInv'
<1>1. /\ PinnedInv /\ PopulationInv /\ DenseTyped /\ DenseExact /\ Anchored(s) /\ Filling(s) /\ Reading(s)
      /\ Shaped(query[s]) /\ counter \in Nat /\ plan[s].population \in Nat
  BY DenseKnown
<1> DEFINE rows == pending[s]
           id == plan[s].population
<1>2. /\ rows # <<>> /\ dense' = Accumulated(dense, id, rows) /\ pending' = [pending EXCEPT ![s] = <<>>]
      /\ UNCHANGED <<vars, seen, summand>>
  BY DEF DenseAccumulate
<1>3. UNCHANGED <<store, layout, counter, table, pc, query, segs, plan, answer>>
  BY <1>2 DEF vars
<1>4. /\ PinnedTypeOK /\ CacheInv /\ TableOK /\ ColumnsOK /\ GroupCol \in Col
  BY <1>1, PinnedKnown
<1>5. /\ dense.cells \in Seq(Nat) /\ rows \in Seq(Nat) /\ DenseTable(dense) /\ pending'[s] = <<>>
  BY <1>2, <1>4 DEF PinnedTypeOK
<1>6. /\ pc[s] = "store" /\ PlainSumGroupBy(s) /\ segs[s] = <<>> /\ id # 0
      /\ \A c \in {GroupCol, ValueCol} : store[c].cells = rows /\ store[c].population = id
      /\ ~Filled \/ dense.population # id
  BY <1>1, <1>2 DEF Filling
<1>7. dense.population = id => dense.cells = <<>> /\ ~dense.ready
  BY <1>1, <1>6 DEF Filled, DenseTyped
<1>8. /\ dense'.population = id
      /\ \/ dense'.cells = <<>> /\ ~dense'.ready
         \/ dense'.cells = rows /\ dense'.ready
  <2> DEFINE null == HasNull(rows)
             base == Base(dense, id)
  <2>1. /\ dense'.population = id /\ dense'.cells = (IF null THEN base ELSE base \o rows)
        /\ dense'.ready = IF null THEN (IF dense.population = id THEN dense.ready ELSE FALSE) ELSE TRUE
    <3> HIDE DEF rows, id
    <3>1. AddedTo(Accumulated(dense, id, rows), dense, id, rows)
      BY <1>5, AccumulatedIs
    <3>2. AddedTo(dense', dense, id, rows)
      BY <1>2, <3>1
    <3> QED BY <3>2 DEF AddedTo
  <2>2. base = <<>>
    BY <1>7 DEF Base
  <2>3. <<>> \o rows = rows
    BY <1>5
  <2> HIDE DEF base, null, rows, id
  <2>4. CASE null
    <3>1. dense'.cells = <<>> /\ (dense'.ready => dense.population = id /\ dense.ready)
      BY <2>1, <2>2, <2>4
    <3> QED BY <1>7, <2>1, <3>1
  <2>5. CASE ~null
    BY <2>1, <2>2, <2>3, <2>5
  <2> QED BY <2>4, <2>5
<1> HIDE DEF rows, id
<1>9. Filled' <=> dense'.ready
  BY <1>2, <1>8 DEF Filled
<1>10. Filled' => dense'.cells = rows
  BY <1>8 DEF Filled
<1>11. DenseTyped'
  <2>1. id \in Nat /\ id <= counter
    BY <1>1 DEF PopulationInv, id
  <2> QED BY <1>3, <1>6, <1>8, <1>9, <2>1 DEF DenseTyped
<1>12. DenseExact'
  <2> SUFFICES ASSUME Filled', store[GroupCol].rows = Len(table) PROVE dense'.cells = table
    BY <1>3 DEF DenseExact
  <2>1. store[GroupCol].cells = table
    BY <1>4, FullColumn
  <2> QED BY <1>6, <1>10, <2>1
<1>13. Anchored(s)'
  BY <1>2, <1>3, <1>6, <1>8 DEF Anchored, Resident
<1>14. PlainSumGroupBy(s)'
  BY <1>2, <1>3, <1>6 DEF PlainSumGroupBy
<1>15. Filling(s)'
  <2>1. id # 0 /\ (layout.rows # 0 => id = layout.population)
    BY <1>1, <1>6 DEF Filling, id
  <2> QED BY <1>3, <1>5, <1>6, <1>14, <2>1 DEF Filling, id
<1>16. Reading(s)' /\ Shaped(query'[s]) /\ AnsweredOK(s)'
  BY <1>1, <1>2, <1>3, <1>6 DEF Reading, AnsweredOK
<1>17. PopulationInv'
  <2>1. [Next]_vars
    BY <1>2
  <2> QED BY <1>6, <2>1, DenseStep
<1> QED BY <1>11, <1>12, <1>13, <1>15, <1>16, <1>17, DenseTogether

-----------------------------------------------------------------------------
(* The dense table: reading it, and the steps beside it *)

\* A table that is readable under the population seen holds the rows of the columns: reading it
\* is reading them.
LEMMA DenseServes ==
    ASSUME DenseInv, NEW s \in Session, DenseServe(s)
    PROVE  ServeCached(s)
<1>1. PinnedInv /\ DenseTyped /\ DenseExact /\ Reading(s)
  BY DenseKnown
<1>2. /\ CacheInv /\ TableOK /\ ColumnsOK /\ StepOK(s) /\ query[s].cols \in SUBSET Col
      /\ Len(table) \in Nat /\ DOMAIN table = 1 .. Len(table) /\ GroupCol \in Col
  BY <1>1, PinnedKnown
<1> DEFINE cols == query[s].cols
           n == Len(table)
<1>3. /\ pc[s] = "exec" /\ seen[s] # 0 /\ dense.ready /\ dense.population = seen[s]
      /\ pc' = [pc EXCEPT ![s] = "done"] /\ UNCHANGED <<query, todo, segs, plan, cacheVars, tableVars>>
      /\ answer' = [answer EXCEPT ![s] =
            [status |-> "rows", rows |-> {<<i, [c \in cols |-> dense.cells[i]]>> : i \in DOMAIN dense.cells}]]
  BY DEF DenseServe, DenseReadable
<1>4. TriesDense(query[s]) /\ seen[s] = store[GroupCol].population
  BY <1>1, <1>3 DEF Reading
<1>5. cols = {GroupCol, ValueCol} /\ query[s].filter = "none" /\ GroupCol \in cols
  BY <1>4 DEF TriesDense, SumGroupBy
<1>6. MlxCacheHas(cols, n) /\ n > 0
  BY <1>2, <1>3 DEF StepOK
<1>7. dense.cells = table
  <2>1. Filled
    BY <1>1, <1>3 DEF DenseTyped
  <2>2. Resident(GroupCol) /\ store[GroupCol].rows = Len(table)
    BY <1>5, <1>6 DEF MlxCacheHas
  <2> QED BY <1>1, <1>3, <1>4, <2>1, <2>2 DEF DenseExact
<1>8. Hold(cols, table)
  BY <1>2, <1>6, FullColumn DEF Hold, MlxCacheHas
<1> HIDE DEF cols
<1>9. ReadSegments(cols, "none", GroupCol) = RowsOf(cols, table, n, "none", GroupCol)
  <2>1. n \in Nat \ {0} /\ n = Len(table)
    BY <1>2, <1>6
  <2>2. cols \in SUBSET Col
    BY <1>2 DEF cols
  <2> HIDE DEF n
  <2> QED BY <1>2, <1>5, <1>8, <2>1, <2>2, ReadList
<1>10. RowsOf(cols, table, n, "none", GroupCol)
         = [status |-> "rows", rows |-> {<<i, [c \in cols |-> table[i]]>> : i \in 1 .. n}]
  <2>1. {i \in 1 .. n : "none" = "none" \/ [c \in cols |-> table][GroupCol][i] \in Keep} = 1 .. n
    OBVIOUS
  <2>2. Masked(cols, [c \in cols |-> table], n, "none", GroupCol) = {<<i, [c \in cols |-> table[i]]>> : i \in 1 .. n}
    BY <2>1 DEF Masked
  <2> QED BY <2>2, Zenon DEF RowsOf
<1>11. answer' = [answer EXCEPT ![s] = ReadSegments(cols, query[s].filter, GroupCol)]
  <2> DEFINE found == {<<i, [c \in cols |-> dense.cells[i]]>> : i \in DOMAIN dense.cells}
             right == {<<i, [c \in cols |-> table[i]]>> : i \in 1 .. n}
  <2>1. found = right
    BY <1>2, <1>7
  <2>2. answer' = [answer EXCEPT ![s] = [status |-> "rows", rows |-> found]]
    BY <1>3
  <2>3. ReadSegments(cols, query[s].filter, GroupCol) = [status |-> "rows", rows |-> right]
    BY <1>5, <1>9, <1>10
  <2> HIDE DEF found, right
  <2> QED BY <2>1, <2>2, <2>3
<1> QED BY <1>3, <1>5, <1>11 DEF ServeCached, cols

\* A request planned, scanned, pinned, evaluated or served.
LEMMA DenseRequests ==
    ASSUME DenseInv, NEW s \in Session, PinnedInv', [Next]_vars, pc[s] \notin {"store", "done"}, pc'[s] # "store",
           UNCHANGED <<dense, pending, seen, layout, counter, table>>,
           \A c \in Col : /\ store'[c].cells = store[c].cells /\ store'[c].rows = store[c].rows
                          /\ store'[c].population = store[c].population,
           seen[s] # 0 => pc'[s] = "done" /\ query'[s] = query[s], Shaped(query'[s])
    PROVE  DenseInv'
<1>1. PinnedInv /\ Reading(s)
  BY DenseKnown
<1>2. GroupCol \in Col /\ ValueCol \in Col
  BY <1>1, PinnedKnown
<1>3. PopulationInv' /\ AnsweredOK(s)'
  BY DenseStep
<1>4. Reading(s)'
  BY <1>1 DEF Reading, TriesDense, SumGroupBy
<1> QED BY <1>2, <1>3, <1>4, DenseKept

\* The steps after an answer, and those that only look.
LEMMA DenseAside ==
    ASSUME DenseInv, NEW s \in Session, PinnedInv', UNCHANGED vars, pc[s] # "store",
           UNCHANGED <<dense, pending>>, Reading(s)'
    PROVE  DenseInv'
<1>1. UNCHANGED <<store, layout, counter, table, pc, query, answer>>
  BY DEF vars
<1>2. PinnedInv /\ PopulationInv /\ Shaped(query[s]) /\ AnsweredOK(s)
  BY DenseKnown
<1>3. PopulationInv'
  <2>1. [Next]_vars
    OBVIOUS
  <2>2. CacheInv
    BY <1>2, PinnedKnown
  <2> QED BY <1>2, <2>1, <2>2, NextPopulationInv
<1>4. AnsweredOK(s)'
  <2>1. Correct(s)' <=> Correct(s)
    BY <1>1, CorrectIs
  <2>2. AnswerOK(s) => AnswerOK(s)'
    BY <1>1, <2>1 DEF AnswerOK, SomeRowKept
  <2> QED BY <1>1, <1>2, <2>2 DEF AnsweredOK
<1> QED BY <1>1, <1>2, <1>3, <1>4, DenseKept


LEMMA DensePlans ==
    ASSUME DenseInv, NEW s \in Session, PinnedInv', NEW kind \in Kinds, NEW cols \in ColSets, NEW filter \in Filters,
           PinnedPlan(s, kind, cols, filter)
    PROVE  DenseInv'
<1>1. PinnedInv /\ OneDenseShape
  BY DenseKnown
<1>2. Plan(s, kind, cols, filter) /\ [Next]_vars
  BY <1>1, PlanIs
<1>3. DOMAIN pc = Session /\ DOMAIN query = Session
  BY <1>1, PinnedKnown
<1>4. /\ pc[s] = "idle" /\ pc'[s] \in {"exec", "scan"} /\ query'[s].cols = cols
      /\ UNCHANGED <<store, layout, counter, table>>
  BY <1>2, <1>3 DEF Plan, PlanAs, cacheVars, tableVars
<1>5. UNCHANGED <<dense, pending, seen>>
  BY DEF PinnedPlan
<1>6. seen[s] = 0
  BY <1>1, <1>4, Quiet
<1>7. Shaped(query'[s])
  BY <1>1, <1>4 DEF Shaped, OneDenseShape
<1> QED BY <1>2, <1>4, <1>5, <1>6, <1>7, DenseRequests

LEMMA DenseScans ==
    ASSUME DenseInv, NEW s \in Session, PinnedInv',
           PinnedFinalize(s) \/ PinnedPin(s) \/ PinnedFuse(s)
               \/ ((CombineThread(s) \/ EvalPopulated(s)) /\ UNCHANGED denseVars)
    PROVE  DenseInv'
<1>1. PinnedInv /\ Shaped(query[s])
  BY DenseKnown
<1>2. /\ DOMAIN pc = Session /\ DOMAIN query = Session
      /\ \A c \in Col : store[c] \in CachedColumn
  BY <1>1, PinnedKnown
<1>3. UNCHANGED denseVars
  BY DEF PinnedFinalize, PinnedPin, PinnedFuse
<1>4. UNCHANGED <<dense, pending, seen>>
  BY <1>3 DEF denseVars
<1>5. CASE PinnedFinalize(s)
  <2>1. Finalize(s) /\ [Next]_vars
    BY <1>5 DEF PinnedFinalize, Next, Run
  <2>2. /\ pc[s] = "scan" /\ pc'[s] \in {"done", "begin"} /\ UNCHANGED <<query, store, layout, counter, table>>
    BY <1>2, <2>1 DEF Finalize, cacheVars, tableVars
  <2>3. seen[s] = 0
    BY <1>1, <2>2, Quiet
  <2> QED BY <1>1, <1>4, <2>1, <2>2, <2>3, DenseRequests
<1>6. CASE PinnedPin(s)
  <2>1. PinTable(s) /\ [Next]_vars
    BY <1>6 DEF PinnedPin, Next, Request
  <2>2. /\ pc[s] = "idle" /\ pc'[s] \in {"fuse", "begin"} /\ UNCHANGED <<store, layout, counter, table>>
        /\ query'[s].kind = "pin"
    BY <1>2, <2>1 DEF PinTable, cacheVars, tableVars
  <2>3. seen[s] = 0
    BY <1>1, <2>2, Quiet
  <2>4. Shaped(query'[s])
    BY <2>2 DEF Shaped
  <2> QED BY <1>1, <1>4, <2>1, <2>2, <2>3, <2>4, DenseRequests
<1>7. CASE PinnedFuse(s)
  <2>1. FuseTable(s) /\ [Next]_vars
    BY <1>7 DEF PinnedFuse, Next, Run
  <2>2. /\ pc[s] = "fuse" /\ pc'[s] \in {"eval", "done"} /\ UNCHANGED <<query, layout, counter, table>>
        /\ store' = [c \in Col |-> FuseCachedColumn(store[c])]
    BY <1>2, <2>1 DEF FuseTable, tableVars
  <2>3. seen[s] = 0
    BY <1>1, <2>2, Quiet
  <2>4. ASSUME NEW c \in Col
        PROVE  /\ store'[c].cells = store[c].cells /\ store'[c].rows = store[c].rows
               /\ store'[c].population = store[c].population
    <3>1. store[c] \in CachedColumn /\ store'[c] = FuseCachedColumn(store[c])
      BY <1>2, <2>2
    <3> QED BY <3>1 DEF FuseCachedColumn, CachedColumn
  <2> QED BY <1>1, <1>4, <2>1, <2>2, <2>3, <2>4, DenseRequests
<1>8. CASE CombineThread(s) \/ EvalPopulated(s)
  <2>1. [Next]_vars
    BY <1>8 DEF Next, Run
  <2>2. /\ pc[s] \in {"scan", "eval"} /\ pc'[s] \in {"scan", "done"} /\ UNCHANGED <<query, store, layout, counter, table>>
    BY <1>2, <1>8 DEF CombineThread, EvalPopulated, cacheVars, tableVars
  <2>3. seen[s] = 0
    BY <1>1, <2>2, Quiet
  <2> QED BY <1>1, <1>4, <2>1, <2>2, <2>3, DenseRequests
<1> QED BY <1>5, <1>6, <1>7, <1>8

LEMMA DenseAnswers ==
    ASSUME DenseInv, NEW s \in Session, PinnedInv',
           PinnedServeFused(s) \/ PinnedServeSegments(s) \/ ServeQ1(s) \/ DenseServe(s)
    PROVE  DenseInv'
<1>1. PinnedInv /\ Shaped(query[s])
  BY DenseKnown
<1>2. DOMAIN pc = Session
  BY <1>1, PinnedKnown
<1>3. ServeCached(s) \/ ServeGroupedFused(s)
  BY <1>1, Q1Serves, DenseServes DEF PinnedServeFused, PinnedServeSegments, DenseServeFused, DenseServeCached
<1>4. UNCHANGED denseVars
  BY DEF PinnedServeFused, PinnedServeSegments, DenseServeFused, DenseServeCached, ServeQ1, DenseServe
<1>5. UNCHANGED <<dense, pending, seen>>
  BY <1>4 DEF denseVars
<1>6. [Next]_vars
  BY <1>3 DEF Next, Run
<1>7. /\ pc[s] = "exec" /\ pc'[s] = "done" /\ UNCHANGED <<query, store, layout, counter, table>>
  BY <1>2, <1>3 DEF ServeCached, ServeGroupedFused, cacheVars, tableVars
<1> QED BY <1>1, <1>5, <1>6, <1>7, DenseRequests


\* The steps after an answer and between the locks of a read.
LEMMA DenseLooks ==
    ASSUME DenseInv, NEW s \in Session, PinnedInv',
           MaterializeDiscPrice(s) \/ MaterializeCharge(s) \/ MaterializeQ1(s) \/ DictInstall(s) \/ ReadDict(s)
               \/ ReadPopulation(s)
    PROVE  DenseInv'
<1>1. PinnedInv /\ Reading(s)
  BY DenseKnown
<1>2. PinnedTypeOK /\ StageOK(s)
  BY <1>1, PinnedKnown
<1>3. CASE ReadPopulation(s)
  <2>1. /\ pc[s] = "exec" /\ TriesDense(query[s]) /\ seen' = [seen EXCEPT ![s] = store[GroupCol].population]
        /\ UNCHANGED <<vars, dense, pending>>
    BY <1>3 DEF ReadPopulation
  <2>2. UNCHANGED <<pc, query, store>> /\ seen'[s] = store[GroupCol].population
    BY <1>2, <2>1 DEF vars, PinnedTypeOK, DenseTable
  <2>3. Reading(s)'
    BY <2>1, <2>2 DEF Reading, TriesDense, SumGroupBy
  <2> QED BY <2>1, <2>3, DenseAside
<1>4. CASE MaterializeDiscPrice(s) \/ MaterializeCharge(s) \/ MaterializeQ1(s) \/ DictInstall(s) \/ ReadDict(s)
  <2>1. /\ stage[s] \in {"disc_price", "charge", "bundle", "install"} \/ pc[s] = "exec"
        /\ UNCHANGED <<vars, denseVars>>
    BY <1>4 DEF MaterializeDiscPrice, MaterializeCharge, MaterializeQ1, DictInstall, ReadDict, allVars
  <2>2. pc[s] # "store"
    <3>1. CASE pc[s] = "exec"
      BY <3>1
    <3>2. CASE pc[s] # "exec"
      BY <1>1, <2>1, <3>2, Quiet
    <3> QED BY <3>1, <3>2
  <2>3. UNCHANGED <<dense, pending, seen, pc, query, store>>
    BY <2>1 DEF denseVars, vars
  <2>4. Reading(s)'
    BY <1>1, <2>3 DEF Reading, TriesDense, SumGroupBy
  <2> QED BY <2>1, <2>2, <2>3, <2>4, DenseAside
<1> QED BY <1>3, <1>4

\* The last segment is stored.
LEMMA DenseStops ==
    ASSUME DenseInv, NEW s \in Session, PinnedInv', DenseStoreDone(s)
    PROVE  DenseInv'
<1>1. PinnedInv /\ Reading(s) /\ Shaped(query[s])
  BY DenseKnown
<1>2. DOMAIN pc = Session /\ GroupCol \in Col
  BY <1>1, PinnedKnown
<1>3. /\ pending[s] = <<>> /\ StoreDone(s) /\ UNCHANGED <<dense, pending, seen>>
  BY DEF DenseStoreDone, denseVars
<1>4. /\ pc[s] = "store" /\ segs[s] = <<>> /\ pc'[s] = "fuse"
      /\ UNCHANGED <<query, store, layout, counter, table>>
  BY <1>2, <1>3 DEF StoreDone, cacheVars, tableVars
<1>5. [Next]_vars
  BY <1>3 DEF Next, Run
<1>6. PopulationInv' /\ AnsweredOK(s)'
  BY <1>4, <1>5, DenseStep
<1>7. Reading(s)'
  BY <1>1, <1>3, <1>4 DEF Reading
<1> QED BY <1>1, <1>3, <1>4, <1>6, <1>7, DenseKept

\* mlx_cache_clear leaves no table and no column.
LEMMA DenseClears ==
    ASSUME DenseInv, NEW s \in Session, PinnedInv', PinnedClearAll(s)
    PROVE  DenseInv'
<1>1. PinnedInv /\ Filling(s) /\ Reading(s) /\ Shaped(query[s]) /\ counter \in Nat
  BY DenseKnown
<1>2. /\ ClearAll(s) /\ dense' = NoDense /\ UNCHANGED <<pending, seen, summand>>
      /\ pc[s] = "idle" /\ layout' = NoLayout /\ counter' = counter /\ UNCHANGED sessionVars
  BY DEF PinnedClearAll, DenseClearAll, ClearAll
<1>3. UNCHANGED <<pc, query, segs, plan>>
  BY <1>2 DEF sessionVars
<1>4. ~Filled' /\ dense'.ready = FALSE /\ dense'.population = 0
  BY <1>2 DEF Filled, NoDense
<1>5. [Next]_vars
  BY <1>2 DEF Next, Request
<1>6. PopulationInv' /\ AnsweredOK(s)'
  BY <1>2, <1>5, DenseStep
<1>7. DenseTyped' /\ DenseExact' /\ Anchored(s)'
  BY <1>1, <1>2, <1>4 DEF DenseTyped, DenseExact, Anchored
<1>8. Filling(s)'
  BY <1>1, <1>2, <1>3 DEF Filling
<1>9. Reading(s)'
  BY <1>1, <1>2, <1>3 DEF Reading
<1> QED BY <1>1, <1>3, <1>6, <1>7, <1>8, <1>9, DenseTogether

\* After an INSERT no cached column is complete.
LEMMA DenseInserts ==
    ASSUME DenseInv, NEW s \in Session, PinnedInv', Insert(s), UNCHANGED denseVars
    PROVE  DenseInv'
<1>1. /\ PinnedInv /\ Filling(s) /\ Reading(s) /\ Anchored(s) /\ DenseTyped /\ Shaped(query[s])
  BY DenseKnown
<1> DEFINE N == Len(table)
           cells == store[GroupCol].cells
<1>2. /\ N \in Nat /\ table \in Seq(Nat) /\ GroupCol \in Col /\ ColumnsOK /\ cells \in Seq(Nat)
      /\ store[GroupCol].rows = Len(cells)
  BY <1>1, PinnedKnown
<1>3. /\ pc[s] = "idle" /\ UNCHANGED <<cacheVars, sessionVars>> /\ table' = Append(table, written + 1)
      /\ UNCHANGED <<dense, pending, seen, summand>>
  BY DEF Insert, denseVars
<1>4. UNCHANGED <<pc, query, segs, plan, store, layout, counter>>
  BY <1>3 DEF sessionVars, cacheVars
<1>5. [Next]_vars
  BY DEF Next, Request
<1>6. PopulationInv' /\ AnsweredOK(s)'
  BY <1>3, <1>5, DenseStep
<1>7. Len(table') = N + 1
  BY <1>2, <1>3
<1>8. store[GroupCol].rows # N + 1
  <2> SUFFICES ASSUME Len(cells) = N + 1 PROVE FALSE
    BY <1>2
  <2>1. Increasing(cells) /\ \A i \in DOMAIN cells : cells[i] \in 1 .. N
    BY <1>2 DEF ColumnsOK
  <2>2. N + 1 \in Nat /\ 1 .. N \subseteq 1 .. N + 1 /\ DOMAIN cells = 1 .. N + 1
    BY <1>2
  <2>3. cells \in [1 .. N + 1 -> 1 .. N + 1]
    <3>1. cells = [i \in 1 .. Len(cells) |-> cells[i]]
      BY <1>2, SeqIsFunction
    <3> HIDE DEF cells, N
    <3> QED BY <2>1, <2>2, <3>1
  <2>4. \A i \in 1 .. N + 1 : cells[i] = i
    <3> HIDE DEF cells, N
    <3> QED BY <2>1, <2>2, <2>3, IncreasingIsAll
  <2>5. N + 1 \in 1 .. N + 1 /\ N + 1 \notin 1 .. N
    BY <1>2
  <2> HIDE DEF cells, N
  <2> QED BY <2>1, <2>2, <2>4, <2>5
<1>9. DenseExact'
  BY <1>4, <1>7, <1>8 DEF DenseExact
<1>10. DenseTyped' /\ Anchored(s)'
  <2>1. Filled' <=> Filled
    BY <1>3 DEF Filled
  <2> QED BY <1>1, <1>3, <1>4, <2>1 DEF DenseTyped, Anchored, Resident
<1>11. Filling(s)' /\ Reading(s)'
  BY <1>1, <1>3, <1>4 DEF Filling, Reading
<1> QED BY <1>1, <1>4, <1>6, <1>9, <1>10, <1>11, DenseTogether

\* A read that ends in an error, and the end of a request.
LEMMA DenseEnds ==
    ASSUME DenseInv, NEW s \in Session, PinnedInv', ServeBoundSegments(s) \/ PinnedReturn(s)
    PROVE  DenseInv'
<1>1. PinnedInv /\ Reading(s) /\ Shaped(query[s]) /\ PopulationInv
  BY DenseKnown
<1>2. /\ DOMAIN pc = Session /\ DOMAIN query = Session /\ DOMAIN answer = Session /\ PinnedTypeOK
      /\ CacheInv /\ \A t \in Session : t = s
  BY <1>1, PinnedKnown
<1>3. CASE ServeBoundSegments(s)
  <2> DEFINE a == [status |-> "mismatch", rows |-> {}]
  <2>1. /\ pc[s] = "exec" /\ pc' = [pc EXCEPT ![s] = "done"] /\ answer' = [answer EXCEPT ![s] = a]
        /\ UNCHANGED <<query, plan, cacheVars, tableVars, denseVars>>
    BY <1>3 DEF ServeBoundSegments
  <2>2. UNCHANGED <<store, layout, counter, table, dense, pending, seen>>
    BY <2>1 DEF cacheVars, tableVars, denseVars
  <2>3. pc'[s] = "done" /\ answer'[s].status = "mismatch"
    BY <1>2, <2>1
  <2>4. PopulationInv'
    <3>1. \A t \in Session : plan'[t].population \in {plan[t].population, 0}
      BY <2>1
    <3>2. \A t \in Session : pc'[t] = "done" /\ ~Populating(t)'
      BY <1>2, <2>3 DEF Populating
    <3> QED BY <1>1, <1>2, <2>2, <3>1, <3>2, OtherKeepPopulationInv
  <2>5. AnsweredOK(s)' /\ Reading(s)'
    BY <1>1, <2>1, <2>2, <2>3 DEF AnsweredOK, Reading, TriesDense, SumGroupBy
  <2> QED BY <1>1, <2>1, <2>2, <2>3, <2>4, <2>5, DenseKept
<1>4. CASE PinnedReturn(s)
  <2>1. /\ Return(s) /\ seen' = [seen EXCEPT ![s] = 0] /\ UNCHANGED <<dense, pending>>
    BY <1>4 DEF PinnedReturn, DenseReturn
  <2>2. /\ pc[s] = "done" /\ pc'[s] = "idle" /\ query'[s] = NoQuery /\ UNCHANGED <<store, layout, counter, table>>
        /\ seen'[s] = 0
    BY <1>2, <2>1 DEF Return, cacheVars, tableVars, PinnedTypeOK, DenseTable
  <2>3. PopulationInv'
    <3>1. [Next]_vars
      BY <2>1 DEF Next
    <3> QED BY <1>1, <1>2, <3>1, NextPopulationInv
  <2>4. Reading(s)' /\ AnsweredOK(s)' /\ Shaped(query'[s])
    BY <2>2 DEF Reading, AnsweredOK, Shaped, NoQuery
  <2> QED BY <2>1, <2>2, <2>3, <2>4, DenseKept
<1> QED BY <1>3, <1>4


-----------------------------------------------------------------------------
(* The dense table: the theorems *)

LEMMA DenseFirst == Serial /\ SomeRowKept /\ OneDenseShape /\ PinnedInit => DenseInv
<1> SUFFICES ASSUME Serial, SomeRowKept, OneDenseShape, PinnedInit PROVE DenseInv
  OBVIOUS
<1>1. /\ Init /\ dense = NoDense /\ pending = [s \in Session |-> <<>>] /\ seen = [s \in Session |-> 0]
  BY DEF PinnedInit, DenseInit
<1>2. PinnedInv /\ PopulationInv
  BY <1>1, PinnedFirst, InitPopulationInv
<1>3. counter = 0 /\ \A s \in Session : pc[s] = "idle" /\ query[s] = NoQuery /\ seen[s] = 0 /\ pending[s] = <<>>
  BY <1>1 DEF Init
<1>4. ~Filled /\ dense.ready = FALSE /\ dense.population = 0
  BY <1>1 DEF NoDense, Filled
<1>5. DenseTyped /\ DenseExact
  BY <1>3, <1>4 DEF DenseTyped, DenseExact
<1>6. ASSUME NEW s \in Session PROVE DenseOK(s)
  BY <1>3, <1>4 DEF DenseOK, Anchored, Filling, Reading, Shaped, AnsweredOK, NoQuery
<1> QED BY <1>2, <1>5, <1>6 DEF DenseInv

LEMMA DenseStutters ==
    ASSUME DenseInv, PinnedInv', UNCHANGED <<allVars, pinnedVars>>
    PROVE  DenseInv'
<1>1. PICK s \in Session : TRUE
  <2>1. Cardinality(Session) = 1
    BY PinnedAssumption
  <2>2. Session # {}
    BY <2>1, FS_EmptySet
  <2> QED BY <2>2
<1>2. UNCHANGED vars /\ UNCHANGED denseVars
  BY DEF allVars
<1>3. /\ PopulationInv /\ PinnedInv /\ DenseTyped /\ DenseExact /\ Anchored(s) /\ Filling(s) /\ Reading(s)
      /\ Shaped(query[s]) /\ AnsweredOK(s)
  BY DenseKnown
<1>4. CASE pc[s] # "store"
  <2>1. UNCHANGED <<dense, pending, seen, pc, query, store>>
    BY <1>2 DEF denseVars, vars
  <2>2. Reading(s)'
    BY <1>3, <2>1 DEF Reading, TriesDense, SumGroupBy
  <2> QED BY <1>2, <1>4, <2>1, <2>2, DenseAside
<1>5. CASE pc[s] = "store"
  <2>1. UNCHANGED <<dense, pending, seen, summand, pc, query, store, segs, plan, layout, counter, table>>
    BY <1>2 DEF denseVars, vars
  <2>2. PopulationInv' /\ AnsweredOK(s)'
    BY <1>2, <1>5, DenseStep
  <2>3. /\ Filled' <=> Filled
        /\ PlainSumGroupBy(s)' <=> PlainSumGroupBy(s)
    BY <2>1 DEF Filled, PlainSumGroupBy, SumGroupBy
  <2>4. DenseTyped' /\ DenseExact' /\ Anchored(s)'
    BY <1>3, <2>1, <2>3 DEF DenseTyped, DenseExact, Anchored, Resident
  <2>5. Filling(s)'
    BY <1>3, <2>1, <2>3 DEF Filling
  <2>6. Reading(s)'
    BY <1>3, <2>1 DEF Reading, TriesDense, SumGroupBy
  <2> QED BY <1>3, <2>1, <2>2, <2>4, <2>5, <2>6, DenseTogether
<1> QED BY <1>4, <1>5

LEMMA DenseElsewhere ==
    ASSUME DenseInv, NEW s \in Session, PinnedInv', PinnedElsewhere(s)
    PROVE  DenseInv'
<1>1. CASE DenseAccumulate(s)
  BY <1>1, DenseAdds
<1>2. CASE DenseStoreDone(s)
  BY <1>2, DenseStops
<1>3. CASE ReadPopulation(s)
  BY <1>3, DenseLooks
<1>4. CASE DenseServe(s)
  BY <1>4, DenseAnswers
<1>5. CASE (CombineThread(s) \/ EvalPopulated(s)) /\ UNCHANGED denseVars
  BY <1>5, DenseScans
<1>6. CASE Insert(s) /\ UNCHANGED denseVars
  BY <1>6, DenseInserts
<1> QED BY <1>1, <1>2, <1>3, <1>4, <1>5, <1>6 DEF PinnedElsewhere

LEMMA DenseNext == DenseInv /\ [PinnedNext]_<<allVars, pinnedVars>> => DenseInv'
<1> SUFFICES ASSUME DenseInv, [PinnedNext]_<<allVars, pinnedVars>> PROVE DenseInv'
  OBVIOUS
<1>1. PinnedInv'
  BY PinnedStep DEF DenseInv
<1>2. CASE UNCHANGED <<allVars, pinnedVars>>
  BY <1>1, <1>2, DenseStutters
<1>3. CASE PinnedNext
  <2>1. PICK s \in Session :
        \/ \E kind \in Kinds, cols \in ColSets, filter \in Filters : PinnedPlan(s, kind, cols, filter)
        \/ PinnedFinalize(s) \/ PinnedPin(s) \/ PinnedBeginPopulation(s) \/ PinnedStoreSegment(s) \/ PinnedFuse(s)
        \/ MaterializeDiscPrice(s) \/ MaterializeCharge(s) \/ MaterializeQ1(s) \/ DictInstall(s)
        \/ PinnedClearAll(s) \/ ReadDict(s) \/ ServeQ1(s) \/ PinnedServeFused(s) \/ PinnedServeSegments(s)
        \/ ServeBoundSegments(s) \/ PinnedReturn(s) \/ PinnedElsewhere(s)
    BY <1>3, Zenon DEF PinnedNext
  <2>2. CASE \E kind \in Kinds, cols \in ColSets, filter \in Filters : PinnedPlan(s, kind, cols, filter)
    BY <1>1, <2>2, DensePlans
  <2>3. CASE PinnedFinalize(s) \/ PinnedPin(s) \/ PinnedFuse(s)
    BY <1>1, <2>3, DenseScans
  <2>4. CASE PinnedBeginPopulation(s) \/ PinnedStoreSegment(s)
    BY <1>1, <2>4, DenseBegins, DenseStores
  <2>5. CASE MaterializeDiscPrice(s) \/ MaterializeCharge(s) \/ MaterializeQ1(s) \/ DictInstall(s) \/ ReadDict(s)
    BY <1>1, <2>5, DenseLooks
  <2>6. CASE PinnedClearAll(s)
    BY <1>1, <2>6, DenseClears
  <2>7. CASE ServeQ1(s) \/ PinnedServeFused(s) \/ PinnedServeSegments(s)
    BY <1>1, <2>7, DenseAnswers
  <2>8. CASE ServeBoundSegments(s) \/ PinnedReturn(s)
    BY <1>1, <2>8, DenseEnds
  <2>9. CASE PinnedElsewhere(s)
    BY <1>1, <2>9, DenseElsewhere
  <2> QED BY <2>1, <2>2, <2>3, <2>4, <2>5, <2>6, <2>7, <2>8, <2>9
<1> QED BY <1>2, <1>3

LEMMA DenseInvariant == Serial /\ SomeRowKept /\ OneDenseShape /\ PinnedSpec => []DenseInv
BY DenseFirst, DenseNext, PTL DEF PinnedSpec

\* In serial use, where every grouping over g and v is of those two columns alone, a dense table that a query
\* would be answered from is the table itself: MlxGroupbyDenseAccumulateColumns starts over under
\* every new population, no population stores g and v twice without a new id, and a segment
\* rejected for a NULL leaves nothing behind.
THEOREM DenseTableIsColumns ==
    Serial /\ SomeRowKept /\ OneDenseShape /\ PinnedSpec => []DenseMatchesColumns
<1>1. DenseInv => DenseMatchesColumns
  <2> SUFFICES ASSUME DenseInv, MlxCacheHas({GroupCol, ValueCol}, Len(table)), dense.ready,
                      dense.population = store[GroupCol].population
               PROVE  /\ IsInjective(dense.cells) /\ Range(dense.cells) = Range(store[GroupCol].cells)
    BY DEF DenseMatchesColumns
  <2>1. PinnedInv /\ DenseTyped /\ DenseExact
    BY DEF DenseInv
  <2>2. PICK s \in Session : TRUE
    <3>1. Cardinality(Session) = 1
      BY PinnedAssumption
    <3>2. Session # {}
      BY <3>1, FS_EmptySet
    <3> QED BY <3>2
  <2>3. CacheInv /\ TableOK /\ ColumnsOK /\ GroupCol \in Col /\ DOMAIN table = 1 .. Len(table)
    BY <2>1, PinnedKnown
  <2>4. Resident(GroupCol) /\ store[GroupCol].rows = Len(table)
    BY DEF MlxCacheHas
  <2>5. dense.cells = table /\ store[GroupCol].cells = table
    BY <2>1, <2>3, <2>4, FullColumn DEF DenseTyped, DenseExact
  <2>6. \A i \in DOMAIN table : table[i] = i
    BY <2>3 DEF TableOK
  <2> QED BY <2>5, <2>6 DEF IsInjective, Range
<1> QED BY <1>1, DenseInvariant, PTL

\* What a correct answer is, column by column.
ExactColumn(q, a, c) ==
    /\ Cardinality(a.rows) = Cardinality({r[2][c] : r \in a.rows})
    /\ {r[2][c] : r \in a.rows} = {q.snapshot[i] : i \in Selected(q)}

LEMMA CorrectColumn ==
    ASSUME NEW q, NEW a, Numbered(q), CorrectFor(q, a), NEW c \in q.cols
    PROVE  ExactColumn(q, a, c)
<1> DEFINE rows == a.rows
           cellsOf(r) == {r[2][d] : d \in q.cols}
           selected == {q.snapshot[i] : i \in Selected(q)}
           found == {r[2][c] : r \in rows}
<1>1. /\ \A r \in rows : Cardinality(cellsOf(r)) = 1
      /\ \A r, t \in rows : r # t => cellsOf(r) # cellsOf(t)
      /\ UNION {cellsOf(r) : r \in rows} = selected
  BY DEF CorrectFor
<1>2. IsFiniteSet(selected)
  <2>1. selected \subseteq 1 .. Len(q.snapshot) /\ Len(q.snapshot) \in Nat
    BY DEF Numbered, Selected
  <2>2. IsFiniteSet(1 .. Len(q.snapshot))
    BY <2>1, FS_Interval
  <2> HIDE DEF selected
  <2> QED BY <2>1, <2>2, FS_Subset
<1> HIDE DEF selected
<1>3. ASSUME NEW r \in rows PROVE cellsOf(r) = {r[2][c]}
  <2>1. r[2][c] \in cellsOf(r)
    OBVIOUS
  <2> HIDE DEF cellsOf, rows
  <2>2. cellsOf(r) \subseteq selected
    BY <1>1
  <2>3. IsFiniteSet(cellsOf(r)) /\ Cardinality(cellsOf(r)) = 1
    BY <1>1, <1>2, <2>2, FS_Subset
  <2>4. PICK x : cellsOf(r) = {x}
    BY <2>3, FS_Singleton, Zenon
  <2> QED BY <2>1, <2>4
<1> HIDE DEF cellsOf, rows
<1>4. found = selected
  BY <1>1, <1>3
<1>5. \A r, t \in rows : r[2][c] = t[2][c] => r = t
  <2> SUFFICES ASSUME NEW r \in rows, NEW t \in rows, r[2][c] = t[2][c] PROVE r = t
    OBVIOUS
  <2>1. cellsOf(r) = cellsOf(t)
    BY <1>3, Zenon
  <2> QED BY <1>1, <2>1
<1>6. Cardinality(rows) = Cardinality(found)
  <2> DEFINE f == [r \in rows |-> r[2][c]]
  <2>1. /\ f \in [rows -> found] /\ \A x \in found : \E r \in rows : f[r] = x
    OBVIOUS
  <2>2. \A r, t \in rows : f[r] = f[t] => r = t
    BY <1>5
  <2>3. IsFiniteSet(found)
    BY <1>2, <1>4
  <2> HIDE DEF f, found
  <2>4. f \in Bijection(rows, found)
    BY <2>1, <2>2, Fun_IsBij
  <2>5. ExistsBijection(rows, found)
    BY <2>4 DEF ExistsBijection
  <2>6. ExistsBijection(found, rows)
    BY <2>5, Fun_ExistsBijSymmetric
  <2> QED BY <2>3, <2>6, FS_Bijection
<1> QED BY <1>4, <1>6 DEF rows, selected, ExactColumn

\* In serial use, under the same condition, a grouped answer that is not an error aggregates every selected
\* row exactly once: served by TryGroupedDenseCached, by the Q1 bundle, from the fused columns or from the
\* segments, it is what a fresh scan would have found.
THEOREM GroupedAnswersExact ==
    Serial /\ SomeRowKept /\ OneDenseShape /\ PinnedSpec => []GroupedRowsExact
<1>1. DenseInv => GroupedRowsExact
  <2> SUFFICES ASSUME DenseInv, NEW s \in Session, pc[s] = "done", query[s].kind = "group",
                      answer[s].status = "rows"
               PROVE  \E c \in query[s].cols : ExactColumn(query[s], answer[s], c)
    BY Zenon DEF GroupedRowsExact, ExactColumn
  <2>1. PinnedInv /\ SomeRowKept /\ AnsweredOK(s) /\ Numbered(query[s])
    BY DenseKnown
  <2>2. Correct(s)
    BY <2>1 DEF AnsweredOK, AnswerOK
  <2>3. CorrectFor(query[s], answer[s])
    BY <2>2, CorrectIs
  <2>4. PICK c \in query[s].cols : TRUE
    <3>1. StepOK(s)
      BY <2>1, PinnedKnown
    <3> QED BY <3>1 DEF StepOK
  <2> QED BY <2>1, <2>3, <2>4, CorrectColumn
<1> QED BY <1>1, DenseInvariant, PTL

=============================================================================
