------------------------ MODULE MlxColumnCacheProofs ------------------------
(***************************************************************************)
(* Machine-checked proofs about MlxColumnCache.                            *)
(*                                                                         *)
(* First what holds for every number of sessions, columns, threads and     *)
(* rows, under every interleaving: the bookkeeping of the columns and of   *)
(* the population ids.                                                     *)
(*                                                                         *)
(* Then what holds in serial use: one session at a time, one scan thread   *)
(* per query, and a table whose rows are never updated in place.  Runs     *)
(* show that each of the three is needed.  In serial use                   *)
(*                                                                         *)
(*   AlignedWhenServed     what MlxCacheHas accepts is row-aligned         *)
(*   AnswersAreCorrect     every query returns what the CPU engine would   *)
(*   PopulationsStayCached a populated column is served from the cache     *)
(*                                                                         *)
(* The argument.  Rows are numbered as they are inserted, and a serial     *)
(* scan reads them in order, so a column holds an increasing list of rows  *)
(* of the table; one with as many rows as the table holds them all, each   *)
(* in its place (IncreasingIsAll).  Columns of one length have the same    *)
(* segments, because a batch is cut at the boundaries of a column that is  *)
(* already resident (CutsFollow).                                          *)
(***************************************************************************)
EXTENDS MlxColumnCache, MlxProofBasics, SequenceTheorems

-----------------------------------------------------------------------------
(* Facts about the operators *)

\* AppendColumnSlice keeps a cached column well formed, and leaves it unfused:
\* MlxCacheStoreSegment always cuts at the end of the batch.
LEMMA AppendKeepsColumn ==
    ASSUME NEW col \in CachedColumn, NEW rows \in Seq(Cell), NEW population \in Nat,
           NEW canonical, NEW k,
           col.rows = Len(col.cells), col.ends \subseteq 1..col.rows,
           col.cells # <<>> => col.rows \in col.ends
    PROVE  LET new == AppendColumnSlices(col, rows, Cuts(canonical, k, Len(rows)), population)
           IN  /\ new \in CachedColumn
               /\ new.rows = Len(new.cells)
               /\ new.ends \subseteq 1..new.rows
               /\ new.cells # <<>> => new.rows \in new.ends
               /\ new.fused = <<>>
<1> DEFINE cuts == Cuts(canonical, k, Len(rows))
           new == AppendColumnSlices(col, rows, cuts, population)
<1>1. cuts \subseteq 1..Len(rows) /\ (Len(rows) > 0 => Len(rows) \in cuts)
  BY DEF Cuts
<1>2. /\ new.cells = col.cells \o rows
      /\ new.ends = col.ends \cup {col.rows + o : o \in cuts}
      /\ new.rows = col.rows + Len(rows)
      /\ new.population = population
      /\ new.fused = <<>>
  BY DEF AppendColumnSlices
<1>3. /\ col.cells \in Seq(Cell) /\ col.ends \in SUBSET Nat /\ col.rows \in Nat
      /\ Len(rows) \in Nat
  BY DEF CachedColumn
<1> HIDE DEF cuts
<1>4. new.cells \in Seq(Cell) /\ Len(new.cells) = new.rows
  BY <1>2, <1>3
<1>5. new.ends \subseteq 1..new.rows
  BY <1>1, <1>2, <1>3
<1>6. new.cells # <<>> => new.rows \in new.ends
  <2>1. CASE Len(rows) > 0
    BY <2>1, <1>1, <1>2
  <2>2. CASE Len(rows) = 0
    <3>1. rows = <<>>
      BY <2>2
    <3>2. new.cells = col.cells
      BY <3>1, <1>2, <1>3
    <3> QED
      BY <3>2, <2>2, <1>2, <1>3
  <2> QED
    BY <2>1, <2>2, <1>3
<1>7. new \in CachedColumn
  <2>1. new.ends \in SUBSET Nat
    BY <1>5
  <2> QED
    BY <2>1, <1>2, <1>3, <1>4 DEF CachedColumn, AppendColumnSlices, Cell
<1> QED
  BY <1>2, <1>4, <1>5, <1>6, <1>7 DEF cuts

\* What the readers return is typed by the columns they were asked for: columns
\* that have the same segment ends have the same length, and a fused column is
\* as long as its segments.
LEMMA ReadSegmentsType ==
    ASSUME TypeOK, ColumnWellFormed, NEW cols \in SUBSET Col, NEW fc \in cols, NEW filter
    PROVE  ReadSegments(cols, filter, fc)
             \in [status : AnswerStatus, rows : SUBSET (Nat \X [cols -> Cell])]
<1>1. CASE \E c \in cols : ~Resident(c)
  BY <1>1 DEF ReadSegments, AnswerStatus
<1>2. CASE /\ ~\E c \in cols : ~Resident(c)
           /\ \E c, d \in cols : store[c].ends # store[d].ends
  BY <1>2 DEF ReadSegments, AnswerStatus
<1>3. CASE /\ ~\E c \in cols : ~Resident(c)
           /\ ~\E c, d \in cols : store[c].ends # store[d].ends
  <2> DEFINE content == [c \in cols |-> store[c].cells]
             n == store[fc].rows
  <2>1. ASSUME NEW c \in cols
        PROVE  store[c].cells \in Seq(Cell) /\ Len(store[c].cells) = n
    <3>1. store[c] \in CachedColumn /\ store[fc] \in CachedColumn
      BY DEF TypeOK
    <3>2. /\ store[c].rows = Len(store[c].cells) /\ store[c].rows \in Nat /\ n \in Nat
          /\ store[c].ends \subseteq 1..store[c].rows /\ store[fc].ends \subseteq 1..n
          /\ store[c].rows \in store[c].ends /\ n \in store[fc].ends
      BY <1>3, <3>1 DEF ColumnWellFormed, CachedColumn
    <3>3. store[c].ends = store[fc].ends
      BY <1>3
    <3> QED
      BY <3>1, <3>2, <3>3 DEF CachedColumn
  <2>2. \A c \in cols, i \in 1..n : content[c][i] \in Cell
    BY <2>1
  <2>3. Masked(cols, content, n, filter, fc) \in SUBSET (Nat \X [cols -> Cell])
    BY <2>2 DEF Masked
  <2>4. ReadSegments(cols, filter, fc) =
          [status |-> "rows", rows |-> Masked(cols, content, n, filter, fc)]
    BY <1>3 DEF ReadSegments
  <2> QED
    BY <2>3, <2>4 DEF AnswerStatus
<1> QED
  BY <1>1, <1>2, <1>3

\* The fused path returns rows of the columns it was asked for: it combines columns
\* only when their fused copies have one length.
LEMMA ReadFusedType ==
    ASSUME TypeOK, ColumnWellFormed, FusedCurrent,
           NEW cols \in SUBSET Col, NEW fc \in cols, NEW filter
    PROVE  ReadFused(cols, filter, fc)
             \in [status : AnswerStatus, rows : SUBSET (Nat \X [cols -> Cell])]
<1>1. CASE \E c \in cols : store[c].fused = <<>>
  BY <1>1, ReadSegmentsType DEF ReadFused
<1>2. CASE /\ ~\E c \in cols : store[c].fused = <<>>
           /\ \E c, d \in cols : Len(store[c].fused) # Len(store[d].fused)
  BY <1>2 DEF ReadFused, AnswerStatus
<1>3. CASE /\ ~\E c \in cols : store[c].fused = <<>>
           /\ ~\E c, d \in cols : Len(store[c].fused) # Len(store[d].fused)
  <2> DEFINE content == [c \in cols |-> store[c].fused]
             n == store[fc].rows
  <2>1. ASSUME NEW c \in cols
        PROVE  store[c].fused \in Seq(Cell) /\ Len(store[c].fused) = n
    <3>1. store[c] \in CachedColumn /\ store[fc] \in CachedColumn
      BY DEF TypeOK
    <3>2. store[fc].fused = store[fc].cells /\ n = Len(store[fc].cells)
      BY <1>3 DEF FusedCurrent, ColumnWellFormed
    <3> QED
      BY <1>3, <3>1, <3>2 DEF CachedColumn
  <2>2. \A c \in cols, i \in 1..n : content[c][i] \in Cell
    BY <2>1
  <2>3. Masked(cols, content, n, filter, fc) \in SUBSET (Nat \X [cols -> Cell])
    BY <2>2 DEF Masked
  <2>4. ReadFused(cols, filter, fc) =
          [status |-> "rows", rows |-> Masked(cols, content, n, filter, fc)]
    BY <1>3 DEF ReadFused
  <2> QED
    BY <2>3, <2>4 DEF AnswerStatus
<1> QED
  BY <1>1, <1>2, <1>3

\* A cold grouped query answers from the rows its own threads buffered.
LEMMA OwnAnswerType ==
    ASSUME TypeOK, NEW s \in Session
    PROVE  OwnAnswer(s) \in [status : AnswerStatus, rows : SUBSET (Nat \X [query[s].cols -> Cell])]
<1> DEFINE n == Len(query[s].snapshot)
           cols == query[s].cols
           row(t, i) == <<(t - 1) * n + i, [c \in cols |-> segs[s][t][i]]>>
<1>1. n \in Nat /\ segs[s] \in Seq(Seq(Cell))
  BY DEF TypeOK, Query
<1>2. ASSUME NEW t \in DOMAIN segs[s], NEW i \in DOMAIN segs[s][t]
      PROVE  row(t, i) \in Nat \X [cols -> Cell]
  <2>1. t \in 1..Len(segs[s]) /\ segs[s][t] \in Seq(Cell)
    BY <1>1
  <2>2. i \in 1..Len(segs[s][t]) /\ segs[s][t][i] \in Cell
    BY <2>1
  <2>3. (t - 1) * n \in Nat
    <3>1. t - 1 \in Nat
      BY <2>1
    <3>2. \A a, b \in Nat : a * b \in Nat
      OBVIOUS
    <3> HIDE DEF n
    <3> QED BY <1>1, <3>1, <3>2, Zenon
  <2>4. (t - 1) * n + i \in Nat
    BY <2>2, <2>3
  <2> QED
    BY <2>2, <2>4
<1>3. UNION {{row(t, i) : i \in DOMAIN segs[s][t]} : t \in DOMAIN segs[s]}
        \in SUBSET (Nat \X [cols -> Cell])
  BY <1>2
<1> QED
  BY <1>3 DEF OwnAnswer, AnswerStatus

-----------------------------------------------------------------------------
(* The inductive invariant *)

\* What the typing of answers and of scanned segments rests on: a scan only has
\* rows of its own snapshot left to read, and an idle session holds no answer.
SessionsInStep ==
    \A s \in Session :
        /\ todo[s] \subseteq DOMAIN query[s].snapshot
        /\ pc[s] # "scan" => todo[s] = {}
        /\ pc[s] = "idle" => answer[s] = NoAnswer

CacheInv == TypeOK /\ ColumnWellFormed /\ FusedCurrent /\ SessionsInStep

\* The empty cache satisfies the invariant.
LEMMA InitCacheInv == Init => CacheInv
<1> SUFFICES ASSUME Init PROVE CacheInv
  OBVIOUS
<1> USE CacheAssumption DEF Init
<1>1. NoColumn \in CachedColumn /\ NoLayout \in TableLayout /\ NoQuery \in Query
  BY DEF NoColumn, CachedColumn, NoLayout, TableLayout, NoQuery, Query, Cell, RequestKind, FilterKind
<1>2. table \in Seq(Cell)
  BY DEF Cell
<1>3. \A s \in Session :
        answer[s] \in [status : AnswerStatus, rows : SUBSET (Nat \X [query[s].cols -> Cell])]
  BY DEF NoAnswer, AnswerStatus
<1>4. TypeOK
  BY <1>1, <1>2, <1>3 DEF TypeOK, NoPlan, PopulationPlan
<1>5. ColumnWellFormed /\ FusedCurrent
  BY DEF ColumnWellFormed, FusedCurrent, NoColumn, Resident
<1>6. SessionsInStep
  BY DEF SessionsInStep
<1> QED
  BY <1>4, <1>5, <1>6 DEF CacheInv

\* A step that leaves the cached columns alone keeps their invariants.
LEMMA StoreUnchanged ==
    ASSUME ColumnWellFormed, FusedCurrent, UNCHANGED store
    PROVE  ColumnWellFormed' /\ FusedCurrent'
BY DEF ColumnWellFormed, FusedCurrent, Resident

\* Planning a query preserves the invariant.
LEMMA PlanStep ==
    ASSUME CacheInv, NEW s \in Session, NEW kind, NEW cols \in SUBSET Col, NEW filter \in FilterKind,
           Plan(s, kind, cols, filter)
    PROVE  CacheInv'
<1> DEFINE q == [kind |-> kind, cols |-> cols, filter |-> filter,
                 cached |-> MlxCacheHas(cols, Len(table)),
                 expected |-> Len(table), snapshot |-> table]
<1>1. q \in Query
  <2>1. MlxCacheHas(cols, Len(table)) \in BOOLEAN
    BY DEF MlxCacheHas
  <2> QED
    BY <2>1 DEF CacheInv, TypeOK, Query, Plan, PlanAs, RequestKind
<1>2. /\ query' = [query EXCEPT ![s] = q]
      /\ pc' = [pc EXCEPT ![s] = IF q.cached THEN "exec" ELSE "scan"]
      /\ todo' = [todo EXCEPT ![s] = IF q.cached THEN {} ELSE Selected(q)]
      /\ pc[s] = "idle"
      /\ UNCHANGED <<segs, plan, answer, store, layout, counter, table, written>>
  BY DEF Plan, PlanAs, cacheVars, tableVars
<1>3. Selected(q) \subseteq DOMAIN q.snapshot /\ Selected(q) \subseteq Nat
  BY DEF Selected, CacheInv, TypeOK
<1> HIDE DEF q
<1>4. answer[s].rows = {} /\ answer[s].status \in AnswerStatus
  BY <1>2 DEF CacheInv, SessionsInStep, NoAnswer, AnswerStatus
<1>5. TypeOK'
  BY <1>1, <1>2, <1>3, <1>4 DEF CacheInv, TypeOK
<1>6. SessionsInStep'
  BY <1>1, <1>2, <1>3 DEF CacheInv, TypeOK, SessionsInStep
<1> QED
  BY <1>2, <1>5, <1>6, StoreUnchanged DEF CacheInv

\* The steps that only hand a session its answer.
LEMMA AnswerStep ==
    ASSUME CacheInv, NEW s \in Session,
           NEW a \in [status : AnswerStatus, rows : SUBSET (Nat \X [query[s].cols -> Cell])],
           NEW next \in {"done", "begin"}, pc[s] # "scan" \/ todo[s] = {},
           answer' = [answer EXCEPT ![s] = a],
           pc' = [pc EXCEPT ![s] = next],
           UNCHANGED <<query, todo, segs, plan, store, layout, counter, table, written>>
    PROVE  CacheInv'
<1>1. TypeOK'
  BY DEF CacheInv, TypeOK
<1>2. SessionsInStep'
  BY DEF CacheInv, TypeOK, SessionsInStep
<1> QED
  BY <1>1, <1>2, StoreUnchanged DEF CacheInv

\* Serving a planned query from the cache, by segments or fused, preserves it.
LEMMA ServeStep ==
    ASSUME CacheInv, NEW s \in Session,
           ServeCached(s) \/ ServeGroupedFused(s) \/ EvalPopulated(s)
    PROVE  CacheInv'
<1>1. query[s].cols \in SUBSET Col
  BY DEF CacheInv, TypeOK, Query
<1>2. CASE ServeCached(s)
  <2>1. PICK fc \in query[s].cols :
          answer' = [answer EXCEPT ![s] = ReadSegments(query[s].cols, query[s].filter, fc)]
    BY <1>2 DEF ServeCached
  <2> QED
    BY <1>1, <1>2, <2>1, ReadSegmentsType, AnswerStep DEF ServeCached, CacheInv, cacheVars, tableVars
<1>3. CASE ServeGroupedFused(s)
  <2>1. PICK fc \in query[s].cols :
          answer' = [answer EXCEPT ![s] = ReadFused(query[s].cols, query[s].filter, fc)]
    BY <1>3 DEF ServeGroupedFused
  <2> QED
    BY <1>1, <1>3, <2>1, ReadFusedType, AnswerStep DEF ServeGroupedFused, CacheInv, cacheVars, tableVars
<1>4. CASE EvalPopulated(s)
  <2>1. PICK fc \in query[s].cols :
          answer' = [answer EXCEPT ![s] = ReadSegments(query[s].cols, "none", fc)]
    BY <1>4 DEF EvalPopulated
  <2> QED
    BY <1>1, <1>4, <2>1, ReadSegmentsType, AnswerStep DEF EvalPopulated, CacheInv, cacheVars, tableVars
<1> QED
  BY <1>2, <1>3, <1>4

\* The end of the scan preserves it.
LEMMA FinalizeStep ==
    ASSUME CacheInv, NEW s \in Session, Finalize(s)
    PROVE  CacheInv'
<1> DEFINE own == query[s].kind = "group" \/ query[s].filter = "table"
           a == IF own THEN OwnAnswer(s) ELSE answer[s]
           next == IF query[s].filter = "table" THEN "done" ELSE "begin"
<1>1. a \in [status : AnswerStatus, rows : SUBSET (Nat \X [query[s].cols -> Cell])]
  BY OwnAnswerType DEF CacheInv, TypeOK
<1>2. /\ answer' = [answer EXCEPT ![s] = a]
      /\ pc' = [pc EXCEPT ![s] = next]
      /\ todo[s] = {}
      /\ UNCHANGED <<query, todo, segs, plan, store, layout, counter, table, written>>
  BY DEF Finalize, cacheVars, tableVars
<1>3. next \in {"done", "begin"}
  OBVIOUS
<1> HIDE DEF a, next
<1> QED
  BY <1>1, <1>2, <1>3, AnswerStep

\* Combining one scan thread preserves it.
LEMMA CombineStep ==
    ASSUME CacheInv, NEW s \in Session, CombineThread(s)
    PROVE  CacheInv'
<1>1. PICK P \in SUBSET todo[s], n \in 1..Len(query[s].snapshot) : \E f \in [1..n -> P] :
        /\ segs' = [segs EXCEPT ![s] = Append(@, [i \in 1..n |-> query[s].snapshot[f[i]]])]
        /\ todo' = [todo EXCEPT ![s] = @ \ P]
  BY DEF CombineThread
<1>2. PICK f \in [1..n -> P] :
        /\ segs' = [segs EXCEPT ![s] = Append(@, [i \in 1..n |-> query[s].snapshot[f[i]]])]
        /\ todo' = [todo EXCEPT ![s] = @ \ P]
  BY <1>1
<1>3. UNCHANGED <<pc, query, plan, answer, store, layout, counter, table, written>>
  BY DEF CombineThread, cacheVars, tableVars
<1> DEFINE seg == [i \in 1..n |-> query[s].snapshot[f[i]]]
<1>4. seg \in Seq(Cell)
  <2>1. query[s].snapshot \in Seq(Cell) /\ P \subseteq DOMAIN query[s].snapshot
    BY DEF CacheInv, TypeOK, Query, SessionsInStep
  <2>2. n \in Nat /\ \A i \in 1..n : query[s].snapshot[f[i]] \in Cell
    BY <2>1
  <2> QED
    BY <2>2
<1>5. segs[s] \in Seq(Seq(Cell))
  BY DEF CacheInv, TypeOK
<1> HIDE DEF seg
<1>6. Append(segs[s], seg) \in Seq(Seq(Cell))
  BY <1>4, <1>5
<1>7. segs' = [segs EXCEPT ![s] = Append(segs[s], seg)]
  BY <1>2 DEF seg
<1>8. TypeOK'
  BY <1>2, <1>3, <1>6, <1>7 DEF CacheInv, TypeOK
<1>9. SessionsInStep'
  BY <1>2, <1>3 DEF CacheInv, TypeOK, SessionsInStep
<1> QED
  BY <1>3, <1>8, <1>9, StoreUnchanged DEF CacheInv

\* A pin scan's chunks are segments of rows of the table.
LEMMA ChunksType ==
    ASSUME NEW rows \in Seq(Cell)
    PROVE  Chunks(rows) \in Seq(Seq(Cell))
<1> DEFINE m == (Len(rows) + ChunkRows - 1) \div ChunkRows
           hi(k) == IF k * ChunkRows < Len(rows) THEN k * ChunkRows ELSE Len(rows)
           chunk(k) == SubSeq(rows, (k - 1) * ChunkRows + 1, hi(k))
<1>1. Len(rows) \in Nat /\ ChunkRows \in Nat \ {0}
  BY CacheAssumption
<1>2. m \in Nat
  BY <1>1
<1>3. ASSUME NEW k \in 1..m
      PROVE  chunk(k) \in Seq(Cell)
  <2>1. (k - 1) * ChunkRows \in Nat /\ k * ChunkRows \in Nat
    BY <1>1
  <2>2. (k - 1) * ChunkRows + 1 \in Nat \ {0} /\ hi(k) \in Nat /\ hi(k) <= Len(rows)
    BY <2>1, <1>1
  <2>3. \A i \in (k - 1) * ChunkRows + 1 .. hi(k) : rows[i] \in Cell
    BY <2>2
  <2> QED
    BY <2>2, <2>3, SubSeqProperties
<1>4. Chunks(rows) = [k \in 1..m |-> chunk(k)]
  BY DEF Chunks
<1> HIDE DEF m, chunk
<1>5. [k \in 1..m |-> chunk(k)] \in Seq(Seq(Cell))
  BY <1>2, <1>3
<1> QED
  BY <1>4, <1>5

\* The start of mlx_pin preserves it.
LEMMA PinStep ==
    ASSUME CacheInv, NEW s \in Session, PinTable(s)
    PROVE  CacheInv'
<1> DEFINE resident == MlxCacheHas(Col, Len(table))
           q == [kind |-> "pin", cols |-> Col, filter |-> "none", cached |-> resident,
                 expected |-> Len(table), snapshot |-> table]
           next == IF resident THEN "fuse" ELSE "begin"
           chunks == IF resident THEN <<>> ELSE Chunks(table)
<1>1. q \in Query
  BY DEF CacheInv, TypeOK, Query, RequestKind, FilterKind, MlxCacheHas
<1>2. /\ pc[s] = "idle"
      /\ query' = [query EXCEPT ![s] = q]
      /\ pc' = [pc EXCEPT ![s] = next]
      /\ segs' = [segs EXCEPT ![s] = chunks]
      /\ UNCHANGED <<todo, plan, answer, store, layout, counter, table, written>>
  BY DEF PinTable, cacheVars, tableVars
<1>3. chunks \in Seq(Seq(Cell)) /\ next \in {"fuse", "begin"}
  BY ChunksType DEF CacheInv, TypeOK
<1> HIDE DEF q, next, chunks
<1>4. answer[s].rows = {} /\ answer[s].status \in AnswerStatus /\ todo[s] = {}
  BY <1>2 DEF CacheInv, SessionsInStep, NoAnswer, AnswerStatus
<1>5. TypeOK'
  BY <1>1, <1>2, <1>3, <1>4 DEF CacheInv, TypeOK
<1>6. SessionsInStep'
  BY <1>1, <1>2, <1>3, <1>4 DEF CacheInv, TypeOK, SessionsInStep
<1> QED
  BY <1>2, <1>5, <1>6, StoreUnchanged DEF CacheInv

\* The missing column is a cached column.
LEMMA NoColumnType == NoColumn \in CachedColumn
BY DEF NoColumn, CachedColumn, Cell

\* MlxCacheBeginPopulation preserves it: a dropped column is an empty one.
LEMMA BeginStep ==
    ASSUME CacheInv, NEW s \in Session, BeginPopulation(s)
    PROVE  CacheInv'
<1> DEFINE q == query[s]
           mismatch == \E c \in Col : Resident(c) /\ store[c].rows # q.expected
           layout1 == IF mismatch THEN NoLayout ELSE layout
           fresh == layout1.rows # q.expected
           dangling == fresh /\ layout1.rows # 0
           store1 == IF mismatch \/ dangling THEN [c \in Col |-> NoColumn] ELSE store
           allPresent == \A c \in q.cols : store1[c].cells # <<>>
<1>1. q \in Query /\ counter \in Nat /\ layout \in TableLayout /\ NoLayout \in TableLayout
  BY DEF CacheInv, TypeOK, NoLayout, TableLayout
<1>2. \A c \in Col : store'[c] \in {NoColumn, store[c]}
  BY DEF BeginPopulation
<1>3. layout' \in TableLayout /\ counter' \in Nat
  <2>1. layout1 \in TableLayout /\ q.expected \in Nat
    BY <1>1 DEF Query
  <2>2. layout' \in {NoLayout, layout1, [rows |-> q.expected, population |-> counter + 1, sizes |-> layout1.sizes]}
    BY DEF BeginPopulation
  <2>3. counter' \in {counter, counter + 1}
    BY DEF BeginPopulation
  <2> HIDE DEF layout1, q
  <2>4. [rows |-> q.expected, population |-> counter + 1, sizes |-> layout1.sizes] \in TableLayout
    BY <1>1, <2>1 DEF TableLayout
  <2> QED
    BY <1>1, <2>1, <2>2, <2>3, <2>4
<1>4. plan' \in [Session -> PopulationPlan]
  <2>1. layout1.population \in Nat
    BY <1>1 DEF TableLayout
  <2>2. [population |-> IF fresh THEN counter + 1 ELSE layout1.population,
         storeCols |-> IF allPresent THEN {} ELSE q.cols] \in PopulationPlan
    BY <1>1, <2>1 DEF PopulationPlan, Query
  <2> QED
    BY <2>2 DEF BeginPopulation, CacheInv, TypeOK
<1>5. /\ pc' = [pc EXCEPT ![s] = "store"] /\ pc[s] = "begin"
      /\ UNCHANGED <<query, todo, segs, answer, table, written>>
      /\ store' = [c \in Col |-> store'[c]]
  BY DEF BeginPopulation, tableVars
<1>6. store' \in [Col -> CachedColumn]
  <2>1. NoColumn \in CachedColumn
    BY NoColumnType
  <2>2. \A c \in Col : store'[c] \in CachedColumn
    BY <1>2, <2>1 DEF CacheInv, TypeOK
  <2> QED
    BY <1>5, <2>2
<1>7. TypeOK'
  BY <1>3, <1>4, <1>5, <1>6 DEF CacheInv, TypeOK
<1>8. ColumnWellFormed'
  BY <1>2 DEF CacheInv, ColumnWellFormed, NoColumn, Resident
<1>9. FusedCurrent'
  BY <1>2 DEF CacheInv, FusedCurrent, NoColumn
<1>10. SessionsInStep'
  BY <1>5 DEF CacheInv, TypeOK, SessionsInStep
<1> QED
  BY <1>7, <1>8, <1>9, <1>10 DEF CacheInv

\* MlxCacheStoreSegment preserves it, whoever else stores into the same columns.
LEMMA StoreStep ==
    ASSUME CacheInv, NEW s \in Session, StoreSegment(s)
    PROVE  CacheInv'
<1> DEFINE rows == Head(segs[s])
           new(c, canonical, k) ==
             AppendColumnSlices(store[c], rows, Cuts(canonical, k, Len(rows)), plan[s].population)
<1>1. PICK canonical \in CanonicalSizes, k \in StoredSegments(plan[s].storeCols) :
        /\ store' = [c \in Col |->
                        IF c \in plan[s].storeCols THEN new(c, canonical, k) ELSE store[c]]
        /\ layout' = IF canonical = {} THEN [layout EXCEPT !.sizes = Cuts(canonical, k, Len(rows))]
                     ELSE layout
  BY DEF StoreSegment
<1>2. /\ segs[s] # <<>> /\ segs' = [segs EXCEPT ![s] = Tail(@)]
      /\ UNCHANGED <<counter, pc, query, todo, plan, answer, table, written>>
  BY DEF StoreSegment, tableVars
<1>3. /\ rows \in Seq(Cell) /\ Tail(segs[s]) \in Seq(Seq(Cell))
      /\ plan[s].population \in Nat
  BY <1>2 DEF CacheInv, TypeOK, PopulationPlan
<1>4. ASSUME NEW c \in Col
      PROVE  /\ new(c, canonical, k) \in CachedColumn
             /\ new(c, canonical, k).rows = Len(new(c, canonical, k).cells)
             /\ new(c, canonical, k).ends \subseteq 1..new(c, canonical, k).rows
             /\ new(c, canonical, k).cells # <<>> => new(c, canonical, k).rows \in new(c, canonical, k).ends
             /\ new(c, canonical, k).fused = <<>>
  <2>1. /\ store[c] \in CachedColumn
        /\ store[c].rows = Len(store[c].cells)
        /\ store[c].ends \subseteq 1..store[c].rows
        /\ store[c].cells # <<>> => store[c].rows \in store[c].ends
    BY DEF CacheInv, TypeOK, ColumnWellFormed, Resident
  <2> DEFINE col == store[c]
             population == plan[s].population
  <2>2. /\ col \in CachedColumn /\ rows \in Seq(Cell) /\ population \in Nat
        /\ col.rows = Len(col.cells) /\ col.ends \subseteq 1..col.rows
        /\ col.cells # <<>> => col.rows \in col.ends
    BY <1>3, <2>1
  <2> HIDE DEF rows, col, population
  <2>3. LET added == AppendColumnSlices(col, rows, Cuts(canonical, k, Len(rows)), population)
        IN  /\ added \in CachedColumn
            /\ added.rows = Len(added.cells)
            /\ added.ends \subseteq 1..added.rows
            /\ added.cells # <<>> => added.rows \in added.ends
            /\ added.fused = <<>>
    BY <2>2, AppendKeepsColumn
  <2> QED
    BY <2>3, Zenon DEF col, population
<1>5. layout' \in TableLayout
  <2>1. Cuts(canonical, k, Len(rows)) \in SUBSET Nat
    BY DEF Cuts
  <2> QED
    BY <1>1, <2>1 DEF CacheInv, TypeOK, TableLayout
<1> HIDE DEF new, rows
<1>6. store' \in [Col -> CachedColumn]
  BY <1>1, <1>4 DEF CacheInv, TypeOK
<1>7. TypeOK'
  BY <1>2, <1>3, <1>5, <1>6 DEF CacheInv, TypeOK
<1>8. ColumnWellFormed'
  BY <1>1, <1>4 DEF CacheInv, ColumnWellFormed, Resident
<1>9. FusedCurrent'
  BY <1>1, <1>4 DEF CacheInv, FusedCurrent
<1>10. SessionsInStep'
  BY <1>2 DEF CacheInv, SessionsInStep
<1> QED
  BY <1>7, <1>8, <1>9, <1>10 DEF CacheInv

\* MlxCacheFuseTable preserves it: a fused copy that exists is already current.
LEMMA FuseStep ==
    ASSUME CacheInv, NEW s \in Session, FuseTable(s)
    PROVE  CacheInv'
<1>1. /\ store' = [c \in Col |-> FuseCachedColumn(store[c])]
      /\ pc[s] = "fuse"
      /\ pc' = [pc EXCEPT ![s] = IF query[s].kind = "sum" THEN "eval" ELSE "done"]
      /\ UNCHANGED <<layout, counter, query, todo, segs, plan, answer, table, written>>
  BY DEF FuseTable, tableVars
<1>2. ASSUME NEW c \in Col
      PROVE  /\ store'[c] \in CachedColumn
             /\ store'[c].cells = store[c].cells /\ store'[c].rows = store[c].rows
             /\ store'[c].ends = store[c].ends
             /\ store'[c].fused \in {store[c].fused, store[c].cells}
  <2>1. store[c] \in CachedColumn /\ store'[c] = FuseCachedColumn(store[c])
    BY <1>1 DEF CacheInv, TypeOK
  <2> QED
    BY <2>1 DEF FuseCachedColumn, CachedColumn
<1>3. store' \in [Col -> CachedColumn]
  BY <1>1, <1>2
<1>4. TypeOK'
  BY <1>1, <1>3 DEF CacheInv, TypeOK
<1>5. ColumnWellFormed'
  BY <1>2 DEF CacheInv, ColumnWellFormed, Resident
<1>6. FusedCurrent'
  BY <1>2 DEF CacheInv, FusedCurrent
<1>7. SessionsInStep'
  BY <1>1 DEF CacheInv, TypeOK, SessionsInStep
<1> QED
  BY <1>4, <1>5, <1>6, <1>7 DEF CacheInv

\* The steps that change neither a cached column nor an answer in flight.
LEMMA OtherStep ==
    ASSUME CacheInv, NEW s \in Session,
           StoreDone(s) \/ Return(s) \/ ClearAll(s) \/ Insert(s) \/ Update(s)
    PROVE  CacheInv'
<1>1. CASE StoreDone(s)
  <2>1. TypeOK' /\ SessionsInStep'
    BY <1>1 DEF StoreDone, CacheInv, TypeOK, SessionsInStep, cacheVars, tableVars
  <2> QED
    BY <1>1, <2>1, StoreUnchanged DEF StoreDone, CacheInv, cacheVars
<1>2. CASE Return(s)
  <2>1. /\ NoQuery \in Query /\ NoPlan \in PopulationPlan /\ todo[s] = {}
        /\ NoAnswer \in [status : AnswerStatus, rows : SUBSET (Nat \X [NoQuery.cols -> Cell])]
    BY <1>2 DEF Return, CacheInv, SessionsInStep, NoQuery, Query, NoPlan, PopulationPlan, NoAnswer,
                AnswerStatus, RequestKind, FilterKind, Cell
  <2>2. TypeOK'
    BY <1>2, <2>1 DEF Return, CacheInv, TypeOK, cacheVars, tableVars
  <2>3. SessionsInStep'
    BY <1>2, <2>1 DEF Return, CacheInv, TypeOK, SessionsInStep
  <2> QED
    BY <1>2, <2>2, <2>3, StoreUnchanged DEF Return, CacheInv, cacheVars
<1>3. CASE ClearAll(s)
  <2>1. NoColumn \in CachedColumn /\ NoLayout \in TableLayout
    BY DEF NoColumn, CachedColumn, NoLayout, TableLayout, Cell
  <2>2. TypeOK' /\ SessionsInStep'
    BY <1>3, <2>1 DEF ClearAll, CacheInv, TypeOK, SessionsInStep, sessionVars, tableVars
  <2>3. ColumnWellFormed' /\ FusedCurrent'
    BY <1>3 DEF ClearAll, ColumnWellFormed, FusedCurrent, NoColumn, Resident
  <2> QED
    BY <2>2, <2>3 DEF CacheInv
<1>4. CASE Insert(s) \/ Update(s)
  <2>1. table' \in Seq(Cell) /\ written' \in Nat
    <3>1. table \in Seq(Cell) /\ written \in Nat /\ written + 1 \in Cell
      BY DEF CacheInv, TypeOK, Cell
    <3>2. CASE Insert(s)
      BY <3>1, <3>2 DEF Insert
    <3>3. CASE Update(s)
      <4>1. PICK i \in DOMAIN table : table' = [table EXCEPT ![i] = written + 1]
        BY <3>3 DEF Update
      <4> QED
        BY <3>1, <3>3, <4>1, ExceptSeq DEF Update
    <3> QED
      BY <1>4, <3>2, <3>3
  <2>2. UNCHANGED <<store, layout, counter, pc, query, todo, segs, plan, answer>>
    BY <1>4 DEF Insert, Update, cacheVars, sessionVars
  <2>3. TypeOK' /\ SessionsInStep'
    BY <2>1, <2>2 DEF CacheInv, TypeOK, SessionsInStep
  <2> QED
    BY <2>2, <2>3, StoreUnchanged DEF CacheInv
<1> QED
  BY <1>1, <1>2, <1>3, <1>4

\* Every step preserves the invariant.
LEMMA NextCacheInv == CacheInv /\ [Next]_vars => CacheInv'
<1> SUFFICES ASSUME CacheInv, [Next]_vars PROVE CacheInv'
  OBVIOUS
<1>1. CASE UNCHANGED vars
  <2>1. TypeOK' /\ SessionsInStep'
    BY <1>1 DEF CacheInv, TypeOK, SessionsInStep, vars
  <2> QED
    BY <1>1, <2>1, StoreUnchanged DEF CacheInv, vars
<1>2. ASSUME NEW s \in Session, Run(s)
      PROVE  CacheInv'
  BY <1>2, ServeStep, CombineStep, FinalizeStep, BeginStep, StoreStep, OtherStep, FuseStep DEF Run
<1>3. ASSUME NEW s \in Session, Request(s)
      PROVE  CacheInv'
  BY <1>3, PlanStep, PinStep, OtherStep, CacheAssumption DEF Request
<1>4. ASSUME NEW s \in Session, Return(s)
      PROVE  CacheInv'
  BY <1>4, OtherStep
<1> QED
  BY <1>1, <1>2, <1>3, <1>4 DEF Next

\* The invariant holds throughout.
LEMMA SpecCacheInv == Spec => []CacheInv
BY InitCacheInv, NextCacheInv, PTL DEF Spec

\* Every state of the cache is well typed.  In particular a reader never indexes
\* past the end of a column: whatever interleaving produced the columns, the
\* checks in MlxSumExprsCached (equal segments) and in the fused path (equal
\* lengths) are enough for the positions it combines to exist in all of them.
THEOREM TypeCorrect == Spec => []TypeOK
BY SpecCacheInv, PTL DEF CacheInv

\* The row count that MlxCacheHas and MlxCacheBeginPopulation compare is the number
\* of rows really stored, and the segment boundaries tile the column, under any
\* interleaving of populations, drops and clears.
THEOREM ColumnsWellFormed == Spec => []ColumnWellFormed
BY SpecCacheInv, PTL DEF CacheInv

\* A fused copy equals the segments it was made from, under any interleaving:
\* the reset in AppendColumnSlice suffices, no reader sees a stale fused column.
THEOREM FusedCopiesCurrent == Spec => []FusedCurrent
BY SpecCacheInv, PTL DEF CacheInv

-----------------------------------------------------------------------------
(* Population ids *)

\* Ids in use were issued by the counter, a layout has an id exactly when it has
\* rows, and a session holds an id only from MlxCacheBeginPopulation on.
PopulationInv ==
    /\ layout.population <= counter
    /\ layout.rows = 0 <=> layout.population = 0
    /\ \A s \in Session : plan[s].population <= counter
    /\ \A s \in Session : pc[s] \in {"idle", "exec", "scan", "begin"} => plan[s].population = 0
    /\ PopulationNamesOneRowCount

\* Initially no id has been issued.
LEMMA InitPopulationInv == Init => PopulationInv
BY DEF Init, PopulationInv, PopulationNamesOneRowCount, Populating, NoLayout, NoPlan

\* The effect of MlxCacheBeginPopulation on ids: the session joins the population
\* the layout carries for its row count, or gets the next id of the counter.
LEMMA BeginIds ==
    ASSUME CacheInv, PopulationInv, NEW s \in Session, BeginPopulation(s)
    PROVE  \/ /\ plan'[s].population = layout.population /\ layout.rows = query[s].expected
              /\ layout' = layout /\ counter' = counter
           \/ /\ plan'[s].population = 0 /\ layout' = NoLayout /\ counter' = counter
           \/ /\ plan'[s].population = counter + 1 /\ counter' = counter + 1
              /\ \/ layout' = NoLayout
                 \/ /\ layout'.rows = query[s].expected /\ query[s].expected # 0
                    /\ layout'.population = counter + 1
<1> DEFINE q == query[s]
           mismatch == \E c \in Col : Resident(c) /\ store[c].rows # q.expected
           layout1 == IF mismatch THEN NoLayout ELSE layout
           fresh == layout1.rows # q.expected
           dangling == fresh /\ layout1.rows # 0
<1>1. /\ counter' = IF fresh THEN counter + 1 ELSE counter
      /\ layout' = IF dangling THEN NoLayout
                   ELSE IF fresh THEN [rows |-> q.expected, population |-> counter + 1, sizes |-> layout1.sizes]
                   ELSE layout1
      /\ plan'[s].population = IF fresh THEN counter + 1 ELSE layout1.population
  BY DEF BeginPopulation, CacheInv, TypeOK
<1>2. NoLayout.rows = 0 /\ NoLayout.population = 0
  BY DEF NoLayout
<1>3. layout1 = layout \/ layout1 = NoLayout
  OBVIOUS
<1> HIDE DEF layout1, q
<1>4. CASE ~fresh /\ layout1 = layout
  BY <1>1, <1>4 DEF q
<1>5. CASE ~fresh /\ layout1 = NoLayout
  BY <1>1, <1>2, <1>5 DEF q
<1>6. CASE fresh /\ dangling
  BY <1>1, <1>6
<1>7. CASE fresh /\ ~dangling
  BY <1>1, <1>7 DEF q
<1> QED
  BY <1>3, <1>4, <1>5, <1>6, <1>7

\* MlxCacheBeginPopulation preserves the invariant of the population ids.
LEMMA BeginKeepsPopulationInv ==
    ASSUME CacheInv, PopulationInv, NEW s \in Session, BeginPopulation(s)
    PROVE  PopulationInv'
<1>1. /\ pc' = [pc EXCEPT ![s] = "store"] /\ query' = query
      /\ \A t \in Session : t # s => plan'[t] = plan[t]
  BY DEF BeginPopulation, CacheInv, TypeOK
<1>2. /\ counter \in Nat /\ layout.population \in Nat /\ layout.rows \in Nat
      /\ \A t \in Session : plan[t].population \in Nat /\ query[t].expected \in Nat
      /\ DOMAIN pc = Session
  BY DEF CacheInv, TypeOK, TableLayout, PopulationPlan, Query
<1>3. NoLayout.rows = 0 /\ NoLayout.population = 0
  BY DEF NoLayout
<1>4. /\ layout'.population <= counter' /\ (layout'.rows = 0 <=> layout'.population = 0)
      /\ \A t \in Session : plan'[t].population <= counter'
  BY <1>1, <1>2, <1>3, BeginIds DEF PopulationInv
<1>5. \A t \in Session : pc'[t] \in {"idle", "exec", "scan", "begin"} => plan'[t].population = 0
  BY <1>1, <1>2 DEF PopulationInv
<1>6. ASSUME NEW t \in Session, t # s, Populating(t)',
             plan'[t].population = plan'[s].population, plan'[s].population # 0
      PROVE  query[t].expected = query[s].expected
  BY <1>1, <1>2, <1>6, BeginIds DEF PopulationInv, PopulationNamesOneRowCount, Populating
<1>7. ASSUME NEW t \in Session, Populating(t)', layout'.rows # 0,
             layout'.population = plan'[t].population
      PROVE  layout'.rows = query[t].expected
  <2>1. CASE t = s
    BY <1>2, <1>3, <1>7, <2>1, BeginIds DEF PopulationInv, Populating
  <2>2. CASE t # s
    BY <1>1, <1>2, <1>3, <1>7, <2>2, BeginIds DEF PopulationInv, PopulationNamesOneRowCount, Populating
  <2> QED
    BY <2>1, <2>2
<1>8. ASSUME NEW t \in Session, NEW u \in Session, Populating(t)', Populating(u)',
             plan'[t].population = plan'[u].population
      PROVE  query[t].expected = query[u].expected
  <2>1. CASE t # s /\ u # s
    BY <1>1, <1>2, <1>8, <2>1 DEF PopulationInv, PopulationNamesOneRowCount, Populating
  <2>2. CASE t = s \/ u = s
    BY <1>6, <1>8, <2>2 DEF Populating
  <2> QED
    BY <2>1, <2>2
<1>9. PopulationNamesOneRowCount'
  BY <1>1, <1>7, <1>8 DEF PopulationNamesOneRowCount
<1> QED
  BY <1>4, <1>5, <1>9 DEF PopulationInv

\* Every other step leaves ids alone, apart from forgetting them.
LEMMA OtherKeepPopulationInv ==
    ASSUME CacheInv, PopulationInv,
           counter' = counter,
           layout' = NoLayout \/ (layout'.population = layout.population /\ layout'.rows = layout.rows),
           \A t \in Session : plan'[t].population \in {plan[t].population, 0},
           \A t \in Session : pc'[t] \in {"idle", "exec", "scan", "begin"} => plan'[t].population = 0,
           \A t \in Session : Populating(t)' => Populating(t) /\ query'[t] = query[t]
    PROVE  PopulationInv'
<1>1. /\ counter \in Nat /\ layout.population \in Nat /\ layout.rows \in Nat
      /\ \A t \in Session : plan[t].population \in Nat
  BY DEF CacheInv, TypeOK, TableLayout, PopulationPlan
<1>2. NoLayout.rows = 0 /\ NoLayout.population = 0
  BY DEF NoLayout
<1>3. /\ layout'.population <= counter' /\ (layout'.rows = 0 <=> layout'.population = 0)
      /\ \A t \in Session : plan'[t].population <= counter'
  BY <1>1, <1>2 DEF PopulationInv
<1>4. \A t \in Session : Populating(t)' => plan'[t].population = plan[t].population
  BY DEF Populating
<1>5. PopulationNamesOneRowCount'
  BY <1>2, <1>4 DEF PopulationInv, PopulationNamesOneRowCount
<1> QED
  BY <1>3, <1>5 DEF PopulationInv

\* Every step preserves the invariant of the population ids.
LEMMA NextPopulationInv == CacheInv /\ PopulationInv /\ [Next]_vars => PopulationInv'
<1> SUFFICES ASSUME CacheInv, PopulationInv, [Next]_vars PROVE PopulationInv'
  OBVIOUS
<1> USE DEF Populating
<1>0. DOMAIN pc = Session /\ DOMAIN plan = Session /\ DOMAIN query = Session /\ NoPlan.population = 0
  BY DEF CacheInv, TypeOK, NoPlan
<1>1. CASE UNCHANGED vars
  BY <1>1, OtherKeepPopulationInv DEF vars, PopulationInv
<1>2. ASSUME NEW s \in Session, Run(s)
      PROVE  PopulationInv'
  <2>1. CASE BeginPopulation(s)
    BY <2>1, BeginKeepsPopulationInv
  <2>2. CASE ServeCached(s) \/ ServeGroupedFused(s) \/ EvalPopulated(s)
    BY <1>0, <2>2, OtherKeepPopulationInv
       DEF ServeCached, ServeGroupedFused, EvalPopulated, PopulationInv, cacheVars
  <2>3. CASE CombineThread(s) \/ Finalize(s)
    <3>1. UNCHANGED <<query, plan, layout, counter>>
      BY <2>3 DEF CombineThread, Finalize, cacheVars
    <3>2. /\ \A t \in Session : t # s => pc'[t] = pc[t]
          /\ pc[s] = "scan" /\ pc'[s] \in {"scan", "done", "begin"}
      BY <1>0, <2>3 DEF CombineThread, Finalize
    <3> QED
      BY <3>1, <3>2, OtherKeepPopulationInv DEF PopulationInv
  <2>4. CASE StoreSegment(s)
    <3>1. UNCHANGED <<query, plan, counter, pc>>
      BY <2>4 DEF StoreSegment
    <3>2. layout'.population = layout.population /\ layout'.rows = layout.rows
      BY <2>4 DEF StoreSegment, CacheInv, TypeOK, TableLayout
    <3> QED
      BY <3>1, <3>2, OtherKeepPopulationInv DEF PopulationInv
  <2>5. CASE StoreDone(s) \/ FuseTable(s)
    <3>1. UNCHANGED <<query, plan, layout, counter>>
      BY <2>5 DEF StoreDone, FuseTable, cacheVars
    <3>2. /\ \A t \in Session : t # s => pc'[t] = pc[t]
          /\ pc[s] \in {"store", "fuse"} /\ pc'[s] \in {"fuse", "eval", "done"}
      BY <1>0, <2>5 DEF StoreDone, FuseTable
    <3> QED
      BY <3>1, <3>2, OtherKeepPopulationInv DEF PopulationInv
  <2> QED
    BY <1>2, <2>1, <2>2, <2>3, <2>4, <2>5 DEF Run
<1>3. ASSUME NEW s \in Session, Request(s) \/ Return(s)
      PROVE  PopulationInv'
  <2>1. CASE (\E kind \in Kinds, cols \in (SUBSET Col) \ {{}}, filter \in Filters : Plan(s, kind, cols, filter))
             \/ PinTable(s)
    <3>1. UNCHANGED <<plan, layout, counter>> /\ pc[s] = "idle"
      BY <2>1 DEF Plan, PlanAs, PinTable, cacheVars
    <3>2. \A t \in Session : t # s => pc'[t] = pc[t] /\ query'[t] = query[t]
      BY <1>0, <2>1 DEF Plan, PlanAs, PinTable
    <3>3. plan[s].population = 0
      BY <3>1 DEF PopulationInv
    <3> QED
      BY <3>1, <3>2, <3>3, OtherKeepPopulationInv DEF PopulationInv
  <2>2. CASE Return(s)
    <3>1. UNCHANGED <<layout, counter>> /\ pc'[s] = "idle" /\ plan'[s] = NoPlan
      BY <1>0, <2>2 DEF Return, cacheVars
    <3>2. \A t \in Session : t # s => pc'[t] = pc[t] /\ query'[t] = query[t] /\ plan'[t] = plan[t]
      BY <1>0, <2>2 DEF Return
    <3> QED
      BY <1>0, <3>1, <3>2, OtherKeepPopulationInv DEF PopulationInv
  <2>3. CASE ClearAll(s) \/ Insert(s) \/ Update(s)
    <3>1. UNCHANGED <<counter, pc, query, plan>> /\ (layout' = NoLayout \/ layout' = layout)
      BY <2>3 DEF ClearAll, Insert, Update, sessionVars, cacheVars
    <3> QED
      BY <3>1, OtherKeepPopulationInv DEF PopulationInv
  <2> QED
    BY <1>3, <2>1, <2>2, <2>3 DEF Request
<1> QED
  BY <1>1, <1>2, <1>3 DEF Next

\* Both invariants hold throughout.
LEMMA SpecPopulationInv == Spec => [](CacheInv /\ PopulationInv)
<1>1. Init => CacheInv /\ PopulationInv
  BY InitCacheInv, InitPopulationInv
<1>2. CacheInv /\ PopulationInv /\ [Next]_vars => (CacheInv /\ PopulationInv)'
  BY NextCacheInv, NextPopulationInv
<1> QED
  BY <1>1, <1>2, PTL DEF Spec

\* Sessions that populate under one id populate for one row count, and so does
\* the layout that carries the id, for any number of concurrent sessions.
THEOREM PopulationsNameOneRowCount == Spec => []PopulationNamesOneRowCount
BY SpecPopulationInv, PTL DEF PopulationInv

\* The id of a population in flight never becomes the table's id again once the
\* table was dropped, cleared or repopulated: the counter survives
\* mlx_cache_clear and MlxCacheBeginPopulation increments it for every new layout.
THEOREM PopulationsAreNotReissued == Spec => PopulationIsNotReissued
<1> DEFINE Stays == \A s \in Session :
             Populating(s) /\ plan'[s] = plan[s] /\ layout.population # plan[s].population
                => layout'.population # plan[s].population
<1>1. CacheInv /\ PopulationInv /\ [Next]_vars => [Stays]_vars
  <2> SUFFICES ASSUME CacheInv, PopulationInv, Next PROVE Stays
    BY DEF vars
  <2>1. layout'.population \in {layout.population, 0, counter + 1}
    <3>1. PICK s \in Session : Run(s) \/ Request(s) \/ Return(s)
      BY DEF Next
    <3>2. CASE BeginPopulation(s)
      BY <3>2, BeginIds DEF NoLayout
    <3>3. CASE StoreSegment(s)
      BY <3>3 DEF StoreSegment, CacheInv, TypeOK, TableLayout
    <3>4. CASE ~BeginPopulation(s) /\ ~StoreSegment(s)
      <4>1. layout' \in {layout, NoLayout}
        BY <3>1, <3>4 DEF Run, Request, Return, ServeCached, ServeGroupedFused, EvalPopulated,
           CombineThread, Finalize, StoreDone, FuseTable, Plan, PlanAs, PinTable, ClearAll, Insert, Update,
           cacheVars
      <4> QED
        BY <4>1 DEF NoLayout
    <3> QED
      BY <3>2, <3>3, <3>4
  <2>2. \A s \in Session : plan[s].population \in Nat /\ plan[s].population <= counter
    BY DEF CacheInv, TypeOK, PopulationPlan, PopulationInv
  <2>3. counter \in Nat
    BY DEF CacheInv, TypeOK
  <2> QED
    BY <2>1, <2>2, <2>3 DEF Populating
<1> QED
  BY <1>1, SpecPopulationInv, PTL DEF Spec, PopulationIsNotReissued

-----------------------------------------------------------------------------
(* Serial use: the inductive invariant *)

Serial == (\A s, t \in Session : s = t) /\ Threads = 1 /\ ~Updates

\* No query selects nothing: a cold MLX_SUM whose filter selects no row stores no segment,
\* then misses its own columns.
SomeRowKept == \A n \in Nat : n > 0 /\ n >= InitRows => \E x \in 1 .. n : x \in Keep

Increasing(list) == \A i, j \in DOMAIN list : i < j => list[i] < list[j]

\* Rows are numbered in the order of insertion.
TableOK ==
    /\ Len(table) = written /\ Len(table) >= InitRows
    /\ \A i \in 1 .. Len(table) : table[i] = i

ColumnsOK ==
    /\ \A c \in Col : Increasing(store[c].cells) /\ \A i \in DOMAIN store[c].cells : store[c].cells[i] \in 1 .. Len(table)
    /\ \A c, d \in Col : Resident(c) /\ Resident(d) /\ store[c].rows = store[d].rows => store[c].ends = store[d].ends

\* The rows a query selects, in order.
Listings(q) ==
    {list \in UNION {[1 .. n -> 1 .. Len(q.snapshot)] : n \in 0 .. Len(q.snapshot)} :
        Increasing(list) /\ {list[i] : i \in DOMAIN list} = Selected(q)}

\* The buffered segments are the listing from its element n + 1 on.
Remain(parts, list, n) ==
    \E e \in [0 .. Len(parts) -> 0 .. Len(list)] :
        /\ e[0] = n /\ e[Len(parts)] = Len(list)
        /\ \A i \in 1 .. Len(parts) :
              e[i - 1] <= e[i] /\ parts[i] = [j \in 1 .. e[i] - e[i - 1] |-> list[e[i - 1] + j]]

Buffered(s) == \E list \in Listings(query[s]) : Remain(segs[s], list, 0)

\* The columns hold the listing up to n.
Prefix(cols, list, n) == \A c \in cols : store[c].cells = [i \in 1 .. n |-> list[i]]

Storing(s) ==
    /\ plan[s].storeCols = query[s].cols
    /\ \A c \in Col \ query[s].cols : Resident(c) => store[c].rows = Len(table)
    /\ \E list \in Listings(query[s]) : \E n \in 0 .. Len(list) :
            /\ Prefix(query[s].cols, list, n) /\ Remain(segs[s], list, n)
            /\ query[s].kind # "pin" /\ segs[s] # <<>> => n = 0 /\ Len(segs[s]) = 1

Stored(s) == \E list \in Listings(query[s]) : Prefix(query[s].cols, list, Len(list))

\* What a session at each step of its request knows.
StepOK(s) ==
    /\ pc[s] = "idle" => segs[s] = <<>>
    /\ pc[s] # "idle" => /\ query[s].snapshot = table /\ query[s].expected = Len(table) /\ Len(table) > 0
                         /\ IF query[s].kind = "pin" THEN query[s].cols = Col /\ query[s].filter = "none"
                                                     ELSE query[s].cols # {}
    /\ pc[s] = "exec" => query[s].kind # "pin" /\ MlxCacheHas(query[s].cols, Len(table))
    /\ pc[s] \in {"scan", "begin"} =>
            /\ ~MlxCacheHas(query[s].cols, Len(table))
            /\ query[s].kind # "pin" => Len(segs[s]) <= 1
    /\ pc[s] = "scan" => /\ query[s].kind # "pin"
                         /\ \/ segs[s] = <<>> /\ todo[s] = Selected(query[s])
                            \/ todo[s] = {} /\ Buffered(s)
    /\ pc[s] = "begin" => Buffered(s)
    /\ pc[s] = "store" => Storing(s)
    /\ pc[s] \in {"fuse", "eval"} => Stored(s)
    /\ pc[s] = "eval" => query[s].kind = "sum"
    /\ pc[s] = "done" /\ query[s].filter = "none" => MlxCacheHas(query[s].cols, Len(table))

AnswerOK(s) ==
    SomeRowKept =>
        /\ query[s].kind = "group" /\ pc[s] \in {"begin", "store", "fuse"} => Correct(s)
        /\ query[s].kind # "pin" /\ pc[s] = "done" => Correct(s)

SerialInv ==
    /\ Serial /\ CacheInv /\ TableOK /\ ColumnsOK
    /\ \A s \in Session : StepOK(s) /\ AnswerOK(s)

-----------------------------------------------------------------------------
(* Lists of rows *)

\* An increasing list of as many rows as the table has lists them all, in order.
LEMMA IncreasingIsAll ==
    ASSUME NEW N \in Nat, NEW list \in [1 .. N -> 1 .. N], Increasing(list)
    PROVE  \A i \in 1 .. N : list[i] = i
<1>0. \A i, j \in 1 .. N : i < j => list[i] < list[j]
  BY DEF Increasing
<1>1. \A i \in 1 .. N : list[i] >= i
  <2> DEFINE T == {i \in 1 .. N : list[i] < i}
  <2> SUFFICES ASSUME T # {} PROVE FALSE
    OBVIOUS
  <2>0. T \in SUBSET Nat
    OBVIOUS
  <2>1. PICK x \in T : \A y \in T : x <= y
    <3> HIDE DEF T
    <3> QED BY <2>0, LeastElement
  <2>2. x - 1 \in 1 .. N
    BY <2>1
  <2>3. list[x - 1] >= x - 1 /\ list[x - 1] < list[x]
    BY <1>0, <2>1, <2>2
  <2> QED BY <2>1, <2>2, <2>3
<1>2. \A i \in 1 .. N : list[i] <= i
  <2> SUFFICES ASSUME NEW i \in 1 .. N, list[i] > i PROVE FALSE
    OBVIOUS
  <2> DEFINE T == {k \in Nat : k + i <= N /\ list[k + i] <= k + i}
  <2>1. T \in SUBSET Nat
    OBVIOUS
  <2>2. N - i \in T
    <3>1. N - i \in Nat /\ (N - i) + i = N /\ N \in 1 .. N
      OBVIOUS
    <3> QED BY <3>1
  <2>3. PICK x \in T : \A y \in T : x <= y
    <3> HIDE DEF T
    <3> QED BY <2>1, <2>2, LeastElement
  <2>4. x \in Nat /\ x # 0 /\ x + i \in 1 .. N /\ list[x + i] <= x + i
    <3>1. x \in Nat /\ x + i <= N /\ list[x + i] <= x + i
      BY <2>3
    <3>2. x # 0
      <4> SUFFICES ASSUME x = 0 PROVE FALSE
        OBVIOUS
      <4>1. x + i = i
        OBVIOUS
      <4>2. list[i] <= i /\ list[i] \in Int /\ i \in Int
        BY <3>1, <4>1
      <4> QED BY <4>2
    <3> HIDE DEF T
    <3> QED BY <3>1, <3>2
  <2>5. x - 1 \in Nat /\ (x - 1) + i \in 1 .. N /\ (x - 1) + i < x + i /\ x - 1 \notin T
    <3> HIDE DEF T
    <3> QED BY <2>3, <2>4
  <2>6. list[(x - 1) + i] > (x - 1) + i
    <3> DEFINE y == x - 1
    <3>1. y \in Nat /\ y + i <= N /\ y \notin T /\ y + i \in 1 .. N
      BY <2>5
    <3> HIDE DEF y
    <3>2. list[y + i] > y + i
      BY <3>1
    <3> QED BY <3>2 DEF y
  <2>7. list[(x - 1) + i] < list[x + i] /\ list[x + i] \in Int /\ list[(x - 1) + i] \in Int
    BY <1>0, <2>4, <2>5
  <2> QED BY <2>4, <2>5, <2>6, <2>7
<1> QED BY <1>1, <1>2

\* A batch as long as the column whose boundaries it follows is cut at those boundaries.
LEMMA CutsFollow ==
    ASSUME NEW N \in Nat \ {0}, NEW E \in SUBSET (1 .. N), N \in E
    PROVE  Cuts(E, 0, N) = E
<1> DEFINE Upto(e) == {x \in E : x <= e}
<1>0. \A x \in E : x \in Nat /\ 1 <= x /\ x <= N
  OBVIOUS
<1>1. IsFiniteSet(E) /\ Cardinality(E) \in Nat /\ Cardinality(E) # 0
  <2>1. IsFiniteSet(1 .. N)
    BY FS_Interval
  <2> QED BY <2>1, FS_Subset, FS_CardinalityType, FS_EmptySet
<1>2. \A e : IsFiniteSet(Upto(e)) /\ (Cardinality(Upto(e)) = Cardinality(E) => Upto(e) = E)
  BY <1>1, FS_Subset
<1>3. EndOf(E, Cardinality(E)) = N
  <2>1. Upto(N) = E
    BY <1>0
  <2>2. ASSUME NEW e \in E \cup {0}, Cardinality(Upto(e)) = Cardinality(E) PROVE e = N
    BY <1>0, <1>2, <2>2
  <2>3. EndOf(E, Cardinality(E)) = CHOOSE e \in E \cup {0} : Cardinality(Upto(e)) = Cardinality(E)
    BY DEF EndOf
  <2> HIDE DEF Upto
  <2> QED BY <2>1, <2>2, <2>3
<1>4. EndOf(E, 0) = 0
  <2>1. Cardinality(Upto(0)) = 0
    <3>1. ASSUME NEW x \in E, x <= 0 PROVE FALSE
      BY <1>0, <3>1
    <3>2. Upto(0) = {}
      BY <3>1, Zenon
    <3> QED BY <3>2, FS_EmptySet
  <2>2. ASSUME NEW e \in E \cup {0}, Cardinality(Upto(e)) = 0 PROVE e = 0
    <3>1. Upto(e) = {}
      BY <1>2, <2>2, FS_EmptySet
    <3> QED BY <3>1
  <2>3. EndOf(E, 0) = CHOOSE e \in E \cup {0} : Cardinality(Upto(e)) = 0
    BY DEF EndOf
  <2> HIDE DEF Upto
  <2> QED BY <2>1, <2>2, <2>3
<1> HIDE DEF Upto
<1> DEFINE last == EndOf(E, Cardinality(E))
           base == IF 0 < Cardinality(E) THEN EndOf(E, 0) ELSE last
           tail == last - base
<1>5. base = 0 /\ tail = N
  BY <1>1, <1>3, <1>4
<1>6. Cuts(E, 0, N) = {o \in 1 .. N : \/ o = N
                                      \/ o <= tail /\ base + o \in E
                                      \/ o > tail /\ (o - tail) % SegmentRows = 0}
  BY DEF Cuts
<1> HIDE DEF base, tail
<1>7. \A o \in 1 .. N : (\/ o = N
                         \/ o <= tail /\ base + o \in E
                         \/ o > tail /\ (o - tail) % SegmentRows = 0) <=> o \in E
  <2> SUFFICES ASSUME NEW o \in 1 .. N PROVE o <= tail /\ ~(o > tail) /\ base + o = o
    <3> HIDE DEF last
    <3> QED OBVIOUS
  <2> QED BY <1>5
<1> QED BY <1>6, <1>7

-----------------------------------------------------------------------------
(* Reading the cache *)

\* Correct as a relation between a query and an answer.
CorrectFor(q, a) ==
    LET cellsOf(r) == {r[2][c] : c \in q.cols}
    IN  /\ a.status = "rows"
        /\ \A r \in a.rows : Cardinality(cellsOf(r)) = 1
        /\ \A r, t \in a.rows : r # t => cellsOf(r) # cellsOf(t)
        /\ UNION {cellsOf(r) : r \in a.rows} = {q.snapshot[i] : i \in Selected(q)}

LEMMA CorrectIs ==
    ASSUME NEW s
    PROVE  /\ Correct(s) <=> CorrectFor(query[s], answer[s])
           /\ Correct(s)' <=> CorrectFor(query'[s], answer'[s])
BY Zenon DEF Correct, CorrectFor, Selected

\* The snapshot of a query numbers its rows.
Numbered(q) ==
    /\ Len(q.snapshot) \in Nat /\ DOMAIN q.snapshot = 1 .. Len(q.snapshot)
    /\ \A i \in DOMAIN q.snapshot : q.snapshot[i] = i

\* The rows of an answer are the selected ones, each once and alike in all columns.
Covers(q, a) ==
    /\ \A r \in a.rows : \E x \in Selected(q) : \A c \in q.cols : r[2][c] = x
    /\ \A x \in Selected(q) : \E r \in a.rows : \A c \in q.cols : r[2][c] = x
    /\ \A r, t \in a.rows : (\A c \in q.cols : r[2][c] = t[2][c]) => r = t

LEMMA CorrectAnswer ==
    ASSUME NEW q, NEW a, q.cols # {}, a.status = "rows", Numbered(q), Covers(q, a)
    PROVE  CorrectFor(q, a)
<1> USE DEF Covers, Numbered
<1> DEFINE rows == a.rows
           cols == q.cols
           cellsOf(r) == {r[2][c] : c \in cols}
<1>1. ASSUME NEW r, NEW x, \A c \in cols : r[2][c] = x PROVE cellsOf(r) = {x}
  BY <1>1
<1>2. \A r \in rows : \E x : (\A c \in cols : r[2][c] = x) /\ cellsOf(r) = {x}
  <2> SUFFICES ASSUME NEW r \in rows PROVE \E x : (\A c \in cols : r[2][c] = x) /\ cellsOf(r) = {x}
    OBVIOUS
  <2>1. PICK x \in Selected(q) : \A c \in cols : r[2][c] = x
    BY Zenon
  <2>2. cellsOf(r) = {x}
    BY <2>1, <1>1
  <2> QED BY <2>1, <2>2, Zenon
<1> HIDE DEF cellsOf
<1>3. /\ \A r \in rows : Cardinality(cellsOf(r)) = 1
      /\ \A r, t \in rows : r # t => cellsOf(r) # cellsOf(t)
  <2>1. \A r \in rows : Cardinality(cellsOf(r)) = 1
    <3>1. \A x : Cardinality({x}) = 1
      BY FS_Singleton, Zenon
    <3> SUFFICES ASSUME NEW r \in rows PROVE Cardinality(cellsOf(r)) = 1
      OBVIOUS
    <3>2. PICK x : cellsOf(r) = {x}
      BY <1>2
    <3> QED BY <3>1, <3>2
  <2>2. ASSUME NEW r \in rows, NEW t \in rows, cellsOf(r) = cellsOf(t) PROVE r = t
    <3>1. PICK x : (\A c \in cols : r[2][c] = x) /\ cellsOf(r) = {x}
      BY <1>2
    <3>2. PICK y : (\A c \in cols : t[2][c] = y) /\ cellsOf(t) = {y}
      BY <1>2
    <3>3. x = y
      BY <2>2, <3>1, <3>2
    <3> QED BY <3>1, <3>2, <3>3
  <2> QED BY <2>1, <2>2
<1>4. {q.snapshot[i] : i \in Selected(q)} = Selected(q)
  BY DEF Selected
<1>5. UNION {cellsOf(r) : r \in rows} = Selected(q)
  <2>1. \A r \in rows : cellsOf(r) \subseteq Selected(q)
    BY DEF cellsOf
  <2>2. \A x \in Selected(q) : \E r \in rows : x \in cellsOf(r)
    BY DEF cellsOf
  <2> QED BY <2>1, <2>2
<1> HIDE DEF rows, cols
<1> QED BY <1>3, <1>4, <1>5 DEF CorrectFor, rows, cols, cellsOf

LEMMA SeqIsFunction == ASSUME NEW S, NEW s \in Seq(S) PROVE s = [i \in 1 .. Len(s) |-> s[i]]
BY LenProperties

\* A column with as many rows as the table is the table.
LEMMA FullColumn ==
    ASSUME CacheInv, TableOK, ColumnsOK, NEW c \in Col, store[c].rows = Len(table)
    PROVE  store[c].cells = table
<1>1. /\ table \in Seq(Cell) /\ store[c].cells \in Seq(Cell) /\ Len(store[c].cells) = Len(table)
      /\ Len(table) \in Nat
  BY DEF CacheInv, TypeOK, CachedColumn, ColumnWellFormed
<1> DEFINE N == Len(table)
           list == store[c].cells
<1>2. list \in [1 .. N -> 1 .. N] /\ Increasing(list)
  BY <1>1 DEF ColumnsOK
<1>3. \A i \in 1 .. N : list[i] = i
  BY <1>1, <1>2, IncreasingIsAll
<1>4. table = [i \in 1 .. N |-> table[i]] /\ list = [i \in 1 .. N |-> list[i]]
  <2>1. table = [i \in 1 .. Len(table) |-> table[i]]
    BY <1>1, SeqIsFunction
  <2>2. list = [i \in 1 .. N |-> list[i]]
    <3> HIDE DEF list, N
    <3> QED BY <1>2
  <2> QED BY <2>1, <2>2
<1> HIDE DEF list, N
<1>5. \A i \in 1 .. N : table[i] = list[i]
  BY <1>3 DEF TableOK, N
<1> QED BY <1>4, <1>5 DEF list

\* Resident columns of one length are cut alike, and MlxCacheHas accepts them.
LEMMA EqualLengths ==
    ASSUME CacheInv, ColumnsOK, NEW cols \in SUBSET Col, NEW n \in Nat \ {0},
           \A c \in cols : Len(store[c].cells) = n
    PROVE  /\ \A c \in cols : Resident(c) /\ store[c].rows = n
           /\ \A c, d \in cols : store[c].ends = store[d].ends
           /\ MlxCacheHas(cols, n)
<1>1. \A c \in cols : Resident(c) /\ store[c].rows = n
  BY DEF CacheInv, TypeOK, ColumnWellFormed, Resident
<1>2. \A c, d \in cols : store[c].ends = store[d].ends
  BY <1>1 DEF ColumnsOK
<1> QED BY <1>1, <1>2 DEF MlxCacheHas

RowsOf(cols, list, n, filter, fc) ==
    [status |-> "rows", rows |-> Masked(cols, [c \in cols |-> list], n, filter, fc)]

Hold(cols, list) == \A c \in cols : store[c].cells = list

\* Columns that hold one list are read together, by segments and fused.
LEMMA ReadList ==
    ASSUME CacheInv, ColumnsOK, NEW cols \in SUBSET Col, NEW fc \in cols, NEW filter, NEW n \in Nat \ {0}, NEW list,
           Hold(cols, list), Len(list) = n
    PROVE  /\ ReadSegments(cols, filter, fc) = RowsOf(cols, list, n, filter, fc)
           /\ ReadFused(cols, filter, fc) = RowsOf(cols, list, n, filter, fc)
<1> USE DEF Hold, RowsOf
<1>1. /\ \A c \in cols : Resident(c) /\ store[c].rows = n
      /\ \A c, d \in cols : store[c].ends = store[d].ends
  <2>1. \A c \in cols : Len(store[c].cells) = n
    OBVIOUS
  <2> QED BY <2>1, EqualLengths
<1>2. [c \in cols |-> store[c].cells] = [c \in cols |-> list]
  OBVIOUS
<1>3. ReadSegments(cols, filter, fc)
                = [status |-> "rows", rows |-> Masked(cols, [c \in cols |-> list], n, filter, fc)]
  BY <1>1, <1>2, Zenon DEF ReadSegments
<1>4. CASE \E c \in cols : store[c].fused = <<>>
  BY <1>3, <1>4 DEF ReadFused
<1>5. CASE \A c \in cols : store[c].fused # <<>>
  <2>1. \A c \in cols : store[c].fused = list
    BY <1>5 DEF CacheInv, FusedCurrent
  <2>2. [c \in cols |-> store[c].fused] = [c \in cols |-> list]
    BY <2>1
  <2>3. \A c, d \in cols : Len(store[c].fused) = Len(store[d].fused)
    BY <2>1
  <2>4. store[fc].rows = n
    BY <1>1
  <2> QED BY <1>3, <1>5, <2>2, <2>3, <2>4, Zenon DEF ReadFused
<1> QED BY <1>3, <1>4, <1>5

-----------------------------------------------------------------------------
(* Listings *)

LEMMA ListingOK ==
    ASSUME NEW q, Numbered(q), NEW list \in Listings(q)
    PROVE  /\ Len(list) \in 0 .. Len(q.snapshot) /\ list \in [1 .. Len(list) -> 1 .. Len(q.snapshot)]
           /\ list \in Seq(1 .. Len(q.snapshot)) /\ Len(list) \in Nat /\ \A i \in 1 .. Len(list) : list[i] \in Nat
           /\ \A i, j \in 1 .. Len(list) : i < j => list[i] < list[j]
           /\ {list[i] : i \in 1 .. Len(list)} = Selected(q)
           /\ Selected(q) = {x \in 1 .. Len(q.snapshot) : q.filter = "none" \/ x \in Keep}
<1>1. PICK n \in 0 .. Len(q.snapshot) : list \in [1 .. n -> 1 .. Len(q.snapshot)]
  BY DEF Listings
<1>2. Increasing(list) /\ {list[i] : i \in DOMAIN list} = Selected(q)
  BY DEF Listings
<1>3. n \in Nat /\ Len(list) = n /\ DOMAIN list = 1 .. n /\ list \in Seq(1 .. Len(q.snapshot))
  BY <1>1 DEF Numbered
<1>4. Selected(q) = {x \in 1 .. Len(q.snapshot) : q.filter = "none" \/ x \in Keep}
  BY DEF Selected, Numbered
<1>5. \A i, j \in 1 .. Len(list) : i < j => list[i] < list[j]
  BY <1>2, <1>3 DEF Increasing
<1>6. \A i \in 1 .. n : list[i] \in Nat
  BY <1>1 DEF Numbered
<1> QED BY <1>1, <1>2, <1>3, <1>4, <1>5, <1>6

\* Without a filter the listing is the whole table.
LEMMA FullListing ==
    ASSUME NEW q, Numbered(q), q.filter = "none"
    PROVE  /\ q.snapshot \in Seq(Nat) => q.snapshot \in Listings(q)
           /\ \A list \in Listings(q) : Len(list) = Len(q.snapshot)
<1> DEFINE N == Len(q.snapshot)
<1>1. ASSUME q.snapshot \in Seq(Nat) PROVE q.snapshot \in Listings(q)
  <2>1. q.snapshot \in [1 .. N -> 1 .. N] /\ N \in 0 .. N
    BY <1>1 DEF Numbered
  <2>2. Increasing(q.snapshot)
    BY DEF Increasing, Numbered
  <2>3. {q.snapshot[i] : i \in DOMAIN q.snapshot} = Selected(q)
    BY DEF Selected, Numbered
  <2> QED BY <2>1, <2>2, <2>3 DEF Listings
<1>2. ASSUME NEW list \in Listings(q) PROVE Len(list) = N
  <2>1. /\ Len(list) \in 0 .. N /\ list \in [1 .. Len(list) -> 1 .. N] /\ N \in Nat
        /\ {list[i] : i \in 1 .. Len(list)} = 1 .. N
    BY ListingOK DEF Numbered
  <2> DEFINE n == Len(list)
  <2>2. list \in Surjection(1 .. n, 1 .. N)
    BY <2>1 DEF Surjection
  <2>3. n \in Nat /\ ExistsSurjection(1 .. n, 1 .. N)
    BY <2>1, <2>2 DEF ExistsSurjection
  <2>4. Cardinality(1 .. N) <= n
    BY <2>3, FS_SurjCardinalityBound
  <2>5. Cardinality(1 .. N) = N
    <3>1. N \in Int /\ 1 \in Int /\ N >= 0
      BY <2>1
    <3> HIDE DEF n
    <3>2. Cardinality(1 .. N) = IF 1 > N THEN 0 ELSE N - 1 + 1
      BY <3>1, FS_Interval, Zenon
    <3> QED BY <3>1, <3>2
  <2> QED BY <2>1, <2>4, <2>5
<1> QED BY <1>1, <1>2

\* The rows of a listing, masked, are a correct answer when the mask selects what the
\* query does.
LEMMA MaskedCorrect ==
    ASSUME NEW q, Numbered(q), NEW fc \in q.cols, NEW filter, NEW n \in Nat, NEW list \in [1 .. n -> Nat],
           \A i, j \in 1 .. n : i < j => list[i] < list[j],
           {list[i] : i \in {j \in 1 .. n : filter = "none" \/ list[j] \in Keep}} = Selected(q)
    PROVE  CorrectFor(q, RowsOf(q.cols, list, n, filter, fc))
<1> USE DEF RowsOf
<1> DEFINE P == {j \in 1 .. n : filter = "none" \/ list[j] \in Keep}
           row(p) == <<p, [c \in q.cols |-> list[p]]>>
           a == [status |-> "rows", rows |-> Masked(q.cols, [c \in q.cols |-> list], n, filter, fc)]
<1>1. a.status = "rows" /\ a.rows = {row(p) : p \in P}
  BY DEF Masked
<1>2. \A p \in P : \A c \in q.cols : row(p)[2][c] = list[p]
  OBVIOUS
<1>3. \A p, u \in P : list[p] = list[u] => p = u
  <2>1. \A p \in P : p \in 1 .. n /\ list[p] \in Nat
    OBVIOUS
  <2> HIDE DEF P
  <2> QED BY <2>1
<1>4. {list[p] : p \in P} = Selected(q)
  OBVIOUS
<1> HIDE DEF a, P, row
<1>5. \A r \in a.rows : \E x \in Selected(q) : \A c \in q.cols : r[2][c] = x
  <2> SUFFICES ASSUME NEW r \in a.rows PROVE \E x \in Selected(q) : \A c \in q.cols : r[2][c] = x
    OBVIOUS
  <2>1. PICK p \in P : r = row(p)
    BY <1>1
  <2>2. list[p] \in Selected(q)
    BY <1>4
  <2> QED BY <1>2, <2>1, <2>2
<1>6. \A x \in Selected(q) : \E r \in a.rows : \A c \in q.cols : r[2][c] = x
  BY <1>1, <1>2, <1>4
<1>7. ASSUME NEW r \in a.rows, NEW t \in a.rows, \A c \in q.cols : r[2][c] = t[2][c] PROVE r = t
  <2>1. PICK p \in P : r = row(p)
    BY <1>1
  <2>2. PICK u \in P : t = row(u)
    BY <1>1
  <2>3. list[p] = list[u]
    BY <1>2, <1>7, <2>1, <2>2
  <2> QED BY <1>3, <2>1, <2>2, <2>3
<1>8. CorrectFor(q, a)
  <2>1. Covers(q, a)
    BY <1>5, <1>6, <1>7 DEF Covers
  <2>2. q.cols # {} /\ a.status = "rows"
    BY <1>1
  <2> QED BY <2>1, <2>2, CorrectAnswer
<1> QED BY <1>8 DEF a

\* A prefix of a listing that all columns hold.
LEMMA RemainAll ==
    ASSUME NEW list, Len(list) \in Nat, NEW n, Remain(<<>>, list, n)
    PROVE  n = Len(list)
BY DEF Remain

LEMMA RemainNone ==
    ASSUME NEW list, Len(list) \in Nat
    PROVE  Remain(<<>>, list, Len(list))
<1> DEFINE n == Len(list)
           e == [k \in 0 .. 0 |-> n]
           parts == <<>>
<1>1. e \in [0 .. 0 -> 0 .. n] /\ e[0] = n /\ Len(parts) = 0 /\ 1 .. 0 = {}
  OBVIOUS
<1> HIDE DEF e, parts
<1>2. Remain(parts, list, n)
  BY <1>1 DEF Remain
<1> QED BY <1>2 DEF parts

LEMMA RemainOne ==
    ASSUME NEW q, Numbered(q), NEW list \in Listings(q), NEW parts \in Seq(Seq(Nat)), Len(parts) = 1, Remain(parts, list, 0)
    PROVE  parts[1] = list
<1>1. PICK e \in [0 .. Len(parts) -> 0 .. Len(list)] :
        /\ e[0] = 0 /\ e[Len(parts)] = Len(list)
        /\ \A i \in 1 .. Len(parts) :
              e[i - 1] <= e[i] /\ parts[i] = [j \in 1 .. e[i] - e[i - 1] |-> list[e[i - 1] + j]]
  BY DEF Remain
<1>2. parts[1] = [j \in 1 .. e[1] - e[1 - 1] |-> list[e[1 - 1] + j]]
  <2>1. 1 \in 1 .. Len(parts)
    OBVIOUS
  <2> QED BY <1>1, <2>1, Zenon
<1>3. 1 - 1 = 0 /\ e[0] = 0 /\ e[1] = Len(list) /\ Len(list) \in Nat /\ list = [j \in 1 .. Len(list) |-> list[j]]
  BY <1>1, ListingOK DEF Numbered
<1>4. parts[1] = [j \in 1 .. Len(list) - 0 |-> list[0 + j]]
  BY <1>2, <1>3
<1>5. [j \in 1 .. Len(list) - 0 |-> list[0 + j]] = [j \in 1 .. Len(list) |-> list[j]]
  BY <1>3
<1> QED BY <1>3, <1>4, <1>5

LEMMA OnePart ==
    ASSUME NEW S, NEW parts \in Seq(S), parts # <<>>
    PROVE  /\ Len(parts) \in Nat \ {0} /\ DOMAIN parts = 1 .. Len(parts)
           /\ Len(parts) <= 1 => Len(parts) = 1 /\ DOMAIN parts = {1}
<1>1. Len(parts) \in Nat /\ DOMAIN parts = 1 .. Len(parts) /\ Len(parts) # 0
  BY EmptySeq
<1> QED BY <1>1

\* A session whose buffer holds its listing computes the answer from the buffer.
LEMMA OwnCorrect ==
    ASSUME NEW s \in Session, Numbered(query[s]), query[s].cols # {}, segs[s] \in Seq(Seq(Nat)),
           Len(segs[s]) <= 1, Buffered(s)
    PROVE  CorrectFor(query[s], OwnAnswer(s))
<1> DEFINE q == query[s]
           a == OwnAnswer(s)
           N == Len(q.snapshot)
           row(t, i) == <<(t - 1) * N + i, [c \in q.cols |-> segs[s][t][i]]>>
<1>1. PICK list \in Listings(q) : Remain(segs[s], list, 0)
  BY DEF Buffered
<1>2. /\ Len(list) \in 0 .. N /\ list \in [1 .. Len(list) -> 1 .. N] /\ N \in Nat
      /\ \A i, j \in 1 .. Len(list) : i < j => list[i] < list[j]
      /\ {list[i] : i \in 1 .. Len(list)} = Selected(q)
  BY ListingOK DEF Numbered
<1>3. /\ a.status = "rows"
      /\ a.rows = UNION {{row(t, i) : i \in DOMAIN segs[s][t]} : t \in DOMAIN segs[s]}
  BY DEF OwnAnswer
<1>4. a.rows = {<<i, [c \in q.cols |-> list[i]]>> : i \in 1 .. Len(list)}
  <2>1. CASE segs[s] = <<>>
    <3>1. Len(list) = 0
      BY <1>1, <1>2, <2>1, RemainAll
    <3>2. a.rows = {}
      BY <1>3, <2>1
    <3> QED BY <3>1, <3>2
  <2>2. CASE segs[s] # <<>>
    <3>1. Len(segs[s]) = 1 /\ DOMAIN segs[s] = {1}
      BY <2>2, OnePart
    <3>2. segs[s][1] = list
      BY <1>1, <3>1, RemainOne
    <3>3. a.rows = {row(1, i) : i \in DOMAIN segs[s][1]}
      BY <1>3, <3>1
    <3>4. DOMAIN segs[s][1] = 1 .. Len(list)
      BY <1>2, <3>2
    <3>5. ASSUME NEW i \in 1 .. Len(list) PROVE row(1, i) = <<i, [c \in q.cols |-> list[i]]>>
      <4>1. (1 - 1) * N + i = i
        BY <1>2
      <4> QED BY <3>2, <4>1
    <3> HIDE DEF row, a
    <3> QED BY <3>3, <3>4, <3>5
  <2> QED BY <2>1, <2>2
<1>5. PICK fc \in q.cols : TRUE
  OBVIOUS
<1> DEFINE n == Len(list)
<1>6. Masked(q.cols, [c \in q.cols |-> list], n, "none", fc) = {<<i, [c \in q.cols |-> list[i]]>> : i \in 1 .. n}
  BY DEF Masked
<1>7. n \in Nat /\ list \in [1 .. n -> Nat]
  BY <1>2
<1>8. {list[i] : i \in {j \in 1 .. n : "none" = "none" \/ list[j] \in Keep}} = Selected(q)
  BY <1>2
<1>9. a = RowsOf(q.cols, list, n, "none", fc)
  BY <1>4, <1>6 DEF OwnAnswer, RowsOf
<1> HIDE DEF a, n
<1>10. \A i, j \in 1 .. n : i < j => list[i] < list[j]
  BY <1>2 DEF n
<1>11. CorrectFor(q, RowsOf(q.cols, list, n, "none", fc))
  BY <1>7, <1>8, <1>10, MaskedCorrect
<1> QED BY <1>9, <1>11 DEF a

\* The chunks of a pin's scan are the table, from its first row to its last.
LEMMA ChunksRemain ==
    ASSUME NEW rows \in Seq(Nat)
    PROVE  Remain(Chunks(rows), rows, 0)
<1> DEFINE N == Len(rows)
           C == ChunkRows
           m == (N + C - 1) \div C
           hi(k) == IF k * C < N THEN k * C ELSE N
<1>1. N \in Nat /\ C \in Nat \ {0}
  BY CacheAssumption
<1>2. m \in Nat /\ m * C >= N /\ (m - 1) * C < N
  <2>1. N + C - 1 \in Nat
    BY <1>1
  <2>2. m \in Nat /\ (N + C - 1) % C \in 0 .. C - 1 /\ N + C - 1 = m * C + ((N + C - 1) % C)
    BY <1>1, <2>1, DivModOf
  <2> DEFINE r == (N + C - 1) % C
  <2> HIDE DEF m, r
  <2>3. r \in 0 .. C - 1 /\ N + C - 1 = m * C + r /\ (m - 1) * C = m * C - C
    BY <2>2, <1>1 DEF r
  <2> QED BY <2>2, <2>3, <1>1
<1> HIDE DEF m
<1>3. \A k \in 0 .. m : k * C \in Nat /\ hi(k) \in 0 .. N
  BY <1>1, <1>2
<1>4. ASSUME NEW k \in 1 .. m
      PROVE  /\ k - 1 \in 0 .. m /\ hi(k - 1) = (k - 1) * C /\ hi(k - 1) <= hi(k)
             /\ SubSeq(rows, (k - 1) * C + 1, hi(k)) = [j \in 1 .. hi(k) - hi(k - 1) |-> rows[hi(k - 1) + j]]
  <2>1. (k - 1) * C <= (m - 1) * C /\ (k - 1) * C \in Nat /\ k * C = (k - 1) * C + C
    BY <1>1, <1>2
  <2>2. k - 1 \in 0 .. m /\ hi(k - 1) = (k - 1) * C /\ hi(k - 1) <= hi(k) /\ hi(k) \in 0 .. N
    BY <2>1, <1>1, <1>2, <1>3
  <2> DEFINE x == (k - 1) * C
             y == hi(k)
  <2>3. x \in Nat /\ x <= y /\ y \in 0 .. N
    BY <2>1, <2>2
  <2> HIDE DEF x, y
  <2>4. SubSeq(rows, x + 1, y) = [j \in 1 .. y - x |-> rows[x + j]]
    BY <2>3, <1>1
  <2> QED BY <2>2, <2>4 DEF x, y
<1>5. Chunks(rows) = [k \in 1 .. m |-> SubSeq(rows, (k - 1) * C + 1, hi(k))]
  BY DEF Chunks, m
<1> DEFINE parts == Chunks(rows)
           e == [k \in 0 .. m |-> hi(k)]
<1>6. Len(parts) = m
  BY <1>2, <1>5
<1>7. hi(0) = 0 /\ hi(m) = N
  BY <1>1, <1>2
<1> HIDE DEF hi
<1>8. e \in [0 .. m -> 0 .. N] /\ e[0] = 0 /\ e[m] = N
  BY <1>2, <1>3, <1>7
<1>9. \A i \in 1 .. m : e[i - 1] <= e[i] /\ parts[i] = [j \in 1 .. e[i] - e[i - 1] |-> rows[e[i - 1] + j]]
  <2> SUFFICES ASSUME NEW i \in 1 .. m
               PROVE  e[i - 1] <= e[i] /\ parts[i] = [j \in 1 .. e[i] - e[i - 1] |-> rows[e[i - 1] + j]]
    OBVIOUS
  <2>1. e[i - 1] = hi(i - 1) /\ e[i] = hi(i)
    BY <1>4
  <2>2. parts[i] = SubSeq(rows, (i - 1) * C + 1, hi(i))
    BY <1>5
  <2> HIDE DEF e, parts
  <2> QED BY <2>1, <2>2, <1>4
<1> HIDE DEF e, parts
<1> QED BY <1>6, <1>8, <1>9 DEF Remain, parts

-----------------------------------------------------------------------------
(* The steps of the session *)

\* The types the steps use.
LEMMA Known ==
    ASSUME SerialInv, NEW s \in Session
    PROVE  /\ query[s] \in Query /\ query[s].cols \in SUBSET Col /\ segs[s] \in Seq(Seq(Nat))
           /\ table \in Seq(Nat) /\ Len(table) \in Nat /\ DOMAIN table = 1 .. Len(table)
           /\ DOMAIN pc = Session /\ DOMAIN query = Session /\ DOMAIN segs = Session
           /\ DOMAIN todo = Session /\ DOMAIN plan = Session /\ DOMAIN answer = Session
           /\ pc[s] # "idle" => Numbered(query[s])
           /\ CacheInv /\ TableOK /\ ColumnsOK /\ StepOK(s) /\ AnswerOK(s)
<1>1. TypeOK /\ TableOK /\ StepOK(s)
  BY DEF SerialInv, CacheInv
<1>2. query[s] \in Query /\ query[s].cols \in SUBSET Col /\ segs[s] \in Seq(Seq(Nat))
  BY <1>1 DEF TypeOK, Query, Cell
<1>3. table \in Seq(Nat) /\ Len(table) \in Nat /\ DOMAIN table = 1 .. Len(table)
  BY <1>1 DEF TypeOK, Cell
<1>4. pc[s] # "idle" => Numbered(query[s])
  BY <1>1, <1>3 DEF Numbered, TableOK, StepOK
<1>5. /\ DOMAIN pc = Session /\ DOMAIN query = Session /\ DOMAIN segs = Session
      /\ DOMAIN todo = Session /\ DOMAIN plan = Session /\ DOMAIN answer = Session
  BY <1>1 DEF TypeOK
<1> QED BY <1>2, <1>3, <1>4, <1>5 DEF SerialInv

\* A step that leaves the cache and the table alone.
LEMMA Untouched ==
    ASSUME SerialInv, UNCHANGED <<store, table, written>>
    PROVE  /\ TableOK' /\ ColumnsOK'
           /\ \A cols, n : MlxCacheHas(cols, n)' <=> MlxCacheHas(cols, n)
BY DEF SerialInv, TableOK, ColumnsOK, Resident, MlxCacheHas

LEMMA HasKept ==
    ASSUME NEW s, UNCHANGED <<store, table, query>>
    PROVE  MlxCacheHas(query[s].cols, Len(table))' <=> MlxCacheHas(query[s].cols, Len(table))
BY DEF MlxCacheHas, Resident

LEMMA PlanSerial ==
    ASSUME SerialInv, NEW s \in Session, NEW kind, NEW cols \in (SUBSET Col) \ {{}}, NEW filter,
           Plan(s, kind, cols, filter)
    PROVE  TableOK' /\ ColumnsOK' /\ StepOK(s)' /\ AnswerOK(s)'
<1> DEFINE has == MlxCacheHas(cols, Len(table))
           q == [kind |-> kind, cols |-> cols, filter |-> filter, cached |-> has,
                 expected |-> Len(table), snapshot |-> table]
<1>1. /\ pc[s] = "idle" /\ kind \in {"sum", "group"} /\ Len(table) > 0
      /\ query'[s] = q
      /\ pc'[s] = IF has THEN "exec" ELSE "scan"
      /\ todo'[s] = IF has THEN {} ELSE Selected(q)
      /\ UNCHANGED <<segs, plan, answer, store, table, written>>
  BY Known DEF Plan, PlanAs, cacheVars, tableVars
<1>2. TableOK' /\ ColumnsOK' /\ (MlxCacheHas(cols, Len(table))' <=> has)
  BY <1>1, Untouched
<1>3. segs[s] = <<>> /\ segs'[s] = <<>>
  BY <1>1, Known DEF StepOK
<1>4. /\ q.kind = kind /\ q.cols = cols /\ q.filter = filter /\ q.expected = Len(table) /\ q.snapshot = table
      /\ cols # {}
  OBVIOUS
<1> HIDE DEF q, has
<1>5. StepOK(s)'
  BY <1>1, <1>2, <1>3, <1>4 DEF StepOK
<1>6. AnswerOK(s)'
  BY <1>1 DEF AnswerOK
<1> QED BY <1>2, <1>5, <1>6

LEMMA PinSerial ==
    ASSUME SerialInv, NEW s \in Session, PinTable(s)
    PROVE  TableOK' /\ ColumnsOK' /\ StepOK(s)' /\ AnswerOK(s)'
<1> DEFINE has == MlxCacheHas(Col, Len(table))
           q == [kind |-> "pin", cols |-> Col, filter |-> "none", cached |-> has,
                 expected |-> Len(table), snapshot |-> table]
<1>1. /\ pc[s] = "idle" /\ Len(table) > 0
      /\ query'[s] = q
      /\ pc'[s] = IF has THEN "fuse" ELSE "begin"
      /\ segs'[s] = IF has THEN <<>> ELSE Chunks(table)
      /\ UNCHANGED <<todo, plan, answer, store, table, written>>
  BY Known DEF PinTable, cacheVars, tableVars
<1>2. TableOK' /\ ColumnsOK' /\ (MlxCacheHas(Col, Len(table))' <=> has)
  BY <1>1, Untouched
<1>3. q.kind = "pin" /\ q.cols = Col /\ q.filter = "none" /\ q.expected = Len(table) /\ q.snapshot = table
  OBVIOUS
<1>4. Numbered(q) /\ table \in Listings(q)
  <2>1. Numbered(q)
    BY <1>3, Known DEF Numbered, TableOK
  <2> HIDE DEF q
  <2> QED BY <2>1, <1>3, Known, FullListing
<1> HIDE DEF q
<1>5. CASE has
  <2>1. Prefix(Col, table, Len(table))'
    <3>1. ASSUME NEW c \in Col PROVE store'[c].cells = [i \in 1 .. Len(table') |-> table'[i]]
      <4>1. store[c].rows = Len(table)
        BY <1>5 DEF has, MlxCacheHas
      <4>2. store[c].cells = table
        BY <4>1, Known, FullColumn
      <4>3. table = [i \in 1 .. Len(table) |-> table[i]]
        BY Known
      <4> QED BY <1>1, <4>2, <4>3
    <3> QED BY <3>1 DEF Prefix
  <2>2. Stored(s)'
    BY <1>1, <1>3, <1>4, <2>1 DEF Stored
  <2>3. StepOK(s)'
    BY <1>1, <1>3, <1>5, <2>2 DEF StepOK
  <2>4. AnswerOK(s)'
    BY <1>1, <1>3 DEF AnswerOK
  <2> QED BY <1>2, <2>3, <2>4
<1>6. CASE ~has
  <2>1. Remain(Chunks(table), table, 0)
    BY Known, ChunksRemain
  <2>2. Buffered(s)'
    BY <1>1, <1>4, <1>6, <2>1 DEF Buffered
  <2>3. StepOK(s)'
    BY <1>1, <1>2, <1>3, <1>6, <2>2 DEF StepOK
  <2>4. AnswerOK(s)'
    BY <1>1, <1>3 DEF AnswerOK
  <2> QED BY <1>2, <2>3, <2>4
<1> QED BY <1>5, <1>6

\* The rows of the cached table, masked by the filter, are what the query asks for.
LEMMA TableMasked ==
    ASSUME SerialInv, NEW s \in Session, pc[s] = "exec", NEW fc \in query[s].cols
    PROVE  LET a == RowsOf(query[s].cols, table, Len(table), query[s].filter, fc)
           IN  /\ ReadSegments(query[s].cols, query[s].filter, fc) = a
               /\ ReadFused(query[s].cols, query[s].filter, fc) = a
               /\ CorrectFor(query[s], a)
<1> DEFINE q == query[s]
           n == Len(table)
           filter == q.filter
<1>1. n \in Nat \ {0} /\ table \in [1 .. n -> Nat] /\ q.snapshot = table /\ Numbered(q) /\ q.cols \in SUBSET Col
  BY Known DEF StepOK
<1>2. \A c \in q.cols : store[c].cells = table
  <2>1. \A c \in q.cols : store[c].rows = Len(table)
    BY Known DEF StepOK, MlxCacheHas
  <2> QED BY <1>1, <2>1, Known, FullColumn
<1>3. \A i \in 1 .. n : table[i] = i
  BY Known DEF TableOK
<1>4. \A i, j \in 1 .. n : i < j => table[i] < table[j]
  BY <1>1, <1>3
<1>5. {table[i] : i \in {j \in 1 .. n : filter = "none" \/ table[j] \in Keep}} = Selected(q)
  <2>1. Selected(q) = {j \in 1 .. n : filter = "none" \/ table[j] \in Keep}
    BY <1>1 DEF Selected, Numbered
  <2> QED BY <1>3, <2>1
<1>6. CacheInv /\ ColumnsOK
  BY Known
<1> HIDE DEF q, n, filter
<1>7. CorrectFor(q, RowsOf(q.cols, table, n, filter, fc))
  BY <1>1, <1>4, <1>5, MaskedCorrect DEF q
<1>8. /\ ReadSegments(q.cols, filter, fc) = RowsOf(q.cols, table, n, filter, fc)
      /\ ReadFused(q.cols, filter, fc) = RowsOf(q.cols, table, n, filter, fc)
  <2>1. Len(table) = n /\ fc \in q.cols /\ Hold(q.cols, table)
    BY <1>2 DEF n, q, Hold
  <2> QED BY <1>1, <1>6, <2>1, ReadList
<1> QED BY <1>7, <1>8 DEF q, n, filter

LEMMA ServeSerial ==
    ASSUME SerialInv, NEW s \in Session, ServeCached(s) \/ ServeGroupedFused(s)
    PROVE  TableOK' /\ ColumnsOK' /\ StepOK(s)' /\ AnswerOK(s)'
<1>1. /\ pc[s] = "exec" /\ pc'[s] = "done"
      /\ UNCHANGED <<query, todo, segs, plan, store, table, written>>
  BY Known DEF ServeCached, ServeGroupedFused, cacheVars, tableVars
<1>2. TableOK' /\ ColumnsOK' /\ (MlxCacheHas(query[s].cols, Len(table))' <=> MlxCacheHas(query[s].cols, Len(table)))
  BY <1>1, Untouched, HasKept
<1>3. PICK fc \in query[s].cols :
        answer'[s] \in {ReadSegments(query[s].cols, query[s].filter, fc), ReadFused(query[s].cols, query[s].filter, fc)}
  BY Known DEF ServeCached, ServeGroupedFused
<1>4. CorrectFor(query[s], answer'[s])
  BY <1>1, <1>3, TableMasked
<1>5. Correct(s)'
  BY <1>1, <1>4, CorrectIs
<1>6. StepOK(s)'
  BY <1>1, <1>2, Known DEF StepOK
<1>7. AnswerOK(s)'
  BY <1>5 DEF AnswerOK
<1> QED BY <1>2, <1>6, <1>7

LEMMA CombineSerial ==
    ASSUME SerialInv, NEW s \in Session, CombineThread(s)
    PROVE  TableOK' /\ ColumnsOK' /\ StepOK(s)' /\ AnswerOK(s)'
<1> DEFINE q == query[s]
           N == Len(q.snapshot)
<1>1. pc[s] = "scan" /\ UNCHANGED <<pc, query, plan, answer, store, table, written>>
  BY DEF CombineThread, cacheVars, tableVars
<1>0. PICK P \in SUBSET todo[s], n \in 1 .. N : \E f \in [1 .. n -> P] :
        /\ P = {f[i] : i \in 1 .. n}
        /\ \A i, j \in 1 .. n : i < j => f[i] < f[j]
        /\ Len(segs[s]) + 1 = Threads => P = todo[s]
        /\ segs' = [segs EXCEPT ![s] = Append(@, [i \in 1 .. n |-> q.snapshot[f[i]]])]
        /\ todo' = [todo EXCEPT ![s] = @ \ P]
  BY DEF CombineThread
<1>2. PICK f \in [1 .. n -> P] :
        /\ P = {f[i] : i \in 1 .. n}
        /\ \A i, j \in 1 .. n : i < j => f[i] < f[j]
        /\ Len(segs[s]) + 1 = Threads => P = todo[s]
        /\ segs' = [segs EXCEPT ![s] = Append(@, [i \in 1 .. n |-> q.snapshot[f[i]]])]
        /\ todo' = [todo EXCEPT ![s] = @ \ P]
  BY <1>0
<1>3. N \in Nat /\ n \in Nat /\ n # 0 /\ Numbered(q)
  BY <1>1, <1>2, Known DEF Numbered
<1>4. todo[s] # {}
  <2>1. f[1] \in P
    BY <1>3
  <2> QED BY <2>1
<1>5. segs[s] = <<>> /\ todo[s] = Selected(q)
  BY <1>1, <1>4, Known DEF StepOK
<1>6. P = Selected(q)
  <2>1. Len(segs[s]) = 0 /\ Threads = 1
    BY <1>5 DEF SerialInv, Serial
  <2> QED BY <1>2, <1>5, <2>1
<1>7. Selected(q) \subseteq 1 .. N /\ DOMAIN q.snapshot = 1 .. N
  BY <1>3 DEF Selected, Numbered
<1>8. f \in Listings(q)
  <2>1. f \in [1 .. n -> 1 .. N] /\ n \in 0 .. N
    BY <1>3, <1>6, <1>7
  <2>2. Increasing(f) /\ {f[i] : i \in DOMAIN f} = Selected(q)
    BY <1>2, <1>6 DEF Increasing
  <2> QED BY <2>1, <2>2 DEF Listings
<1>9. [i \in 1 .. n |-> q.snapshot[f[i]]] = f
  <2>1. \A i \in 1 .. n : q.snapshot[f[i]] = f[i]
    BY <1>3, <1>6, <1>7 DEF Numbered
  <2> QED BY <2>1
<1>10. segs'[s] = <<f>> /\ todo'[s] = {} /\ query'[s] = q
  <2>1. segs'[s] = Append(segs[s], f)
    BY <1>2, <1>9, Known
  <2>2. todo'[s] = todo[s] \ P
    BY <1>2, Known
  <2> QED BY <1>1, <1>5, <1>6, <2>1, <2>2
<1>11. Remain(<<f>>, f, 0)
  <2> DEFINE e == [k \in 0 .. 1 |-> IF k = 0 THEN 0 ELSE n]
             parts == <<f>>
  <2>1. Len(f) = n /\ Len(parts) = 1 /\ parts[1] = f
    BY <1>3
  <2>2. e \in [0 .. 1 -> 0 .. n] /\ e[0] = 0 /\ e[1] = n
    BY <1>3
  <2>3. f = [j \in 1 .. n - 0 |-> f[0 + j]]
    BY <1>3
  <2>4. \A i \in 1 .. 1 : e[i - 1] <= e[i] /\ parts[i] = [j \in 1 .. e[i] - e[i - 1] |-> f[e[i - 1] + j]]
    <3> SUFFICES e[1 - 1] <= e[1] /\ parts[1] = [j \in 1 .. e[1] - e[1 - 1] |-> f[e[1 - 1] + j]]
      OBVIOUS
    <3>1. 1 - 1 = 0
      OBVIOUS
    <3> HIDE DEF e, parts
    <3>2. e[1 - 1] = 0
      BY <2>2, <3>1
    <3> QED BY <2>1, <2>2, <2>3, <3>2, <1>3
  <2> HIDE DEF e, parts
  <2>5. Remain(parts, f, 0)
    BY <2>1, <2>2, <2>4 DEF Remain
  <2> QED BY <2>5 DEF parts
<1>12. Buffered(s)'
  BY <1>8, <1>10, <1>11 DEF Buffered
<1>13. TableOK' /\ ColumnsOK' /\ (MlxCacheHas(query[s].cols, Len(table))' <=> MlxCacheHas(query[s].cols, Len(table)))
  BY <1>1, Untouched, HasKept
<1>14. Len(segs'[s]) = 1
  BY <1>10
<1>15. StepOK(s)'
  BY <1>1, <1>10, <1>12, <1>13, <1>14, Known DEF StepOK
<1>16. AnswerOK(s)'
  BY <1>1 DEF AnswerOK
<1> QED BY <1>13, <1>15, <1>16

LEMMA FinalizeSerial ==
    ASSUME SerialInv, NEW s \in Session, Finalize(s)
    PROVE  TableOK' /\ ColumnsOK' /\ StepOK(s)' /\ AnswerOK(s)'
<1> DEFINE q == query[s]
           own == q.kind = "group" \/ q.filter = "table"
<1>1. /\ pc[s] = "scan" /\ todo[s] = {}
      /\ pc'[s] = IF q.filter = "table" THEN "done" ELSE "begin"
      /\ own => answer'[s] = OwnAnswer(s)
      /\ UNCHANGED <<query, todo, segs, plan, store, table, written>>
  BY Known DEF Finalize, cacheVars, tableVars
<1>2. Numbered(q) /\ q.cols # {} /\ q.kind # "pin" /\ segs[s] \in Seq(Seq(Nat)) /\ Len(segs[s]) <= 1
  BY <1>1, Known DEF StepOK
<1>3. Buffered(s)
  <2>1. CASE segs[s] = <<>> /\ todo[s] = Selected(q)
    <3> DEFINE list == <<>>
    <3>1. list \in [1 .. 0 -> 1 .. Len(q.snapshot)] /\ 0 \in 0 .. Len(q.snapshot) /\ Len(list) = 0 /\ DOMAIN list = {}
      BY <1>2 DEF Numbered
    <3>2. list \in Listings(q)
      BY <1>1, <2>1, <3>1 DEF Listings, Increasing
    <3>3. Remain(segs[s], list, 0)
      <4>1. Len(list) = 0 /\ Len(list) \in Nat
        BY <3>1
      <4> HIDE DEF list
      <4>2. Remain(<<>>, list, Len(list))
        BY <4>1, RemainNone
      <4> QED BY <2>1, <4>1, <4>2
    <3> QED BY <3>2, <3>3 DEF Buffered
  <2> QED BY <1>1, <2>1, Known DEF StepOK
<1>4. own => Correct(s)'
  BY <1>1, <1>2, <1>3, OwnCorrect, CorrectIs
<1>5. TableOK' /\ ColumnsOK' /\ (MlxCacheHas(query[s].cols, Len(table))' <=> MlxCacheHas(query[s].cols, Len(table)))
  BY <1>1, Untouched, HasKept
<1>6. Buffered(s)'
  BY <1>1, <1>3 DEF Buffered
<1>7. StepOK(s)'
  BY <1>1, <1>2, <1>5, <1>6, Known DEF StepOK
<1>8. AnswerOK(s)'
  BY <1>1, <1>4 DEF AnswerOK
<1> QED BY <1>5, <1>7, <1>8

LEMMA BeginSerial ==
    ASSUME SerialInv, NEW s \in Session, BeginPopulation(s)
    PROVE  TableOK' /\ ColumnsOK' /\ StepOK(s)' /\ AnswerOK(s)'
<1> DEFINE q == query[s]
           N == Len(table)
           mismatch == \E c \in Col : Resident(c) /\ store[c].rows # q.expected
           layout1 == IF mismatch THEN NoLayout ELSE layout
           fresh == layout1.rows # q.expected
           dangling == fresh /\ layout1.rows # 0
           dropped == mismatch \/ dangling
           store1 == IF dropped THEN [c \in Col |-> NoColumn] ELSE store
           allPresent == \A c \in q.cols : store1[c].cells # <<>>
<1>1. /\ pc[s] = "begin" /\ pc'[s] = "store"
      /\ plan'[s].storeCols = IF allPresent THEN {} ELSE q.cols
      /\ \A c \in Col : store'[c] = IF c \in q.cols /\ ~allPresent THEN NoColumn ELSE store1[c]
      /\ UNCHANGED <<query, todo, segs, answer, table, written>>
  BY Known DEF BeginPopulation, tableVars
<1>2. /\ q.expected = N /\ N \in Nat \ {0} /\ q.cols \in SUBSET Col /\ ~MlxCacheHas(q.cols, N) /\ Buffered(s)
      /\ q.kind # "pin" => Len(segs[s]) <= 1
      /\ segs[s] \in Seq(Seq(Nat))
  BY <1>1, Known DEF StepOK
<1>3. NoColumn.cells = <<>> /\ NoColumn.rows = 0
  BY DEF NoColumn
<1>4. ~allPresent
  <2> SUFFICES ASSUME allPresent PROVE FALSE
    OBVIOUS
  <2>1. q.cols # {}
    BY <1>2 DEF MlxCacheHas
  <2>2. ~dropped /\ store1 = store
    BY <1>2, <1>3, <2>1
  <2>3. \A c \in q.cols : Resident(c) /\ store[c].rows = N
    BY <1>2, <2>2 DEF Resident
  <2>4. \A c \in q.cols : Len(store[c].cells) = N
    BY <1>2, <2>3, Known DEF CacheInv, ColumnWellFormed
  <2> QED BY <1>2, <2>4, Known, EqualLengths
<1>5. \A c \in Col : store'[c] = NoColumn \/ (c \notin q.cols /\ store'[c] = store[c] /\ (Resident(c) => store[c].rows = N))
  <2> SUFFICES ASSUME NEW c \in Col, store'[c] # NoColumn
               PROVE  c \notin q.cols /\ store'[c] = store[c] /\ (Resident(c) => store[c].rows = N)
    OBVIOUS
  <2>1. c \notin q.cols /\ store'[c] = store1[c]
    BY <1>1, <1>4
  <2>2. ~dropped
    BY <2>1
  <2> QED BY <2>1, <2>2, <1>2
<1> HIDE DEF allPresent, store1, dropped
<1>6. TableOK'
  BY <1>1, Known DEF TableOK
<1>7. ColumnsOK'
  <2>1. Increasing(<<>>) /\ DOMAIN <<>> = {}
    BY DEF Increasing
  <2>2. ASSUME NEW c \in Col
        PROVE  Increasing(store'[c].cells) /\ \A i \in DOMAIN store'[c].cells : store'[c].cells[i] \in 1 .. Len(table')
    <3>1. CASE store'[c] = NoColumn
      BY <1>3, <2>1, <3>1
    <3>2. CASE store'[c] = store[c]
      BY <1>1, <3>2, Known DEF ColumnsOK
    <3> QED BY <1>5, <3>1, <3>2
  <2>3. ASSUME NEW c \in Col, Resident(c)' PROVE store'[c] = store[c] /\ Resident(c)
    BY <1>3, <1>5, <2>3 DEF Resident
  <2>4. \A c, d \in Col : Resident(c)' /\ Resident(d)' /\ store'[c].rows = store'[d].rows => store'[c].ends = store'[d].ends
    BY <2>3, Known DEF ColumnsOK
  <2> QED BY <2>2, <2>4 DEF ColumnsOK
<1>8. Storing(s)'
  <2>1. plan'[s].storeCols = query'[s].cols /\ query'[s] = q
    BY <1>1, <1>4
  <2>2. \A c \in Col \ q.cols : Resident(c)' => store'[c].rows = Len(table')
    BY <1>1, <1>3, <1>5 DEF Resident
  <2>3. PICK list \in Listings(q) : Remain(segs[s], list, 0)
    BY <1>2 DEF Buffered
  <2>4. 0 \in 0 .. Len(list)
    BY <1>1, <2>3, ListingOK, Known
  <2>5. Prefix(query[s].cols, list, 0)'
    <3>1. \A c \in q.cols : store'[c].cells = <<>>
      BY <1>2, <1>3, <1>5
    <3>2. [i \in 1 .. 0 |-> list[i]] = <<>>
      OBVIOUS
    <3> QED BY <1>1, <3>1, <3>2 DEF Prefix
  <2>6. q.kind # "pin" /\ segs[s] # <<>> => Len(segs[s]) = 1
    BY <1>2, OnePart
  <2> QED BY <1>1, <2>1, <2>2, <2>3, <2>4, <2>5, <2>6 DEF Storing
<1>9. StepOK(s)'
  BY <1>1, <1>8, Known DEF StepOK
<1>10. Correct(s)' <=> Correct(s)
  BY <1>1, CorrectIs
<1>11. AnswerOK(s)'
  BY <1>1, <1>10, Known DEF AnswerOK
<1> QED BY <1>6, <1>7, <1>9, <1>11

LEMMA Joined ==
    ASSUME NEW list, NEW a \in Seq(Nat), NEW b \in Seq(Nat),
           \A i \in 1 .. Len(a) : a[i] = list[i],
           \A j \in 1 .. Len(b) : b[j] = list[Len(a) + j]
    PROVE  a \o b = [i \in 1 .. Len(a) + Len(b) |-> list[i]]
<1> DEFINE n == Len(a)
           m == Len(b)
<1>1. n \in Nat /\ m \in Nat
  OBVIOUS
<1>2. /\ Len(a \o b) = n + m /\ a \o b \in Seq(Nat)
      /\ \A i \in 1 .. n + m : (a \o b)[i] = IF i <= n THEN a[i] ELSE b[i - n]
  BY ConcatProperties
<1>3. \A i \in 1 .. n + m : (a \o b)[i] = list[i]
  <2> SUFFICES ASSUME NEW i \in 1 .. n + m PROVE (a \o b)[i] = list[i]
    OBVIOUS
  <2>1. CASE i <= n
    BY <2>1, <1>1, <1>2
  <2>2. CASE i > n
    <3>1. i - n \in 1 .. m /\ n + (i - n) = i
      BY <2>2, <1>1
    <3>2. (a \o b)[i] = b[i - n]
      BY <2>2, <1>1, <1>2
    <3>3. b[i - n] = list[n + (i - n)]
      BY <3>1
    <3> QED BY <3>1, <3>2, <3>3
  <2> QED BY <2>1, <2>2, <1>1
<1> DEFINE ab == a \o b
<1>4. ab \in Seq(Nat) /\ Len(ab) = n + m /\ \A i \in 1 .. n + m : ab[i] = list[i]
  BY <1>2, <1>3
<1> HIDE DEF ab
<1>5. ab = [i \in 1 .. n + m |-> ab[i]]
  BY <1>4
<1>6. [i \in 1 .. n + m |-> ab[i]] = [i \in 1 .. n + m |-> list[i]]
  BY <1>4
<1> QED BY <1>5, <1>6 DEF ab

\* Storing the first of the buffered segments extends what the columns hold.
LEMMA RemainTail ==
    ASSUME NEW q, Numbered(q), NEW list \in Listings(q), NEW parts \in Seq(Seq(Nat)), parts # <<>>,
           NEW n \in 0 .. Len(list), Remain(parts, list, n)
    PROVE  \E m \in n .. Len(list) :
              /\ Remain(Tail(parts), list, m)
              /\ [i \in 1 .. n |-> list[i]] \o Head(parts) = [i \in 1 .. m |-> list[i]]
              /\ Len(Head(parts)) = m - n
<1>1. PICK e \in [0 .. Len(parts) -> 0 .. Len(list)] :
        /\ e[0] = n /\ e[Len(parts)] = Len(list)
        /\ \A i \in 1 .. Len(parts) :
              e[i - 1] <= e[i] /\ parts[i] = [j \in 1 .. e[i] - e[i - 1] |-> list[e[i - 1] + j]]
  BY DEF Remain
<1>2. Len(parts) \in Nat \ {0} /\ Len(list) \in Nat /\ \A i \in 1 .. Len(list) : list[i] \in Nat
  <2>1. Len(parts) \in Nat \ {0}
    BY OnePart
  <2>2. Len(list) \in Nat /\ \A i \in 1 .. Len(list) : list[i] \in Nat
    BY ListingOK
  <2> QED BY <2>1, <2>2
<1> DEFINE m == e[1]
           head == parts[1]
           rest == Tail(parts)
           d == [k \in 0 .. Len(parts) - 1 |-> e[k + 1]]
<1>3. /\ m \in n .. Len(list) /\ n \in Nat /\ m \in Nat
      /\ head = [j \in 1 .. m - n |-> list[n + j]]
  <2>0. 1 \in 1 .. Len(parts) /\ 1 \in 0 .. Len(parts)
    BY <1>2
  <2>1. e[1 - 1] <= e[1] /\ parts[1] = [j \in 1 .. e[1] - e[1 - 1] |-> list[e[1 - 1] + j]]
    BY <1>1, <2>0
  <2>2. 1 - 1 = 0 /\ e[1] \in 0 .. Len(list)
    BY <2>0
  <2>3. e[1 - 1] = n
    BY <2>2, <1>1
  <2>4. n <= m /\ m \in 0 .. Len(list) /\ head = [j \in 1 .. m - n |-> list[n + j]]
    BY <2>1, <2>2, <2>3
  <2> HIDE DEF m, head
  <2> QED BY <2>4, <1>2
<1>4. Head(parts) = head /\ Len(rest) = Len(parts) - 1 /\ \A i \in 1 .. Len(rest) : rest[i] = parts[i + 1]
  BY <1>2
<1>5. Remain(rest, list, m)
  <2>1. d \in [0 .. Len(rest) -> 0 .. Len(list)] /\ d[0] = m /\ d[Len(rest)] = Len(list)
    BY <1>1, <1>2, <1>4
  <2>2. ASSUME NEW i \in 1 .. Len(rest)
        PROVE  d[i - 1] <= d[i] /\ rest[i] = [j \in 1 .. d[i] - d[i - 1] |-> list[d[i - 1] + j]]
    <3>1. i + 1 \in 1 .. Len(parts) /\ i \in 0 .. Len(parts) - 1 /\ i - 1 \in 0 .. Len(parts) - 1
          /\ (i + 1) - 1 = i /\ (i - 1) + 1 = i
      BY <1>2, <1>4
    <3>2. d[i] = e[i + 1] /\ d[i - 1] = e[i] /\ e[(i + 1) - 1] = e[i]
      BY <3>1
    <3>3. e[(i + 1) - 1] <= e[i + 1]
          /\ parts[i + 1] = [j \in 1 .. e[i + 1] - e[(i + 1) - 1] |-> list[e[(i + 1) - 1] + j]]
      BY <1>1, <3>1
    <3>4. rest[i] = parts[i + 1]
      BY <1>4
    <3> HIDE DEF d, rest
    <3> QED BY <3>2, <3>3, <3>4
  <2> HIDE DEF d, rest, m
  <2> QED BY <2>1, <2>2 DEF Remain
<1> HIDE DEF m, head
<1>6. [i \in 1 .. n |-> list[i]] \o head = [i \in 1 .. m |-> list[i]] /\ Len(head) = m - n
  <2> DEFINE a == [i \in 1 .. n |-> list[i]]
  <2>1. a \in Seq(Nat) /\ Len(a) = n /\ head \in Seq(Nat) /\ Len(head) = m - n
    <3>1. \A j \in 1 .. m - n : list[n + j] \in Nat
      BY <1>2, <1>3
    <3>2. \A i \in 1 .. n : list[i] \in Nat
      BY <1>2, <1>3
    <3> QED BY <1>3, <3>1, <3>2
  <2>2. \A i \in 1 .. n : a[i] = list[i]
    OBVIOUS
  <2>3. \A j \in 1 .. m - n : head[j] = list[n + j]
    BY <1>3
  <2> HIDE DEF a
  <2>4. a \o head = [i \in 1 .. Len(a) + Len(head) |-> list[i]]
    <3>1. \A i \in 1 .. Len(a) : a[i] = list[i]
      BY <2>1, <2>2
    <3>2. \A j \in 1 .. Len(head) : head[j] = list[Len(a) + j]
      BY <2>1, <2>3
    <3> QED BY <2>1, <3>1, <3>2, Joined, Zenon
  <2>5. Len(a) + Len(head) = m
    BY <2>1, <1>3
  <2> QED BY <2>1, <2>4, <2>5 DEF a
<1> QED BY <1>3, <1>4, <1>5, <1>6

\* A prefix of a listing is an increasing list of rows of the table.
LEMMA PrefixOK ==
    ASSUME NEW q, Numbered(q), NEW list \in Listings(q), NEW m \in 0 .. Len(list)
    PROVE  LET cells == [i \in 1 .. m |-> list[i]]
           IN  Increasing(cells) /\ Len(cells) = m /\ \A i \in DOMAIN cells : cells[i] \in 1 .. Len(q.snapshot)
<1>1. /\ Len(list) \in Nat /\ \A i \in 1 .. Len(list) : list[i] \in 1 .. Len(q.snapshot)
      /\ \A i, j \in 1 .. Len(list) : i < j => list[i] < list[j]
  <2>1. Len(list) \in Nat
    BY ListingOK
  <2>2. list \in [1 .. Len(list) -> 1 .. Len(q.snapshot)]
    BY ListingOK
  <2>3. \A i, j \in 1 .. Len(list) : i < j => list[i] < list[j]
    BY ListingOK
  <2> QED BY <2>1, <2>2, <2>3
<1> DEFINE cells == [i \in 1 .. m |-> list[i]]
<1>2. m \in Nat /\ DOMAIN cells = 1 .. m /\ Len(cells) = m /\ \A i \in 1 .. m : i \in 1 .. Len(list) /\ cells[i] = list[i]
  BY <1>1
<1> HIDE DEF cells
<1>3. Increasing(cells) /\ Len(cells) = m /\ \A i \in DOMAIN cells : cells[i] \in 1 .. Len(q.snapshot)
  BY <1>1, <1>2 DEF Increasing
<1> QED BY <1>3 DEF cells

\* The batch of a cold query is cut like the columns that are resident already.
LEMMA CutsAgree ==
    ASSUME SerialInv, NEW S \in SUBSET Col, Len(table) \in Nat \ {0},
           \A c \in S : ~Resident(c),
           \A c \in Col \ S : Resident(c) => store[c].rows = Len(table),
           NEW d \in Col, Resident(d),
           NEW canonical \in CanonicalSizes, NEW k \in StoredSegments(S)
    PROVE  Cuts(canonical, k, Len(table)) = store[d].ends
<1>1. CacheInv /\ ColumnsOK
  BY DEF SerialInv
<1>2. \A c \in Col : Resident(c) => store[c].rows = Len(table) /\ store[c].ends = store[d].ends
  BY <1>1 DEF ColumnsOK
<1>3. canonical = store[d].ends
  BY <1>2 DEF CanonicalSizes
<1>4. k = 0
  BY DEF StoredSegments
<1>5. store[d].ends \in SUBSET (1 .. Len(table)) /\ Len(table) \in store[d].ends
  BY <1>1, <1>2 DEF CacheInv, ColumnWellFormed
<1> QED BY <1>3, <1>4, <1>5, CutsFollow

LEMMA Appended ==
    ASSUME NEW col, NEW rows, NEW cuts, NEW id
    PROVE  /\ AppendColumnSlices(col, rows, cuts, id).cells = col.cells \o rows
           /\ AppendColumnSlices(col, rows, cuts, id).rows = col.rows + Len(rows)
           /\ AppendColumnSlices(col, rows, cuts, id).ends = col.ends \cup {col.rows + o : o \in cuts}
BY DEF AppendColumnSlices

LEMMA TailOfOne ==
    ASSUME NEW S, NEW parts \in Seq(S), Len(parts) = 1
    PROVE  Tail(parts) = <<>>
<1>1. Tail(parts) \in Seq(S) /\ Len(Tail(parts)) = 0
  OBVIOUS
<1> DEFINE rest == Tail(parts)
<1> HIDE DEF rest
<1>2. rest \in Seq(S) /\ Len(rest) = 0
  BY <1>1 DEF rest
<1>3. rest = <<>>
  BY <1>2, EmptySeq
<1> QED BY <1>3 DEF rest

LEMMA StoreSerial ==
    ASSUME SerialInv, NEW s \in Session, StoreSegment(s)
    PROVE  TableOK' /\ ColumnsOK' /\ StepOK(s)' /\ AnswerOK(s)'
<1> DEFINE q == query[s]
           S == q.cols
           N == Len(table)
           rows == Head(segs[s])
           new(c, cuts) == AppendColumnSlices(store[c], rows, cuts, plan[s].population)
<1>1. /\ pc[s] = "store" /\ segs[s] # <<>> /\ segs'[s] = Tail(segs[s])
      /\ UNCHANGED <<counter, pc, query, todo, plan, answer, table, written>>
  BY Known DEF StoreSegment, tableVars
<1>2. /\ Numbered(q) /\ N \in Nat \ {0} /\ q.snapshot = table /\ S \in SUBSET Col /\ segs[s] \in Seq(Seq(Nat))
      /\ Storing(s) /\ (q.kind = "pin" => S = Col)
  BY <1>1, Known DEF StepOK
<1>3. PICK canonical \in CanonicalSizes, k \in StoredSegments(plan[s].storeCols) :
        store' = [c \in Col |-> IF c \in plan[s].storeCols THEN new(c, Cuts(canonical, k, Len(rows))) ELSE store[c]]
  BY DEF StoreSegment
<1> DEFINE cuts == Cuts(canonical, k, Len(rows))
<1>4. /\ plan[s].storeCols = S
      /\ \A c \in Col \ S : Resident(c) => store[c].rows = N
  BY <1>2 DEF Storing
<1>5. PICK list \in Listings(q) : \E n \in 0 .. Len(list) :
        /\ Prefix(S, list, n) /\ Remain(segs[s], list, n)
        /\ q.kind # "pin" /\ segs[s] # <<>> => n = 0 /\ Len(segs[s]) = 1
  BY <1>2 DEF Storing
<1>6. PICK n \in 0 .. Len(list) :
        /\ Prefix(S, list, n) /\ Remain(segs[s], list, n)
        /\ q.kind # "pin" /\ segs[s] # <<>> => n = 0 /\ Len(segs[s]) = 1
  BY <1>5
<1>7. PICK m \in n .. Len(list) :
        /\ Remain(Tail(segs[s]), list, m)
        /\ [i \in 1 .. n |-> list[i]] \o rows = [i \in 1 .. m |-> list[i]]
        /\ Len(rows) = m - n
  <2>1. segs[s] \in Seq(Seq(Nat)) /\ segs[s] # <<>> /\ Numbered(q) /\ Remain(segs[s], list, n)
    BY <1>1, <1>2, <1>6
  <2> HIDE DEF q
  <2> QED BY <2>1, RemainTail, Zenon
<1>8. /\ Len(list) \in Nat /\ n \in Nat /\ m \in 0 .. Len(list) /\ m \in Nat
  <2>1. Len(list) \in Nat
    BY <1>2, ListingOK
  <2> QED BY <2>1
<1> HIDE DEF cuts, rows, S, N, q
<1>9. ASSUME NEW c \in S
      PROVE  /\ store'[c].cells = [i \in 1 .. m |-> list[i]]
             /\ store'[c].rows = store[c].rows + Len(rows)
             /\ store'[c].ends = store[c].ends \cup {store[c].rows + o : o \in cuts}
             /\ store[c].cells = [i \in 1 .. n |-> list[i]]
  <2>1. store'[c] = new(c, cuts) /\ store[c].cells = [i \in 1 .. n |-> list[i]]
    BY <1>2, <1>3, <1>4, <1>6 DEF Prefix, cuts
  <2>2. /\ store'[c].cells = store[c].cells \o rows
        /\ store'[c].rows = store[c].rows + Len(rows)
        /\ store'[c].ends = store[c].ends \cup {store[c].rows + o : o \in cuts}
    <3> DEFINE col == store[c]
               id == plan[s].population
    <3>1. store'[c] = AppendColumnSlices(col, rows, cuts, id)
      BY <2>1
    <3> HIDE DEF col, id, new
    <3>2. /\ store'[c].cells = col.cells \o rows
          /\ store'[c].rows = col.rows + Len(rows)
          /\ store'[c].ends = col.ends \cup {col.rows + o : o \in cuts}
      <4>1. /\ AppendColumnSlices(col, rows, cuts, id).cells = col.cells \o rows
            /\ AppendColumnSlices(col, rows, cuts, id).rows = col.rows + Len(rows)
            /\ AppendColumnSlices(col, rows, cuts, id).ends = col.ends \cup {col.rows + o : o \in cuts}
        BY Appended
      <4> DEFINE app == AppendColumnSlices(col, rows, cuts, id)
      <4> HIDE DEF app
      <4> QED BY <3>1, <4>1 DEF app
    <3> QED BY <3>2 DEF col
  <2>3. store'[c].cells = [i \in 1 .. m |-> list[i]]
    BY <2>1, <2>2, <1>7
  <2> QED BY <2>1, <2>2, <2>3
<1>10. \A c \in Col \ S : store'[c] = store[c]
  BY <1>3, <1>4
<1>11. /\ CacheInv /\ ColumnsOK /\ TableOK
       /\ \A c \in Col : store[c].rows = Len(store[c].cells) /\ store[c].ends \subseteq 1 .. store[c].rows /\ store[c].rows \in Nat
  BY Known DEF CacheInv, ColumnWellFormed, TypeOK, CachedColumn
<1>12. /\ Increasing([i \in 1 .. m |-> list[i]])
       /\ \A i \in DOMAIN [j \in 1 .. m |-> list[j]] : [j \in 1 .. m |-> list[j]][i] \in 1 .. N
       /\ Len([i \in 1 .. n |-> list[i]]) = n
  <2>1. Numbered(q) /\ Len(q.snapshot) = N
    BY <1>2 DEF N
  <2> DEFINE cells == [i \in 1 .. m |-> list[i]]
  <2>2. Increasing(cells) /\ \A i \in DOMAIN cells : cells[i] \in 1 .. Len(q.snapshot)
    BY <2>1, <1>8, PrefixOK, Zenon
  <2>3. Len([i \in 1 .. n |-> list[i]]) = n
    BY <1>8
  <2> QED BY <2>1, <2>2, <2>3
<1>13. TableOK'
  BY <1>1, <1>11 DEF TableOK
<1>14. \A c \in S : store[c].rows = n /\ store'[c].rows = m
  <2> SUFFICES ASSUME NEW c \in S PROVE store[c].rows = n /\ store'[c].rows = m
    OBVIOUS
  <2>1. store[c].rows = Len(store[c].cells)
    BY <1>2, <1>11
  <2>2. store[c].rows = n
    BY <2>1, <1>9, <1>12
  <2>3. store'[c].rows = store[c].rows + Len(rows)
    BY <1>9
  <2> QED BY <2>2, <2>3, <1>7, <1>8
<1>15. ASSUME NEW c \in S, NEW d \in S PROVE store'[c].ends = store'[d].ends
  <2>1. store[c].rows = store[d].rows /\ c \in Col /\ d \in Col
    BY <1>2, <1>14
  <2>2. store[c].ends = store[d].ends
    <3>1. CASE n = 0
      <4>1. store[c].ends \subseteq 1 .. 0 /\ store[d].ends \subseteq 1 .. 0 /\ 1 .. 0 = {}
        BY <2>1, <3>1, <1>11, <1>14
      <4> QED BY <4>1
    <3>2. CASE n # 0
      <4>1. Resident(c) /\ Resident(d)
        BY <2>1, <3>2, <1>11, <1>14 DEF Resident
      <4> QED BY <2>1, <4>1, <1>11 DEF ColumnsOK
    <3> QED BY <3>1, <3>2
  <2>3. /\ store'[c].ends = store[c].ends \cup {store[c].rows + o : o \in cuts}
        /\ store'[d].ends = store[d].ends \cup {store[d].rows + o : o \in cuts}
    BY <1>9, Zenon
  <2> QED BY <2>1, <2>2, <2>3, Zenon
<1>16. ASSUME NEW c \in S, NEW d \in Col \ S, Resident(d), m = store[d].rows PROVE store'[c].ends = store[d].ends
  <2>1. n = 0 /\ m = N /\ Len(rows) = N
    BY <1>1, <1>2, <1>4, <1>6, <1>7, <1>8, <1>16
  <2>2. \A x \in S : ~Resident(x)
    <3> SUFFICES ASSUME NEW x \in S PROVE store[x].cells = <<>>
      BY DEF Resident
    <3>1. store[x].cells \in Seq(Nat) /\ Len(store[x].cells) = 0
      BY <1>2, <2>1, <1>11, <1>14 DEF CacheInv, TypeOK, CachedColumn, Cell
    <3> QED BY <3>1, EmptySeq
  <2>3. cuts = store[d].ends
    <3>1. S \in SUBSET Col /\ Len(table) \in Nat \ {0} /\ d \in Col /\ k \in StoredSegments(S)
      BY <1>2, <1>4 DEF N
    <3>2. \A x \in Col \ S : Resident(x) => store[x].rows = Len(table)
      BY <1>4 DEF N
    <3>3. Cuts(canonical, k, Len(table)) = store[d].ends
      BY <3>1, <3>2, <2>2, <1>16, CutsAgree
    <3> QED BY <3>3, <2>1 DEF cuts, N
  <2>4. store[c].rows = 0 /\ store[c].ends = {}
    <3>1. store[c].rows = 0 /\ store[c].ends \subseteq 1 .. 0 /\ 1 .. 0 = {}
      BY <1>2, <2>1, <1>11, <1>14
    <3> QED BY <3>1
  <2>5. \A o \in cuts : 0 + o = o
    BY <2>3, <1>11, <1>16
  <2>6. {0 + o : o \in cuts} = cuts
    BY <2>5
  <2>7. store'[c].ends = store[c].ends \cup {store[c].rows + o : o \in cuts}
    BY <1>9, Zenon
  <2>8. store'[c].ends = {} \cup {0 + o : o \in cuts}
    BY <2>4, <2>7, Zenon
  <2> QED BY <2>3, <2>6, <2>8
<1>17. ColumnsOK'
  <2>1. ASSUME NEW c \in Col
        PROVE  Increasing(store'[c].cells) /\ \A i \in DOMAIN store'[c].cells : store'[c].cells[i] \in 1 .. Len(table')
    <3>1. CASE c \in S
      <4>1. store'[c].cells = [i \in 1 .. m |-> list[i]] /\ Len(table') = N
        BY <1>1, <1>9, <3>1 DEF N
      <4> QED BY <4>1, <1>12, Zenon
    <3>2. CASE c \notin S
      BY <1>1, <1>10, <1>11, <3>2 DEF ColumnsOK
    <3> QED BY <3>1, <3>2
  <2>2. ASSUME NEW c \in Col, NEW d \in Col, Resident(c)', Resident(d)', store'[c].rows = store'[d].rows
        PROVE  store'[c].ends = store'[d].ends
    <3>1. CASE c \in S /\ d \in S
      BY <1>15, <3>1
    <3>2. CASE c \in S /\ d \notin S
      BY <1>10, <1>14, <1>16, <2>2, <3>2 DEF Resident
    <3>3. CASE c \notin S /\ d \in S
      BY <1>10, <1>14, <1>16, <2>2, <3>3 DEF Resident
    <3>4. CASE c \notin S /\ d \notin S
      BY <1>10, <1>11, <2>2, <3>4 DEF Resident, ColumnsOK
    <3> QED BY <3>1, <3>2, <3>3, <3>4
  <2> QED BY <2>1, <2>2 DEF ColumnsOK
<1>18. Storing(s)'
  <2>1. query'[s] = q /\ plan'[s].storeCols = S /\ table' = table
    BY <1>1, <1>4 DEF q, S
  <2>2. \A c \in Col \ S : Resident(c)' => store'[c].rows = N
    BY <1>4, <1>10 DEF Resident
  <2>3. Prefix(query[s].cols, list, m)'
    <3>1. query'[s].cols = S
      BY <2>1 DEF S
    <3>2. \A c \in S : store'[c].cells = [i \in 1 .. m |-> list[i]]
      BY <1>9
    <3> QED BY <3>1, <3>2 DEF Prefix
  <2>4. q.kind # "pin" => segs'[s] = <<>>
    <3>1. q.kind # "pin" => Len(segs[s]) = 1
      BY <1>1, <1>6
    <3> QED BY <1>1, <1>2, <3>1, TailOfOne
  <2> QED BY <1>1, <1>7, <1>8, <2>1, <2>2, <2>3, <2>4 DEF Storing, N, S, q
<1>19. StepOK(s)'
  BY <1>1, <1>18, Known DEF StepOK
<1>20. Correct(s)' <=> Correct(s)
  BY <1>1, CorrectIs
<1>21. AnswerOK(s)'
  BY <1>1, <1>20, Known DEF AnswerOK
<1> QED BY <1>13, <1>17, <1>19, <1>21

LEMMA StoreDoneSerial ==
    ASSUME SerialInv, NEW s \in Session, StoreDone(s)
    PROVE  TableOK' /\ ColumnsOK' /\ StepOK(s)' /\ AnswerOK(s)'
<1>1. /\ pc[s] = "store" /\ segs[s] = <<>> /\ pc'[s] = "fuse"
      /\ UNCHANGED <<query, todo, segs, plan, answer, store, table, written>>
  BY Known DEF StoreDone, cacheVars, tableVars
<1>2. TableOK' /\ ColumnsOK'
  BY <1>1, Untouched
<1>3. PICK list \in Listings(query[s]) : \E n \in 0 .. Len(list) : Prefix(query[s].cols, list, n) /\ Remain(segs[s], list, n)
  BY <1>1, Known DEF StepOK, Storing
<1>4. PICK n \in 0 .. Len(list) : Prefix(query[s].cols, list, n) /\ Remain(segs[s], list, n)
  BY <1>3
<1>5. Len(list) \in Nat
  BY <1>1, Known, ListingOK
<1>6. n = Len(list)
  BY <1>1, <1>4, <1>5, RemainAll
<1>7. Stored(s)'
  <2>1. Prefix(query[s].cols, list, Len(list))'
    BY <1>1, <1>4, <1>6 DEF Prefix
  <2> QED BY <1>1, <2>1 DEF Stored
<1>8. StepOK(s)'
  BY <1>1, <1>7, Known DEF StepOK
<1>9. Correct(s)' <=> Correct(s)
  BY <1>1, CorrectIs
<1>10. AnswerOK(s)'
  BY <1>1, <1>9, Known DEF AnswerOK
<1> QED BY <1>2, <1>8, <1>10

\* A query without a filter has stored the whole table.
LEMMA StoredServed ==
    ASSUME SerialInv, NEW s \in Session, pc[s] \in {"fuse", "eval"}, query[s].filter = "none"
    PROVE  MlxCacheHas(query[s].cols, Len(table))
<1> DEFINE cols == query[s].cols
           n == Len(table)
<1>1. /\ Numbered(query[s]) /\ Stored(s) /\ query[s].snapshot = table /\ n \in Nat \ {0} /\ cols \in SUBSET Col
      /\ CacheInv /\ ColumnsOK
  BY Known DEF StepOK
<1>2. PICK list \in Listings(query[s]) : Prefix(cols, list, Len(list))
  BY <1>1 DEF Stored
<1>3. Len(list) = n
  BY <1>1, FullListing
<1>4. ASSUME NEW c \in cols PROVE Len(store[c].cells) = n
  <2>1. store[c].cells = [i \in 1 .. n |-> list[i]]
    BY <1>2, <1>3 DEF Prefix
  <2> QED BY <2>1, <1>1
<1> HIDE DEF cols, n
<1>5. MlxCacheHas(cols, n)
  BY <1>1, <1>4, EqualLengths
<1> QED BY <1>5 DEF cols, n

LEMMA FuseSerial ==
    ASSUME SerialInv, NEW s \in Session, FuseTable(s)
    PROVE  TableOK' /\ ColumnsOK' /\ StepOK(s)' /\ AnswerOK(s)'
<1>1. /\ pc[s] = "fuse" /\ pc'[s] = IF query[s].kind = "sum" THEN "eval" ELSE "done"
      /\ UNCHANGED <<query, todo, segs, plan, answer, table, written>>
  BY Known DEF FuseTable, tableVars
<1>2. \A c \in Col : store'[c] = FuseCachedColumn(store[c]) /\ store[c] \in CachedColumn
  BY Known DEF FuseTable, CacheInv, TypeOK
<1>3. \A c \in Col : /\ store'[c].cells = store[c].cells /\ store'[c].rows = store[c].rows
                     /\ store'[c].ends = store[c].ends
  BY <1>2 DEF FuseCachedColumn, CachedColumn
<1>4. TableOK'
  BY <1>1, Known DEF TableOK
<1>5. ColumnsOK'
  <2>1. \A c \in Col : Increasing(store'[c].cells) /\ \A i \in DOMAIN store'[c].cells : store'[c].cells[i] \in 1 .. Len(table')
    BY <1>1, <1>3, Known DEF ColumnsOK
  <2>2. \A c, d \in Col : Resident(c)' /\ Resident(d)' /\ store'[c].rows = store'[d].rows => store'[c].ends = store'[d].ends
    BY <1>3, Known DEF ColumnsOK, Resident
  <2> QED BY <2>1, <2>2 DEF ColumnsOK
<1>6. Stored(s) /\ query[s].cols \in SUBSET Col
  BY <1>1, Known DEF StepOK
<1>7. Stored(s)'
  <2>1. PICK list \in Listings(query[s]) : Prefix(query[s].cols, list, Len(list))
    BY <1>6 DEF Stored
  <2>2. Prefix(query[s].cols, list, Len(list))'
    BY <1>1, <1>3, <1>6, <2>1 DEF Prefix
  <2> QED BY <1>1, <2>2 DEF Stored
<1>8. query[s].filter = "none" => MlxCacheHas(query[s].cols, Len(table))'
  <2>1. MlxCacheHas(query[s].cols, Len(table)) => MlxCacheHas(query[s].cols, Len(table))'
    BY <1>1, <1>3, <1>6 DEF MlxCacheHas, Resident
  <2> QED BY <1>1, <2>1, StoredServed
<1>9. StepOK(s)'
  BY <1>1, <1>7, <1>8, Known DEF StepOK
<1>10. Correct(s)' <=> Correct(s)
  BY <1>1, CorrectIs
<1>11. query[s].kind \in {"sum", "group", "pin"}
  BY Known DEF Query, RequestKind
<1>12. AnswerOK(s)'
  BY <1>1, <1>10, <1>11, Known DEF AnswerOK
<1> QED BY <1>4, <1>5, <1>9, <1>12

LEMMA EvalSerial ==
    ASSUME SerialInv, NEW s \in Session, EvalPopulated(s)
    PROVE  TableOK' /\ ColumnsOK' /\ StepOK(s)' /\ AnswerOK(s)'
<1> DEFINE q == query[s]
<1>1. /\ pc[s] = "eval" /\ pc'[s] = "done"
      /\ UNCHANGED <<query, todo, segs, plan, store, table, written>>
  BY Known DEF EvalPopulated, cacheVars, tableVars
<1>2. TableOK' /\ ColumnsOK' /\ (MlxCacheHas(query[s].cols, Len(table))' <=> MlxCacheHas(query[s].cols, Len(table)))
  BY <1>1, Untouched, HasKept
<1>3. PICK fc \in q.cols : answer'[s] = ReadSegments(q.cols, "none", fc)
  BY Known DEF EvalPopulated
<1>4. /\ Numbered(q) /\ Stored(s) /\ q.snapshot = table /\ Len(table) \in Nat \ {0} /\ q.cols \in SUBSET Col
      /\ CacheInv /\ ColumnsOK /\ TableOK
  BY <1>1, Known DEF StepOK
<1>5. PICK list \in Listings(q) : Prefix(q.cols, list, Len(list))
  BY <1>4 DEF Stored
<1> DEFINE n == Len(list)
<1>6. /\ n \in Nat /\ list \in [1 .. n -> Nat]
      /\ \A i, j \in 1 .. n : i < j => list[i] < list[j]
      /\ {list[i] : i \in 1 .. n} = Selected(q)
      /\ Selected(q) = {x \in 1 .. Len(table) : q.filter = "none" \/ x \in Keep}
  <2>1. list \in [1 .. n -> 1 .. Len(q.snapshot)]
    BY <1>4, ListingOK
  <2>2. /\ n \in Nat /\ \A i \in 1 .. n : list[i] \in Nat
        /\ \A i, j \in 1 .. n : i < j => list[i] < list[j]
        /\ {list[i] : i \in 1 .. n} = Selected(q)
        /\ Selected(q) = {x \in 1 .. Len(table) : q.filter = "none" \/ x \in Keep}
    BY <1>4, ListingOK
  <2> QED BY <2>1, <2>2
<1>7. list = [i \in 1 .. n |-> list[i]]
  BY <1>6
<1>8. Hold(q.cols, list)
  BY <1>5, <1>7 DEF Hold, Prefix
<1>9. SomeRowKept => n # 0
  <2> SUFFICES ASSUME SomeRowKept, n = 0 PROVE FALSE
    OBVIOUS
  <2>1. Selected(q) = {}
    BY <1>6
  <2>2. \E x \in 1 .. Len(table) : x \in Keep
    BY <1>4 DEF SomeRowKept, TableOK
  <2> QED BY <1>6, <2>1, <2>2
<1> HIDE DEF q, n
<1>10. SomeRowKept => CorrectFor(q, answer'[s])
  <2> SUFFICES ASSUME SomeRowKept PROVE CorrectFor(q, answer'[s])
    OBVIOUS
  <2>1. n \in Nat \ {0} /\ Len(list) = n
    BY <1>6, <1>9 DEF n
  <2>2. ReadSegments(q.cols, "none", fc) = RowsOf(q.cols, list, n, "none", fc)
    BY <1>4, <1>8, <2>1, ReadList
  <2>3. {list[i] : i \in {j \in 1 .. n : "none" = "none" \/ list[j] \in Keep}} = Selected(q)
    BY <1>6
  <2>4. CorrectFor(q, RowsOf(q.cols, list, n, "none", fc))
    BY <1>4, <1>6, <2>3, MaskedCorrect
  <2> QED BY <1>3, <2>2, <2>4
<1>11. SomeRowKept => Correct(s)'
  BY <1>1, <1>10, CorrectIs DEF q
<1>12. q.filter = "none" => MlxCacheHas(query[s].cols, Len(table))
  BY <1>1, StoredServed DEF q
<1>13. StepOK(s)'
  BY <1>1, <1>2, <1>12, Known DEF StepOK, q
<1>14. AnswerOK(s)'
  BY <1>1, <1>11 DEF AnswerOK
<1> QED BY <1>2, <1>13, <1>14

LEMMA ReturnSerial ==
    ASSUME SerialInv, NEW s \in Session, Return(s)
    PROVE  TableOK' /\ ColumnsOK' /\ StepOK(s)' /\ AnswerOK(s)'
<1>1. pc'[s] = "idle" /\ segs'[s] = <<>> /\ UNCHANGED <<todo, store, table, written>>
  BY Known DEF Return, cacheVars, tableVars
<1>2. TableOK' /\ ColumnsOK'
  BY <1>1, Untouched
<1>3. StepOK(s)' /\ AnswerOK(s)'
  BY <1>1 DEF StepOK, AnswerOK
<1> QED BY <1>2, <1>3

\* A step of an idle session that only writes the cache or the table.
LEMMA IdleKept ==
    ASSUME SerialInv, NEW s \in Session, pc[s] = "idle", UNCHANGED sessionVars
    PROVE  StepOK(s)' /\ AnswerOK(s)'
<1>1. pc'[s] = "idle" /\ segs'[s] = segs[s]
  BY DEF sessionVars
<1>2. segs[s] = <<>>
  BY Known DEF StepOK
<1> QED BY <1>1, <1>2 DEF StepOK, AnswerOK

LEMMA ClearSerial ==
    ASSUME SerialInv, NEW s \in Session, ClearAll(s)
    PROVE  TableOK' /\ ColumnsOK' /\ StepOK(s)' /\ AnswerOK(s)'
<1>1. /\ pc[s] = "idle" /\ UNCHANGED <<sessionVars, table, written>>
      /\ \A c \in Col : store'[c].cells = <<>>
  BY DEF ClearAll, tableVars, NoColumn
<1>2. TableOK'
  BY <1>1, Known DEF TableOK
<1>3. ColumnsOK'
  BY <1>1 DEF ColumnsOK, Increasing, Resident
<1> QED BY <1>1, <1>2, <1>3, IdleKept

LEMMA InsertSerial ==
    ASSUME SerialInv, NEW s \in Session, Insert(s)
    PROVE  TableOK' /\ ColumnsOK' /\ StepOK(s)' /\ AnswerOK(s)'
<1> DEFINE N == Len(table)
<1>1. /\ pc[s] = "idle" /\ UNCHANGED <<sessionVars, store>>
      /\ table' = Append(table, written + 1) /\ written' = written + 1
  BY DEF Insert, cacheVars
<1>2. /\ table \in Seq(Nat) /\ N \in Nat /\ written = N /\ N >= InitRows /\ InitRows \in Nat
      /\ \A i \in 1 .. N : table[i] = i
  BY Known, CacheAssumption DEF TableOK
<1>3. /\ Len(table') = N + 1 /\ \A i \in 1 .. N : table'[i] = table[i]
      /\ table'[N + 1] = N + 1
  BY <1>1, <1>2
<1>4. TableOK'
  <2>1. ASSUME NEW i \in 1 .. N + 1 PROVE table'[i] = i
    <3>1. i \in 1 .. N \/ i = N + 1
      BY <1>2
    <3> QED BY <1>2, <1>3, <3>1
  <2> QED BY <1>1, <1>2, <1>3, <2>1 DEF TableOK
<1>5. ColumnsOK'
  <2>1. 1 .. N \subseteq 1 .. Len(table')
    BY <1>2, <1>3
  <2>2. \A c \in Col : Increasing(store[c].cells) /\ \A i \in DOMAIN store[c].cells : store[c].cells[i] \in 1 .. N
    BY Known DEF ColumnsOK
  <2>3. \A c, d \in Col : Resident(c) /\ Resident(d) /\ store[c].rows = store[d].rows => store[c].ends = store[d].ends
    BY Known DEF ColumnsOK
  <2> QED BY <1>1, <2>1, <2>2, <2>3 DEF ColumnsOK, Resident
<1> QED BY <1>1, <1>4, <1>5, IdleKept

-----------------------------------------------------------------------------
(* Serial use: the theorems *)

LEMMA InitSerial == Serial /\ Init => SerialInv
<1> SUFFICES ASSUME Serial, Init PROVE SerialInv
  OBVIOUS
<1>1. CacheInv
  BY InitCacheInv
<1>2. TableOK
  <2>1. InitRows \in Nat
    BY CacheAssumption
  <2> QED BY <2>1 DEF Init, TableOK
<1>3. ColumnsOK
  BY DEF Init, ColumnsOK, Increasing, Resident, NoColumn
<1>4. \A s \in Session : StepOK(s) /\ AnswerOK(s)
  BY DEF Init, StepOK, AnswerOK
<1> QED BY <1>1, <1>2, <1>3, <1>4 DEF SerialInv

LEMMA NextSerial == SerialInv /\ [Next]_vars => SerialInv'
<1> SUFFICES ASSUME SerialInv, [Next]_vars PROVE SerialInv'
  OBVIOUS
<1>1. CacheInv' /\ Serial'
  BY NextCacheInv DEF SerialInv, Serial
<1>2. CASE UNCHANGED vars
  <2>1. TableOK' /\ ColumnsOK'
    BY <1>2, Untouched DEF vars
  <2>2. ASSUME NEW s \in Session PROVE StepOK(s)' /\ AnswerOK(s)'
    <3>1. StepOK(s) /\ AnswerOK(s)
      BY Known
    <3>2. Correct(s)' <=> Correct(s)
      BY <1>2, CorrectIs DEF vars
    <3>3. /\ MlxCacheHas(query[s].cols, Len(table))' <=> MlxCacheHas(query[s].cols, Len(table))
      BY <1>2, HasKept DEF vars
    <3>4. (Buffered(s)' <=> Buffered(s)) /\ (Stored(s)' <=> Stored(s)) /\ (Storing(s)' <=> Storing(s))
      BY <1>2 DEF vars, Buffered, Stored, Storing, Prefix, Resident
    <3>5. StepOK(s)'
      BY <1>2, <3>1, <3>3, <3>4 DEF vars, StepOK
    <3> QED BY <1>2, <3>1, <3>2, <3>5 DEF vars, AnswerOK
  <2> QED BY <1>1, <2>1, <2>2 DEF SerialInv
<1>3. CASE Next
  <2>1. PICK s \in Session : Run(s) \/ Request(s) \/ Return(s)
    BY <1>3 DEF Next
  <2>2. TableOK' /\ ColumnsOK' /\ StepOK(s)' /\ AnswerOK(s)'
    <3>1. CASE Run(s)
      BY <3>1, ServeSerial, CombineSerial, FinalizeSerial, BeginSerial, StoreSerial, StoreDoneSerial, FuseSerial,
         EvalSerial DEF Run
    <3>2. CASE Request(s)
      <4>1. ~Update(s)
        BY DEF Update, SerialInv, Serial
      <4> QED BY <3>2, <4>1, PlanSerial, PinSerial, ClearSerial, InsertSerial DEF Request
    <3>3. CASE Return(s)
      BY <3>3, ReturnSerial
    <3> QED BY <2>1, <3>1, <3>2, <3>3
  <2>3. ASSUME NEW t \in Session PROVE t = s
    BY DEF SerialInv, Serial
  <2> QED BY <1>1, <2>2, <2>3 DEF SerialInv
<1> QED BY <1>2, <1>3

\* The invariant holds in every behaviour of a cache in serial use.
THEOREM SerialInvariant == Serial /\ Spec => []SerialInv
<1>1. Serial /\ Init => SerialInv
  BY InitSerial
<1>2. SerialInv /\ [Next]_vars => SerialInv'
  BY NextSerial
<1> QED BY <1>1, <1>2, PTL DEF Spec

\* MlxCacheHas compares row counts and segment counts only, yet in serial use the columns it
\* accepts hold the same rows in the same places.
THEOREM AlignedWhenServed == Serial /\ Spec => []HasMeansAligned
<1>1. SerialInv => HasMeansAligned
  <2> SUFFICES ASSUME SerialInv, NEW cols \in SUBSET Col, MlxCacheHas(cols, Len(table)), NEW c \in cols, NEW d \in cols
               PROVE  store[c].cells = store[d].cells
    BY DEF HasMeansAligned
  <2>1. CacheInv /\ TableOK /\ ColumnsOK
    BY DEF SerialInv
  <2>2. store[c].rows = Len(table) /\ store[d].rows = Len(table) /\ c \in Col /\ d \in Col
    BY DEF MlxCacheHas
  <2>3. store[c].cells = table /\ store[d].cells = table
    BY <2>1, <2>2, FullColumn
  <2> QED BY <2>3
<1> QED BY <1>1, SerialInvariant, PTL

\* In serial use every query, cold or served from the cache, returns what DuckDB's own engine
\* would, provided its filter selects some row.
THEOREM AnswersAreCorrect == Serial /\ SomeRowKept /\ Spec => []AnswersCorrect
<1>1. SomeRowKept /\ SerialInv => AnswersCorrect
  BY DEF SerialInv, AnswerOK, AnswersCorrect
<1>2. SomeRowKept => SomeRowKept'
  BY DEF SomeRowKept
<1>3. SomeRowKept /\ [][Next]_vars => []SomeRowKept
  BY <1>2, PTL
<1> QED BY <1>1, <1>3, SerialInvariant, PTL DEF Spec

\* In serial use an unfiltered cold query, and a pin, leave their columns served from the cache.
THEOREM PopulationsStayCached == Serial /\ Spec => []PopulationMakesResident
<1>1. SerialInv => PopulationMakesResident
  <2> SUFFICES ASSUME SerialInv, NEW s \in Session, pc[s] = "done", query[s].filter = "none"
               PROVE  MlxCacheHas(query[s].cols, query[s].expected)
    BY DEF PopulationMakesResident
  <2>1. MlxCacheHas(query[s].cols, Len(table)) /\ query[s].expected = Len(table)
    BY Known DEF StepOK
  <2> QED BY <2>1
<1> QED BY <1>1, SerialInvariant, PTL

=============================================================================
