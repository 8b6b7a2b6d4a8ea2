------------------------ MODULE MlxHashGroupbyProofs ------------------------
(***************************************************************************)
(* Machine-checked proofs about MlxHashGroupby, for every number of rows,  *)
(* every capacity that is no smaller, every key and every hash function.   *)
(***************************************************************************)
EXTENDS MlxHashGroupby, FiniteSetTheorems, TLAPS

-----------------------------------------------------------------------------
(* The probe sequence *)

\* The probe sequence of a key visits every slot exactly once.
LEMMA ProbeSlotPermutes ==
    ASSUME home \in [Key -> Slot], NEW k \in Key
    PROVE  /\ \A p \in Slot : ProbeSlot(k, p) \in Slot
           /\ \A p, q \in Slot : ProbeSlot(k, p) = ProbeSlot(k, q) => p = q
           /\ \A i \in Slot : \E p \in Slot : ProbeSlot(k, p) = i
<1>1. home[k] \in 0..(Capacity - 1) /\ Capacity \in Nat
  BY HashAssumption DEF Slot
<1>2. \A p \in Slot : ProbeSlot(k, p) \in Slot
  BY <1>1 DEF ProbeSlot, Slot
<1>3. \A p, q \in Slot : ProbeSlot(k, p) = ProbeSlot(k, q) => p = q
  BY <1>1 DEF ProbeSlot, Slot
<1>4. ASSUME NEW i \in Slot
      PROVE  \E p \in Slot : ProbeSlot(k, p) = i
  <2>1. CASE i >= home[k]
    <3>1. i - home[k] \in Slot /\ ProbeSlot(k, i - home[k]) = i
      BY <2>1, <1>1 DEF ProbeSlot, Slot
    <3> QED
      BY <3>1
  <2>2. CASE i < home[k]
    <3>1. i - home[k] + Capacity \in Slot /\ ProbeSlot(k, i - home[k] + Capacity) = i
      BY <2>2, <1>1 DEF ProbeSlot, Slot
    <3> QED
      BY <3>1
  <2> QED
    BY <2>1, <2>2, <1>1 DEF Slot
<1> QED
  BY <1>2, <1>3, <1>4

-----------------------------------------------------------------------------
(* The claimed slots *)

\* The first p slots of k's probe sequence are held by other keys.
PassedOver(k, p) == \A q \in 0..(p - 1) : hashKeys[ProbeSlot(k, q)] \notin {0, k}

\* Every thread has passed only slots that other keys hold.
ThreadsPassed == \A r \in Row : PassedOver(keys[r], probe[r])

\* Every key in the table is where its probe sequence first found room.
KeysReached ==
    \A i \in Slot : hashKeys[i] # 0 =>
        \E q \in Slot : ProbeSlot(hashKeys[i], q) = i /\ PassedOver(hashKeys[i], q)

\* Every key in the table is the key of a row.
KeysOfRows == \A i \in Slot : hashKeys[i] # 0 => \E r \in Row : keys[r] = hashKeys[i]

\* No thread has walked off the end of its probe sequence.
ThreadsInRange == \A r \in Row : probe[r] < Capacity

\* The inductive invariant of the claims.
ClaimInv == TypeOK /\ ThreadsPassed /\ KeysReached /\ KeysOfRows /\ ThreadsInRange

\* A slot below Capacity probes away is a slot of the table.
LEMMA SlotOfType ==
    ASSUME TypeOK, NEW r \in Row, probe[r] < Capacity
    PROVE  probe[r] \in Slot /\ keys[r] \in Key /\ SlotOf(r) \in Slot
<1>1. probe[r] \in Slot /\ keys[r] \in Key
  BY HashAssumption DEF TypeOK, Slot
<1> QED
  BY <1>1, ProbeSlotPermutes DEF TypeOK, SlotOf

\* Initially no slot is claimed.
LEMMA InitClaimInv == Init => ClaimInv
<1> SUFFICES ASSUME Init PROVE ClaimInv
  OBVIOUS
<1>1. TypeOK
  BY HashAssumption DEF Init, TypeOK
<1>2. ThreadsPassed
  BY DEF Init, ThreadsPassed, PassedOver
<1>3. KeysReached /\ KeysOfRows
  BY DEF Init, KeysReached, KeysOfRows
<1>4. ThreadsInRange
  BY HashAssumption DEF Init, ThreadsInRange
<1> QED
  BY <1>1, <1>2, <1>3, <1>4 DEF ClaimInv

\* Claiming a slot disturbs no probe that has passed: only an empty slot changes.
LEMMA ClaimKeepsPassed ==
    ASSUME ClaimInv, NEW r \in Row, Claim(r),
           NEW k \in Key, NEW p \in 0..Capacity, PassedOver(k, p)
    PROVE  PassedOver(k, p)'
<1>1. SlotOf(r) \in Slot /\ keys[r] \in Key
  BY SlotOfType DEF ClaimInv, ThreadsInRange, Claim
<1>2. SUFFICES ASSUME NEW q \in 0..(p - 1)
               PROVE  hashKeys'[ProbeSlot(k, q)] \notin {0, k}
  BY DEF PassedOver, ProbeSlot, Claim
<1>3. q \in Slot /\ ProbeSlot(k, q) \in Slot
  <2>1. q \in Slot
    BY HashAssumption DEF Slot
  <2> QED
    BY <2>1, ProbeSlotPermutes DEF ClaimInv, TypeOK
<1>4. hashKeys[ProbeSlot(k, q)] \notin {0, k}
  BY DEF PassedOver
<1>5. CASE ProbeSlot(k, q) = SlotOf(r)
  BY <1>1, <1>4, <1>5 DEF Claim, ClaimInv, TypeOK
<1>6. CASE ProbeSlot(k, q) # SlotOf(r)
  BY <1>1, <1>3, <1>4, <1>6 DEF Claim, ClaimInv, TypeOK
<1> QED
  BY <1>5, <1>6

\* A claim preserves the invariant.
LEMMA ClaimStep ==
    ASSUME ClaimInv, NEW r \in Row, Claim(r)
    PROVE  ClaimInv'
<1>1. SlotOf(r) \in Slot /\ keys[r] \in Key /\ probe[r] \in Slot
  BY SlotOfType DEF ClaimInv, ThreadsInRange, Claim
<1>2. TypeOK'
  BY <1>1 DEF ClaimInv, TypeOK, Claim
<1>3. \A i \in Slot : hashKeys'[i] = IF i = SlotOf(r) THEN keys[r] ELSE hashKeys[i]
  BY <1>1 DEF ClaimInv, TypeOK, Claim
<1>4. \A k \in Key, p \in 0..Capacity : PassedOver(k, p) => PassedOver(k, p)'
  BY ClaimKeepsPassed
<1>5. keys' = keys /\ probe' = probe /\ home' = home
  BY DEF Claim
<1>6. ThreadsPassed'
  <2> SUFFICES ASSUME NEW x \in Row PROVE PassedOver(keys[x], probe[x])'
    BY DEF ThreadsPassed
  <2>1. PICK k \in Key, p \in 0..Capacity : k = keys[x] /\ p = probe[x]
    BY DEF ClaimInv, TypeOK
  <2>2. PassedOver(k, p)'
    BY <1>4, <2>1 DEF ClaimInv, ThreadsPassed
  <2> QED
    BY <1>5, <2>1, <2>2 DEF PassedOver
<1>7. KeysReached'
  <2> SUFFICES ASSUME NEW i \in Slot, (hashKeys[i] # 0)'
               PROVE  (\E q \in Slot : ProbeSlot(hashKeys[i], q) = i /\ PassedOver(hashKeys[i], q))'
    BY DEF KeysReached
  <2>1. PICK k \in Key : k = hashKeys'[i]
    BY <1>2 DEF TypeOK
  <2> SUFFICES \E q \in Slot : ProbeSlot(k, q) = i /\ PassedOver(k, q)
    <3>1. PICK q \in Slot : ProbeSlot(k, q) = i /\ PassedOver(k, q)
      OBVIOUS
    <3>2. q \in 0..Capacity
      BY HashAssumption DEF Slot
    <3>3. PassedOver(k, q)'
      BY <1>4, <3>1, <3>2
    <3>4. ProbeSlot(k, q)' = i
      BY <1>5, <3>1 DEF ProbeSlot
    <3>5. (ProbeSlot(hashKeys[i], q) = i /\ PassedOver(hashKeys[i], q))'
      BY <2>1, <3>3, <3>4
    <3> QED
      BY <3>5
  <2>2. CASE i = SlotOf(r)
    <3>1. k = keys[r] /\ ProbeSlot(k, probe[r]) = i
      BY <2>1, <2>2, <1>3 DEF SlotOf
    <3>2. PassedOver(k, probe[r])
      BY <3>1 DEF ClaimInv, ThreadsPassed
    <3> QED
      BY <1>1, <3>1, <3>2
  <2>3. CASE i # SlotOf(r)
    <3>1. k = hashKeys[i] /\ hashKeys[i] # 0
      BY <2>1, <2>3, <1>3
    <3> QED
      BY <3>1 DEF ClaimInv, KeysReached
  <2> QED
    BY <2>2, <2>3
<1>8. KeysOfRows'
  BY <1>1, <1>3 DEF ClaimInv, KeysOfRows, Claim
<1>9. ThreadsInRange'
  BY <1>1, HashAssumption DEF ClaimInv, ThreadsInRange, Claim, TypeOK
<1> QED
  BY <1>2, <1>6, <1>7, <1>8, <1>9 DEF ClaimInv

\* No key holds two slots: its probe sequence would have passed its own key.
LEMMA ClaimInvOneSlot == ClaimInv => OneSlotPerKey
<1> SUFFICES ASSUME ClaimInv, NEW i \in Slot, NEW j \in Slot,
                    hashKeys[i] # 0, hashKeys[i] = hashKeys[j], i # j
             PROVE  FALSE
  BY DEF OneSlotPerKey
<1>1. PICK p \in Slot : ProbeSlot(hashKeys[i], p) = i /\ PassedOver(hashKeys[i], p)
  BY DEF ClaimInv, KeysReached
<1>2. PICK q \in Slot : ProbeSlot(hashKeys[i], q) = j /\ PassedOver(hashKeys[i], q)
  BY DEF ClaimInv, KeysReached
<1>3. CASE p < q
  <2>1. p \in 0..(q - 1)
    BY <1>3 DEF Slot
  <2> QED
    BY <1>1, <1>2, <2>1 DEF PassedOver
<1>4. CASE q < p
  <2>1. q \in 0..(p - 1)
    BY <1>4 DEF Slot
  <2> QED
    BY <1>1, <1>2, <2>1 DEF PassedOver
<1>5. CASE p = q
  BY <1>1, <1>2, <1>5
<1> QED
  BY <1>3, <1>4, <1>5, HashAssumption DEF Slot

\* There are finitely many rows.
LEMMA RowsFinite == IsFiniteSet(Row) /\ Cardinality(Row) = Rows
<1>1. 1 \in Int /\ Rows \in Int /\ Rows >= 0
  BY HashAssumption
<1>2. IsFiniteSet(1..Rows) /\ Cardinality(1..Rows) = IF 1 > Rows THEN 0 ELSE Rows - 1 + 1
  BY <1>1, FS_Interval
<1> QED
  BY <1>1, <1>2 DEF Row

\* A thread that meets another key has a slot left to try: were it at the last
\* one, every slot would hold a key of one of the other rows, no two the same,
\* and there are fewer other rows than slots.
LEMMA RoomLeft ==
    ASSUME ClaimInv, NEW r \in Row, hashKeys[SlotOf(r)] \notin {0, keys[r]}
    PROVE  probe[r] + 1 < Capacity
<1> SUFFICES ASSUME probe[r] + 1 >= Capacity PROVE FALSE
  BY HashAssumption DEF ClaimInv, TypeOK
<1>1. probe[r] \in Slot /\ keys[r] \in Key /\ probe[r] = Capacity - 1
  BY SlotOfType, HashAssumption DEF ClaimInv, ThreadsInRange, TypeOK
<1>2. \A i \in Slot : hashKeys[i] \notin {0, keys[r]}
  <2> SUFFICES ASSUME NEW i \in Slot PROVE hashKeys[i] \notin {0, keys[r]}
    OBVIOUS
  <2>1. PICK p \in Slot : ProbeSlot(keys[r], p) = i
    BY <1>1, ProbeSlotPermutes DEF ClaimInv, TypeOK
  <2>2. CASE p = probe[r]
    BY <2>1, <2>2 DEF SlotOf
  <2>3. CASE p # probe[r]
    <3>1. p \in 0..(probe[r] - 1)
      BY <1>1, <2>3, HashAssumption DEF Slot
    <3> QED
      BY <2>1, <3>1 DEF ClaimInv, ThreadsPassed, PassedOver
  <2> QED
    BY <2>2, <2>3
<1> DEFINE other == [i \in Slot |-> CHOOSE x \in Row \ {r} : keys[x] = hashKeys[i]]
<1>3. \A i \in Slot : other[i] \in Row \ {r} /\ keys[other[i]] = hashKeys[i]
  <2> SUFFICES ASSUME NEW i \in Slot PROVE other[i] \in Row \ {r} /\ keys[other[i]] = hashKeys[i]
    OBVIOUS
  <2>1. \E x \in Row \ {r} : keys[x] = hashKeys[i]
    BY <1>2 DEF ClaimInv, KeysOfRows
  <2> QED
    BY <2>1
<1>4. other \in [Slot -> Row \ {r}]
  BY <1>3
<1> HIDE DEF other
<1>5. IsFiniteSet(Slot) /\ Cardinality(Slot) = Capacity
  BY FS_Interval, HashAssumption DEF Slot
<1>6. IsFiniteSet(Row) /\ Cardinality(Row) = Rows
  BY RowsFinite
<1>7. IsFiniteSet(Row \ {r}) /\ Cardinality(Row \ {r}) = Rows - 1
  BY <1>6, FS_RemoveElement
<1>8. Cardinality(Row \ {r}) < Cardinality(Slot)
  BY <1>5, <1>7, HashAssumption
<1>9. PICK i, j \in Slot : i # j /\ other[i] = other[j]
  BY <1>4, <1>5, <1>7, <1>8, FS_PigeonHole
<1>10. hashKeys[i] = hashKeys[j] /\ hashKeys[i] # 0
  BY <1>2, <1>3, <1>9
<1> QED
  BY <1>9, <1>10, ClaimInvOneSlot DEF OneSlotPerKey

\* Passing a slot preserves the invariant, and the thread goes on.
LEMMA PassStep ==
    ASSUME ClaimInv, NEW r \in Row, Pass(r)
    PROVE  ClaimInv' /\ pc' = pc
<1>1. probe[r] + 1 < Capacity
  BY RoomLeft DEF Pass
<1>2. probe[r] \in 0..Capacity /\ Capacity \in Nat
  BY HashAssumption DEF ClaimInv, TypeOK
<1>3. pc' = pc
  BY <1>1 DEF Pass, ClaimInv, TypeOK
<1>4. TypeOK'
  BY <1>1, <1>2, <1>3 DEF ClaimInv, TypeOK, Pass
<1>5. keys' = keys /\ home' = home /\ hashKeys' = hashKeys
  BY DEF Pass
<1>6. \A x \in Row : probe'[x] = IF x = r THEN probe[r] + 1 ELSE probe[x]
  BY DEF Pass, ClaimInv, TypeOK
<1>7. ThreadsPassed'
  <2> SUFFICES ASSUME NEW x \in Row PROVE PassedOver(keys[x], probe[x])'
    BY DEF ThreadsPassed
  <2> SUFFICES ASSUME NEW q \in 0..(probe'[x] - 1)
               PROVE  hashKeys[ProbeSlot(keys[x], q)] \notin {0, keys[x]}
    BY <1>5 DEF PassedOver, ProbeSlot
  <2>1. CASE x # r \/ q # probe[r]
    <3>1. q \in 0..(probe[x] - 1)
      BY <1>2, <1>6, <2>1 DEF ClaimInv, TypeOK
    <3> QED
      BY <3>1 DEF ClaimInv, ThreadsPassed, PassedOver
  <2>2. CASE x = r /\ q = probe[r]
    BY <2>2 DEF Pass, SlotOf
  <2> QED
    BY <2>1, <2>2
<1>8. KeysReached'
  BY <1>5 DEF ClaimInv, KeysReached, PassedOver, ProbeSlot
<1>9. KeysOfRows'
  BY <1>5 DEF ClaimInv, KeysOfRows
<1>10. ThreadsInRange'
  BY <1>1, <1>6 DEF ClaimInv, ThreadsInRange
<1> QED
  BY <1>3, <1>4, <1>7, <1>8, <1>9, <1>10 DEF ClaimInv

\* The additions and the collection leave the claims alone.
LEMMA OtherStep ==
    ASSUME ClaimInv, UNCHANGED <<keys, home, hashKeys, probe>>, TypeOK'
    PROVE  ClaimInv'
BY DEF ClaimInv, ThreadsPassed, KeysReached, KeysOfRows, ThreadsInRange, PassedOver, ProbeSlot

\* Every step preserves the invariant of the claims.
LEMMA NextClaimInv == ClaimInv /\ [Next]_vars => ClaimInv'
<1> SUFFICES ASSUME ClaimInv, [Next]_vars PROVE ClaimInv'
  OBVIOUS
<1>0. TypeOK /\ ThreadsInRange
  BY DEF ClaimInv
<1>1. ASSUME NEW r \in Row, Claim(r) PROVE ClaimInv'
  BY <1>1, ClaimStep
<1>2. ASSUME NEW r \in Row, Pass(r) PROVE ClaimInv'
  BY <1>2, PassStep
<1>3. ASSUME NEW r \in Row, AddSum(r) PROVE ClaimInv'
  <2>1. SlotOf(r) \in Slot
    BY <1>0, SlotOfType DEF ThreadsInRange
  <2>2. TypeOK'
    BY <1>0, <1>3, <2>1 DEF TypeOK, AddSum
  <2> QED
    BY <1>3, <2>2, OtherStep DEF AddSum
<1>4. ASSUME NEW r \in Row, AddCount(r) PROVE ClaimInv'
  <2>1. SlotOf(r) \in Slot
    BY <1>0, SlotOfType DEF ThreadsInRange
  <2>2. TypeOK'
    BY <1>0, <1>4, <2>1 DEF TypeOK, AddCount
  <2> QED
    BY <1>4, <2>2, OtherStep DEF AddCount
<1>5. CASE Collect
  <2>1. ASSUME NEW i \in Slot, hashKeys[i] # 0
        PROVE  [key |-> hashKeys[i] - 1, sum |-> hashSums[i], count |-> hashCounts[i]] \in Group
    <3>1. hashKeys[i] - 1 \in Nat
      BY <1>0, <2>1, HashAssumption DEF TypeOK, Key
    <3>2. hashSums[i] \in SUBSET Row /\ hashCounts[i] \in Nat
      BY <1>0 DEF TypeOK
    <3> QED
      BY <3>1, <3>2 DEF Group
  <2>2. TableGroups \in SUBSET Group
    BY <2>1 DEF TableGroups
  <2>3. TypeOK'
    BY <1>0, <1>5, <2>2 DEF TypeOK, Collect
  <2> QED
    BY <1>5, <2>3, OtherStep DEF Collect
<1>6. CASE UNCHANGED vars
  BY <1>0, <1>6, OtherStep DEF vars, TypeOK
<1> QED
  BY <1>1, <1>2, <1>3, <1>4, <1>5, <1>6 DEF Next, Thread

\* The invariant of the claims holds throughout.
LEMMA SpecClaimInv == Spec => []ClaimInv
BY InitClaimInv, NextClaimInv, PTL DEF Spec

\* Every variable keeps its type; in particular no probe count leaves its range.
THEOREM TypeCorrect == Spec => []TypeOK
<1>1. ClaimInv => TypeOK
  BY DEF ClaimInv
<1> QED
  BY <1>1, SpecClaimInv, PTL

\* However the threads race, no key gets two slots.
THEOREM KeysHoldOneSlot == Spec => []OneSlotPerKey
BY ClaimInvOneSlot, SpecClaimInv, PTL

-----------------------------------------------------------------------------
(* The sums and the counts *)

\* A thread that has settled is at a slot of its own key.
SettledOwn == \A r \in Row : pc[r] # "claim" => hashKeys[SlotOf(r)] = keys[r]

\* The rows whose threads have settled on slot i and are in one of the states S.
At(i, S) == {r \in Row : pc[r] \in S /\ SlotOf(r) = i}

\* A slot holds the rows that were added to it, and counts the ones that are done.
SumsAt == \A i \in Slot : hashSums[i] = At(i, {"count", "done"})
CountsAt == \A i \in Slot : hashCounts[i] = Cardinality(At(i, {"done"}))

\* What was collected is still what the table holds.
GroupsCollected ==
    groups # {} => groups = TableGroups /\ \A r \in Row : pc[r] = "done"

\* The inductive invariant of the sums, relative to the one of the claims.
SumInv == SettledOwn /\ SumsAt /\ CountsAt /\ GroupsCollected

\* Initially no thread has settled and nothing was added.
LEMMA InitSumInv == Init => SumInv
<1> SUFFICES ASSUME Init PROVE SumInv
  OBVIOUS
<1>1. SettledOwn /\ GroupsCollected
  BY DEF Init, SettledOwn, GroupsCollected
<1>2. \A i \in Slot : At(i, {"count", "done"}) = {} /\ At(i, {"done"}) = {}
  BY DEF Init, At
<1>3. SumsAt
  BY <1>2 DEF Init, SumsAt
<1>4. CountsAt
  BY <1>2, FS_EmptySet DEF Init, CountsAt
<1> QED
  BY <1>1, <1>3, <1>4 DEF SumInv

\* While a thread is at work the host has collected nothing.
LEMMA NotCollected ==
    ASSUME SumInv, NEW r \in Row, pc[r] # "done"
    PROVE  groups = {}
BY DEF SumInv, GroupsCollected

\* A step that neither moves a settled thread nor changes what was added keeps
\* the sums and the counts exact.
LEMMA AtUnchanged ==
    ASSUME SumInv, UNCHANGED <<hashSums, hashCounts>>,
           \A x \in Row : /\ pc'[x] \in {"count", "done"} <=> pc[x] \in {"count", "done"}
                          /\ pc'[x] = "done" <=> pc[x] = "done"
                          /\ pc[x] \in {"count", "done"} => SlotOf(x)' = SlotOf(x)
    PROVE  SumsAt' /\ CountsAt'
<1>1. \A i \in Slot : At(i, {"count", "done"})' = At(i, {"count", "done"})
  BY DEF At
<1>2. \A i \in Slot : At(i, {"done"})' = At(i, {"done"})
  BY DEF At
<1> QED
  BY <1>1, <1>2 DEF SumInv, SumsAt, CountsAt

\* Every step preserves the invariant of the sums.
LEMMA NextSumInv == ClaimInv /\ SumInv /\ [Next]_vars => SumInv'
<1> SUFFICES ASSUME ClaimInv, SumInv, [Next]_vars PROVE SumInv'
  OBVIOUS
<1>0. TypeOK /\ \A r \in Row : SlotOf(r) \in Slot /\ keys[r] \in Key
  BY SlotOfType DEF ClaimInv, ThreadsInRange
<1>1. ASSUME NEW r \in Row, Claim(r) PROVE SumInv'
  <2>1. groups = {} /\ groups' = {}
    BY <1>1, NotCollected DEF Claim
  <2>2. \A x \in Row : SlotOf(x)' = SlotOf(x) /\ keys'[x] = keys[x]
    BY <1>1 DEF Claim, SlotOf, ProbeSlot
  <2>3. \A x \in Row : pc'[x] = IF x = r THEN "sum" ELSE pc[x]
    BY <1>0, <1>1 DEF Claim, TypeOK
  <2>4. pc[r] = "claim"
    BY <1>1 DEF Claim
  <2>5. SumsAt' /\ CountsAt'
    <3>1. UNCHANGED <<hashSums, hashCounts>>
      BY <1>1 DEF Claim
    <3> QED
      BY <2>2, <2>3, <2>4, <3>1, AtUnchanged
  <2>6. \A i \in Slot : hashKeys'[i] = IF i = SlotOf(r) THEN keys[r] ELSE hashKeys[i]
    BY <1>0, <1>1 DEF Claim, TypeOK
  <2>7. SettledOwn'
    <3> SUFFICES ASSUME NEW x \in Row, pc'[x] # "claim"
                 PROVE  hashKeys'[SlotOf(x)] = keys[x]
      BY <2>2 DEF SettledOwn
    <3>1. CASE x = r
      BY <1>0, <2>6, <3>1
    <3>2. CASE x # r
      <4>1. hashKeys[SlotOf(x)] = keys[x] /\ keys[x] # 0
        BY <1>0, <2>3, <3>2, HashAssumption DEF SumInv, SettledOwn, Key
      <4> QED
        BY <1>0, <1>1, <2>6, <4>1 DEF Claim
    <3> QED
      BY <3>1, <3>2
  <2> QED
    BY <2>1, <2>5, <2>7 DEF SumInv, GroupsCollected
<1>2. ASSUME NEW r \in Row, Pass(r) PROVE SumInv'
  <2>1. groups = {} /\ groups' = {}
    BY <1>2, NotCollected DEF Pass
  <2>2. pc' = pc /\ pc[r] = "claim"
    BY <1>2, PassStep DEF Pass
  <2>3. \A x \in Row : x # r => SlotOf(x)' = SlotOf(x)
    BY <1>2 DEF Pass, SlotOf, ProbeSlot
  <2>4. SumsAt' /\ CountsAt'
    <3>1. UNCHANGED <<hashSums, hashCounts>>
      BY <1>2 DEF Pass
    <3> QED
      BY <2>2, <2>3, <3>1, AtUnchanged
  <2>5. SettledOwn'
    BY <1>2, <2>2, <2>3 DEF SumInv, SettledOwn, Pass
  <2> QED
    BY <2>1, <2>4, <2>5 DEF SumInv, GroupsCollected
<1>3. ASSUME NEW r \in Row, AddSum(r) PROVE SumInv'
  <2>1. groups = {} /\ groups' = {}
    BY <1>3, NotCollected DEF AddSum
  <2>2. \A x \in Row : SlotOf(x)' = SlotOf(x)
    BY <1>3 DEF AddSum, SlotOf, ProbeSlot
  <2>3. /\ pc[r] = "sum"
        /\ \A x \in Row : pc'[x] = IF x = r THEN "count" ELSE pc[x]
    BY <1>0, <1>3 DEF AddSum, TypeOK
  <2>4. \A i \in Slot : hashSums'[i] = IF i = SlotOf(r) THEN hashSums[i] \cup {r} ELSE hashSums[i]
    BY <1>0, <1>3 DEF AddSum, TypeOK
  <2>5. SumsAt'
    <3> SUFFICES ASSUME NEW i \in Slot PROVE (hashSums[i] = At(i, {"count", "done"}))'
      BY DEF SumsAt
    <3>1. hashSums[i] = At(i, {"count", "done"})
      BY DEF SumInv, SumsAt
    <3>2. At(i, {"count", "done"})' =
            IF i = SlotOf(r) THEN At(i, {"count", "done"}) \cup {r} ELSE At(i, {"count", "done"})
      BY <2>2, <2>3 DEF At
    <3> QED
      BY <2>4, <3>1, <3>2
  <2>6. CountsAt'
    <3>1. \A i \in Slot : At(i, {"done"})' = At(i, {"done"})
      BY <2>2, <2>3 DEF At
    <3> QED
      BY <1>3, <3>1 DEF AddSum, SumInv, CountsAt
  <2>7. SettledOwn'
    BY <1>3, <2>2, <2>3 DEF SumInv, SettledOwn, AddSum
  <2> QED
    BY <2>1, <2>5, <2>6, <2>7 DEF SumInv, GroupsCollected
<1>4. ASSUME NEW r \in Row, AddCount(r) PROVE SumInv'
  <2>1. groups = {} /\ groups' = {}
    BY <1>4, NotCollected DEF AddCount
  <2>2. \A x \in Row : SlotOf(x)' = SlotOf(x)
    BY <1>4 DEF AddCount, SlotOf, ProbeSlot
  <2>3. /\ pc[r] = "count"
        /\ \A x \in Row : pc'[x] = IF x = r THEN "done" ELSE pc[x]
    BY <1>0, <1>4 DEF AddCount, TypeOK
  <2>4. \A i \in Slot : hashCounts'[i] = IF i = SlotOf(r) THEN hashCounts[i] + 1 ELSE hashCounts[i]
    BY <1>0, <1>4 DEF AddCount, TypeOK
  <2>5. SumsAt'
    <3>1. \A i \in Slot : At(i, {"count", "done"})' = At(i, {"count", "done"})
      BY <2>2, <2>3 DEF At
    <3> QED
      BY <1>4, <3>1 DEF AddCount, SumInv, SumsAt
  <2>6. CountsAt'
    <3> SUFFICES ASSUME NEW i \in Slot PROVE (hashCounts[i] = Cardinality(At(i, {"done"})))'
      BY DEF CountsAt
    <3>1. hashCounts[i] = Cardinality(At(i, {"done"}))
      BY DEF SumInv, CountsAt
    <3>2. CASE i # SlotOf(r)
      <4>1. At(i, {"done"})' = At(i, {"done"})
        BY <2>2, <2>3, <3>2 DEF At
      <4> QED
        BY <2>4, <3>1, <3>2, <4>1
    <3>3. CASE i = SlotOf(r)
      <4>1. At(i, {"done"})' = At(i, {"done"}) \cup {r} /\ r \notin At(i, {"done"})
        BY <2>2, <2>3, <3>3 DEF At
      <4>2. IsFiniteSet(At(i, {"done"}))
        <5>1. At(i, {"done"}) \in SUBSET Row
          BY DEF At
        <5> QED
          BY <5>1, RowsFinite, FS_Subset
      <4>3. Cardinality(At(i, {"done"}) \cup {r}) = Cardinality(At(i, {"done"})) + 1
        BY <4>1, <4>2, FS_AddElement
      <4> QED
        BY <2>4, <3>1, <3>3, <4>1, <4>3
    <3> QED
      BY <3>2, <3>3
  <2>7. SettledOwn'
    BY <1>4, <2>2, <2>3 DEF SumInv, SettledOwn, AddCount
  <2> QED
    BY <2>1, <2>5, <2>6, <2>7 DEF SumInv, GroupsCollected
<1>5. CASE Collect
  <2>1. UNCHANGED <<keys, home, hashKeys, hashSums, hashCounts, pc, probe>>
    BY <1>5 DEF Collect
  <2>2. \A x \in Row : SlotOf(x)' = SlotOf(x)
    BY <2>1 DEF SlotOf, ProbeSlot
  <2>3. SumsAt' /\ CountsAt'
    BY <2>1, <2>2, AtUnchanged
  <2>4. SettledOwn'
    BY <2>1, <2>2 DEF SumInv, SettledOwn
  <2>5. GroupsCollected'
    <3>1. TableGroups' = TableGroups
      BY <2>1 DEF TableGroups
    <3> QED
      BY <1>5, <2>1, <3>1 DEF Collect, GroupsCollected
  <2> QED
    BY <2>3, <2>4, <2>5 DEF SumInv
<1>6. CASE UNCHANGED vars
  <2>1. UNCHANGED <<keys, home, hashKeys, hashSums, hashCounts, pc, probe, groups>>
    BY <1>6 DEF vars
  <2>2. \A x \in Row : SlotOf(x)' = SlotOf(x)
    BY <2>1 DEF SlotOf, ProbeSlot
  <2>3. SumsAt' /\ CountsAt'
    BY <2>1, <2>2, AtUnchanged
  <2>4. SettledOwn'
    BY <2>1, <2>2 DEF SumInv, SettledOwn
  <2>5. TableGroups' = TableGroups
    BY <2>1 DEF TableGroups
  <2> QED
    BY <2>1, <2>3, <2>4, <2>5 DEF SumInv, GroupsCollected
<1> QED
  BY <1>1, <1>2, <1>3, <1>4, <1>5, <1>6 DEF Next, Thread

\* Both invariants hold throughout.
LEMMA SpecSumInv == Spec => [](ClaimInv /\ SumInv)
BY InitSumInv, NextSumInv, SpecClaimInv, PTL DEF Spec

\* A row whose thread has ended is in the sum of the slot its thread settled on.
LEMMA SumInvNoRowDropped == ClaimInv /\ SumInv => NoRowDropped
<1> SUFFICES ASSUME ClaimInv, SumInv, NEW r \in Row, pc[r] = "done"
             PROVE  \E i \in Slot : hashKeys[i] = keys[r] /\ r \in hashSums[i]
  BY DEF NoRowDropped
<1>1. SlotOf(r) \in Slot
  BY SlotOfType DEF ClaimInv, ThreadsInRange
<1>2. hashKeys[SlotOf(r)] = keys[r]
  BY DEF SumInv, SettledOwn
<1>3. r \in hashSums[SlotOf(r)]
  BY <1>1 DEF SumInv, SumsAt, At
<1> QED
  BY <1>1, <1>2, <1>3

\* No thread gives its row up, whatever the hash function and however full the
\* table: a table with as many slots as rows always has room.
THEOREM RowsAreNotDropped == Spec => []NoRowDropped
BY SumInvNoRowDropped, SpecSumInv, PTL

\* What a slot holds once every thread has ended: the group of its key.
LEMMA SlotExact ==
    ASSUME ClaimInv, SumInv, \A r \in Row : pc[r] = "done",
           NEW i \in Slot, hashKeys[i] # 0
    PROVE  hashSums[i] = RowsOf(hashKeys[i]) /\ hashCounts[i] = Cardinality(RowsOf(hashKeys[i]))
<1>1. \A r \in Row : SlotOf(r) \in Slot /\ hashKeys[SlotOf(r)] = keys[r]
  BY SlotOfType DEF ClaimInv, ThreadsInRange, SumInv, SettledOwn
<1>2. \A r \in Row : SlotOf(r) = i <=> keys[r] = hashKeys[i]
  BY <1>1, ClaimInvOneSlot DEF OneSlotPerKey
<1>3. At(i, {"count", "done"}) = RowsOf(hashKeys[i]) /\ At(i, {"done"}) = RowsOf(hashKeys[i])
  BY <1>2 DEF At, RowsOf
<1> QED
  BY <1>3 DEF SumInv, SumsAt, CountsAt

\* What the host has collected is the reference GROUP BY.
LEMMA SumInvGroupsExact == ClaimInv /\ SumInv => GroupsExact
<1> SUFFICES ASSUME ClaimInv, SumInv, groups # {}
             PROVE  groups = {[key |-> k - 1, sum |-> RowsOf(k), count |-> Cardinality(RowsOf(k))] :
                                k \in {keys[r] : r \in Row}}
  BY DEF GroupsExact
<1>1. groups = TableGroups /\ \A r \in Row : pc[r] = "done"
  BY DEF SumInv, GroupsCollected
<1> DEFINE G(k) == [key |-> k - 1, sum |-> RowsOf(k), count |-> Cardinality(RowsOf(k))]
           Held == {j \in Slot : hashKeys[j] # 0}
<1>2. \A i \in Held : [key |-> hashKeys[i] - 1, sum |-> hashSums[i], count |-> hashCounts[i]] = G(hashKeys[i])
  BY <1>1, SlotExact
<1>3. TableGroups = {G(hashKeys[i]) : i \in Held}
  BY <1>2 DEF TableGroups
<1>4. \A i \in Held : \E r \in Row : keys[r] = hashKeys[i]
  BY DEF ClaimInv, KeysOfRows
<1>5. \A r \in Row : \E i \in Held : hashKeys[i] = keys[r]
  <2> SUFFICES ASSUME NEW r \in Row PROVE \E i \in Held : hashKeys[i] = keys[r]
    OBVIOUS
  <2>1. SlotOf(r) \in Slot /\ keys[r] \in Key /\ hashKeys[SlotOf(r)] = keys[r]
    BY <1>1, SlotOfType DEF ClaimInv, ThreadsInRange, SumInv, SettledOwn
  <2>2. keys[r] # 0
    BY <2>1, HashAssumption DEF Key
  <2> QED
    BY <2>1, <2>2
<1> HIDE DEF G, Held
<1>6. {G(hashKeys[i]) : i \in Held} = {G(k) : k \in {keys[r] : r \in Row}}
  BY <1>4, <1>5
<1> QED
  BY <1>1, <1>3, <1>6 DEF G

\* The hash GROUP BY returns one group for each key of the input, with all rows
\* of that key and their number, for every schedule of the threads.
THEOREM GroupsAreExact == Spec => []GroupsExact
BY SumInvGroupsExact, SpecSumInv, PTL

=============================================================================
