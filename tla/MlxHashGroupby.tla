--------------------------- MODULE MlxHashGroupby ---------------------------
(***************************************************************************)
(* The open-addressing hash GROUP BY: HashBuildKernel, one GPU thread per  *)
(* row, and the host's collection of the table (GroupbySumHash).           *)
(*                                                                         *)
(* A thread walks the probe sequence of its key.  One compare-and-swap on  *)
(* the key slot decides who owns it; the sum and the count are separate    *)
(* atomic additions that follow.  Every atomic operation is relaxed and is *)
(* one action.  A spurious failure of the weak compare-and-swap on an      *)
(* empty slot retries the slot, which changes nothing.                     *)
(*                                                                         *)
(* Abstraction.  A slot's sum is the set of rows added to it.  The hash    *)
(* function is any function from keys to slots: Init chooses it, as well   *)
(* as the keys of the rows.                                                *)
(***************************************************************************)
EXTENDS Integers, FiniteSets

CONSTANTS
    Rows,      \* rows of the input, n
    MaxKey,    \* keys are 0..MaxKey-1, 1..MaxKey with the kernel's bias
    Capacity   \* slots of the table

\* The code takes the next power of two above max(2n, 1024); that the table has
\* no fewer slots than rows is all that is used.
ASSUME HashAssumption ==
    /\ Rows \in Nat
    /\ MaxKey \in Nat
    /\ Capacity \in Nat \ {0}
    /\ Capacity >= Rows

Row == 1..Rows
Key == 1..MaxKey
Slot == 0..(Capacity - 1)

VARIABLES
    keys,        \* row -> biased key
    home,        \* key -> first slot of its probe sequence
    hashKeys,    \* slot -> key, 0 when empty
    hashSums,    \* slot -> rows added to the sum
    hashCounts,  \* slot -> count
    pc,          \* row -> what its thread does next
    probe,       \* row -> slots its thread has passed
    groups       \* what the host has collected

vars == <<keys, home, hashKeys, hashSums, hashCounts, pc, probe, groups>>

\* What the host returns for a group.
Group == [key : Nat, sum : SUBSET Row, count : Nat]

TypeOK ==
    /\ keys \in [Row -> Key]
    /\ home \in [Key -> Slot]
    /\ hashKeys \in [Slot -> Key \cup {0}]
    /\ hashSums \in [Slot -> SUBSET Row]
    /\ hashCounts \in [Slot -> Nat]
    /\ pc \in [Row -> {"claim", "sum", "count", "done"}]
    /\ probe \in [Row -> 0..Capacity]
    /\ groups \in SUBSET Group

Init ==
    /\ keys \in [Row -> Key]
    /\ home \in [Key -> Slot]
    /\ hashKeys = [i \in Slot |-> 0]
    /\ hashSums = [i \in Slot |-> {}]
    /\ hashCounts = [i \in Slot |-> 0]
    /\ pc = [r \in Row |-> "claim"]
    /\ probe = [r \in Row |-> 0]
    /\ groups = {}

\* (h + probe) % cap, for h and probe below cap.
ProbeSlot(k, p) == IF home[k] + p < Capacity THEN home[k] + p ELSE home[k] + p - Capacity

\* The slot a thread looks at, or has settled on.
SlotOf(r) == ProbeSlot(keys[r], probe[r])

\* Mutants of Claim: the slot is written without looking at what it holds, and
\* the bias is added to a key that already has it.
ClaimUnchecked(r) ==
    /\ pc[r] = "claim"
    /\ hashKeys' = [hashKeys EXCEPT ![SlotOf(r)] = keys[r]]
    /\ pc' = [pc EXCEPT ![r] = "sum"]
    /\ UNCHANGED <<keys, home, hashSums, hashCounts, probe, groups>>

ClaimBiasedTwice(r) ==
    /\ pc[r] = "claim"
    /\ hashKeys[SlotOf(r)] \in {0, keys[r]}
    /\ hashKeys' = [hashKeys EXCEPT ![SlotOf(r)] = keys[r] + 1]
    /\ pc' = [pc EXCEPT ![r] = "sum"]
    /\ UNCHANGED <<keys, home, hashSums, hashCounts, probe, groups>>

\* The compare-and-swap found the slot empty, and took it, or held by the same key.
Claim(r) ==
    /\ pc[r] = "claim"
    /\ hashKeys[SlotOf(r)] \in {0, keys[r]}
    /\ hashKeys' = [hashKeys EXCEPT ![SlotOf(r)] = keys[r]]
    /\ pc' = [pc EXCEPT ![r] = "sum"]
    /\ UNCHANGED <<keys, home, hashSums, hashCounts, probe, groups>>

\* Mutants of Pass: the last slot of the sequence is not tried, a thread passes a
\* slot that holds its own key, and a thread waits at a slot of another key.
PassTooShort(r) ==
    /\ pc[r] = "claim"
    /\ hashKeys[SlotOf(r)] \notin {0, keys[r]}
    /\ probe' = [probe EXCEPT ![r] = @ + 1]
    /\ pc' = [pc EXCEPT ![r] = IF probe[r] + 2 < Capacity THEN "claim" ELSE "done"]
    /\ UNCHANGED <<keys, home, hashKeys, hashSums, hashCounts, groups>>

PassOwnKey(r) ==
    /\ pc[r] = "claim"
    /\ hashKeys[SlotOf(r)] # 0
    /\ probe' = [probe EXCEPT ![r] = @ + 1]
    /\ pc' = [pc EXCEPT ![r] = IF probe[r] + 1 < Capacity THEN "claim" ELSE "done"]
    /\ UNCHANGED <<keys, home, hashKeys, hashSums, hashCounts, groups>>

PassWaits(r) ==
    /\ pc[r] = "claim"
    /\ hashKeys[SlotOf(r)] \notin {0, keys[r]}
    /\ UNCHANGED vars

\* The compare-and-swap found another key: the thread goes on to the next slot,
\* and gives its row up after the last one.
Pass(r) ==
    /\ pc[r] = "claim"
    /\ hashKeys[SlotOf(r)] \notin {0, keys[r]}
    /\ probe' = [probe EXCEPT ![r] = @ + 1]
    /\ pc' = [pc EXCEPT ![r] = IF probe[r] + 1 < Capacity THEN "claim" ELSE "done"]
    /\ UNCHANGED <<keys, home, hashKeys, hashSums, hashCounts, groups>>

AddSum(r) ==
    /\ pc[r] = "sum"
    /\ hashSums' = [hashSums EXCEPT ![SlotOf(r)] = @ \cup {r}]
    /\ pc' = [pc EXCEPT ![r] = "count"]
    /\ UNCHANGED <<keys, home, hashKeys, hashCounts, probe, groups>>

AddCount(r) ==
    /\ pc[r] = "count"
    /\ hashCounts' = [hashCounts EXCEPT ![SlotOf(r)] = @ + 1]
    /\ pc' = [pc EXCEPT ![r] = "done"]
    /\ UNCHANGED <<keys, home, hashKeys, hashSums, probe, groups>>

\* The groups in the table; the host takes the bias off the keys.
TableGroups ==
    {[key |-> hashKeys[i] - 1, sum |-> hashSums[i], count |-> hashCounts[i]] :
        i \in {j \in Slot : hashKeys[j] # 0}}

\* The host waits for the kernel (mx::eval) and walks the table.
Collect ==
    /\ \A r \in Row : pc[r] = "done"
    /\ groups' = TableGroups
    /\ UNCHANGED <<keys, home, hashKeys, hashSums, hashCounts, pc, probe>>

Thread(r) == Claim(r) \/ Pass(r) \/ AddSum(r) \/ AddCount(r)

Next == (\E r \in Row : Thread(r)) \/ Collect

Spec == Init /\ [][Next]_vars

\* The GPU runs every thread of the grid to its end, the host collects, and a
\* weak compare-and-swap does not fail spuriously for ever.
FairSpec == Spec /\ (\A r \in Row : WF_vars(Thread(r))) /\ WF_vars(Collect)

-----------------------------------------------------------------------------
(* Properties *)

\* Threads that race for slots never give one key two slots ("a single strong
\* CAS on the key slot itself decides ownership").
OneSlotPerKey ==
    \A i, j \in Slot : hashKeys[i] # 0 /\ hashKeys[i] = hashKeys[j] => i = j

\* No thread walks off the end of its probe sequence, even in a full table: a row
\* whose thread has ended is in the sum of a slot that belongs to its key.
NoRowDropped ==
    \A r \in Row : pc[r] = "done" =>
        \E i \in Slot : hashKeys[i] = keys[r] /\ r \in hashSums[i]

\* The rows with biased key k.
RowsOf(k) == {r \in Row : keys[r] = k}

\* What the host collects is the reference GROUP BY: one group for each key of
\* the input, with the rows of that key, all of them, and their number.
GroupsExact ==
    groups # {} =>
        groups = {[key |-> k - 1, sum |-> RowsOf(k), count |-> Cardinality(RowsOf(k))] :
                    k \in {keys[r] : r \in Row}}

\* The table is collected: no thread waits for another.
TableIsCollected == Rows > 0 => <>(groups # {})

=============================================================================
