--------------------------- MODULE MCWideGroupby ---------------------------
(* Instances of MlxWideGroupby for TLC. *)
EXTENDS MlxWideGroupby

\* 9 and 10 are a dense window, 0 is far from them, and fp32 stores 9 as 8, which is a
\* key of its own.
MCKeys == {0, 8, 9, 10}
MCRow == [key : MCKeys, val : {0, 1, NULL}]

\* Tables of up to two rows, and a key that comes back after another one.
MCTables ==
    UNION {{t \in [1 .. n -> MCRow] : n = 2 => t[1].key <= t[2].key} : n \in 0 .. 2}
        \cup {t \in [1 .. 3 -> [key : {0, 9, 10}, val : {0, 1}]] :
                t[1].key = t[3].key /\ t[1].key # t[2].key /\ t[2].val = 1}

MCNoFilter == [col |-> "none", pass |-> {}]
MCFilters == {MCNoFilter, [col |-> "key", pass |-> {8, 10}], [col |-> "val", pass |-> {0}]}
=============================================================================
