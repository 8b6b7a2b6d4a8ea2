----------------------------- MODULE MCTileReduce -----------------------------
(* Instances of MlxTileReduce for TLC. *)
EXTENDS MlxTileReduce

Row(code, pass, valid) == [code |-> code, pass |-> pass, valid |-> valid]

\* Three groups, a row of each fate; code 3 is the dump slot.
Cycle == <<Row(0, TRUE, TRUE), Row(2, TRUE, FALSE), Row(1, TRUE, TRUE), Row(2, FALSE, TRUE), Row(3, TRUE, TRUE), Row(2, TRUE, TRUE)>>

\* n rows of the cycle, from its k-th on: every boundary of tiles, lanes and grids
MCTables == {[r \in 1 .. n |-> Cycle[((r + k) % 6) + 1]] : n \in {1, 3, 4, 5, 8, 9, 11}, k \in {0, 3}}

=============================================================================
