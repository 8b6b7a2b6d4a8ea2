------------------------------ MODULE MCPinned ------------------------------
(* Instances of MlxPinned for TLC. *)
EXTENDS MlxPinned

CONSTANTS g, v, k, w

\* A query reads the columns of the narrower ones and more, so that a miss of one
\* column populates the others once again.
MCTogether == {{g, v}, {g, v, k}, {g, v, k, w}}

\* Groupings that only count rows per string read k alone.
MCAlone == MCTogether \cup {{k}}

\* The fourth row, which only an Insert brings, has a string of its own.
MCStringOf == <<"a", "b", "a", "c">>

=============================================================================
