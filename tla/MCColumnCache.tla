---------------------------- MODULE MCColumnCache ----------------------------
(* Instances of MlxColumnCache for TLC. *)
EXTENDS MlxColumnCache, TLC

\* Sessions and columns are interchangeable: no action or property names one.
Symmetry == Permutations(Session) \cup Permutations(Col)

=============================================================================
