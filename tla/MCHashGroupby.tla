---------------------------- MODULE MCHashGroupby ----------------------------
(* Instances of MlxHashGroupby for TLC. *)
EXTENDS MlxHashGroupby

=============================================================================
