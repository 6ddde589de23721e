---------------------------- MODULE MCIngestion ----------------------------
(* Instances of Ingestion for TLC. *)
EXTENDS Ingestion, TLC

Symmetry == Permutations(Docs) \cup Permutations(Runs)
=============================================================================
