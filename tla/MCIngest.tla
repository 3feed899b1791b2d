------------------------------ MODULE MCIngest ------------------------------
(* Small instances of Ingest for TLC. *)
EXTENDS Ingest, TLC

Symmetry == Permutations(Docs) \cup Permutations(Workers) \cup Permutations(Deleters)

=============================================================================
