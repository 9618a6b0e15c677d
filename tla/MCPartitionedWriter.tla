------------------------ MODULE MCPartitionedWriter ------------------------
(* PartitionedWriter on small instances. *)
EXTENDS PartitionedWriter, TLC

Symmetry == Permutations(Writers) \cup Permutations(Pieces)
=============================================================================
