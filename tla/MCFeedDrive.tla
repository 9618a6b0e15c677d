---------------------------- MODULE MCFeedDrive ----------------------------
(* FeedDrive on small instances. *)
EXTENDS FeedDrive, TLC

Symmetry == Permutations(Dates)
=============================================================================
