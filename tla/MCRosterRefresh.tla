-------------------------- MODULE MCRosterRefresh --------------------------
(* RosterRefresh on small instances. *)
EXTENDS RosterRefresh, TLC

Symmetry == Permutations(Consumers) \cup Permutations(Members)
=============================================================================
