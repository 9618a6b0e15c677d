--------------------------- MODULE MCQuotaLimiter ---------------------------
(* QuotaLimiter on small instances. *)
EXTENDS QuotaLimiter, TLC

Symmetry == Permutations(Threads)
=============================================================================
