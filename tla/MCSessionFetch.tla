--------------------------- MODULE MCSessionFetch ---------------------------
(* SessionFetch on small instances. *)
EXTENDS SessionFetch

=============================================================================
