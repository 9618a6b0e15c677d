-------------------------- MODULE MCFanOutChannel --------------------------
(* FanOutChannel on small instances. *)
EXTENDS FanOutChannel
=============================================================================
