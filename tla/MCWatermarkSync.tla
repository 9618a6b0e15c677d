-------------------------- MODULE MCWatermarkSync --------------------------
(* WatermarkSync on small instances. *)
EXTENDS WatermarkSync, TLC
=============================================================================
