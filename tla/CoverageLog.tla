---------------------------- MODULE CoverageLog ----------------------------
(***************************************************************************)
(* What the watermark arm promises its reader, and nothing of how: days    *)
(* get covered (fetched, written, never uncovered again), and the          *)
(* published watermark moves forward only over days that are all covered.  *)
(*                                                                         *)
(* "Every persisted watermark is true at every instant: everything at or   *)
(* before it has been fetched and committed" (DESIGN.md section 5, the     *)
(* prefix-advance rule; orchestrator/unit_loop.py:10-14).                  *)
(***************************************************************************)
EXTENDS Integers

CONSTANTS Anchor,     \* the cold-start day
          NoWatermark \* the absent watermark, below every day

VARIABLES covered,    \* the days fetched and committed so far
          published   \* the day of the published watermark, or NoWatermark

vars == <<covered, published>>

Init ==
    /\ covered = {}
    /\ published = NoWatermark

\* Some days are fetched and committed.
Cover ==
    /\ covered' \in SUBSET Int
    /\ covered \subseteq covered'
    /\ UNCHANGED published

\* The watermark moves to a later day, everything up to it being covered.
Publish ==
    /\ published' \in Int
    /\ published' > published
    /\ Anchor .. published' \subseteq covered
    /\ UNCHANGED covered

Next == Cover \/ Publish

Spec == Init /\ [][Next]_vars
=============================================================================
