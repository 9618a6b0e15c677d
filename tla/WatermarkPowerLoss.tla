------------------------- MODULE WatermarkPowerLoss -------------------------
(***************************************************************************)
(* The watermark arm on a machine that may lose power.  Its partitions are *)
(* renamed into place without an fsync (storage/atomic.py, durable=False), *)
(* while the done-marks and the watermark are SQLite commits, which are    *)
(* fsynced: a power loss may take back days the watermark is already past. *)
(***************************************************************************)
EXTENDS WatermarkSync

\* The days that are known to have rows: a done unit's observation lies there.
WithRows == {units[k].observed : k \in Done(units)}

\* Power is lost while an invocation runs: the state database stays, and of the
\* partitions this invocation has written any may be gone with the page cache;
\* what earlier invocations wrote has long been written back.
PowerLoss ==
    /\ ~NotRunning
    /\ CanFault
    /\ faults' = faults + 1
    /\ phase' = "down"
    /\ worker' = [w \in Workers |-> Free("off")]
    /\ stop' = FALSE
    /\ failures' = {}
    /\ residual' = NoWindow
    /\ \E gone \in SUBSET (refetched \cap WithRows) :
          /\ landed' = landed \ gone
          /\ refetched' = refetched \ gone
    /\ UNCHANGED <<stateDB, today, chunk>>

SpecWithPowerLoss == Init /\ [][Next \/ PowerLoss]_vars

\* "A lost write there is refetched by design" (storage/atomic.py): when an
\* invocation has ended well, every day through the watermark's is on disk
\* again, whatever an earlier one lost.
LostWritesRefetched ==
    phase = "finished" => Anchor .. watermark \subseteq landed
=============================================================================
