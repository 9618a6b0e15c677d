---------------------------- MODULE EndpointRunner ----------------------------
(***************************************************************************)
(* The endpoint runner (orchestrator/runner.py): one endpoint of the       *)
(* catalog, run by the arm its sync mode names.  A snapshot and a window   *)
(* unit of the watermark arm are Harvest's; the feed arm is FeedDrive's;   *)
(* the watermark arm's queue of units is WatermarkSync's.                  *)
(***************************************************************************)
EXTENDS FeedDrive, Harvest

vars == <<feedVars, harvestVars>>

Init == HarvestInit /\ FeedInit

\* The feed arm, and what else happens to a feed endpoint.
RunFeed ==
    /\ cell.mode = "feed"
    /\ FeedNext
    /\ UNCHANGED harvestVars

\* The snapshot arm, or a window unit of the watermark arm.
RunHarvest ==
    /\ cell.mode \in {"snapshot", "watermark"}
    /\ HarvestNext
    /\ UNCHANGED feedVars

Next == RunFeed \/ RunHarvest

Spec == Init /\ [][Next]_vars

\* A run that is started goes on, and the operator starts feed runs again and
\* again; the provider and the faults are left alone.
FeedStep == cell.mode = "feed" /\ DriveStep /\ UNCHANGED harvestVars
HarvestStep == cell.mode # "feed" /\ RunStep /\ UNCHANGED feedVars

FairSpec == Spec /\ WF_vars(FeedStep) /\ WF_vars(HarvestStep)

\* The shape of both arms' variables.
TypeOK == FeedTypeOK /\ HarvestTypeOK
=============================================================================
