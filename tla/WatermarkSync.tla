--------------------------- MODULE WatermarkSync ---------------------------
(***************************************************************************)
(* The watermark arm of one endpoint: the run's main thread               *)
(* (orchestrator/watermark_drive.py), its unit workers                     *)
(* (orchestrator/unit_loop.py), the work-unit queue                        *)
(* (state/work_units.py), the watermark row (state/cursors.py) and the     *)
(* ledger's coverage frontier (state/run_ledger.py), under crashes,        *)
(* failing units, failing state writes and a clock set back.               *)
(*                                                                         *)
(* Time is counted in whole UTC days: window bounds, unit bounds and the   *)
(* trailing edge are midnights in the code, and an instant (a watermark,   *)
(* an event time) stands here for the day it lies in.  One module action   *)
(* is one state-database transaction, or one stretch of code no other      *)
(* thread and no crash can split visibly.                                  *)
(***************************************************************************)
EXTENDS Integers, FiniteSets

CONSTANTS
    Workers,       \* the threads of one drive (sync.backfill_unit_workers)
    Anchor,        \* sync.default_start_date, the cold-start day
    Lookback,      \* WatermarkMode.lookback, in days
    Cutoff,        \* WatermarkMode.cutoff, in days
    ChunkDays,     \* the unit widths an invocation may be configured with
    LastDay,       \* bound: the last day the clock reaches
    MaxFaults      \* bound: injected crashes, failures and clock regressions

ASSUME SyncAssumption ==
    /\ Workers # {} /\ IsFiniteSet(Workers)
    /\ Anchor \in Int /\ LastDay \in Int /\ LastDay >= Anchor
    /\ Lookback \in Nat /\ Cutoff \in Nat
    /\ ChunkDays \in SUBSET (Nat \ {0})
    /\ MaxFaults \in Nat

\* The absent instant, below every day a window can cover, so that a missing
\* watermark compares like the INSERT arm of the guarded upsert.
None == Anchor - Lookback - 1

Day == {d \in Int : d > None}

\* A half-open window of whole days: a residual window, or a unit's key.
Window == {w \in [start : Day, end : Day] : w.start < w.end}

DaysOf(w) == w.start .. (w.end - 1)

Status == {"pending", "claimed", "done", "failed"}

UnitRow == [id : Int, status : Status, observed : Day \cup {None}]

VARIABLES
    units,      \* the work_units rows of the endpoint, keyed by their window
    watermark,  \* the cursors row: the day of the watermark, or None
    frontier,   \* max(window_end) over the succeeded runs, or None
    today       \* the UTC day of the clock

stateDB == <<units, watermark, frontier>>

VARIABLES
    phase,      \* the main thread: "down", "heal", "leftover", "plan",
                \* "release", "enqueue", "residual", "finished"
    chunk,      \* the unit width configured for this invocation
    residual,   \* the resolved residual window (meaningful while planning)
    stop,       \* the drive's _stop_claiming event
    failures,   \* the workers that ended a unit with an exception
    worker      \* per worker: program counter, claimed window, its fold

process == <<phase, chunk, residual, stop, failures, worker>>

\* History variables, read by no action's guard but the fault bound.
VARIABLES
    landed,     \* days some unit has fetched and written in full
    refetched,  \* ... in the current invocation
    faults      \* faults injected so far

history == <<landed, refetched, faults>>

vars == <<stateDB, today, process, history>>

-----------------------------------------------------------------------------
(* The queue. *)

Claimable(q) == {k \in DOMAIN q : q[k].status \in {"pending", "failed"}}

NotDone(q) == {k \in DOMAIN q : q[k].status # "done"}

Done(q) == DOMAIN q \ NotDone(q)

\* claim_next's ORDER BY unit_id LIMIT 1.
NextClaims(q) ==
    {k \in Claimable(q) : \A j \in Claimable(q) : q[k].id <= q[j].id}

\* Faulty variant: the maximum over every done row, gaps or not.
PrefixUngated(q) ==
    {q[k].observed : k \in Done(q)} \ {None}

\* The non-null observations of the contiguous done-prefix: the done rows whose
\* chunk starts before the earliest row that is not done.
Prefix(q) ==
    {q[k].observed : k \in {j \in Done(q) :
        \A g \in NotDone(q) : j.start < g.start}} \ {None}

\* MAX(observed_max) over the prefix, as the set of its possible values: empty
\* when the query returns NULL.
PrefixObservation(q) == {o \in Prefix(q) : \A p \in Prefix(q) : p <= o}

\* Faulty variant: the tiling runs on to a start on the window's end.
TilesOverrun(w, width) ==
    {[start |-> s, end |-> IF s + width < w.end THEN s + width ELSE w.end] :
        s \in {d \in w.start .. w.end : (d - w.start) % width = 0}}

\* The plan: contiguous chunks left to right, the last one possibly short.
Tiles(w, width) ==
    {[start |-> s, end |-> IF s + width < w.end THEN s + width ELSE w.end] :
        s \in {d \in DaysOf(w) : (d - w.start) % width = 0}}

\* The highest rowid present, 0 in an empty table, as the set of its possible
\* values: SQLite hands out the ones above it.
TopId(q) ==
    {i \in {0} \cup {q[k].id : k \in DOMAIN q} :
        i >= 0 /\ \A k \in DOMAIN q : q[k].id <= i}

-----------------------------------------------------------------------------
(* Resume resolution. *)

TrailingEdge == today - Cutoff

ResumeStart ==
    IF watermark # None THEN watermark - Lookback
    ELSE IF frontier # None THEN frontier
    ELSE Anchor

-----------------------------------------------------------------------------
(* The initial state: an empty state database, no process. *)

NoWindow == [start |-> Anchor, end |-> Anchor]

\* A worker that holds no unit.
Free(pc) == [pc |-> pc, unit |-> NoWindow, observed |-> None]

Init ==
    /\ units = [k \in {} |-> {}]
    /\ watermark = None
    /\ frontier = None
    /\ today = Anchor
    /\ phase = "down"
    /\ chunk \in ChunkDays
    /\ residual = NoWindow
    /\ stop = FALSE
    /\ failures = {}
    /\ worker = [w \in Workers |-> Free("off")]
    /\ landed = {}
    /\ refetched = {}
    /\ faults = 0

-----------------------------------------------------------------------------
(* The main thread. *)

NotRunning == phase \in {"down", "finished"}

\* Faulty variant: orphaned claims are not reset.
KeepClaimed(q) == q

\* reset_claimed_to_pending: at run start no worker lives, so every claimed row
\* is an orphan of a dead invocation.
ResetClaimed(q) ==
    [k \in DOMAIN q |->
        IF q[k].status = "claimed" THEN [q[k] EXCEPT !.status = "pending"]
        ELSE q[k]]

\* Guard A at run start: a watermark later than the clock refuses the run (no
\* effect, so no action); on the same day either outcome is possible.
\* The invocation brings its own configured unit width.
StartRun ==
    /\ NotRunning
    /\ watermark <= today
    /\ units' = ResetClaimed(units)
    /\ chunk' \in ChunkDays
    /\ phase' = "heal"
    /\ refetched' = {}
    /\ UNCHANGED <<watermark, frontier, today, residual, stop, failures,
                   worker, landed, faults>>

LaunchWorkers ==
    /\ worker' = [w \in Workers |-> Free("check")]
    /\ stop' = FALSE
    /\ failures' = {}

\* Faulty variant: no prefix commit at run start.
NoHeal ==
    /\ phase = "heal"
    /\ phase' = "leftover"
    /\ LaunchWorkers
    /\ UNCHANGED <<stateDB, today, chunk, residual, history>>

\* Faulty variant: what an earlier invocation left is not drained first.
HealAndPlan ==
    /\ phase = "heal"
    /\ phase' = "plan"
    /\ UNCHANGED <<stateDB, today, chunk, residual, stop, failures, worker,
                   history>>

\* The run-start prefix commit (read and guarded advance; no other writer is
\* alive), then the drive over whatever an earlier invocation left.
HealPrefix ==
    /\ phase = "heal"
    /\ \/ /\ PrefixObservation(units) = {}
          /\ UNCHANGED watermark
       \/ \E o \in PrefixObservation(units) :
             watermark' = IF o > watermark THEN o ELSE watermark
    /\ phase' = "leftover"
    /\ LaunchWorkers
    /\ UNCHANGED <<units, frontier, today, chunk, residual, history>>

AllJoined == \A w \in Workers : worker[w].pc = "off"

\* The leftover drive's join: the first failure re-raises and ends the run,
\* otherwise the residual is resolved next.
JoinLeftover ==
    /\ phase = "leftover"
    /\ AllJoined
    /\ phase' = IF failures = {} THEN "plan" ELSE "down"
    /\ stop' = FALSE
    /\ failures' = {}
    /\ UNCHANGED <<stateDB, today, chunk, residual, worker, history>>

\* The residual window against a fresh clock read and the cursor as the
\* leftovers left it; Guard A again (the clock may have been set back).
ResolveResidual ==
    /\ phase = "plan"
    /\ \/ /\ watermark >= today
          /\ watermark # None
          /\ phase' = "down"
          /\ UNCHANGED residual
       \/ /\ watermark <= today
          /\ IF ResumeStart < TrailingEdge
             THEN /\ residual' = [start |-> ResumeStart, end |-> TrailingEdge]
                  /\ phase' = "release"
             ELSE /\ phase' = "finished"
                  /\ residual' = NoWindow
    /\ UNCHANGED <<stateDB, today, chunk, stop, failures, worker, history>>

\* Faulty variant: the plan is enqueued over the done rows it re-covers.
ReleaseNothing ==
    /\ phase = "release"
    /\ phase' = "enqueue"
    /\ UNCHANGED <<units, watermark, frontier, today, chunk, residual, stop,
                   failures, worker, history>>

\* release_done_units: the done rows lying fully inside the window go.
ReleaseDone ==
    /\ phase = "release"
    /\ LET inside == {k \in Done(units) : /\ k.start >= residual.start
                                          /\ k.end <= residual.end}
       IN  units' = [k \in DOMAIN units \ inside |-> units[k]]
    /\ phase' = "enqueue"
    /\ UNCHANGED <<watermark, frontier, today, chunk, residual, stop,
                   failures, worker, history>>

\* enqueue: INSERT OR IGNORE of the tiles on their natural key, then the drive.
EnqueuePlan ==
    /\ phase = "enqueue"
    /\ LET plan == Tiles(residual, chunk)
       IN  \E top \in TopId(units) :
             units' = [k \in DOMAIN units \cup plan |->
                          IF k \in DOMAIN units THEN units[k]
                          ELSE [id |-> top + 1 + k.start - residual.start,
                                status |-> "pending", observed |-> None]]
    /\ phase' = "residual"
    /\ LaunchWorkers
    /\ UNCHANGED <<watermark, frontier, today, chunk, residual, history>>

\* The residual drive's join ends the invocation, by its first failure or well.
JoinResidual ==
    /\ phase = "residual"
    /\ AllJoined
    /\ phase' = IF failures = {} THEN "finished" ELSE "down"
    /\ stop' = FALSE
    /\ failures' = {}
    /\ UNCHANGED <<stateDB, today, chunk, residual, worker, history>>

-----------------------------------------------------------------------------
(* The unit workers. *)

Driving == phase \in {"leftover", "residual"}

At(w, pc) == Driving /\ worker[w].pc = pc

Goto(w, pc) == worker' = [worker EXCEPT ![w].pc = pc]

\* Back to the loop head, or out of the loop: the claimed unit is forgotten.
LetGo(w, pc) == worker' = [worker EXCEPT ![w] = Free(pc)]

mainUnchanged == <<today, phase, chunk, residual>>

\* The loop head: a set stop signal ends the worker.
CheckStop(w) ==
    /\ At(w, "check")
    /\ LetGo(w, IF stop THEN "off" ELSE "claim")
    /\ UNCHANGED <<stateDB, mainUnchanged, stop, failures, history>>

\* claim_next, past the stop check: atomically the lowest claimable unit, or
\* none, which drains the worker and stops its siblings.
ClaimNext(w) ==
    /\ At(w, "claim")
    /\ \/ \E k \in NextClaims(units) :
            /\ units' = [units EXCEPT ![k].status = "claimed"]
            /\ worker' = [worker EXCEPT
                            ![w] = [pc |-> "drive", unit |-> k,
                                    observed |-> None]]
            /\ UNCHANGED stop
       \/ /\ Claimable(units) = {}
          /\ LetGo(w, "off")
          /\ stop' = TRUE
          /\ UNCHANGED units
    /\ UNCHANGED <<watermark, frontier, mainUnchanged, failures, history>>

\* drive_unit up to finalize: the window fetched, every covered partition
\* replaced or pruned, the in-window maximum folded (None when it was empty).
WriteWindow(w) ==
    /\ At(w, "drive")
    /\ \E o \in DaysOf(worker[w].unit) \cup {None} :
          worker' = [worker EXCEPT ![w].pc = "complete", ![w].observed = o]
    /\ landed' = landed \cup DaysOf(worker[w].unit)
    /\ refetched' = refetched \cup DaysOf(worker[w].unit)
    /\ UNCHANGED <<stateDB, mainUnchanged, stop, failures, faults>>

\* complete_run: the ledger row succeeds, and with it the coverage frontier.
CompleteRun(w) ==
    /\ At(w, "complete")
    /\ frontier' = IF worker[w].unit.end > frontier
                   THEN worker[w].unit.end ELSE frontier
    /\ Goto(w, "mark")
    /\ UNCHANGED <<units, watermark, mainUnchanged, stop, failures, history>>

\* mark_done with the folded observation.
MarkDone(w) ==
    /\ At(w, "mark")
    /\ LET k == worker[w].unit
       IN  /\ k \in DOMAIN units
           /\ units[k].status = "claimed"
           /\ units' = [units EXCEPT ![k].status = "done",
                                     ![k].observed = worker[w].observed]
    /\ Goto(w, "read")
    /\ UNCHANGED <<watermark, frontier, mainUnchanged, stop, failures, history>>

\* commit_prefix, first half: the prefix maximum, read on a connection of its
\* own; NULL ends the commit.
ReadPrefix(w) ==
    /\ At(w, "read")
    /\ \/ /\ PrefixObservation(units) = {}
          /\ LetGo(w, "check")
       \/ \E o \in PrefixObservation(units) :
             worker' = [worker EXCEPT ![w].pc = "advance", ![w].observed = o]
    /\ UNCHANGED <<stateDB, mainUnchanged, stop, failures, history>>

\* Faulty variant: the upsert has no forward guard.
AdvanceBlindly(w) ==
    /\ At(w, "advance")
    /\ watermark' = worker[w].observed
    /\ LetGo(w, "check")
    /\ UNCHANGED <<units, frontier, mainUnchanged, stop, failures, history>>

\* commit_prefix, second half: the strictly-forward guard is in the statement,
\* so a value read before a sibling's commit cannot move the cursor back.
AdvanceForward(w) ==
    /\ At(w, "advance")
    /\ watermark' = IF worker[w].observed > watermark
                    THEN worker[w].observed ELSE watermark
    /\ LetGo(w, "check")
    /\ UNCHANGED <<units, frontier, mainUnchanged, stop, failures, history>>

CanFault == faults < MaxFaults

\* Faulty variant: the failure does not stop the claiming.
FailQuietly(w) ==
    /\ At(w, "drive") \/ At(w, "complete")
    /\ CanFault
    /\ faults' = faults + 1
    /\ failures' = failures \cup {w}
    /\ Goto(w, "fail")
    /\ UNCHANGED <<stateDB, mainUnchanged, stop, landed, refetched>>

\* drive_unit raises (fetch, write or completion): the stop signal first.
FailUnit(w) ==
    /\ At(w, "drive") \/ At(w, "complete")
    /\ CanFault
    /\ faults' = faults + 1
    /\ stop' = TRUE
    /\ failures' = failures \cup {w}
    /\ Goto(w, "fail")
    /\ UNCHANGED <<stateDB, mainUnchanged, landed, refetched>>

\* Faulty variant: a failed unit is marked done to get past it.
SkipPoisonUnit(w) ==
    /\ At(w, "fail")
    /\ units' = [units EXCEPT ![worker[w].unit].status = "done"]
    /\ LetGo(w, "check")
    /\ UNCHANGED <<watermark, frontier, mainUnchanged, stop, failures, history>>

\* mark_failed under record_failure_safely: the mark lands and the unit is
\* claimable again, or the recording itself fails, is swallowed, and the row
\* stays claimed until the next run's reset.
MarkFailed(w) ==
    /\ At(w, "fail")
    /\ \/ /\ units' = [units EXCEPT ![worker[w].unit].status = "failed"]
          /\ UNCHANGED faults
       \/ /\ CanFault
          /\ faults' = faults + 1
          /\ UNCHANGED units
    /\ LetGo(w, "check")
    /\ UNCHANGED <<watermark, frontier, mainUnchanged, stop, failures,
                   landed, refetched>>

\* A claim, a done-mark or a prefix commit raises: nothing was written, the
\* worker dies with the exception, and its finally sets the stop signal.
StoreError(w) ==
    /\ At(w, "claim") \/ At(w, "mark") \/ At(w, "read") \/ At(w, "advance")
    /\ CanFault
    /\ faults' = faults + 1
    /\ stop' = TRUE
    /\ failures' = failures \cup {w}
    /\ LetGo(w, "off")
    /\ UNCHANGED <<stateDB, mainUnchanged, landed, refetched>>

-----------------------------------------------------------------------------
(* The environment. *)

\* The process dies: only the state database survives.
Crash ==
    /\ ~NotRunning
    /\ CanFault
    /\ faults' = faults + 1
    /\ phase' = "down"
    /\ worker' = [w \in Workers |-> Free("off")]
    /\ stop' = FALSE
    /\ failures' = {}
    /\ residual' = NoWindow
    /\ UNCHANGED <<stateDB, today, chunk, landed, refetched>>

\* Midnight passes; the clock is bounded by LastDay.
NextDay ==
    /\ today < LastDay
    /\ today' = today + 1
    /\ UNCHANGED <<stateDB, process, history>>

\* The clock is set back a day.
ClockSetBack ==
    /\ CanFault
    /\ today > Anchor
    /\ today' = today - 1
    /\ faults' = faults + 1
    /\ UNCHANGED <<stateDB, process, landed, refetched>>

-----------------------------------------------------------------------------
MainStep ==
    \/ StartRun \/ HealPrefix \/ JoinLeftover \/ ResolveResidual
    \/ ReleaseDone \/ EnqueuePlan \/ JoinResidual

WorkStep(w) ==
    \/ CheckStop(w) \/ ClaimNext(w) \/ WriteWindow(w) \/ CompleteRun(w)
    \/ MarkDone(w) \/ ReadPrefix(w) \/ AdvanceForward(w) \/ MarkFailed(w)

Fault ==
    \/ \E w \in Workers : FailUnit(w) \/ StoreError(w)
    \/ Crash
    \/ ClockSetBack

Next ==
    \/ MainStep
    \/ \E w \in Workers : WorkStep(w)
    \/ NextDay
    \/ Fault

Spec == Init /\ [][Next]_vars

\* Every thread is scheduled, the operator runs the sync again and again, and
\* days pass.  Faults are owed nothing.
Fairness ==
    /\ WF_vars(MainStep)
    /\ \A w \in Workers : WF_vars(WorkStep(w))
    /\ WF_vars(NextDay)

FairSpec == Spec /\ Fairness

-----------------------------------------------------------------------------
(* Properties. *)

Phases == {"down", "heal", "leftover", "plan", "release", "enqueue",
           "residual", "finished"}

Points == {"off", "check", "claim", "drive", "complete", "mark", "read",
           "advance", "fail"}

Held == {"drive", "complete", "mark", "fail"}

\* The shape of every variable.
TypeOK ==
    /\ DOMAIN units \subseteq Window
    /\ units \in [DOMAIN units -> UnitRow]
    /\ watermark \in Day \cup {None}
    /\ frontier \in Day \cup {None}
    /\ today \in Anchor .. LastDay
    /\ phase \in Phases
    /\ chunk \in ChunkDays
    /\ residual \in Window \cup {NoWindow}
    /\ stop \in BOOLEAN
    /\ failures \subseteq Workers
    /\ worker \in [Workers -> [pc : Points, unit : Window \cup {NoWindow},
                               observed : Day \cup {None}]]
    /\ landed \subseteq Day
    /\ refetched \subseteq landed
    /\ faults \in 0 .. MaxFaults

\* The persisted watermark is true at every instant: every day from the
\* cold-start day through the watermark's own has been fetched and written,
\* whatever order units complete in and wherever a crash or failure falls.
WatermarkTruth == Anchor .. watermark \subseteq landed

\* Every day before h is written, or held by a unit that is not done.
Accounted(h) ==
    \A d \in Anchor .. (h - 1) :
        \/ d \in landed
        \/ \E k \in NotDone(units) : d \in DaysOf(k)

\* No day is silently skipped: a day before the end of any queued unit, or
\* before the coverage frontier, is written or still held by a unit that is
\* not done and so will be claimed again (the gap-unreachability the
\* prefix read rests on).
NoSilentHole ==
    /\ Accounted(frontier)
    /\ \A k \in DOMAIN units : Accounted(k.end)

\* Two workers never hold units that share a day, so no partition has two
\* writers, although the drives of one run, and units left by a dead
\* invocation with another unit width, meet in one queue.
SingleWriterPerDay ==
    \A v, w \in Workers :
        (v # w /\ worker[v].pc \in Held /\ worker[w].pc \in Held)
            => DaysOf(worker[v].unit) \cap DaysOf(worker[w].unit) = {}

\* A residual is planned only over a fully drained queue: no unit is pending,
\* failed or claimed while rows are released and the new plan enqueued.
DrainedBeforePlan ==
    phase \in {"release", "enqueue"} => NotDone(units) = {}

\* A worker whose unit failed claims nothing more in that drive: a
\* persistently failing unit is retried at most once per sibling already
\* past its stop check, never in a loop.
OneFailurePerWorker ==
    \A w \in failures : worker[w].pc \in {"fail", "check", "off"}

\* An invocation that ends well has refetched its whole residual window, the
\* lookback days that an earlier invocation had already completed included.
ReplannedDaysRefetched ==
    phase = "finished" => DaysOf(residual) \subseteq refetched

\* No interleaving of prefix commits moves the stored watermark backward.
WatermarkForward == [][watermark' > watermark]_watermark

\* The run covers the promise of an append-only coverage log.
Log == INSTANCE CoverageLog
         WITH NoWatermark <- None, covered <- landed, published <- watermark

ImplementsCoverageLog == Log!Spec

\* Faults having stopped, every complete day up to the trailing edge is
\* fetched and written at last, whatever was left claimed, failed or planned.
EventuallyCovered ==
    <>[](Anchor .. (LastDay - Cutoff - 1) \subseteq landed)

\* An observation recorded by a done unit reaches the watermark at last, also
\* when the process died between the done-mark and the prefix commit.
ObservationReachesWatermark ==
    \A d \in Anchor .. LastDay :
        (\E k \in Done(units) : units[k].observed = d) ~> (watermark >= d)
=============================================================================
