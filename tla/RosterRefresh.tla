--------------------------- MODULE RosterRefresh ---------------------------
(***************************************************************************)
(* One fan-out roster: the refresh coordinator                             *)
(* (orchestrator/roster_refresh.py) that fan-out consumers call, the       *)
(* feeder tap of the orchestration entry (orchestrator/entry.py), the      *)
(* reconciliation (state/reconcile.py) they both write through, the roster *)
(* rows (state/rosters.py) and the ledger's last success                   *)
(* (state/run_ledger.py), in the two stages of a provider queue            *)
(* (api/sync.py): the feeder when it is selected, then the consumers,      *)
(* concurrently.                                                           *)
(*                                                                         *)
(* A listing is the set of members one fetch of the feeder yields.  One    *)
(* action is one state-database operation; the listings of an invocation   *)
(* are numbered in fetch order.                                            *)
(***************************************************************************)
EXTENDS Integers, Sequences, FiniteSets

CONSTANTS
    Consumers,     \* the endpoints that fan out over the roster
    Feeder,        \* the snapshot endpoint that lists it
    Nobody,        \* the holder of a free lock
    Members,       \* the members the provider may list
    Threshold,     \* RosterDefinition.eviction_threshold, or NoThreshold
    MaxAge,        \* RosterDefinition.max_age
    LastTime,      \* bound: the last instant of the clock
    MaxListings,   \* bound: successful fetches of the feeder
    MaxFaults      \* bound: process deaths and escaping bugs

NoThreshold == -1

ASSUME RosterAssumption ==
    /\ Feeder \notin Consumers /\ Nobody \notin Consumers \cup {Feeder}
    /\ Threshold \in Nat \cup {NoThreshold}
    /\ MaxAge \in Nat /\ LastTime \in Nat
    /\ MaxListings \in Nat /\ MaxFaults \in Nat

Tasks == Consumers \cup {Feeder}

Never == -1

VARIABLES
    counts,       \* the rosters rows: member -> absence count
    lastSuccess   \* max(ended_at) over the feeder's succeeded runs, or Never

VARIABLES
    now,          \* the clock
    stage,        \* of the queue: "idle", "feeders", "consumers"
    selected,     \* the endpoints of this invocation
    lock,         \* the roster's single-flight lock: its holder, or Nobody
    task          \* per endpoint: program counter, read rows, listing

\* History variables.
VARIABLES
    fetched,      \* listings fetched
    ledgered,     \* the newest listing whose run the ledger counts succeeded
    harvested,    \* ... and whose run was a coordinator harvest
    applied,      \* the newest listing reconciled
    listings,     \* the listings reconciled, in order
    faults        \* faults injected so far

history == <<fetched, ledgered, harvested, applied, listings, faults>>

vars == <<counts, lastSuccess, now, stage, selected, lock, task, history>>

NoRows == [m \in {} |-> 0]

Off == [pc |-> "off", seen |-> NoRows, listed |-> {}, no |-> 0]

Init ==
    /\ counts = NoRows
    /\ lastSuccess = Never
    /\ now = 0
    /\ stage = "idle"
    /\ selected = {}
    /\ lock = Nobody
    /\ task = [t \in Tasks |-> Off]
    /\ fetched = 0 /\ ledgered = 0 /\ harvested = 0 /\ applied = 0
    /\ listings = <<>>
    /\ faults = 0

At(t, pc) == task[t].pc = pc

Goto(t, pc) == task' = [task EXCEPT ![t].pc = pc]

Unlock(t) == lock' = IF lock = t THEN Nobody ELSE lock

-----------------------------------------------------------------------------
(* The provider queue's stages. *)

Enter(names, pc) == [t \in Tasks |-> IF t \in names THEN [Off EXCEPT !.pc = pc]
                                     ELSE Off]

\* An invocation: the selected feeder first, or the consumers at once.
StartSync ==
    /\ stage = "idle"
    /\ \E names \in SUBSET Tasks \ {{}} :
          /\ selected' = names
          /\ IF Feeder \in names
             THEN stage' = "feeders" /\ task' = Enter({Feeder}, "run")
             ELSE stage' = "consumers" /\ task' = Enter(names, "wait")
    /\ UNCHANGED <<counts, lastSuccess, now, lock, history>>

\* The stage join is the barrier: consumers start when the feeder has ended,
\* well or with an operational failure.
Barrier ==
    /\ stage = "feeders"
    /\ At(Feeder, "off")
    /\ stage' = "consumers"
    /\ task' = Enter(selected \ {Feeder}, "wait")
    /\ UNCHANGED <<counts, lastSuccess, now, selected, lock, history>>

EndSync ==
    /\ stage = "consumers"
    /\ \A t \in Tasks : At(t, "off")
    /\ stage' = "idle"
    /\ selected' = {}
    /\ UNCHANGED <<counts, lastSuccess, now, lock, task, history>>

-----------------------------------------------------------------------------
(* The feeder's own run, observed. *)

\* A fetch of the feeder that yields a listing, an empty one included.
Listing(t, pc) ==
    /\ fetched < MaxListings
    /\ fetched' = fetched + 1
    /\ \E listed \in SUBSET Members :
          task' = [task EXCEPT ![t].pc = pc, ![t].listed = listed,
                               ![t].no = fetched + 1]

\* The run executor fetches and writes the feeder's parquet, the collector
\* gathering the members; or the run fails and applies nothing to the roster.
FeederRun ==
    /\ At(Feeder, "run")
    /\ \/ Listing(Feeder, "record")
       \/ task' = [task EXCEPT ![Feeder] = Off] /\ UNCHANGED fetched
    /\ UNCHANGED <<counts, lastSuccess, now, stage, selected, lock, ledgered,
                   harvested, applied, listings, faults>>

Later(a, b) == IF a > b THEN a ELSE b

\* complete_run, inside the run executor: the roster is not touched yet.
FeederRecord ==
    /\ At(Feeder, "record")
    /\ lastSuccess' = Later(lastSuccess, now)
    /\ ledgered' = IF task[Feeder].listed = {} THEN ledgered
                   ELSE task[Feeder].no
    /\ Goto(Feeder, "wait")
    /\ UNCHANGED <<counts, now, stage, selected, lock, fetched, harvested,
                   applied, listings, faults>>

-----------------------------------------------------------------------------
(* The refresh coordinator. *)

\* Faulty variant: no single-flight lock.
EnterUnlocked(t) ==
    /\ At(t, "wait")
    /\ Goto(t, IF t = Feeder THEN "reconcile" ELSE "check")
    /\ UNCHANGED <<counts, lastSuccess, now, stage, selected, lock, history>>

\* refresh_if_stale and apply_listing both run under the roster's lock.
AcquireLock(t) ==
    /\ At(t, "wait")
    /\ lock = Nobody
    /\ lock' = t
    /\ Goto(t, IF t = Feeder THEN "reconcile" ELSE "check")
    /\ UNCHANGED <<counts, lastSuccess, now, stage, selected, history>>

IsRosterStale == lastSuccess = Never \/ now - lastSuccess > MaxAge

\* An empty roster is stale whatever the ledger says.
RefreshDue == counts = NoRows \/ IsRosterStale

\* The rows, the ledger and the clock are read; a fresh roster ends the call,
\* a due refresh opens a run.
CheckDue(t) ==
    /\ At(t, "check")
    /\ IF RefreshDue
       THEN /\ task' = [task EXCEPT ![t].pc = "harvest", ![t].seen = counts]
            /\ UNCHANGED lock
       ELSE /\ Goto(t, "read")
            /\ Unlock(t)
    /\ UNCHANGED <<counts, lastSuccess, now, stage, selected, history>>

\* Faulty variant: the run is completed as soon as the listing is fetched.
LedgerFirst(t) ==
    /\ At(t, "harvest")
    /\ Listing(t, "reconcile")
    /\ lastSuccess' = Later(lastSuccess, now)
    /\ ledgered' = fetched'
    /\ harvested' = fetched'
    /\ UNCHANGED <<counts, now, stage, selected, lock, applied, listings,
                   faults>>

\* The harvest, a network call under the lock: a listing, or a failure.
Harvest(t) ==
    /\ At(t, "harvest")
    /\ \/ Listing(t, "reconcile")
       \/ Goto(t, "fail") /\ UNCHANGED fetched
    /\ UNCHANGED <<counts, lastSuccess, now, stage, selected, lock, ledgered,
                   harvested, applied, listings, faults>>

\* Faulty variant: the harvest reconciles through the locking wrapper.
ReconcileRelocking(t) ==
    /\ At(t, "reconcile")
    /\ t = Feeder \/ lock = Nobody
    /\ task' = [task EXCEPT ![t].pc = "apply", ![t].seen = counts]
    /\ UNCHANGED <<counts, lastSuccess, now, stage, selected, lock, history>>

\* The reconcile guard, then the rows read: an empty listing raises, failing
\* the tapped feeder (its run stays succeeded) or the harvest.
ReconcileListing(t) ==
    /\ At(t, "reconcile")
    /\ IF task[t].listed # {}
       THEN /\ task' = [task EXCEPT ![t].pc = "apply", ![t].seen = counts]
            /\ UNCHANGED lock
       ELSE IF t = Feeder
       THEN /\ task' = [task EXCEPT ![t] = Off]
            /\ Unlock(t)
       ELSE /\ Goto(t, "fail")
            /\ UNCHANGED lock
    /\ UNCHANGED <<counts, lastSuccess, now, stage, selected, history>>

\* reconcile's three sets.
Evicted(rows, listed) ==
    {m \in DOMAIN rows \ listed :
        Threshold # NoThreshold /\ rows[m] + 1 > Threshold}

Missed(rows, listed) == (DOMAIN rows \ listed) \ Evicted(rows, listed)

Reset(rows, listed) ==
    (listed \ DOMAIN rows) \cup {m \in listed \cap DOMAIN rows : rows[m] # 0}

\* RosterStore.apply of the delta, one transaction: the upserts to zero, the
\* increments of whatever is stored by now, the deletions.
Applied(rows, seen, listed) ==
    [m \in (DOMAIN rows \cup Reset(seen, listed)) \ Evicted(seen, listed) |->
        IF m \in Reset(seen, listed) THEN 0
        ELSE IF m \in Missed(seen, listed) THEN rows[m] + 1
        ELSE rows[m]]

\* The tap ends there; a harvest still has its run to complete.
ApplyDelta(t) ==
    /\ At(t, "apply")
    /\ counts' = Applied(counts, task[t].seen, task[t].listed)
    /\ applied' = task[t].no
    /\ listings' = Append(listings, task[t].listed)
    /\ IF t = Feeder
       THEN /\ task' = [task EXCEPT ![t] = Off]
            /\ Unlock(t)
       ELSE /\ Goto(t, "complete")
            /\ UNCHANGED lock
    /\ UNCHANGED <<lastSuccess, now, stage, selected, fetched, ledgered,
                   harvested, faults>>

\* complete_run of the harvest, the store being written; the lock is released.
CompleteHarvest(t) ==
    /\ At(t, "complete")
    /\ lastSuccess' = Later(lastSuccess, now)
    /\ ledgered' = task[t].no
    /\ harvested' = task[t].no
    /\ Goto(t, "read")
    /\ Unlock(t)
    /\ UNCHANGED <<counts, now, stage, selected, fetched, applied, listings,
                   faults>>

\* A failed refresh marks its run failed (nothing reads it back) and degrades
\* to the rows it found; on a cold start there are none and it raises.
FailHarvest(t) ==
    /\ At(t, "fail")
    /\ task' = IF task[t].seen = NoRows THEN [task EXCEPT ![t] = Off]
               ELSE [task EXCEPT ![t].pc = "read"]
    /\ Unlock(t)
    /\ UNCHANGED <<counts, lastSuccess, now, stage, selected, history>>

\* read_members, off the lock, and the fan-out over them; an empty roster
\* raises.  Either way nothing of the roster changes any more.
ReadMembers(t) ==
    /\ At(t, "read")
    /\ task' = [task EXCEPT ![t] = Off]
    /\ UNCHANGED <<counts, lastSuccess, now, stage, selected, lock, history>>

-----------------------------------------------------------------------------
(* The environment. *)

CanFault == faults < MaxFaults

\* A state-database call raises sqlite3.DatabaseError, or a fetch something that
\* is no FleetpullError: nothing is written, the lock is released on the way out
\* and the endpoint ends with a bug; a bug in stage one skips stage two.
BugEscapes(t) ==
    /\ task[t].pc \in {"run", "record", "check", "harvest", "reconcile",
                       "apply", "complete", "read"}
    /\ CanFault
    /\ faults' = faults + 1
    /\ task' = [task EXCEPT ![t] = Off]
    /\ Unlock(t)
    /\ stage' = IF t = Feeder THEN "idle" ELSE stage
    /\ selected' = IF t = Feeder THEN {} ELSE selected
    /\ UNCHANGED <<counts, lastSuccess, now, fetched, ledgered, harvested,
                   applied, listings>>

\* The process dies: the rows and the ledger survive.
Crash ==
    /\ stage # "idle"
    /\ CanFault
    /\ faults' = faults + 1
    /\ stage' = "idle"
    /\ selected' = {}
    /\ lock' = Nobody
    /\ task' = [t \in Tasks |-> Off]
    /\ UNCHANGED <<counts, lastSuccess, now, fetched, ledgered, harvested,
                   applied, listings>>

Tick ==
    /\ now < LastTime
    /\ now' = now + 1
    /\ UNCHANGED <<counts, lastSuccess, stage, selected, lock, task, history>>

-----------------------------------------------------------------------------
Step(t) ==
    \/ AcquireLock(t) \/ CheckDue(t) \/ Harvest(t) \/ ReconcileListing(t)
    \/ ApplyDelta(t) \/ CompleteHarvest(t) \/ FailHarvest(t) \/ ReadMembers(t)
    \/ t = Feeder /\ (FeederRun \/ FeederRecord)

Next ==
    \/ StartSync \/ Barrier \/ EndSync
    \/ \E t \in Tasks : Step(t) \/ BugEscapes(t)
    \/ Crash
    \/ Tick

Spec == Init /\ [][Next]_vars

\* Threads are scheduled, and the queue joins its stages.  The lock itself is
\* owed no fairness: a task takes it once in an invocation.
FairSpec ==
    /\ Spec
    /\ WF_vars(Barrier)
    /\ \A t \in Tasks : WF_vars(Step(t))

-----------------------------------------------------------------------------
(* Properties. *)

Points == {"off", "run", "record", "wait", "check", "harvest", "fail",
           "reconcile", "apply", "complete", "read"}

Counts == 0 .. (IF Threshold = NoThreshold THEN MaxListings ELSE Threshold)

Rows == UNION {[names -> Counts] : names \in SUBSET Members}

\* The shape of every variable; no stored count is past the threshold.
TypeOK ==
    /\ counts \in Rows
    /\ lastSuccess \in {Never} \cup 0 .. now
    /\ now \in 0 .. LastTime
    /\ stage \in {"idle", "feeders", "consumers"}
    /\ selected \subseteq Tasks
    /\ lock \in Tasks \cup {Nobody}
    /\ task \in [Tasks -> [pc : Points, seen : Rows, listed : SUBSET Members,
                           no : 0 .. MaxListings]]
    /\ fetched \in 0 .. MaxListings
    /\ {ledgered, harvested, applied} \subseteq 0 .. fetched
    /\ Len(listings) \in 0 .. MaxListings
    /\ faults \in 0 .. MaxFaults

\* The number of reconciled listings after the last one that names m.
Absences(m) ==
    LET last == CHOOSE i \in DOMAIN listings :
                    /\ m \in listings[i]
                    /\ \A j \in DOMAIN listings : m \in listings[j] => j <= i
    IN  Len(listings) - last

Listed == UNION {listings[i] : i \in DOMAIN listings}

\* The stored roster is exactly what the reconciled listings say, in their
\* order: a member is there until it is missed more than Threshold times in a
\* row, with the count of its misses, however two refreshes, a tapped run and a
\* crash interleave (a lost increment or a resurrected member would show); and
\* once filled it is never empty again, whatever a feeder lists.
CountsFollowListings ==
    /\ TypeOK
    /\ counts = [m \in {n \in Listed : Threshold = NoThreshold
                                           \/ Absences(n) <= Threshold}
                     |-> Absences(m)]
    /\ listings # <<>> => counts # NoRows

\* Of several consumers of one stale roster only one harvests: whenever a
\* harvest is on its way, the roster still is due for one.
NoRedundantHarvest ==
    \A t \in Consumers : At(t, "harvest") => RefreshDue

\* A harvest's success is never in the ledger before its listing is in the
\* roster, so a crash between the two re-harvests.
HarvestStoredBeforeLedgered == harvested <= applied

\* "A user-initiated feeder run can never advance the ledger without
\* reconciling the roster": no feeder run being under way, the newest listing
\* the ledger vouches for is in the roster.
FeederReconciledWhenLedgered == At(Feeder, "off") => ledgered <= applied

\* Every call returns: nobody waits for the roster's lock for ever, also when
\* the refresh under it fails.
EveryRefreshReturns ==
    \A t \in Tasks : At(t, "wait") ~> At(t, "off")
=============================================================================
