------------------------------ MODULE SyncQueues ------------------------------
(***************************************************************************)
(* One sync after another (api/sync.py): the configuration is loaded and   *)
(* its selection validated, the state database verified and migrated       *)
(* (state/database.py, state/migrations.py), one client and one fetch pool *)
(* opened per enabled provider (network/client/registry_base.py), and the  *)
(* selected endpoints run as one queue per provider, the feeders of        *)
(* rosters first.  Operational failures are collected; a bug stops what    *)
(* has not started and is raised again at the end.                         *)
(*                                                                         *)
(* What an endpoint's run does inside is EndpointRunner's and              *)
(* RosterRefresh's; here it ends well, with a failure, or with a bug.  The *)
(* process may die anywhere; only the database file outlives it.           *)
(***************************************************************************)
EXTENDS Catalog, SequencesExt

CONSTANTS
    Documents,      \* configuration files the operator may write
    Environments,   \* sets of providers whose credential variable is set
    Files,          \* what the state path may hold at first
    HeadVersion,    \* the newest migration this code knows
    MaxInvocations  \* bound: syncs started

ASSUME SyncAssumption ==
    /\ HeadVersion \in Nat \ {0} /\ MaxInvocations \in Nat
    /\ \A e \in Environments : e \subseteq Providers
    /\ \A d \in Documents : \A p \in Providers :
          d[p].endpoints \in Seq(STRING)
    /\ Files \subseteq [stamp : {"none", "fleetpull", "other"}, wal : BOOLEAN,
                        sound : BOOLEAN, version : Nat, schema : SUBSET Nat]

VARIABLES
    file,        \* the state database: stamp, journal, soundness, schema
    transaction, \* the file as the open transaction sees it, or Closed
    at,          \* where the invocation is
    selection,   \* the endpoints selected, by provider, in the file's order
    opened,      \* the resources open, in the order they were opened
    published,   \* the registries that hand resources out
    stage,       \* where each provider's queue is
    task,        \* how far each selected endpoint is
    stopped,     \* providers whose stop event is set
    collected,   \* the failures each queue has reported, or the bug it died of
    outcome,     \* what the invocation ended with
    invocations

vars == <<file, transaction, at, selection, opened, published, stage, task,
          stopped, collected, outcome, invocations>>

\* Where e stands in a sequence.
Index(seq, e) == CHOOSE i \in DOMAIN seq : seq[i] = e

ProviderOrder == <<Motive, Geotab, Samsara>>
Place(p) == Index(ProviderOrder, p)

Absent == [endpoints |-> <<>>, credential |-> "null"]
Closed == [stamp |-> "closed", wal |-> FALSE, sound |-> FALSE, version |-> 0,
           schema |-> {}]
Ended(kind, failures) == [kind |-> kind, failures |-> failures]
NoReport == Ended("none", <<>>)

-----------------------------------------------------------------------------
(* Configuration.                                                          *)

\* A literal in the file wins; the environment supplies a key that is not
\* there; one that is there and null, or a GeoTab section without its account,
\* is not completed.
Credentialed(provider, section, environment) ==
    \/ section.credential = "literal"
    \/ section.credential = "missing" /\ provider \in environment

\* FleetpullConfig's validation: no endpoint twice, no endpoints without a
\* credential.  A credential without endpoints is a disabled provider.
ValidDocument(document, environment) ==
    \A p \in Providers :
        /\ IsInjective(document[p].endpoints)
        /\ document[p].endpoints # <<>> =>
              Credentialed(p, document[p], environment)

\* Sync's own: every name is in the catalog, and something is selected.
ValidSelection(document) ==
    /\ \A p \in Providers : \A n \in ToSet(document[p].endpoints) :
          Registered(p, n)
    /\ \E p \in Providers : document[p].endpoints # <<>>

Enabled == {p \in Providers : selection[p] # <<>>}

Pairs(sel) == UNION {{p} \X ToSet(sel[p]) : p \in Providers}

\* The endpoints that feed a roster are a provider's first stage, the rest its
\* second.
Feeds(t) == SourcedBy(t[1], t[2]) # {}

-----------------------------------------------------------------------------
Init ==
    /\ file \in Files
    /\ transaction = Closed
    /\ at = "idle"
    /\ selection = [p \in Providers |-> <<>>]
    /\ opened = <<>> /\ published = {}
    /\ stage = [p \in Providers |-> "none"]
    /\ task = <<>>
    /\ stopped = {}
    /\ collected = [p \in Providers |-> NoReport]
    /\ outcome = NoReport
    /\ invocations = 0

\* The process's memory, as a new process finds it.
Forget ==
    /\ transaction' = Closed
    /\ opened' = <<>> /\ published' = {}
    /\ stage' = [p \in Providers |-> "none"]
    /\ stopped' = {}
    /\ collected' = [p \in Providers |-> NoReport]

queueVars == <<stage, task, stopped, collected>>
resourceVars == <<opened, published>>

Raise(kind) == at' = "ended" /\ outcome' = Ended(kind, <<>>)

-----------------------------------------------------------------------------
(* Sync.__init__ and the database.                                         *)

\* A new process reads its configuration, and refuses it or goes on.
Construct ==
    /\ at \in {"idle", "ended"} /\ invocations < MaxInvocations
    /\ invocations' = invocations + 1
    /\ Forget
    /\ \E document \in Documents, environment \in Environments :
          IF ValidDocument(document, environment) /\ ValidSelection(document)
          THEN /\ at' = "stamp" /\ outcome' = NoReport
               /\ selection' = [p \in Providers |-> document[p].endpoints]
               /\ task' = [t \in Pairs(selection') |-> "waiting"]
          ELSE /\ Raise("refused")
               /\ selection' = [p \in Providers |-> <<>>]
               /\ task' = <<>>
    /\ UNCHANGED file

\* The application id: a file without one becomes ours, another's is refused.
StampOrVerify ==
    /\ at = "stamp"
    /\ IF file.stamp = "other"
       THEN Raise("refused") /\ UNCHANGED file
       ELSE /\ file' = [file EXCEPT !.stamp = "fleetpull"]
            /\ at' = "wal" /\ UNCHANGED outcome
    /\ UNCHANGED <<transaction, selection, resourceVars, queueVars, invocations>>

\* The journal mode is set and read back; a network filesystem keeps its own.
EnableWal ==
    /\ at = "wal"
    /\ \/ file' = [file EXCEPT !.wal = TRUE] /\ at' = "check" /\ UNCHANGED outcome
       \/ ~file.wal /\ Raise("refused") /\ UNCHANGED file
    /\ UNCHANGED <<transaction, selection, resourceVars, queueVars, invocations>>

VerifyQuickCheck ==
    /\ at = "check"
    /\ IF file.sound THEN at' = "version" /\ UNCHANGED outcome
       ELSE Raise("refused")
    /\ UNCHANGED <<file, transaction, selection, resourceVars, queueVars, invocations>>

\* migrate_to_head: a schema of a later release is refused.
ReadVersion ==
    /\ at = "version"
    /\ IF file.version > HeadVersion THEN Raise("refused")
       ELSE at' = "migrate" /\ UNCHANGED outcome
    /\ UNCHANGED <<file, transaction, selection, resourceVars, queueVars, invocations>>

BeginMigration ==
    /\ at = "migrate" /\ file.version < HeadVersion
    /\ at' = "apply" /\ transaction' = file
    /\ UNCHANGED <<file, selection, resourceVars, queueVars, outcome, invocations>>

\* Faulty variant: the connection is left in implicit-transaction mode, the
\* statements commit by themselves.
ApplyAutocommitted ==
    /\ at = "apply"
    /\ file' = [file EXCEPT !.schema = @ \union {file.version + 1}]
    /\ transaction' = file'
    /\ at' = "bump"
    /\ UNCHANGED <<selection, resourceVars, queueVars, outcome, invocations>>

\* The step's own statements, inside the transaction.
ApplyMigration ==
    /\ at = "apply"
    /\ transaction' =
          [transaction EXCEPT !.schema = @ \union {transaction.version + 1}]
    /\ at' = "bump"
    /\ UNCHANGED <<file, selection, resourceVars, queueVars, outcome, invocations>>

BumpVersion ==
    /\ at = "bump"
    /\ transaction' = [transaction EXCEPT !.version = @ + 1]
    /\ at' = "commit"
    /\ UNCHANGED <<file, selection, resourceVars, queueVars, outcome, invocations>>

CommitMigration ==
    /\ at = "commit"
    /\ file' = transaction /\ transaction' = Closed
    /\ at' = "migrate"
    /\ UNCHANGED <<selection, resourceVars, queueVars, outcome, invocations>>

\* A statement fails: the step is rolled back, the error leaves the sync.
FailMigration ==
    /\ at \in {"apply", "bump", "commit"}
    /\ transaction' = Closed /\ Raise("broken")
    /\ UNCHANGED <<file, selection, resourceVars, queueVars, invocations>>

AtHead ==
    /\ at = "migrate" /\ file.version = HeadVersion
    /\ at' = "open"
    /\ UNCHANGED <<file, transaction, selection, resourceVars, queueVars, outcome, invocations>>

-----------------------------------------------------------------------------
(* The clients and the fetch pools, one of each per enabled provider.      *)

\* What the two registries have yet to open, and in which order: the clients
\* before the pools, each by provider.
Unopened == ({"clients", "pools"} \X Enabled) \ ToSet(opened)
OpensBefore(r, s) ==
    \/ r[1] = "clients" /\ s[1] = "pools"
    \/ r[1] = s[1] /\ Place(r[2]) < Place(s[2])

\* ProviderResourceRegistry.__enter__: one resource more; the registry is
\* published once its last one is open.
OpenResource ==
    /\ at = "open"
    /\ \E r \in Unopened :
          /\ \A s \in Unopened \ {r} : OpensBefore(r, s)
          /\ opened' = Append(opened, r)
          /\ published' = IF \A s \in Unopened \ {r} : s[1] # r[1]
                          THEN published \union {r[1]} ELSE published
    /\ UNCHANGED <<file, transaction, at, selection, queueVars, outcome, invocations>>

\* Faulty variant: the error leaves without unwinding.
FailOpenAndLeak ==
    /\ at = "open" /\ Unopened # {}
    /\ Raise("broken")
    /\ UNCHANGED <<file, transaction, selection, resourceVars, queueVars, invocations>>

\* A resource cannot be opened: what is open is released again.
FailOpen ==
    /\ at = "open" /\ Unopened # {}
    /\ at' = "close" /\ outcome' = Ended("broken", <<>>)
    /\ UNCHANGED <<file, transaction, selection, resourceVars, queueVars, invocations>>

\* Every queue is handed to its thread.
SubmitQueues ==
    /\ at = "open" /\ Unopened = {}
    /\ at' = "running"
    /\ stage' = [p \in Providers |->
                    IF selection[p] = <<>> THEN "none" ELSE "feeders"]
    /\ UNCHANGED <<file, transaction, selection, resourceVars, task, stopped,
                   collected, outcome, invocations>>

\* __exit__: a registry stops handing out before it releases, the last opened
\* first.
ReleaseResource ==
    /\ at = "close" /\ opened # <<>>
    /\ IF Last(opened)[1] \in published
       THEN published' = published \ {Last(opened)[1]} /\ UNCHANGED opened
       ELSE opened' = Front(opened) /\ UNCHANGED published
    /\ UNCHANGED <<file, transaction, at, selection, queueVars, outcome, invocations>>

-----------------------------------------------------------------------------
(* The queues.                                                             *)

\* The tasks of a provider's stage under way.
StageTasks(p) ==
    {t \in DOMAIN task :
        t[1] = p /\ stage[p] = IF Feeds(t) THEN "feeders" ELSE "consumers"}

\* Faulty variant: a stopped queue's task waits instead of skipping.
StartUnlessStopped(t) ==
    /\ at = "running" /\ t \in StageTasks(t[1]) /\ task[t] = "waiting"
    /\ t[1] \notin stopped
    /\ task' = [task EXCEPT ![t] = "running"]
    /\ UNCHANGED <<file, transaction, at, selection, resourceVars, stage, stopped,
                   collected, outcome, invocations>>

\* A task's thread: skip when a sibling's bug has stopped the queue.
StartTask(t) ==
    /\ at = "running" /\ t \in StageTasks(t[1]) /\ task[t] = "waiting"
    /\ task' = [task EXCEPT ![t] = IF t[1] \in stopped THEN "skipped" ELSE "running"]
    /\ UNCHANGED <<file, transaction, at, selection, resourceVars, stage, stopped,
                   collected, outcome, invocations>>

\* The run returns, or raises an operational failure, which is kept.
EndTask(t) ==
    /\ task[t] = "running"
    /\ \E end \in {"succeeded", "failed"} : task' = [task EXCEPT ![t] = end]
    /\ UNCHANGED <<file, transaction, at, selection, resourceVars, stage, stopped,
                   collected, outcome, invocations>>

\* Faulty variant: the exception leaves without setting the event.
CatchBugQuietly(t) ==
    /\ task[t] = "running"
    /\ task' = [task EXCEPT ![t] = "raising"]
    /\ UNCHANGED <<file, transaction, at, selection, resourceVars, stage, stopped,
                   collected, outcome, invocations>>

\* Any other exception: the stop event is set, then it leaves the task.
CatchBug(t) ==
    /\ task[t] = "running"
    /\ task' = [task EXCEPT ![t] = "raising"]
    /\ stopped' = stopped \union {t[1]}
    /\ UNCHANGED <<file, transaction, at, selection, resourceVars, stage,
                   collected, outcome, invocations>>

RaiseBug(t) ==
    /\ task[t] = "raising"
    /\ task' = [task EXCEPT ![t] = "bug"]
    /\ UNCHANGED <<file, transaction, at, selection, resourceVars, stage, stopped,
                   collected, outcome, invocations>>

TaskEnded(t) == task[t] \in {"succeeded", "failed", "skipped", "bug"}

\* The tasks of a stage that ended so, and the order they were queued in.
Ending(p, end) == {t \in StageTasks(p) : task[t] = end}
QueuedBefore(s, t) ==
    Index(selection[s[1]], s[2]) < Index(selection[t[1]], t[2])

\* Faulty variant: the second stage's failures replace the first's.
JoinStageAfresh(p) ==
    /\ at = "running" /\ stage[p] \in {"feeders", "consumers"}
    /\ \A t \in StageTasks(p) : TaskEnded(t)
    /\ \/ \E bug \in Ending(p, "bug") :
             /\ \A t \in Ending(p, "bug") \ {bug} : QueuedBefore(bug, t)
             /\ collected' = [collected EXCEPT ![p] = Ended("bug", <<bug>>)]
             /\ stage' = [stage EXCEPT ![p] = "joined"]
       \/ /\ Ending(p, "bug") = {}
          /\ \E failures \in SetToSeqs(Ending(p, "failed")) :
                /\ \A i, j \in DOMAIN failures :
                      i < j => QueuedBefore(failures[i], failures[j])
                /\ collected' = [collected EXCEPT ![p].failures = failures]
          /\ stage' = [stage EXCEPT
                 ![p] = IF @ = "feeders" THEN "consumers" ELSE "joined"]
    /\ UNCHANGED <<file, transaction, at, selection, resourceVars, task, stopped,
                   outcome, invocations>>

\* The stage is joined and drained in queue order: its first bug is the end of
\* the queue, else its failures are added and the next stage starts.
JoinStage(p) ==
    /\ at = "running" /\ stage[p] \in {"feeders", "consumers"}
    /\ \A t \in StageTasks(p) : TaskEnded(t)
    /\ \/ \E bug \in Ending(p, "bug") :
             /\ \A t \in Ending(p, "bug") \ {bug} : QueuedBefore(bug, t)
             /\ collected' = [collected EXCEPT ![p] = Ended("bug", <<bug>>)]
             /\ stage' = [stage EXCEPT ![p] = "joined"]
       \/ /\ Ending(p, "bug") = {}
          /\ \E failures \in SetToSeqs(Ending(p, "failed")) :
                /\ \A i, j \in DOMAIN failures :
                      i < j => QueuedBefore(failures[i], failures[j])
                /\ collected' = [collected EXCEPT ![p].failures = @ \o failures]
          /\ stage' = [stage EXCEPT
                 ![p] = IF @ = "feeders" THEN "consumers" ELSE "joined"]
    /\ UNCHANGED <<file, transaction, at, selection, resourceVars, task, stopped,
                   outcome, invocations>>

\* Every queue has joined; pools and clients are closed before the drain.
JoinQueues ==
    /\ at = "running"
    /\ \A p \in Enabled : stage[p] = "joined"
    /\ at' = "close"
    /\ UNCHANGED <<file, transaction, selection, resourceVars, queueVars, outcome,
                   invocations>>

\* The first bug in provider order is raised again; without one the failures
\* are, in provider order.
Drained ==
    LET Queue(i) == collected[ProviderOrder[i]]
        bugs == {i \in 1..3 : Queue(i).kind = "bug"}
        failures == Queue(1).failures \o Queue(2).failures \o Queue(3).failures
    IN  IF bugs # {} THEN Queue(Min(bugs))
        ELSE IF failures # <<>> THEN Ended("failures", failures)
        ELSE Ended("succeeded", <<>>)

CollectFailures ==
    /\ at = "close" /\ opened = <<>>
    /\ at' = "ended"
    /\ outcome' = IF outcome = NoReport THEN Drained ELSE outcome
    /\ UNCHANGED <<file, transaction, selection, resourceVars, queueVars, invocations>>

\* The process dies: SQLite rolls an open transaction back.
Crash ==
    /\ at \notin {"idle", "ended"}
    /\ at' = "idle" /\ Forget
    /\ selection' = [p \in Providers |-> <<>>] /\ task' = <<>>
    /\ outcome' = NoReport
    /\ UNCHANGED <<file, invocations>>

-----------------------------------------------------------------------------
\* What goes on by itself once an invocation has started.
Proceed ==
    \/ StampOrVerify \/ EnableWal \/ VerifyQuickCheck \/ ReadVersion
    \/ BeginMigration \/ ApplyMigration \/ BumpVersion \/ CommitMigration
    \/ FailMigration \/ AtHead
    \/ OpenResource \/ FailOpen \/ SubmitQueues \/ ReleaseResource
    \/ \E t \in DOMAIN task : StartTask(t) \/ EndTask(t) \/ CatchBug(t) \/ RaiseBug(t)
    \/ \E p \in Providers : JoinStage(p)
    \/ JoinQueues \/ CollectFailures

Next == Construct \/ Crash \/ Proceed

Spec == Init /\ [][Next]_vars

\* A thread that can take a step takes one: endpoints' runs end (EveryRunEnds of
\* EndpointRunner, EventuallyCovered of WatermarkSync), the pools are as wide as
\* the stages, so no task waits for a thread.
FairSpec == Spec /\ WF_vars(Proceed)

-----------------------------------------------------------------------------
TypeOK ==
    /\ file.stamp \in {"none", "fleetpull", "other"}
    /\ {file.wal, file.sound} \subseteq BOOLEAN /\ file.version \in Nat
    /\ at \in {"idle", "stamp", "wal", "check", "version", "migrate", "apply",
               "bump", "commit", "open", "running", "close", "ended"}
    /\ selection \in [Providers -> Seq(STRING)]
    /\ ToSet(opened) \subseteq {"clients", "pools"} \X Providers
    /\ published \subseteq {"clients", "pools"}
    /\ stage \in [Providers -> {"none", "feeders", "consumers", "joined"}]
    /\ DOMAIN task = Pairs(selection)
    /\ \A t \in DOMAIN task :
          task[t] \in {"waiting", "running", "raising", "succeeded", "failed",
                       "skipped", "bug"}
    /\ stopped \subseteq Providers
    /\ outcome.kind \in {"none", "refused", "broken", "bug", "failures", "succeeded"}
    /\ invocations \in 0..MaxInvocations

\* The schema only ever moves by one whole migration with its version, and only
\* in a file that is ours, sound and not newer than the code: no crash, failing
\* statement or refusal leaves half a step, and a refused file is as it was
\* (state/migrations.py:331, state/database.py:214).
WholeMigrations ==
    [][<<file.schema, file.version>>' # <<file.schema, file.version>> =>
          /\ file.stamp = "fleetpull" /\ file.sound /\ file.wal
          /\ file.version < HeadVersion
          /\ file.version' = file.version + 1
          /\ file.schema' = file.schema \union {file.version'}]_vars

\* A running endpoint has its provider's client and pool, published and open,
\* to its end; an invocation that has returned, however, holds none
\* (network/client/registry_base.py:91, api/sync.py:252).
ResourcesOutliveTheirUse ==
    /\ TypeOK
    /\ \A t \in DOMAIN task : task[t] \in {"running", "raising"} =>
          \A r \in {"clients", "pools"} :
              r \in published /\ <<r, t[1]>> \in ToSet(opened)
    /\ at \in {"idle", "ended"} => opened = <<>> /\ published = {}

\* Once a bug has left its task nothing of that provider starts any more, in
\* the stage or the one after, and a consumer never starts before every feeder
\* has ended; other providers' queues go on (api/sync.py:597, :619).
NothingStartsAfterABug ==
    [][\A t \in DOMAIN task :
          t \in DOMAIN task' /\ task[t] = "waiting" /\ task'[t] = "running" =>
              \A s \in DOMAIN task : s[1] = t[1] =>
                  /\ task[s] # "bug"
                  /\ Feeds(s) /\ ~Feeds(t) =>
                        task[s] \in {"succeeded", "failed"}]_vars

\* The order reports are made in: by provider, by stage, by place in the file.
ReportedBefore(s, t) ==
    \/ Place(s[1]) < Place(t[1])
    \/ s[1] = t[1] /\ Feeds(s) /\ ~Feeds(t)
    \/ s[1] = t[1] /\ (Feeds(s) <=> Feeds(t)) /\ QueuedBefore(s, t)

\* The operator is told exactly what happened: success only when every selected
\* endpoint succeeded; a failure report when the others did and no bug escaped,
\* with every failure once and in the documented order, whatever the order they
\* happened in; and with bugs the first by that order (api/sync.py:532, :667).
ReportExact ==
    LET Of(end) == {t \in DOMAIN task : task[t] = end} IN
    /\ outcome.kind = "succeeded" => DOMAIN task = Of("succeeded")
    /\ outcome.kind = "failures" =>
          /\ DOMAIN task = Of("succeeded") \union Of("failed")
          /\ ToSet(outcome.failures) = Of("failed")
          /\ \A i, j \in DOMAIN outcome.failures : i < j =>
                ReportedBefore(outcome.failures[i], outcome.failures[j])
    /\ outcome.kind = "bug" =>
          LET first == Head(outcome.failures) IN
          /\ first \in Of("bug")
          /\ \A t \in Of("bug") \ {first} : ReportedBefore(first, t)

\* Every sync returns: no queue, stage or unwinding waits for ever
\* (api/sync.py:558, :284).
EveryInvocationReturns ==
    at \notin {"idle", "ended"} ~> at \in {"idle", "ended"}
=============================================================================
