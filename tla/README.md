# fleetpull in TLA+

fleetpull pulls telematics data from several providers (GeoTab, Motive,
Samsara) into partitioned Parquet files, incrementally and with many threads,
and resumes after any failure from a small SQLite state database. This
directory holds TLA+ models of the parts where that can go wrong, TLC
configurations that check them, and TLAPS proofs of all their safety
properties. All paths below are under `src/src/fleetpull/` unless they say
otherwise.

    tlc -workers 2 -config Watermark.cfg MCWatermarkSync
    tlapm WatermarkSyncProofs.tla

`PROJECT.json` lists the runs, the lines every definition models (`map`), the
hazards with the properties that would catch them, the mutants that show each
property can fail, the theorems and the findings.

## 1. The system

### Parts, state, operations

| Part | State | Operations | What makes it correct |
|---|---|---|---|
| Watermark drive (`orchestrator/watermark_drive.py`, `unit_loop.py`, `backfill.py`, `batch.py`) | phase of the invocation, stop signal, one unit per worker, futures | heal the prefix, drain leftovers, resolve the residual, release and enqueue, drive the units | the watermark vouches only for days on disk; nothing is skipped; one writer per day |
| Work-unit queue (`state/work_units.py`) | `work_units` rows | enqueue, release done, reset claimed, claim, mark done, mark failed, prefix observation | a unit is held once; claims come back after a death; re-covered days can be planned again |
| Cursor store (`state/cursors.py`) | one row per endpoint: watermark or feed token | guarded upsert of the watermark, token commit | the watermark never goes back |
| Run ledger (`state/run_ledger.py`) | `runs` rows | start, complete, fail; coverage frontier, last success | resume from the frontier leaves no hole |
| Resume and windows (`orchestrator/resume.py`, `incremental/`) | none | watermark, frontier or seed; lookback, cutoff | the window covers everything that may be missing |
| Feed drive (`orchestrator/feed_drive.py`, `storage/append.py`, `storage/atomic.py`) | part files, directories, token | fetch page, append parts durably, commit token | no token past unwritten data; append-only; one page at most twice |
| Partitioned writer (`storage/partitioned.py`, `staging.py`, `pruning.py`, `splitting.py`) | `date=` directories, `part.parquet`, `staging/` shards | sweep, stage, compact, clear, prune | the window is replaced as a whole, and nothing else |
| Snapshot writer (`storage/single_file.py`, `frames.py`) | one file | atomic rewrite | old or new frame, never half of one |
| Roster refresh (`orchestrator/roster_refresh.py`, `entry.py`, `state/reconcile.py`, `rosters.py`) | `rosters` rows, one lock per roster | refresh if stale, tap of a feeder run, reconcile | counts follow the listings; one harvest; never emptied |
| Provider queues (`api/sync.py`) | two stages, a bug-stop event, the failures | run feeders, then consumers; collect failures | a failure stays its endpoint's; a bug stops what has not started |
| Fan-out channel and pool (`orchestrator/fanout.py`, `executors.py`, `drivers.py`) | futures, window | submit, take the oldest, unwind | serial order, bounded lead, no straggler |
| Rate limiter (`network/limits/`) | tokens, slots, pause | request slot, penalize | the provider's budget holds; pauses only grow |
| Transport and retry (`network/client/transport.py`, `network/retry/`) | three failure counters per page | fetch, classify, retry | bounded attempts; only public errors |
| GeoTab session (`network/auth/`) | cached session, generation, lock; last prepared per thread | get, invalidate, authenticate | one login per expiry; blame the right generation |
| Page decoders (`network/decoders/`) | none | verdict on a page: next request or end | page walks end, lose and double nothing |
| Classifiers (`network/classifiers/`) | none | category of an answer | an answer is never read as another kind |
| Request drivers (`orchestrator/drivers.py`, `streaming.py`) | the chain in hand | walk chains, filter to the window, check the count | a run's rows are the provider's records, each once |
| Bisecting driver (`orchestrator/bisection.py`) | none (recursion) | halve a window that is too full | every record once; recursion ends |
| Registries (`network/client/registry_base.py` ...) | resources by provider | open all or none, close | no leak on a failing open |
| Runner, spine, recording, metadata (`orchestrator/`, `storage/metadata.py`) | none of their own | dispatch, fail-safe recording, projection | a failing record never hides the failure |
| State database, migrations (`state/database.py`, `migrations.py`) | the file | transaction, migrate | a transaction is all or nothing |
| Endpoint definitions, rosters (`endpoints/`, `roster/`) | static | declare mode, decoder, shape, roster; refuse impossible ones | every declaration can be run as declared |
| Configuration (`config/`) | read once | credentials from file or environment, validation | a provider is enabled exactly as written |
| Models, records, catalog, paths, logging | static or per call | bindings and conversion | data, no control over time |

### How they interact

`api/sync.py` runs one queue per provider: first the roster feeders, then
everything else, on threads. Each endpoint goes through `runner.py` to the arm
of its mode: watermark, feed or snapshot. A watermark run is itself several
workers sharing the queue, the ledger and the cursor through SQLite, one
transaction per call, no transaction over two calls. A consumer with a roster
asks the refresh coordinator first, which may harvest the feeder under the
roster's lock. A unit fetches through the fan-out channel on the provider's
pool, whose threads share one limiter per quota scope and, for GeoTab, one
session. Whatever is fetched goes to the writer of the arm, and only then do the
done-mark and the cursor move.

### What is hard

* *Several transactions that are one idea*: ledger success, done-mark, prefix
  read, cursor commit; release and enqueue; roster read, reconcile, write.
  Siblings and process deaths come between any two of them.
* *Out-of-order completion* of units and pieces under in-order promises.
* *Durability*: some renames are fsynced and some are not; SQLite always is.
* *Waiting*: a non-reentrant roster lock, a session lock held over an HTTP
  call, a pool shared by streams whose windows are larger than it, a semaphore
  with a timed wait.
* *Clocks*: lookback, cutoff, a clock set back, a penalty that ends while
  another is asked for.

## 2. Modules and the code

| Module | Models | Extended / instantiated by |
|---|---|---|
| `CoverageLog` | what the watermark arm promises: a log of covered days with a mark that only grows and never passes an uncovered day | `WatermarkSync` (INSTANCE, refinement) |
| `WatermarkSync` | watermark drive, queue, cursor, frontier, resume, window resolution | `MCWatermarkSync`, `WatermarkPowerLoss`, the proofs |
| `WatermarkPowerLoss` | the same on a machine that may lose power | run directly |
| `WatermarkSyncProofs`, `EndpointRunnerProofs`, `SyncQueuesProofs`, `RosterRefreshProofs`, `PartitionedWriterProofs`, `FanOutChannelProofs`, `SessionFetchProofs`, `QuotaLimiterProofs` | the theorems about each module and their proofs (section 4) | |
| `Catalog` | the 38 endpoint declarations, the rosters, what construction refuses (constants only) | `Harvest`, `SyncQueues` |
| `Harvest` | one snapshot run or window unit of any endpoint: drivers, decoders, bisection, window filter, completeness check, landing, ledger, metadata | `EndpointRunner` |
| `FeedDrive` | feed drive, append writer, durable rename, token | `EndpointRunner`, `MCFeedDrive` |
| `EndpointRunner` | the dispatch of an endpoint to its arm: `Harvest` and `FeedDrive` composed | `MCEndpointRunner` |
| `SyncQueues` | a sync from configuration to report: database checks, migrations, registries, staged queues, collected failures | `MCSyncQueues` |
| `RosterRefresh` | coordinator, tap, reconcile, roster rows, the two stages as the roster sees them | `MCRosterRefresh` |
| `PartitionedWriter` | sweep, stage, compact, clear, prune | `MCPartitionedWriter` |
| `SerialLoop` | what a fan-out promises its consumer: the plain loop over the pieces | `FanOutChannel` (INSTANCE, refinement) |
| `FanOutChannel` | streams, windows, one shared pool | `MCFanOutChannel` |
| `QuotaLimiter` | bucket, semaphore, pause, and the transport's use of them | `MCQuotaLimiter` |
| `Responses` | what an answer's status and body mean to each provider's client (constants only) | `SessionFetch` |
| `SessionFetch` | retry loop, static key or prepared session, session manager, login | `MCSessionFetch` |

The modules meet where one is a single step of another: `SyncQueues` runs an
endpoint in one step that ends well, fails or hits a bug; `EndpointRunner` is
that step taken apart for a snapshot, a feed, or one unit of a watermark
endpoint; `WatermarkSync` is the whole watermark endpoint with a unit's fetch and
write in one step; `PartitionedWriter` takes that write apart, `FanOutChannel`
the fetching of pieces, `SessionFetch` and `QuotaLimiter` the fetching of a page.

The `MC` modules only add the sets a configuration needs. Definitions marked
"Faulty variant" are not part of any specification: they are plausible mistakes,
one or more per property, and `PROJECT.json` names the definition each stands in
for.

**WatermarkSync.** Time is in whole days. `units` is the `work_units` table keyed
by the natural key (the window), with status, `unit_id` order and
`observed_max`; `watermark` is the cursor, `frontier` the maximum `window_end`
of succeeded runs. One action is one state-database call. The main thread:
`StartRun` (the reset of claimed rows), `HealPrefix`, `JoinLeftover`,
`ResolveResidual` (the resume chain, lookback, cutoff and both clock guards),
`ReleaseDone`, `EnqueuePlan` (`Tiles` is `plan_backfill_units`), `JoinResidual`.
A worker: `CheckStop`, `ClaimNext`, `WriteWindow`, `CompleteRun`, `MarkDone`,
`ReadPrefix`, `AdvanceForward`, or `MarkFailed` after the stop signal. The faults: a unit
that raises (`FailUnit`), a state-database call that raises (`StoreError`), a
process death anywhere (`Crash`), a clock set back (`ClockSetBack`). The history
variables `landed` and `refetched` say which days are on disk; no action looks
at them. Fetch and write of a unit are one step here; `PartitionedWriter` and
`FanOutChannel` take that step apart.

**Catalog.** One constant per endpoint leaf, built with the same few builders the
leaves use (`Snapshot`, `Watermarked`, `Report`, `Feed`), and what
`EndpointDefinition` refuses to construct, which an `ASSUME` evaluates for all
38, together with a few facts that construction leaves open and every leaf
keeps. Of a declaration the fields that decide behaviour are kept.

**Harvest.** Init picks an endpoint (a `Cell`: the behaviour-relevant part of a
declaration), and where the provider's records lie in time. `StartHarvest`
makes the request chains of the shape; `HarvestPage` is one request, decoded
(`SeekPage`, `OffsetPage`, `CursorPage`, `SeriesPage`, `SinglePage`), filtered to
the window and handed to the writer; `FetchLeaf`, `HalveWindow`, `TooDense` are
the bisection; `CheckCount` and `Mismatch` the completeness check; then `Land`,
`CompleteRun`, `Project`. `Edit` changes the provider's records between any two
requests, `Fault` fails a request, a write, or the process, `ProjectionFault`
the metadata file. `PageSize` scales all page limits down, `Span` ticks are a
unit.

**FeedDrive.** The provider's stream is a growing sequence of records with
versions; a page is the records after a version, `ResultsLimit` of them if there
are as many. `FetchPage` has the decoder's verdict (a short page is the last),
`RenamePart` the part number read from the directory and the rename,
`OpenPartition` and `SyncDirectory` the steps of the fsync chain, and
`CommitToken` the token. A file-system entry is either synced or not;
`PowerLoss` keeps any subset of what is not.

**EndpointRunner.** Both arms with the dispatch on the mode; a behaviour runs one
endpoint, any of the catalog's.

**SyncQueues.** `Construct` is the configuration (`Credentialed`,
`ValidDocument`, `ValidSelection`); `StampOrVerify`, `EnableWal`,
`VerifyQuickCheck`, `ReadVersion` the checks of the database file;
`BeginMigration` to `CommitMigration` one migration, statement by statement in
its transaction; `OpenResource`, `FailOpen`, `ReleaseResource` the two
registries; `StartTask` (with the skip), `EndTask`, `CatchBug`, `RaiseBug`,
`JoinStage` a provider's queue; `JoinQueues`, `CollectFailures` the end. `Crash`
leaves only the file.

**RosterRefresh.** One roster, its feeder and its consumers. `AcquireLock`,
`CheckDue`, `Harvest`, `ReconcileListing` (guard and read), `ApplyDelta` (the
write), `CompleteHarvest` or `FailHarvest`, `ReadMembers` for a consumer;
`FeederRun` and `FeederRecord` for a selected feeder, whose tap takes the same
lock. `Barrier` joins stage one; `BugEscapes` is an exception of another type.

**PartitionedWriter.** Each file-system call is a step: remove `staging/`,
remove the directory if it is empty, write the shards of a piece, rename the
compacted part, clear, remove a stale directory. Writers over disjoint windows
share the directory, the provider edits meanwhile.

**FanOutChannel.** `Prime`, `TakeOldest` (with the refill before the yield),
`Yield`, `Finish`, and the unwinding `CancelOutstanding` (one queued piece after
the other, oldest first, while workers go on starting pieces) and
`JoinOutstanding`; the pool's `StartPiece` and `EndPiece`. A cancelled piece stays
in the executor's queue until a worker meets and skips it.

**QuotaLimiter.** `AcquireSlot` (the semaphore), `Consume` (one turn of the loop:
pause, refill, token or timed wait), `Wake` (timeout, or notified by a penalty), `Answer` and
`Penalize`. Tokens are counted in fractions so that the arithmetic is exact.

**Responses.** The classifiers as tables over statuses and bodies, with the
transport's extra JSON check and the reading of an Authenticate answer. GeoTab's
errors come in the body of an HTTP 200, the others' in the status.

**SessionFetch.** A page's loop over prepare, send and classify with the three
counters, `on_auth_failure`, and the manager with its lock across the login; for
Motive and Samsara the same loop over a static key. The server answers with any
member of `Responses!Answers` that fits the session sent.

## 3. Runs

Every module's type invariant is a conjunct of one of the properties below (the
first named, where it is not `TypeOK` itself).

| Run | Checks | Instance | Size |
|---|---|---|---|
| `watermark` | truth of the watermark, no hole, one writer per day, one failure per worker, re-covered days refetched, refinement of `CoverageLog`; every complete day gets written; a done unit's observation reaches the watermark | 2 workers, days 1 to 4, widths 1 and 2 chosen anew per invocation, lookback 1, cutoff 1, 1 fault | 148 k states |
| `watermark_power_loss` | finding, see section 6 | 1 worker, 1 power loss | stops at the counterexample |
| `runner` | feed: token backed under one kind of fault, one page ahead, append-only, everything emitted is committed. Harvest: records not edited land once, checked listings are complete, ledger and metadata trail the rows, every walk ends | every kind of endpoint of the catalog, 3 records, 3 owners, a window of 4 ticks, pages and batches of 2, 1 edit, 1 fault; feed of 3 records on 2 dates, 2 interruptions, 1 power loss | 325 k |
| `feed_power_loss` | finding | 1 interruption, 1 power loss | stops |
| `sync` | resources outlive their use, exact report, whole migrations, nothing starts after a bug, every invocation returns | 6 documents, 2 environments, 6 database files, 3 migrations, 2 invocations | 32 k |
| `roster_safety` | counts follow listings and are never emptied, one harvest, stored before ledgered, everyone gets off the lock | 2 consumers, feeder, 2 members, threshold 1, 3 listings, 1 fault | 182 k |
| `roster_tap` | finding | 1 consumer | stops |
| `partition_safety` | window replaced wholesale, no superseded row, nothing else touched | 2 writers, 2 dates, 2 pieces, 2 edits, 1 fault | 3.0 M |
| `fan_out` | bounded lead, no straggler, refinement of `SerialLoop`, every stream ends | 2 streams of 5 pieces, pool of 2, windows of 2 | 163 k |
| `limiter` | metered budget, slots conserved, starts respect pauses | 3 threads, 2 slots, burst 2, 2/3 token per tick, 5 ticks, Retry-After 1 or unusable, fallback 2 | 637 k |
| `session_safety` | logins only when needed, two sessions before giving up, every page ends | 3 providers, 2 threads, 4 pages, 3 losses, budgets 1 | 857 k |
| `session_errors` | finding | 2 pages, 1 loss | stops |

What they show beyond the obvious:

* A numbered listing (Motive's offset paging) is the one walk that can lose a
  record nobody touched: a removal on an earlier page shifts the rest forward. It
  is also the only one that can read a record twice, after an addition; the copy
  lands where exact duplicates are kept. `UneditedLandOnce` says so in its
  exceptions; walks by id and by cursor lose and double nothing.
* The one-day pad of `idle_events` is enough for accounts whose midnight is less
  than a day off UTC; without it the mutant `AskedUnpadded` loses events at a unit's edge.
* Between two stages of a queue nothing is carried but the failures and the stop
  event, which is enough for the report to be exact.
* To its consumer a pooled fan-out cannot be told from the serial loop, failures
  and early leaving included, which is why `Harvest` walks chains in turn.

### Why the bounds are enough

* *Watermark.* Two workers are what a race needs. Four days hold a failed unit
  between two done ones and a lookback over an old plan; two widths make the
  leftovers of one invocation straddle the tiles of the next. The fault may be of
  any kind and come anywhere, invocations are unbounded, and the proofs lift the
  safety part to all values, any number of faults among them.
* *Harvest.* Three records at a page of two give a full and a short page, and a
  page that is full and the last; three owners make one full batch of two and one short; a window of four ticks can be halved twice down to
  the floor. Records lie in, at the edge of and after the window; one may be
  long enough to overlap it from outside; the account's midnight is at either
  extreme or none. Every kind of endpoint occurs, since Init picks it.
* *Sync.* The documents have two providers with feeders and consumers side by
  side, one alone, a misspelt, a doubled and an empty selection; a second
  invocation meets what the first left in the file, and nothing else outlives
  it. The files are every case of the checks.
* *Feed.* Three records with a page of two give a full page, a short page and an
  empty one; two dates make a page of two parts, so a fault can come between
  them. Two interruptions allow a retry that is itself interrupted.
* *Roster.* With threshold 1 the third listing is the one that evicts; two
  consumers and a feeder are every pair of callers on the lock; `MaxAge` 0 makes
  the roster stale again within the run.
* *Partitions.* Two edits let a dead run, a sibling and the run under test each
  have fetched another version.
* *Fan-out.* Five pieces exceed window plus pool; two streams with windows of
  two over two workers have more outstanding than the pool can run.
* *Limiter.* Burst 2 at 2/3 per tick makes waits end between ticks and the
  bucket fill up again in three; two penalties can overlap either way. The clock
  stops at its bound, where threads may all be waiting, so that run alone leaves
  deadlock unchecked.
* *Session.* Three losses let a page meet a drop, its successor's drop and an
  aged session; both budgets at one make every mixture of failures reachable.

### Fairness

Assumed is only what the environment of the code gives: a thread that can run
is scheduled (`WF` of a worker's, task's, stream's or pool's step), the operator
(cron) runs the sync again, days pass, a request returns or times out. In
`SyncQueues` and `Harvest` a single `WF` of "whatever can go on" is enough: it
says that the process does not stand still. Nothing is assumed of faults, edits, drops, the clock's setting back, or the roster's
lock: a lock is owed no fairness since a task takes it only once per invocation,
and `EveryRefreshReturns` holds without.

`runner`, `sync` and `limiter` do not check for deadlock: an endpoint, a sync or a
clock that has used up its bound stops there. Their liveness properties say that
nothing stops before.

## 4. Proofs

TLC shows a property on a small instance; the theorems below state it for every
value of the constants. Every safety invariant, action property and refinement
that a passing run checks has a theorem, and each theorem rests on an inductive
invariant (`IInv`, or the ones named below) that the module proves in the three
steps `Init => IInv`, `IInv /\ [Next]_vars => IInv'`, `IInv => Inv`.

| Module | Theorems |
|---|---|
| `WatermarkSyncProofs` | `TypeCorrect`, `WatermarkAlwaysTrue`, `NoDaySkipped`, `ForwardOnly`, `LogImplemented`, `OneWriterPerDay`, `PlanOverDrained`, `FailedClaimNothing`, `LookbackRefetched` |
| `EndpointRunnerProofs` | feed: `TokenIsBacked`, `AheadByOnePage`, `PartsAppendOnly`; harvest: `RecordsTrail`, `UneditedOnce`, `CheckedComplete`; both: `TypeCorrect` |
| `SyncQueuesProofs` | `ReportsExactly`, `ResourcesOutliveUse`, `MigrationsWhole`, `NothingStarts` |
| `FanOutChannelProofs` | `TypeCorrect`, `BackpressureHolds`, `NothingLeftBehind`, `LoopImplemented` |
| `PartitionedWriterProofs` | `WindowReplaced`, `RowsSuperseded`, `CoveredOnly` |
| `RosterRefreshProofs` | `RosterFollowsListings`, `HarvestStillDue`, `StoredBeforeLedgered` |
| `SessionFetchProofs` | `LoginsAreNeeded`, `GivenUpAfterTwo` |
| `QuotaLimiterProofs` | `BudgetRespected`, `SlotsNeverLeak`, `PenaltiesRespected` |

### What is assumed

Each module's `ASSUME` and nothing else; TLC evaluates it on the runs' instances.
Bounds of faults, edits, invocations and time are any naturals.

* `WatermarkSync`: finitely many workers, at least one; days as integers,
  natural lookback and cutoff, positive unit widths.
* `FanOutChannel`: at least one pool worker and a window of at least one (which
  `__post_init__` demands). Streams and pieces are any.
* `PartitionedWriter`: at least one date. Writers and pieces are any sets.
* `FeedDrive`: finitely many dates, a positive page limit, and that the dataset
  root, the endpoint's directory and its date directories are three kinds of name.
* `Harvest`: positive page, batch and unit sizes; owners enough for the records,
  two a piece. Of the endpoints, `CatalogSound` of `Catalog`: what construction
  refuses, and besides it facts that construction does not check but every
  declared endpoint satisfies (a completeness check only over a walk by id,
  numbered pages only for a single chain, member stamps only for a fan-out).
* `SessionFetch`: a thread at least, none of them called `Nobody`.
* `QuotaLimiter`: finitely many threads, positive concurrency, burst, rate, cost
  and fallback pause.
* `RosterRefresh`: the feeder is no consumer and nobody is called `Nobody`.
  Members are any set, the threshold any natural or none.
* `SyncQueues`: environments name known providers; a document lists a provider's
  endpoints as a sequence of names; a database file has the fields the checks
  read.

### The arguments

**WatermarkSync.** Neither the truth of the watermark nor the absence of holes is
inductive. `IInv` adds:

* `DoneLanded`: a done row's days are on disk and its observation is one of them;
* `HeldClaimed`: a unit in a worker's hands is a claimed row, so no one else can
  mark it;
* `WorkTrue`: what a worker is about to say of its unit, or is about to commit
  as watermark, is already so;
* `WorkersOff` and `PlanAccounted`: outside a drive nobody works, and what lies
  before the residual being planned is written or queued, which carries the
  claim over the crash window between release and enqueue;
* `Anchored`: a stored watermark is not before the cold-start day, and while
  none is stored nothing queued, resolved or in flight lies before that day.

The heart is the lemma `PrefixObservationTrue`: a day up to the prefix
observation that were not on disk would, by `NoSilentHole`, lie in a row not
done, which starts after the prefix row and yet contains an earlier day. The
forward-only upsert then makes a stale read harmless. `LogImplemented` follows
by mapping the days on disk and the watermark, each step being a step of the
log or a stutter.

The claim queue has a second invariant `QInv` relative to `IInv`:
`FailureStops` (the stop signal is set before the failed worker looks again),
`Draining` (in a drive without failures, stop means nothing is claimable and
every claimed row is in some hand), `Drained` (nothing undone while planning),
`UndoneDisjoint` (undone units share no day, with `TilesDisjoint` for a fresh
plan) and `Replanning` (a planned day is refetched or still queued).

**FeedDrive** (in `EndpointRunnerProofs`). `FeedInv` says what the page in hand is
(`PageAsked`: asked from the stored token, at least as far as any page written
before), what its finished dates hold (`PageAppended`), and how far the fsync
chain has come (`Chained`). Without interruptions `ChainCovers` says that
whatever is not on stable storage yet lies in a directory the chain in hand
still fsyncs, which makes every committed record durable. It is the part an
interruption breaks, and the finding `feed_power_loss` is what follows when a
power loss comes on top. `OnePageAhead` holds since a retry asks from the same
token, so it covers what the interrupted page covered.

**Harvest** (in `EndpointRunnerProofs`). `UneditedLandOnce` speaks of the end of a
walk over lists that change under it. `WalkInv` follows each record that has not
been edited itself: `Once(r)` says that it is in the rows gathered so far, once
and rightly timed and owned, or still ahead of some request of the chains, and
not both. The lemmas `PageStory` (one page, by each decoder), `LeafStory` and
`HalveStory` (bisection: the halves share no record), `EditStory` (an edit of
another record keeps the story, except a removal under numbered pages),
`BatchOf` and `ChainsCover` (the chains of a shape cover every owner once) are
the cases. `ChainsInv` adds what the declaration fixes: every chain asks for the
unit's window, and a member's rows come from the chain of that member. The pad
of a local-overlap endpoint exceeds the shift of the account's midnight, which is
what makes the padded window see every anchor. `CountInv` carries the count of a
checked listing: the gathered rows are finite and as many as were counted, since
a walk by id reads only rows past its position.

**SyncQueues.** `IInv` collects what each stage of an invocation has established:
`DatabaseInv` (the file is ours, in WAL mode, sound; the open transaction is the
file plus the statements done), `SelectionInv`, `ResourceInv`, and per provider
`QueueInv` and `ReportInv`: what a queue has reported is the sequence of its
failures in declared order, or the first bug. Sequences of failures are
characterised (`Lists`: which elements, in which order) rather than computed;
`DrainedExact`, `JoinKeepsReport` and `ListsConcat` say that joining a stage and
concatenating the queues keep that.

**FanOutChannel.** Per stream: `WindowTight` (the window is the stretch between the
piece taken last and the next to submit, and full while tasks remain),
`FutureByPlace` (what a future can be by where its piece lies), `TakenByPoint` and
`HandedOver`. `BacklogWaits` says that the executor's queue holds each piece once
and only pieces no worker took, cancelled ones included; without it a worker
could start a piece twice. The refinement maps a stream's consumer to the plain
loop; workers' steps, refills and unwinding stutter.

**PartitionedWriter.** `RowsUnique` (one row per piece and date), `WindowsDisjoint`,
and per writer and date of its window where its rows are at each step:
`Swept`, `WritesTracked`, `WrittenHasRows`, `FoldTracked`, `PruneTracked`. That a
writer may forget what siblings do is a lemma: their steps touch no date of its
window.

**RosterRefresh.** `Recorded` ties the stored rows to `RosterOf` of the sequence of
reconciled listings; `TaskInv` is mutual exclusion, freshness of what was read
before the write, and that a harvest on its way is still due; `Staged` keeps the
feeder's tap away from the consumers. The step of the counts (absent members
count up, listed ones restart, those past the threshold go) is `RosterOf` of one
listing more.

**SessionFetch.** `Budgeted` (attempts are the sum of the counters, and no budget is
spent while a page is under way), `Rejections` (a page rejected once holds a
generation that is not the one it sends next) and `LoginDue` (why a login is under
way: under the manager's lock that reason cannot go away).

**QuotaLimiter.** The metered budget is a potential argument: `Potential` says that
for every instant what the attempts since then cost and what is left in the
bucket is at most a full bucket and the refills since. `NoneSinceRefill` makes the
last refill the time of the last start. The rest is `permits` and the threads
holding a slot adding up, and the pause being what is owed.

### Only model-checked

Liveness: `EventuallyCovered`, `ObservationReachesWatermark`, `EmittedIsCommitted`,
`EveryRunEnds`, `EveryInvocationReturns`, `EveryRefreshReturns`,
`EveryStreamEnds`, `EveryPageEnds`. They need fairness and ENABLED, which are out
of the prover's reach. The four findings are counterexamples TLC found.

No module among the proved ones declares or reaches a RECURSIVE operator:
sequences are described by their elements, and the walks are steps of the model.

## 5. Not modelled, and why

* Response models, records, catalog, one-shot fetch, command line, paths,
  logging, TLS: static data, pure conversion, or a single driver run without
  state; `fetch` is the harvest of a snapshot with memory for a writer.
* Of the configuration: every value but the enabled providers, which are the
  models' constants.
* Of a declaration: URLs, parameters, models, and the configured lookback and
  cutoff (constants of `WatermarkSync`).
* Row counts and versions in the ledger, the contents of `metadata.json`,
  progress reports, banners: no behaviour depends on them.
* A page whose envelope or rows do not validate is a failing request; which field
  is wrong is not told apart.
* Exact-duplicate removal is in `Harvest`, not in the compaction of
  `PartitionedWriter`.
* Cursors of the other kind: no endpoint changes its mode within a model.
* Real time: delays between retries are counted, not timed.
* The limiter registry: one limiter per scope, made under the registry's lock in
  one step; `QuotaLimiter` is one scope.

## 6. Where code and text part

1. `feed_power_loss`. `atomic.py:76` computes the chain of directories to fsync
   from those missing *now*. A write that died between `mkdir` and the fsync has
   left directories that exist and were never synced; the retry leaves them out,
   commits the token, and a power loss takes page and directory together, which
   `atomic.py:104-107` and `append.py:119-121` rule out. With only interruptions
   or only power losses the promise holds
   (`TokenBackedByOneKindOfFault` in `runner`).
2. `watermark_power_loss`. `atomic.py:107-110` leaves partition writes unsynced
   since "a lost write there is refetched by design". Refetched is only the
   lookback: a plan longer than it whose done-marks and watermark are committed,
   then a power loss, and the older days stay missing.
3. `roster_tap`. The design document says a user-initiated feeder run "can never advance the
   ledger without reconciling the roster" (`src/DESIGN.md:308-309`); the ledger
   success and the tap (`entry.py:242-246`) are two steps, and a process death
   between them leaves the roster behind a fresh ledger until it is stale again.
4. `session_errors`. `transport.py:236` calls `on_auth_failure()` outside any
   handler. When the login server is unreachable at that moment, a raw
   `httpx.TransportError` leaves the client, and `sync.py` takes it for a bug and
   stops the provider's queue, while `transport.py:199-201, 281-283` and
   `sync.py:193-198` say only public errors come out.

Two smaller disagreements are modelled as the code has them and have no run of
their own:

* `state/database.py` says a non-fleetpull file is never mutated. A SQLite file
  whose application id was never set has id 0, which is taken for a fresh file
  (`StampOrVerify`): it is stamped and migrated, whatever tables it holds.
* `Sync.run`'s docstring says that a roster that cannot be read at a cold start
  propagates outside any endpoint; in the code it is an operational failure of
  the consumer's task and is collected like any other.

## 7. Plan

Done: every module of the table in section 2, each with its run, and a theorem for
every safety invariant, action property and refinement a passing run checks.

Left, in this order:

1. `PartitionedWriter` shown to implement a one-step replacement of a window,
   which is how `WatermarkSync` and `Harvest` take it.
2. `RosterRefresh` against an abstract roster that is a function of the listings.
3. Several rosters at once, if a consumer ever reads more than one.

What the prover cannot do (liveness) stays with TLC.
