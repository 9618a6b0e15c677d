------------------------------- MODULE Harvest -------------------------------
(***************************************************************************)
(* One snapshot run, or one window unit, of one endpoint of the catalog:   *)
(* the request driver its shape resolves to (orchestrator/drivers.py,      *)
(* bisection.py) walks the provider's pages as its decoder says            *)
(* (network/decoders, network/client/transport.py), every page is filtered *)
(* to the window and handed to the writer (orchestrator/batch.py,          *)
(* streaming.py), and the writer lands the rows at the end                 *)
(* (storage/single_file.py), the run is ledgered and metadata.json         *)
(* projected (orchestrator/runner.py, metadata_projection.py), while the   *)
(* provider's records are edited between any two requests.                 *)
(*                                                                         *)
(* A record is its id, by which the provider lists records; its anchor is  *)
(* the time its row is routed by.  Sizes are scaled down: PageSize stands  *)
(* for every limit, Span ticks for a unit.  A window unit's landing is one *)
(* step here (PartitionedWriter takes it apart), and the members of a      *)
(* fan-out are walked in turn (FanOutChannel shows that pooled fetching    *)
(* delivers the same).                                                     *)
(***************************************************************************)
EXTENDS Catalog

CONSTANTS
    MaxId,            \* records have the ids 1 .. MaxId
    Ticks,            \* the anchors they may have
    LongRecords,      \* the records that may go on past their anchor
    Span,             \* the ticks of the unit's window, which starts at 1
    PageSize,         \* the records of a full page
    BatchSize,        \* the members of one batch
    MaxOwner,         \* vehicles, or activation statuses, are 1 .. MaxOwner
    DropDuplicates,   \* storage.drop_exact_duplicates
    MaxRuns,          \* bound: runs
    MaxEdits,         \* bound: the provider's edits during runs
    MaxFaults         \* bound: raising requests, writes and commits, deaths

Records == 1 .. MaxId
Owners == 1 .. MaxOwner

ASSUME HarvestAssumption ==
    /\ MaxId \in Nat /\ LongRecords \subseteq Records
    /\ Span \in Nat \ {0} /\ Ticks \subseteq Nat
    /\ PageSize \in Nat \ {0} /\ BatchSize \in Nat \ {0} 
    /\ MaxOwner \in Nat \ {0} /\ MaxId <= 2 * MaxOwner
    /\ DropDuplicates \in BOOLEAN
    /\ MaxRuns \in Nat /\ MaxEdits \in Nat /\ MaxFaults \in Nat

\* What of a declaration decides the harvest; several endpoints share one.
Cell(d) ==
    [mode |-> d.mode, decoder |-> d.decoder, retrieval |-> d.retrieval,
     pad |-> d.pad, stamp |-> d.stamp, kind |-> d.shape.kind, check |-> d.check]

Cells == {Cell(d) : d \in Definitions}

\* The least window a bisected unit is narrowed to, scaled down.
Floor == 1

VARIABLES
    cell,        \* the endpoint
    anchor,      \* each record's time
    long,        \* the records that go on past their anchor, to the next window
    shift        \* the account's local midnight, in ticks off UTC's

endpoint == <<cell, anchor, long, shift>>

VARIABLES
    listed,      \* the records the provider has now
    owner,       \* whose each record is
    touched,     \* the records edited since the run began
    removed      \* whether one was removed since

provider == <<listed, owner, touched, removed>>

VARIABLES
    at,          \* "idle", "fetch", "check", "land", "complete", "project"
    run,         \* the run's number
    pending,     \* the request chains still to walk, the first one begun
    position,    \* where in it: a page number, or the last id or owner read
    frames,      \* the frames written, in order
    harvested    \* the records they were made from

harvest == <<at, run, pending, position, frames, harvested>>

VARIABLES
    file,        \* what landed last, and by which run
    ledger,      \* per run: "none", "running", "success", "failed"
    metadata,    \* the run metadata.json tells of; 0 when there is none
    edits, faults

harvestVars == <<endpoint, provider, harvest, file, ledger, metadata, edits, faults>>

Window == [from |-> 1, to |-> 1 + Span]
Windowed == cell.mode = "watermark"

Chain(members, window) == [members |-> members, window |-> window]

\* Whose the records are at first: two to an owner, none to the last ones.
FirstOwner == [r \in Records |-> 1 + ((r - 1) \div 2)]

HarvestInit ==
    /\ cell \in Cells
    /\ anchor \in IF Windowed /\ cell.stamp # "window"
                  THEN [Records -> Ticks] ELSE {[r \in Records |-> 1]}
    /\ long \in IF cell.retrieval \in {"overlap", "local_overlap"}
                THEN SUBSET LongRecords ELSE {{}}
    /\ shift \in IF cell.retrieval = "local_overlap" THEN {1 - Span, 0, Span - 1} ELSE {0}
    /\ listed \in {Records \ {r} : r \in 0 .. MaxId}
    /\ cell.mode = "feed" => listed = Records
    /\ owner = FirstOwner
    /\ touched = {} /\ removed = FALSE
    /\ at = "idle" /\ run = 0
    /\ pending = <<>> /\ position = 0 /\ frames = <<>> /\ harvested = 0
    /\ file = [run |-> 0, frames |-> <<>>]
    /\ ledger = [n \in 1 .. MaxRuns |-> "none"]
    /\ metadata = 0
    /\ edits = 0 /\ faults = 0

-----------------------------------------------------------------------------
(* What the provider answers.                                              *)

\* Faulty variant: the pad declared, and not applied.
AskedUnpadded(window) ==
    [from |-> window.from + shift, to |-> window.to + shift]

\* The window as the spec builder asks for it: widened by the pad's whole days,
\* and read by the provider in its own time.
Asked(window) ==
    [from |-> window.from - cell.pad * Span + shift,
     to   |-> window.to + cell.pad * Span + shift]

\* A record's last tick.
Until(r) == IF r \in long THEN anchor[r] + Span ELSE anchor[r]

\* Whether a provider returns a record for a window; it may count the window's
\* end in.
Selected(r, window) ==
    CASE cell.retrieval \in {"listing", "report"} -> TRUE
      [] cell.retrieval = "anchored" ->
            anchor[r] \in Asked(window).from .. Asked(window).to
      [] OTHER -> /\ anchor[r] <= Asked(window).to
                  /\ Until(r) >= Asked(window).from

Matches(chain) ==
    {r \in listed : owner[r] \in chain.members /\ Selected(r, chain.window)}

\* The first PageSize elements of a set past a position.
After(ids, past) ==
    {i \in ids : /\ i > past
                 /\ Cardinality({j \in ids : past < j /\ j <= i}) <= PageSize}

\* Page n of a set in order.
Numbered(ids, n) ==
    {i \in ids : Cardinality({j \in ids : j <= i})
                     \in (n - 1) * PageSize + 1 .. n * PageSize}

Last(ids) == CHOOSE i \in ids : \A j \in ids : j <= i

Done == -1

-----------------------------------------------------------------------------
(* The page decoders: the records of a page and where the next one starts. *)

\* An id-sorted listing sought past the last id of each page; only an empty
\* page ends it.
SeekPage(chain) ==
    LET page == After(Matches(chain), position)
    IN  [records |-> page, next |-> IF page = {} THEN Done ELSE Last(page)]

\* Numbered pages; the walk ends when page_no * per_page reaches the total, as
\* both stand when the page is answered.
OffsetPage(chain) ==
    LET all == Matches(chain)
    IN  [records |-> Numbered(all, position + 1),
         next |-> IF (position + 1) * PageSize >= Cardinality(all) THEN Done
                  ELSE position + 1]

\* The provider's cursor, taken to stand for the last id it has answered; the
\* walk ends on hasNextPage false.
CursorPage(chain) ==
    LET all == Matches(chain)
        page == After(all, position)
    IN  [records |-> page,
         next |-> IF page # {} /\ \E r \in all : r > Last(page)
                  THEN Last(page) ELSE Done]

\* The same over vehicles, each nesting its readings of the window.
SeriesPage(chain) ==
    LET all == Matches(chain)
        carriers == {owner[r] : r \in all}
        page == After(carriers, position)
    IN  [records |-> {r \in all : owner[r] \in page},
         next |-> IF page # {} /\ \E o \in carriers : o > Last(page)
                  THEN Last(page) ELSE Done]

SinglePage(chain) == [records |-> Matches(chain), next |-> Done]

DecodedPage(chain) ==
    CASE cell.decoder = "seek"   -> SeekPage(chain)
      [] cell.decoder = "offset" -> OffsetPage(chain)
      [] cell.decoder = "cursor" -> CursorPage(chain)
      [] cell.decoder = "series" -> SeriesPage(chain)
      [] OTHER                   -> SinglePage(chain)

\* The rows of a page: a report's are timed by the window that was asked for, a
\* trip's are given the member that was asked for.
Rows(records, chain) ==
    {[record |-> r,
      owner  |-> IF cell.stamp = "member"
                 THEN CHOOSE m \in chain.members : TRUE ELSE owner[r],
      time   |-> IF cell.stamp = "window" THEN chain.window.from ELSE anchor[r]]
        : r \in records}

InWindow(rows, window) ==
    {row \in rows : window.from <= row.time /\ row.time < window.to}

\* process_batch: a window run keeps the rows of its own window.
Processed(rows) == IF Windowed THEN InWindow(rows, Window) ELSE rows

-----------------------------------------------------------------------------
(* The run.                                                                *)

\* _comma_joined_batches: the sorted members, BatchSize at a time.
Batches ==
    [b \in 1 .. (MaxOwner + BatchSize - 1) \div BatchSize |->
        {m \in Owners : (b - 1) * BatchSize < m /\ m <= b * BatchSize}]

\* The request chains of a unit, in the order they are walked.
Chains ==
    CASE cell.kind \in {"single", "bisected"} -> <<Chain(Owners, Window)>>
      [] cell.kind = "batched" ->
            [b \in DOMAIN Batches |-> Chain(Batches[b], Window)]
      [] OTHER -> [m \in Owners |-> Chain({m}, Window)]

\* The client resolved, the run is opened and its driver started.
StartHarvest ==
    /\ cell.mode # "feed"
    /\ at = "idle" /\ run < MaxRuns
    /\ run' = run + 1
    /\ ledger' = [ledger EXCEPT ![run'] = "running"]
    /\ at' = "fetch"
    /\ pending' = Chains /\ position' = 0
    /\ frames' = <<>> /\ harvested' = 0
    /\ touched' = {} /\ removed' = FALSE
    /\ UNCHANGED <<endpoint, listed, owner, file, metadata, edits, faults>>

\* The writer's frames with one more; an empty one adds nothing.
Written(rows) == IF rows = {} THEN frames ELSE Append(frames, rows)

\* One page fetched, decoded, processed and written; the chain goes on where its
\* decoder says.
HarvestPage ==
    /\ at = "fetch" /\ pending # <<>> /\ cell.kind # "bisected"
    /\ LET chain == Head(pending)
           page == DecodedPage(chain)
           rows == Processed(Rows(page.records, chain))
       IN  /\ frames' = Written(rows)
           /\ harvested' = harvested + Cardinality(page.records)
           /\ IF page.next = Done
              THEN pending' = Tail(pending) /\ position' = 0
              ELSE pending' = pending /\ position' = page.next
    /\ UNCHANGED <<endpoint, provider, at, run, file, ledger, metadata, edits,
                   faults>>

\* A bisected window answered with fewer records than the limit: the ones
\* anchored in it are its rows.
FetchLeaf ==
    /\ at = "fetch" /\ pending # <<>> /\ cell.kind = "bisected"
    /\ LET chain == Head(pending)
           rows == InWindow(Rows(Matches(chain), chain), chain.window)
       IN  /\ Cardinality(Matches(chain)) < PageSize
           /\ frames' = Written(Processed(rows))
           /\ harvested' = harvested + Cardinality(rows)
    /\ pending' = Tail(pending)
    /\ UNCHANGED <<endpoint, provider, at, run, position, file, ledger, metadata,
                   edits, faults>>

\* Whether the window in hand is answered with a full page, which the provider
\* may have cut.
Overflows == Cardinality(Matches(Head(pending))) >= PageSize

Width(window) == window.to - window.from

\* Faulty variant: a window of exactly the floor's width is halved again.
HalveAtFloor ==
    /\ at = "fetch" /\ pending # <<>> /\ cell.kind = "bisected" /\ Overflows
    /\ LET chain == Head(pending)
           w == chain.window
           middle == w.from + Width(w) \div 2
       IN  /\ Width(w) >= Floor
           /\ pending' = <<Chain(chain.members, [from |-> w.from, to |-> middle]),
                           Chain(chain.members, [from |-> middle, to |-> w.to])>>
                         \o Tail(pending)
    /\ UNCHANGED <<endpoint, provider, at, run, position, frames, harvested, file,
                   ledger, metadata, edits, faults>>

\* ... is discarded, and the window's halves are fetched, left then right.
HalveWindow ==
    /\ at = "fetch" /\ pending # <<>> /\ cell.kind = "bisected" /\ Overflows
    /\ LET chain == Head(pending)
           w == chain.window
           middle == w.from + Width(w) \div 2
       IN  /\ Width(w) > Floor
           /\ pending' = <<Chain(chain.members, [from |-> w.from, to |-> middle]),
                           Chain(chain.members, [from |-> middle, to |-> w.to])>>
                         \o Tail(pending)
    /\ UNCHANGED <<endpoint, provider, at, run, position, frames, harvested, file,
                   ledger, metadata, edits, faults>>

\* The last chain walked: the listing is checked where one is to be.
EndWalk ==
    /\ at = "fetch" /\ pending = <<>>
    /\ at' = IF cell.check THEN "check" ELSE "land"
    /\ UNCHANGED <<endpoint, provider, run, pending, position, frames, harvested,
                   file, ledger, metadata, edits, faults>>

\* Faulty variant: the count is asked for and a mismatch let pass.
CheckLeniently ==
    /\ at = "check"
    /\ at' = "land"
    /\ UNCHANGED <<endpoint, provider, run, pending, position, frames, harvested,
                   file, ledger, metadata, edits, faults>>

\* After the last page, the provider's own count is the harvest's.
CheckCount ==
    /\ at = "check" /\ harvested = Cardinality(listed)
    /\ at' = "land"
    /\ UNCHANGED <<endpoint, provider, run, pending, position, frames, harvested,
                   file, ledger, metadata, edits, faults>>

\* dedup_counting over the frames together.
Deduplicated(list) ==
    IF DropDuplicates
    THEN <<UNION {list[i] : i \in DOMAIN list}>> ELSE list

\* finalize: the rows replace what had landed before, at once.
Land ==
    /\ at = "land"
    /\ file' = [run |-> run, frames |-> Deduplicated(frames)]
    /\ at' = "complete"
    /\ UNCHANGED <<endpoint, provider, run, pending, position, frames, harvested,
                   ledger, metadata, edits, faults>>

\* Faulty variant: the run is ledgered before the writer is finalized.
CompleteBeforeLanding ==
    /\ \/ /\ at = "land" /\ ledger[run] = "running"
          /\ ledger' = [ledger EXCEPT ![run] = "success"]
          /\ at' = at
       \/ at = "complete" /\ at' = "project" /\ UNCHANGED ledger
    /\ UNCHANGED <<endpoint, provider, run, pending, position, frames, harvested,
                   file, metadata, edits, faults>>

CompleteRun ==
    /\ at = "complete"
    /\ ledger' = [ledger EXCEPT ![run] = "success"]
    /\ at' = "project"
    /\ UNCHANGED <<endpoint, provider, run, pending, position, frames, harvested,
                   file, metadata, edits, faults>>

StopHarvest ==
    /\ at' = "idle"
    /\ pending' = <<>> /\ position' = 0 /\ frames' = <<>> /\ harvested' = 0

\* metadata.json rewritten from the committed run.
Project ==
    /\ at = "project"
    /\ metadata' = run
    /\ StopHarvest
    /\ UNCHANGED <<endpoint, provider, run, file, ledger, edits, faults>>

\* The failure of a run, ledgered where the ledger can be written.
Failed(status) ==
    /\ status \in {"failed", "running"}
    /\ ledger' = [ledger EXCEPT ![run] = status]
    /\ StopHarvest
    /\ UNCHANGED <<endpoint, provider, run, file, metadata, edits>>

\* The harvest and the count differ, or a window of the floor's width is still
\* full: the run fails.
Mismatch ==
    /\ at = "check" /\ harvested # Cardinality(listed)
    /\ Failed("failed") /\ UNCHANGED faults

TooDense ==
    /\ at = "fetch" /\ pending # <<>> /\ cell.kind = "bisected" /\ Overflows
    /\ Width(Head(pending).window) <= Floor
    /\ Failed("failed") /\ UNCHANGED faults

\* A request or a page raises (hasNextPage without a cursor, a row that does not
\* validate), a write or the run's completion does, or the process dies.
Fault ==
    /\ at \in {"fetch", "check", "land", "complete"} /\ faults < MaxFaults
    /\ faults' = faults + 1
    /\ \E status \in {"failed", "running"} : Failed(status)

\* metadata.json is not written: an OSError is logged and let go, anything else
\* raised out of a run that is ledgered by then.
ProjectionFault ==
    /\ at = "project" /\ faults < MaxFaults
    /\ faults' = faults + 1
    /\ StopHarvest
    /\ UNCHANGED <<endpoint, provider, run, file, ledger, metadata, edits>>

\* The provider adds or removes a record, or gives a driver the other status,
\* before one of the run's requests; after the last one, it is a change before
\* the next run.
Edit ==
    /\ at \in {"fetch", "check"} /\ edits < MaxEdits
    /\ edits' = edits + 1
    /\ \E r \in Records :
          /\ touched' = touched \cup {r}
          /\ \/ /\ listed' = (listed \ {r}) \cup ({r} \ listed)
                /\ removed' = (removed \/ r \in listed)
                /\ UNCHANGED owner
             \/ /\ cell.kind = "sweep" /\ r \in listed
                /\ \E o \in Owners \ {owner[r]} : owner' = [owner EXCEPT ![r] = o]
                /\ UNCHANGED <<listed, removed>>
    /\ UNCHANGED <<endpoint, harvest, file, ledger, metadata, faults>>

RunStep ==
    \/ HarvestPage \/ FetchLeaf \/ HalveWindow \/ TooDense \/ EndWalk
    \/ CheckCount \/ Mismatch \/ Land \/ CompleteRun \/ Project

HarvestNext == StartHarvest \/ RunStep \/ Fault \/ ProjectionFault \/ Edit

HarvestSpec == HarvestInit /\ [][HarvestNext]_harvestVars

\* A run that is started goes on.
HarvestFairSpec == HarvestSpec /\ WF_harvestVars(RunStep)

-----------------------------------------------------------------------------
(* Properties.                                                             *)

Row == [record : Records, owner : Owners, time : Nat]

\* The shape of every variable; a chain in hand is one of the unit's own, or a
\* part of it a bisection has left to fetch.
HarvestTypeOK ==
    /\ cell \in Cells /\ anchor \in [Records -> Ticks \cup {1}]
    /\ long \subseteq LongRecords /\ shift \in Int
    /\ listed \subseteq Records /\ touched \subseteq Records
    /\ owner \in [Records -> Owners] /\ removed \in BOOLEAN
    /\ at \in {"idle", "fetch", "check", "land", "complete", "project"}
    /\ run \in 0 .. MaxRuns /\ position \in Nat /\ harvested \in Nat
    /\ \A i \in DOMAIN pending :
          /\ pending[i].members \subseteq Owners
          /\ Window.from <= pending[i].window.from
          /\ pending[i].window.from < pending[i].window.to
          /\ pending[i].window.to <= Window.to
    /\ \A i \in DOMAIN frames : frames[i] \subseteq Row
    /\ file.run \in 0 .. MaxRuns
    /\ \A i \in DOMAIN file.frames : file.frames[i] \subseteq Row
    /\ ledger \in [1 .. MaxRuns -> {"none", "running", "success", "failed"}]
    /\ metadata \in 0 .. MaxRuns
    /\ edits \in 0 .. MaxEdits /\ faults \in 0 .. MaxFaults

\* How often a record is in what landed, and the records the unit should hold.
Landed(r) ==
    Cardinality({placed \in UNION {{i} \X file.frames[i] : i \in DOMAIN file.frames} :
                    placed[2].record = r})

Due(r) ==
    /\ r \in listed
    /\ Windowed /\ cell.stamp # "window" => anchor[r] \in Window.from .. Window.to - 1

\* Walking pages while the provider edits its records loses and doubles none
\* that is not itself edited: such a record is landed once, timed and owned as
\* the provider has it, when the unit should hold it, and not at all otherwise.
\* A numbered listing alone loses records, to a removal during its walk, and
\* alone reads one again, after an addition: the copy lands where exact
\* duplicates are not dropped.
UneditedLandOnce ==
    file.run = run /\ run > 0 =>
        \A r \in Records \ touched :
            /\ ~Due(r) => Landed(r) = 0
            /\ Due(r) /\ (cell.decoder = "offset" => ~removed) => Landed(r) >= 1
            /\ Landed(r) > 1 => cell.decoder = "offset" /\ ~DropDuplicates
            /\ \A i \in DOMAIN file.frames : \A row \in file.frames[i] :
                  row.record = r =>
                      /\ row.owner = owner[r]
                      /\ row.time = IF cell.stamp = "window" THEN Window.from
                                     ELSE anchor[r]

\* A listing with a completeness check never replaces the last one unless it
\* holds as many records as the provider has then: a record slipped in behind
\* the walk, or out of it, fails the run.
CheckedListingComplete ==
    cell.check /\ file.run = run /\ at \in {"complete", "project"} =>
        Cardinality(UNION {file.frames[i] : i \in DOMAIN file.frames})
            = Cardinality(listed)

\* Whatever raises or dies in between: no run is ledgered a success whose rows
\* have not landed, and metadata.json tells of no run that is not so ledgered.
RecordsTrailRows ==
    /\ \A n \in 1 .. MaxRuns : ledger[n] = "success" => file.run >= n
    /\ metadata > 0 => ledger[metadata] = "success"

\* Every walk ends: no decoder asks for ever, no window is halved for ever.
EveryRunEnds == at # "idle" ~> at = "idle"
=============================================================================
