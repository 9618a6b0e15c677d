------------------------- MODULE PartitionedWriter -------------------------
(***************************************************************************)
(* The replace-and-prune writer of the watermark arm                       *)
(* (storage/partitioned.py, storage/staging.py, storage/pruning.py) on one *)
(* endpoint directory: pieces staged as date-split shards, each touched    *)
(* date's shards folded into its part.parquet, covered dates left unwritten*)
(* pruned.  Writers over disjoint windows run at once (the unit workers),  *)
(* a writer may fail and the process may die between any two file-system   *)
(* operations, and the provider edits and deletes records meanwhile.       *)
(*                                                                         *)
(* A piece is what one write hands over (one fan-out member's rows).  On   *)
(* each date a piece has one row, known by its version, or none.  A rename *)
(* is atomic and its temporary file is not modelled: no read sees it.      *)
(***************************************************************************)
EXTENDS Integers, FiniteSets

CONSTANTS
    Writers,     \* the unit workers, each with a writer of its own
    LastDate,    \* the dates are 1 .. LastDate
    Pieces,      \* the pieces of one fetch
    MaxEdits,    \* bound: edits and deletions by the provider
    MaxFaults    \* bound: failed writers and process deaths

ASSUME WriterAssumption ==
    /\ LastDate \in Nat \ {0}
    /\ MaxEdits \in Nat /\ MaxFaults \in Nat

Dates == 1 .. LastDate

\* window_dates: the dates a window covers.
Windows == {a .. b : a \in Dates, b \in Dates} \ {{}}

Row == [piece : Pieces, version : 0 .. MaxEdits]

VARIABLES
    provider,   \* per date, the rows the provider would answer now
    edits       \* edits and deletions so far

VARIABLES
    dirs,       \* the dates whose date= directory exists
    part,       \* the dates with a part.parquet -> its rows
    staging     \* the dates with a staging/ -> the rows of its shards

disk == <<dirs, part, staging>>

VARIABLES
    writer,     \* per writer: program counter, window, dates and pieces to go,
                \* the date or piece in hand, dates written
    fetched,    \* per writer, the rows it was handed on each date
    faults      \* faults injected so far

vars == <<provider, edits, disk, writer, fetched, faults>>

NoPiece == "none"

Idle == [pc |-> "idle", window |-> {}, dates |-> {}, pieces |-> {},
         date |-> 0, piece |-> NoPiece, written |-> {}]

NoRows == [d \in Dates |-> {}]

Init ==
    /\ provider = [d \in Dates |-> [piece : Pieces, version : {0}]]
    /\ edits = 0
    /\ dirs = {}
    /\ part = [d \in {} |-> {}]
    /\ staging = [d \in {} |-> {}]
    /\ writer = [w \in Writers |-> Idle]
    /\ fetched = [w \in Writers |-> NoRows]
    /\ faults = 0

At(w, pc) == writer[w].pc = pc

Goto(w, pc, dates) ==
    writer' = [writer EXCEPT ![w].pc = pc, ![w].dates = dates]

Without(f, d) == [e \in DOMAIN f \ {d} |-> f[e]]

With(f, d, rows) == [e \in DOMAIN f \cup {d} |-> IF e = d THEN rows ELSE f[e]]

\* The first of a writer's remaining dates: the loops go through them sorted.
NextDate(w) == {d \in writer[w].dates : \A e \in writer[w].dates : d <= e}

-----------------------------------------------------------------------------
(* Construction: the covered dates' stale staging is swept. *)

\* Two live writers never cover one date: the queue's single-writer rule.
Free(dates) == \A w \in Writers : writer[w].window \cap dates = {}

Open(w) ==
    /\ At(w, "idle")
    /\ \E dates \in Windows :
          /\ Free(dates)
          /\ writer' = [writer EXCEPT ![w] =
                           [Idle EXCEPT !.pc = "sweep", !.window = dates,
                                        !.dates = dates, !.pieces = Pieces]]
    /\ fetched' = [fetched EXCEPT ![w] = NoRows]
    /\ UNCHANGED <<provider, edits, disk, faults>>

\* Faulty variant: shards left in staging/ are kept.
SweepNothing(w) ==
    /\ At(w, "sweep")
    /\ writer' = [writer EXCEPT ![w].dates = {}]
    /\ writer[w].dates # {}
    /\ UNCHANGED <<provider, edits, disk, fetched, faults>>

\* clear_partition_staging of one date: rmtree of staging/ where there is one.
SweepStaging(w) ==
    /\ At(w, "sweep")
    /\ \E d \in NextDate(w) :
          IF d \in DOMAIN staging
          THEN /\ staging' = Without(staging, d)
               /\ writer' = [writer EXCEPT ![w].pc = "rmdir", ![w].date = d]
          ELSE /\ Goto(w, "sweep", writer[w].dates \ {d})
               /\ UNCHANGED staging
    /\ UNCHANGED <<provider, edits, dirs, part, fetched, faults>>

\* ... then rmdir of the date directory, where that left it empty.
RemoveEmptied(w) ==
    /\ At(w, "rmdir")
    /\ dirs' = dirs \ ({writer[w].date} \ DOMAIN part)
    /\ Goto(w, "sweep", writer[w].dates \ {writer[w].date})
    /\ UNCHANGED <<provider, edits, part, staging, fetched, faults>>

-----------------------------------------------------------------------------
(* Writing: every piece staged as one shard per date it has rows on. *)

\* The piece's rows of the window as the provider answers them at this moment.
FetchPiece(w) ==
    /\ At(w, "write") /\ writer[w].dates = {}
    /\ \E p \in writer[w].pieces :
          LET rows(d) == {r \in provider[d] : r.piece = p}
              found == {d \in writer[w].window : rows(d) # {}}
          IN  /\ writer' = [writer EXCEPT ![w].pieces = @ \ {p},
                                          ![w].piece = p, ![w].dates = found]
              /\ fetched' = [fetched EXCEPT ![w] =
                                [d \in Dates |-> IF d \in found
                                                 THEN @[d] \cup rows(d)
                                                 ELSE @[d]]]
    /\ UNCHANGED <<provider, edits, disk, faults>>

\* mkdir of the shard's directory, with its parents.
MakeStaging(w) ==
    /\ At(w, "write")
    /\ \E d \in NextDate(w) :
          /\ d \notin DOMAIN staging
          /\ staging' = With(staging, d, {})
          /\ dirs' = dirs \cup {d}
    /\ UNCHANGED <<provider, edits, part, writer, fetched, faults>>

\* The shard renamed into staging/, under a name of its own.
StageShard(w) ==
    /\ At(w, "write")
    /\ \E d \in NextDate(w) :
          /\ d \in DOMAIN staging
          /\ staging' = [staging EXCEPT ![d] = @ \cup
                {r \in fetched[w][d] : r.piece = writer[w].piece}]
          /\ writer' = [writer EXCEPT ![w].dates = @ \ {d},
                                      ![w].written = @ \cup {d}]
    /\ UNCHANGED <<provider, edits, dirs, part, fetched, faults>>

-----------------------------------------------------------------------------
(* Finalize. *)

\* compact_partition: every shard there folded into part.parquet, replaced.
Compact(w) ==
    /\ At(w, "compact")
    /\ \E d \in NextDate(w) :
          /\ d \in DOMAIN staging
          /\ part' = With(part, d, staging[d])
          /\ Goto(w, "compact", writer[w].dates \ {d})
    /\ UNCHANGED <<provider, edits, dirs, staging, fetched, faults>>

\* clear_partition_staging of one written date; its part keeps the directory.
ClearStaging(w) ==
    /\ At(w, "clear")
    /\ \E d \in NextDate(w) :
          /\ staging' = Without(staging, d)
          /\ Goto(w, "clear", writer[w].dates \ {d})
    /\ UNCHANGED <<provider, edits, dirs, part, fetched, faults>>

\* delete_partition, an rmtree: what is in the directory, then itself.
PruneContents(w) ==
    /\ At(w, "prune")
    /\ \E d \in NextDate(w) :
          /\ part' = Without(part, d)
          /\ staging' = Without(staging, d)
          /\ writer' = [writer EXCEPT ![w].pc = "prune dir", ![w].date = d]
    /\ UNCHANGED <<provider, edits, dirs, fetched, faults>>

PruneDirectory(w) ==
    /\ At(w, "prune dir")
    /\ dirs' = dirs \ {writer[w].date}
    /\ Goto(w, "prune", writer[w].dates \ {writer[w].date})
    /\ UNCHANGED <<provider, edits, part, staging, fetched, faults>>

\* Faulty variant: everything on disk that was not written is pruned.
StaleAnywhere(w) == dirs \ writer[w].written

\* Faulty variant: nothing is pruned.
NothingStale(w) == {}

\* The covered dates on disk that this run did not write.
Stale(w) == (writer[w].window \cap dirs) \ writer[w].written

\* A loop over dates has ended and the next begins.
Turn(w) ==
    /\ writer[w].dates = {}
    /\ \/ At(w, "sweep") /\ Goto(w, "write", {})
       \/ At(w, "write") /\ writer[w].pieces = {}
                         /\ Goto(w, "compact", writer[w].written)
       \/ At(w, "compact") /\ Goto(w, "clear", writer[w].written)
       \/ At(w, "clear") /\ Goto(w, "prune", Stale(w))
       \/ At(w, "prune") /\ Goto(w, "closed", {})
    /\ UNCHANGED <<provider, edits, disk, fetched, faults>>

\* The run goes on with its bookkeeping; the worker takes another unit.
Close(w) ==
    /\ At(w, "closed")
    /\ writer' = [writer EXCEPT ![w] = Idle]
    /\ UNCHANGED <<provider, edits, disk, fetched, faults>>

-----------------------------------------------------------------------------
(* The environment. *)

\* The provider adds, edits or deletes a record.
Edit ==
    /\ edits < MaxEdits
    /\ edits' = edits + 1
    /\ \E d \in Dates, p \in Pieces :
          \E row \in {{}, {[piece |-> p, version |-> edits + 1]}} :
             provider' = [provider EXCEPT ![d] =
                             {r \in @ : r.piece # p} \cup row]
    /\ UNCHANGED <<disk, writer, fetched, faults>>

CanFault == faults < MaxFaults

\* A fetch or a file operation raises: the worker's run ends there.
WriterFails(w) ==
    /\ ~At(w, "idle")
    /\ CanFault
    /\ faults' = faults + 1
    /\ writer' = [writer EXCEPT ![w] = Idle]
    /\ UNCHANGED <<provider, edits, disk, fetched>>

\* The process dies: the directory stays as it is.
Crash ==
    /\ CanFault
    /\ \E w \in Writers : ~At(w, "idle")
    /\ faults' = faults + 1
    /\ writer' = [w \in Writers |-> Idle]
    /\ UNCHANGED <<provider, edits, disk, fetched>>

Step(w) ==
    \/ Open(w) \/ SweepStaging(w) \/ RemoveEmptied(w)
    \/ FetchPiece(w) \/ MakeStaging(w) \/ StageShard(w)
    \/ Compact(w) \/ ClearStaging(w) \/ PruneContents(w) \/ PruneDirectory(w)
    \/ Turn(w) \/ Close(w)

Next ==
    \/ \E w \in Writers : Step(w) \/ WriterFails(w)
    \/ Crash
    \/ Edit

Spec == Init /\ [][Next]_vars

-----------------------------------------------------------------------------
(* Properties. *)

Points == {"idle", "sweep", "rmdir", "write", "compact", "clear", "prune",
           "prune dir", "closed"}

\* The shape of every variable; files lie in directories that exist.
TypeOK ==
    /\ provider \in [Dates -> SUBSET Row]
    /\ edits \in 0 .. MaxEdits
    /\ dirs \subseteq Dates
    /\ DOMAIN part \subseteq dirs /\ DOMAIN staging \subseteq dirs
    /\ part \in [DOMAIN part -> SUBSET Row]
    /\ staging \in [DOMAIN staging -> SUBSET Row]
    /\ writer \in [Writers -> [pc : Points, window : SUBSET Dates,
                               dates : SUBSET Dates, pieces : SUBSET Pieces,
                               date : {0} \cup Dates,
                               piece : {NoPiece} \cup Pieces,
                               written : SUBSET Dates]]
    /\ fetched \in [Writers -> [Dates -> SUBSET Row]]
    /\ faults \in 0 .. MaxFaults

\* The window is authoritatively replaced: when finalize returns, each covered
\* date holds exactly what this run fetched for it, and a date that came back
\* empty has no directory at all, whatever crashed runs, the sibling worker and
\* earlier contents left there.
ReplacedWholesale ==
    /\ TypeOK
    /\ \A w \in Writers : At(w, "closed") =>
          \A d \in writer[w].window :
              IF fetched[w][d] = {} THEN d \notin dirs
              ELSE /\ d \in DOMAIN part /\ part[d] = fetched[w][d]
                   /\ d \notin DOMAIN staging

\* At no instant does a partition hold a row next to the version that
\* superseded it: the shards of a crashed run are never folded in.
NoSupersededRow ==
    \A d \in DOMAIN part : \A r, s \in part[d] :
        r.piece = s.piece => r = s

\* A partition is replaced or deleted only by a writer whose window covers it
\* and which has fetched that whole window: a failed fetch loses nothing, and
\* history outside the window is never touched.
ChangedOnlyWhenCovered ==
    [][\A d \in Dates :
          (d \in DOMAIN part) # (d \in DOMAIN part')
          \/ (d \in DOMAIN part /\ part'[d] # part[d])
          => \E w \in Writers : d \in writer[w].window
                                /\ writer[w].pieces = {}
                                /\ writer[w].pc \in {"compact", "prune"}]_part
=============================================================================
