----------------------------- MODULE FeedDrive -----------------------------
(***************************************************************************)
(* The feed arm of one endpoint: the page loop (orchestrator/feed_drive.py)*)
(* appending numbered parts (storage/append.py) through the durable rename *)
(* (storage/atomic.py) and committing the feed token (state/cursors.py),   *)
(* against a growing provider stream, under process deaths, failing writes *)
(* and power losses.                                                       *)
(*                                                                         *)
(* The stream is a sequence of records, numbered by their versions, each   *)
(* given here by its event date; a page holds the records after the        *)
(* version it was asked from, resultsLimit of them when there are as many. *)
(* The file system is modelled where durability is decided: by which       *)
(* directory entries have reached stable storage.  The token row has,      *)
(* always (a SQLite commit is fsynced).  The run's ledger row is left out: *)
(* nothing reads a feed run back.                                          *)
(***************************************************************************)
EXTENDS Integers, Sequences, FiniteSets

CONSTANTS
    Dates,           \* the event dates records carry
    ResultsLimit,    \* the records of a full page
    MaxVersions,     \* bound: records the provider emits
    MaxInterrupts,   \* bound: process deaths and failing writes
    MaxPowerLosses   \* bound: power losses

\* The directories of one endpoint: dataset root (always there), endpoint
\* directory, date partitions.
Root == "root"
Endpoint == "endpoint"
Directories == {Root, Endpoint} \cup Dates

ASSUME FeedAssumption ==
    /\ Dates # {} /\ IsFiniteSet(Dates)
    /\ {Root, Endpoint} \cap Dates = {}
    /\ ResultsLimit \in Nat \ {0}
    /\ MaxVersions \in Nat /\ MaxInterrupts \in Nat /\ MaxPowerLosses \in Nat

Page == [from : Nat, to : Nat, full : BOOLEAN]

VARIABLES
    stream,       \* the records emitted so far, by their dates
    token         \* the stored feed token; 0 when no cursor is stored

VARIABLES
    parts,        \* per date, the part files there: number -> rows (from, to]
    made,         \* the directories that exist
    syncedDirs,   \* ... whose own entry is on stable storage
    syncedParts   \* per date, the parts whose entry is on stable storage

disk == <<parts, made, syncedDirs, syncedParts>>

VARIABLES
    feedAt,       \* "down", "fetch", "write", "rename", "sync"
    page,         \* the page in hand
    todo,         \* its dates not yet appended
    date,         \* the date being appended
    chain         \* the directories still to fsync for it

drive == <<feedAt, page, todo, date, chain>>

VARIABLES interrupts, powerLosses   \* faults so far

feedVars == <<stream, token, disk, drive, interrupts, powerLosses>>

NoParts == [n \in {} |-> {}]
NoPage == [from |-> 0, to |-> 0, full |-> FALSE]

FeedInit ==
    /\ stream = <<>>
    /\ token = 0
    /\ parts = [d \in Dates |-> NoParts]
    /\ made = {Root} /\ syncedDirs = {Root}
    /\ syncedParts = [d \in Dates |-> {}]
    /\ feedAt = "down"
    /\ page = NoPage
    /\ todo = {} /\ date = Root /\ chain = <<>>
    /\ interrupts = 0 /\ powerLosses = 0

-----------------------------------------------------------------------------
(* The drive. *)

\* The event dates of a page's records.
DatesOf(p) == {stream[v] : v \in (p.from + 1) .. p.to}

\* The page the provider answers from a version: a full one, asked further from
\* its toVersion; or a terminal one that reaches the head, empty at the head.
PageFrom(v) ==
    IF v + ResultsLimit <= Len(stream)
    THEN [from |-> v, to |-> v + ResultsLimit, full |-> TRUE]
    ELSE [from |-> v, to |-> Len(stream), full |-> FALSE]

\* A run resumes at the stored token, or seeds at the cold-start anchor when
\* there is none.
StartRun ==
    /\ feedAt = "down"
    /\ feedAt' = "fetch"
    /\ UNCHANGED <<stream, token, disk, page, todo, date, chain, interrupts,
                   powerLosses>>

\* Faulty variant: a page that is not full ends the run unwritten.
SkipShortPage ==
    /\ feedAt = "fetch"
    /\ IF PageFrom(token).full
       THEN /\ page' = PageFrom(token)
            /\ todo' = DatesOf(page')
            /\ feedAt' = "write"
       ELSE /\ feedAt' = "down"
            /\ UNCHANGED <<page, todo>>
    /\ UNCHANGED <<stream, token, disk, date, chain, interrupts, powerLosses>>

\* A page from the token just stored or resumed.
FetchPage ==
    /\ feedAt = "fetch"
    /\ page' = PageFrom(token)
    /\ todo' = DatesOf(page')
    /\ feedAt' = "write"
    /\ UNCHANGED <<stream, token, disk, date, chain, interrupts, powerLosses>>

\* Faulty variant: only the partition itself is fsynced.
ShallowChain(d) == <<d>>

\* _durable_directory_chain: the partition, then the parent of every missing
\* directory, computed while the missing ones still are.
DurableChain(d) ==
    IF d \in made THEN <<d>>
    ELSE IF Endpoint \in made THEN <<d, Endpoint>>
    ELSE <<d, Endpoint, Root>>

\* One date's write begins: chain, then mkdir with its parents.
OpenPartition ==
    /\ feedAt = "write" /\ todo # {}
    /\ \E d \in todo :
          /\ date' = d
          /\ chain' = DurableChain(d)
          /\ made' = made \cup {Endpoint, d}
          /\ todo' = todo \ {d}
    /\ feedAt' = "rename"
    /\ UNCHANGED <<stream, token, parts, syncedDirs, syncedParts, page,
                   interrupts, powerLosses>>

\* Faulty variant: the highest part number, without the plus one, and no check
\* that its file is absent.
RenameOverLast ==
    /\ feedAt = "rename"
    /\ \E n \in {0} \cup DOMAIN parts[date] :
          /\ \A m \in DOMAIN parts[date] : m <= n
          /\ parts' = [parts EXCEPT ![date] =
                          [m \in DOMAIN parts[date] \cup {n} |->
                              IF m = n THEN [from |-> page.from, to |-> page.to]
                              ELSE parts[date][m]]]
    /\ feedAt' = "sync"
    /\ UNCHANGED <<stream, token, made, syncedDirs, syncedParts, page, todo,
                   date, chain, interrupts, powerLosses>>

\* The fsynced temp file renamed onto the next part number, the highest in the
\* partition plus one; its entry is not yet on stable storage.
RenamePart ==
    /\ feedAt = "rename"
    /\ \E n \in {m + 1 : m \in {0} \cup DOMAIN parts[date]} :
          /\ \A m \in DOMAIN parts[date] : m < n
          /\ parts' = [parts EXCEPT ![date] =
                          [m \in DOMAIN parts[date] \cup {n} |->
                              IF m = n THEN [from |-> page.from, to |-> page.to]
                              ELSE parts[date][m]]]
    /\ feedAt' = "sync"
    /\ UNCHANGED <<stream, token, made, syncedDirs, syncedParts, page, todo,
                   date, chain, interrupts, powerLosses>>

\* One directory of the chain fsynced: what it lists is on stable storage.
SyncDirectory ==
    /\ feedAt = "sync"
    /\ LET d == Head(chain)
       IN  /\ syncedParts' = IF d = date
                             THEN [syncedParts EXCEPT ![d] = DOMAIN parts[d]]
                             ELSE syncedParts
           /\ syncedDirs' = syncedDirs \cup
                  CASE d = Root     -> made \cap {Endpoint}
                    [] d = Endpoint -> made \cap Dates
                    [] OTHER        -> {}
    /\ chain' = Tail(chain)
    /\ feedAt' = IF Tail(chain) = <<>> THEN "write" ELSE "sync"
    /\ UNCHANGED <<stream, token, parts, made, page, todo, date, interrupts,
                   powerLosses>>

\* Faulty variant: the token is committed once, after the run's last page.
CommitAtEnd ==
    /\ feedAt = "write" /\ todo = {}
    /\ IF page.full
       THEN /\ page' = PageFrom(page.to)
            /\ todo' = DatesOf(page')
            /\ UNCHANGED <<token, feedAt>>
       ELSE /\ token' = page.to
            /\ feedAt' = "down"
            /\ UNCHANGED <<page, todo>>
    /\ UNCHANGED <<stream, disk, date, chain, interrupts, powerLosses>>

\* Every date of the page appended, its toVersion is committed; a full page is
\* followed by the next one, a terminal one ends the run.
CommitToken ==
    /\ feedAt = "write" /\ todo = {}
    /\ token' = page.to
    /\ feedAt' = IF page.full THEN "fetch" ELSE "down"
    /\ UNCHANGED <<stream, disk, page, todo, date, chain, interrupts,
                   powerLosses>>

-----------------------------------------------------------------------------
(* The environment. *)

\* The provider emits a record.
Emit ==
    /\ Len(stream) < MaxVersions
    /\ \E d \in Dates : stream' = Append(stream, d)
    /\ UNCHANGED <<token, disk, drive, interrupts, powerLosses>>

StopDrive ==
    /\ feedAt' = "down"
    /\ page' = NoPage /\ todo' = {} /\ date' = Root /\ chain' = <<>>

\* The process dies, or a fetch, a write or a commit raises and fails the run;
\* what the file system shows stays.
Interrupt ==
    /\ feedAt # "down"
    /\ interrupts < MaxInterrupts
    /\ interrupts' = interrupts + 1
    /\ StopDrive
    /\ UNCHANGED <<stream, token, disk, powerLosses>>

\* Power is lost: what is on stable storage stays, of the rest anything may
\* (the kernel may have written it back), and nothing below a lost directory.
PowerLoss ==
    /\ powerLosses < MaxPowerLosses
    /\ powerLosses' = powerLosses + 1
    /\ StopDrive
    /\ \E flushedDirs \in SUBSET (made \ syncedDirs) :
       \E flushedParts \in SUBSET UNION {{d} \X (DOMAIN parts[d] \ syncedParts[d])
                                            : d \in Dates} :
          LET kept == syncedDirs \cup flushedDirs
              left == IF Endpoint \in kept THEN kept ELSE {Root}
              partsLeft(d) == IF d \in left
                              THEN syncedParts[d] \cup
                                   {n \in DOMAIN parts[d] : <<d, n>> \in flushedParts}
                              ELSE {}
          IN  /\ made' = left /\ syncedDirs' = left
              /\ parts' = [d \in Dates |-> [n \in partsLeft(d) |-> parts[d][n]]]
              /\ syncedParts' = [d \in Dates |-> partsLeft(d)]
    /\ UNCHANGED <<stream, token, interrupts>>

DriveStep ==
    \/ StartRun \/ FetchPage \/ OpenPartition \/ RenamePart \/ SyncDirectory
    \/ CommitToken

FeedNext == DriveStep \/ Emit \/ Interrupt \/ PowerLoss

FeedSpec == FeedInit /\ [][FeedNext]_feedVars

\* The operator runs the sync again and again, and a run that is not
\* interrupted goes on.
FeedFairSpec == FeedSpec /\ WF_feedVars(DriveStep)

-----------------------------------------------------------------------------
(* Properties. *)

PartRows == [from : Nat, to : Nat]

\* The shape of every variable; what is on stable storage exists.
FeedTypeOK ==
    /\ stream \in Seq(Dates)
    /\ token \in 0 .. Len(stream)
    /\ DOMAIN parts = Dates /\ DOMAIN syncedParts = Dates
    /\ \A d \in Dates : /\ parts[d] \in [DOMAIN parts[d] -> PartRows]
                        /\ DOMAIN parts[d] \subseteq Nat \ {0}
                        /\ syncedParts[d] \subseteq DOMAIN parts[d]
                        /\ DOMAIN parts[d] # {} => d \in made
    /\ syncedDirs \subseteq made /\ made \subseteq Directories
    /\ feedAt \in {"down", "fetch", "write", "rename", "sync"}
    /\ page \in Page
    /\ todo \subseteq Dates
    /\ date \in Dates \cup {Root}
    /\ chain \in Seq(Directories)
    /\ interrupts \in 0 .. MaxInterrupts
    /\ powerLosses \in 0 .. MaxPowerLosses

HasRows(d, v) ==
    \E n \in DOMAIN parts[d] : parts[d][n].from < v /\ v <= parts[d][n].to

\* "A power loss never persists a token past unwritten data": every record at or
\* before the stored token is on disk, in the partition of its date.
TokenBacked ==
    \A v \in 1 .. token : HasRows(stream[v], v)

\* The same where it does hold: against process deaths and failing writes alone,
\* and against power losses alone, on any directory of any page.
TokenBackedByOneKindOfFault ==
    interrupts = 0 \/ powerLosses = 0 => TokenBacked

\* Rows ahead of the token all come from pages asked from that token: whatever
\* happens, only one page is ever fetched and appended again.
OnePageAhead ==
    \A d \in Dates : \A n \in DOMAIN parts[d] :
        parts[d][n].to > token => parts[d][n].from = token

\* A landed part is never rewritten, renumbered or removed by the program.
AppendOnly ==
    [][powerLosses' = powerLosses =>
          \A d \in Dates : \A n \in DOMAIN parts[d] :
              n \in DOMAIN parts'[d] /\ parts'[d][n] = parts[d][n]]_parts

\* Every record the provider emits lands, and its token is committed, at last:
\* again and again the stored token has caught up with the stream.
EmittedIsCommitted == []<>(token = Len(stream))
=============================================================================
