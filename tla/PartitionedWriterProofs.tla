----------------------- MODULE PartitionedWriterProofs -----------------------
(***************************************************************************)
(* What PartitionedWriter's run checks on two dates and two writers,       *)
(* proved for every number of writers, dates, pieces, edits and faults.    *)
(***************************************************************************)
EXTENDS PartitionedWriter, TLAPS

-----------------------------------------------------------------------------
(* The inductive invariant. *)

OneRowPerPiece(rows) == \A r, s \in rows : r.piece = s.piece => r = s

\* The provider, a fetch and a partition give a piece one row on a date.
RowsUnique ==
    /\ \A d \in Dates : OneRowPerPiece(provider[d])
    /\ \A w \in Writers, d \in Dates : OneRowPerPiece(fetched[w][d])
    /\ \A d \in DOMAIN part : OneRowPerPiece(part[d])

\* What is recorded of a writer by where it is.
Bookkeeping(w) ==
    /\ writer[w].written \subseteq writer[w].window
    /\ writer[w].dates \subseteq writer[w].window
    /\ writer[w].pc = "idle" => writer[w].window = {}
    /\ writer[w].pc \in {"sweep", "rmdir"} =>
          writer[w].written = {} /\ fetched[w] = NoRows
    /\ writer[w].pc \in {"rmdir", "prune dir"} => writer[w].date \in writer[w].dates
    /\ writer[w].pc = "write" =>
          \A d \in Dates : \A r \in fetched[w][d] : r.piece \notin writer[w].pieces
    /\ writer[w].pc \in {"compact", "clear"} => writer[w].dates \subseteq writer[w].written
    /\ writer[w].pc \in {"prune", "prune dir"} =>
          writer[w].dates \cap writer[w].written = {}
    /\ writer[w].pc \in {"compact", "clear", "prune", "prune dir"} =>
          writer[w].pieces = {}
    /\ writer[w].pc = "closed" => writer[w].dates = {}

\* Staging holds what this writer put there and nothing a crashed run left.
Unstaged(d) == d \notin DOMAIN staging

Staged(d, rows) == d \in DOMAIN staging /\ staging[d] = rows

InHand(w, d) == {r \in fetched[w][d] : r.piece = writer[w].piece}

Swept(w, d) ==
    /\ writer[w].pc = "sweep" => d \in writer[w].dates \/ Unstaged(d)
    /\ writer[w].pc = "rmdir" =>
          d \in writer[w].dates \ {writer[w].date} \/ Unstaged(d)

WritesTracked(w, d) ==
    writer[w].pc = "write" =>
        IF d \in writer[w].dates
        THEN /\ InHand(w, d) # {}
             /\ IF d \in writer[w].written
                THEN Staged(d, fetched[w][d] \ InHand(w, d))
                ELSE /\ Unstaged(d) \/ Staged(d, {})
                     /\ fetched[w][d] = InHand(w, d)
        ELSE IF d \in writer[w].written
             THEN fetched[w][d] # {} /\ Staged(d, fetched[w][d])
             ELSE fetched[w][d] = {} /\ Unstaged(d)

\* From the finalize on: what was written carries rows, the rest none.
WrittenHasRows(w, d) ==
    writer[w].pc \in {"compact", "clear", "prune", "prune dir", "closed"} =>
        IF d \in writer[w].written THEN fetched[w][d] # {}
        ELSE fetched[w][d] = {} /\ Unstaged(d)

Folded(w, d) == d \in DOMAIN part /\ part[d] = fetched[w][d]

FoldTracked(w, d) ==
    d \in writer[w].written =>
        /\ writer[w].pc = "compact" => Staged(d, fetched[w][d])
        /\ writer[w].pc = "compact" /\ d \notin writer[w].dates => Folded(w, d)
        /\ writer[w].pc \in {"clear", "prune", "prune dir", "closed"} => Folded(w, d)
        /\ writer[w].pc = "clear" /\ d \notin writer[w].dates => Unstaged(d)
        /\ writer[w].pc \in {"prune", "prune dir", "closed"} => Unstaged(d)

PruneTracked(w, d) ==
    /\ d \notin writer[w].written /\ writer[w].pc \in {"prune", "prune dir", "closed"} =>
          d \in writer[w].dates \/ d \notin dirs
    /\ writer[w].pc = "prune dir" /\ d = writer[w].date => d \notin DOMAIN part

DateTracked(w, d) ==
    /\ Swept(w, d)
    /\ WritesTracked(w, d)
    /\ WrittenHasRows(w, d)
    /\ FoldTracked(w, d)
    /\ PruneTracked(w, d)

WriterInv(w) ==
    Bookkeeping(w) /\ \A d \in writer[w].window : DateTracked(w, d)

\* No date is covered by two writers.
WindowsDisjoint ==
    \A v, w \in Writers : v # w => writer[v].window \cap writer[w].window = {}

IInv ==
    /\ TypeOK
    /\ RowsUnique
    /\ WindowsDisjoint
    /\ \A w \in Writers : WriterInv(w)

-----------------------------------------------------------------------------
(* Lemmas. *)

WriterRecord == [pc : Points, window : SUBSET Dates, dates : SUBSET Dates,
                 pieces : SUBSET Pieces, date : {0} \cup Dates,
                 piece : {NoPiece} \cup Pieces, written : SUBSET Dates]

LEMMA WriterTyped ==
    ASSUME TypeOK, NEW w \in Writers
    PROVE  writer \in [Writers -> WriterRecord] /\ writer[w] \in WriterRecord
BY DEF TypeOK, WriterRecord

\* One writer's record replaced.
LEMMA OneWriter ==
    ASSUME TypeOK, NEW w \in Writers, NEW rec \in WriterRecord,
           writer' = [writer EXCEPT ![w] = rec]
    PROVE  /\ writer' \in [Writers -> WriterRecord]
           /\ writer'[w] = rec
           /\ \A v \in Writers \ {w} : writer'[v] = writer[v]
BY WriterTyped

LEMMA GoneTo ==
    ASSUME TypeOK, NEW w \in Writers, NEW pc \in Points, NEW dates \in SUBSET Dates,
           Goto(w, pc, dates)
    PROVE  /\ writer' \in [Writers -> WriterRecord]
           /\ writer'[w].pc = pc /\ writer'[w].dates = dates
           /\ writer'[w].window = writer[w].window
           /\ writer'[w].pieces = writer[w].pieces
           /\ writer'[w].date = writer[w].date /\ writer'[w].piece = writer[w].piece
           /\ writer'[w].written = writer[w].written
           /\ \A v \in Writers \ {w} : writer'[v] = writer[v]
<1>1. writer[w] \in WriterRecord /\ writer \in [Writers -> WriterRecord]
  BY WriterTyped
<1> DEFINE rec == [writer[w] EXCEPT !.pc = pc, !.dates = dates]
<1>2. /\ rec \in WriterRecord /\ rec.pc = pc /\ rec.dates = dates
      /\ rec.window = writer[w].window /\ rec.pieces = writer[w].pieces
      /\ rec.date = writer[w].date /\ rec.piece = writer[w].piece
      /\ rec.written = writer[w].written
  BY <1>1 DEF WriterRecord
<1>3. writer' = [writer EXCEPT ![w] = rec]
  BY DEF Goto
<1> QED BY <1>2, <1>3, OneWriter

SameOnDisk(d) ==
    /\ d \in dirs' <=> d \in dirs
    /\ d \in DOMAIN part' <=> d \in DOMAIN part
    /\ d \in DOMAIN part => part'[d] = part[d]
    /\ d \in DOMAIN staging' <=> d \in DOMAIN staging
    /\ d \in DOMAIN staging => staging'[d] = staging[d]

\* What is known of a date holds as long as neither the date nor its writer
\* changes.
LEMMA DateKept ==
    ASSUME NEW w \in Writers, NEW d, DateTracked(w, d), SameOnDisk(d),
           writer'[w] = writer[w], fetched'[w] = fetched[w]
    PROVE  DateTracked(w, d)'
<1>1. Swept(w, d)' /\ PruneTracked(w, d)'
  BY DEF DateTracked, Swept, PruneTracked, SameOnDisk, Unstaged
<1>2. WritesTracked(w, d)'
  BY DEF DateTracked, WritesTracked, InHand, SameOnDisk, Unstaged, Staged
<1>3. WrittenHasRows(w, d)' /\ FoldTracked(w, d)'
  BY DEF DateTracked, WrittenHasRows, FoldTracked, Folded, SameOnDisk, Unstaged,
         Staged
<1> QED BY <1>1, <1>2, <1>3 DEF DateTracked

\* A step of one writer, which touches the dates it covers only, leaves what is
\* known of the others.
LEMMA OthersKept ==
    ASSUME IInv, NEW w \in Writers,
           \A v \in Writers \ {w} : writer'[v] = writer[v] /\ fetched'[v] = fetched[v],
           \A d \in Dates \ writer[w].window : SameOnDisk(d)
    PROVE  \A v \in Writers \ {w} : WriterInv(v)'
<1> SUFFICES ASSUME NEW v \in Writers, v # w PROVE WriterInv(v)'
  OBVIOUS
<1>1. WriterInv(v) /\ writer'[v] = writer[v] /\ fetched'[v] = fetched[v]
  BY DEF IInv
<1>2. Bookkeeping(v)'
  BY <1>1 DEF WriterInv, Bookkeeping
<1>3. ASSUME NEW d \in writer[v].window PROVE DateTracked(v, d)'
  <2>1. d \in Dates \ writer[w].window
    BY WriterTyped DEF IInv, WindowsDisjoint, WriterRecord
  <2> QED BY <1>1, <2>1, DateKept DEF WriterInv
<1> QED BY <1>1, <1>2, <1>3 DEF WriterInv

LEMMA WindowsKept ==
    ASSUME IInv, \A v \in Writers : writer'[v].window = writer[v].window
    PROVE  WindowsDisjoint'
BY DEF IInv, WindowsDisjoint

\* Removing and replacing the entry of one date.
LEMMA WithoutDate ==
    ASSUME NEW f, NEW d
    PROVE  /\ DOMAIN Without(f, d) = DOMAIN f \ {d}
           /\ \A e \in DOMAIN f \ {d} : Without(f, d)[e] = f[e]
BY DEF Without

LEMMA WithDate ==
    ASSUME NEW f, NEW d, NEW rows
    PROVE  /\ DOMAIN With(f, d, rows) = DOMAIN f \cup {d}
           /\ With(f, d, rows)[d] = rows
           /\ \A e \in DOMAIN f \ {d} : With(f, d, rows)[e] = f[e]
BY DEF With

LEMMA NextDateTyped ==
    ASSUME TypeOK, NEW w \in Writers, NEW d \in NextDate(w)
    PROVE  d \in writer[w].dates /\ d \in Dates
BY WriterTyped DEF NextDate, WriterRecord

-----------------------------------------------------------------------------
(* The invariant holds at first and is kept by every action. *)

LEMMA InitIInv == Init => IInv
<1> SUFFICES ASSUME Init PROVE IInv
  OBVIOUS
<1> USE WriterAssumption DEF Init
<1>1. TypeOK
  <2>1. Idle \in [pc : Points, window : SUBSET Dates, dates : SUBSET Dates,
                  pieces : SUBSET Pieces, date : {0} \cup Dates,
                  piece : {NoPiece} \cup Pieces, written : SUBSET Dates]
    BY DEF Idle, Points
  <2>2. NoRows \in [Dates -> SUBSET Row]
    BY DEF NoRows
  <2>3. provider \in [Dates -> SUBSET Row]
    BY DEF Row
  <2> QED BY <2>1, <2>2, <2>3 DEF TypeOK
<1>2. RowsUnique
  <2>1. \A d \in Dates : OneRowPerPiece(provider[d])
    BY DEF OneRowPerPiece
  <2> QED BY <2>1 DEF RowsUnique, OneRowPerPiece, NoRows
<1>3. ASSUME NEW w \in Writers PROVE WriterInv(w)
  BY DEF WriterInv, Bookkeeping, Idle
<1>4. WindowsDisjoint
  BY DEF WindowsDisjoint, Idle
<1> QED BY <1>1, <1>2, <1>3, <1>4 DEF IInv

\* What a step of one writer within its window has to show.
LEMMA WriterStep ==
    ASSUME IInv, NEW w \in Writers, TypeOK', RowsUnique',
           \A v \in Writers \ {w} : writer'[v] = writer[v] /\ fetched'[v] = fetched[v],
           \A d \in Dates \ writer[w].window : SameOnDisk(d),
           writer'[w].window = writer[w].window,
           Bookkeeping(w)',
           \A d \in writer[w].window : DateTracked(w, d)'
    PROVE  IInv'
<1>1. \A v \in Writers \ {w} : WriterInv(v)'
  BY OthersKept
<1>2. WriterInv(w)'
  BY DEF WriterInv
<1>3. WindowsDisjoint'
  BY WindowsKept
<1> QED BY <1>1, <1>2, <1>3 DEF IInv

\* A step that leaves the rows alone leaves them unique.
LEMMA RowsKept ==
    ASSUME IInv, UNCHANGED <<provider, fetched>>,
           \A d \in DOMAIN part' : d \in DOMAIN part /\ part'[d] = part[d]
    PROVE  RowsUnique'
BY DEF IInv, RowsUnique

LEMMA OpenKeeps ==
    ASSUME IInv, NEW w \in Writers, Open(w)
    PROVE  IInv'
<1> USE DEF IInv
<1>1. PICK dates \in Windows :
          /\ Free(dates)
          /\ writer' = [writer EXCEPT ![w] =
                           [Idle EXCEPT !.pc = "sweep", !.window = dates,
                                        !.dates = dates, !.pieces = Pieces]]
  BY DEF Open
<1> DEFINE rec == [Idle EXCEPT !.pc = "sweep", !.window = dates,
                               !.dates = dates, !.pieces = Pieces]
<1>2. dates \in SUBSET Dates
  <2>1. PICK a \in Dates, b \in Dates : dates = a .. b
    BY DEF Windows
  <2> QED BY <2>1, WriterAssumption DEF Dates
<1>3. /\ rec \in WriterRecord /\ rec.pc = "sweep" /\ rec.window = dates
      /\ rec.dates = dates /\ rec.written = {}
  BY <1>2 DEF Idle, WriterRecord, Points
<1> HIDE DEF rec
<1>4. /\ writer' \in [Writers -> WriterRecord] /\ writer'[w] = rec
      /\ \A v \in Writers \ {w} : writer'[v] = writer[v]
  BY <1>1, <1>3, OneWriter DEF rec
<1>5. /\ UNCHANGED <<provider, edits, dirs, part, staging, faults>>
      /\ fetched' = [fetched EXCEPT ![w] = NoRows]
  BY DEF Open, disk
<1>6. NoRows \in [Dates -> SUBSET Row]
  BY DEF NoRows
<1>7. TypeOK'
  BY <1>4, <1>5, <1>6 DEF TypeOK, WriterRecord
<1>8. fetched'[w] = NoRows /\ \A v \in Writers \ {w} : fetched'[v] = fetched[v]
  BY <1>5 DEF TypeOK
<1>9. RowsUnique'
  BY <1>5, <1>8 DEF RowsUnique, OneRowPerPiece, NoRows
<1>10. WindowsDisjoint'
  BY <1>1, <1>3, <1>4 DEF WindowsDisjoint, Free
<1>11. \A v \in Writers \ {w} : WriterInv(v)'
  BY <1>4, <1>5, <1>8, OthersKept DEF SameOnDisk
<1>12. WriterInv(w)'
  BY <1>3, <1>4, <1>8 DEF WriterInv, Bookkeeping, DateTracked, Swept,
         WritesTracked, WrittenHasRows, FoldTracked, PruneTracked
<1> QED BY <1>7, <1>9, <1>10, <1>11, <1>12

LEMMA SweepStagingKeeps ==
    ASSUME IInv, NEW w \in Writers, SweepStaging(w)
    PROVE  IInv'
<1> USE DEF IInv
<1>1. PICK d \in NextDate(w) :
          IF d \in DOMAIN staging
          THEN /\ staging' = Without(staging, d)
               /\ writer' = [writer EXCEPT ![w].pc = "rmdir", ![w].date = d]
          ELSE /\ Goto(w, "sweep", writer[w].dates \ {d})
               /\ UNCHANGED staging
  BY DEF SweepStaging
<1>2. /\ writer[w].pc = "sweep"
      /\ UNCHANGED <<provider, edits, dirs, part, fetched, faults>>
  BY DEF SweepStaging, At
<1>3. d \in writer[w].dates /\ d \in Dates
  BY NextDateTyped
<1>4. WriterInv(w) /\ Bookkeeping(w) /\ d \in writer[w].window
  BY <1>3 DEF WriterInv, Bookkeeping
<1>5. writer[w] \in WriterRecord
  BY WriterTyped
<1>6. RowsUnique'
  BY <1>2, RowsKept
<1>7. CASE d \in DOMAIN staging
  <2> DEFINE rec == [writer[w] EXCEPT !.pc = "rmdir", !.date = d]
  <2>1. /\ rec \in WriterRecord /\ rec.pc = "rmdir" /\ rec.date = d
        /\ rec.window = writer[w].window /\ rec.dates = writer[w].dates
        /\ rec.written = writer[w].written /\ rec.pieces = writer[w].pieces
    BY <1>3, <1>5 DEF WriterRecord, Points
  <2>2. writer' = [writer EXCEPT ![w] = rec] /\ staging' = Without(staging, d)
    BY <1>1, <1>7
  <2> HIDE DEF rec
  <2>3. /\ writer' \in [Writers -> WriterRecord] /\ writer'[w] = rec
        /\ \A v \in Writers \ {w} : writer'[v] = writer[v]
    BY <2>1, <2>2, OneWriter
  <2>4. /\ DOMAIN staging' = DOMAIN staging \ {d}
        /\ \A e \in DOMAIN staging \ {d} : staging'[e] = staging[e]
    BY <2>2, WithoutDate
  <2>5. TypeOK'
    BY <1>2, <2>2, <2>3 DEF TypeOK, WriterRecord, Without
  <2>6. \A e \in Dates \ {d} : SameOnDisk(e)
    BY <1>2, <2>4 DEF SameOnDisk
  <2>7. Bookkeeping(w)'
    BY <1>2, <1>3, <1>4, <2>1, <2>3 DEF Bookkeeping
  <2>8. ASSUME NEW e \in writer[w].window PROVE DateTracked(w, e)'
    <3>1. DateTracked(w, e)
      BY <1>4 DEF WriterInv
    <3>2. Swept(w, e)'
      BY <1>2, <2>1, <2>3, <2>4, <3>1 DEF DateTracked, Swept, Unstaged
    <3> QED
      BY <1>2, <1>4, <2>1, <2>3, <3>2 DEF DateTracked, WritesTracked, WrittenHasRows,
             FoldTracked, PruneTracked, Bookkeeping
  <2> QED BY <1>2, <1>4, <1>6, <2>1, <2>3, <2>5, <2>6, <2>7, <2>8, WriterStep
<1>8. CASE d \notin DOMAIN staging
  <2>1. /\ writer' \in [Writers -> WriterRecord]
        /\ writer'[w].pc = "sweep" /\ writer'[w].dates = writer[w].dates \ {d}
        /\ writer'[w].window = writer[w].window
        /\ writer'[w].pieces = writer[w].pieces
        /\ writer'[w].written = writer[w].written
        /\ \A v \in Writers \ {w} : writer'[v] = writer[v]
    <3>1. "sweep" \in Points /\ writer[w].dates \ {d} \in SUBSET Dates
      BY <1>5 DEF WriterRecord, Points
    <3> QED BY <1>1, <1>8, <3>1, GoneTo
  <2>2. UNCHANGED staging
    BY <1>1, <1>8
  <2>3. TypeOK'
    BY <1>2, <2>1, <2>2 DEF TypeOK, WriterRecord
  <2>4. \A e \in Dates : SameOnDisk(e)
    BY <1>2, <2>2 DEF SameOnDisk
  <2>5. Bookkeeping(w)'
    BY <1>2, <1>4, <2>1 DEF Bookkeeping
  <2>6. ASSUME NEW e \in writer[w].window PROVE DateTracked(w, e)'
    BY <1>2, <1>4, <1>8, <2>1, <2>2 DEF WriterInv, DateTracked, Swept, Unstaged,
           WritesTracked, WrittenHasRows, FoldTracked, PruneTracked, Bookkeeping
  <2> QED BY <1>2, <1>6, <2>1, <2>3, <2>4, <2>5, <2>6, WriterStep
<1> QED BY <1>7, <1>8

LEMMA RemoveEmptiedKeeps ==
    ASSUME IInv, NEW w \in Writers, RemoveEmptied(w)
    PROVE  IInv'
<1> USE DEF IInv
<1> DEFINE d == writer[w].date
<1>1. /\ writer[w].pc = "rmdir" /\ dirs' = dirs \ ({d} \ DOMAIN part)
      /\ Goto(w, "sweep", writer[w].dates \ {d})
      /\ UNCHANGED <<provider, edits, part, staging, fetched, faults>>
  BY DEF RemoveEmptied, At
<1>2. WriterInv(w) /\ Bookkeeping(w)
  BY DEF WriterInv
<1>3. writer[w] \in WriterRecord
  BY WriterTyped
<1>4. d \in writer[w].dates /\ d \in writer[w].window /\ d \in Dates
  BY <1>1, <1>2, <1>3 DEF Bookkeeping, WriterRecord
<1>5. Unstaged(d)
  BY <1>1, <1>2, <1>4 DEF WriterInv, DateTracked, Swept
<1>6. /\ writer' \in [Writers -> WriterRecord]
      /\ writer'[w].pc = "sweep" /\ writer'[w].dates = writer[w].dates \ {d}
      /\ writer'[w].window = writer[w].window
      /\ writer'[w].pieces = writer[w].pieces
      /\ writer'[w].written = writer[w].written
      /\ \A v \in Writers \ {w} : writer'[v] = writer[v]
  <2>1. "sweep" \in Points /\ writer[w].dates \ {d} \in SUBSET Dates
    BY <1>3 DEF WriterRecord, Points
  <2> QED BY <1>1, <2>1, GoneTo
<1> HIDE DEF d
<1>7. TypeOK'
  <2>1. DOMAIN part' \subseteq dirs' /\ DOMAIN staging' \subseteq dirs'
    BY <1>1, <1>5 DEF TypeOK, Unstaged
  <2>2. dirs' \subseteq Dates
    BY <1>1 DEF TypeOK
  <2> QED BY <1>1, <1>6, <2>1, <2>2 DEF TypeOK, WriterRecord
<1>8. RowsUnique'
  BY <1>1, RowsKept
<1>9. \A e \in Dates \ {d} : SameOnDisk(e)
  BY <1>1 DEF SameOnDisk
<1>10. Bookkeeping(w)'
  BY <1>1, <1>2, <1>6 DEF Bookkeeping
<1>11. ASSUME NEW e \in writer[w].window PROVE DateTracked(w, e)'
  <2>1. e \in writer[w].dates \ {d} \/ Unstaged(e)
    BY <1>1, <1>2 DEF WriterInv, DateTracked, Swept, d
  <2> QED
    BY <1>1, <1>2, <1>6, <2>1 DEF DateTracked, Swept, Unstaged,
           WritesTracked, WrittenHasRows, FoldTracked, PruneTracked, Bookkeeping
<1> QED BY <1>1, <1>4, <1>6, <1>7, <1>8, <1>9, <1>10, <1>11, WriterStep

LEMMA FetchPieceKeeps ==
    ASSUME IInv, NEW w \in Writers, FetchPiece(w)
    PROVE  IInv'
<1> USE DEF IInv
<1>1. /\ writer[w].pc = "write" /\ writer[w].dates = {}
      /\ UNCHANGED <<provider, edits, dirs, part, staging, faults>>
  BY DEF FetchPiece, At, disk
<1>2. PICK p \in writer[w].pieces :
          LET rows(d) == {r \in provider[d] : r.piece = p}
              found == {d \in writer[w].window : rows(d) # {}}
          IN  /\ writer' = [writer EXCEPT ![w].pieces = @ \ {p},
                                          ![w].piece = p, ![w].dates = found]
              /\ fetched' = [fetched EXCEPT ![w] =
                                [d \in Dates |-> IF d \in found
                                                 THEN @[d] \cup rows(d)
                                                 ELSE @[d]]]
  BY DEF FetchPiece
<1> DEFINE rows(d) == {r \in provider[d] : r.piece = p}
           found == {d \in writer[w].window : rows(d) # {}}
           rec == [writer[w] EXCEPT !.pieces = @ \ {p}, !.piece = p, !.dates = found]
           now == [d \in Dates |-> IF d \in found THEN fetched[w][d] \cup rows(d)
                                                  ELSE fetched[w][d]]
<1>3. writer[w] \in WriterRecord /\ WriterInv(w) /\ Bookkeeping(w)
  BY WriterTyped DEF WriterInv
<1>4. /\ rec \in WriterRecord /\ rec.pc = "write" /\ rec.dates = found
      /\ rec.window = writer[w].window /\ rec.piece = p
      /\ rec.pieces = writer[w].pieces \ {p} /\ rec.written = writer[w].written
  BY <1>1, <1>2, <1>3 DEF WriterRecord
<1>5. writer' = [writer EXCEPT ![w] = rec]
  BY <1>2
<1> HIDE DEF rec
<1>6. /\ writer' \in [Writers -> WriterRecord] /\ writer'[w] = rec
      /\ \A v \in Writers \ {w} : writer'[v] = writer[v]
  BY <1>4, <1>5, OneWriter
<1>7. /\ fetched[w] \in [Dates -> SUBSET Row]
      /\ \A d \in Dates : provider[d] \in SUBSET Row
  BY DEF TypeOK
<1>8. now \in [Dates -> SUBSET Row]
  BY <1>7
<1>9. fetched' = [fetched EXCEPT ![w] = now]
  BY <1>2, Zenon
<1>10. fetched'[w] = now /\ \A v \in Writers \ {w} : fetched'[v] = fetched[v]
  BY <1>9 DEF TypeOK
<1>11. TypeOK'
  <2>1. fetched' \in [Writers -> [Dates -> SUBSET Row]]
    BY <1>8, <1>9 DEF TypeOK
  <2> QED BY <1>1, <1>6, <2>1 DEF TypeOK, WriterRecord
<1>12. ASSUME NEW d \in Dates
       PROVE  /\ \A r \in fetched[w][d] : r.piece \notin writer[w].pieces /\ r.piece # p
              /\ d \in found => now[d] = fetched[w][d] \cup rows(d)
              /\ d \notin found => now[d] = fetched[w][d]
  BY <1>1, <1>2, <1>3 DEF Bookkeeping
<1> HIDE DEF now, found
<1>13. RowsUnique'
  <2>1. ASSUME NEW d \in Dates PROVE OneRowPerPiece(now[d])
    <3>1. OneRowPerPiece(fetched[w][d]) /\ OneRowPerPiece(provider[d])
      BY DEF RowsUnique
    <3> QED BY <1>12, <3>1 DEF OneRowPerPiece
  <2> QED BY <1>1, <1>10, <2>1 DEF RowsUnique
<1>14. Bookkeeping(w)'
  <2>1. ASSUME NEW d \in Dates, NEW r \in fetched'[w][d]
        PROVE  r.piece \notin rec.pieces
    BY <1>4, <1>10, <1>12
  <2>2. found \subseteq writer[w].window
    BY DEF found
  <2> QED BY <1>3, <1>4, <1>6, <2>1, <2>2 DEF Bookkeeping
<1>15. ASSUME NEW d \in writer[w].window PROVE DateTracked(w, d)'
  <2>1. d \in Dates /\ WritesTracked(w, d)
    BY <1>3 DEF WriterInv, DateTracked, WriterRecord
  <2>2. IF d \in writer[w].written
        THEN fetched[w][d] # {} /\ Staged(d, fetched[w][d])
        ELSE fetched[w][d] = {} /\ Unstaged(d)
    BY <1>1, <2>1 DEF WritesTracked
  <2>3. InHand(w, d)' = {r \in now[d] : r.piece = p}
    BY <1>4, <1>6, <1>10 DEF InHand
  <2>4. d \in found <=> rows(d) # {}
    BY DEF found
  <2>5. \A r : Staged(d, r)' <=> Staged(d, r)
    BY <1>1 DEF Staged
  <2>6. Unstaged(d)' <=> Unstaged(d)
    BY <1>1 DEF Unstaged
  <2>7. WritesTracked(w, d)'
    <3>1. CASE d \in found
      <4>1. InHand(w, d)' = rows(d) /\ rows(d) # {}
            /\ fetched'[w][d] \ rows(d) = fetched[w][d]
            /\ fetched'[w][d] = fetched[w][d] \cup rows(d)
        BY <1>10, <1>12, <2>1, <2>3, <2>4, <3>1
      <4> HIDE DEF rows
      <4>2. fetched[w][d] = {} => fetched'[w][d] = rows(d)
        BY <4>1
      <4> QED BY <1>4, <1>6, <2>2, <2>5, <2>6, <3>1, <4>1, <4>2 DEF WritesTracked
    <3>2. CASE d \notin found
      <4>1. fetched'[w][d] = fetched[w][d]
        BY <1>10, <1>12, <2>1, <3>2
      <4> QED BY <1>4, <1>6, <2>2, <2>5, <2>6, <3>2, <4>1 DEF WritesTracked
    <3> QED BY <3>1, <3>2
  <2> QED
    BY <1>4, <1>6, <2>7 DEF DateTracked, Swept, WrittenHasRows, FoldTracked,
           PruneTracked
<1> QED BY <1>1, <1>4, <1>6, <1>10, <1>11, <1>13, <1>14, <1>15, WriterStep DEF SameOnDisk

LEMMA MakeStagingKeeps ==
    ASSUME IInv, NEW w \in Writers, MakeStaging(w)
    PROVE  IInv'
<1> USE DEF IInv
<1>1. PICK d \in NextDate(w) :
          /\ d \notin DOMAIN staging
          /\ staging' = With(staging, d, {}) /\ dirs' = dirs \cup {d}
  BY DEF MakeStaging
<1>2. /\ writer[w].pc = "write"
      /\ UNCHANGED <<provider, edits, part, writer, fetched, faults>>
  BY DEF MakeStaging, At
<1>3. d \in writer[w].dates /\ d \in Dates
  BY NextDateTyped
<1>4. WriterInv(w) /\ Bookkeeping(w) /\ d \in writer[w].window
  BY <1>3 DEF WriterInv, Bookkeeping
<1>5. /\ DOMAIN staging' = DOMAIN staging \cup {d} /\ staging'[d] = {}
      /\ \A e \in DOMAIN staging \ {d} : staging'[e] = staging[e]
  <2> DEFINE more == With(staging, d, {})
  <2>1. /\ DOMAIN more = DOMAIN staging \cup {d} /\ more[d] = {}
        /\ \A e \in DOMAIN staging \ {d} : more[e] = staging[e]
    BY DEF With
  <2> QED BY <1>1, <2>1
<1>6. TypeOK'
  <2>1. staging' \in [DOMAIN staging' -> SUBSET Row]
    BY <1>1 DEF TypeOK, With
  <2> QED BY <1>1, <1>2, <1>3, <1>5, <2>1 DEF TypeOK
<1>7. \A e \in Dates \ {d} : SameOnDisk(e)
  BY <1>1, <1>2, <1>5 DEF SameOnDisk
<1>8. Bookkeeping(w)'
  BY <1>2, <1>4 DEF Bookkeeping
<1>9. ASSUME NEW e \in writer[w].window PROVE DateTracked(w, e)'
  <2>1. DateTracked(w, e) /\ e \in Dates
    BY <1>4, WriterTyped DEF WriterInv, WriterRecord
  <2>2. CASE e # d
    BY <1>2, <1>7, <2>1, <2>2, DateKept
  <2>3. CASE e = d
    <3>1. WritesTracked(w, d)'
      BY <1>1, <1>2, <1>3, <1>5, <2>1, <2>3
         DEF DateTracked, WritesTracked, InHand, Staged, Unstaged
    <3> QED
      BY <1>2, <2>1, <2>3, <3>1 DEF DateTracked, Swept, WrittenHasRows, FoldTracked,
             PruneTracked
  <2> QED BY <2>2, <2>3
<1>10. RowsUnique'
  BY <1>2, RowsKept
<1> QED BY <1>2, <1>4, <1>6, <1>7, <1>8, <1>9, <1>10, WriterStep

LEMMA StageShardKeeps ==
    ASSUME IInv, NEW w \in Writers, StageShard(w)
    PROVE  IInv'
<1> USE DEF IInv
<1>1. PICK d \in NextDate(w) :
          /\ d \in DOMAIN staging
          /\ staging' = [staging EXCEPT ![d] = @ \cup
                {r \in fetched[w][d] : r.piece = writer[w].piece}]
          /\ writer' = [writer EXCEPT ![w].dates = @ \ {d},
                                      ![w].written = @ \cup {d}]
  BY DEF StageShard
<1>2. /\ writer[w].pc = "write"
      /\ UNCHANGED <<provider, edits, dirs, part, fetched, faults>>
  BY DEF StageShard, At
<1>3. d \in writer[w].dates /\ d \in Dates
  BY NextDateTyped
<1>4. WriterInv(w) /\ Bookkeeping(w) /\ d \in writer[w].window
  BY <1>3 DEF WriterInv, Bookkeeping
<1> DEFINE rec == [writer[w] EXCEPT !.dates = @ \ {d}, !.written = @ \cup {d}]
<1>5. writer[w] \in WriterRecord
  BY WriterTyped
<1>6. /\ rec \in WriterRecord /\ rec.pc = "write" /\ rec.piece = writer[w].piece
      /\ rec.window = writer[w].window /\ rec.dates = writer[w].dates \ {d}
      /\ rec.written = writer[w].written \cup {d} /\ rec.pieces = writer[w].pieces
  BY <1>2, <1>3, <1>5 DEF WriterRecord
<1>7. writer' = [writer EXCEPT ![w] = rec]
  BY <1>1
<1> HIDE DEF rec
<1>8. /\ writer' \in [Writers -> WriterRecord] /\ writer'[w] = rec
      /\ \A v \in Writers \ {w} : writer'[v] = writer[v]
  BY <1>6, <1>7, OneWriter
<1>9. /\ DOMAIN staging' = DOMAIN staging /\ staging'[d] = staging[d] \cup InHand(w, d)
      /\ \A e \in DOMAIN staging \ {d} : staging'[e] = staging[e]
  BY <1>1 DEF InHand
<1>10. TypeOK'
  <2>1. staging[d] \in SUBSET Row /\ InHand(w, d) \in SUBSET Row
    BY <1>1, <1>3 DEF TypeOK, InHand
  <2>2. staging' = [staging EXCEPT ![d] = staging[d] \cup InHand(w, d)]
    BY <1>1 DEF InHand
  <2>3. staging' \in [DOMAIN staging' -> SUBSET Row]
    BY <1>9, <2>1, <2>2 DEF TypeOK
  <2> QED BY <1>2, <1>8, <1>9, <2>3 DEF TypeOK, WriterRecord
<1>11. \A e \in Dates \ {d} : SameOnDisk(e)
  BY <1>2, <1>9 DEF SameOnDisk
<1>12. Bookkeeping(w)'
  BY <1>2, <1>4, <1>6, <1>8 DEF Bookkeeping
<1>13. ASSUME NEW e \in writer[w].window PROVE DateTracked(w, e)'
  <2>1. WritesTracked(w, e) /\ e \in Dates
    BY <1>4, <1>5 DEF WriterInv, DateTracked, WriterRecord
  <2>2. InHand(w, e)' = InHand(w, e)
    BY <1>2, <1>6, <1>8 DEF InHand
  <2>3. InHand(w, e) \subseteq fetched[w][e]
    BY DEF InHand
  <2>4. CASE e # d
    BY <1>2, <1>6, <1>8, <1>9, <2>1, <2>2, <2>4 DEF DateTracked, WritesTracked,
       Staged, Unstaged, Swept, WrittenHasRows, FoldTracked, PruneTracked
  <2>5. CASE e = d
    <3>1. staging'[d] = fetched[w][d] /\ fetched[w][d] # {}
      <4>1. /\ InHand(w, d) # {}
            /\ \/ staging[d] = fetched[w][d] \ InHand(w, d)
               \/ staging[d] = {} /\ fetched[w][d] = InHand(w, d)
        BY <1>1, <1>2, <1>3, <2>1, <2>5 DEF WritesTracked, Staged, Unstaged
      <4> QED BY <1>9, <2>3, <2>5, <4>1
    <3>2. WritesTracked(w, d)'
      BY <1>1, <1>2, <1>6, <1>8, <1>9, <3>1 DEF WritesTracked, Staged
    <3> QED
      BY <1>2, <1>6, <1>8, <2>5, <3>2 DEF DateTracked, Swept, WrittenHasRows,
             FoldTracked, PruneTracked
  <2> QED BY <2>4, <2>5
<1>14. RowsUnique'
  BY <1>2, RowsKept
<1> QED BY <1>2, <1>4, <1>6, <1>8, <1>10, <1>11, <1>12, <1>13, <1>14, WriterStep

LEMMA CompactKeeps ==
    ASSUME IInv, NEW w \in Writers, Compact(w)
    PROVE  IInv'
<1> USE DEF IInv
<1>1. PICK d \in NextDate(w) :
          /\ d \in DOMAIN staging
          /\ part' = With(part, d, staging[d])
          /\ Goto(w, "compact", writer[w].dates \ {d})
  BY DEF Compact
<1>2. /\ writer[w].pc = "compact"
      /\ UNCHANGED <<provider, edits, dirs, staging, fetched, faults>>
  BY DEF Compact, At
<1>3. d \in writer[w].dates /\ d \in Dates /\ writer[w] \in WriterRecord
  BY NextDateTyped, WriterTyped
<1>4. /\ WriterInv(w) /\ Bookkeeping(w)
      /\ d \in writer[w].window /\ d \in writer[w].written
  BY <1>2, <1>3 DEF WriterInv, Bookkeeping
<1>5. /\ writer' \in [Writers -> WriterRecord]
      /\ writer'[w].pc = "compact" /\ writer'[w].dates = writer[w].dates \ {d}
      /\ writer'[w].window = writer[w].window
      /\ writer'[w].pieces = writer[w].pieces
      /\ writer'[w].written = writer[w].written
      /\ \A v \in Writers \ {w} : writer'[v] = writer[v]
  <2>1. "compact" \in Points /\ writer[w].dates \ {d} \in SUBSET Dates
    BY <1>3 DEF WriterRecord, Points
  <2> QED BY <1>1, <2>1, GoneTo
<1>6. staging[d] = fetched[w][d]
  BY <1>2, <1>4 DEF WriterInv, DateTracked, FoldTracked, Staged
<1>7. /\ DOMAIN part' = DOMAIN part \cup {d} /\ part'[d] = fetched[w][d]
      /\ \A e \in DOMAIN part \ {d} : part'[e] = part[e]
  BY <1>1, <1>6 DEF With
<1>8. TypeOK'
  <2>1. part' \in [DOMAIN part' -> SUBSET Row]
    BY <1>1, <1>2 DEF TypeOK, With
  <2> QED BY <1>1, <1>2, <1>5, <1>7, <2>1 DEF TypeOK, WriterRecord
<1>9. RowsUnique'
  <2>1. OneRowPerPiece(fetched[w][d])
    BY <1>3 DEF RowsUnique
  <2>2. ASSUME NEW e \in DOMAIN part' PROVE OneRowPerPiece(part'[e])
    BY <1>7, <2>1 DEF RowsUnique
  <2> QED BY <1>2, <2>2 DEF RowsUnique
<1>10. \A e \in Dates \ {d} : SameOnDisk(e)
  BY <1>2, <1>7 DEF SameOnDisk
<1>11. Bookkeeping(w)'
  BY <1>2, <1>4, <1>5 DEF Bookkeeping
<1>12. ASSUME NEW e \in writer[w].window PROVE DateTracked(w, e)'
  <2>1. DateTracked(w, e)
    BY <1>4 DEF WriterInv
  <2>2. e # d => (Folded(w, e) => Folded(w, e)')
    BY <1>2, <1>7 DEF Folded
  <2>3. Folded(w, d)'
    BY <1>2, <1>7 DEF Folded
  <2>4. FoldTracked(w, e)'
    BY <1>2, <1>5, <2>1, <2>2, <2>3 DEF DateTracked, FoldTracked, Staged
  <2>5. WrittenHasRows(w, e)'
    BY <1>2, <1>5, <2>1 DEF DateTracked, WrittenHasRows, Unstaged
  <2> QED BY <1>5, <2>4, <2>5 DEF DateTracked, Swept, WritesTracked, PruneTracked
<1> QED BY <1>2, <1>4, <1>5, <1>8, <1>9, <1>10, <1>11, <1>12, WriterStep

LEMMA ClearStagingKeeps ==
    ASSUME IInv, NEW w \in Writers, ClearStaging(w)
    PROVE  IInv'
<1> USE DEF IInv
<1>1. PICK d \in NextDate(w) :
          /\ staging' = Without(staging, d)
          /\ Goto(w, "clear", writer[w].dates \ {d})
  BY DEF ClearStaging
<1>2. /\ writer[w].pc = "clear"
      /\ UNCHANGED <<provider, edits, dirs, part, fetched, faults>>
  BY DEF ClearStaging, At
<1>3. d \in writer[w].dates /\ d \in Dates /\ writer[w] \in WriterRecord
  BY NextDateTyped, WriterTyped
<1>4. /\ WriterInv(w) /\ Bookkeeping(w)
      /\ d \in writer[w].window /\ d \in writer[w].written
  BY <1>2, <1>3 DEF WriterInv, Bookkeeping
<1>5. /\ writer' \in [Writers -> WriterRecord]
      /\ writer'[w].pc = "clear" /\ writer'[w].dates = writer[w].dates \ {d}
      /\ writer'[w].window = writer[w].window
      /\ writer'[w].pieces = writer[w].pieces
      /\ writer'[w].written = writer[w].written
      /\ \A v \in Writers \ {w} : writer'[v] = writer[v]
  <2>1. "clear" \in Points /\ writer[w].dates \ {d} \in SUBSET Dates
    BY <1>3 DEF WriterRecord, Points
  <2> QED BY <1>1, <2>1, GoneTo
<1>6. /\ DOMAIN staging' = DOMAIN staging \ {d}
      /\ \A e \in DOMAIN staging \ {d} : staging'[e] = staging[e]
  BY <1>1, WithoutDate
<1>7. TypeOK'
  BY <1>1, <1>2, <1>5 DEF TypeOK, WriterRecord, Without
<1>8. RowsUnique'
  BY <1>2, RowsKept
<1>9. \A e \in Dates \ {d} : SameOnDisk(e)
  BY <1>2, <1>6 DEF SameOnDisk
<1>10. Bookkeeping(w)'
  BY <1>2, <1>4, <1>5 DEF Bookkeeping
<1>11. ASSUME NEW e \in writer[w].window PROVE DateTracked(w, e)'
  <2>1. DateTracked(w, e)
    BY <1>4 DEF WriterInv
  <2>2. Unstaged(e) \/ e = d => Unstaged(e)'
    BY <1>6 DEF Unstaged
  <2>3. FoldTracked(w, e)'
    BY <1>2, <1>5, <2>1, <2>2 DEF DateTracked, FoldTracked, Folded
  <2>4. WrittenHasRows(w, e)'
    BY <1>2, <1>5, <2>1, <2>2 DEF DateTracked, WrittenHasRows
  <2> QED BY <1>5, <2>3, <2>4 DEF DateTracked, Swept, WritesTracked, PruneTracked
<1> QED BY <1>2, <1>4, <1>5, <1>7, <1>8, <1>9, <1>10, <1>11, WriterStep

LEMMA PruneContentsKeeps ==
    ASSUME IInv, NEW w \in Writers, PruneContents(w)
    PROVE  IInv'
<1> USE DEF IInv
<1>1. PICK d \in NextDate(w) :
          /\ part' = Without(part, d)
          /\ staging' = Without(staging, d)
          /\ writer' = [writer EXCEPT ![w].pc = "prune dir", ![w].date = d]
  BY DEF PruneContents
<1>2. /\ writer[w].pc = "prune"
      /\ UNCHANGED <<provider, edits, dirs, fetched, faults>>
  BY DEF PruneContents, At
<1>3. d \in writer[w].dates /\ d \in Dates /\ writer[w] \in WriterRecord
  BY NextDateTyped, WriterTyped
<1>4. /\ WriterInv(w) /\ Bookkeeping(w)
      /\ d \in writer[w].window /\ d \notin writer[w].written
  BY <1>2, <1>3 DEF WriterInv, Bookkeeping
<1> DEFINE rec == [writer[w] EXCEPT !.pc = "prune dir", !.date = d]
<1>5. /\ rec \in WriterRecord /\ rec.pc = "prune dir" /\ rec.date = d
      /\ rec.window = writer[w].window /\ rec.dates = writer[w].dates
      /\ rec.written = writer[w].written /\ rec.pieces = writer[w].pieces
  BY <1>3 DEF WriterRecord, Points
<1>6. writer' = [writer EXCEPT ![w] = rec]
  BY <1>1
<1> HIDE DEF rec
<1>7. /\ writer' \in [Writers -> WriterRecord] /\ writer'[w] = rec
      /\ \A v \in Writers \ {w} : writer'[v] = writer[v]
  BY <1>5, <1>6, OneWriter
<1>8. /\ DOMAIN staging' = DOMAIN staging \ {d}
      /\ \A e \in DOMAIN staging \ {d} : staging'[e] = staging[e]
      /\ DOMAIN part' = DOMAIN part \ {d}
      /\ \A e \in DOMAIN part \ {d} : part'[e] = part[e]
  BY <1>1, WithoutDate
<1>9. TypeOK'
  BY <1>1, <1>2, <1>7 DEF TypeOK, WriterRecord, Without
<1>10. RowsUnique'
  BY <1>2, <1>8, RowsKept
<1>11. \A e \in Dates \ {d} : SameOnDisk(e)
  BY <1>2, <1>8 DEF SameOnDisk
<1>12. Bookkeeping(w)'
  BY <1>2, <1>3, <1>4, <1>5, <1>7 DEF Bookkeeping
<1>13. ASSUME NEW e \in writer[w].window PROVE DateTracked(w, e)'
  <2>1. DateTracked(w, e)
    BY <1>4 DEF WriterInv
  <2>2. Unstaged(e) => Unstaged(e)'
    BY <1>8 DEF Unstaged
  <2>3. e # d => (Folded(w, e) => Folded(w, e)')
    BY <1>2, <1>8 DEF Folded
  <2>4. FoldTracked(w, e)'
    BY <1>2, <1>4, <1>5, <1>7, <2>1, <2>2, <2>3 DEF DateTracked, FoldTracked
  <2>5. WrittenHasRows(w, e)'
    BY <1>2, <1>5, <1>7, <2>1, <2>2 DEF DateTracked, WrittenHasRows
  <2>6. PruneTracked(w, e)'
    BY <1>2, <1>5, <1>7, <1>8, <2>1 DEF DateTracked, PruneTracked
  <2> QED BY <1>5, <1>7, <2>4, <2>5, <2>6 DEF DateTracked, Swept, WritesTracked
<1> QED BY <1>2, <1>4, <1>5, <1>7, <1>9, <1>10, <1>11, <1>12, <1>13, WriterStep

LEMMA PruneDirectoryKeeps ==
    ASSUME IInv, NEW w \in Writers, PruneDirectory(w)
    PROVE  IInv'
<1> USE DEF IInv
<1> DEFINE d == writer[w].date
<1>1. /\ writer[w].pc = "prune dir" /\ dirs' = dirs \ {d}
      /\ Goto(w, "prune", writer[w].dates \ {d})
      /\ UNCHANGED <<provider, edits, part, staging, fetched, faults>>
  BY DEF PruneDirectory, At
<1>2. WriterInv(w) /\ Bookkeeping(w) /\ writer[w] \in WriterRecord
  BY WriterTyped DEF WriterInv
<1>3. /\ d \in writer[w].dates /\ d \in writer[w].window
      /\ d \in Dates /\ d \notin writer[w].written
  BY <1>1, <1>2 DEF Bookkeeping, WriterRecord
<1>4. d \notin DOMAIN part /\ d \notin DOMAIN staging
  BY <1>1, <1>2, <1>3 DEF WriterInv, DateTracked, PruneTracked, WrittenHasRows, Unstaged
<1>5. /\ writer' \in [Writers -> WriterRecord]
      /\ writer'[w].pc = "prune" /\ writer'[w].dates = writer[w].dates \ {d}
      /\ writer'[w].window = writer[w].window
      /\ writer'[w].pieces = writer[w].pieces
      /\ writer'[w].written = writer[w].written
      /\ \A v \in Writers \ {w} : writer'[v] = writer[v]
  <2>1. "prune" \in Points /\ writer[w].dates \ {d} \in SUBSET Dates
    BY <1>2 DEF WriterRecord, Points
  <2> QED BY <1>1, <2>1, GoneTo
<1> HIDE DEF d
<1>6. TypeOK'
  <2>1. /\ DOMAIN part' \subseteq dirs' /\ DOMAIN staging' \subseteq dirs'
        /\ dirs' \subseteq Dates
    BY <1>1, <1>4 DEF TypeOK
  <2> QED BY <1>1, <1>5, <2>1 DEF TypeOK, WriterRecord
<1>7. RowsUnique'
  BY <1>1, RowsKept
<1>8. \A e \in Dates \ {d} : SameOnDisk(e)
  BY <1>1 DEF SameOnDisk
<1>9. Bookkeeping(w)'
  BY <1>1, <1>2, <1>5 DEF Bookkeeping
<1>10. ASSUME NEW e \in writer[w].window PROVE DateTracked(w, e)'
  <2>1. DateTracked(w, e)
    BY <1>2 DEF WriterInv
  <2>2. FoldTracked(w, e)'
    BY <1>1, <1>5, <2>1 DEF DateTracked, FoldTracked, Folded, Unstaged
  <2>3. WrittenHasRows(w, e)'
    BY <1>1, <1>5, <2>1 DEF DateTracked, WrittenHasRows, Unstaged
  <2>4. PruneTracked(w, e)'
    BY <1>1, <1>5, <2>1 DEF DateTracked, PruneTracked
  <2> QED BY <1>5, <2>2, <2>3, <2>4 DEF DateTracked, Swept, WritesTracked
<1> QED BY <1>1, <1>3, <1>5, <1>6, <1>7, <1>8, <1>9, <1>10, WriterStep

\* Between two loops: the disk and the rows fetched stay as they are.
LEMMA TurnsTo ==
    ASSUME IInv, NEW w \in Writers, NEW pc \in Points,
           NEW dates \in SUBSET writer[w].window, Goto(w, pc, dates),
           UNCHANGED <<provider, edits, disk, fetched, faults>>
    PROVE  /\ writer'[w].pc = pc /\ writer'[w].dates = dates
           /\ writer'[w].window = writer[w].window
           /\ writer'[w].pieces = writer[w].pieces
           /\ writer'[w].piece = writer[w].piece
           /\ writer'[w].written = writer[w].written
           /\ /\ Bookkeeping(w)'
              /\ \A d \in writer[w].window : DateTracked(w, d)'
              => IInv'
<1> USE DEF IInv
<1>1. dates \in SUBSET Dates
  BY WriterTyped DEF WriterRecord
<1>2. /\ writer' \in [Writers -> WriterRecord]
      /\ writer'[w].pc = pc /\ writer'[w].dates = dates
      /\ writer'[w].window = writer[w].window
      /\ writer'[w].pieces = writer[w].pieces
      /\ writer'[w].piece = writer[w].piece
      /\ writer'[w].written = writer[w].written
      /\ \A v \in Writers \ {w} : writer'[v] = writer[v]
  BY <1>1, GoneTo
<1>3. TypeOK'
  BY <1>2 DEF TypeOK, WriterRecord, disk
<1>4. RowsUnique'
  BY RowsKept DEF disk
<1>5. \A d \in Dates : SameOnDisk(d)
  BY DEF SameOnDisk, disk
<1> QED BY <1>2, <1>3, <1>4, <1>5, WriterStep DEF disk

LEMMA TurnKeeps ==
    ASSUME IInv, NEW w \in Writers, Turn(w)
    PROVE  IInv'
<1> USE DEF IInv
<1>1. /\ writer[w].dates = {} /\ UNCHANGED <<provider, edits, disk, fetched, faults>>
      /\ UNCHANGED <<dirs, part, staging, fetched>>
  BY DEF Turn, disk
<1>2. WriterInv(w) /\ Bookkeeping(w) /\ writer[w] \in WriterRecord
  BY WriterTyped DEF WriterInv
<1>3. {} \in SUBSET writer[w].window /\ writer[w].written \in SUBSET writer[w].window
      /\ Stale(w) \in SUBSET writer[w].window
  BY <1>2 DEF Bookkeeping, Stale
<1>4. /\ "write" \in Points /\ "compact" \in Points /\ "clear" \in Points
      /\ "prune" \in Points /\ "closed" \in Points
  BY DEF Points
<1>5. ASSUME NEW d
      PROVE  /\ Unstaged(d)' <=> Unstaged(d)
             /\ Folded(w, d)' <=> Folded(w, d)
             /\ \A rows : Staged(d, rows)' <=> Staged(d, rows)
  BY <1>1 DEF Unstaged, Folded, Staged
<1>6. CASE writer[w].pc = "sweep" /\ Goto(w, "write", {})
  <2>1. /\ writer'[w].pc = "write" /\ writer'[w].dates = {}
        /\ writer'[w].window = writer[w].window
        /\ writer'[w].written = writer[w].written
        /\ /\ Bookkeeping(w)'
           /\ \A d \in writer[w].window : DateTracked(w, d)'
           => IInv'
    BY <1>1, <1>3, <1>4, <1>6, TurnsTo
  <2>2. fetched[w] = NoRows /\ writer[w].written = {}
    BY <1>2, <1>6 DEF Bookkeeping
  <2>3. \A d \in Dates : fetched'[w][d] = {}
    BY <1>1, <2>2 DEF NoRows
  <2>4. Bookkeeping(w)'
    BY <2>1, <2>2, <2>3 DEF Bookkeeping
  <2>5. ASSUME NEW d \in writer[w].window PROVE DateTracked(w, d)'
    <3>1. Unstaged(d) /\ d \in Dates
      BY <1>1, <1>2, <1>6 DEF WriterInv, DateTracked, Swept, WriterRecord
    <3> QED
      BY <1>5, <2>1, <2>2, <2>3, <3>1 DEF DateTracked, Swept, WritesTracked,
             WrittenHasRows, FoldTracked, PruneTracked
  <2> QED BY <2>1, <2>4, <2>5
<1>7. CASE /\ writer[w].pc = "write" /\ writer[w].pieces = {}
           /\ Goto(w, "compact", writer[w].written)
  <2>1. /\ writer'[w].pc = "compact" /\ writer'[w].dates = writer[w].written
        /\ writer'[w].window = writer[w].window
        /\ writer'[w].pieces = {} /\ writer'[w].written = writer[w].written
        /\ /\ Bookkeeping(w)'
           /\ \A d \in writer[w].window : DateTracked(w, d)'
           => IInv'
    BY <1>1, <1>3, <1>4, <1>7, TurnsTo
  <2>2. Bookkeeping(w)'
    BY <1>2, <2>1 DEF Bookkeeping
  <2>3. ASSUME NEW d \in writer[w].window PROVE DateTracked(w, d)'
    <3>1. IF d \in writer[w].written
          THEN fetched[w][d] # {} /\ Staged(d, fetched[w][d])
          ELSE fetched[w][d] = {} /\ Unstaged(d)
      BY <1>1, <1>2, <1>7 DEF WriterInv, DateTracked, WritesTracked
    <3> QED
      BY <1>1, <1>5, <2>1, <3>1 DEF DateTracked, Swept, WritesTracked,
             WrittenHasRows, FoldTracked, PruneTracked
  <2> QED BY <2>1, <2>2, <2>3
<1>8. CASE writer[w].pc = "compact" /\ Goto(w, "clear", writer[w].written)
  <2>1. /\ writer'[w].pc = "clear" /\ writer'[w].dates = writer[w].written
        /\ writer'[w].window = writer[w].window
        /\ writer'[w].pieces = writer[w].pieces
        /\ writer'[w].written = writer[w].written
        /\ /\ Bookkeeping(w)'
           /\ \A d \in writer[w].window : DateTracked(w, d)'
           => IInv'
    BY <1>1, <1>3, <1>4, <1>8, TurnsTo
  <2>2. Bookkeeping(w)'
    BY <1>2, <1>8, <2>1 DEF Bookkeeping
  <2>3. ASSUME NEW d \in writer[w].window PROVE DateTracked(w, d)'
    <3>1. WrittenHasRows(w, d) /\ (d \in writer[w].written => Folded(w, d))
      BY <1>1, <1>2, <1>8 DEF WriterInv, DateTracked, FoldTracked
    <3> QED
      BY <1>1, <1>5, <1>8, <2>1, <3>1 DEF DateTracked, Swept, WritesTracked,
             WrittenHasRows, FoldTracked, PruneTracked
  <2> QED BY <2>1, <2>2, <2>3
<1>9. CASE writer[w].pc = "clear" /\ Goto(w, "prune", Stale(w))
  <2>1. /\ writer'[w].pc = "prune" /\ writer'[w].dates = Stale(w)
        /\ writer'[w].window = writer[w].window
        /\ writer'[w].pieces = writer[w].pieces
        /\ writer'[w].written = writer[w].written
        /\ /\ Bookkeeping(w)'
           /\ \A d \in writer[w].window : DateTracked(w, d)'
           => IInv'
    BY <1>1, <1>3, <1>4, <1>9, TurnsTo
  <2>2. Bookkeeping(w)'
    BY <1>2, <1>9, <2>1 DEF Bookkeeping, Stale
  <2>3. ASSUME NEW d \in writer[w].window PROVE DateTracked(w, d)'
    <3>1. /\ WrittenHasRows(w, d)
          /\ d \in writer[w].written => Folded(w, d) /\ Unstaged(d)
      BY <1>1, <1>2, <1>9 DEF WriterInv, DateTracked, FoldTracked
    <3>2. d \notin writer[w].written => d \in Stale(w) \/ d \notin dirs
      BY DEF Stale
    <3> QED
      BY <1>1, <1>5, <1>9, <2>1, <3>1, <3>2 DEF DateTracked, Swept, WritesTracked,
             WrittenHasRows, FoldTracked, PruneTracked
  <2> QED BY <2>1, <2>2, <2>3
<1>10. CASE writer[w].pc = "prune" /\ Goto(w, "closed", {})
  <2>1. /\ writer'[w].pc = "closed" /\ writer'[w].dates = {}
        /\ writer'[w].window = writer[w].window
        /\ writer'[w].written = writer[w].written
        /\ /\ Bookkeeping(w)'
           /\ \A d \in writer[w].window : DateTracked(w, d)'
           => IInv'
    BY <1>1, <1>3, <1>4, <1>10, TurnsTo
  <2>2. Bookkeeping(w)'
    BY <1>2, <1>10, <2>1 DEF Bookkeeping
  <2>3. ASSUME NEW d \in writer[w].window PROVE DateTracked(w, d)'
    <3>1. /\ WrittenHasRows(w, d)
          /\ d \in writer[w].written => Folded(w, d) /\ Unstaged(d)
          /\ d \notin writer[w].written => d \notin dirs
      BY <1>1, <1>2, <1>10 DEF WriterInv, DateTracked, FoldTracked, PruneTracked
    <3> QED
      BY <1>1, <1>5, <1>10, <2>1, <3>1 DEF DateTracked, Swept, WritesTracked,
             WrittenHasRows, FoldTracked, PruneTracked
  <2> QED BY <2>1, <2>2, <2>3
<1> QED BY <1>6, <1>7, <1>8, <1>9, <1>10 DEF Turn, At


LEMMA IdleTyped == Idle \in WriterRecord
BY DEF Idle, WriterRecord, Points

\* A writer closes or fails.
LEMMA ToIdleKeeps ==
    ASSUME IInv, NEW w \in Writers, writer' = [writer EXCEPT ![w] = Idle],
           UNCHANGED <<provider, edits, dirs, part, staging, fetched>>,
           faults' \in 0 .. MaxFaults
    PROVE  IInv'
<1> USE DEF IInv
<1>1. /\ writer' \in [Writers -> WriterRecord] /\ writer'[w] = Idle
      /\ \A v \in Writers \ {w} : writer'[v] = writer[v]
  BY IdleTyped, OneWriter
<1>2. TypeOK'
  BY <1>1 DEF TypeOK, WriterRecord
<1>3. RowsUnique'
  BY RowsKept
<1>4. WindowsDisjoint'
  BY <1>1 DEF WindowsDisjoint, Idle
<1>5. \A v \in Writers \ {w} : WriterInv(v)'
  BY <1>1, OthersKept DEF SameOnDisk
<1>6. WriterInv(w)'
  BY <1>1 DEF Idle, WriterInv, Bookkeeping
<1> QED BY <1>2, <1>3, <1>4, <1>5, <1>6

LEMMA CloseKeeps ==
    ASSUME IInv, NEW w \in Writers, Close(w)
    PROVE  IInv'
BY ToIdleKeeps DEF Close, IInv, TypeOK, disk

LEMMA WriterFailsKeeps ==
    ASSUME IInv, NEW w \in Writers, WriterFails(w)
    PROVE  IInv'
<1>1. faults' \in 0 .. MaxFaults
  BY WriterAssumption DEF WriterFails, CanFault, IInv, TypeOK
<1> QED BY <1>1, ToIdleKeeps DEF WriterFails, disk

LEMMA CrashKeeps ==
    ASSUME IInv, Crash
    PROVE  IInv'
<1> USE DEF IInv
<1>1. /\ \A w \in Writers : writer'[w] = Idle
      /\ writer' \in [Writers -> WriterRecord]
      /\ UNCHANGED <<provider, edits, dirs, part, staging, fetched>>
      /\ faults' \in 0 .. MaxFaults
  BY IdleTyped, WriterAssumption DEF Crash, CanFault, TypeOK, disk
<1>2. TypeOK'
  BY <1>1 DEF TypeOK, WriterRecord
<1>3. RowsUnique'
  BY <1>1, RowsKept
<1>4. WindowsDisjoint'
  BY <1>1 DEF WindowsDisjoint, Idle
<1>5. ASSUME NEW w \in Writers PROVE WriterInv(w)'
  <2>1. /\ writer'[w].pc = "idle" /\ writer'[w].window = {}
        /\ writer'[w].dates = {} /\ writer'[w].written = {}
    BY <1>1 DEF Idle
  <2> QED BY <2>1 DEF WriterInv, Bookkeeping
<1> QED BY <1>2, <1>3, <1>4, <1>5

LEMMA EditKeeps ==
    ASSUME IInv, Edit
    PROVE  IInv'
<1> USE DEF IInv
<1>0. PICK d \in Dates, p \in Pieces :
          \E row \in {{}, {[piece |-> p, version |-> edits + 1]}} :
             provider' = [provider EXCEPT ![d] = {r \in @ : r.piece # p} \cup row]
  BY DEF Edit
<1>1. PICK row \in {{}, {[piece |-> p, version |-> edits + 1]}} :
          provider' = [provider EXCEPT ![d] = {r \in @ : r.piece # p} \cup row]
  BY <1>0
<1>2. /\ edits < MaxEdits /\ edits' = edits + 1
      /\ UNCHANGED <<dirs, part, staging, writer, fetched, faults>>
  BY DEF Edit, disk
<1>3. edits \in Nat /\ edits + 1 \in 0 .. MaxEdits
  BY <1>2, WriterAssumption DEF TypeOK
<1>4. row \in SUBSET Row /\ \A r, s \in row : r = s /\ r.piece = p
  BY <1>3 DEF Row
<1>5. /\ provider \in [Dates -> SUBSET Row] /\ provider[d] \in SUBSET Row
      /\ provider'[d] = {r \in provider[d] : r.piece # p} \cup row
      /\ \A e \in Dates \ {d} : provider'[e] = provider[e]
  BY <1>1 DEF TypeOK
<1>6. provider' \in [Dates -> SUBSET Row]
  BY <1>1, <1>4, <1>5
<1>7. TypeOK'
  BY <1>2, <1>3, <1>6 DEF TypeOK
<1>8. RowsUnique'
  <2>1. OneRowPerPiece(provider'[d])
    BY <1>4, <1>5 DEF RowsUnique, OneRowPerPiece
  <2>2. \A e \in Dates : OneRowPerPiece(provider'[e])
    BY <1>5, <2>1 DEF RowsUnique
  <2> QED BY <1>2, <2>2 DEF RowsUnique
<1>9. WindowsDisjoint'
  BY <1>2 DEF WindowsDisjoint
<1>10. ASSUME NEW w \in Writers PROVE WriterInv(w)'
  <2>1. WriterInv(w)
    OBVIOUS
  <2>2. Bookkeeping(w)'
    BY <1>2, <2>1 DEF WriterInv, Bookkeeping
  <2>3. \A e \in writer[w].window : DateTracked(w, e)'
    BY <1>2, <2>1, DateKept DEF WriterInv, SameOnDisk
  <2> QED BY <1>2, <2>2, <2>3 DEF WriterInv
<1> QED BY <1>7, <1>8, <1>9, <1>10

LEMMA NextKeeps ==
    ASSUME IInv, [Next]_vars
    PROVE  IInv'
<1>1. ASSUME NEW w \in Writers, Step(w) PROVE IInv'
  BY <1>1, OpenKeeps, SweepStagingKeeps, RemoveEmptiedKeeps, FetchPieceKeeps,
     MakeStagingKeeps, StageShardKeeps, CompactKeeps, ClearStagingKeeps,
     PruneContentsKeeps, PruneDirectoryKeeps, TurnKeeps, CloseKeeps DEF Step
<1>2. ASSUME NEW w \in Writers, WriterFails(w) PROVE IInv'
  BY <1>2, WriterFailsKeeps
<1>3. CASE UNCHANGED vars
  <2>1. TypeOK' /\ RowsUnique' /\ WindowsDisjoint'
    BY <1>3 DEF vars, disk, IInv, TypeOK, RowsUnique, WindowsDisjoint
  <2>2. ASSUME NEW w \in Writers PROVE WriterInv(w)'
    <3>1. WriterInv(w)
      BY DEF IInv
    <3>2. Bookkeeping(w)'
      BY <1>3, <3>1 DEF vars, disk, WriterInv, Bookkeeping
    <3>3. \A e \in writer[w].window : DateTracked(w, e)'
      BY <1>3, <3>1, DateKept DEF vars, disk, WriterInv, SameOnDisk
    <3> QED BY <1>3, <3>2, <3>3 DEF vars, WriterInv
  <2> QED BY <2>1, <2>2 DEF IInv
<1> QED BY <1>1, <1>2, <1>3, CrashKeeps, EditKeeps DEF Next

LEMMA Invariance == Spec => []IInv
<1>1. Init => IInv
  BY InitIInv
<1>2. IInv /\ [Next]_vars => IInv'
  BY NextKeeps
<1> QED BY <1>1, <1>2, PTL DEF Spec

-----------------------------------------------------------------------------
(* The theorems. *)

\* The window is authoritatively replaced: when a writer's finalize has
\* returned, each covered date holds exactly what this run fetched for it, and
\* a date that came back empty has no directory (storage/partitioned.py).
THEOREM WindowReplaced == Spec => []ReplacedWholesale
<1>1. ASSUME IInv PROVE ReplacedWholesale
  <2> USE <1>1 DEF IInv
  <2>1. ASSUME NEW w \in Writers, writer[w].pc = "closed",
               NEW d \in writer[w].window
        PROVE  IF fetched[w][d] = {} THEN d \notin dirs
               ELSE /\ d \in DOMAIN part /\ part[d] = fetched[w][d]
                    /\ d \notin DOMAIN staging
    <3>1. Bookkeeping(w) /\ DateTracked(w, d)
      BY DEF WriterInv
    <3> QED
      BY <2>1, <3>1 DEF DateTracked, Bookkeeping, WrittenHasRows, FoldTracked,
         PruneTracked, Folded, Unstaged
  <2> QED BY <2>1 DEF ReplacedWholesale, At
<1> QED BY <1>1, Invariance, PTL

\* No partition ever holds a row next to the version that superseded it, with
\* any number of writers, failures and process deaths: the shards a dead run
\* left behind are never folded in (storage/staging.py).
THEOREM RowsSuperseded == Spec => []NoSupersededRow
<1>1. IInv => NoSupersededRow
  BY DEF IInv, RowsUnique, OneRowPerPiece, NoSupersededRow
<1> QED BY <1>1, Invariance, PTL

\* A partition is replaced or deleted only by a writer whose window covers it
\* and that has fetched its whole window (storage/pruning.py).
THEOREM CoveredOnly == Spec => ChangedOnlyWhenCovered
<1> DEFINE Covered ==
        \A d \in Dates :
            (d \in DOMAIN part) # (d \in DOMAIN part')
            \/ (d \in DOMAIN part /\ part'[d] # part[d])
            => \E w \in Writers : d \in writer[w].window
                                  /\ writer[w].pieces = {}
                                  /\ writer[w].pc \in {"compact", "prune"}
<1>1. ASSUME IInv, [Next]_vars PROVE [Covered]_part
  <2> USE <1>1 DEF IInv
  <2>1. ASSUME NEW w \in Writers, Compact(w) PROVE Covered
    <3>1. PICK d \in NextDate(w) : part' = With(part, d, staging[d])
      BY <2>1 DEF Compact
    <3>2. writer[w].pc = "compact" /\ d \in writer[w].window /\ writer[w].pieces = {}
      BY <2>1, NextDateTyped DEF Compact, At, WriterInv, Bookkeeping
    <3>3. \A e \in Dates \ {d} :
             /\ e \in DOMAIN part' <=> e \in DOMAIN part
             /\ e \in DOMAIN part => part'[e] = part[e]
      BY <3>1 DEF With
    <3> QED BY <3>2, <3>3
  <2>2. ASSUME NEW w \in Writers, PruneContents(w) PROVE Covered
    <3>1. PICK d \in NextDate(w) : part' = Without(part, d)
      BY <2>2 DEF PruneContents
    <3>2. writer[w].pc = "prune" /\ d \in writer[w].window /\ writer[w].pieces = {}
      BY <2>2, NextDateTyped DEF PruneContents, At, WriterInv, Bookkeeping
    <3>3. \A e \in Dates \ {d} :
             /\ e \in DOMAIN part' <=> e \in DOMAIN part
             /\ e \in DOMAIN part => part'[e] = part[e]
      BY <3>1 DEF Without
    <3> QED BY <3>2, <3>3
  <2>3. ASSUME NEW w \in Writers, Step(w) \/ WriterFails(w), ~Compact(w),
               ~PruneContents(w)
        PROVE  UNCHANGED part
    BY <2>3 DEF Step, WriterFails, Open, SweepStaging, RemoveEmptied, FetchPiece,
       MakeStaging, StageShard, ClearStaging, PruneDirectory, Turn, Close, disk
  <2>4. Crash \/ Edit \/ UNCHANGED vars => UNCHANGED part
    BY DEF Crash, Edit, vars, disk
  <2> QED BY <2>1, <2>2, <2>3, <2>4 DEF Next
<1>2. IInv /\ [Next]_vars => [Covered]_part
  BY <1>1
<1> QED BY <1>2, Invariance, PTL DEF Spec, ChangedOnlyWhenCovered
=============================================================================
