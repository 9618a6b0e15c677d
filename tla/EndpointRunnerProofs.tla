------------------------ MODULE EndpointRunnerProofs ------------------------
(***************************************************************************)
(* What EndpointRunner's run checks of both arms on small instances,       *)
(* proved for every value of the constants: of the feed arm, the stored    *)
(* token and the parts behind it; of a harvest, the ledger and what landed,*)
(* the records a walk reads by any decoder, shape and window while the     *)
(* provider is edited, and the listings that are counted.                  *)
(***************************************************************************)
EXTENDS EndpointRunner, SequenceTheorems, FiniteSetTheorems, WellFoundedInduction,
        TLAPS

-----------------------------------------------------------------------------
(* The inductive invariant of the feed arm. *)

\* A directory exists in one that exists; the dataset root always does.
Tree ==
    /\ Root \in syncedDirs
    /\ made \cap Dates # {} => Endpoint \in made

WithPage == feedAt \in {"write", "rename", "sync"}
WithDate == feedAt \in {"rename", "sync"}

\* The page in hand was asked from the stored token, and reaches as far as any
\* page asked before it.
PageAsked ==
    WithPage =>
        /\ page.from = token /\ page.from <= page.to
        /\ page.to <= Len(stream) /\ page.to <= token + ResultsLimit
        /\ todo \subseteq DatesOf(page)
        /\ \A d \in Dates : \A n \in DOMAIN parts[d] : parts[d][n].to <= page.to

\* What any page holds.
PartsWithin ==
    \A d \in Dates : \A n \in DOMAIN parts[d] :
        /\ parts[d][n].to <= Len(stream)
        /\ parts[d][n].to <= parts[d][n].from + ResultsLimit

\* The dates of the page that are done have a part of it.
Appended(d) ==
    \E n \in DOMAIN parts[d] : parts[d][n] = [from |-> page.from, to |-> page.to]

PageAppended ==
    WithPage => \A d \in DatesOf(page) \ todo :
                    Appended(d) \/ (feedAt = "rename" /\ d = date)

\* The chain of a partition, as it is and after its first fsyncs.
WholeChains == {<<date>>, <<date, Endpoint>>, <<date, Endpoint, Root>>}
RestOfChains == {<<Endpoint>>, <<Endpoint, Root>>, <<Root>>}

Chained ==
    /\ WithDate => date \in Dates /\ date \in made
    /\ feedAt = "rename" => chain \in WholeChains
    /\ feedAt = "sync" => chain \in WholeChains \cup RestOfChains

On(c) == {c[i] : i \in DOMAIN c}

\* A directory still to be fsynced for the date in hand.
ToSync(dir) == WithDate /\ dir \in On(chain)

\* No process death or failed write so far: what is not on stable storage yet
\* is listed in a directory that the chain in hand still fsyncs.
ChainCovers ==
    /\ Endpoint \in made \ syncedDirs => ToSync(Root)
    /\ \A d \in (made \ syncedDirs) \cap Dates : ToSync(Endpoint)
    /\ \A d \in Dates : syncedParts[d] # DOMAIN parts[d] => d = date /\ ToSync(d)

\* A record on stable storage, in a part that is found there again.
Durable(v) ==
    /\ {stream[v], Endpoint} \subseteq syncedDirs
    /\ \E n \in syncedParts[stream[v]] :
          parts[stream[v]][n].from < v /\ v <= parts[stream[v]][n].to

FeedInv ==
    /\ FeedTypeOK
    /\ Tree
    /\ PageAsked /\ PartsWithin /\ PageAppended /\ Chained
    /\ OnePageAhead
    /\ interrupts = 0 => ChainCovers /\ \A v \in 1 .. token : Durable(v)
    /\ TokenBackedByOneKindOfFault

-----------------------------------------------------------------------------
(* Lemmas. *)

\* The dates of a page that lies within the stream.
LEMMA DatesTyped ==
    ASSUME FeedTypeOK, NEW p \in Page, p.to <= Len(stream)
    PROVE  /\ DatesOf(p) \subseteq Dates
           /\ \A v \in (p.from + 1) .. p.to : stream[v] \in DatesOf(p)
<1>1. p.from \in Nat /\ p.to \in Nat /\ Len(stream) \in Nat
  BY DEF FeedTypeOK, Page
<1>2. \A v \in (p.from + 1) .. p.to : stream[v] \in Dates
  BY <1>1, ElementOfSeq DEF FeedTypeOK
<1> QED BY <1>2 DEF DatesOf

\* Records emitted later change nothing about the ones before.
LEMMA StreamGrown ==
    ASSUME NEW d \in Dates, stream \in Seq(Dates), stream' = Append(stream, d)
    PROVE  /\ stream' \in Seq(Dates)
           /\ Len(stream') = Len(stream) + 1
           /\ \A v \in 1 .. Len(stream) : stream'[v] = stream[v]
BY AppendProperties

\* What the provider answers.
LEMMA PageAnswered ==
    ASSUME FeedTypeOK
    PROVE  /\ PageFrom(token) \in Page
           /\ PageFrom(token).from = token /\ token <= PageFrom(token).to
           /\ PageFrom(token).to <= Len(stream)
           /\ PageFrom(token).to <= token + ResultsLimit
           /\ \A m \in Nat : m <= Len(stream) /\ m <= token + ResultsLimit
                             => m <= PageFrom(token).to
<1>1. token \in Nat /\ Len(stream) \in Nat /\ token <= Len(stream)
  BY DEF FeedTypeOK
<1> QED BY <1>1, FeedAssumption DEF PageFrom, Page

LEMMA PartTyped ==
    ASSUME FeedTypeOK, NEW d \in Dates, NEW n \in DOMAIN parts[d]
    PROVE  /\ parts[d][n] \in PartRows
           /\ parts[d][n].from \in Nat /\ parts[d][n].to \in Nat
BY DEF FeedTypeOK, PartRows

\* Between two dates, and between two pages, everything is on stable storage.
LEMMA AllSynced ==
    ASSUME FeedInv, interrupts = 0, ~WithDate
    PROVE  /\ made = syncedDirs
           /\ \A d \in Dates : syncedParts[d] = DOMAIN parts[d]
<1>1. ChainCovers /\ Root \in syncedDirs /\ syncedDirs \subseteq made
  BY DEF FeedInv, Tree, FeedTypeOK
<1>2. made \subseteq {Root, Endpoint} \cup Dates
  BY DEF FeedInv, FeedTypeOK, Directories
<1> QED BY <1>1, <1>2 DEF ChainCovers, ToSync

LEMMA DurableIsThere ==
    ASSUME FeedTypeOK, NEW v \in 1 .. token, Durable(v)
    PROVE  HasRows(stream[v], v)
<1>1. stream[v] \in Dates
  BY ElementOfSeq DEF FeedTypeOK
<1>2. syncedParts[stream[v]] \subseteq DOMAIN parts[stream[v]]
  BY <1>1 DEF FeedTypeOK
<1> QED BY <1>2 DEF Durable, HasRows

\* What a record's durability rests on.
LEMMA DurableKept ==
    ASSUME FeedTypeOK, NEW v \in 1 .. token, Durable(v),
           stream'[v] = stream[v], syncedDirs \subseteq syncedDirs',
           \A d \in Dates : /\ syncedParts[d] \subseteq syncedParts'[d]
                            /\ \A n \in DOMAIN parts[d] : parts'[d][n] = parts[d][n]
    PROVE  Durable(v)'
<1>1. stream[v] \in Dates
  BY ElementOfSeq DEF FeedTypeOK
<1>2. syncedParts[stream[v]] \subseteq DOMAIN parts[stream[v]]
  BY <1>1 DEF FeedTypeOK
<1> QED BY <1>1, <1>2 DEF Durable

-----------------------------------------------------------------------------
(* The invariant holds at first and is kept by every action. *)

LEMMA InitFeedInv == FeedInit => FeedInv
<1> SUFFICES ASSUME FeedInit PROVE FeedInv
  OBVIOUS
<1> USE FeedAssumption DEF FeedInit
<1>1. FeedTypeOK
  BY EmptySeq DEF FeedTypeOK, NoParts, NoPage, Page, Directories, PartRows
<1>2. PartsWithin /\ OnePageAhead
  BY DEF PartsWithin, OnePageAhead, NoParts
<1>3. Tree /\ PageAsked /\ PageAppended /\ Chained
  BY DEF Tree, PageAsked, PageAppended, Chained, WithPage, WithDate
<1>4. ChainCovers /\ (\A v \in 1 .. token : Durable(v))
  BY DEF ChainCovers, NoParts
<1>5. TokenBackedByOneKindOfFault
  BY DEF TokenBackedByOneKindOfFault, TokenBacked
<1> QED BY <1>1, <1>2, <1>3, <1>4, <1>5 DEF FeedInv

LEMMA StartRunKeeps ==
    ASSUME FeedInv, StartRun
    PROVE  FeedInv'
<1> USE DEF FeedInv, StartRun, disk
<1>1. FeedTypeOK'
  BY DEF FeedTypeOK, DatesOf
<1>2. ~WithPage' /\ ~WithDate' /\ ~WithDate
  BY DEF WithPage, WithDate
<1>3. Tree' /\ PageAsked' /\ PageAppended' /\ Chained'
  BY <1>2 DEF Tree, PageAsked, PageAppended, Chained, WithDate
<1>4. PartsWithin' /\ OnePageAhead'
  BY DEF PartsWithin, OnePageAhead
<1>5. interrupts' = 0 => ChainCovers' /\ \A v \in 1 .. token' : Durable(v)'
  BY <1>2 DEF ChainCovers, ToSync, Durable
<1>6. TokenBackedByOneKindOfFault'
  BY DEF TokenBackedByOneKindOfFault, TokenBacked, HasRows
<1> QED BY <1>1, <1>3, <1>4, <1>5, <1>6

LEMMA FetchPageKeeps ==
    ASSUME FeedInv, FetchPage
    PROVE  FeedInv'
<1> USE DEF FeedInv
<1>1. /\ feedAt = "fetch" /\ feedAt' = "write" /\ page' = PageFrom(token)
      /\ todo' = DatesOf(page')
      /\ UNCHANGED <<stream, token, parts, made, syncedDirs, syncedParts, date,
                     chain, interrupts, powerLosses>>
  BY DEF FetchPage, disk
<1>2. /\ page' \in Page /\ page'.from = token /\ token <= page'.to
      /\ page'.to <= Len(stream) /\ page'.to <= token + ResultsLimit
      /\ \A m \in Nat : m <= Len(stream) /\ m <= token + ResultsLimit => m <= page'.to
  BY <1>1, PageAnswered
<1>3. todo' \subseteq Dates /\ todo' = DatesOf(page)'
  BY <1>1, <1>2, DatesTyped DEF DatesOf
<1>4. FeedTypeOK'
  BY <1>1, <1>2, <1>3 DEF FeedTypeOK
<1>5. ~WithDate' /\ ~WithDate
  BY <1>1 DEF WithDate
<1>6. Tree' /\ Chained' /\ PageAppended'
  BY <1>1, <1>3, <1>5 DEF Tree, Chained, PageAppended
<1>7. PartsWithin' /\ OnePageAhead'
  BY <1>1 DEF PartsWithin, OnePageAhead
<1>8. PageAsked'
  <2>1. ASSUME NEW d \in Dates, NEW n \in DOMAIN parts[d]
        PROVE  parts[d][n].to <= page'.to
    <3> DEFINE first == parts[d][n].from
               last == parts[d][n].to
    <3>1. first \in Nat /\ last \in Nat
      BY PartTyped
    <3>2. last <= Len(stream) /\ last <= first + ResultsLimit /\ (last > token => first = token)
      BY DEF PartsWithin, OnePageAhead
    <3>3. token \in Nat /\ page'.to \in Nat
      BY <1>2 DEF FeedTypeOK, Page
    <3> HIDE DEF first, last
    <3>4. last <= page'.to
      BY <1>2, <3>1, <3>2, <3>3
    <3> QED BY <3>4 DEF last
  <2> QED BY <1>1, <1>2, <1>3, <2>1 DEF PageAsked
<1>9. interrupts' = 0 => ChainCovers' /\ \A v \in 1 .. token' : Durable(v)'
  BY <1>1, <1>5 DEF ChainCovers, ToSync, Durable
<1>10. TokenBackedByOneKindOfFault'
  BY <1>1 DEF TokenBackedByOneKindOfFault, TokenBacked, HasRows
<1> QED BY <1>4, <1>6, <1>7, <1>8, <1>9, <1>10

LEMMA ChainElements ==
    ASSUME NEW a, NEW b, NEW c
    PROVE  On(<<a>>) = {a} /\ On(<<a, b>>) = {a, b} /\ On(<<a, b, c>>) = {a, b, c}
BY DEF On

\* A date's chain holds the partition and the parent of whatever is missing.
LEMMA ChainOpened ==
    ASSUME NEW d \in Dates
    PROVE  /\ DurableChain(d) \in {<<d>>, <<d, Endpoint>>, <<d, Endpoint, Root>>}
           /\ DurableChain(d) \in Seq(Directories)
           /\ d \in On(DurableChain(d))
           /\ d \notin made => Endpoint \in On(DurableChain(d))
           /\ d \notin made /\ Endpoint \notin made => Root \in On(DurableChain(d))
<1>1. d \in Directories /\ Endpoint \in Directories /\ Root \in Directories
  BY DEF Directories
<1>2. /\ <<d>> \in Seq(Directories) /\ <<d, Endpoint>> \in Seq(Directories)
      /\ <<d, Endpoint, Root>> \in Seq(Directories)
  BY <1>1
<1>3. /\ On(<<d>>) = {d} /\ On(<<d, Endpoint>>) = {d, Endpoint}
      /\ On(<<d, Endpoint, Root>>) = {d, Endpoint, Root}
  BY ChainElements
<1>4. CASE d \in made
  <2>1. DurableChain(d) = <<d>>
    BY <1>4 DEF DurableChain
  <2> QED BY <1>2, <1>3, <1>4, <2>1
<1>5. CASE d \notin made /\ Endpoint \in made
  <2>1. DurableChain(d) = <<d, Endpoint>>
    BY <1>5 DEF DurableChain
  <2> QED BY <1>2, <1>3, <1>5, <2>1
<1>6. CASE d \notin made /\ Endpoint \notin made
  <2>1. DurableChain(d) = <<d, Endpoint, Root>>
    BY <1>6 DEF DurableChain
  <2> QED BY <1>2, <1>3, <1>6, <2>1
<1> QED BY <1>4, <1>5, <1>6

LEMMA OpenPartitionKeeps ==
    ASSUME FeedInv, OpenPartition
    PROVE  FeedInv'
<1> USE DEF FeedInv
<1>1. PICK d \in todo :
          /\ date' = d /\ chain' = DurableChain(d)
          /\ made' = made \cup {Endpoint, d} /\ todo' = todo \ {d}
  BY DEF OpenPartition
<1>2. /\ feedAt = "write" /\ feedAt' = "rename"
      /\ UNCHANGED <<stream, token, parts, syncedDirs, syncedParts, page,
                     interrupts, powerLosses>>
  BY DEF OpenPartition
<1>3. d \in Dates
  BY <1>1 DEF FeedTypeOK
<1>4. /\ chain' \in Seq(Directories) /\ chain' \in WholeChains'
      /\ d \in On(chain)' /\ (d \notin made => Endpoint \in On(chain)')
      /\ d \notin made /\ Endpoint \notin made => Root \in On(chain)'
  BY <1>1, <1>3, ChainOpened DEF WholeChains, On
<1>5. FeedTypeOK'
  BY <1>1, <1>2, <1>3, <1>4 DEF FeedTypeOK, Directories
<1>6. Tree'
  BY <1>1, <1>2 DEF Tree
<1>7. PageAsked' /\ PartsWithin' /\ OnePageAhead'
  BY <1>1, <1>2 DEF PageAsked, PartsWithin, OnePageAhead, WithPage, DatesOf
<1>8. PageAppended'
  BY <1>1, <1>2 DEF PageAppended, WithPage, DatesOf, Appended
<1>9. Chained'
  BY <1>1, <1>2, <1>3, <1>4 DEF Chained
<1>10. ASSUME interrupts = 0
       PROVE  ChainCovers' /\ \A v \in 1 .. token' : Durable(v)'
  <2>1. made = syncedDirs /\ \A e \in Dates : syncedParts[e] = DOMAIN parts[e]
    BY <1>2, <1>10, AllSynced DEF WithDate
  <2>2. WithDate' /\ Endpoint \notin Dates /\ (d \in made => Endpoint \in made)
    BY <1>2, <1>3, FeedAssumption DEF WithDate, Tree
  <2>3. Endpoint \in made' \ syncedDirs' => ToSync(Root)'
    BY <1>1, <1>2, <1>4, <2>1, <2>2 DEF ToSync
  <2>4. ASSUME NEW e \in (made' \ syncedDirs') \cap Dates PROVE ToSync(Endpoint)'
    BY <1>1, <1>2, <1>4, <2>1, <2>2 DEF ToSync
  <2>5. ChainCovers'
    BY <1>2, <2>1, <2>3, <2>4 DEF ChainCovers
  <2>6. \A v \in 1 .. token : Durable(v)
    BY <1>10
  <2> QED BY <1>2, <2>5, <2>6 DEF Durable
<1>11. TokenBackedByOneKindOfFault'
  BY <1>2 DEF TokenBackedByOneKindOfFault, TokenBacked, HasRows
<1> QED BY <1>2, <1>5, <1>6, <1>7, <1>8, <1>9, <1>10, <1>11

\* The next part number is a new one, and the others stay.
LEMMA PartAdded ==
    ASSUME FeedInv, RenamePart
    PROVE  /\ feedAt = "rename" /\ feedAt' = "sync" /\ date \in Dates
           /\ DOMAIN parts' = Dates
           /\ \A d \in Dates \ {date} : parts'[d] = parts[d]
           /\ \E n \in Nat \ {0} :
                 /\ n \notin DOMAIN parts[date]
                 /\ DOMAIN parts'[date] = DOMAIN parts[date] \cup {n}
                 /\ parts'[date][n] = [from |-> page.from, to |-> page.to]
                 /\ \A m \in DOMAIN parts[date] : parts'[date][m] = parts[date][m]
<1>1. date \in Dates /\ DOMAIN parts = Dates /\ DOMAIN parts[date] \subseteq Nat \ {0}
  BY DEF FeedInv, FeedTypeOK, Chained, WithDate, RenamePart
<1>2. PICK n \in {m + 1 : m \in {0} \cup DOMAIN parts[date]} :
          /\ \A m \in DOMAIN parts[date] : m < n
          /\ parts' = [parts EXCEPT ![date] =
                          [m \in DOMAIN parts[date] \cup {n} |->
                              IF m = n THEN [from |-> page.from, to |-> page.to]
                              ELSE parts[date][m]]]
  BY DEF RenamePart
<1>3. n \in Nat \ {0} /\ n \notin DOMAIN parts[date]
  BY <1>1, <1>2
<1>4. parts'[date] = [m \in DOMAIN parts[date] \cup {n} |->
                         IF m = n THEN [from |-> page.from, to |-> page.to]
                         ELSE parts[date][m]]
  BY <1>1, <1>2
<1>5. /\ DOMAIN parts'[date] = DOMAIN parts[date] \cup {n}
      /\ parts'[date][n] = [from |-> page.from, to |-> page.to]
      /\ \A m \in DOMAIN parts[date] : parts'[date][m] = parts[date][m]
  BY <1>3, <1>4
<1>6. DOMAIN parts' = Dates /\ \A d \in Dates \ {date} : parts'[d] = parts[d]
  BY <1>1, <1>2
<1> QED BY <1>1, <1>3, <1>5, <1>6 DEF RenamePart

LEMMA RenamePartKeeps ==
    ASSUME FeedInv, RenamePart
    PROVE  FeedInv'
<1> USE DEF FeedInv
<1>1. /\ feedAt = "rename" /\ feedAt' = "sync" /\ date \in Dates
      /\ DOMAIN parts' = Dates
      /\ \A d \in Dates \ {date} : parts'[d] = parts[d]
  BY PartAdded
<1>2. PICK n \in Nat \ {0} :
          /\ n \notin DOMAIN parts[date]
          /\ DOMAIN parts'[date] = DOMAIN parts[date] \cup {n}
          /\ parts'[date][n] = [from |-> page.from, to |-> page.to]
          /\ \A m \in DOMAIN parts[date] : parts'[date][m] = parts[date][m]
  BY PartAdded
<1>3. /\ UNCHANGED <<stream, token, made, syncedDirs, syncedParts, page, todo,
                     date, chain, interrupts, powerLosses>>
      /\ UNCHANGED date
  BY DEF RenamePart
<1>4. /\ date \in made /\ chain \in WholeChains
      /\ page.from \in Nat /\ page.to \in Nat
  BY <1>1 DEF Chained, WithDate, FeedTypeOK, Page
<1>5. ASSUME NEW d \in Dates, NEW m \in DOMAIN parts'[d]
      PROVE  \/ m \in DOMAIN parts[d] /\ parts'[d][m] = parts[d][m]
             \/ d = date /\ m = n /\ parts'[d][m] = [from |-> page.from, to |-> page.to]
  BY <1>1, <1>2
<1>6. FeedTypeOK'
  <2>1. ASSUME NEW d \in Dates
        PROVE  /\ parts'[d] \in [DOMAIN parts'[d] -> PartRows]
               /\ DOMAIN parts'[d] \subseteq Nat \ {0}
               /\ syncedParts'[d] \subseteq DOMAIN parts'[d]
               /\ DOMAIN parts'[d] # {} => d \in made'
    <3>1. CASE d = date
      <4>1. PICK f : parts' = [parts EXCEPT ![date] = f] /\ f = [m \in DOMAIN f |-> f[m]]
        BY DEF RenamePart
      <4>2. parts'[date] = [m \in DOMAIN parts'[date] |-> parts'[date][m]]
        BY <1>1, <4>1 DEF FeedTypeOK
      <4>3. ASSUME NEW m \in DOMAIN parts'[date] PROVE parts'[date][m] \in PartRows
        BY <1>1, <1>4, <1>5, <4>3, PartTyped DEF PartRows
      <4> QED BY <1>1, <1>2, <1>3, <1>4, <3>1, <4>2, <4>3 DEF FeedTypeOK
    <3>2. CASE d # date
      BY <1>1, <1>3, <3>2 DEF FeedTypeOK
    <3> QED BY <3>1, <3>2
  <2> QED BY <1>1, <1>3, <2>1 DEF FeedTypeOK
<1>7. Tree'
  BY <1>3 DEF Tree
<1>8. page.from = token /\ page.to <= Len(stream) /\ page.to <= token + ResultsLimit
  BY <1>1 DEF PageAsked, WithPage
<1>9. PageAsked'
  <2>1. ASSUME NEW d \in Dates, NEW m \in DOMAIN parts'[d] PROVE parts'[d][m].to <= page.to
    BY <1>1, <1>4, <1>5, <2>1 DEF PageAsked, WithPage
  <2> QED BY <1>1, <1>3, <2>1 DEF PageAsked, WithPage, DatesOf
<1>10. PartsWithin' /\ OnePageAhead'
  <2>1. ASSUME NEW d \in Dates, NEW m \in DOMAIN parts'[d]
        PROVE  /\ parts'[d][m].to <= Len(stream)
               /\ parts'[d][m].to <= parts'[d][m].from + ResultsLimit
               /\ parts'[d][m].to > token => parts'[d][m].from = token
    BY <1>5, <1>8, <2>1 DEF PartsWithin, OnePageAhead
  <2> QED BY <1>3, <2>1 DEF PartsWithin, OnePageAhead
<1>11. PageAppended'
  <2>1. ASSUME NEW d \in DatesOf(page) \ todo PROVE Appended(d)'
    <3>1. CASE d = date
      BY <1>2, <1>3, <3>1 DEF Appended
    <3>2. CASE d # date
      <4>1. Appended(d)
        BY <1>1, <2>1, <3>2 DEF PageAppended, WithPage
      <4>2. d \in Dates
        BY <1>1, <2>1, DatesTyped DEF PageAsked, WithPage, FeedTypeOK
      <4> QED BY <1>1, <1>3, <3>2, <4>1, <4>2 DEF Appended
    <3> QED BY <3>1, <3>2
  <2> QED BY <1>3, <2>1 DEF PageAppended, DatesOf
<1>12. Chained'
  BY <1>1, <1>3, <1>4 DEF Chained, WholeChains
<1>13. ASSUME interrupts = 0
       PROVE  ChainCovers' /\ \A v \in 1 .. token' : Durable(v)'
  <2>1. ChainCovers /\ \A v \in 1 .. token : Durable(v)
    BY <1>13
  <2>2. date \in On(chain) /\ WithDate /\ WithDate'
    <3>1. /\ On(<<date>>) = {date} /\ On(<<date, Endpoint>>) = {date, Endpoint}
          /\ On(<<date, Endpoint, Root>>) = {date, Endpoint, Root}
      BY ChainElements
    <3>2. chain = <<date>> \/ chain = <<date, Endpoint>> \/ chain = <<date, Endpoint, Root>>
      BY <1>4 DEF WholeChains
    <3>3. date \in On(chain)
      BY <3>1, <3>2
    <3> QED BY <1>1, <3>3 DEF WithDate
  <2>3. ChainCovers'
    BY <1>1, <1>3, <2>1, <2>2 DEF ChainCovers, ToSync
  <2>4. ASSUME NEW v \in 1 .. token PROVE Durable(v)'
    BY <1>1, <1>2, <1>3, <2>1, DurableKept
  <2> QED BY <1>3, <2>3, <2>4
<1>14. TokenBackedByOneKindOfFault'
  <2>1. ASSUME NEW v \in 1 .. token, HasRows(stream[v], v) PROVE HasRows(stream[v], v)'
    <3>1. stream[v] \in Dates
      BY ElementOfSeq DEF FeedTypeOK
    <3> QED BY <1>1, <1>2, <1>3, <2>1, <3>1 DEF HasRows
  <2> QED BY <1>3, <2>1 DEF TokenBackedByOneKindOfFault, TokenBacked, HasRows
<1> QED BY <1>3, <1>6, <1>7, <1>9, <1>10, <1>11, <1>12, <1>13, <1>14

\* What is left of a chain after its head.
LEMMA TupleTails ==
    ASSUME NEW S, NEW a \in S, NEW b \in S, NEW c \in S
    PROVE  /\ Head(<<a>>) = a /\ Tail(<<a>>) = <<>>
           /\ Head(<<a, b>>) = a /\ Tail(<<a, b>>) = <<b>>
           /\ Head(<<a, b, c>>) = a /\ Tail(<<a, b, c>>) = <<b, c>>
<1>1. Head(<<a>>) = a /\ Head(<<a, b>>) = a /\ Head(<<a, b, c>>) = a
  OBVIOUS
<1>2. Tail(<<a>>) = <<>>
  BY EmptySeq
<1>3. Tail(<<a, b>>) = <<b>>
  <2>1. <<a, b>> \in Seq(S) /\ <<b>> \in Seq(S) /\ <<a, b>> # <<>>
    OBVIOUS
  <2>2. /\ Tail(<<a, b>>) \in Seq(S) /\ Len(Tail(<<a, b>>)) = Len(<<a, b>>) - 1
        /\ \A i \in 1 .. Len(Tail(<<a, b>>)) : Tail(<<a, b>>)[i] = <<a, b>>[i + 1]
    BY <2>1, HeadTailProperties
  <2>3. Len(Tail(<<a, b>>)) = 1 /\ Tail(<<a, b>>)[1] = b
    BY <2>2
  <2> QED BY <2>1, <2>2, <2>3, SeqEqual
<1>4. Tail(<<a, b, c>>) = <<b, c>>
  <2>1. <<a, b, c>> \in Seq(S) /\ <<b, c>> \in Seq(S) /\ <<a, b, c>> # <<>>
    OBVIOUS
  <2>2. /\ Tail(<<a, b, c>>) \in Seq(S) /\ Len(Tail(<<a, b, c>>)) = Len(<<a, b, c>>) - 1
        /\ \A i \in 1 .. Len(Tail(<<a, b, c>>)) : Tail(<<a, b, c>>)[i] = <<a, b, c>>[i + 1]
    BY <2>1, HeadTailProperties
  <2>3. Len(Tail(<<a, b, c>>)) = 2 /\ Tail(<<a, b, c>>)[1] = b /\ Tail(<<a, b, c>>)[2] = c
    BY <2>2
  <2> QED BY <2>1, <2>2, <2>3, SeqEqual
<1> QED BY <1>1, <1>2, <1>3, <1>4

\* One fsync further along a chain.
LEMMA ChainAdvanced ==
    ASSUME FeedInv, feedAt = "sync"
    PROVE  /\ Head(chain) \in Directories /\ Tail(chain) \in Seq(Directories)
           /\ On(chain) = {Head(chain)} \cup On(Tail(chain))
           /\ Tail(chain) = <<>> => On(Tail(chain)) = {}
           /\ Tail(chain) # <<>> => Tail(chain) \in RestOfChains
<1>1. /\ date \in Directories /\ Endpoint \in Directories /\ Root \in Directories
      /\ chain \in WholeChains \cup RestOfChains
  BY DEF FeedInv, Chained, WithDate, Directories
<1>2. ASSUME NEW a \in Directories, chain = <<a>>
      PROVE  Head(chain) = a /\ Tail(chain) = <<>>
  BY <1>2, TupleTails
<1>3. ASSUME NEW a \in Directories, NEW b \in Directories, chain = <<a, b>>
      PROVE  Head(chain) = a /\ Tail(chain) = <<b>>
  BY <1>3, TupleTails
<1>4. ASSUME NEW a \in Directories, NEW b \in Directories, NEW c \in Directories,
             chain = <<a, b, c>>
      PROVE  Head(chain) = a /\ Tail(chain) = <<b, c>>
  BY <1>4, TupleTails
<1>5. ASSUME NEW a \in {date, Endpoint, Root}, chain = <<a>>
      PROVE  /\ Head(chain) \in Directories /\ Tail(chain) = <<>>
             /\ On(chain) = {Head(chain)} \cup On(Tail(chain)) /\ On(Tail(chain)) = {}
  <2>1. Head(chain) = a /\ Tail(chain) = <<>>
    BY <1>1, <1>2, <1>5
  <2>2. On(<<a>>) = {a} /\ On(<<>>) = {}
    BY ChainElements DEF On
  <2> QED BY <1>1, <1>5, <2>1, <2>2
<1>6. ASSUME NEW a \in {date, Endpoint}, NEW b \in {Endpoint, Root}, chain = <<a, b>>
      PROVE  /\ Head(chain) \in Directories /\ Tail(chain) = <<b>>
             /\ On(chain) = {Head(chain)} \cup On(Tail(chain))
  <2>1. Head(chain) = a /\ Tail(chain) = <<b>>
    BY <1>1, <1>3, <1>6
  <2>2. On(<<a, b>>) = {a, b} /\ On(<<b>>) = {b}
    BY ChainElements
  <2> QED BY <1>1, <1>6, <2>1, <2>2
<1>7. ASSUME chain = <<date, Endpoint, Root>>
      PROVE  /\ Head(chain) \in Directories /\ Tail(chain) = <<Endpoint, Root>>
             /\ On(chain) = {Head(chain)} \cup On(Tail(chain))
  <2>1. Head(chain) = date /\ Tail(chain) = <<Endpoint, Root>>
    BY <1>1, <1>4, <1>7
  <2>2. On(<<date, Endpoint, Root>>) = {date, Endpoint, Root}
    BY DEF On
  <2>3. On(<<Endpoint, Root>>) = {Endpoint, Root}
    BY ChainElements
  <2> QED BY <1>1, <1>7, <2>1, <2>2, <2>3
<1>8. /\ <<>> \in Seq(Directories) /\ <<Endpoint>> \in Seq(Directories)
      /\ <<Root>> \in Seq(Directories) /\ <<Endpoint, Root>> \in Seq(Directories)
      /\ <<Endpoint>> # <<>> /\ <<Root>> # <<>> /\ <<Endpoint, Root>> # <<>>
  BY <1>1, EmptySeq
<1>9. \/ chain = <<date>> \/ chain = <<Endpoint>> \/ chain = <<Root>>
      \/ chain = <<date, Endpoint>> \/ chain = <<Endpoint, Root>>
      \/ chain = <<date, Endpoint, Root>>
  BY <1>1 DEF WholeChains, RestOfChains
<1>10. CASE chain = <<date>> \/ chain = <<Endpoint>> \/ chain = <<Root>>
  BY <1>5, <1>8, <1>10
<1>11. CASE chain = <<date, Endpoint>> \/ chain = <<Endpoint, Root>>
  <2>1. \/ Tail(chain) = <<Endpoint>> /\ Head(chain) \in Directories
        \/ Tail(chain) = <<Root>> /\ Head(chain) \in Directories
    BY <1>6, <1>11
  <2>2. On(chain) = {Head(chain)} \cup On(Tail(chain))
    BY <1>6, <1>11
  <2> QED BY <1>8, <2>1, <2>2 DEF RestOfChains
<1>12. CASE chain = <<date, Endpoint, Root>>
  BY <1>7, <1>8, <1>12 DEF RestOfChains
<1> QED BY <1>9, <1>10, <1>11, <1>12

LEMMA SyncDirectoryKeeps ==
    ASSUME FeedInv, SyncDirectory
    PROVE  FeedInv'
<1> USE DEF FeedInv
<1> DEFINE d == Head(chain)
           listed_in == CASE d = Root     -> made \cap {Endpoint}
                          [] d = Endpoint -> made \cap Dates
                          [] OTHER        -> {}
<1>1. /\ feedAt = "sync" /\ chain' = Tail(chain)
      /\ feedAt' = IF Tail(chain) = <<>> THEN "write" ELSE "sync"
      /\ UNCHANGED <<stream, token, parts, made, page, todo, date, interrupts,
                     powerLosses>>
  BY DEF SyncDirectory
<1>2. /\ syncedParts' = IF d = date
                        THEN [syncedParts EXCEPT ![d] = DOMAIN parts[d]]
                        ELSE syncedParts
      /\ syncedDirs' = syncedDirs \cup listed_in
  BY DEF SyncDirectory
<1>3. /\ Tail(chain) \in Seq(Directories)
      /\ On(chain) = {d} \cup On(chain)'
      /\ Tail(chain) = <<>> => On(chain)' = {}
      /\ Tail(chain) # <<>> => Tail(chain) \in RestOfChains
  BY <1>1, ChainAdvanced DEF On
<1>4. date \in Dates /\ date \in made /\ Root # Endpoint /\ {Root, Endpoint} \cap Dates = {}
  BY <1>1, FeedAssumption DEF Chained, WithDate, Root, Endpoint
<1>5. /\ d = Root => listed_in = made \cap {Endpoint}
      /\ d = Endpoint => listed_in = made \cap Dates
      /\ listed_in \subseteq made
  BY <1>4
<1> HIDE DEF listed_in
<1>6. /\ DOMAIN syncedParts' = Dates
      /\ \A e \in Dates \ {date} : syncedParts'[e] = syncedParts[e]
      /\ d = date => syncedParts'[date] = DOMAIN parts[date]
      /\ d # date => syncedParts'[date] = syncedParts[date]
  BY <1>2, <1>4 DEF FeedTypeOK
<1> HIDE DEF d
<1>7. \A e \in Dates : /\ syncedParts[e] \subseteq syncedParts'[e]
                       /\ syncedParts'[e] \subseteq DOMAIN parts[e]
  BY <1>4, <1>6 DEF FeedTypeOK
<1>8. FeedTypeOK'
  BY <1>1, <1>2, <1>3, <1>5, <1>6, <1>7 DEF FeedTypeOK
<1>9. Tree'
  BY <1>1, <1>2 DEF Tree
<1>10. PageAsked' /\ PartsWithin' /\ OnePageAhead'
  BY <1>1 DEF PageAsked, PartsWithin, OnePageAhead, WithPage, DatesOf
<1>11. PageAppended'
  BY <1>1 DEF PageAppended, WithPage, DatesOf, Appended
<1>12. Chained'
  BY <1>1, <1>3, <1>4 DEF Chained, RestOfChains
<1>13. ASSUME interrupts = 0
       PROVE  ChainCovers' /\ \A v \in 1 .. token' : Durable(v)'
  <2>1. ChainCovers /\ \A v \in 1 .. token : Durable(v)
    BY <1>13
  <2>2. ASSUME NEW dir \in On(chain), dir # d PROVE ToSync(dir)'
    BY <1>1, <1>3, <2>2 DEF ToSync, WithDate
  <2>3. Endpoint \in made' \ syncedDirs' => ToSync(Root)'
    BY <1>1, <1>2, <1>5, <2>1, <2>2 DEF ChainCovers, ToSync
  <2>4. ASSUME NEW e \in (made' \ syncedDirs') \cap Dates PROVE ToSync(Endpoint)'
    BY <1>1, <1>2, <1>5, <2>1, <2>2 DEF ChainCovers, ToSync
  <2>5. ASSUME NEW e \in Dates, syncedParts'[e] # DOMAIN parts[e]
        PROVE  e = date /\ ToSync(e)'
    BY <1>6, <2>1, <2>2, <2>5 DEF ChainCovers, ToSync
  <2>6. ChainCovers'
    BY <1>1, <2>3, <2>4, <2>5 DEF ChainCovers
  <2>7. \A v \in 1 .. token : Durable(v)'
    BY <1>1, <1>2, <1>7, <2>1, DurableKept
  <2> QED BY <1>1, <2>6, <2>7
<1>14. TokenBackedByOneKindOfFault'
  BY <1>1 DEF TokenBackedByOneKindOfFault, TokenBacked, HasRows
<1> QED BY <1>1, <1>8, <1>9, <1>10, <1>11, <1>12, <1>13, <1>14

LEMMA CommitTokenKeeps ==
    ASSUME FeedInv, CommitToken
    PROVE  FeedInv'
<1> USE DEF FeedInv
<1>1. /\ feedAt = "write" /\ todo = {} /\ token' = page.to
      /\ feedAt' \in {"fetch", "down"}
      /\ UNCHANGED <<stream, parts, made, syncedDirs, syncedParts, page, todo,
                     date, chain, interrupts, powerLosses>>
  BY DEF CommitToken, disk
<1>2. /\ page \in Page /\ page.from \in Nat /\ page.to \in Nat
      /\ page.from = token /\ page.from <= page.to /\ page.to <= Len(stream)
  BY <1>1 DEF FeedTypeOK, Page, PageAsked, WithPage
<1>3. FeedTypeOK'
  <2>1. Len(stream) \in Nat
    BY DEF FeedTypeOK
  <2>2. token' \in 0 .. Len(stream')
    BY <1>1, <1>2, <2>1
  <2> QED BY <1>1, <2>2 DEF FeedTypeOK
<1>4. ~WithPage' /\ ~WithDate' /\ ~WithDate
  BY <1>1 DEF WithPage, WithDate
<1>5. Tree' /\ PageAsked' /\ PageAppended' /\ Chained'
  BY <1>1, <1>4 DEF Tree, PageAsked, PageAppended, Chained, WithDate
<1>6. PartsWithin'
  BY <1>1 DEF PartsWithin
<1>7. OnePageAhead'
  <2>1. ASSUME NEW d \in Dates, NEW n \in DOMAIN parts[d] PROVE ~(parts[d][n].to > page.to)
    <3>1. parts[d][n].to <= page.to /\ parts[d][n].to \in Nat
      BY <1>1, PartTyped DEF PageAsked, WithPage
    <3> QED BY <1>2, <3>1
  <2> QED BY <1>1, <2>1 DEF OnePageAhead
<1>8. ASSUME NEW v \in (token + 1) .. page.to
      PROVE  /\ stream[v] \in Dates
             /\ \E n \in DOMAIN parts[stream[v]] :
                   parts[stream[v]][n].from < v /\ v <= parts[stream[v]][n].to
  <2>1. stream[v] \in DatesOf(page) /\ stream[v] \in Dates
    BY <1>2, DatesTyped
  <2>2. Appended(stream[v])
    BY <1>1, <2>1 DEF PageAppended, WithPage
  <2>3. PICK n \in DOMAIN parts[stream[v]] :
           parts[stream[v]][n] = [from |-> page.from, to |-> page.to]
    BY <2>2 DEF Appended
  <2>4. token \in Nat /\ v \in Nat /\ token < v /\ v <= page.to
    BY <1>2 DEF FeedTypeOK
  <2>5. parts[stream[v]][n].from < v /\ v <= parts[stream[v]][n].to
    BY <1>2, <2>3, <2>4
  <2> QED BY <2>1, <2>5
<1>9. ASSUME NEW v \in 1 .. token' PROVE v \in 1 .. token \/ v \in (token + 1) .. page.to
  BY <1>1, <1>2 DEF FeedTypeOK
<1>10. ASSUME interrupts = 0
       PROVE  ChainCovers' /\ \A v \in 1 .. token' : Durable(v)'
  <2>1. made = syncedDirs /\ \A e \in Dates : syncedParts[e] = DOMAIN parts[e]
    BY <1>4, <1>10, AllSynced
  <2>2. ChainCovers'
    BY <1>1, <2>1 DEF ChainCovers
  <2>3. ASSUME NEW v \in 1 .. token' PROVE Durable(v)'
    <3>1. CASE v \in 1 .. token
      <4>1. Durable(v)
        BY <1>10, <3>1
      <4> QED BY <1>1, <4>1 DEF Durable
    <3>2. CASE v \in (token + 1) .. page.to
      <4>1. stream[v] \in Dates /\ DOMAIN parts[stream[v]] # {}
        BY <1>8, <3>2
      <4>2. stream[v] \in made
        BY <4>1 DEF FeedTypeOK
      <4>3. Endpoint \in made
        BY <4>1, <4>2 DEF Tree
      <4> QED BY <1>1, <1>8, <2>1, <3>2, <4>1, <4>2, <4>3 DEF Durable
    <3> QED BY <1>9, <3>1, <3>2
  <2> QED BY <2>2, <2>3
<1>11. TokenBackedByOneKindOfFault'
  <2>1. ASSUME NEW v \in 1 .. token', TokenBacked PROVE HasRows(stream[v], v)
    BY <1>8, <1>9, <2>1 DEF TokenBacked, HasRows
  <2> QED BY <1>1, <2>1 DEF TokenBackedByOneKindOfFault, TokenBacked, HasRows
<1> QED BY <1>1, <1>3, <1>5, <1>6, <1>7, <1>10, <1>11

LEMMA EmitKeeps ==
    ASSUME FeedInv, Emit
    PROVE  FeedInv'
<1> USE DEF FeedInv
<1>1. PICK d \in Dates : stream' = Append(stream, d)
  BY DEF Emit
<1>2. UNCHANGED <<token, parts, made, syncedDirs, syncedParts, feedAt, page, todo,
                  date, chain, interrupts, powerLosses>>
  BY DEF Emit, disk, drive
<1>3. /\ stream' \in Seq(Dates) /\ Len(stream') = Len(stream) + 1
      /\ \A v \in 1 .. Len(stream) : stream'[v] = stream[v]
      /\ Len(stream) \in Nat /\ token \in Nat /\ token <= Len(stream)
  BY <1>1, StreamGrown DEF FeedTypeOK
<1>4. \A v \in 1 .. token : stream'[v] = stream[v]
  BY <1>3
<1>5. FeedTypeOK'
  <2>1. token \in 0 .. Len(stream')
    BY <1>3
  <2> QED BY <1>2, <1>3, <2>1 DEF FeedTypeOK
<1>6. Tree' /\ Chained' /\ OnePageAhead'
  BY <1>2 DEF Tree, Chained, WithDate, OnePageAhead, WholeChains
<1>7. WithPage => DatesOf(page)' = DatesOf(page)
  <2> HAVE WithPage
  <2>1. page.from \in Nat /\ page.to \in Nat /\ page.to <= Len(stream)
    BY DEF PageAsked, FeedTypeOK, Page
  <2>2. \A v \in (page.from + 1) .. page.to : stream'[v] = stream[v]
    BY <1>3, <2>1
  <2> QED BY <1>2, <2>2 DEF DatesOf
<1>8. PageAsked'
  <2>1. page.to \in Nat
    BY DEF FeedTypeOK, Page
  <2>2. page.to <= Len(stream) => page.to <= Len(stream')
    BY <1>3, <2>1
  <2> QED BY <1>2, <1>7, <2>2 DEF PageAsked, WithPage
<1>9. PartsWithin'
  <2>1. ASSUME NEW e \in Dates, NEW n \in DOMAIN parts[e] PROVE parts[e][n].to <= Len(stream')
    <3>1. parts[e][n].to \in Nat /\ parts[e][n].to <= Len(stream)
      BY PartTyped DEF PartsWithin
    <3> QED BY <1>3, <3>1
  <2> QED BY <1>2, <2>1 DEF PartsWithin
<1>10. PageAppended'
  BY <1>2, <1>7 DEF PageAppended, WithPage, Appended
<1>11. ASSUME interrupts = 0
       PROVE  ChainCovers' /\ \A v \in 1 .. token' : Durable(v)'
  BY <1>2, <1>4, <1>11 DEF ChainCovers, ToSync, WithDate, Durable
<1>12. TokenBackedByOneKindOfFault'
  BY <1>2, <1>4 DEF TokenBackedByOneKindOfFault, TokenBacked, HasRows
<1> QED BY <1>2, <1>5, <1>6, <1>8, <1>9, <1>10, <1>11, <1>12

\* A run that stops has no page.
LEMMA DriveStopped ==
    ASSUME StopDrive
    PROVE  /\ ~WithPage' /\ ~WithDate'
           /\ PageAsked' /\ PageAppended' /\ Chained'
           /\ feedAt' = "down" /\ page' \in Page /\ todo' = {}
           /\ date' = Root /\ chain' \in Seq(Directories)
BY EmptySeq DEF StopDrive, NoPage, Page, WithPage, WithDate, PageAsked, PageAppended,
   Chained

LEMMA InterruptKeeps ==
    ASSUME FeedInv, Interrupt
    PROVE  FeedInv'
<1> USE DEF FeedInv
<1>1. /\ interrupts' = interrupts + 1 /\ interrupts' \in 1 .. MaxInterrupts
      /\ UNCHANGED <<stream, token, parts, made, syncedDirs, syncedParts, powerLosses>>
  BY FeedAssumption DEF Interrupt, disk, FeedTypeOK
<1>2. /\ PageAsked' /\ PageAppended' /\ Chained'
      /\ feedAt' = "down" /\ page' \in Page /\ todo' = {}
      /\ date' = Root /\ chain' \in Seq(Directories)
  BY DriveStopped DEF Interrupt
<1>3. FeedTypeOK'
  BY <1>1, <1>2, FeedAssumption DEF FeedTypeOK
<1>4. Tree' /\ PartsWithin' /\ OnePageAhead'
  BY <1>1 DEF Tree, PartsWithin, OnePageAhead
<1>5. interrupts' # 0
  BY <1>1
<1>6. TokenBackedByOneKindOfFault'
  BY <1>1, <1>5 DEF TokenBackedByOneKindOfFault, TokenBacked, HasRows
<1> QED BY <1>2, <1>3, <1>4, <1>5, <1>6

LEMMA PowerLossKeeps ==
    ASSUME FeedInv, PowerLoss
    PROVE  FeedInv'
<1> USE DEF FeedInv
<1>1. PICK flushedDirs \in SUBSET (made \ syncedDirs) :
      \E flushedParts \in SUBSET UNION {{d} \X (DOMAIN parts[d] \ syncedParts[d])
                                           : d \in Dates} :
         LET kept == syncedDirs \cup flushedDirs
             left == IF Endpoint \in kept THEN kept ELSE {Root}
             partsLeft(d) == IF d \in left
                             THEN syncedParts[d] \cup
                                  {n \in DOMAIN parts[d] : <<d, n>> \in flushedParts}
                             ELSE {}
         IN  /\ made' = left /\ syncedDirs' = left
             /\ parts' = [d \in Dates |-> [n \in partsLeft(d) |-> parts[d][n]]]
             /\ syncedParts' = [d \in Dates |-> partsLeft(d)]
  BY DEF PowerLoss
<1>2. PICK flushedParts :
         LET kept == syncedDirs \cup flushedDirs
             left == IF Endpoint \in kept THEN kept ELSE {Root}
             partsLeft(d) == IF d \in left
                             THEN syncedParts[d] \cup
                                  {n \in DOMAIN parts[d] : <<d, n>> \in flushedParts}
                             ELSE {}
         IN  /\ made' = left /\ syncedDirs' = left
             /\ parts' = [d \in Dates |-> [n \in partsLeft(d) |-> parts[d][n]]]
             /\ syncedParts' = [d \in Dates |-> partsLeft(d)]
  BY <1>1
<1> DEFINE kept == syncedDirs \cup flushedDirs
           left == IF Endpoint \in kept THEN kept ELSE {Root}
           partsLeft(d) == IF d \in left
                           THEN syncedParts[d] \cup
                                {n \in DOMAIN parts[d] : <<d, n>> \in flushedParts}
                           ELSE {}
<1>3. /\ made' = left /\ syncedDirs' = left
      /\ parts' = [d \in Dates |-> [n \in partsLeft(d) |-> parts[d][n]]]
      /\ syncedParts' = [d \in Dates |-> partsLeft(d)]
  BY <1>2
<1>4. /\ powerLosses' = powerLosses + 1 /\ powerLosses' \in 1 .. MaxPowerLosses
      /\ UNCHANGED <<stream, token, interrupts>>
  BY FeedAssumption DEF PowerLoss, FeedTypeOK
<1>5. /\ ~WithDate' /\ PageAsked' /\ PageAppended' /\ Chained'
      /\ feedAt' = "down" /\ page' \in Page /\ todo' = {}
      /\ date' = Root /\ chain' \in Seq(Directories)
  BY DriveStopped DEF PowerLoss
<1>6. ASSUME NEW d \in Dates
      PROVE  /\ DOMAIN parts'[d] = partsLeft(d) /\ syncedParts'[d] = DOMAIN parts'[d]
             /\ partsLeft(d) \subseteq DOMAIN parts[d]
             /\ \A n \in DOMAIN parts'[d] : parts'[d][n] = parts[d][n]
             /\ partsLeft(d) # {} => d \in left
             /\ d \in left => syncedParts[d] \subseteq partsLeft(d)
             /\ parts'[d] = [n \in DOMAIN parts'[d] |-> parts'[d][n]]
  BY <1>3 DEF FeedTypeOK
<1>7. /\ left \subseteq made /\ Root \in left
      /\ (Endpoint \in syncedDirs => syncedDirs \subseteq left)
      /\ left \cap Dates # {} => Endpoint \in left
  <2>1. Root \notin Dates
    BY FeedAssumption
  <2> QED BY <2>1 DEF Tree, FeedTypeOK
<1> HIDE DEF left, partsLeft, kept
<1>8. FeedTypeOK'
  <2>1. ASSUME NEW d \in Dates
        PROVE  /\ parts'[d] \in [DOMAIN parts'[d] -> PartRows]
               /\ DOMAIN parts'[d] \subseteq Nat \ {0}
               /\ syncedParts'[d] \subseteq DOMAIN parts'[d]
               /\ DOMAIN parts'[d] # {} => d \in made'
    <3>1. \A n \in DOMAIN parts'[d] : n \in DOMAIN parts[d] /\ parts'[d][n] \in PartRows
      BY <1>6, PartTyped
    <3>2. parts'[d] \in [DOMAIN parts'[d] -> PartRows]
      BY <1>6, <3>1
    <3>3. DOMAIN parts'[d] \subseteq Nat \ {0}
      BY <3>1 DEF FeedTypeOK
    <3> QED BY <1>3, <1>6, <3>2, <3>3
  <2>2. DOMAIN parts' = Dates /\ DOMAIN syncedParts' = Dates
    BY <1>3
  <2>3. syncedDirs' \subseteq made' /\ made' \subseteq Directories
    BY <1>3, <1>7 DEF FeedTypeOK
  <2> QED BY <1>4, <1>5, <2>1, <2>2, <2>3, FeedAssumption DEF FeedTypeOK
<1>9. Tree'
  BY <1>3, <1>7 DEF Tree
<1>10. PartsWithin' /\ OnePageAhead'
  <2>1. ASSUME NEW d \in Dates, NEW n \in DOMAIN parts'[d]
        PROVE  n \in DOMAIN parts[d] /\ parts'[d][n] = parts[d][n]
    BY <1>6
  <2> QED BY <1>4, <2>1 DEF PartsWithin, OnePageAhead
<1>11. ASSUME interrupts = 0
       PROVE  ChainCovers' /\ \A v \in 1 .. token' : Durable(v)'
  <2>1. ChainCovers'
    BY <1>3, <1>6 DEF ChainCovers
  <2>2. ASSUME NEW v \in 1 .. token PROVE Durable(v)'
    <3>1. Durable(v) /\ stream[v] \in Dates
      BY <1>11, ElementOfSeq DEF FeedTypeOK
    <3>2. {stream[v], Endpoint} \subseteq left
      BY <1>7, <3>1 DEF Durable
    <3>3. PICK n \in syncedParts[stream[v]] :
             parts[stream[v]][n].from < v /\ v <= parts[stream[v]][n].to
      BY <3>1 DEF Durable
    <3>4. n \in syncedParts'[stream[v]] /\ parts'[stream[v]][n] = parts[stream[v]][n]
      BY <1>6, <3>1, <3>2, <3>3
    <3>5. stream' = stream /\ syncedDirs' = left
      BY <1>3, <1>4
    <3>6. parts'[stream[v]][n].from < v /\ v <= parts'[stream[v]][n].to
      BY <3>3, <3>4
    <3> QED BY <3>2, <3>4, <3>5, <3>6 DEF Durable
  <2> QED BY <1>4, <2>1, <2>2
<1>12. TokenBackedByOneKindOfFault'
  <2>1. powerLosses' # 0
    BY <1>4
  <2>2. ASSUME interrupts = 0, NEW v \in 1 .. token PROVE HasRows(stream[v], v)'
    <3>1. Durable(v)' /\ stream[v] \in Dates
      BY <1>4, <1>11, <2>2, ElementOfSeq DEF FeedTypeOK
    <3>2. syncedParts'[stream[v]] \subseteq DOMAIN parts'[stream[v]]
      BY <1>6, <3>1
    <3> QED BY <1>4, <3>1, <3>2 DEF Durable, HasRows
  <2> QED BY <1>4, <2>1, <2>2 DEF TokenBackedByOneKindOfFault, TokenBacked, HasRows
<1> QED BY <1>4, <1>5, <1>8, <1>9, <1>10, <1>11, <1>12

LEMMA FeedNextKeeps ==
    ASSUME FeedInv, [FeedNext]_feedVars
    PROVE  FeedInv'
<1>1. CASE UNCHANGED feedVars
  <2> USE <1>1 DEF feedVars, disk, drive, FeedInv
  <2>1. FeedTypeOK'
    BY DEF FeedTypeOK
  <2>2. Tree' /\ PageAsked' /\ PartsWithin' /\ PageAppended' /\ Chained' /\ OnePageAhead'
    BY DEF Tree, PageAsked, PartsWithin, PageAppended, Chained, OnePageAhead, WithPage,
       WithDate, DatesOf, Appended, WholeChains
  <2>3. interrupts' = 0 => ChainCovers' /\ \A v \in 1 .. token' : Durable(v)'
    BY DEF ChainCovers, ToSync, WithDate, Durable
  <2>4. TokenBackedByOneKindOfFault'
    BY DEF TokenBackedByOneKindOfFault, TokenBacked, HasRows
  <2> QED BY <2>1, <2>2, <2>3, <2>4
<1> QED
  BY <1>1, StartRunKeeps, FetchPageKeeps, OpenPartitionKeeps, RenamePartKeeps,
     SyncDirectoryKeeps, CommitTokenKeeps, EmitKeeps, InterruptKeeps, PowerLossKeeps
     DEF FeedNext, DriveStep

\* The runner runs its feed arm and nothing else touches that arm's state.
LEMMA RunnerRunsFeed == Spec => FeedSpec
<1>1. Init => FeedInit
  BY DEF Init
<1>2. [Next]_vars => [FeedNext]_feedVars
  BY DEF Next, RunFeed, RunHarvest, vars
<1> QED BY <1>1, <1>2, PTL DEF Spec, FeedSpec

LEMMA FeedInvariance == Spec => []FeedInv
<1>1. FeedInit => FeedInv
  BY InitFeedInv
<1>2. FeedInv /\ [FeedNext]_feedVars => FeedInv'
  BY FeedNextKeeps
<1>3. FeedSpec => []FeedInv
  BY <1>1, <1>2, PTL DEF FeedSpec
<1> QED BY <1>3, RunnerRunsFeed, PTL

-----------------------------------------------------------------------------
(* The theorems. *)

\* Against process deaths and failing writes alone, and against power losses
\* alone, every record at or before the stored token is on disk in its
\* partition (storage/atomic.py, state/cursors.py).
THEOREM TokenIsBacked == Spec => []TokenBackedByOneKindOfFault
<1>1. FeedInv => TokenBackedByOneKindOfFault
  BY DEF FeedInv
<1> QED BY <1>1, FeedInvariance, PTL

\* Whatever fails, rows ahead of the token come from pages asked from that very
\* token: no more than one page is fetched and appended again
\* (orchestrator/feed_drive.py).
THEOREM AheadByOnePage == Spec => []OnePageAhead
<1>1. FeedInv => OnePageAhead
  BY DEF FeedInv
<1> QED BY <1>1, FeedInvariance, PTL

\* The program never rewrites, renumbers or removes a landed part, however many
\* runs were interrupted before (storage/append.py).
THEOREM PartsAppendOnly == Spec => AppendOnly
<1> DEFINE Kept ==
        powerLosses' = powerLosses =>
            \A d \in Dates : \A n \in DOMAIN parts[d] :
                n \in DOMAIN parts'[d] /\ parts'[d][n] = parts[d][n]
<1>1. ASSUME FeedInv, [FeedNext]_feedVars PROVE [Kept]_parts
  <2>1. CASE RenamePart
    BY <1>1, <2>1, PartAdded
  <2>2. CASE PowerLoss
    BY <2>2, <1>1 DEF PowerLoss, FeedInv, FeedTypeOK
  <2>3. CASE \/ StartRun \/ FetchPage \/ OpenPartition \/ SyncDirectory \/ CommitToken
             \/ Emit \/ Interrupt \/ UNCHANGED feedVars
    BY <2>3 DEF StartRun, FetchPage, OpenPartition, SyncDirectory, CommitToken, Emit,
       Interrupt, feedVars, disk
  <2> QED BY <1>1, <2>1, <2>2, <2>3 DEF FeedNext, DriveStep
<1>2. FeedInv /\ [FeedNext]_feedVars => [Kept]_parts
  BY <1>1
<1> QED BY <1>2, FeedInvariance, RunnerRunsFeed, PTL DEF FeedSpec, AppendOnly

-----------------------------------------------------------------------------
(* The records of the harvesting arms. *)

Underway == {"fetch", "check", "land", "complete"}

\* Runs are numbered in order; the one under way is the newest, and its record
\* stays open until its rows have landed.
TrailInv ==
    /\ at \in {"idle", "project"} \cup Underway
    /\ run \in 0 .. MaxRuns /\ metadata \in 0 .. MaxRuns
    /\ ledger \in [1 .. MaxRuns -> {"none", "running", "success", "failed"}]
    /\ file.run \in 0 .. run
    /\ \A n \in 1 .. MaxRuns : ledger[n] # "none" => n <= run
    /\ at # "idle" => run > 0
    /\ at \in Underway => ledger[run] = "running"
    /\ at \in {"complete", "project"} => file.run = run
    /\ at = "project" => ledger[run] = "success"
    /\ RecordsTrailRows

LEMMA InitTrail == HarvestInit => TrailInv
BY HarvestAssumption DEF HarvestInit, TrailInv, RecordsTrailRows, Underway

\* A run opened.
LEMMA StartHarvestTrails ==
    ASSUME TrailInv, StartHarvest
    PROVE  TrailInv'
<1> USE DEF TrailInv, Underway
<1>1. /\ at = "idle" /\ run < MaxRuns /\ run' = run + 1 /\ at' = "fetch"
      /\ ledger' = [ledger EXCEPT ![run'] = "running"]
      /\ UNCHANGED <<file, metadata>>
  BY DEF StartHarvest
<1>2. run \in Nat /\ run' \in 1 .. MaxRuns /\ file.run \in 0 .. run'
  BY <1>1, HarvestAssumption
<1>3. /\ ledger' \in [1 .. MaxRuns -> {"none", "running", "success", "failed"}]
      /\ ledger'[run'] = "running"
      /\ \A n \in (1 .. MaxRuns) \ {run'} : ledger'[n] = ledger[n]
  BY <1>1, <1>2
<1>4. ledger[run'] = "none"
  BY <1>1, <1>2
<1>5. \A n \in 1 .. MaxRuns : ledger'[n] # "none" => n <= run'
  BY <1>1, <1>2, <1>3
<1>6. RecordsTrailRows'
  BY <1>1, <1>2, <1>3, <1>4 DEF RecordsTrailRows
<1> QED BY <1>1, <1>2, <1>3, <1>5, <1>6

\* A run that fails or dies, and one that is completed.
LEMMA RunClosed ==
    ASSUME TrailInv, at \in Underway,
           NEW status \in {"success", "failed", "running"},
           ledger' = [ledger EXCEPT ![run] = status],
           UNCHANGED <<run, file, metadata>>,
           \/ at' = "idle" /\ status # "success"
           \/ at' = "project" /\ at = "complete" /\ status = "success"
    PROVE  TrailInv'
<1> USE DEF TrailInv, Underway
<1>1. run \in 1 .. MaxRuns /\ ledger[run] = "running"
  BY HarvestAssumption
<1>2. /\ ledger' \in [1 .. MaxRuns -> {"none", "running", "success", "failed"}]
      /\ ledger'[run] = status
      /\ \A n \in (1 .. MaxRuns) \ {run} : ledger'[n] = ledger[n]
  BY <1>1
<1>3. \A n \in 1 .. MaxRuns : ledger'[n] # "none" => n <= run
  BY <1>1, <1>2
<1>4. RecordsTrailRows'
  BY <1>1, <1>2 DEF RecordsTrailRows
<1> QED BY <1>1, <1>2, <1>3, <1>4

LEMMA HarvestNextTrails ==
    ASSUME TrailInv, [HarvestNext]_harvestVars
    PROVE  TrailInv'
<1> USE DEF TrailInv, Underway
<1>1. CASE HarvestPage \/ FetchLeaf \/ HalveWindow \/ Edit \/ UNCHANGED harvestVars
  <2>1. UNCHANGED <<at, run, file, ledger, metadata>>
    BY <1>1 DEF HarvestPage, FetchLeaf, HalveWindow, Edit, harvestVars, harvest
  <2> QED BY <2>1 DEF RecordsTrailRows
<1>2. CASE EndWalk \/ CheckCount
  <2>1. /\ at \in {"fetch", "check"} /\ at' \in {"check", "land"}
        /\ UNCHANGED <<run, file, ledger, metadata>>
    BY <1>2 DEF EndWalk, CheckCount
  <2> QED BY <2>1 DEF RecordsTrailRows
<1>3. CASE Land
  <2>1. /\ at = "land" /\ at' = "complete" /\ file'.run = run
        /\ UNCHANGED <<run, ledger, metadata>>
    BY <1>3 DEF Land
  <2>2. RecordsTrailRows'
    BY <2>1 DEF RecordsTrailRows
  <2> QED BY <2>1, <2>2, HarvestAssumption
<1>4. CASE CompleteRun
  BY <1>4, RunClosed DEF CompleteRun
<1>5. CASE Project \/ ProjectionFault
  <2>1. /\ at = "project" /\ at' = "idle" /\ metadata' \in {metadata, run}
        /\ UNCHANGED <<run, file, ledger>>
    BY <1>5 DEF Project, ProjectionFault, StopHarvest
  <2> QED BY <2>1 DEF RecordsTrailRows
<1>6. CASE Mismatch \/ TooDense \/ Fault
  <2>1. at \in Underway /\ \E status \in {"failed", "running"} : Failed(status)
    BY <1>6 DEF Mismatch, TooDense, Fault
  <2>2. PICK status \in {"failed", "running"} : Failed(status)
    BY <2>1
  <2> QED BY <2>1, <2>2, RunClosed DEF Failed, StopHarvest
<1> QED
  BY <1>1, <1>2, <1>3, <1>4, <1>5, <1>6, StartHarvestTrails DEF HarvestNext, RunStep

\* Whatever raises or dies in between, no run is ledgered a success whose rows
\* have not landed, and metadata.json tells of no run that is not so ledgered
\* (orchestrator/runner.py, orchestrator/metadata_projection.py).
THEOREM RecordsTrail == Spec => []RecordsTrailRows
<1>1. Init => TrailInv
  BY InitTrail DEF Init
<1>2. [Next]_vars => [HarvestNext]_harvestVars
  BY DEF Next, RunFeed, RunHarvest, vars
<1>3. TrailInv /\ [HarvestNext]_harvestVars => TrailInv'
  BY HarvestNextTrails
<1>4. TrailInv => RecordsTrailRows
  BY DEF TrailInv
<1> QED BY <1>1, <1>2, <1>3, <1>4, PTL DEF Spec
-----------------------------------------------------------------------------
(* The shape of a harvest.                                                 *)

\* The windows a bisection may have left to fetch, and the chains over them.
Parts == {w \in [from : Window.from .. Window.to, to : Window.from .. Window.to] :
             w.from < w.to}
UnitChains == [members : SUBSET Owners, window : Parts]
Frames == Seq(SUBSET Row)

HarvestShape ==
    /\ cell \in Cells /\ anchor \in [Records -> Ticks \cup {1}]
    /\ long \subseteq LongRecords /\ shift \in Int
    /\ listed \subseteq Records /\ touched \subseteq Records
    /\ owner \in [Records -> Owners] /\ removed \in BOOLEAN
    /\ position \in Nat /\ harvested \in Nat
    /\ pending \in Seq(UnitChains) /\ frames \in Frames
    /\ file.frames \in Frames
    /\ edits \in 0 .. MaxEdits /\ faults \in 0 .. MaxFaults

\* A set of numbers has a first one, and up to a bound a last one.
LEMMA FirstExists ==
    ASSUME NEW ids \in SUBSET Nat, ids # {}
    PROVE  \E i \in ids : \A j \in ids : i <= j
<1> DEFINE less == OpToRel(<, Nat)
<1>1. \A x, y \in Nat : x < y => <<x, y>> \in less
  BY DEF OpToRel
<1>2. IsWellFoundedOn(less, Nat)
  BY NatLessThanWellFounded
<1> HIDE DEF less
<1>3. PICK i \in ids : \A j \in ids : <<j, i>> \notin less
  BY <1>2, WFMin
<1>4. \A j \in ids : i <= j
  <2> TAKE j \in ids
  <2>1. i \in Nat /\ j \in Nat /\ ~ (j < i)
    BY <1>1, <1>3
  <2> QED BY <2>1
<1> QED BY <1>4

LEMMA LastIsLast ==
    ASSUME NEW n \in Nat, NEW ids \in SUBSET (1 .. n), ids # {}
    PROVE  Last(ids) \in ids /\ \A j \in ids : j <= Last(ids)
<1> DEFINE left == {n - j : j \in ids}
<1>1. left \subseteq Nat /\ left # {}
  <2>1. \A j \in ids : n - j \in Nat
    OBVIOUS
  <2> QED BY <2>1
<1> HIDE DEF left
<1>2. PICK x \in left : \A y \in left : x <= y
  BY <1>1, FirstExists
<1>3. PICK i \in ids : x = n - i
  BY <1>2 DEF left
<1>4. \A j \in ids : j <= i
  <2> TAKE j \in ids
  <2>1. n - j \in left
    BY DEF left
  <2>2. n - i <= n - j
    BY <1>2, <1>3, <2>1
  <2> QED BY <2>2
<1> QED BY <1>4 DEF Last

\* What a decoder takes from a page matches the chain, and it goes on from a
\* place or ends.
LEMMA PageTyped ==
    ASSUME HarvestShape, NEW c
    PROVE  /\ DecodedPage(c).records \subseteq Matches(c)
           /\ DecodedPage(c).next \in Nat \cup {Done}
<1> DEFINE all == Matches(c)
           carriers == {owner[r] : r \in all}
<1>1. all \in SUBSET (1 .. MaxId)
  BY DEF HarvestShape, Matches, Records
<1>2. carriers \in SUBSET (1 .. MaxOwner)
  BY <1>1 DEF HarvestShape, Records, Owners
<1> HIDE DEF all, carriers
<1>3. \A past : /\ After(all, past) \in SUBSET (1 .. MaxId)
                /\ After(all, past) \subseteq all
                /\ After(carriers, past) \in SUBSET (1 .. MaxOwner)
  BY <1>1, <1>2 DEF After
<1>4. ASSUME NEW answer \in SUBSET (1 .. MaxId), answer # {}
      PROVE  Last(answer) \in Nat
  <2>1. Last(answer) \in answer
    BY <1>4, LastIsLast, HarvestAssumption
  <2>2. PICK last \in answer : last = Last(answer)
    BY <2>1
  <2>3. last \in Nat
    BY <2>2
  <2> QED BY <2>2, <2>3
<1>5. ASSUME NEW answer \in SUBSET (1 .. MaxOwner), answer # {}
      PROVE  Last(answer) \in Nat
  <2>1. Last(answer) \in answer
    BY <1>5, LastIsLast, HarvestAssumption
  <2>2. PICK last \in answer : last = Last(answer)
    BY <2>1
  <2>3. last \in Nat
    BY <2>2
  <2> QED BY <2>2, <2>3
<1>6. SeekPage(c).records \subseteq all /\ SeekPage(c).next \in Nat \cup {Done}
  BY <1>3, <1>4 DEF SeekPage, all
<1>7. OffsetPage(c).records \subseteq all /\ OffsetPage(c).next \in Nat \cup {Done}
  BY DEF OffsetPage, Numbered, all, HarvestShape
<1>8. CursorPage(c).records \subseteq all /\ CursorPage(c).next \in Nat \cup {Done}
  BY <1>3, <1>4 DEF CursorPage, all
<1>9. SeriesPage(c).records \subseteq all /\ SeriesPage(c).next \in Nat \cup {Done}
  BY <1>3, <1>5 DEF SeriesPage, all, carriers
<1>10. SinglePage(c).records \subseteq all /\ SinglePage(c).next \in Nat \cup {Done}
  BY DEF SinglePage, all
<1> QED BY <1>6, <1>7, <1>8, <1>9, <1>10 DEF DecodedPage, all

\* One row is made of each record.
LEMMA RowsCounted ==
    ASSUME NEW c, NEW records, IsFiniteSet(records)
    PROVE  /\ IsFiniteSet(Rows(records, c))
           /\ Cardinality(Rows(records, c)) = Cardinality(records)
<1> DEFINE rows == Rows(records, c)
           row(r) ==
               [record |-> r,
                owner  |-> IF cell.stamp = "member"
                           THEN CHOOSE m \in c.members : TRUE ELSE owner[r],
                time   |-> IF cell.stamp = "window" THEN c.window.from
                           ELSE anchor[r]]
           rowOf == [r \in records |-> row(r)]
<1>1. rows = {row(r) : r \in records}
  BY DEF Rows
<1>2. \A r \in records : row(r).record = r
  OBVIOUS
<1> HIDE DEF rows, row
<1>3. rowOf \in [records -> rows] /\ \A y \in rows : \E r \in records : rowOf[r] = y
  BY <1>1
<1>4. \A r, q \in records : rowOf[r] = rowOf[q] => r = q
  <2> TAKE r, q \in records
  <2>1. rowOf[r] = row(r) /\ rowOf[q] = row(q)
    OBVIOUS
  <2> QED BY <1>2, <2>1
<1> HIDE DEF rowOf
<1>5. rowOf \in Surjection(records, rows) /\ rowOf \in Injection(records, rows)
  BY <1>3, <1>4 DEF Surjection, Injection, IsInjective
<1>6. IsFiniteSet(rows) /\ Cardinality(rows) = Cardinality(records)
  BY <1>5, FS_Surjection
<1> QED BY <1>6 DEF rows

\* The rows made of records that match a chain of the unit.
LEMMA RowsTyped ==
    ASSUME HarvestShape, NEW c \in UnitChains,
           NEW records \in SUBSET Matches(c)
    PROVE  /\ Rows(records, c) \subseteq Row
           /\ Processed(Rows(records, c)) \subseteq Row
           /\ \A w : /\ InWindow(Rows(records, c), w) \subseteq Row
                     /\ Processed(InWindow(Rows(records, c), w)) \subseteq Row
           /\ IsFiniteSet(records) /\ Cardinality(records) \in Nat
           /\ \A rows \in SUBSET Rows(records, c) :
                 IsFiniteSet(rows) /\ Cardinality(rows) \in Nat
<1>1. records \subseteq Records /\ \A r \in records : owner[r] \in c.members
  BY DEF Matches, HarvestShape
<1>2. c.members \subseteq Owners /\ c.window.from \in Nat
  BY HarvestAssumption DEF UnitChains, Parts, Window
<1>3. \A r \in records : /\ owner[r] \in Owners
                         /\ anchor[r] \in Nat
                         /\ (CHOOSE m \in c.members : TRUE) \in Owners
  <2> TAKE r \in records
  <2>1. owner[r] \in Owners /\ anchor[r] \in Ticks \cup {1}
    BY <1>1 DEF HarvestShape
  <2>2. (CHOOSE m \in c.members : TRUE) \in c.members
    BY <1>1
  <2> QED BY <1>2, <2>1, <2>2, HarvestAssumption
<1>4. Rows(records, c) \subseteq Row
  BY <1>1, <1>2, <1>3 DEF Rows, Row
<1>5. \A rows \in SUBSET Row : \A w : /\ InWindow(rows, w) \in SUBSET Row
                                      /\ Processed(rows) \in SUBSET Row
  BY DEF InWindow, Processed
<1>6. IsFiniteSet(Records)
  BY FS_Interval, HarvestAssumption DEF Records
<1>7. IsFiniteSet(records) /\ Cardinality(records) \in Nat
  BY <1>1, <1>6, FS_Subset, FS_CardinalityType
<1>8. IsFiniteSet(Rows(records, c))
  BY <1>7, RowsCounted
<1>9. \A rows \in SUBSET Rows(records, c) :
         IsFiniteSet(rows) /\ Cardinality(rows) \in Nat
  BY <1>8, FS_Subset, FS_CardinalityType
<1> QED BY <1>4, <1>5, <1>7, <1>9

LEMMA InitShape == HarvestInit => HarvestShape
<1> SUFFICES ASSUME HarvestInit PROVE HarvestShape
  OBVIOUS
<1> USE HarvestAssumption
<1>1. owner \in [Records -> Owners]
  <2>1. \A r \in 1 .. MaxId : 1 + ((r - 1) \div 2) \in 1 .. MaxOwner
    OBVIOUS
  <2> QED BY <2>1 DEF HarvestInit, FirstOwner, Records, Owners
<1>2. anchor \in [Records -> Ticks \cup {1}] /\ long \subseteq LongRecords
  BY DEF HarvestInit
<1>3. shift \in Int /\ listed \subseteq Records
  BY DEF HarvestInit
<1>4. pending \in Seq(UnitChains) /\ frames \in Frames /\ file.frames \in Frames
  BY EmptySeq DEF HarvestInit, Frames
<1>5. /\ cell \in Cells /\ touched = {} /\ removed = FALSE
      /\ position = 0 /\ harvested = 0 /\ edits = 0 /\ faults = 0
  BY DEF HarvestInit
<1>6. /\ touched \subseteq Records /\ position \in Nat /\ harvested \in Nat
      /\ edits \in 0 .. MaxEdits /\ faults \in 0 .. MaxFaults
  BY <1>5
<1>7. removed \in BOOLEAN
  BY <1>5
<1> QED BY <1>1, <1>2, <1>3, <1>4, <1>5, <1>6, <1>7, Zenon DEF HarvestShape

\* The chains a unit starts with.
LEMMA ChainsTyped == Chains \in Seq(UnitChains)
<1> USE HarvestAssumption
<1>1. Window \in Parts
  BY DEF Window, Parts
<1>2. \A members \in SUBSET Owners : Chain(members, Window) \in UnitChains
  BY <1>1 DEF Chain, UnitChains
<1>3. <<Chain(Owners, Window)>> \in Seq(UnitChains)
  BY <1>2
<1>4. [m \in Owners |-> Chain({m}, Window)] \in Seq(UnitChains)
  <2>1. [m \in Owners |-> Chain({m}, Window)] \in [1 .. MaxOwner -> UnitChains]
    BY <1>2 DEF Owners
  <2> QED BY <2>1, IsASeq
<1>5. [b \in DOMAIN Batches |-> Chain(Batches[b], Window)] \in Seq(UnitChains)
  <2>1. (MaxOwner + BatchSize - 1) \div BatchSize \in Nat
    OBVIOUS
  <2> DEFINE n == (MaxOwner + BatchSize - 1) \div BatchSize
  <2>2. DOMAIN Batches = 1 .. n
    BY DEF Batches
  <2>3. \A b \in 1 .. n : Batches[b] \in SUBSET Owners
    BY DEF Batches
  <2> HIDE DEF n
  <2>4. [b \in DOMAIN Batches |-> Chain(Batches[b], Window)] \in [1 .. n -> UnitChains]
    BY <1>2, <2>2, <2>3
  <2> QED BY <2>1, <2>4, IsASeq DEF n
<1> QED BY <1>3, <1>4, <1>5 DEF Chains

\* A page written or left out keeps the frames' shape.
LEMMA WrittenTyped ==
    ASSUME frames \in Frames, NEW rows \in SUBSET Row
    PROVE  Written(rows) \in Frames
BY AppendProperties DEF Written, Frames

LEMMA HarvestPageTyped ==
    ASSUME HarvestShape, HarvestPage
    PROVE  HarvestShape'
<1> DEFINE first == Head(pending)
           answer == DecodedPage(first)
           rows == Processed(Rows(answer.records, first))
<1>1. /\ pending \in Seq(UnitChains) /\ pending # <<>>
      /\ frames' = Written(rows)
      /\ harvested' = harvested + Cardinality(answer.records)
      /\ IF answer.next = Done
         THEN pending' = Tail(pending) /\ position' = 0
         ELSE pending' = pending /\ position' = answer.next
      /\ UNCHANGED <<endpoint, provider, file, edits, faults>>
  BY DEF HarvestPage, HarvestShape
<1>2. first \in UnitChains /\ Tail(pending) \in Seq(UnitChains)
  BY <1>1, HeadTailProperties
<1>3. answer.records \in SUBSET Matches(first) /\ answer.next \in Nat \cup {Done}
  BY PageTyped
<1> HIDE DEF first, answer
<1>4. rows \in SUBSET Row /\ Cardinality(answer.records) \in Nat
  BY <1>2, <1>3, RowsTyped
<1> HIDE DEF rows
<1>5. frames' \in Frames /\ harvested' \in Nat
  BY <1>1, <1>4, WrittenTyped DEF HarvestShape
<1>6. pending' \in Seq(UnitChains) /\ position' \in Nat
  BY <1>1, <1>2, <1>3
<1> QED BY <1>1, <1>5, <1>6 DEF HarvestShape, endpoint, provider

LEMMA FetchLeafTyped ==
    ASSUME HarvestShape, FetchLeaf
    PROVE  HarvestShape'
<1> DEFINE first == Head(pending)
           rows == InWindow(Rows(Matches(first), first), first.window)
<1>1. /\ pending \in Seq(UnitChains) /\ pending # <<>>
      /\ frames' = Written(Processed(rows))
      /\ harvested' = harvested + Cardinality(rows)
      /\ pending' = Tail(pending)
      /\ UNCHANGED <<endpoint, provider, position, file, edits, faults>>
  BY DEF FetchLeaf, HarvestShape
<1>2. first \in UnitChains /\ Tail(pending) \in Seq(UnitChains)
  BY <1>1, HeadTailProperties
<1>3. rows \in SUBSET Rows(Matches(first), first)
  BY DEF InWindow
<1> HIDE DEF first
<1>4. Processed(rows) \in SUBSET Row /\ Cardinality(rows) \in Nat
  BY <1>2, <1>3, RowsTyped
<1> HIDE DEF rows
<1>5. frames' \in Frames /\ harvested' \in Nat
  BY <1>1, <1>4, WrittenTyped DEF HarvestShape
<1> QED BY <1>1, <1>2, <1>5 DEF HarvestShape, endpoint, provider

\* The halves of a window are windows, and neither is empty.
LEMMA HalvesTyped ==
    ASSUME NEW w \in Parts, Width(w) > 1
    PROVE  LET middle == w.from + Width(w) \div 2
           IN  /\ [from |-> w.from, to |-> middle] \in Parts
               /\ [from |-> middle, to |-> w.to] \in Parts
<1>1. /\ w.from \in Int /\ w.to \in Int
      /\ w.from >= Window.from /\ w.to <= Window.to /\ Width(w) = w.to - w.from
      /\ Window.from \in Int /\ Window.to \in Int
  BY HarvestAssumption DEF Parts, Window, Width
<1>2. PICK half \in Int : half = Width(w) \div 2 /\ 0 < half /\ half < Width(w)
  BY <1>1
<1>3. /\ w.from + half \in Window.from .. Window.to
      /\ w.from < w.from + half /\ w.from + half < w.to
  BY <1>1, <1>2
<1> QED BY <1>2, <1>3 DEF Parts

LEMMA HalveWindowTyped ==
    ASSUME HarvestShape, HalveWindow
    PROVE  HarvestShape'
<1> DEFINE first == Head(pending)
           w == first.window
           middle == w.from + Width(w) \div 2
           left == [from |-> w.from, to |-> middle]
           right == [from |-> middle, to |-> w.to]
           halves == <<Chain(first.members, left), Chain(first.members, right)>>
<1>1. /\ pending \in Seq(UnitChains) /\ pending # <<>>
      /\ Width(w) > 1 /\ pending' = halves \o Tail(pending)
      /\ UNCHANGED <<endpoint, provider, position, frames, harvested, file, edits,
                     faults>>
  BY DEF HalveWindow, HarvestShape, Floor
<1>2. first \in UnitChains /\ Tail(pending) \in Seq(UnitChains)
  BY <1>1, HeadTailProperties
<1>3. w \in Parts /\ first.members \in SUBSET Owners
  BY <1>2 DEF UnitChains
<1>4. left \in Parts /\ right \in Parts
  BY <1>1, <1>3, HalvesTyped
<1> HIDE DEF first, left, right
<1>5. halves \in Seq(UnitChains)
  BY <1>3, <1>4 DEF Chain, UnitChains
<1> HIDE DEF halves
<1>6. pending' \in Seq(UnitChains)
  BY <1>1, <1>2, <1>5, ConcatProperties
<1> QED BY <1>1, <1>6 DEF HarvestShape, endpoint, provider

LEMMA HarvestNextTyped ==
    ASSUME TrailInv, HarvestShape, [HarvestNext]_harvestVars
    PROVE  HarvestShape'
<1> USE HarvestAssumption
<1>1. CASE StartHarvest
  <2>1. /\ pending' = Chains /\ position' = 0 /\ frames' = <<>> /\ harvested' = 0
        /\ touched' = {} /\ removed' = FALSE
        /\ UNCHANGED <<endpoint, listed, owner, file, edits, faults>>
    BY <1>1 DEF StartHarvest
  <2>2. pending' \in Seq(UnitChains) /\ frames' \in Frames
    BY <2>1, ChainsTyped, EmptySeq DEF Frames
  <2> QED BY <2>1, <2>2 DEF HarvestShape, endpoint
<1>2. CASE EndWalk \/ CheckCount \/ CompleteRun \/ UNCHANGED harvestVars
  <2>1. UNCHANGED <<endpoint, provider, pending, position, frames, harvested, file,
                    edits, faults>>
    BY <1>2 DEF EndWalk, CheckCount, CompleteRun, harvestVars, harvest
  <2> QED BY <2>1 DEF HarvestShape, endpoint, provider
<1>3. CASE Land
  <2>1. file' = [run |-> run, frames |-> Deduplicated(frames)]
        /\ UNCHANGED <<endpoint, provider, pending, position, frames, harvested,
                      edits, faults>>
    BY <1>3 DEF Land
  <2>2. \A i \in DOMAIN frames : frames[i] \in SUBSET Row
    BY ElementOfSeq, LenProperties DEF HarvestShape, Frames
  <2>3. <<UNION {frames[i] : i \in DOMAIN frames}>> \in Frames
    BY <2>2 DEF Frames
  <2>4. Deduplicated(frames) \in Frames
    BY <2>3 DEF Deduplicated, HarvestShape
  <2> QED BY <2>1, <2>4 DEF HarvestShape, endpoint, provider
<1>4. CASE Project \/ ProjectionFault \/ Mismatch \/ TooDense \/ Fault
  <2>1. /\ StopHarvest /\ UNCHANGED <<endpoint, provider, edits>>
        /\ file'.frames = file.frames
    BY <1>4 DEF Project, ProjectionFault, Mismatch, TooDense, Fault, Failed
  <2>2. pending' \in Seq(UnitChains) /\ frames' \in Frames
    BY <2>1, EmptySeq DEF StopHarvest, Frames
  <2>3. faults' \in 0 .. MaxFaults
    BY <1>4 DEF HarvestShape, Project, ProjectionFault, Mismatch, TooDense, Fault
  <2> QED BY <2>1, <2>2, <2>3 DEF HarvestShape, StopHarvest, endpoint, provider
<1>5. CASE Edit
  <2>1. /\ edits' \in 0 .. MaxEdits
        /\ UNCHANGED <<endpoint, harvest, file, faults>>
    BY <1>5 DEF Edit, HarvestShape
  <2>2. touched' \subseteq Records /\ listed' \subseteq Records /\ removed' \in BOOLEAN
    BY <1>5 DEF Edit, HarvestShape
  <2>3. owner' \in [Records -> Owners]
    BY <1>5 DEF Edit, HarvestShape
  <2> QED BY <2>1, <2>2, <2>3 DEF HarvestShape, endpoint, harvest
<1> QED
  BY <1>1, <1>2, <1>3, <1>4, <1>5, HarvestPageTyped, FetchLeafTyped,
     HalveWindowTyped DEF HarvestNext, RunStep

LEMMA ShapeGiven ==
    ASSUME TrailInv, HarvestShape
    PROVE  HarvestTypeOK
<1>1. /\ DOMAIN pending = 1 .. Len(pending) /\ DOMAIN frames = 1 .. Len(frames)
      /\ DOMAIN file.frames = 1 .. Len(file.frames)
  BY LenProperties DEF HarvestShape, Frames
<1>2. \A i \in DOMAIN pending : pending[i] \in UnitChains
  BY <1>1, ElementOfSeq DEF HarvestShape
<1>3. \A i \in DOMAIN frames : frames[i] \in SUBSET Row
  BY <1>1, ElementOfSeq DEF HarvestShape, Frames
<1>4. \A i \in DOMAIN file.frames : file.frames[i] \in SUBSET Row
  BY <1>1, ElementOfSeq DEF HarvestShape, Frames
<1>5. \A i \in DOMAIN pending :
         /\ pending[i].members \subseteq Owners
         /\ Window.from <= pending[i].window.from
         /\ pending[i].window.from < pending[i].window.to
         /\ pending[i].window.to <= Window.to
  BY <1>2, HarvestAssumption DEF UnitChains, Parts, Window
<1>6. file.run \in 0 .. MaxRuns
  BY HarvestAssumption DEF TrailInv
<1> QED BY <1>3, <1>4, <1>5, <1>6 DEF HarvestShape, HarvestTypeOK, TrailInv, Underway

LEMMA HarvestInvariance == Spec => [](TrailInv /\ HarvestShape)
<1>1. Init => TrailInv /\ HarvestShape
  BY InitTrail, InitShape DEF Init
<1>2. [Next]_vars => [HarvestNext]_harvestVars
  BY DEF Next, RunFeed, RunHarvest, vars
<1>3. TrailInv /\ HarvestShape /\ [HarvestNext]_harvestVars => (TrailInv /\ HarvestShape)'
  BY HarvestNextTrails, HarvestNextTyped
<1> QED BY <1>1, <1>2, <1>3, PTL DEF Spec

\* Every reachable state of either arm has the declared shape; a chain in hand is
\* one of the unit's own, or a part of it a bisection has left to fetch.
THEOREM TypeCorrect == Spec => []TypeOK
<1>1. TrailInv /\ HarvestShape /\ FeedInv => TypeOK
  BY ShapeGiven DEF TypeOK, FeedInv
<1> QED BY <1>1, HarvestInvariance, FeedInvariance, PTL

-----------------------------------------------------------------------------
(* What a walk has read and what it has ahead. *)

\* The rows of the frames together, and the places where a record's are.
Gathered(list) == UNION {list[i] : i \in DOMAIN list}
Placed(list, r) ==
    {p \in UNION {{i} \X list[i] : i \in DOMAIN list} : p[2].record = r}

\* A chain is the one a record is to be read by.
Covers(c, r) ==
    /\ owner[r] \in c.members
    /\ cell.kind = "bisected" =>
          c.window.from <= anchor[r] /\ anchor[r] < c.window.to

\* A walk of a chain that stands at a position has come past a record's place.
ComePast(c, r, past) ==
    \/ /\ cell.decoder \in {"seek", "cursor"}
       /\ r <= past
    \/ /\ cell.decoder = "series"
       /\ owner[r] <= past
    \/ /\ cell.decoder = "offset"
       /\ Cardinality({j \in Matches(c) : j <= r}) <= past * PageSize

\* A list of chains, the first begun at a position, has a record ahead of it.
AheadOf(list, past, r) ==
    \E i \in DOMAIN list : /\ Covers(list[i], r)
                           /\ i = 1 => ~ComePast(list[1], r, past)
Ahead(r) == AheadOf(pending, position, r)

\* No record is left to two chains of a list.
Apart(list, r) ==
    \A i, j \in DOMAIN list : Covers(list[i], r) /\ Covers(list[j], r) => i = j

\* A row of a record says of it what the provider does.
Right(row) ==
    /\ row.owner = owner[row.record]
    /\ row.time = IF cell.stamp = "window" THEN Window.from ELSE anchor[row.record]
    /\ Due(row.record)

\* What a walk has placed of an untouched record is right, and only a numbered one has it ahead again; an untouched
\* record that is due is placed or ahead, unless a removal moved it.
Once(r) ==
    /\ Apart(pending, r)
    /\ \A p \in Placed(frames, r) : Right(p[2])
    /\ cell.decoder # "offset" =>
          /\ \A p, q \in Placed(frames, r) : p = q
          /\ Placed(frames, r) # {} => ~Ahead(r)
    /\ Due(r) /\ (cell.decoder = "offset" => ~removed) =>
          (Placed(frames, r) # {} \/ Ahead(r))

\* What the declaration and the account say of the walk at hand.
ChainsInv ==
    /\ cell.kind # "bisected" => \A i \in DOMAIN pending : pending[i].window = Window
    /\ cell.stamp = "member" =>
          \A i \in DOMAIN pending : \E m \in Owners : pending[i].members = {m}
    /\ \/ Windowed /\ cell.stamp # "window"
       \/ \A r \in Records : anchor[r] = 1
    /\ \/ shift = 0
       \/ cell.retrieval = "local_overlap" /\ shift \in 1 - Span .. Span - 1

WalkInv ==
    /\ ChainsInv
    /\ at \in {"fetch", "check", "land"} => \A r \in Records \ touched : Once(r)
    /\ at \in {"check", "land"} => pending = <<>>
    /\ at \in {"fetch", "check"} => file.run < run
    /\ UneditedLandOnce

\* A checked listing has counted what it has gathered.
CountInv ==
    cell.check =>
        /\ at \in {"fetch", "check", "land"} =>
              /\ IsFiniteSet(Gathered(frames))
              /\ Cardinality(Gathered(frames)) = harvested
              /\ Len(pending) <= 1
              /\ pending # <<>> => \A row \in Gathered(frames) : row.record <= position
        /\ at = "land" => harvested = Cardinality(listed)
        /\ CheckedListingComplete

-----------------------------------------------------------------------------
(* Lemmas about a page. *)

\* What the catalog gives of any endpoint's cell.
LEMMA CellSound ==
    ASSUME cell \in Cells
    PROVE  /\ cell.check => /\ cell.decoder = "seek"
                            /\ cell.mode = "snapshot" /\ cell.kind = "single"
           /\ cell.retrieval = "report" <=> cell.stamp = "window"
           /\ cell.retrieval = "local_overlap" => cell.pad >= 1
           /\ cell.pad \in Nat
           /\ cell.kind = "bisected" => /\ cell.decoder = "single"
                                        /\ cell.retrieval \in {"anchored", "overlap"}
                                        /\ cell.mode = "watermark"
           /\ cell.decoder = "offset" => cell.kind = "single"
           /\ cell.stamp = "member" => cell.kind = "fan_out"
<1>1. PICK d \in Definitions : cell = Cell(d)
  BY DEF Cells
<1>2. /\ cell.decoder = d.decoder /\ cell.mode = d.mode /\ cell.kind = d.shape.kind
      /\ cell.check = d.check /\ cell.retrieval = d.retrieval
      /\ cell.stamp = d.stamp /\ cell.pad = d.pad
  BY <1>1 DEF Cell
<1>3. /\ d.check => d.mode = "snapshot" /\ d.shape.kind = "single"
      /\ d.shape.kind = "bisected" => d.mode = "watermark"
  BY CatalogSound DEF Constructible, ValidCompletenessCheck, ValidRequestShape
<1> QED BY <1>2, <1>3, CatalogSound

\* A record anchored in a window that is asked for is answered.
LEMMA AnchoredSelected ==
    ASSUME HarvestShape, ChainsInv, NEW r \in Records, NEW w \in Parts,
           cell.stamp # "window" => w.from <= anchor[r] /\ anchor[r] < w.to
    PROVE  Selected(r, w)
<1> USE HarvestAssumption
<1>1. CASE cell.stamp = "window"
  BY <1>1, CellSound DEF Selected, HarvestShape
<1>2. CASE cell.stamp # "window"
  <2>1. /\ w.from \in Int /\ w.to \in Int
        /\ w.from <= anchor[r] /\ anchor[r] < w.to
    BY <1>2 DEF Parts, Window
  <2>10. anchor[r] \in Int
    <3>1. anchor[r] \in Ticks \cup {1}
      BY DEF HarvestShape
    <3>2. Ticks \cup {1} \subseteq Int
      OBVIOUS
    <3> QED BY <3>1, <3>2, Zenon
  <2>2. cell.pad * Span \in Nat /\ (cell.pad >= 1 => cell.pad * Span >= Span)
    BY CellSound DEF HarvestShape
  <2>3. PICK wide \in Nat : wide = cell.pad * Span /\ (cell.pad >= 1 => wide >= Span)
    BY <2>2
  <2>4. shift \in Int /\ shift <= wide /\ -wide <= shift
    BY <2>3, CellSound DEF HarvestShape, ChainsInv
  <2>5. /\ Asked(w).from = w.from - wide + shift
        /\ Asked(w).to = w.to + wide + shift
    BY <2>3 DEF Asked
  <2>6. /\ Asked(w).from \in Int /\ Asked(w).to \in Int
        /\ Asked(w).from <= anchor[r] /\ anchor[r] <= Asked(w).to
    BY <2>1, <2>3, <2>4, <2>5, <2>10
  <2>7. Until(r) >= anchor[r]
    BY <2>10 DEF Until
  <2>8. Until(r) \in Int
    BY <2>10 DEF Until
  <2>9. Until(r) >= Asked(w).from
    BY <2>6, <2>7, <2>8, <2>10
  <2> QED BY <2>6, <2>9, <2>10 DEF Selected
<1> QED BY <1>1, <1>2

\* A due record is in the answer to the chain it is to be read by.
LEMMA CoveredMatches ==
    ASSUME HarvestShape, ChainsInv, NEW c \in UnitChains,
           cell.kind # "bisected" => c.window = Window,
           NEW r \in Records, Due(r), Covers(c, r)
    PROVE  r \in Matches(c)
<1>1. c.window \in Parts /\ anchor[r] \in Int
  <2>1. Ticks \cup {1} \subseteq Int
    BY HarvestAssumption
  <2>2. anchor[r] \in Int
    BY <2>1, Zenon DEF HarvestShape
  <2> QED BY <2>2 DEF UnitChains
<1>2. r \in listed /\ owner[r] \in c.members
  BY DEF Due, Covers
<1>3. cell.stamp # "window" => c.window.from <= anchor[r] /\ anchor[r] < c.window.to
  <2>1. CASE cell.kind = "bisected"
    BY <2>1 DEF Covers
  <2>2. CASE cell.kind # "bisected"
    BY <1>1, <2>2, HarvestAssumption DEF ChainsInv, Due, Window
  <2> QED BY <2>1, <2>2
<1>4. Selected(r, c.window)
  BY <1>1, <1>3, AnchoredSelected
<1> QED BY <1>2, <1>4 DEF Matches

\* What a page leaves comes after its last element.
LEMMA AfterRest ==
    ASSUME NEW n \in Nat, NEW ids \in SUBSET (1 .. n), NEW past \in Nat,
           NEW i \in ids, i > past, i \notin After(ids, past)
    PROVE  After(ids, past) # {} /\ Last(After(ids, past)) < i
<1> DEFINE upTo(k) == {j \in ids : past < j /\ j <= k}
<1>1. PageSize \in Nat \ {0} /\ ids \in SUBSET Nat /\ i \in Nat
  BY HarvestAssumption
<1>2. \A k, j : j \in upTo(k) <=> j \in ids /\ past < j /\ j <= k
  OBVIOUS
<1>3. \A k \in ids : k \in After(ids, past) <=> k > past /\ Cardinality(upTo(k)) <= PageSize
  BY DEF After
<1> HIDE DEF upTo
<1>4. IsFiniteSet(ids)
  <2>1. IsFiniteSet(1 .. n)
    BY FS_Interval
  <2> QED BY <2>1, FS_Subset
<1>5. \A k : IsFiniteSet(upTo(k)) /\ Cardinality(upTo(k)) \in Nat
  <2> TAKE k
  <2>1. upTo(k) \in SUBSET ids
    BY <1>2
  <2>2. IsFiniteSet(upTo(k))
    BY <1>4, <2>1, FS_Subset
  <2> QED BY <2>2, FS_CardinalityType
<1>6. ~ (Cardinality(upTo(i)) <= PageSize)
  BY <1>3
<1>7. ASSUME NEW k \in ids, k >= i
      PROVE  Cardinality(upTo(i)) <= Cardinality(upTo(k))
  <2>1. \A j \in ids : j <= i => j <= k
    BY <1>1, <1>7
  <2>2. upTo(i) \in SUBSET upTo(k)
    BY <1>2, <2>1, Zenon
  <2> QED BY <1>5, <2>2, FS_Subset
<1>8. ASSUME NEW k \in After(ids, past)
      PROVE  k < i
  <2>1. k \in ids /\ k \in Nat
    BY DEF After
  <2>2. Cardinality(upTo(k)) <= PageSize
    BY <1>3, <2>1
  <2>3. ~ (k >= i)
    BY <1>1, <1>5, <1>6, <1>7, <2>1, <2>2
  <2> QED BY <1>1, <2>1, <2>3
<1>9. After(ids, past) # {}
  <2>1. upTo(i) \in SUBSET Nat /\ i \in upTo(i)
    <3>1. past < i /\ i <= i
      BY <1>1
    <3> QED BY <1>1, <1>2, <3>1, Zenon
  <2>2. PICK k \in upTo(i) : \A j \in upTo(i) : k <= j
    BY <2>1, FirstExists
  <2>3. k \in ids /\ k > past /\ k \in Nat /\ k <= i
    BY <1>1, <1>2, <2>1
  <2>4. ASSUME NEW j \in upTo(k)
        PROVE  j = k
    <3>1. j \in ids /\ past < j /\ j <= k
      BY <1>2, Zenon
    <3>2. j \in Nat /\ j <= i
      BY <1>1, <2>3, <3>1
    <3>3. j \in upTo(i)
      BY <1>2, <3>1, <3>2, Zenon
    <3> QED BY <2>2, <2>3, <3>1, <3>2, <3>3
  <2>5. Cardinality(upTo(k)) = 1
    <3>1. past < k /\ k <= k
      BY <2>3
    <3>2. upTo(k) = {k}
      BY <1>2, <2>3, <2>4, <3>1, Zenon
    <3> QED BY <3>2, FS_Singleton
  <2> QED BY <1>1, <1>3, <2>3, <2>5
<1>10. After(ids, past) \in SUBSET (1 .. n)
  BY DEF After
<1>11. Last(After(ids, past)) \in After(ids, past)
  BY <1>9, <1>10, LastIsLast
<1> QED BY <1>8, <1>9, <1>11

\* The answers' records and their owners, and the elements a page takes of them.
LEMMA AnswerSets ==
    ASSUME HarvestShape, NEW c
    PROVE  /\ Matches(c) \in SUBSET (1 .. MaxId)
           /\ {owner[r] : r \in Matches(c)} \in SUBSET (1 .. MaxOwner)
           /\ MaxId \in Nat /\ MaxOwner \in Nat /\ position \in Nat
           /\ \A ids : \A i \in After(ids, position) : i \in ids /\ i > position
<1>1. Matches(c) \in SUBSET (1 .. MaxId)
  BY DEF HarvestShape, Matches, Records
<1>2. {owner[r] : r \in Matches(c)} \in SUBSET (1 .. MaxOwner)
  BY <1>1 DEF HarvestShape, Records, Owners
<1>3. \A ids : \A i \in After(ids, position) : i \in ids /\ i > position
  BY DEF After
<1> QED BY <1>1, <1>2, <1>3, HarvestAssumption DEF HarvestShape

\* A page that is not numbered takes records the walk had not come to, and goes
\* on after them.
LEMMA PageFresh ==
    ASSUME HarvestShape, NEW c, cell.decoder # "offset",
           NEW r \in DecodedPage(c).records
    PROVE  /\ r \in Matches(c)
           /\ ~ComePast(c, r, position)
           /\ DecodedPage(c).next # Done => ComePast(c, r, DecodedPage(c).next)
<1> DEFINE all == Matches(c)
           carriers == {owner[q] : q \in all}
<1>1. /\ all \in SUBSET (1 .. MaxId) /\ carriers \in SUBSET (1 .. MaxOwner)
      /\ MaxId \in Nat /\ MaxOwner \in Nat /\ position \in Nat
  BY AnswerSets
<1>2. r \in all
  BY PageTyped
<1> HIDE DEF all, carriers
<1>3. /\ After(all, position) \in SUBSET (1 .. MaxId)
      /\ After(carriers, position) \in SUBSET (1 .. MaxOwner)
      /\ MaxId \in Nat /\ MaxOwner \in Nat
  BY <1>1 DEF After
<1>7. \A i \in After(all, position) : i \in Nat /\ i > position
  BY <1>1 DEF After
<1>8. \A i \in After(carriers, position) : i \in Nat /\ i > position
  BY <1>1 DEF After
<1>4. CASE cell.decoder \in {"seek", "cursor"}
  <2>1. r \in After(all, position)
    BY <1>4 DEF DecodedPage, SeekPage, CursorPage, all
  <2>2. DecodedPage(c).next # Done => DecodedPage(c).next = Last(After(all, position))
    BY <1>4 DEF DecodedPage, SeekPage, CursorPage, all
  <2>3. r <= Last(After(all, position))
    BY <1>3, <2>1, LastIsLast
  <2>4. r \in Nat /\ r > position /\ position \in Nat
    BY <1>1, <1>7, <2>1
  <2> QED BY <1>2, <1>4, <2>2, <2>3, <2>4 DEF ComePast, all
<1>5. CASE cell.decoder = "series"
  <2>1. owner[r] \in After(carriers, position)
    BY <1>5 DEF DecodedPage, SeriesPage, all, carriers
  <2>2. DecodedPage(c).next # Done => DecodedPage(c).next = Last(After(carriers, position))
    BY <1>5 DEF DecodedPage, SeriesPage, all, carriers
  <2>3. owner[r] <= Last(After(carriers, position))
    BY <1>3, <2>1, LastIsLast
  <2>4. owner[r] \in Nat /\ owner[r] > position /\ position \in Nat
    BY <1>1, <1>8, <2>1
  <2> QED BY <1>2, <1>5, <2>2, <2>3, <2>4 DEF ComePast, all
<1>6. CASE cell.decoder \notin {"seek", "cursor", "series"}
  <2>1. DecodedPage(c).next = Done
    BY <1>6 DEF DecodedPage, SinglePage
  <2> QED BY <1>2, <1>6, <2>1 DEF ComePast, all
<1> QED BY <1>4, <1>5, <1>6

\* Such a walk never goes back.
LEMMA PlacesKept ==
    ASSUME HarvestShape, NEW c, NEW r \in Records, cell.decoder # "offset",
           DecodedPage(c).next # Done, ComePast(c, r, position)
    PROVE  ComePast(c, r, DecodedPage(c).next)
<1> DEFINE all == Matches(c)
           carriers == {owner[q] : q \in all}
<1>1. /\ all \in SUBSET (1 .. MaxId) /\ carriers \in SUBSET (1 .. MaxOwner)
      /\ MaxId \in Nat /\ MaxOwner \in Nat /\ position \in Nat
      /\ \A ids : \A i \in After(ids, position) : i \in ids /\ i > position
  BY AnswerSets
<1>2. r \in Nat /\ owner[r] \in Nat
  BY DEF HarvestShape, Records, Owners
<1> HIDE DEF all, carriers
<1>3. /\ After(all, position) \in SUBSET (1 .. MaxId)
      /\ After(carriers, position) \in SUBSET (1 .. MaxOwner)
  BY <1>1
<1>4. CASE cell.decoder \in {"seek", "cursor"}
  <2>1. /\ After(all, position) # {}
        /\ DecodedPage(c).next = Last(After(all, position))
    BY <1>4 DEF DecodedPage, SeekPage, CursorPage, all
  <2>2. Last(After(all, position)) \in After(all, position)
    BY <1>1, <1>3, <2>1, LastIsLast
  <2>3. DecodedPage(c).next \in Nat /\ DecodedPage(c).next > position
    BY <1>1, <1>3, <2>1, <2>2
  <2> QED BY <1>1, <1>2, <1>4, <2>3 DEF ComePast
<1>5. CASE cell.decoder = "series"
  <2>1. /\ After(carriers, position) # {}
        /\ DecodedPage(c).next = Last(After(carriers, position))
    BY <1>5 DEF DecodedPage, SeriesPage, all, carriers
  <2>2. Last(After(carriers, position)) \in After(carriers, position)
    BY <1>1, <1>3, <2>1, LastIsLast
  <2>3. DecodedPage(c).next \in Nat /\ DecodedPage(c).next > position
    BY <1>1, <1>3, <2>1, <2>2
  <2> QED BY <1>1, <1>2, <1>5, <2>3 DEF ComePast
<1> QED BY <1>4, <1>5 DEF ComePast

\* A record that matches, that the walk had not come past and the page does not
\* take, is still ahead after it; numbered pages too, while nothing moves.
LEMMA RestAhead ==
    ASSUME HarvestShape, NEW c, NEW r \in Matches(c), ~ComePast(c, r, position),
           r \notin DecodedPage(c).records
    PROVE  /\ DecodedPage(c).next # Done
           /\ ~ComePast(c, r, DecodedPage(c).next)
<1> DEFINE all == Matches(c)
           carriers == {owner[q] : q \in all}
           upTo == {j \in all : j <= r}
<1>1. /\ all \in SUBSET (1 .. MaxId) /\ carriers \in SUBSET (1 .. MaxOwner)
      /\ MaxId \in Nat /\ MaxOwner \in Nat /\ position \in Nat
      /\ \A ids : \A i \in After(ids, position) : i \in ids /\ i > position
  BY AnswerSets
<1>2. r \in all /\ owner[r] \in carriers /\ r \in Nat
  BY <1>1
<1>3. owner[r] \in Nat
  BY <1>1, <1>2
<1>4. -1 \notin Nat
  OBVIOUS
<1>9. (\A i \in all : i \in Nat) /\ (\A i \in carriers : i \in Nat)
  BY <1>1
<1>10. ASSUME NEW n
       PROVE  r \in Numbered(all, n) <=>
                 Cardinality(upTo) \in (n - 1) * PageSize + 1 .. n * PageSize
  BY DEF Numbered
<1> HIDE DEF all, carriers
<1>5. CASE cell.decoder \in {"seek", "cursor"}
  <2>1. r > position
    BY <1>1, <1>2, <1>5 DEF ComePast
  <2>2. DecodedPage(c).records = After(all, position)
    BY <1>5 DEF DecodedPage, SeekPage, CursorPage, all
  <2>3. After(all, position) # {} /\ Last(After(all, position)) < r
    BY <1>1, <1>2, <2>1, <2>2, AfterRest
  <2>4. DecodedPage(c).next = Last(After(all, position))
    BY <1>2, <1>5, <2>3 DEF DecodedPage, SeekPage, CursorPage, all
  <2>5. Last(After(all, position)) \in After(all, position)
    <3>1. After(all, position) \in SUBSET (1 .. MaxId)
      BY <1>1
    <3> QED BY <1>1, <2>3, <3>1, LastIsLast
  <2>6. Last(After(all, position)) \in Nat
    <3>1. Last(After(all, position)) \in all
      BY <1>1, <2>5, Zenon
    <3> QED BY <1>9, <3>1, Zenon
  <2> QED BY <1>2, <1>4, <1>5, <2>3, <2>4, <2>6 DEF ComePast, Done
<1>6. CASE cell.decoder = "series"
  <2>1. owner[r] > position
    BY <1>1, <1>3, <1>6 DEF ComePast
  <2>2. owner[r] \notin After(carriers, position)
    BY <1>2, <1>6 DEF DecodedPage, SeriesPage, all, carriers
  <2>3. After(carriers, position) # {} /\ Last(After(carriers, position)) < owner[r]
    BY <1>1, <1>2, <2>1, <2>2, AfterRest
  <2>4. DecodedPage(c).next = Last(After(carriers, position))
    BY <1>2, <1>6, <2>3 DEF DecodedPage, SeriesPage, all, carriers
  <2>5. Last(After(carriers, position)) \in After(carriers, position)
    <3>1. After(carriers, position) \in SUBSET (1 .. MaxOwner)
      BY <1>1
    <3> QED BY <1>1, <2>3, <3>1, LastIsLast
  <2>6. Last(After(carriers, position)) \in Nat
    <3>1. Last(After(carriers, position)) \in carriers
      BY <1>1, <2>5, Zenon
    <3> QED BY <1>9, <3>1, Zenon
  <2> QED BY <1>3, <1>4, <1>6, <2>3, <2>4, <2>6 DEF ComePast, Done
<1>7. CASE cell.decoder = "offset"
  <2>1. upTo \in SUBSET all /\ IsFiniteSet(all)
    <3>1. IsFiniteSet(1 .. MaxId)
      BY <1>1, FS_Interval
    <3> QED BY <1>1, <3>1, FS_Subset
  <2> HIDE DEF upTo
  <2>2. /\ Cardinality(upTo) \in Nat /\ Cardinality(all) \in Nat
        /\ Cardinality(upTo) <= Cardinality(all)
    BY <2>1, FS_Subset, FS_CardinalityType
  <2>3. PICK rank \in Nat : rank = Cardinality(upTo)
    BY <2>2
  <2>4. ~ (rank <= position * PageSize)
    BY <1>7, <2>3 DEF ComePast, upTo, all
  <2>5. rank \notin position * PageSize + 1 .. (position + 1) * PageSize
    <3>1. PICK n \in Nat : n = position + 1
      BY <1>1
    <3>2. r \notin Numbered(all, n)
      BY <1>7, <3>1 DEF DecodedPage, OffsetPage, all
    <3>3. Cardinality(upTo) \notin (n - 1) * PageSize + 1 .. n * PageSize
      BY <1>10, <3>2, Zenon
    <3>4. n - 1 = position
      BY <1>1, <3>1
    <3> QED BY <2>3, <3>1, <3>3, <3>4
  <2>6. position * PageSize \in Nat /\ (position + 1) * PageSize \in Nat
    BY <1>1, HarvestAssumption
  <2>7. rank > (position + 1) * PageSize
    BY <2>4, <2>5, <2>6
  <2>8. Cardinality(all) > (position + 1) * PageSize
    BY <2>2, <2>3, <2>6, <2>7
  <2>9. DecodedPage(c).next = position + 1
    <3>1. ~ ((position + 1) * PageSize >= Cardinality(all))
      BY <2>2, <2>6, <2>8
    <3> QED BY <1>7, <3>1 DEF DecodedPage, OffsetPage, all
  <2>10. ~ (rank <= (position + 1) * PageSize)
    BY <2>6, <2>7
  <2>11. position + 1 # -1
    BY <1>1
  <2> QED BY <1>7, <2>3, <2>9, <2>10, <2>11 DEF ComePast, upTo, all, Done
<1>8. CASE cell.decoder \notin {"seek", "cursor", "series", "offset"}
  <2>1. DecodedPage(c).records = all
    BY <1>8 DEF DecodedPage, SinglePage, all
  <2> QED BY <1>2, <2>1
<1> QED BY <1>5, <1>6, <1>7, <1>8

-----------------------------------------------------------------------------
(* Lemmas about rows and their places. *)

\* A row of a page, and one that is kept, says what the provider does.
LEMMA RowsRight ==
    ASSUME HarvestShape, ChainsInv, NEW i \in DOMAIN pending,
           NEW records \in SUBSET Matches(pending[i]),
           NEW row \in Rows(records, pending[i]),
           Windowed => Window.from <= row.time /\ row.time < Window.to
    PROVE  row.record \in records /\ Right(row)
<1> DEFINE c == pending[i]
           choice == CHOOSE m \in c.members : TRUE
<1>1. PICK r \in records :
         row = [record |-> r,
                owner  |-> IF cell.stamp = "member" THEN choice ELSE owner[r],
                time   |-> IF cell.stamp = "window" THEN c.window.from ELSE anchor[r]]
  BY DEF Rows
<1>2. /\ row.record = r
      /\ row.owner = IF cell.stamp = "member" THEN choice ELSE owner[r]
      /\ row.time = IF cell.stamp = "window" THEN c.window.from ELSE anchor[r]
  BY <1>1
<1>3. r \in listed /\ r \in Records /\ owner[r] \in c.members
  BY DEF Matches, HarvestShape
<1>4. cell.stamp = "member" => choice = owner[r]
  BY <1>3 DEF ChainsInv
<1>5. cell.stamp = "window" => c.window = Window
  BY CellSound DEF HarvestShape, ChainsInv
<1>6. anchor[r] \in Int /\ Window.from \in Int /\ Window.to \in Int
  <2>1. Ticks \cup {1} \subseteq Int /\ Window.from \in Int /\ Window.to \in Int
    BY HarvestAssumption DEF Window
  <2> QED BY <1>3, <2>1, Zenon DEF HarvestShape
<1> HIDE DEF c, choice
<1>7. Due(r)
  <2>1. Windowed /\ cell.stamp # "window" => anchor[r] \in Window.from .. Window.to - 1
    BY <1>2, <1>6
  <2> QED BY <1>3, <2>1 DEF Due
<1> QED BY <1>2, <1>4, <1>5, <1>7 DEF Right

\* A record of an answer has one row; it is kept when the record is due.
LEMMA OneRow ==
    ASSUME NEW c, NEW records, NEW x \in Rows(records, c), NEW y \in Rows(records, c),
           x.record = y.record
    PROVE  x = y
<1> DEFINE rowOf(r) ==
               [record |-> r,
                owner  |-> IF cell.stamp = "member"
                           THEN CHOOSE m \in c.members : TRUE ELSE owner[r],
                time   |-> IF cell.stamp = "window" THEN c.window.from ELSE anchor[r]]
<1>1. PICK r \in records : x = rowOf(r)
  BY DEF Rows
<1>2. PICK q \in records : y = rowOf(q)
  BY DEF Rows
<1>3. x.record = r /\ y.record = q
  BY <1>1, <1>2
<1> HIDE DEF rowOf
<1> QED BY <1>1, <1>2, <1>3

LEMMA RowKept ==
    ASSUME HarvestShape, ChainsInv, NEW i \in DOMAIN pending,
           NEW records \in SUBSET Matches(pending[i]), NEW r \in records, Due(r)
    PROVE  /\ \E row \in Processed(Rows(records, pending[i])) : row.record = r
           /\ cell.kind = "bisected" /\ Covers(pending[i], r) =>
                 \E row \in Processed(InWindow(Rows(records, pending[i]),
                                               pending[i].window)) : row.record = r
<1> DEFINE c == pending[i]
           rows == Rows(records, c)
<1>1. PICK row \in rows :
         /\ row.record = r
         /\ row.time = IF cell.stamp = "window" THEN c.window.from ELSE anchor[r]
  <2> DEFINE row == [record |-> r,
                     owner  |-> IF cell.stamp = "member"
                                THEN CHOOSE m \in c.members : TRUE ELSE owner[r],
                     time   |-> IF cell.stamp = "window" THEN c.window.from
                                ELSE anchor[r]]
  <2>1. row \in rows
    BY DEF Rows
  <2>2. /\ row.record = r
        /\ row.time = IF cell.stamp = "window" THEN c.window.from ELSE anchor[r]
    OBVIOUS
  <2> HIDE DEF row, rows
  <2> QED BY <2>1, <2>2
<1>2. r \in Records
  BY DEF Matches, HarvestShape
<1>3. cell.stamp = "window" => c.window = Window
  BY CellSound DEF HarvestShape, ChainsInv
<1>4. Window.from \in Int /\ Window.to \in Int /\ Window.from < Window.to
  BY HarvestAssumption DEF Window
<1>5. Windowed => Window.from <= row.time /\ row.time < Window.to
  <2>1. CASE cell.stamp = "window"
    BY <1>1, <1>3, <1>4, <2>1
  <2>2. CASE cell.stamp # "window"
    BY <1>1, <1>4, <2>2 DEF Due
  <2> QED BY <2>1, <2>2
<1> HIDE DEF rows
<1>6. row \in Processed(rows)
  BY <1>5 DEF Processed, InWindow
<1>7. ASSUME cell.kind = "bisected", Covers(c, r)
      PROVE  row \in Processed(InWindow(rows, c.window))
  <2>1. cell.stamp # "window"
    BY <1>7, CellSound DEF HarvestShape
  <2>2. c.window.from <= row.time /\ row.time < c.window.to
    BY <1>1, <1>7, <2>1 DEF Covers
  <2> QED BY <1>5, <2>2 DEF Processed, InWindow
<1> QED BY <1>1, <1>6, <1>7 DEF rows

\* What a written page adds to a record's places.
LEMMA PlacedAppended ==
    ASSUME frames \in Frames, NEW rows \in SUBSET Row, NEW r
    PROVE  Placed(Written(rows), r) =
              Placed(frames, r)
                \cup {<<Len(frames) + 1, row>> : row \in {x \in rows : x.record = r}}
<1> DEFINE n == Len(frames)
           next == Written(rows)
<1>1. n \in Nat /\ DOMAIN frames = 1 .. n
  BY LenProperties DEF Frames
<1>2. CASE rows = {}
  BY <1>2 DEF Written
<1>3. CASE rows # {}
  <2>1. /\ next \in Seq(SUBSET Row) /\ Len(next) = n + 1
        /\ \A i \in 1 .. n : next[i] = frames[i]
        /\ next[n + 1] = rows
    BY <1>3, AppendProperties DEF Written, Frames
  <2>2. DOMAIN next = 1 .. n + 1
    BY <2>1, LenProperties
  <2> HIDE DEF next, n
  <2>3. \A i, row : /\ <<i, row>> \in Placed(next, r)
                       <=> i \in 1 .. n + 1 /\ row \in next[i] /\ row.record = r
                    /\ <<i, row>> \in Placed(frames, r)
                       <=> i \in 1 .. n /\ row \in frames[i] /\ row.record = r
    BY <1>1, <2>2 DEF Placed
  <2>4. \A list : \A p \in Placed(list, r) : p = <<p[1], p[2]>>
    BY DEF Placed
  <2>5. ASSUME NEW p \in Placed(next, r)
        PROVE  p \in Placed(frames, r)
                        \cup {<<n + 1, row>> : row \in {x \in rows : x.record = r}}
    <3>1. PICK j, row : p = <<j, row>>
      BY <2>4
    <3>2. j \in 1 .. n + 1 /\ row \in next[j] /\ row.record = r
      BY <2>3, <2>5, <3>1
    <3>3. CASE j \in 1 .. n
      BY <2>1, <2>3, <3>1, <3>2, <3>3
    <3>4. CASE j = n + 1
      BY <2>1, <3>1, <3>2, <3>4
    <3> QED BY <1>1, <3>2, <3>3, <3>4
  <2>6. ASSUME NEW p \in Placed(frames, r)
        PROVE  p \in Placed(next, r)
    <3>1. PICK j, row : p = <<j, row>>
      BY <2>4
    <3>2. j \in 1 .. n /\ row \in frames[j] /\ row.record = r
      BY <2>3, <2>6, <3>1
    <3>3. j \in 1 .. n + 1 /\ next[j] = frames[j]
      BY <1>1, <2>1, <3>2
    <3> QED BY <2>3, <3>1, <3>2, <3>3
  <2>7. ASSUME NEW row \in rows, row.record = r
        PROVE  <<n + 1, row>> \in Placed(next, r)
    <3>1. n + 1 \in 1 .. n + 1
      BY <1>1
    <3> QED BY <2>1, <2>3, <2>7, <3>1
  <2> QED BY <2>5, <2>6, <2>7 DEF next, n
<1> QED BY <1>2, <1>3

\* A step of a walk that writes rows and moves on keeps a record's story.
LEMMA WalkStep ==
    ASSUME HarvestShape, NEW rows \in SUBSET Row, NEW r, Once(r),
           frames' = Written(rows), UNCHANGED <<endpoint, provider>>,
           \A x \in rows : x.record = r => Right(x),
           \A x, y \in rows : x.record = r /\ y.record = r => x = y,
           Apart(pending, r)',
           cell.decoder # "offset" =>
              /\ (\E x \in rows : x.record = r) => Ahead(r) /\ ~Ahead(r)'
              /\ Ahead(r)' => Ahead(r),
           Due(r) /\ Ahead(r) => (\E x \in rows : x.record = r) \/ Ahead(r)'
    PROVE  Once(r)'
<1> DEFINE new == {<<Len(frames) + 1, row>> : row \in {x \in rows : x.record = r}}
           before == Placed(frames, r)
           after == Placed(frames, r)'
<1>1. after = before \cup new
  BY PlacedAppended DEF HarvestShape, Placed
<1>2. /\ new # {} <=> \E x \in rows : x.record = r
      /\ \A p, q \in new : p = q
      /\ \A p \in new : Right(p[2])
  <2>1. \A p \in new : \E x \in rows : /\ x.record = r /\ p[2] = x
                                      /\ p = <<Len(frames) + 1, x>>
    OBVIOUS
  <2>2. \A x \in rows : x.record = r => <<Len(frames) + 1, x>> \in new
    OBVIOUS
  <2> HIDE DEF new
  <2> QED BY <2>1, <2>2
<1>3. \A row : Right(row)' <=> Right(row)
  BY DEF Right, Due, Windowed, Window, endpoint, provider
<1>4. (Due(r)' <=> Due(r)) /\ removed' = removed /\ cell' = cell
  BY DEF Due, Windowed, Window, endpoint, provider
<1> HIDE DEF new, before, after
<1>5. (\A p \in Placed(frames, r) : Right(p[2]))'
  BY <1>1, <1>2, <1>3 DEF Once, before, after
<1>6. ASSUME cell.decoder # "offset"
      PROVE  /\ \A p, q \in after : p = q
             /\ after # {} => ~Ahead(r)'
  BY <1>1, <1>2, <1>6 DEF Once, before
<1>7. ASSUME Due(r), cell.decoder = "offset" => ~removed
      PROVE  after # {} \/ Ahead(r)'
  BY <1>1, <1>2, <1>7 DEF Once, before
<1> QED BY <1>4, <1>5, <1>6, <1>7 DEF Once, after

-----------------------------------------------------------------------------
(* The walk, action by action. *)

\* A step of the walk leaves the provider alone, so what is ahead after it is
\* told by the chains and the position it leaves.
LEMMA AheadNext ==
    ASSUME UNCHANGED <<endpoint, listed, owner>>, NEW r,
           NEW q, q = pending', NEW past, past = position'
    PROVE  /\ Ahead(r)' <=> AheadOf(q, past, r)
           /\ Apart(pending, r)' <=> Apart(q, r)
<1>1. /\ cell' = cell /\ anchor' = anchor /\ long' = long /\ shift' = shift
      /\ listed' = listed /\ owner' = owner
  BY DEF endpoint
<1>2. \A c : ComePast(c, r, past)' <=> ComePast(c, r, past)
  BY <1>1 DEF ComePast, Matches, Selected, Asked, Until
<1>3. Ahead(r)' <=> AheadOf(q, past, r)
  BY <1>1, <1>2 DEF Ahead, AheadOf, Covers, ComePast, Matches, Selected, Asked, Until
<1>4. Apart(pending, r)' <=> Apart(q, r)
  BY <1>1 DEF Apart, Covers
<1> QED BY <1>3, <1>4

\* At the start of its chain no due record has been passed.
LEMMA NotPastStart ==
    ASSUME HarvestShape, ChainsInv, NEW c \in UnitChains,
           cell.kind # "bisected" => c.window = Window,
           NEW r \in Records, Due(r), Covers(c, r)
    PROVE  ~ComePast(c, r, 0)
<1> DEFINE upTo == {j \in Matches(c) : j <= r}
<1>1. r \in Nat \ {0} /\ owner[r] \in Nat \ {0}
  BY DEF HarvestShape, Records, Owners
<1>2. r \in upTo
  BY <1>1, CoveredMatches
<1>3. IsFiniteSet(upTo)
  <2>1. IsFiniteSet(1 .. MaxId)
    BY FS_Interval, HarvestAssumption
  <2>2. upTo \in SUBSET (1 .. MaxId)
    BY DEF Matches, HarvestShape, Records
  <2> QED BY <2>1, <2>2, FS_Subset
<1> HIDE DEF upTo
<1>4. Cardinality(upTo) \in Nat /\ Cardinality(upTo) # 0
  BY <1>2, <1>3, FS_EmptySet, FS_CardinalityType
<1>5. 0 * PageSize = 0
  BY HarvestAssumption
<1> QED BY <1>1, <1>4, <1>5 DEF ComePast, upTo

LEMMA PageStory ==
    ASSUME HarvestShape, ChainsInv, HarvestPage, NEW r \in Records, Once(r)
    PROVE  Once(r)'
<1> DEFINE first == pending[1]
           answer == DecodedPage(first)
           drawn == Rows(answer.records, first)
           kept == Processed(drawn)
           Taken == \E x \in kept : x.record = r
<1>1. /\ pending \in Seq(UnitChains) /\ pending # <<>> /\ cell.kind # "bisected"
      /\ Len(pending) \in Nat \ {0} /\ DOMAIN pending = 1 .. Len(pending)
      /\ Head(pending) = first /\ 1 \in DOMAIN pending
  BY HeadTailProperties, LenProperties, EmptySeq DEF HarvestPage, HarvestShape
<1>2. /\ frames' = Written(kept)
      /\ IF answer.next = Done
         THEN pending' = Tail(pending) /\ position' = 0
         ELSE pending' = pending /\ position' = answer.next
      /\ UNCHANGED <<endpoint, provider, listed, owner>>
  BY <1>1 DEF HarvestPage, provider
<1>3. first \in UnitChains
  BY <1>1, ElementOfSeq
<1>4. answer.records \in SUBSET Matches(first)
  BY PageTyped
<1>5. kept \in SUBSET Row
  BY <1>3, <1>4, RowsTyped
<1>6. \A x \in kept : /\ x \in drawn
                      /\ Windowed => Window.from <= x.time /\ x.time < Window.to
  BY DEF Processed, InWindow
<1>7. \A x \in kept : x.record \in answer.records /\ Right(x)
  BY <1>1, <1>4, <1>6, RowsRight
<1>8. \A x, y \in kept : x.record = r /\ y.record = r => x = y
  BY <1>6, OneRow
<1>9. Taken => r \in answer.records
  BY <1>7
<1>10. r \in answer.records /\ Due(r) => Taken
  BY <1>1, <1>4, RowKept
<1>11. \A c : r \in Matches(c) => Covers(c, r)
  BY <1>1 DEF Matches, Covers
<1> HIDE DEF drawn, kept
<1>12. PICK q : q = pending'
  OBVIOUS
<1>13. PICK past : past = position'
  OBVIOUS
<1>14. \/ /\ answer.next = Done /\ past = 0 /\ DOMAIN q = 1 .. Len(pending) - 1
          /\ \A i \in DOMAIN q : i + 1 \in DOMAIN pending /\ q[i] = pending[i + 1]
       \/ answer.next # Done /\ q = pending /\ past = answer.next
  <2>1. CASE answer.next = Done
    <3>1. q = Tail(pending) /\ past = 0
      BY <1>2, <1>12, <1>13, <2>1
    <3>2. /\ Tail(pending) \in Seq(UnitChains) /\ Len(Tail(pending)) = Len(pending) - 1
          /\ \A i \in 1 .. Len(Tail(pending)) : Tail(pending)[i] = pending[i + 1]
      BY <1>1, HeadTailProperties
    <3>3. DOMAIN Tail(pending) = 1 .. Len(pending) - 1
      BY <3>2, LenProperties
    <3> QED BY <1>1, <2>1, <3>1, <3>2, <3>3
  <2>2. CASE answer.next # Done
    BY <1>2, <1>12, <1>13, <2>2
  <2> QED BY <2>1, <2>2
<1> HIDE DEF answer, first, Taken
<1>15. (Ahead(r)' <=> AheadOf(q, past, r)) /\ (Apart(pending, r)' <=> Apart(q, r))
  BY <1>2, <1>12, <1>13, AheadNext
<1>16. \A i, j \in DOMAIN pending : Covers(pending[i], r) /\ Covers(pending[j], r) => i = j
  BY DEF Once, Apart
<1>17. Apart(q, r)
  <2> SUFFICES ASSUME NEW i \in DOMAIN q, NEW j \in DOMAIN q,
                      Covers(q[i], r), Covers(q[j], r)
               PROVE  i = j
    BY DEF Apart
  <2>1. CASE q = pending
    BY <1>16, <2>1
  <2>2. CASE /\ DOMAIN q = 1 .. Len(pending) - 1
             /\ \A k \in DOMAIN q : k + 1 \in DOMAIN pending /\ q[k] = pending[k + 1]
    <3>1. i + 1 = j + 1
      BY <1>16, <2>2
    <3> QED BY <1>1, <2>2, <3>1
  <2> QED BY <1>14, <2>1, <2>2
<1>18. ASSUME cell.decoder # "offset", Taken
       PROVE  Ahead(r) /\ ~Ahead(r)'
  <2>1. /\ r \in Matches(first) /\ ~ComePast(first, r, position)
        /\ answer.next # Done => ComePast(first, r, answer.next)
    BY <1>9, <1>18, PageFresh DEF answer
  <2>2. Covers(pending[1], r)
    BY <1>11, <2>1 DEF first
  <2>3. Ahead(r)
    BY <1>1, <2>1, <2>2 DEF Ahead, AheadOf, first
  <2>4. ASSUME NEW i \in DOMAIN q, Covers(q[i], r)
        PROVE  i = 1 /\ ComePast(q[1], r, past)
    <3>1. CASE /\ DOMAIN q = 1 .. Len(pending) - 1
               /\ \A k \in DOMAIN q : k + 1 \in DOMAIN pending /\ q[k] = pending[k + 1]
      <4>1. i + 1 = 1
        BY <1>1, <1>16, <2>2, <2>4, <3>1
      <4> QED BY <1>1, <3>1, <4>1
    <3>2. CASE answer.next # Done /\ q = pending /\ past = answer.next
      <4>1. i = 1
        BY <1>1, <1>16, <2>2, <2>4, <3>2
      <4> QED BY <2>1, <3>2, <4>1 DEF first
    <3> QED BY <1>14, <3>1, <3>2
  <2>5. ~AheadOf(q, past, r)
    BY <2>4 DEF AheadOf
  <2> QED BY <1>15, <2>3, <2>5
<1>19. ASSUME cell.decoder # "offset", Ahead(r)'
       PROVE  Ahead(r)
  <2>1. PICK i \in DOMAIN q : Covers(q[i], r) /\ (i = 1 => ~ComePast(q[1], r, past))
    BY <1>15, <1>19 DEF AheadOf
  <2>2. CASE /\ DOMAIN q = 1 .. Len(pending) - 1
             /\ \A k \in DOMAIN q : k + 1 \in DOMAIN pending /\ q[k] = pending[k + 1]
    <3>1. i + 1 \in DOMAIN pending /\ Covers(pending[i + 1], r) /\ i + 1 # 1
      BY <1>1, <2>1, <2>2
    <3> QED BY <3>1 DEF Ahead, AheadOf
  <2>3. CASE answer.next # Done /\ q = pending /\ past = answer.next
    <3>1. i = 1 => ~ComePast(pending[1], r, position)
      BY <1>19, <2>1, <2>3, PlacesKept DEF answer, first
    <3> QED BY <2>1, <2>3, <3>1 DEF Ahead, AheadOf
  <2> QED BY <1>14, <2>2, <2>3
<1>20. ASSUME Due(r), Ahead(r), ~Taken
       PROVE  Ahead(r)'
  <2>1. PICK i \in DOMAIN pending :
           Covers(pending[i], r) /\ (i = 1 => ~ComePast(pending[1], r, position))
    BY <1>20 DEF Ahead, AheadOf
  <2>2. CASE i = 1
    <3>1. r \in Matches(first) /\ ~ComePast(first, r, position)
      BY <1>1, <1>3, <1>20, <2>1, <2>2, CoveredMatches DEF first, ChainsInv
    <3>2. r \notin answer.records
      BY <1>10, <1>20
    <3>3. answer.next # Done /\ ~ComePast(first, r, answer.next)
      BY <3>1, <3>2, RestAhead DEF answer
    <3>4. q = pending /\ past = answer.next
      BY <1>14, <3>3
    <3> QED BY <1>15, <2>1, <2>2, <3>3, <3>4 DEF first, AheadOf
  <2>3. CASE i # 1
    <3>1. CASE q = pending
      BY <1>15, <2>1, <2>3, <3>1 DEF AheadOf
    <3>2. CASE /\ DOMAIN q = 1 .. Len(pending) - 1 /\ past = 0
               /\ \A k \in DOMAIN q : k + 1 \in DOMAIN pending /\ q[k] = pending[k + 1]
      <4>1. PICK k \in DOMAIN q : i = k + 1
        <5>1. i - 1 \in 1 .. Len(pending) - 1 /\ i = (i - 1) + 1
          BY <1>1, <2>3
        <5> QED BY <3>2, <5>1
      <4>2. pending[i] \in UnitChains /\ pending[i].window = Window
        BY <1>1, ElementOfSeq DEF ChainsInv
      <4>3. Covers(q[k], r) /\ ~ComePast(q[k], r, past)
        BY <1>20, <2>1, <3>2, <4>1, <4>2, NotPastStart
      <4> QED BY <1>15, <4>1, <4>3 DEF AheadOf
    <3> QED BY <1>14, <3>1, <3>2
  <2> QED BY <2>2, <2>3
<1> QED
  BY <1>2, <1>5, <1>7, <1>8, <1>15, <1>17, <1>18, <1>19, <1>20, WalkStep DEF Taken

\* A bisected walk passes no record within a window.
LEMMA LeafStory ==
    ASSUME HarvestShape, ChainsInv, FetchLeaf, NEW r \in Records, Once(r)
    PROVE  Once(r)'
<1> DEFINE first == pending[1]
           drawn == Rows(Matches(first), first)
           kept == Processed(InWindow(drawn, first.window))
           Taken == \E x \in kept : x.record = r
<1>1. /\ pending \in Seq(UnitChains) /\ pending # <<>> /\ cell.kind = "bisected"
      /\ Len(pending) \in Nat \ {0} /\ DOMAIN pending = 1 .. Len(pending)
      /\ Head(pending) = first /\ 1 \in DOMAIN pending
  BY HeadTailProperties, LenProperties, EmptySeq DEF FetchLeaf, HarvestShape
<1>2. /\ frames' = Written(kept) /\ pending' = Tail(pending)
      /\ UNCHANGED <<endpoint, provider, listed, owner>>
  BY <1>1 DEF FetchLeaf, provider
<1>3. first \in UnitChains
  BY <1>1, ElementOfSeq
<1>4. cell.decoder = "single" /\ cell.stamp # "window"
  BY <1>1, CellSound DEF HarvestShape
<1>5. kept \in SUBSET Row
  <2>1. Matches(first) \in SUBSET Matches(first)
    OBVIOUS
  <2> QED BY <1>3, <2>1, RowsTyped
<1>6. \A x \in kept : /\ x \in drawn
                      /\ first.window.from <= x.time /\ x.time < first.window.to
                      /\ Windowed => Window.from <= x.time /\ x.time < Window.to
  BY DEF Processed, InWindow
<1>7. \A x \in kept : x.record \in Matches(first) /\ Right(x)
  <2>1. Matches(first) \in SUBSET Matches(first)
    OBVIOUS
  <2> QED BY <1>1, <1>6, <2>1, RowsRight
<1>8. \A x, y \in kept : x.record = r /\ y.record = r => x = y
  BY <1>6, OneRow
<1>9. Taken => Covers(first, r)
  BY <1>4, <1>6, <1>7 DEF Matches, Covers, Right
<1>10. Covers(first, r) /\ Due(r) => Taken
  <2>1. Matches(first) \in SUBSET Matches(first)
    OBVIOUS
  <2>2. Covers(first, r) /\ Due(r) => r \in Matches(first)
    BY <1>1, <1>3, CoveredMatches
  <2> QED BY <1>1, <2>1, <2>2, RowKept
<1> HIDE DEF drawn, kept
<1>11. PICK q : q = pending'
  OBVIOUS
<1>12. PICK past : past = position'
  OBVIOUS
<1>13. /\ DOMAIN q = 1 .. Len(pending) - 1
       /\ \A i \in DOMAIN q : i + 1 \in DOMAIN pending /\ q[i] = pending[i + 1]
  <2>1. /\ Tail(pending) \in Seq(UnitChains) /\ Len(Tail(pending)) = Len(pending) - 1
        /\ \A i \in 1 .. Len(Tail(pending)) : Tail(pending)[i] = pending[i + 1]
    BY <1>1, HeadTailProperties
  <2>2. DOMAIN Tail(pending) = 1 .. Len(pending) - 1
    BY <2>1, LenProperties
  <2> QED BY <1>1, <1>2, <1>11, <2>1, <2>2
<1> HIDE DEF first, Taken
<1>14. (Ahead(r)' <=> AheadOf(q, past, r)) /\ (Apart(pending, r)' <=> Apart(q, r))
  BY <1>2, <1>11, <1>12, AheadNext
<1>15. \A c, p : ~ComePast(c, r, p)
  BY <1>4 DEF ComePast
<1>16. /\ Ahead(r) <=> \E i \in DOMAIN pending : Covers(pending[i], r)
       /\ AheadOf(q, past, r) <=> \E i \in DOMAIN q : Covers(q[i], r)
  BY <1>15 DEF Ahead, AheadOf
<1>17. \A i, j \in DOMAIN pending : Covers(pending[i], r) /\ Covers(pending[j], r) => i = j
  BY DEF Once, Apart
<1>18. Apart(q, r)
  <2> SUFFICES ASSUME NEW i \in DOMAIN q, NEW j \in DOMAIN q,
                      Covers(q[i], r), Covers(q[j], r)
               PROVE  i = j
    BY DEF Apart
  <2>1. i + 1 = j + 1
    BY <1>13, <1>17
  <2> QED BY <1>1, <1>13, <2>1
<1>19. Taken => Ahead(r) /\ ~AheadOf(q, past, r)
  <2> SUFFICES ASSUME Taken PROVE Ahead(r) /\ ~AheadOf(q, past, r)
    OBVIOUS
  <2>1. Covers(pending[1], r)
    BY <1>9 DEF first
  <2>2. ASSUME NEW i \in DOMAIN q, Covers(q[i], r)
        PROVE  FALSE
    <3>1. i + 1 = 1
      BY <1>1, <1>13, <1>17, <2>1, <2>2
    <3> QED BY <1>1, <1>13, <3>1
  <2> QED BY <1>1, <1>16, <2>1, <2>2
<1>20. AheadOf(q, past, r) => Ahead(r)
  BY <1>13, <1>16
<1>21. Due(r) /\ Ahead(r) => Taken \/ AheadOf(q, past, r)
  <2> SUFFICES ASSUME Due(r), Ahead(r), ~Taken PROVE AheadOf(q, past, r)
    OBVIOUS
  <2>1. PICK i \in DOMAIN pending : Covers(pending[i], r)
    BY <1>16
  <2>2. i # 1
    BY <1>10, <2>1 DEF first
  <2>3. i - 1 \in 1 .. Len(pending) - 1 /\ i = (i - 1) + 1
    BY <1>1, <2>2
  <2> QED BY <1>13, <1>16, <2>1, <2>3
<1> QED
  BY <1>2, <1>5, <1>7, <1>8, <1>14, <1>18, <1>19, <1>20, <1>21, WalkStep DEF Taken

LEMMA HalveStory ==
    ASSUME HarvestShape, ChainsInv, HalveWindow, NEW r \in Records, Once(r)
    PROVE  Once(r)'
<1> DEFINE first == pending[1]
           w == first.window
           middle == w.from + Width(w) \div 2
           left == Chain(first.members, [from |-> w.from, to |-> middle])
           right == Chain(first.members, [from |-> middle, to |-> w.to])
<1>1. /\ pending \in Seq(UnitChains) /\ pending # <<>> /\ cell.kind = "bisected"
      /\ Len(pending) \in Nat \ {0} /\ DOMAIN pending = 1 .. Len(pending)
      /\ Head(pending) = first /\ 1 \in DOMAIN pending
  BY HeadTailProperties, LenProperties, EmptySeq DEF HalveWindow, HarvestShape
<1>2. /\ frames' = frames /\ pending' = <<left, right>> \o Tail(pending)
      /\ Width(w) > 1 /\ UNCHANGED <<endpoint, provider, listed, owner>>
  BY <1>1 DEF HalveWindow, Floor, provider
<1>3. first \in UnitChains /\ w \in Parts
  <2>1. first \in UnitChains
    BY <1>1, ElementOfSeq
  <2> QED BY <2>1 DEF UnitChains
<1>4. cell.decoder = "single"
  BY <1>1, CellSound DEF HarvestShape
<1>5. anchor[r] \in Int
  <2>1. Ticks \cup {1} \subseteq Int
    BY HarvestAssumption
  <2> QED BY <2>1, Zenon DEF HarvestShape
<1>6. /\ Covers(first, r) <=> Covers(left, r) \/ Covers(right, r)
      /\ ~ (Covers(left, r) /\ Covers(right, r))
  <2>1. w.from \in Int /\ w.to \in Int /\ Width(w) = w.to - w.from
    BY <1>3, HarvestAssumption DEF Parts, Window, Width
  <2>2. PICK half \in Int : half = Width(w) \div 2 /\ 0 < half /\ half < Width(w)
    <3>1. PICK width \in Int : width = Width(w) /\ width > 1
      BY <1>2, <2>1
    <3>2. width \div 2 \in Int /\ 0 < width \div 2 /\ width \div 2 < width
      BY <3>1
    <3> QED BY <3>1, <3>2
  <2>3. PICK m \in Int : m = middle /\ w.from < m /\ m < w.to
    BY <2>1, <2>2
  <2>4. /\ left.members = first.members /\ right.members = first.members
        /\ left.window.from = w.from /\ left.window.to = m
        /\ right.window.from = m /\ right.window.to = w.to
    BY <2>3 DEF Chain
  <2> HIDE DEF left, right, first
  <2> QED BY <1>1, <1>5, <2>1, <2>3, <2>4 DEF Covers
<1> HIDE DEF left, right, first
<1>7. PICK q : q = pending'
  OBVIOUS
<1>8. PICK past : past = position'
  OBVIOUS
<1>9. /\ DOMAIN q = 1 .. Len(pending) + 1
      /\ q[1] = left /\ q[2] = right
      /\ \A i \in 3 .. Len(pending) + 1 : q[i] = pending[i - 1]
  <2>1. /\ Tail(pending) \in Seq(UnitChains) /\ Len(Tail(pending)) = Len(pending) - 1
        /\ \A i \in 1 .. Len(Tail(pending)) : Tail(pending)[i] = pending[i + 1]
    BY <1>1, HeadTailProperties
  <2>2. q = <<left, right>> \o Tail(pending)
    BY <1>2, <1>7
  <2> HIDE DEF left, right
  <2> QED BY <1>1, <2>1, <2>2
<1>10. (Ahead(r)' <=> AheadOf(q, past, r)) /\ (Apart(pending, r)' <=> Apart(q, r))
  BY <1>2, <1>7, <1>8, AheadNext
<1>11. \A c, p : ~ComePast(c, r, p)
  BY <1>4 DEF ComePast
<1>12. /\ Ahead(r) <=> \E i \in DOMAIN pending : Covers(pending[i], r)
       /\ AheadOf(q, past, r) <=> \E i \in DOMAIN q : Covers(q[i], r)
  BY <1>11 DEF Ahead, AheadOf
<1>13. \A i, j \in DOMAIN pending : Covers(pending[i], r) /\ Covers(pending[j], r) => i = j
  BY DEF Once, Apart
<1> DEFINE origin(i) == IF i <= 2 THEN 1 ELSE i - 1
<1>14. \A i \in DOMAIN q : /\ origin(i) \in DOMAIN pending
                           /\ Covers(q[i], r) => Covers(pending[origin(i)], r)
  <2> TAKE i \in DOMAIN q
  <2>1. CASE i \in {1, 2}
    BY <1>1, <1>6, <1>9, <2>1 DEF first
  <2>2. CASE i \notin {1, 2}
    BY <1>1, <1>9, <2>2
  <2> QED BY <2>1, <2>2
<1>15. Apart(q, r)
  <2> SUFFICES ASSUME NEW i \in DOMAIN q, NEW j \in DOMAIN q,
                      Covers(q[i], r), Covers(q[j], r)
               PROVE  i = j
    BY DEF Apart
  <2>1. origin(i) = origin(j) /\ i \in Nat /\ j \in Nat /\ i >= 1 /\ j >= 1
    BY <1>1, <1>9, <1>13, <1>14
  <2>2. CASE i > 2
    BY <2>1, <2>2
  <2>3. CASE i <= 2
    <3>1. i \in {1, 2} /\ j \in {1, 2}
      BY <2>1, <2>3
    <3> QED BY <1>6, <1>9, <3>1
  <2> QED BY <2>1, <2>2, <2>3
<1>16. AheadOf(q, past, r) => Ahead(r)
  BY <1>12, <1>14
<1> HIDE DEF origin
<1>17. Ahead(r) => AheadOf(q, past, r)
  <2> SUFFICES ASSUME Ahead(r) PROVE AheadOf(q, past, r)
    OBVIOUS
  <2>1. PICK i \in DOMAIN pending : Covers(pending[i], r)
    BY <1>12
  <2>2. CASE i = 1
    <3>1. Covers(q[1], r) \/ Covers(q[2], r)
      BY <1>6, <1>9, <2>1, <2>2 DEF first
    <3>2. 1 \in DOMAIN q /\ 2 \in DOMAIN q
      BY <1>1, <1>9
    <3> QED BY <1>12, <3>1, <3>2
  <2>3. CASE i # 1
    <3>1. i + 1 \in 3 .. Len(pending) + 1 /\ (i + 1) - 1 = i
      BY <1>1, <2>3
    <3>2. i + 1 \in DOMAIN q
      BY <1>1, <1>9, <3>1
    <3> QED BY <1>9, <1>12, <2>1, <3>1, <3>2
  <2> QED BY <2>2, <2>3
<1>18. frames' = Written({})
  BY <1>2 DEF Written
<1> QED BY <1>2, <1>10, <1>15, <1>16, <1>17, <1>18, WalkStep

\* An edit of another record: a numbered page has no more before it than it had,
\* unless one was removed.
LEMMA EditStory ==
    ASSUME HarvestShape, HarvestShape', Edit, NEW r \in Records, r \notin touched',
           Once(r)
    PROVE  Once(r)'
<1>1. PICK e \in Records :
         /\ touched' = touched \cup {e}
         /\ \/ /\ listed' = (listed \ {e}) \cup ({e} \ listed)
               /\ removed' = (removed \/ e \in listed)
               /\ UNCHANGED owner
            \/ /\ cell.kind = "sweep"
               /\ \E o \in Owners \ {owner[e]} : owner' = [owner EXCEPT ![e] = o]
               /\ UNCHANGED <<listed, removed>>
  BY DEF Edit
<1>2. /\ cell' = cell /\ anchor' = anchor /\ long' = long /\ shift' = shift
      /\ pending' = pending /\ position' = position /\ frames' = frames
  BY DEF Edit, endpoint, harvest
<1>3. r # e
  BY <1>1
<1>4. /\ r \in listed' <=> r \in listed
      /\ owner'[r] = owner[r] /\ (~removed' => ~removed)
  BY <1>1, <1>3 DEF HarvestShape
<1>5. /\ \A c : Covers(c, r)' <=> Covers(c, r)
      /\ Due(r)' <=> Due(r)
      /\ \A row : row.record = r => (Right(row)' <=> Right(row))
  BY <1>2, <1>4 DEF Covers, Due, Right, Windowed, Window
<1>6. Placed(frames, r)' = Placed(frames, r) /\ Apart(pending, r)
  BY <1>2 DEF Placed, Once
<1>7. Apart(pending, r)'
  BY <1>2, <1>5, <1>6 DEF Apart
<1>8. \A p \in Placed(frames, r) : p[2].record = r
  BY DEF Placed
<1>9. ASSUME cell.decoder # "offset"
      PROVE  Ahead(r)' <=> Ahead(r)
  <2>1. \A c : ComePast(c, r, position)' <=> ComePast(c, r, position)
    BY <1>2, <1>4, <1>9 DEF ComePast
  <2> QED BY <1>2, <1>4, <2>1 DEF Ahead, AheadOf, Covers, ComePast
<1>10. ASSUME cell.decoder = "offset", ~removed', Ahead(r)
       PROVE  Ahead(r)' /\ ~removed
  <2>1. cell.kind # "sweep"
    BY <1>10, CellSound DEF HarvestShape
  <2>2. listed \subseteq listed' /\ owner' = owner /\ ~removed
    BY <1>1, <1>10, <2>1
  <2>3. ASSUME NEW c, ~ComePast(c, r, position)
        PROVE  ~ComePast(c, r, position)'
    <3> DEFINE before == {j \in Matches(c) : j <= r}
               after == {j \in Matches(c)' : j <= r}
    <3>1. Matches(c) \subseteq Matches(c)' /\ Matches(c)' \subseteq 1 .. MaxId
      BY <1>2, <2>2 DEF Matches, Selected, Asked, Until, HarvestShape, Records
    <3>2. before \in SUBSET after /\ after \in SUBSET (1 .. MaxId)
      BY <3>1
    <3>3. IsFiniteSet(1 .. MaxId)
      BY FS_Interval, HarvestAssumption
    <3>4. ComePast(c, r, position) <=> Cardinality(before) <= position * PageSize
      BY <1>10 DEF ComePast
    <3>5. ComePast(c, r, position)' <=> Cardinality(after) <= position * PageSize
      BY <1>2, <1>10 DEF ComePast
    <3> HIDE DEF before, after
    <3>6. IsFiniteSet(after)
      BY <3>2, <3>3, FS_Subset
    <3>7. /\ Cardinality(before) \in Nat /\ Cardinality(after) \in Nat
          /\ Cardinality(before) <= Cardinality(after)
      BY <3>2, <3>6, FS_Subset, FS_CardinalityType
    <3>8. position * PageSize \in Nat
      BY HarvestAssumption DEF HarvestShape
    <3> QED BY <2>3, <3>4, <3>5, <3>7, <3>8
  <2>4. PICK i \in DOMAIN pending :
           Covers(pending[i], r) /\ (i = 1 => ~ComePast(pending[1], r, position))
    BY <1>10 DEF Ahead, AheadOf
  <2>5. PICK c, d : c = pending[i] /\ d = pending[1]
    OBVIOUS
  <2>6. Covers(c, r)' /\ (i = 1 => ~ComePast(d, r, position)')
    BY <1>5, <2>3, <2>4, <2>5
  <2> QED
    BY <1>2, <2>2, <2>5, <2>6
    DEF Ahead, AheadOf, Covers, ComePast, Matches, Selected, Asked, Until
<1>11. (\A p \in Placed(frames, r) : Right(p[2]))'
  BY <1>5, <1>6, <1>8 DEF Once
<1>12. (cell.decoder # "offset" =>
           /\ \A p, q \in Placed(frames, r) : p = q
           /\ Placed(frames, r) # {} => ~Ahead(r))'
  BY <1>2, <1>6, <1>9 DEF Once
<1>13. (Due(r) /\ (cell.decoder = "offset" => ~removed) =>
           (Placed(frames, r) # {} \/ Ahead(r)))'
  BY <1>2, <1>4, <1>5, <1>6, <1>9, <1>10 DEF Once
<1> QED BY <1>7, <1>11, <1>12, <1>13 DEF Once

\* Each owner is in one of the batches.
LEMMA BatchOf ==
    ASSUME NEW m \in Owners
    PROVE  /\ \E b \in DOMAIN Batches : m \in Batches[b]
           /\ \A b, d \in DOMAIN Batches : m \in Batches[b] /\ m \in Batches[d] => b = d
<1>1. /\ m \in Nat /\ m >= 1 /\ m <= MaxOwner /\ MaxOwner \in Nat
      /\ BatchSize \in Nat /\ BatchSize > 0
  BY HarvestAssumption DEF Owners
<1>2. PICK n \in Nat : n = (MaxOwner + BatchSize - 1) \div BatchSize
  BY <1>1
<1>3. \A b \in 1 .. n : m \in Batches[b] <=> (b - 1) * BatchSize < m /\ m <= b * BatchSize
  BY <1>2 DEF Batches
<1>4. DOMAIN Batches = 1 .. n
  BY <1>2 DEF Batches
<1>5. n * BatchSize >= MaxOwner
  <2>1. PICK total \in Nat : total = MaxOwner + BatchSize - 1
    BY <1>1
  <2>2. total < (total \div BatchSize + 1) * BatchSize
    BY <1>1, <2>1
  <2>3. (n + 1) * BatchSize = n * BatchSize + BatchSize /\ n * BatchSize \in Nat
    BY <1>1, <1>2
  <2>4. total < n * BatchSize + BatchSize
    BY <1>2, <2>1, <2>2, <2>3
  <2> QED BY <1>1, <2>1, <2>3, <2>4
<1>6. \E b \in 1 .. n : (b - 1) * BatchSize < m /\ m <= b * BatchSize
  <2> DEFINE enough == {b \in 0 .. n : m <= b * BatchSize}
  <2>1. enough \in SUBSET Nat /\ n \in enough /\ 0 \notin enough
    BY <1>1, <1>5
  <2>2. \A b : b \in enough <=> b \in 0 .. n /\ m <= b * BatchSize
    OBVIOUS
  <2> HIDE DEF enough
  <2>3. PICK b \in enough : \A d \in enough : b <= d
    BY <2>1, FirstExists
  <2>4. b \in 1 .. n /\ m <= b * BatchSize
    BY <2>1, <2>2, <2>3
  <2>5. b - 1 \in 0 .. n /\ ~ (b <= b - 1)
    BY <2>4
  <2>6. ~ (m <= (b - 1) * BatchSize)
    BY <2>2, <2>3, <2>5
  <2>7. (b - 1) * BatchSize \in Int
    BY <1>1, <2>4
  <2> QED BY <1>1, <2>4, <2>6, <2>7
<1>7. ASSUME NEW b \in 1 .. n, NEW d \in 1 .. n, b < d,
             m <= b * BatchSize, (d - 1) * BatchSize < m
      PROVE  FALSE
  <2>1. b <= d - 1
    BY <1>7
  <2>2. b * BatchSize <= (d - 1) * BatchSize
    BY <1>1, <2>1
  <2>3. b * BatchSize \in Int /\ (d - 1) * BatchSize \in Int
    BY <1>1
  <2> QED BY <1>1, <1>7, <2>2, <2>3
<1>8. \A b, d \in 1 .. n : m \in Batches[b] /\ m \in Batches[d] => b = d
  BY <1>3, <1>7
<1> QED BY <1>3, <1>4, <1>6, <1>8

\* The chains of a unit cover each due record, once.
LEMMA ChainsCover ==
    ASSUME HarvestShape, ChainsInv, NEW r \in Records
    PROVE  /\ Apart(Chains, r)
           /\ Due(r) => AheadOf(Chains, 0, r)
           /\ \A i \in DOMAIN Chains : Chains[i] \in UnitChains /\ Chains[i].window = Window
<1>1. owner[r] \in Owners
  BY DEF HarvestShape
<1>2. \A i \in DOMAIN Chains : Chains[i] \in UnitChains
  BY ChainsTyped, ElementOfSeq, LenProperties
<1>3. \A i \in DOMAIN Chains : Chains[i].window = Window
  BY DEF Chains, Chain
<1>4. anchor[r] \in Int /\ Window.from \in Int /\ Window.to \in Int
  <2>1. Ticks \cup {1} \subseteq Int /\ Window.from \in Int /\ Window.to \in Int
    BY HarvestAssumption DEF Window
  <2> QED BY <2>1, Zenon DEF HarvestShape
<1>5. ASSUME Due(r), NEW i \in DOMAIN Chains, owner[r] \in Chains[i].members
      PROVE  Covers(Chains[i], r)
  <2>1. ASSUME cell.kind = "bisected"
        PROVE  Window.from <= anchor[r] /\ anchor[r] < Window.to
    <3>1. Windowed /\ cell.stamp # "window"
      BY <2>1, CellSound DEF HarvestShape, Windowed
    <3> QED BY <1>4, <1>5, <3>1 DEF Due
  <2> QED BY <1>3, <1>5, <2>1 DEF Covers
<1>6. CASE cell.kind \in {"single", "bisected"}
  <2>1. Chains = <<Chain(Owners, Window)>>
    BY <1>6 DEF Chains
  <2>2. DOMAIN Chains = {1} /\ Chains[1].members = Owners
    BY <2>1 DEF Chain
  <2>3. Apart(Chains, r)
    BY <2>2 DEF Apart
  <2>4. Due(r) => \E i \in DOMAIN Chains : Covers(Chains[i], r)
    BY <1>1, <1>5, <2>2
  <2>5. Due(r) => AheadOf(Chains, 0, r)
    BY <1>2, <1>3, <2>4, NotPastStart DEF AheadOf
  <2> QED BY <1>2, <1>3, <2>3, <2>5
<1>7. CASE cell.kind = "batched"
  <2>1. Chains = [b \in DOMAIN Batches |-> Chain(Batches[b], Window)]
    BY <1>7 DEF Chains
  <2>2. /\ DOMAIN Chains = DOMAIN Batches
        /\ \A b \in DOMAIN Batches : Chains[b].members = Batches[b]
    BY <2>1 DEF Chain
  <2>3. Apart(Chains, r)
    BY <1>1, <2>2, BatchOf DEF Apart, Covers
  <2>4. Due(r) => \E i \in DOMAIN Chains : Covers(Chains[i], r)
    BY <1>1, <1>5, <2>2, BatchOf
  <2>5. Due(r) => AheadOf(Chains, 0, r)
    BY <1>2, <1>3, <2>4, NotPastStart DEF AheadOf
  <2> QED BY <1>2, <1>3, <2>3, <2>5
<1>8. CASE cell.kind \notin {"single", "bisected", "batched"}
  <2>1. Chains = [m \in Owners |-> Chain({m}, Window)]
    BY <1>8 DEF Chains
  <2>2. DOMAIN Chains = Owners /\ \A m \in Owners : Chains[m].members = {m}
    BY <2>1 DEF Chain
  <2>3. Apart(Chains, r)
    BY <2>2 DEF Apart, Covers
  <2>4. Due(r) => \E i \in DOMAIN Chains : Covers(Chains[i], r)
    BY <1>1, <1>5, <2>2
  <2>5. Due(r) => AheadOf(Chains, 0, r)
    BY <1>2, <1>3, <2>4, NotPastStart DEF AheadOf
  <2> QED BY <1>2, <1>3, <2>3, <2>5
<1> QED BY <1>6, <1>7, <1>8

LEMMA StartStory ==
    ASSUME HarvestShape, ChainsInv, StartHarvest, NEW r \in Records
    PROVE  Once(r)'
<1>1. /\ pending' = Chains /\ position' = 0 /\ frames' = <<>>
      /\ UNCHANGED <<endpoint, listed, owner>>
  BY DEF StartHarvest
<1>2. PICK q : q = pending'
  OBVIOUS
<1>3. PICK past : past = position'
  OBVIOUS
<1>4. (Ahead(r)' <=> AheadOf(q, past, r)) /\ (Apart(pending, r)' <=> Apart(q, r))
  BY <1>1, <1>2, <1>3, AheadNext
<1>5. Apart(pending, r)' /\ (Due(r) => Ahead(r)')
  BY <1>1, <1>2, <1>3, <1>4, ChainsCover
<1>6. Due(r)' <=> Due(r)
  BY <1>1 DEF Due, endpoint, Windowed, Window
<1>7. Placed(frames, r)' = {}
  BY <1>1 DEF Placed
<1> QED BY <1>5, <1>6, <1>7 DEF Once

\* What lands of an untouched record: all the rows the walk has placed of it are
\* one, so it lands once, or not at all, but for a numbered listing's copies.
LEMMA LandStory ==
    ASSUME HarvestShape, Land, pending = <<>>, NEW r \in Records, Once(r)
    PROVE  /\ ~Due(r) => Landed(r)' = 0
           /\ Due(r) /\ (cell.decoder = "offset" => ~removed) => Landed(r)' >= 1
           /\ Landed(r)' > 1 => cell.decoder = "offset" /\ ~DropDuplicates
           /\ \A i \in DOMAIN file'.frames : \A row \in file'.frames[i] :
                 row.record = r => Right(row)
<1> DEFINE landed == Deduplicated(frames)
           places == Placed(landed, r)
           before == Placed(frames, r)
<1>1. file'.frames = landed
  BY DEF Land
<1>2. Landed(r)' = Cardinality(places)
  BY <1>1 DEF Landed, Placed
<1>3. frames \in Seq(SUBSET Row) /\ Len(frames) \in Nat /\ DOMAIN frames = 1 .. Len(frames)
  BY LenProperties DEF HarvestShape, Frames
<1>4. \A i \in DOMAIN frames : frames[i] \in SUBSET Row
  BY <1>3, ElementOfSeq
<1>5. \A list, i, row : <<i, row>> \in Placed(list, r)
                           <=> i \in DOMAIN list /\ row \in list[i] /\ row.record = r
  BY DEF Placed
<1>6. \A list : \A p \in Placed(list, r) : p = <<p[1], p[2]>>
  BY DEF Placed
<1>7. ~Ahead(r)
  BY DEF Ahead, AheadOf
<1>8. PICK theRow : \A row \in Row : row.record = r /\ Right(row) => row = theRow
  <2> DEFINE x == [record |-> r, owner |-> owner[r],
                   time |-> IF cell.stamp = "window" THEN Window.from ELSE anchor[r]]
  <2>1. \A row \in Row : row.record = r /\ Right(row) => row = x
    BY DEF Row, Right
  <2> HIDE DEF x
  <2> QED BY <2>1
<1>9. ASSUME NEW i \in DOMAIN frames, NEW row \in frames[i], row.record = r
      PROVE  row = theRow /\ Right(row)
  <2>1. <<i, row>> \in Placed(frames, r)
    BY <1>5, <1>9
  <2>2. Right(row)
    <3>1. \A p \in Placed(frames, r) : Right(p[2])
      BY DEF Once
    <3>2. <<i, row>>[2] = row
      OBVIOUS
    <3> QED BY <2>1, <3>1, <3>2
  <2> QED BY <1>4, <1>8, <1>9, <2>2
<1>10. /\ \A i \in DOMAIN landed : \A row \in landed[i] :
             \E j \in DOMAIN frames : row \in frames[j]
       /\ \A j \in DOMAIN frames : \A row \in frames[j] :
             \E i \in DOMAIN landed : row \in landed[i]
       /\ \/ DropDuplicates /\ DOMAIN landed = {1}
          \/ ~DropDuplicates /\ landed = frames
  <2>1. CASE DropDuplicates
    <3>1. landed = <<UNION {frames[i] : i \in DOMAIN frames}>>
      BY <2>1 DEF Deduplicated
    <3> HIDE DEF landed
    <3>2. DOMAIN landed = {1} /\ landed[1] = UNION {frames[i] : i \in DOMAIN frames}
      BY <3>1
    <3> QED BY <2>1, <3>2
  <2>2. CASE ~DropDuplicates
    <3>1. landed = frames
      BY <2>2 DEF Deduplicated
    <3> HIDE DEF landed
    <3> QED BY <2>2, <3>1
  <2> QED BY <2>1, <2>2
<1>11. before # {} <=> places # {}
  <2> HIDE DEF landed
  <2>1. ASSUME NEW p \in before
        PROVE  places # {}
    <3>1. p[1] \in DOMAIN frames /\ p[2] \in frames[p[1]] /\ p[2].record = r
      BY <1>5, <1>6
    <3>2. PICK i \in DOMAIN landed : p[2] \in landed[i]
      BY <1>10, <3>1
    <3>3. <<i, p[2]>> \in places
      BY <1>5, <3>1, <3>2
    <3> QED BY <3>3
  <2>2. ASSUME NEW p \in places
        PROVE  before # {}
    <3>1. p[1] \in DOMAIN landed /\ p[2] \in landed[p[1]] /\ p[2].record = r
      BY <1>5, <1>6
    <3>2. PICK j \in DOMAIN frames : p[2] \in frames[j]
      BY <1>10, <3>1
    <3>3. <<j, p[2]>> \in before
      BY <1>5, <3>1, <3>2
    <3> QED BY <3>3
  <2> QED BY <2>1, <2>2
<1>12. before # {} => Due(r)
  <2>1. \A p \in before : Right(p[2]) /\ p[2].record = r
    BY DEF Once, Placed
  <2> QED BY <2>1 DEF Right
<1>13. \A i \in DOMAIN landed : \A row \in landed[i] : row.record = r =>
          row = theRow /\ Right(row)
  <2> HIDE DEF landed
  <2> QED BY <1>9, <1>10
<1>14. places \in SUBSET ((DOMAIN landed) \X {theRow})
  <2> HIDE DEF landed
  <2>1. \A p \in places : /\ p = <<p[1], p[2]>>
                          /\ p[1] \in DOMAIN landed /\ p[2] \in landed[p[1]]
                          /\ p[2].record = r
    BY <1>5, <1>6
  <2> HIDE DEF places
  <2>2. \A p \in places : p[2] = theRow
    BY <1>13, <2>1
  <2>3. ASSUME NEW p \in places
        PROVE  p \in (DOMAIN landed) \X {theRow}
    <3>1. PICK i : i = p[1] /\ i \in DOMAIN landed
      BY <2>1
    <3>2. p = <<i, theRow>>
      BY <2>1, <2>2, <3>1
    <3> QED BY <3>1, <3>2
  <2> QED BY <2>3
<1>15. IsFiniteSet(DOMAIN landed)
  <2>1. IsFiniteSet(DOMAIN frames) /\ IsFiniteSet({1})
    <3>1. PICK n \in Nat : DOMAIN frames = 1 .. n
      BY <1>3
    <3>2. IsFiniteSet(1 .. n)
      BY FS_Interval
    <3> QED BY <3>1, <3>2, FS_Singleton
  <2> HIDE DEF landed
  <2> QED BY <1>10, <2>1
<1> HIDE DEF landed
<1>16. IsFiniteSet(places) /\ Cardinality(places) \in Nat
  <2>1. IsFiniteSet({theRow})
    BY FS_Singleton
  <2>2. IsFiniteSet((DOMAIN landed) \X {theRow})
    BY <1>15, <2>1, FS_Product
  <2>3. IsFiniteSet(places)
    BY <1>14, <2>2, FS_Subset
  <2> QED BY <2>3, FS_CardinalityType
<1>17. Cardinality(places) = 0 <=> places = {}
  BY <1>16, FS_EmptySet
<1>18. ASSUME cell.decoder # "offset" \/ DropDuplicates
       PROVE  Cardinality(places) <= 1
  <2>1. \A p, q \in places : p = q
    <3>1. CASE DropDuplicates
      <4>1. DOMAIN landed = {1}
        BY <1>10, <3>1
      <4>2. places \in SUBSET ({1} \X {theRow})
        BY <1>14, <4>1
      <4> HIDE DEF places
      <4>3. \A p \in places : p = <<1, theRow>>
        BY <4>2
      <4> QED BY <4>3
    <3>2. CASE ~DropDuplicates
      BY <1>10, <1>18, <3>2 DEF Once
    <3> QED BY <3>1, <3>2
  <2>2. CASE places = {}
    BY <1>17, <2>2
  <2>3. CASE places # {}
    <3>1. PICK p \in places : TRUE
      BY <2>3
    <3>2. places = {p}
      BY <2>1, <3>1
    <3>3. Cardinality({p}) = 1
      BY FS_Singleton
    <3> QED BY <3>2, <3>3
  <2> QED BY <2>2, <2>3
<1>19. Due(r) /\ (cell.decoder = "offset" => ~removed) => before # {}
  BY <1>7 DEF Once
<1> HIDE DEF places, before
<1>20. ~Due(r) => Landed(r)' = 0
  BY <1>2, <1>11, <1>12, <1>17
<1>21. Due(r) /\ (cell.decoder = "offset" => ~removed) => Landed(r)' >= 1
  BY <1>2, <1>11, <1>16, <1>17, <1>19
<1>22. Landed(r)' > 1 => cell.decoder = "offset" /\ ~DropDuplicates
  BY <1>2, <1>16, <1>18
<1> QED BY <1>1, <1>13, <1>20, <1>21, <1>22

LEMMA LandedOnce ==
    ASSUME HarvestShape, WalkInv, Land
    PROVE  UneditedLandOnce'
<1>1. /\ pending = <<>> /\ touched' = touched
      /\ cell' = cell /\ removed' = removed /\ anchor' = anchor /\ owner' = owner
      /\ listed' = listed
      /\ \A r \in Records \ touched : Once(r)
  BY DEF WalkInv, Land, endpoint, provider
<1> SUFFICES ASSUME NEW r \in Records, r \notin touched
             PROVE  (/\ ~Due(r) => Landed(r) = 0
                     /\ Due(r) /\ (cell.decoder = "offset" => ~removed) => Landed(r) >= 1
                     /\ Landed(r) > 1 => cell.decoder = "offset" /\ ~DropDuplicates
                     /\ \A i \in DOMAIN file.frames : \A row \in file.frames[i] :
                           row.record = r =>
                               /\ row.owner = owner[r]
                               /\ row.time = IF cell.stamp = "window" THEN Window.from
                                             ELSE anchor[r])'
  BY <1>1 DEF UneditedLandOnce
<1>2. Due(r)' <=> Due(r)
  BY <1>1 DEF Due, Windowed, Window
<1>3. /\ ~Due(r) => Landed(r)' = 0
      /\ Due(r) /\ (cell.decoder = "offset" => ~removed) => Landed(r)' >= 1
      /\ Landed(r)' > 1 => cell.decoder = "offset" /\ ~DropDuplicates
      /\ \A i \in DOMAIN file'.frames : \A row \in file'.frames[i] :
            row.record = r => Right(row)
  BY <1>1, LandStory
<1>4. \A i \in DOMAIN file'.frames : \A row \in file'.frames[i] :
         row.record = r =>
            /\ row.owner = owner'[r]
            /\ row.time = IF cell'.stamp = "window" THEN Window.from ELSE anchor'[r]
  BY <1>1, <1>3 DEF Right
<1> QED BY <1>1, <1>2, <1>3, <1>4 DEF Window

\* The chains at hand stay the unit's own, or parts of them.
LEMMA ChainsNext ==
    ASSUME HarvestShape, ChainsInv, [HarvestNext]_harvestVars
    PROVE  ChainsInv'
<1>1. UNCHANGED endpoint
  BY DEF HarvestNext, RunStep, StartHarvest, HarvestPage, FetchLeaf, HalveWindow,
         TooDense, EndWalk, CheckCount, Mismatch, Land, CompleteRun, Project, Fault,
         ProjectionFault, Edit, Failed, harvestVars
<1>2. /\ \/ Windowed' /\ cell'.stamp # "window"
         \/ \A r \in Records : anchor'[r] = 1
      /\ \/ shift' = 0
         \/ cell'.retrieval = "local_overlap" /\ shift' \in 1 - Span .. Span - 1
  BY <1>1 DEF ChainsInv, endpoint, Windowed
<1> DEFINE Ours(c) == /\ cell.kind # "bisected" => c.window = Window
                      /\ cell.stamp = "member" => \E m \in Owners : c.members = {m}
<1>3. \A i \in DOMAIN pending : Ours(pending[i])
  BY DEF ChainsInv
<1> SUFFICES ASSUME NEW i \in DOMAIN pending' PROVE Ours(pending'[i])
  BY <1>1, <1>2 DEF ChainsInv, endpoint, Window
<1>4. CASE pending' = <<>>
  BY <1>4
<1>5. CASE pending' = pending
  BY <1>3, <1>5
<1>6. CASE pending # <<>> /\ pending' = Tail(pending)
  <2>1. /\ pending \in Seq(UnitChains) /\ Len(pending) \in Nat
        /\ DOMAIN pending = 1 .. Len(pending)
    BY LenProperties DEF HarvestShape
  <2>2. /\ Tail(pending) \in Seq(UnitChains) /\ Len(Tail(pending)) = Len(pending) - 1
        /\ \A j \in 1 .. Len(Tail(pending)) : Tail(pending)[j] = pending[j + 1]
    BY <1>6, <2>1, HeadTailProperties
  <2>3. DOMAIN Tail(pending) = 1 .. Len(pending) - 1
    BY <2>2, LenProperties
  <2>4. i \in 1 .. Len(pending) - 1 /\ pending'[i] = pending[i + 1]
    BY <1>6, <2>2, <2>3
  <2>5. i + 1 \in DOMAIN pending
    BY <2>1, <2>4
  <2> QED BY <1>3, <2>4, <2>5
<1>7. CASE cell.kind = "bisected"
  BY <1>7, CellSound DEF HarvestShape
<1>8. CASE pending' = Chains
  <2>1. Chains[i].window = Window
    BY <1>8 DEF Chains, Chain
  <2>2. ASSUME cell.stamp = "member"
        PROVE  \E m \in Owners : Chains[i].members = {m}
    <3>1. Chains = [m \in Owners |-> Chain({m}, Window)]
      BY <2>2, CellSound DEF Chains, HarvestShape
    <3> QED BY <1>8, <3>1 DEF Chain
  <2> QED BY <1>8, <2>1, <2>2
<1>9. \/ pending' \in {<<>>, pending, Chains} \/ cell.kind = "bisected"
      \/ pending # <<>> /\ pending' = Tail(pending)
  BY DEF HarvestNext, RunStep, StartHarvest, HarvestPage, FetchLeaf, HalveWindow,
         TooDense, EndWalk, CheckCount, Mismatch, Land, CompleteRun, Project, Fault,
         ProjectionFault, Edit, Failed, StopHarvest, harvestVars, harvest
<1> QED BY <1>4, <1>5, <1>6, <1>7, <1>8, <1>9

LEMMA InitWalk == HarvestInit => WalkInv
<1> SUFFICES ASSUME HarvestInit PROVE WalkInv
  OBVIOUS
<1>1. /\ at = "idle" /\ run = 0 /\ pending = <<>>
  BY DEF HarvestInit
<1>2. ChainsInv
  <2>1. \/ Windowed /\ cell.stamp # "window"
        \/ \A r \in Records : anchor[r] = 1
    BY DEF HarvestInit
  <2>2. \/ shift = 0
        \/ cell.retrieval = "local_overlap" /\ shift \in 1 - Span .. Span - 1
    BY HarvestAssumption DEF HarvestInit
  <2> QED BY <1>1, <2>1, <2>2 DEF ChainsInv
<1> QED BY <1>1, <1>2 DEF WalkInv, UneditedLandOnce

LEMMA HarvestNextWalks ==
    ASSUME TrailInv, HarvestShape, HarvestShape', WalkInv, [HarvestNext]_harvestVars
    PROVE  WalkInv'
<1>1. ChainsInv /\ ChainsInv'
  BY ChainsNext DEF WalkInv
<1>2. run \in Nat /\ file.run \in Nat /\ file.run <= run
  BY HarvestAssumption DEF TrailInv
<1>3. CASE StartHarvest
  <2>1. at' = "fetch" /\ run' = run + 1 /\ file' = file
    BY <1>3 DEF StartHarvest
  <2>2. \A r \in Records : Once(r)'
    BY <1>1, <1>3, StartStory
  <2>3. file'.run < run'
    BY <1>2, <2>1
  <2>4. UneditedLandOnce'
    BY <1>2, <2>1, <2>3 DEF UneditedLandOnce
  <2>5. (\A r \in Records \ touched : Once(r))'
    BY <2>2
  <2> QED BY <1>1, <2>1, <2>3, <2>4, <2>5 DEF WalkInv
<1>4. CASE HarvestPage \/ FetchLeaf \/ HalveWindow
  <2>1. /\ at = "fetch" /\ UNCHANGED <<at, run, file, touched>>
    BY <1>4 DEF HarvestPage, FetchLeaf, HalveWindow, provider
  <2>2. (\A r \in Records \ touched : Once(r))'
    <3>1. \A r \in Records \ touched : Once(r)
      BY <2>1 DEF WalkInv
    <3>2. \A r \in Records : Once(r) => Once(r)'
      BY <1>1, <1>4, PageStory, LeafStory, HalveStory
    <3> QED BY <2>1, <3>1, <3>2
  <2>3. (file.run < run)'
    BY <2>1 DEF WalkInv
  <2>4. UneditedLandOnce'
    BY <1>2, <2>1, <2>3 DEF UneditedLandOnce
  <2> QED BY <1>1, <2>1, <2>2, <2>3, <2>4 DEF WalkInv
<1>5. CASE Edit
  <2>1. /\ at \in {"fetch", "check"} /\ UNCHANGED <<at, run, pending, file>>
        /\ touched \subseteq touched'
    BY <1>5 DEF Edit, harvest
  <2>2. (\A r \in Records \ touched : Once(r))'
    <3>1. \A r \in Records \ touched : Once(r)
      BY <2>1 DEF WalkInv
    <3>2. \A r \in Records : r \notin touched' /\ Once(r) => Once(r)'
      BY <1>5, EditStory
    <3> QED BY <2>1, <3>1, <3>2
  <2>3. (file.run < run)'
    BY <2>1 DEF WalkInv
  <2>4. UneditedLandOnce'
    BY <1>2, <2>1, <2>3 DEF UneditedLandOnce
  <2> QED BY <1>1, <2>1, <2>2, <2>3, <2>4 DEF WalkInv
<1>6. CASE EndWalk \/ CheckCount
  <2>1. /\ at \in {"fetch", "check"} /\ at' \in {"check", "land"} /\ pending = <<>>
        /\ UNCHANGED <<endpoint, provider, run, pending, position, frames, file>>
    BY <1>6 DEF EndWalk, CheckCount, WalkInv
  <2>2. (\A r \in Records \ touched : Once(r))'
    <3>1. \A r \in Records \ touched : Once(r)
      BY <2>1 DEF WalkInv
    <3>2. \A r : Once(r)' <=> Once(r)
      BY <2>1 DEF Once, Apart, Covers, Placed, Right, Due, Windowed, Window, Ahead,
                  AheadOf, ComePast, Matches, Selected, Asked, Until, endpoint, provider
    <3> QED BY <2>1, <3>1, <3>2 DEF provider
  <2>3. (file.run < run)'
    BY <2>1 DEF WalkInv
  <2>4. UneditedLandOnce'
    BY <1>2, <2>1, <2>3 DEF UneditedLandOnce
  <2> QED BY <1>1, <2>1, <2>2, <2>3, <2>4 DEF WalkInv
<1>7. CASE Land
  <2>1. at' = "complete"
    BY <1>7 DEF Land
  <2> QED BY <1>1, <1>7, <2>1, LandedOnce DEF WalkInv
<1>8. CASE \/ CompleteRun \/ Project \/ ProjectionFault \/ Mismatch \/ TooDense
           \/ Fault \/ UNCHANGED harvestVars
  <2>1. /\ at' \in {"idle", "project"} \/ UNCHANGED harvestVars
        /\ UNCHANGED <<endpoint, provider, run, file>>
    BY <1>8 DEF CompleteRun, Project, ProjectionFault, Mismatch, TooDense, Fault,
                Failed, StopHarvest, harvestVars, harvest
  <2>2. UneditedLandOnce'
    <3>1. /\ cell' = cell /\ anchor' = anchor /\ listed' = listed /\ owner' = owner
          /\ touched' = touched /\ removed' = removed /\ run' = run /\ file' = file
      BY <2>1 DEF endpoint, provider
    <3>2. \A r : Landed(r)' = Landed(r) /\ (Due(r)' <=> Due(r))
      BY <3>1 DEF Landed, Due, Windowed, Window
    <3>3. UneditedLandOnce
      BY DEF WalkInv
    <3> QED BY <3>1, <3>2, <3>3 DEF UneditedLandOnce, Window
  <2>3. CASE at' \in {"idle", "project"}
    BY <1>1, <2>2, <2>3 DEF WalkInv
  <2>4. CASE UNCHANGED harvestVars
    <3>1. /\ at' = at /\ run' = run /\ file' = file /\ pending' = pending
          /\ touched' = touched
          /\ UNCHANGED <<endpoint, provider, position, frames>>
      BY <2>4 DEF harvestVars, harvest, provider
    <3>2. \A r : Once(r)' <=> Once(r)
      BY <3>1 DEF Once, Apart, Covers, Placed, Right, Due, Windowed, Window, Ahead,
                  AheadOf, ComePast, Matches, Selected, Asked, Until, endpoint, provider
    <3> QED BY <1>1, <2>2, <3>1, <3>2 DEF WalkInv
  <2> QED BY <2>1, <2>3, <2>4
<1> QED
  BY <1>3, <1>4, <1>5, <1>6, <1>7, <1>8 DEF HarvestNext, RunStep

\* Pages walked while the provider edits its records lose and double none that is
\* not itself edited, by whatever decoder, shape and window: but for a numbered
\* listing, which a removal robs of one and an addition makes read one again.
THEOREM UneditedOnce == Spec => []UneditedLandOnce
<1>1. Init => WalkInv
  BY InitWalk DEF Init
<1>2. [Next]_vars => [HarvestNext]_harvestVars
  BY DEF Next, RunFeed, RunHarvest, vars
<1>3. TrailInv /\ HarvestShape /\ HarvestShape' /\ WalkInv /\ [HarvestNext]_harvestVars
         => WalkInv'
  BY HarvestNextWalks
<1>4. WalkInv => UneditedLandOnce
  BY DEF WalkInv
<1> QED BY <1>1, <1>2, <1>3, <1>4, HarvestInvariance, PTL DEF Spec

-----------------------------------------------------------------------------
(* A listing that is counted after its walk.                               *)

LEMMA GatheredAppended ==
    ASSUME frames \in Frames, NEW rows
    PROVE  Gathered(Written(rows)) = Gathered(frames) \cup rows
<1>1. CASE rows = {}
  BY <1>1 DEF Written
<1>2. CASE rows # {}
  <2>1. /\ Len(frames) \in Nat /\ DOMAIN frames = 1 .. Len(frames)
        /\ frames \in Seq((SUBSET Row) \cup {rows})
    <3>1. /\ frames \in Seq(SUBSET Row) /\ Len(frames) \in Nat
          /\ DOMAIN frames = 1 .. Len(frames)
      <4>1. frames \in Seq(SUBSET Row)
        BY DEF Frames
      <4>2. PICK some : some = SUBSET Row
        OBVIOUS
      <4>3. frames \in Seq(some)
        BY <4>1, <4>2
      <4>4. Len(frames) \in Nat /\ DOMAIN frames = 1 .. Len(frames)
        BY <4>3, LenProperties
      <4> QED BY <4>1, <4>4
    <3>2. PICK n \in Nat : n = Len(frames)
      BY <3>1
    <3>3. PICK some, any : some = SUBSET Row /\ any = (SUBSET Row) \cup {rows}
      OBVIOUS
    <3>4. frames \in [1 .. n -> some]
      BY <3>1, <3>2, <3>3, LenProperties
    <3>5. some \subseteq any
      BY <3>3
    <3>6. frames \in [1 .. n -> any]
      BY <3>4, <3>5
    <3> QED BY <3>1, <3>2, <3>3, <3>6, IsASeq
  <2>2. PICK n \in Nat : n = Len(frames)
    BY <2>1
  <2>3. PICK next : next = Append(frames, rows)
    OBVIOUS
  <2>4. /\ next \in Seq((SUBSET Row) \cup {rows}) /\ Len(next) = n + 1
        /\ \A i \in 1 .. n : next[i] = frames[i]
        /\ next[n + 1] = rows
    BY <2>1, <2>2, <2>3, AppendProperties
  <2>5. DOMAIN next = 1 .. n + 1 /\ n + 1 \in 1 .. n + 1
    BY <2>4, LenProperties
  <2>6. Written(rows) = next
    BY <1>2, <2>3 DEF Written
  <2>7. \A list, row : row \in Gathered(list) <=> \E i \in DOMAIN list : row \in list[i]
    BY DEF Gathered
  <2>8. ASSUME NEW row \in Gathered(next)
        PROVE  row \in Gathered(frames) \cup rows
    <3>1. PICK i \in 1 .. n + 1 : row \in next[i]
      BY <2>5, <2>7
    <3>2. CASE i \in 1 .. n
      BY <2>1, <2>2, <2>4, <2>7, <3>1, <3>2
    <3>3. CASE i = n + 1
      BY <2>4, <3>1, <3>3
    <3> QED BY <3>1, <3>2, <3>3
  <2>9. ASSUME NEW row \in Gathered(frames)
        PROVE  row \in Gathered(next)
    <3>1. PICK i \in 1 .. n : row \in frames[i]
      BY <2>1, <2>2, <2>7
    <3>2. i \in 1 .. n + 1 /\ next[i] = frames[i]
      BY <2>4
    <3> QED BY <2>5, <2>7, <3>1, <3>2
  <2>10. ASSUME NEW row \in rows
         PROVE  row \in Gathered(next)
    BY <2>4, <2>5, <2>7
  <2> QED BY <2>6, <2>8, <2>9, <2>10
<1> QED BY <1>1, <1>2

\* A page adds as many rows as records, and none of them is there.
LEMMA PageCounted ==
    ASSUME HarvestShape, CountInv, HarvestPage, cell.check, TrailInv
    PROVE  CountInv'
<1> DEFINE first == Head(pending)
           all == Matches(first)
           answer == DecodedPage(first)
           ids == After(all, position)
           rows == Rows(ids, first)
<1>1. /\ cell.decoder = "seek" /\ cell.mode = "snapshot"
  BY CellSound DEF HarvestShape
<1>2. answer.records = ids /\ answer.next = IF ids = {} THEN Done ELSE Last(ids)
  BY <1>1 DEF DecodedPage, SeekPage
<1>3. /\ at = "fetch" /\ at' = "fetch" /\ pending # <<>>
      /\ frames' = Written(rows) /\ harvested' = harvested + Cardinality(ids)
      /\ IF answer.next = Done
         THEN pending' = Tail(pending) /\ position' = 0
         ELSE pending' = pending /\ position' = answer.next
      /\ cell' = cell
  BY <1>1, <1>2 DEF HarvestPage, Processed, Windowed, endpoint
<1>4. /\ IsFiniteSet(Gathered(frames)) /\ Cardinality(Gathered(frames)) = harvested
      /\ Len(pending) <= 1
      /\ \A row \in Gathered(frames) : row.record <= position
  BY <1>3 DEF CountInv
<1>5. /\ all \in SUBSET (1 .. MaxId) /\ MaxId \in Nat /\ position \in Nat
      /\ \A i \in ids : i \in all /\ i > position
  BY AnswerSets
<1> HIDE DEF all, answer
<1>6. ids \in SUBSET (1 .. MaxId) /\ IsFiniteSet(ids) /\ Cardinality(ids) \in Nat
  <2>1. ids \in SUBSET (1 .. MaxId)
    BY <1>5
  <2>2. IsFiniteSet(1 .. MaxId)
    BY <1>5, FS_Interval
  <2> QED BY <2>1, <2>2, FS_Subset, FS_CardinalityType
<1> HIDE DEF ids
<1>7. IsFiniteSet(rows) /\ Cardinality(rows) = Cardinality(ids)
  BY <1>6, RowsCounted
<1>8. \A row \in rows : row.record \in ids
  BY DEF Rows
<1> HIDE DEF rows, first
<1>9. Gathered(frames) \cap rows = {}
  <2>1. ASSUME NEW row \in Gathered(frames), row \in rows
        PROVE  FALSE
    <3>1. row.record <= position /\ row.record \in ids
      BY <1>4, <1>8, <2>1
    <3>2. PICK i : i = row.record
      OBVIOUS
    <3>3. i \in ids /\ i <= position
      BY <3>1, <3>2
    <3>4. i \in Nat /\ i > position
      BY <1>5, <1>6, <3>3
    <3> QED BY <1>5, <3>3, <3>4
  <2> QED BY <2>1
<1>10. Gathered(frames)' = Gathered(frames) \cup rows
  <2>1. Gathered(Written(rows)) = Gathered(frames) \cup rows
    BY GatheredAppended DEF HarvestShape
  <2> QED BY <1>3, <2>1 DEF Gathered
<1>11. IsFiniteSet(Gathered(frames)') /\ Cardinality(Gathered(frames)') = harvested'
  <2> DEFINE before == Gathered(frames)
  <2>1. /\ IsFiniteSet(before \cup rows)
        /\ Cardinality(before \cup rows)
              = Cardinality(before) + Cardinality(rows) - Cardinality(before \cap rows)
    BY <1>4, <1>7, FS_Union
  <2>2. Cardinality(before \cap rows) = 0
    BY <1>9, FS_EmptySet
  <2>3. Cardinality(before) \in Nat
    BY <1>4, FS_CardinalityType
  <2> HIDE DEF before
  <2> QED BY <1>3, <1>4, <1>6, <1>7, <1>10, <2>1, <2>2, <2>3 DEF before
<1>12. /\ Len(pending') <= 1
       /\ pending' # <<>> => \A row \in Gathered(frames)' : row.record <= position'
  <2>1. pending \in Seq(UnitChains) /\ Len(pending) \in Nat
    BY LenProperties DEF HarvestShape
  <2>2. CASE answer.next = Done
    <3>1. pending' = Tail(pending) /\ Len(Tail(pending)) = Len(pending) - 1
          /\ Tail(pending) \in Seq(UnitChains)
      BY <1>3, <2>1, <2>2, HeadTailProperties
    <3>2. Len(pending) = 1
      <4>1. Len(pending) # 0
        BY <1>3, <2>1, EmptySeq
      <4>2. PICK n \in Nat : n = Len(pending)
        BY <2>1
      <4>3. n <= 1
        BY <1>4, <4>2
      <4> QED BY <4>1, <4>2, <4>3
    <3> QED BY <3>1, <3>2, EmptySeq
  <2>3. CASE answer.next # Done
    <3>1. ids # {} /\ answer.next = Last(ids) /\ position' = Last(ids)
      BY <1>2, <1>3, <2>3
    <3>2. Last(ids) \in ids /\ \A i \in ids : i <= Last(ids)
      BY <1>5, <1>6, <3>1, LastIsLast
    <3>3. PICK last \in Nat : last = Last(ids) /\ last > position
      <4>1. PICK last : last = Last(ids)
        OBVIOUS
      <4>2. last \in ids
        BY <3>2, <4>1
      <4>3. last \in Nat /\ last > position
        BY <1>5, <1>6, <4>2
      <4> QED BY <4>1, <4>3
    <3>4. ASSUME NEW row \in Gathered(frames)
          PROVE  row.record <= last
      <4>1. row \in Row
        <5>1. \A i \in DOMAIN frames : frames[i] \in SUBSET Row
          BY ElementOfSeq, LenProperties DEF HarvestShape, Frames
        <5> QED BY <5>1 DEF Gathered
      <4>2. row.record \in Nat /\ row.record <= position
        BY <1>4, <4>1 DEF Row, Records
      <4> QED BY <1>5, <3>3, <4>2
    <3>5. \A row \in rows : row.record <= last
      BY <1>8, <3>2, <3>3
    <3> QED BY <1>3, <1>4, <1>10, <2>3, <3>1, <3>3, <3>4, <3>5
  <2> QED BY <2>2, <2>3
<1> QED BY <1>3, <1>11, <1>12 DEF CountInv, CheckedListingComplete

LEMMA HarvestNextCounts ==
    ASSUME TrailInv, HarvestShape, CountInv, [HarvestNext]_harvestVars
    PROVE  CountInv'
<1>1. cell' = cell
  BY DEF HarvestNext, RunStep, StartHarvest, HarvestPage, FetchLeaf, HalveWindow,
         TooDense, EndWalk, CheckCount, Mismatch, Land, CompleteRun, Project, Fault,
         ProjectionFault, Edit, Failed, harvestVars, endpoint
<1> SUFFICES ASSUME cell.check PROVE CountInv'
  BY <1>1 DEF CountInv
<1>2. cell.kind = "single"
  BY CellSound DEF HarvestShape
<1>3. CASE HarvestPage
  BY <1>3, PageCounted
<1>4. CASE StartHarvest
  <2>1. /\ at' = "fetch" /\ pending' = <<Chain(Owners, Window)>>
        /\ frames' = <<>> /\ harvested' = 0
    BY <1>2, <1>4 DEF StartHarvest, Chains
  <2>2. Gathered(frames)' = {} /\ Len(pending') = 1
    BY <2>1 DEF Gathered
  <2> QED BY <2>1, <2>2, FS_EmptySet DEF CountInv, CheckedListingComplete
<1>5. CASE EndWalk
  <2>1. /\ at = "fetch" /\ at' = "check"
        /\ UNCHANGED <<pending, position, frames, harvested>>
    BY <1>5 DEF EndWalk
  <2> QED BY <2>1 DEF CountInv, CheckedListingComplete, Gathered
<1>6. CASE CheckCount
  <2>1. /\ at = "check" /\ at' = "land" /\ harvested = Cardinality(listed)
        /\ UNCHANGED <<pending, position, frames, harvested, listed>>
    BY <1>6 DEF CheckCount, provider
  <2> QED BY <2>1 DEF CountInv, CheckedListingComplete, Gathered
<1>7. CASE Land
  <2>1. /\ at = "land" /\ at' = "complete"
        /\ file'.frames = Deduplicated(frames) /\ listed' = listed
    BY <1>7 DEF Land, provider
  <2>2. Gathered(Deduplicated(frames)) = Gathered(frames)
    <3>1. CASE DropDuplicates
      <4>1. PICK together : together = UNION {frames[i] : i \in DOMAIN frames}
        OBVIOUS
      <4>2. Deduplicated(frames) = <<together>>
        BY <3>1, <4>1 DEF Deduplicated
      <4>3. \A row : row \in Gathered(<<together>>) <=> row \in together
        BY DEF Gathered
      <4> QED BY <4>1, <4>2, <4>3 DEF Gathered
    <3>2. CASE ~DropDuplicates
      BY <3>2 DEF Deduplicated
    <3> QED BY <3>1, <3>2
  <2>3. Cardinality(Gathered(frames)) = Cardinality(listed)
    BY <2>1 DEF CountInv
  <2>4. Cardinality(UNION {file'.frames[i] : i \in DOMAIN file'.frames})
            = Cardinality(listed')
    <3>1. Cardinality(Gathered(file'.frames)) = Cardinality(listed')
      BY <2>1, <2>2, <2>3
    <3> QED BY <3>1 DEF Gathered
  <2> QED BY <2>1, <2>4 DEF CountInv, CheckedListingComplete
<1>8. CASE Edit
  <2>1. /\ at \in {"fetch", "check"}
        /\ UNCHANGED <<at, pending, position, frames, harvested>>
    BY <1>8 DEF Edit, harvest
  <2> QED BY <2>1 DEF CountInv, CheckedListingComplete, Gathered
<1>9. CASE CompleteRun
  <2>1. /\ at = "complete" /\ at' = "project" /\ UNCHANGED <<run, file, listed, cell>>
    BY <1>9 DEF CompleteRun, endpoint, provider
  <2> QED BY <2>1 DEF CountInv, CheckedListingComplete
<1>10. CASE Project \/ ProjectionFault \/ Mismatch \/ Fault
  <2>1. at' = "idle"
    BY <1>10 DEF Project, ProjectionFault, Mismatch, Fault, Failed, StopHarvest
  <2> QED BY <2>1 DEF CountInv, CheckedListingComplete
<1>11. CASE UNCHANGED harvestVars
  <2>1. /\ UNCHANGED <<at, run, pending, position, frames, harvested, file, listed, cell>>
    BY <1>11 DEF harvestVars, harvest, provider, endpoint
  <2> QED BY <2>1 DEF CountInv, CheckedListingComplete, Gathered
<1>12. ~FetchLeaf /\ ~HalveWindow /\ ~TooDense
  BY <1>2 DEF FetchLeaf, HalveWindow, TooDense
<1> QED
  BY <1>3, <1>4, <1>5, <1>6, <1>7, <1>8, <1>9, <1>10, <1>11, <1>12
  DEF HarvestNext, RunStep

\* A listing with a completeness check never lands short of the provider's own
\* count, nor over it: the rows it holds are counted one to a record read, so a
\* record slipped in behind the walk, or out of it, fails the run.
THEOREM CheckedComplete == Spec => []CheckedListingComplete
<1>1. Init => CountInv
  BY DEF Init, HarvestInit, CountInv, CheckedListingComplete
<1>2. [Next]_vars => [HarvestNext]_harvestVars
  BY DEF Next, RunFeed, RunHarvest, vars
<1>3. TrailInv /\ HarvestShape /\ CountInv /\ [HarvestNext]_harvestVars => CountInv'
  BY HarvestNextCounts
<1>4. CountInv => CheckedListingComplete
  BY DEF CountInv, CheckedListingComplete
<1> QED BY <1>1, <1>2, <1>3, <1>4, HarvestInvariance, PTL DEF Spec
=============================================================================
