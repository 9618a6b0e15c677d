------------------------ MODULE WatermarkSyncProofs ------------------------
(***************************************************************************)
(* What WatermarkSync's runs check on a few days and two workers, proved   *)
(* for every number of workers, days, unit widths and faults: first the    *)
(* coverage the watermark vouches for, then the claim queue.               *)
(***************************************************************************)
EXTENDS WatermarkSync, TLAPS

-----------------------------------------------------------------------------
(* The inductive invariant. *)

\* While no watermark is stored, nothing queued, resolved or in flight lies
\* before the cold-start day: the lookback applies to a watermark only.
Anchored ==
    /\ watermark # None => watermark >= Anchor
    /\ watermark = None =>
         /\ frontier # None => frontier >= Anchor
         /\ residual.start >= Anchor
         /\ \A k \in DOMAIN units : k.start >= Anchor
         /\ \A w \in Workers :
              /\ worker[w].unit.start >= Anchor
              /\ worker[w].observed # None => worker[w].observed >= Anchor

\* A done row's days are all written, and its observation is one of them.
DoneLanded ==
    \A k \in Done(units) :
        /\ DaysOf(k) \subseteq landed
        /\ units[k].observed \in DaysOf(k) \cup {None}

\* A worker that holds a unit holds a claimed row, and no other worker does.
HeldClaimed ==
    /\ \A w \in Workers :
          worker[w].pc \in Held =>
              /\ worker[w].unit \in DOMAIN units
              /\ units[worker[w].unit].status = "claimed"
    /\ \A v, w \in Workers :
          (v # w /\ worker[v].pc \in Held /\ worker[w].pc \in Held)
              => worker[v].unit # worker[w].unit

\* Past its write a worker's unit is written and its fold lies in the unit; a
\* prefix observation in hand is true.
WorkTrue ==
    \A w \in Workers :
        /\ worker[w].pc \in {"complete", "mark"} =>
              /\ DaysOf(worker[w].unit) \subseteq landed
              /\ worker[w].observed \in DaysOf(worker[w].unit) \cup {None}
        /\ worker[w].pc = "advance" => Anchor .. worker[w].observed \subseteq landed

\* Outside a drive no worker runs.
WorkersOff == Driving \/ \A w \in Workers : worker[w].pc = "off"

\* While planning, the residual is a window and everything before it is
\* accounted for.
PlanAccounted ==
    phase \in {"release", "enqueue"} =>
        residual \in Window /\ Accounted(residual.start)

IInv ==
    /\ TypeOK
    /\ Anchored
    /\ DoneLanded
    /\ HeldClaimed
    /\ WorkTrue
    /\ WorkersOff
    /\ PlanAccounted
    /\ WatermarkTruth
    /\ NoSilentHole

-----------------------------------------------------------------------------
(* Lemmas. *)

LEMMA PrefixObservationTrue ==
    ASSUME TypeOK, DoneLanded, NoSilentHole, NEW o \in PrefixObservation(units)
    PROVE  /\ o \in Day
           /\ Anchor .. o \subseteq landed
           /\ \E k \in Done(units) : o \in DaysOf(k)
<1>1. PICK k \in Done(units) : /\ units[k].observed = o
                               /\ o # None
                               /\ \A g \in NotDone(units) : k.start < g.start
  BY DEF PrefixObservation, Prefix
<1>2. k \in Window /\ k.start \in Int /\ k.end \in Int /\ k.start > None
  BY <1>1 DEF TypeOK, Done, Window, Day
<1>3. o \in DaysOf(k) /\ DaysOf(k) \subseteq landed
  BY <1>1 DEF DoneLanded
<1>4. o \in Day
  BY <1>1, <1>2, <1>3, SyncAssumption DEF DaysOf, Day, None
<1>5. ASSUME NEW d \in Anchor .. o, d \notin landed PROVE FALSE
  <2>1. d \in Anchor .. (k.end - 1)
    BY <1>2, <1>3, <1>4, SyncAssumption DEF DaysOf, Day
  <2>2. PICK g \in NotDone(units) : d \in DaysOf(g)
    BY <1>1, <1>5, <2>1 DEF NoSilentHole, Accounted, Done
  <2>3. k.start < g.start /\ g.start \in Int /\ g.end \in Int
    BY <1>1 DEF TypeOK, NotDone, Window, Day
  <2>4. d \in DaysOf(k)
    BY <1>2, <1>3, <1>4, <2>1, <2>2, <2>3, SyncAssumption DEF DaysOf, Day
  <2> QED BY <1>3, <1>5, <2>4
<1> QED BY <1>1, <1>3, <1>4, <1>5

\* An update of rows that keeps which ones are done, and what they observed,
\* keeps what is known of them.
LEMMA SameDoneRows ==
    ASSUME DoneLanded, NoSilentHole, UNCHANGED <<landed, frontier>>,
           DOMAIN units' = DOMAIN units,
           NotDone(units') = NotDone(units),
           \A k \in Done(units) : units'[k].observed = units[k].observed
    PROVE  DoneLanded' /\ NoSilentHole'
<1>1. Done(units') = Done(units)
  BY DEF Done
<1>2. DoneLanded'
  BY <1>1 DEF DoneLanded
<1>3. ASSUME NEW h, Accounted(h) PROVE Accounted(h)'
  BY <1>3 DEF Accounted
<1>4. NoSilentHole'
  BY <1>3 DEF NoSilentHole
<1> QED BY <1>2, <1>4

\* The division facts behind the tiling.
LEMMA TileStart ==
    ASSUME NEW a \in Nat, NEW n \in Nat \ {0}
    PROVE  /\ a % n \in 0 .. (n - 1)
           /\ a - (a % n) \in 0 .. a
           /\ (a - (a % n)) % n = 0
<1>1. /\ a % n \in 0 .. (n - 1)
      /\ a = n * (a \div n) + (a % n)
      /\ (a \div n) \in Nat
  OBVIOUS
<1>2. (n * (a \div n)) % n = 0
  BY <1>1
<1> QED BY <1>1, <1>2

\* The tiles are windows inside the window they tile, and cover its days.
LEMMA TilesTile ==
    ASSUME NEW w \in Window, NEW n \in Nat \ {0}
    PROVE  /\ \A k \in Tiles(w, n) : /\ k \in Window
                                     /\ k.start >= w.start /\ k.end <= w.end
           /\ \A d \in DaysOf(w) : \E k \in Tiles(w, n) : d \in DaysOf(k)
<1>0. w.start \in Int /\ w.end \in Int /\ w.start < w.end /\ w.start > None
      /\ None \in Int
  BY SyncAssumption DEF Window, Day, None
<1>1. ASSUME NEW k \in Tiles(w, n)
      PROVE  k \in Window /\ k.start >= w.start /\ k.end <= w.end
  BY <1>0 DEF Tiles, DaysOf, Window, Day
<1>2. ASSUME NEW d \in DaysOf(w)
      PROVE  \E k \in Tiles(w, n) : d \in DaysOf(k)
  <2> DEFINE a == d - w.start
             s == w.start + (a - (a % n))
             k == [start |-> s,
                   end |-> IF s + n < w.end THEN s + n ELSE w.end]
  <2>1. a \in Nat /\ d \in w.start .. (w.end - 1)
    BY <1>0 DEF DaysOf
  <2>2. /\ a % n \in 0 .. (n - 1)
        /\ a - (a % n) \in 0 .. a
        /\ (a - (a % n)) % n = 0
    BY <2>1, TileStart
  <2>3. s \in DaysOf(w) /\ (s - w.start) % n = 0
    <3>1. s - w.start = a - (a % n)
      BY <1>0, <2>1, <2>2
    <3> QED BY <1>0, <2>1, <2>2, <3>1 DEF DaysOf
  <2>4. k \in Tiles(w, n)
    BY <2>3 DEF Tiles
  <2>5. d \in DaysOf(k)
    BY <1>0, <2>1, <2>2 DEF DaysOf
  <2> QED BY <2>4, <2>5
<1> QED BY <1>1, <1>2

-----------------------------------------------------------------------------
(* Every step of the run preserves the invariant. *)

LEMMA InitIInv == Init => IInv
<1> SUFFICES ASSUME Init PROVE IInv
  OBVIOUS
<1> USE SyncAssumption DEF Init, Free
<1>1. TypeOK
  <2>1. worker \in [Workers -> [pc : Points, unit : Window \cup {NoWindow},
                                observed : Day \cup {None}]]
    BY DEF Points
  <2>2. units \in [DOMAIN units -> UnitRow] /\ DOMAIN units = {}
    OBVIOUS
  <2>3. /\ watermark = None /\ frontier = None /\ phase \in Phases
        /\ today \in Anchor .. LastDay /\ chunk \in ChunkDays
        /\ residual = NoWindow /\ stop = FALSE /\ failures = {}
        /\ landed = {} /\ refetched = {} /\ faults \in 0 .. MaxFaults
    BY DEF Phases
  <2> HIDE DEF Init
  <2> QED BY <2>1, <2>2, <2>3 DEF TypeOK
<1>2. Anchored /\ DoneLanded
  BY DEF Anchored, DoneLanded, NoWindow, Done, NotDone
<1>3. HeldClaimed /\ WorkTrue /\ WorkersOff /\ PlanAccounted
  BY DEF HeldClaimed, WorkTrue, WorkersOff, PlanAccounted, Held
<1>4. WatermarkTruth /\ NoSilentHole
  BY DEF WatermarkTruth, NoSilentHole, Accounted, None
<1> QED BY <1>1, <1>2, <1>3, <1>4 DEF IInv

LEMMA CheckStopIInv ==
    ASSUME IInv, NEW w \in Workers, CheckStop(w)
    PROVE  IInv'
<1> USE SyncAssumption DEF IInv, CheckStop, At, LetGo, Free, stateDB, mainUnchanged, history
<1>1. TypeOK'
  BY DEF TypeOK, Phases, Points, NoWindow
<1>2. Anchored'
  BY DEF Anchored, TypeOK, NoWindow
<1>3. DoneLanded'
  BY DEF DoneLanded
<1>4. HeldClaimed'
  BY DEF HeldClaimed, TypeOK, Held
<1>5. WorkTrue'
  BY DEF WorkTrue, TypeOK
<1>6. WorkersOff'
  BY DEF WorkersOff, TypeOK, Driving
<1>7. PlanAccounted'
  BY DEF PlanAccounted, Accounted
<1>8. WatermarkTruth'
  BY DEF WatermarkTruth
<1>9. NoSilentHole'
  BY DEF NoSilentHole, Accounted
<1> QED BY <1>1, <1>2, <1>3, <1>4, <1>5, <1>6, <1>7, <1>8, <1>9

LEMMA ClaimNextIInv ==
    ASSUME IInv, NEW w \in Workers, ClaimNext(w)
    PROVE  IInv'
<1> USE SyncAssumption DEF IInv, ClaimNext, At, LetGo, Free, stateDB, mainUnchanged, history
<1>a. \/ UNCHANGED units
      \/ \E k \in DOMAIN units : /\ units[k].status \in {"pending", "failed"}
                                 /\ units' = [units EXCEPT ![k].status = "claimed"]
  BY DEF NextClaims, Claimable
<1>b. units' \in [DOMAIN units -> UnitRow]
  BY <1>a DEF TypeOK, UnitRow, Status
<1>c. /\ NotDone(units') = NotDone(units)
      /\ \A k \in DOMAIN units : units'[k].observed = units[k].observed
  <2>1. \A k \in DOMAIN units :
           /\ units'[k].observed = units[k].observed
           /\ units'[k].status = "done" <=> units[k].status = "done"
    BY <1>a DEF TypeOK, UnitRow
  <2> QED BY <1>a, <2>1 DEF NotDone
<1>d. NextClaims(units) \subseteq Window
  BY DEF NextClaims, Claimable, TypeOK
<1>e. worker' \in [Workers -> [pc : Points, unit : Window \cup {NoWindow},
                               observed : Day \cup {None}]]
  BY <1>d DEF Points, TypeOK
<1>f. \/ worker' = [worker EXCEPT ![w] = Free("off")]
      \/ \E k \in DOMAIN units :
            worker' = [worker EXCEPT ![w] = [pc |-> "drive", unit |-> k,
                                             observed |-> None]]
  BY DEF NextClaims, Claimable
<1>1. TypeOK'
  BY <1>b, <1>e DEF TypeOK, Points, NoWindow
<1>2. Anchored'
  <2>1. DOMAIN units' = DOMAIN units /\ UNCHANGED <<watermark, frontier, residual>>
    BY <1>b
  <2> HIDE DEF ClaimNext
  <2> QED BY <1>f, <2>1 DEF Anchored, TypeOK, NoWindow
<1>3. DoneLanded'
  BY <1>b, <1>c, SameDoneRows DEF Done
<1>4. HeldClaimed'
<2>1. ASSUME Claimable(units) = {}, LetGo(w, "off"), UNCHANGED units
       PROVE  HeldClaimed'
    BY <2>1 DEF HeldClaimed, TypeOK, Held
  <2>2. ASSUME NEW k \in NextClaims(units),
               units' = [units EXCEPT ![k].status = "claimed"],
               worker' = [worker EXCEPT ![w] = [pc |-> "drive", unit |-> k,
                                                observed |-> None]]
        PROVE  HeldClaimed'
    <3>1. k \in DOMAIN units /\ units[k].status # "claimed"
      BY <2>2 DEF NextClaims, Claimable
    <3>2. units'[k].status = "claimed"
      BY <3>1, <2>2 DEF TypeOK, UnitRow
    <3>3. worker'[w].unit = k /\ \A v \in Workers \ {w} : worker'[v] = worker[v]
      BY <2>2 DEF TypeOK
    <3>4. \A v \in Workers \ {w} : worker[v].pc \in Held => worker[v].unit # k
      BY <3>1 DEF HeldClaimed
    <3>5. \A j \in DOMAIN units \ {k} : units'[j] = units[j]
      BY <2>2 DEF TypeOK
    <3> QED BY <2>2, <3>1, <3>2, <3>3, <3>4, <3>5 DEF HeldClaimed
  <2> QED BY <2>1, <2>2
<1>5. WorkTrue'
  BY DEF WorkTrue, TypeOK
<1>6. WorkersOff'
  BY DEF WorkersOff, TypeOK, Driving
<1>7. PlanAccounted'
  BY DEF PlanAccounted, Driving
<1>8. WatermarkTruth'
  BY DEF WatermarkTruth
<1>9. NoSilentHole'
  BY <1>b, <1>c, SameDoneRows DEF Done
<1> QED BY <1>1, <1>2, <1>3, <1>4, <1>5, <1>6, <1>7, <1>8, <1>9

LEMMA WriteWindowIInv ==
    ASSUME IInv, NEW w \in Workers, WriteWindow(w)
    PROVE  IInv'
<1> USE SyncAssumption DEF IInv, WriteWindow, At, Goto, stateDB, mainUnchanged, history
<1>a. worker[w].unit \in Window /\ DaysOf(worker[w].unit) \subseteq Day
  <2>1. worker[w].unit \in Window
    BY DEF HeldClaimed, TypeOK, Held
  <2> QED BY <2>1 DEF DaysOf, Window, Day, None
<1>b. worker' \in [Workers -> [pc : Points, unit : Window \cup {NoWindow},
                               observed : Day \cup {None}]]
  <2>1. PICK o \in DaysOf(worker[w].unit) \cup {None} :
           worker' = [worker EXCEPT ![w].pc = "complete", ![w].observed = o]
    OBVIOUS
  <2>2. o \in Day \cup {None}
    BY <1>a
  <2> HIDE DEF WriteWindow
  <2> QED BY <2>1, <2>2 DEF Points, TypeOK
<1>c. landed' \subseteq Day /\ refetched' \subseteq landed'
  BY <1>a DEF TypeOK
<1>1. TypeOK'
  BY <1>b, <1>c DEF TypeOK
<1>2. Anchored'
  BY <1>a DEF Anchored, TypeOK, NoWindow
<1>3. DoneLanded'
  BY DEF DoneLanded
<1>4. HeldClaimed'
  BY DEF HeldClaimed, TypeOK, Held
<1>5. WorkTrue'
  BY DEF WorkTrue, TypeOK
<1>6. WorkersOff'
  BY DEF WorkersOff, TypeOK, Driving
<1>7. PlanAccounted'
  BY DEF PlanAccounted, Driving
<1>8. WatermarkTruth'
  BY DEF WatermarkTruth
<1>9. NoSilentHole'
  BY DEF NoSilentHole, Accounted
<1> QED BY <1>1, <1>2, <1>3, <1>4, <1>5, <1>6, <1>7, <1>8, <1>9

LEMMA CompleteRunIInv ==
    ASSUME IInv, NEW w \in Workers, CompleteRun(w)
    PROVE  IInv'
<1> USE SyncAssumption DEF IInv, CompleteRun, At, Goto, stateDB, mainUnchanged, history
<1>a. worker[w].unit \in DOMAIN units /\ worker[w].unit \in Window
  BY DEF HeldClaimed, TypeOK, Held
<1>1. TypeOK'
  BY <1>a DEF TypeOK, Points, Window
<1>2. Anchored'
  BY <1>a DEF Anchored, TypeOK, Window, Day
<1>3. DoneLanded'
  BY DEF DoneLanded
<1>4. HeldClaimed'
  BY DEF HeldClaimed, TypeOK, Held
<1>5. WorkTrue'
  BY DEF WorkTrue, TypeOK
<1>6. WorkersOff'
  BY DEF WorkersOff, TypeOK, Driving
<1>7. PlanAccounted'
  BY DEF PlanAccounted, Driving
<1>8. WatermarkTruth'
  BY DEF WatermarkTruth
<1>9. NoSilentHole'
  BY <1>a DEF NoSilentHole, Accounted
<1> QED BY <1>1, <1>2, <1>3, <1>4, <1>5, <1>6, <1>7, <1>8, <1>9

LEMMA MarkDoneIInv ==
    ASSUME IInv, NEW w \in Workers, MarkDone(w)
    PROVE  IInv'
<1> USE SyncAssumption DEF IInv, MarkDone, At, Goto, stateDB, mainUnchanged, history
<1> DEFINE k == worker[w].unit
<1>a. units' \in [DOMAIN units -> UnitRow]
  BY DEF TypeOK, UnitRow, Status
<1>b. /\ k \in DOMAIN units
      /\ units'[k].status = "done" /\ units'[k].observed = worker[w].observed
      /\ \A j \in DOMAIN units \ {k} : units'[j] = units[j]
  BY DEF TypeOK, UnitRow
<1>c. NotDone(units') = NotDone(units) \ {k}
  BY <1>a, <1>b DEF NotDone, TypeOK
<1>d. DaysOf(k) \subseteq landed /\ worker[w].observed \in DaysOf(k) \cup {None}
  BY DEF WorkTrue
<1>e. ASSUME NEW h, Accounted(h) PROVE Accounted(h)'
  BY <1>c, <1>d, <1>e DEF Accounted
<1>1. TypeOK'
  BY <1>a DEF TypeOK, Points
<1>2. Anchored'
  BY DEF Anchored, TypeOK, NoWindow
<1>3. DoneLanded'
  BY <1>a, <1>b, <1>d DEF DoneLanded, Done, NotDone
<1>4. HeldClaimed'
  BY DEF HeldClaimed, TypeOK, Held
<1>5. WorkTrue'
  BY DEF WorkTrue, TypeOK
<1>6. WorkersOff'
  BY DEF WorkersOff, TypeOK, Driving
<1>7. PlanAccounted'
  BY DEF PlanAccounted, Driving
<1>8. WatermarkTruth'
  BY DEF WatermarkTruth
<1>9. NoSilentHole'
  BY <1>a, <1>e DEF NoSilentHole, Accounted
<1> QED BY <1>1, <1>2, <1>3, <1>4, <1>5, <1>6, <1>7, <1>8, <1>9

LEMMA ReadPrefixIInv ==
    ASSUME IInv, NEW w \in Workers, ReadPrefix(w)
    PROVE  IInv'
<1> USE SyncAssumption DEF IInv, ReadPrefix, At, LetGo, Free, stateDB, mainUnchanged, history
<1>a. ASSUME NEW o \in PrefixObservation(units), watermark = None
      PROVE  o >= Anchor
  <2>1. PICK k \in Done(units) : o \in DaysOf(k)
    BY PrefixObservationTrue
  <2>2. k \in DOMAIN units /\ k.start \in Int
    BY <2>1 DEF Done, TypeOK, Window, Day
  <2> QED BY <1>a, <2>1, <2>2 DEF Anchored, DaysOf
<1>1. TypeOK'
  BY PrefixObservationTrue DEF TypeOK, Phases, Points, NoWindow
<1>2. Anchored'
  BY <1>a DEF Anchored, TypeOK, NoWindow
<1>3. DoneLanded'
  BY DEF DoneLanded
<1>4. HeldClaimed'
  BY DEF HeldClaimed, TypeOK, Held
<1>5. WorkTrue'
  BY PrefixObservationTrue DEF WorkTrue, TypeOK
<1>6. WorkersOff'
  BY DEF WorkersOff, TypeOK, Driving
<1>7. PlanAccounted'
  BY DEF PlanAccounted, Accounted
<1>8. WatermarkTruth'
  BY DEF WatermarkTruth
<1>9. NoSilentHole'
  BY DEF NoSilentHole, Accounted
<1> QED BY <1>1, <1>2, <1>3, <1>4, <1>5, <1>6, <1>7, <1>8, <1>9

LEMMA AdvanceForwardIInv ==
    ASSUME IInv, NEW w \in Workers, AdvanceForward(w)
    PROVE  IInv'
<1> USE SyncAssumption DEF IInv, AdvanceForward, At, LetGo, Free, stateDB, mainUnchanged, history
<1>1. TypeOK'
  BY DEF TypeOK, Phases, Points, NoWindow
<1>2. Anchored'
  BY DEF Anchored, TypeOK, NoWindow, Day, None
<1>3. DoneLanded'
  BY DEF DoneLanded
<1>4. HeldClaimed'
  BY DEF HeldClaimed, TypeOK, Held
<1>5. WorkTrue'
  BY DEF WorkTrue, TypeOK
<1>6. WorkersOff'
  BY DEF WorkersOff, TypeOK, Driving
<1>7. PlanAccounted'
  BY DEF PlanAccounted, Accounted
<1>8. WatermarkTruth'
  BY DEF WatermarkTruth, WorkTrue
<1>9. NoSilentHole'
  BY DEF NoSilentHole, Accounted
<1> QED BY <1>1, <1>2, <1>3, <1>4, <1>5, <1>6, <1>7, <1>8, <1>9

LEMMA FailUnitIInv ==
    ASSUME IInv, NEW w \in Workers, FailUnit(w)
    PROVE  IInv'
<1> USE SyncAssumption DEF IInv, FailUnit, CanFault, At, Goto, stateDB, mainUnchanged, history
<1>1. TypeOK'
  BY DEF TypeOK, Phases, Points, NoWindow
<1>2. Anchored'
  BY DEF Anchored, TypeOK, NoWindow
<1>3. DoneLanded'
  BY DEF DoneLanded
<1>4. HeldClaimed'
  BY DEF HeldClaimed, TypeOK, Held
<1>5. WorkTrue'
  BY DEF WorkTrue, TypeOK
<1>6. WorkersOff'
  BY DEF WorkersOff, TypeOK, Driving
<1>7. PlanAccounted'
  BY DEF PlanAccounted, Accounted
<1>8. WatermarkTruth'
  BY DEF WatermarkTruth
<1>9. NoSilentHole'
  BY DEF NoSilentHole, Accounted
<1> QED BY <1>1, <1>2, <1>3, <1>4, <1>5, <1>6, <1>7, <1>8, <1>9

LEMMA StoreErrorIInv ==
    ASSUME IInv, NEW w \in Workers, StoreError(w)
    PROVE  IInv'
<1> USE SyncAssumption DEF IInv, StoreError, CanFault, At, LetGo, Free, stateDB, mainUnchanged, history
<1>1. TypeOK'
  BY DEF TypeOK, Phases, Points, NoWindow
<1>2. Anchored'
  BY DEF Anchored, TypeOK, NoWindow
<1>3. DoneLanded'
  BY DEF DoneLanded
<1>4. HeldClaimed'
  BY DEF HeldClaimed, TypeOK, Held
<1>5. WorkTrue'
  BY DEF WorkTrue, TypeOK
<1>6. WorkersOff'
  BY DEF WorkersOff, TypeOK, Driving
<1>7. PlanAccounted'
  BY DEF PlanAccounted, Accounted
<1>8. WatermarkTruth'
  BY DEF WatermarkTruth
<1>9. NoSilentHole'
  BY DEF NoSilentHole, Accounted
<1> QED BY <1>1, <1>2, <1>3, <1>4, <1>5, <1>6, <1>7, <1>8, <1>9

LEMMA MarkFailedIInv ==
    ASSUME IInv, NEW w \in Workers, MarkFailed(w)
    PROVE  IInv'
<1> USE SyncAssumption DEF IInv, MarkFailed, CanFault, At, LetGo, Free, stateDB, mainUnchanged, history
<1>a. /\ worker[w].unit \in DOMAIN units
      /\ units[worker[w].unit].status = "claimed"
  BY DEF HeldClaimed, Held
<1>b. units' \in [DOMAIN units -> UnitRow]
  BY <1>a DEF TypeOK, UnitRow, Status
<1>c. /\ NotDone(units') = NotDone(units)
      /\ \A k \in DOMAIN units : units'[k].observed = units[k].observed
  <2>1. \A k \in DOMAIN units :
           /\ units'[k].observed = units[k].observed
           /\ units'[k].status = "done" <=> units[k].status = "done"
    BY <1>a DEF TypeOK, UnitRow
  <2> QED BY <1>a, <2>1 DEF NotDone
<1>1. TypeOK'
  BY <1>b DEF TypeOK, Points, NoWindow
<1>2. Anchored'
  BY DEF Anchored, TypeOK, NoWindow
<1>3. DoneLanded'
  BY <1>b, <1>c, SameDoneRows DEF Done
<1>4. HeldClaimed'
  BY DEF HeldClaimed, TypeOK, Held
<1>5. WorkTrue'
  BY DEF WorkTrue, TypeOK
<1>6. WorkersOff'
  BY DEF WorkersOff, TypeOK, Driving
<1>7. PlanAccounted'
  BY DEF PlanAccounted, Driving
<1>8. WatermarkTruth'
  BY DEF WatermarkTruth
<1>9. NoSilentHole'
  BY <1>b, <1>c, SameDoneRows DEF Done
<1> QED BY <1>1, <1>2, <1>3, <1>4, <1>5, <1>6, <1>7, <1>8, <1>9

LEMMA StartRunIInv ==
    ASSUME IInv, StartRun
    PROVE  IInv'
<1> USE SyncAssumption DEF IInv, StartRun, NotRunning, stateDB, history
<1>a. units' \in [DOMAIN units -> UnitRow]
  BY DEF ResetClaimed, TypeOK, UnitRow, Status
<1>b. /\ NotDone(units') = NotDone(units)
      /\ \A k \in DOMAIN units : units'[k].observed = units[k].observed
  BY DEF ResetClaimed, TypeOK, UnitRow, NotDone
<1>1. TypeOK'
  BY <1>a DEF TypeOK, Phases
<1>2. Anchored'
  BY <1>a DEF Anchored, TypeOK, NoWindow
<1>3. DoneLanded'
  BY <1>a, <1>b, SameDoneRows DEF Done
<1>4. HeldClaimed'
  BY DEF HeldClaimed, WorkersOff, Driving, Held
<1>5. WorkTrue'
  BY DEF WorkTrue, TypeOK
<1>6. WorkersOff'
  BY DEF WorkersOff, TypeOK, Driving
<1>7. PlanAccounted'
  BY DEF PlanAccounted, Accounted
<1>8. WatermarkTruth'
  BY DEF WatermarkTruth
<1>9. NoSilentHole'
  BY <1>a, <1>b, SameDoneRows DEF Done
<1> QED BY <1>1, <1>2, <1>3, <1>4, <1>5, <1>6, <1>7, <1>8, <1>9

LEMMA HealPrefixIInv ==
    ASSUME IInv, HealPrefix
    PROVE  IInv'
<1> USE SyncAssumption DEF IInv, HealPrefix, LaunchWorkers, Free, stateDB, history
<1>a. ASSUME NEW o \in PrefixObservation(units), watermark = None
      PROVE  o >= Anchor
  <2>1. PICK k \in Done(units) : o \in DaysOf(k)
    BY PrefixObservationTrue
  <2>2. k \in DOMAIN units /\ k.start \in Int
    BY <2>1 DEF Done, TypeOK, Window, Day
  <2> QED BY <1>a, <2>1, <2>2 DEF Anchored, DaysOf
<1>1. TypeOK'
  BY PrefixObservationTrue DEF TypeOK, Phases, Points
<1>2. Anchored'
  BY PrefixObservationTrue, <1>a DEF Anchored, TypeOK, NoWindow, Day, None
<1>3. DoneLanded'
  BY DEF DoneLanded
<1>4. HeldClaimed'
  BY DEF HeldClaimed, TypeOK, Held
<1>5. WorkTrue'
  BY DEF WorkTrue, TypeOK
<1>6. WorkersOff'
  BY DEF WorkersOff, TypeOK, Driving
<1>7. PlanAccounted'
  BY DEF PlanAccounted, Accounted
<1>8. WatermarkTruth'
  BY PrefixObservationTrue DEF WatermarkTruth
<1>9. NoSilentHole'
  BY DEF NoSilentHole, Accounted
<1> QED BY <1>1, <1>2, <1>3, <1>4, <1>5, <1>6, <1>7, <1>8, <1>9

LEMMA JoinLeftoverIInv ==
    ASSUME IInv, JoinLeftover
    PROVE  IInv'
<1> USE SyncAssumption DEF IInv, JoinLeftover, AllJoined, stateDB, history
<1>1. TypeOK'
  BY DEF TypeOK, Phases, Points, NoWindow
<1>2. Anchored'
  BY DEF Anchored, TypeOK, NoWindow
<1>3. DoneLanded'
  BY DEF DoneLanded
<1>4. HeldClaimed'
  BY DEF HeldClaimed, TypeOK, Held
<1>5. WorkTrue'
  BY DEF WorkTrue, TypeOK
<1>6. WorkersOff'
  BY DEF WorkersOff, TypeOK, Driving
<1>7. PlanAccounted'
  BY DEF PlanAccounted, Accounted
<1>8. WatermarkTruth'
  BY DEF WatermarkTruth
<1>9. NoSilentHole'
  BY DEF NoSilentHole, Accounted
<1> QED BY <1>1, <1>2, <1>3, <1>4, <1>5, <1>6, <1>7, <1>8, <1>9

LEMMA ResolveResidualIInv ==
    ASSUME IInv, ResolveResidual
    PROVE  IInv'
<1> USE SyncAssumption DEF IInv, ResolveResidual, stateDB, history
<1>a. ResumeStart \in Day /\ TrailingEdge \in Int
  BY DEF ResumeStart, TrailingEdge, TypeOK, Anchored, Day, None
<1>b. ResumeStart < TrailingEdge =>
         [start |-> ResumeStart, end |-> TrailingEdge] \in Window
  BY <1>a DEF Window, Day, None
<1>1. TypeOK'
  BY <1>a, <1>b DEF TypeOK, Phases
<1>2. Anchored'
  BY <1>a DEF Anchored, TypeOK, NoWindow, ResumeStart
<1>3. DoneLanded'
  BY DEF DoneLanded
<1>4. HeldClaimed'
  BY DEF HeldClaimed, TypeOK, Held
<1>5. WorkTrue'
  BY DEF WorkTrue, TypeOK
<1>6. WorkersOff'
  BY DEF WorkersOff, TypeOK, Driving
<1>7. PlanAccounted'
  BY <1>a, <1>b DEF PlanAccounted, Accounted, NoSilentHole, WatermarkTruth, ResumeStart, TypeOK, Day, None
<1>8. WatermarkTruth'
  BY DEF WatermarkTruth
<1>9. NoSilentHole'
  BY DEF NoSilentHole, Accounted
<1> QED BY <1>1, <1>2, <1>3, <1>4, <1>5, <1>6, <1>7, <1>8, <1>9

LEMMA ReleaseDoneIInv ==
    ASSUME IInv, ReleaseDone
    PROVE  IInv'
<1> USE SyncAssumption DEF IInv, ReleaseDone, stateDB, history
<1>a. /\ DOMAIN units' \subseteq DOMAIN units
      /\ \A k \in DOMAIN units' : units'[k] = units[k]
      /\ units' \in [DOMAIN units' -> UnitRow]
  BY DEF TypeOK
<1>b. NotDone(units') = NotDone(units)
  BY DEF NotDone, Done
<1>1. TypeOK'
  BY <1>a DEF TypeOK, Phases
<1>2. Anchored'
  BY <1>a DEF Anchored, TypeOK, NoWindow
<1>3. DoneLanded'
  BY <1>a DEF DoneLanded, Done, NotDone
<1>4. HeldClaimed'
  BY DEF HeldClaimed, WorkersOff, Driving, Held
<1>5. WorkTrue'
  BY DEF WorkTrue, TypeOK
<1>6. WorkersOff'
  BY DEF WorkersOff, TypeOK, Driving
<1>7. PlanAccounted'
  BY <1>b DEF PlanAccounted, Accounted
<1>8. WatermarkTruth'
  BY DEF WatermarkTruth
<1>9. NoSilentHole'
  BY <1>a, <1>b DEF NoSilentHole, Accounted
<1> QED BY <1>1, <1>2, <1>3, <1>4, <1>5, <1>6, <1>7, <1>8, <1>9

LEMMA EnqueuePlanIInv ==
    ASSUME IInv, EnqueuePlan
    PROVE  IInv'
<1> USE SyncAssumption DEF IInv, EnqueuePlan, LaunchWorkers, Free, stateDB, history
<1> DEFINE plan == Tiles(residual, chunk)
<1>a. /\ residual \in Window /\ chunk \in Nat \ {0}
      /\ Accounted(residual.start)
  BY DEF PlanAccounted, TypeOK
<1>b. \A k \in plan : /\ k \in Window
                      /\ k.start >= residual.start /\ k.end <= residual.end
  BY <1>a, TilesTile
<1>c. /\ DOMAIN units' = DOMAIN units \cup plan
      /\ \A k \in DOMAIN units : units'[k] = units[k]
      /\ units' \in [DOMAIN units \cup plan -> UnitRow]
  <2>1. PICK top \in TopId(units) :
          units' = [k \in DOMAIN units \cup plan |->
                       IF k \in DOMAIN units THEN units[k]
                       ELSE [id |-> top + 1 + k.start - residual.start,
                             status |-> "pending", observed |-> None]]
    OBVIOUS
  <2>2. top \in Int
    BY DEF TopId, TypeOK, UnitRow
  <2>3. ASSUME NEW k \in plan
        PROVE  top + 1 + k.start - residual.start \in Int
    BY <2>2, <1>a, <1>b DEF Window, Day
  <2>4. ASSUME NEW k \in DOMAIN units \cup plan PROVE units'[k] \in UnitRow
    <3>1. CASE k \in DOMAIN units
      BY <2>1, <3>1 DEF TypeOK
    <3>2. CASE k \notin DOMAIN units
      BY <2>1, <2>3, <3>2 DEF UnitRow, Status
    <3> QED BY <3>1, <3>2
  <2> QED BY <2>1, <2>4
<1>d. \A k \in plan \ DOMAIN units : units'[k].status = "pending"
  OBVIOUS
<1>e. NotDone(units) \subseteq NotDone(units')
  BY <1>c DEF NotDone
<1>1. TypeOK'
  BY <1>a, <1>b, <1>c DEF TypeOK, Phases, Points
<1>2. Anchored'
<2>1. \A k \in DOMAIN units' : watermark = None => k.start >= Anchor
    BY <1>a, <1>b, <1>c DEF Anchored, Window, Day
  <2>2. \A w \in Workers : worker'[w] = Free("check")
    OBVIOUS
  <2> QED BY <2>1, <2>2 DEF Anchored, NoWindow
<1>3. DoneLanded'
  BY <1>c, <1>d DEF DoneLanded, Done, NotDone
<1>4. HeldClaimed'
  BY DEF HeldClaimed, TypeOK, Held
<1>5. WorkTrue'
  BY DEF WorkTrue, TypeOK
<1>6. WorkersOff'
  BY DEF WorkersOff, TypeOK, Driving
<1>7. PlanAccounted'
  BY DEF PlanAccounted
<1>8. WatermarkTruth'
  BY DEF WatermarkTruth
<1>9. NoSilentHole'
  <2>0. UNCHANGED <<landed, frontier>>
    OBVIOUS
  <2> HIDE DEF EnqueuePlan
  <2>1. ASSUME NEW h \in Int, h <= residual.end, NEW d \in Anchor .. (h - 1)
        PROVE  d \in landed \/ \E k \in NotDone(units') : d \in DaysOf(k)
    <3>0. residual.start \in Int /\ residual.end \in Int /\ d \in Int
      BY <1>a, <2>1 DEF Window, Day
    <3>1. CASE d < residual.start
      <4>1. d \in Anchor .. (residual.start - 1)
        BY <2>1, <3>0, <3>1
      <4> QED BY <4>1, <1>a, <1>e DEF Accounted
    <3>2. CASE d >= residual.start
      <4>1. d \in DaysOf(residual)
        BY <2>1, <3>0, <3>2 DEF DaysOf
      <4>2. PICK k \in plan : d \in DaysOf(k)
        BY <4>1, <1>a, TilesTile DEF TypeOK
      <4>3. k \in NotDone(units') \/ k \in Done(units)
        BY <1>c, <1>d DEF NotDone, Done
      <4> QED BY <4>2, <4>3 DEF DoneLanded
    <3> QED BY <3>0, <3>1, <3>2
  <2>2. ASSUME NEW k \in plan PROVE Accounted(k.end)'
    BY <2>0, <2>1, <1>b DEF Accounted, Window, Day
  <2>3. ASSUME NEW h, Accounted(h) PROVE Accounted(h)'
    BY <2>0, <2>3, <1>e DEF Accounted
  <2> QED BY <1>c, <2>0, <2>2, <2>3 DEF NoSilentHole
<1> QED BY <1>1, <1>2, <1>3, <1>4, <1>5, <1>6, <1>7, <1>8, <1>9

LEMMA JoinResidualIInv ==
    ASSUME IInv, JoinResidual
    PROVE  IInv'
<1> USE SyncAssumption DEF IInv, JoinResidual, AllJoined, stateDB, history
<1>1. TypeOK'
  BY DEF TypeOK, Phases, Points, NoWindow
<1>2. Anchored'
  BY DEF Anchored, TypeOK, NoWindow
<1>3. DoneLanded'
  BY DEF DoneLanded
<1>4. HeldClaimed'
  BY DEF HeldClaimed, TypeOK, Held
<1>5. WorkTrue'
  BY DEF WorkTrue, TypeOK
<1>6. WorkersOff'
  BY DEF WorkersOff, TypeOK, Driving
<1>7. PlanAccounted'
  BY DEF PlanAccounted, Accounted
<1>8. WatermarkTruth'
  BY DEF WatermarkTruth
<1>9. NoSilentHole'
  BY DEF NoSilentHole, Accounted
<1> QED BY <1>1, <1>2, <1>3, <1>4, <1>5, <1>6, <1>7, <1>8, <1>9

LEMMA CrashIInv ==
    ASSUME IInv, Crash
    PROVE  IInv'
<1> USE SyncAssumption DEF IInv, Crash, CanFault, Free, stateDB, history
<1>a. worker' \in [Workers -> [pc : Points, unit : Window \cup {NoWindow},
                               observed : Day \cup {None}]]
  BY DEF Points
<1>b. /\ UNCHANGED <<units, watermark, frontier, today, chunk, landed, refetched>>
      /\ phase' \in Phases /\ stop' = FALSE /\ failures' = {}
      /\ residual' = NoWindow /\ faults' \in 0 .. MaxFaults
  BY DEF Phases, TypeOK
<1>1. TypeOK'
  <2> HIDE DEF Crash
  <2> QED BY <1>a, <1>b DEF TypeOK
<1>2. Anchored'
  BY DEF Anchored, TypeOK, NoWindow
<1>3. DoneLanded'
  BY DEF DoneLanded
<1>4. HeldClaimed'
  BY DEF HeldClaimed, TypeOK, Held
<1>5. WorkTrue'
  BY DEF WorkTrue, TypeOK
<1>6. WorkersOff'
  BY DEF WorkersOff, TypeOK, Driving
<1>7. PlanAccounted'
  BY DEF PlanAccounted, Accounted
<1>8. WatermarkTruth'
  BY DEF WatermarkTruth
<1>9. NoSilentHole'
  BY DEF NoSilentHole, Accounted
<1> QED BY <1>1, <1>2, <1>3, <1>4, <1>5, <1>6, <1>7, <1>8, <1>9

LEMMA NextDayIInv ==
    ASSUME IInv, NextDay
    PROVE  IInv'
<1> USE SyncAssumption DEF IInv, NextDay, process, stateDB, history
<1>1. TypeOK'
  BY DEF TypeOK, Phases, Points, NoWindow
<1>2. Anchored'
  BY DEF Anchored, TypeOK, NoWindow
<1>3. DoneLanded'
  BY DEF DoneLanded
<1>4. HeldClaimed'
  BY DEF HeldClaimed, TypeOK, Held
<1>5. WorkTrue'
  BY DEF WorkTrue, TypeOK
<1>6. WorkersOff'
  BY DEF WorkersOff, TypeOK, Driving
<1>7. PlanAccounted'
  BY DEF PlanAccounted, Accounted
<1>8. WatermarkTruth'
  BY DEF WatermarkTruth
<1>9. NoSilentHole'
  BY DEF NoSilentHole, Accounted
<1> QED BY <1>1, <1>2, <1>3, <1>4, <1>5, <1>6, <1>7, <1>8, <1>9

LEMMA ClockSetBackIInv ==
    ASSUME IInv, ClockSetBack
    PROVE  IInv'
<1> USE SyncAssumption DEF IInv, ClockSetBack, CanFault, process, stateDB, history
<1>1. TypeOK'
  BY DEF TypeOK, Phases, Points, NoWindow
<1>2. Anchored'
  BY DEF Anchored, TypeOK, NoWindow
<1>3. DoneLanded'
  BY DEF DoneLanded
<1>4. HeldClaimed'
  BY DEF HeldClaimed, TypeOK, Held
<1>5. WorkTrue'
  BY DEF WorkTrue, TypeOK
<1>6. WorkersOff'
  BY DEF WorkersOff, TypeOK, Driving
<1>7. PlanAccounted'
  BY DEF PlanAccounted, Accounted
<1>8. WatermarkTruth'
  BY DEF WatermarkTruth
<1>9. NoSilentHole'
  BY DEF NoSilentHole, Accounted
<1> QED BY <1>1, <1>2, <1>3, <1>4, <1>5, <1>6, <1>7, <1>8, <1>9

\* The unchanged variables carry the invariant through a stuttering step.
LEMMA StutterIInv == ASSUME IInv, UNCHANGED vars PROVE IInv'
<1> USE DEF IInv, vars, stateDB, process, history
<1>1. TypeOK' /\ Anchored'
  BY DEF TypeOK, Anchored
<1>2. DoneLanded' /\ HeldClaimed' /\ WorkTrue' /\ WorkersOff'
  BY DEF DoneLanded, HeldClaimed, WorkTrue, WorkersOff, Driving
<1>3. PlanAccounted' /\ WatermarkTruth' /\ NoSilentHole'
  BY DEF PlanAccounted, WatermarkTruth, NoSilentHole, Accounted
<1> QED BY <1>1, <1>2, <1>3

LEMMA NextIInv == IInv /\ [Next]_vars => IInv'
<1> SUFFICES ASSUME IInv, [Next]_vars PROVE IInv'
  OBVIOUS
<1>1. CASE MainStep
  BY <1>1, StartRunIInv, HealPrefixIInv, JoinLeftoverIInv, ResolveResidualIInv,
     ReleaseDoneIInv, EnqueuePlanIInv, JoinResidualIInv DEF MainStep
<1>2. ASSUME NEW w \in Workers, WorkStep(w) PROVE IInv'
  BY <1>2, CheckStopIInv, ClaimNextIInv, WriteWindowIInv, CompleteRunIInv,
     MarkDoneIInv, ReadPrefixIInv, AdvanceForwardIInv, MarkFailedIInv
     DEF WorkStep
<1>3. CASE Fault
  BY <1>3, FailUnitIInv, StoreErrorIInv, CrashIInv, ClockSetBackIInv DEF Fault
<1>4. CASE NextDay
  BY <1>4, NextDayIInv
<1>5. CASE UNCHANGED vars
  BY <1>5, StutterIInv
<1> QED BY <1>1, <1>2, <1>3, <1>4, <1>5 DEF Next

\* A step writes days or moves the watermark forward, never both.
LEMMA StepForward ==
    ASSUME IInv, [Next]_vars
    PROVE  \/ landed' = landed /\ (watermark' = watermark \/ watermark' > watermark)
           \/ landed \subseteq landed' /\ watermark' = watermark
<1>1. CASE UNCHANGED vars
  BY <1>1 DEF vars, stateDB, history
<1>2. CASE MainStep
  <2>1. CASE HealPrefix
    BY <2>1 DEF HealPrefix, history
  <2> QED BY <1>2, <2>1 DEF MainStep, StartRun, JoinLeftover, ResolveResidual,
                            ReleaseDone, EnqueuePlan, JoinResidual, stateDB, history
<1>3. ASSUME NEW w \in Workers, WorkStep(w)
      PROVE  \/ landed' = landed /\ (watermark' = watermark \/ watermark' > watermark)
             \/ landed \subseteq landed' /\ watermark' = watermark
  BY <1>3 DEF WorkStep, CheckStop, ClaimNext, WriteWindow, CompleteRun, MarkDone,
              ReadPrefix, AdvanceForward, MarkFailed, stateDB, history
<1>4. CASE Fault
  BY <1>4 DEF Fault, FailUnit, StoreError, Crash, ClockSetBack, stateDB
<1>5. CASE NextDay
  BY <1>5 DEF NextDay, stateDB, history
<1> QED BY <1>1, <1>2, <1>3, <1>4, <1>5 DEF Next

-----------------------------------------------------------------------------
(* The theorems. *)

LEMMA Invariance == Spec => []IInv
BY InitIInv, NextIInv, PTL DEF Spec

\* Every variable keeps its type, for any number of workers and days.
THEOREM TypeCorrect == Spec => []TypeOK
<1>1. IInv => TypeOK
  BY DEF IInv
<1> QED BY <1>1, Invariance, PTL

\* The persisted watermark is true at every instant (the prefix-advance rule of
\* _commit_watermark_prefix): everything up to it has been written.
THEOREM WatermarkAlwaysTrue == Spec => []WatermarkTruth
<1>1. IInv => WatermarkTruth
  BY DEF IInv
<1> QED BY <1>1, Invariance, PTL

\* No queue row and no coverage frontier lies past an unaccounted day, which is
\* what lets done_prefix_observation be blind to gaps.
THEOREM NoDaySkipped == Spec => []NoSilentHole
<1>1. IInv => NoSilentHole
  BY DEF IInv
<1> QED BY <1>1, Invariance, PTL

\* The guard inside advance_watermark_forward's statement: the watermark never
\* moves backward, however the prefix commits interleave.
THEOREM ForwardOnly == Spec => WatermarkForward
<1>1. IInv /\ [Next]_vars => [watermark' > watermark]_watermark
  BY StepForward
<1> QED BY <1>1, Invariance, PTL DEF Spec, WatermarkForward

\* The run implements the append-only coverage log.
THEOREM LogImplemented == Spec => ImplementsCoverageLog
<1>1. Init => Log!Init
  BY DEF Init, Log!Init
<1>2. IInv /\ IInv' /\ [Next]_vars => [Log!Next]_(Log!vars)
  <2> SUFFICES ASSUME IInv, IInv', [Next]_vars PROVE [Log!Next]_(Log!vars)
    OBVIOUS
  <2>1. /\ landed' \in SUBSET Int
        /\ watermark \in Int /\ watermark' \in Int
        /\ Anchor .. watermark' \subseteq landed'
    BY SyncAssumption DEF IInv, TypeOK, WatermarkTruth, Day, None
  <2> QED BY <2>1, StepForward
       DEF Log!Next, Log!vars, Log!Cover, Log!Publish
<1> QED BY <1>1, <1>2, Invariance, PTL DEF Spec, ImplementsCoverageLog, Log!Spec

-----------------------------------------------------------------------------
(***************************************************************************)
(* The claim queue.  A drive that ends without a failure has drained the   *)
(* queue, so a plan is laid over no undone unit, so no day ever has two    *)
(* writers; and the lookback days of a plan are fetched again.             *)
(***************************************************************************)

(* The inductive invariant, relative to IInv. *)

\* A failure sets the stop signal before its worker can look at it again.
FailureStops ==
    /\ failures # {} => stop
    /\ \A w \in Workers : worker[w].pc = "fail" => w \in failures
    /\ OneFailurePerWorker

\* In a drive without failures a set stop signal means that nothing is left to
\* claim, a worker leaves only then, and every claimed row is in some hand.
Draining ==
    (Driving /\ failures = {}) =>
        /\ stop => Claimable(units) = {}
        /\ \A w \in Workers : worker[w].pc = "off" => stop
        /\ \A k \in DOMAIN units :
              units[k].status = "claimed" =>
                  \E w \in Workers : worker[w].pc \in Held /\ worker[w].unit = k

\* Between drives: no orphaned claim, and nothing undone while planning.
Drained ==
    /\ phase = "heal" => \A k \in DOMAIN units : units[k].status # "claimed"
    /\ phase \in {"plan", "release", "enqueue"} => NotDone(units) = {}

\* Undone units share no day.
UndoneDisjoint ==
    \A j, k \in NotDone(units) : j # k => DaysOf(j) \cap DaysOf(k) = {}

\* No row is left inside the window about to be planned, and the days planned
\* are refetched or still to be.
Replanning ==
    /\ phase = "enqueue" =>
          \A k \in DOMAIN units : k.start < residual.start \/ residual.end < k.end
    /\ phase = "residual" =>
          \A d \in DaysOf(residual) :
              d \in refetched \/ \E k \in NotDone(units) : d \in DaysOf(k)
    /\ \A w \in Workers :
          worker[w].pc \in {"complete", "mark"} =>
              DaysOf(worker[w].unit) \subseteq refetched
    /\ ReplannedDaysRefetched

QInv ==
    /\ FailureStops
    /\ Draining
    /\ Drained
    /\ UndoneDisjoint
    /\ Replanning

-----------------------------------------------------------------------------
(* Lemmas. *)

\* A join that saw no failure saw the queue drained.
LEMMA JoinDrains ==
    ASSUME IInv, QInv, Driving, AllJoined, failures = {}
    PROVE  NotDone(units) = {}
<1>1. stop /\ Claimable(units) = {}
  BY SyncAssumption DEF QInv, Draining, AllJoined
<1>2. \A k \in DOMAIN units : units[k].status # "claimed"
  BY DEF QInv, Draining, AllJoined, Held
<1>3. \A k \in DOMAIN units : units[k].status \in Status
  BY DEF IInv, TypeOK, UnitRow
<1> QED BY <1>1, <1>2, <1>3 DEF Claimable, NotDone, Status

\* Two starts of one tiling lie at least a width apart.
LEMMA TileGap ==
    ASSUME NEW a \in Nat, NEW b \in Nat, NEW n \in Nat \ {0},
           a % n = 0, b % n = 0, a < b
    PROVE  a + n <= b
<1>1. /\ a = n * (a \div n) + (a % n) /\ (a \div n) \in Nat
      /\ b = n * (b \div n) + (b % n) /\ (b \div n) \in Nat
  OBVIOUS
<1>2. ASSUME NEW p \in Nat, NEW q \in Nat, n * p < n * q
      PROVE  n * p + n <= n * q
  BY <1>2
<1>3. a = n * (a \div n) /\ b = n * (b \div n)
  BY <1>1
<1>4. n * (a \div n) < n * (b \div n)
  BY <1>3
<1>5. n * (a \div n) + n <= n * (b \div n)
  BY <1>1, <1>2, <1>4
<1> QED BY <1>3, <1>5

\* Tiles of one plan share no day.
LEMMA TilesDisjoint ==
    ASSUME NEW w \in Window, NEW n \in Nat \ {0},
           NEW j \in Tiles(w, n), NEW k \in Tiles(w, n), j # k
    PROVE  DaysOf(j) \cap DaysOf(k) = {}
<1>0. w.start \in Int /\ w.end \in Int
  BY DEF Window, Day
<1>1. PICK s \in DaysOf(w) :
        /\ (s - w.start) % n = 0
        /\ j = [start |-> s, end |-> IF s + n < w.end THEN s + n ELSE w.end]
  BY DEF Tiles
<1>2. PICK t \in DaysOf(w) :
        /\ (t - w.start) % n = 0
        /\ k = [start |-> t, end |-> IF t + n < w.end THEN t + n ELSE w.end]
  BY DEF Tiles
<1>3. s \in Int /\ t \in Int /\ s - w.start \in Nat /\ t - w.start \in Nat /\ s # t
  BY <1>0, <1>1, <1>2 DEF DaysOf
<1>4. s < t => s + n <= t
  BY <1>0, <1>1, <1>2, <1>3, TileGap
<1>5. t < s => t + n <= s
  BY <1>0, <1>1, <1>2, <1>3, TileGap
<1> QED BY <1>0, <1>1, <1>2, <1>3, <1>4, <1>5 DEF DaysOf

-----------------------------------------------------------------------------
(* Every step preserves the invariant. *)

LEMMA InitQInv == Init => QInv
BY DEF Init, Free, QInv, FailureStops, OneFailurePerWorker, Draining, Drained,
       UndoneDisjoint, Replanning, ReplannedDaysRefetched, Driving, NotDone

LEMMA CheckStopQInv ==
    ASSUME IInv, QInv, NEW w \in Workers, CheckStop(w)
    PROVE  QInv'
<1> USE DEF IInv, QInv, CheckStop, At, LetGo, Free, stateDB, mainUnchanged, history
<1>1. FailureStops'
  BY DEF FailureStops, OneFailurePerWorker, TypeOK
<1>2. Draining'
  BY DEF Draining, Driving, TypeOK, Held
<1>3. Drained'
  BY DEF Drained, Driving
<1>4. UndoneDisjoint'
  BY DEF UndoneDisjoint
<1>5. Replanning'
  BY DEF Replanning, ReplannedDaysRefetched, TypeOK, Driving
<1> QED BY <1>1, <1>2, <1>3, <1>4, <1>5

LEMMA ClaimNextQInv ==
    ASSUME IInv, QInv, NEW w \in Workers, ClaimNext(w)
    PROVE  QInv'
<1> USE DEF IInv, QInv, ClaimNext, NextClaims, Claimable, At, LetGo, Free, stateDB, mainUnchanged, history
<1>a. \/ UNCHANGED units
      \/ \E k \in DOMAIN units : /\ units[k].status \in {"pending", "failed"}
                                 /\ units' = [units EXCEPT ![k].status = "claimed"]
  OBVIOUS
<1>b. NotDone(units') = NotDone(units)
  <2>1. \A k \in DOMAIN units :
           units'[k].status = "done" <=> units[k].status = "done"
    BY <1>a DEF TypeOK, UnitRow
  <2> QED BY <1>a, <2>1 DEF NotDone
<1>1. FailureStops'
  BY DEF FailureStops, OneFailurePerWorker, TypeOK
<1>2. Draining'
  BY DEF Draining, Driving, TypeOK, Held
<1>3. Drained'
  BY DEF Drained, Driving
<1>4. UndoneDisjoint'
  BY <1>b DEF UndoneDisjoint
<1>5. Replanning'
  BY <1>b DEF Replanning, ReplannedDaysRefetched, TypeOK, Driving
<1> QED BY <1>1, <1>2, <1>3, <1>4, <1>5

LEMMA WriteWindowQInv ==
    ASSUME IInv, QInv, NEW w \in Workers, WriteWindow(w)
    PROVE  QInv'
<1> USE DEF IInv, QInv, WriteWindow, At, Goto, stateDB, mainUnchanged, history
<1>1. FailureStops'
  BY DEF FailureStops, OneFailurePerWorker, TypeOK
<1>2. Draining'
  BY DEF Draining, Driving, TypeOK, Held
<1>3. Drained'
  BY DEF Drained, Driving
<1>4. UndoneDisjoint'
  BY DEF UndoneDisjoint
<1>5. Replanning'
  BY DEF Replanning, ReplannedDaysRefetched, TypeOK, Driving
<1> QED BY <1>1, <1>2, <1>3, <1>4, <1>5

LEMMA CompleteRunQInv ==
    ASSUME IInv, QInv, NEW w \in Workers, CompleteRun(w)
    PROVE  QInv'
<1> USE DEF IInv, QInv, CompleteRun, At, Goto, stateDB, mainUnchanged, history
<1>1. FailureStops'
  BY DEF FailureStops, OneFailurePerWorker, TypeOK
<1>2. Draining'
  BY DEF Draining, Driving, TypeOK, Held
<1>3. Drained'
  BY DEF Drained, Driving
<1>4. UndoneDisjoint'
  BY DEF UndoneDisjoint
<1>5. Replanning'
  BY DEF Replanning, ReplannedDaysRefetched, TypeOK, Driving
<1> QED BY <1>1, <1>2, <1>3, <1>4, <1>5

LEMMA MarkDoneQInv ==
    ASSUME IInv, QInv, NEW w \in Workers, MarkDone(w)
    PROVE  QInv'
<1> USE DEF IInv, QInv, MarkDone, At, Goto, stateDB, mainUnchanged, history
<1> DEFINE k == worker[w].unit
<1>a. /\ k \in DOMAIN units /\ DOMAIN units' = DOMAIN units
      /\ units'[k].status = "done"
      /\ \A j \in DOMAIN units \ {k} : units'[j] = units[j]
  BY DEF TypeOK, UnitRow
<1>b. NotDone(units') = NotDone(units) \ {k}
  BY <1>a DEF NotDone
<1>c. DaysOf(k) \subseteq refetched
  BY DEF Replanning
<1>d. /\ \A v \in Workers \ {w} : worker'[v] = worker[v]
      /\ worker'[w].pc = "read"
      /\ UNCHANGED <<failures, stop, phase, residual, refetched>>
  BY DEF TypeOK
<1>e. Claimable(units') = Claimable(units)
  BY <1>a DEF Claimable
<1>1. FailureStops'
  BY DEF FailureStops, OneFailurePerWorker, TypeOK
<1>2. Draining'
  <2>1. ASSUME NEW j \in DOMAIN units', units'[j].status = "claimed",
               NEW v \in Workers, worker[v].pc \in Held, worker[v].unit = j
        PROVE  worker'[v].pc \in Held /\ worker'[v].unit = j
    BY <1>a, <1>d, <2>1
  <2> HIDE DEF MarkDone
  <2> QED BY <1>a, <1>d, <1>e, <2>1 DEF Draining, Driving
<1>3. Drained'
  BY DEF Drained, Driving
<1>4. UndoneDisjoint'
  BY <1>b DEF UndoneDisjoint
<1>5. Replanning'
  <2>1. phase \in {"leftover", "residual"} /\ worker[w].pc = "mark"
    BY DEF Driving
  <2> HIDE DEF MarkDone
  <2> QED BY <1>b, <1>c, <1>d, <2>1 DEF Replanning, ReplannedDaysRefetched
<1> QED BY <1>1, <1>2, <1>3, <1>4, <1>5

LEMMA ReadPrefixQInv ==
    ASSUME IInv, QInv, NEW w \in Workers, ReadPrefix(w)
    PROVE  QInv'
<1> USE DEF IInv, QInv, ReadPrefix, At, LetGo, Free, stateDB, mainUnchanged, history
<1>1. FailureStops'
  BY DEF FailureStops, OneFailurePerWorker, TypeOK
<1>2. Draining'
  BY DEF Draining, Driving, TypeOK, Held
<1>3. Drained'
  BY DEF Drained, Driving
<1>4. UndoneDisjoint'
  BY DEF UndoneDisjoint
<1>5. Replanning'
  BY DEF Replanning, ReplannedDaysRefetched, TypeOK, Driving
<1> QED BY <1>1, <1>2, <1>3, <1>4, <1>5

LEMMA AdvanceForwardQInv ==
    ASSUME IInv, QInv, NEW w \in Workers, AdvanceForward(w)
    PROVE  QInv'
<1> USE DEF IInv, QInv, AdvanceForward, At, LetGo, Free, stateDB, mainUnchanged, history
<1>1. FailureStops'
  BY DEF FailureStops, OneFailurePerWorker, TypeOK
<1>2. Draining'
  BY DEF Draining, Driving, TypeOK, Held
<1>3. Drained'
  BY DEF Drained, Driving
<1>4. UndoneDisjoint'
  BY DEF UndoneDisjoint
<1>5. Replanning'
  BY DEF Replanning, ReplannedDaysRefetched, TypeOK, Driving
<1> QED BY <1>1, <1>2, <1>3, <1>4, <1>5

LEMMA FailUnitQInv ==
    ASSUME IInv, QInv, NEW w \in Workers, FailUnit(w)
    PROVE  QInv'
<1> USE DEF IInv, QInv, FailUnit, CanFault, At, Goto, stateDB, mainUnchanged, history
<1>1. FailureStops'
  BY DEF FailureStops, OneFailurePerWorker, TypeOK
<1>2. Draining'
  BY DEF Draining, Driving, TypeOK, Held
<1>3. Drained'
  BY DEF Drained, Driving
<1>4. UndoneDisjoint'
  BY DEF UndoneDisjoint
<1>5. Replanning'
  BY DEF Replanning, ReplannedDaysRefetched, TypeOK, Driving
<1> QED BY <1>1, <1>2, <1>3, <1>4, <1>5

LEMMA StoreErrorQInv ==
    ASSUME IInv, QInv, NEW w \in Workers, StoreError(w)
    PROVE  QInv'
<1> USE DEF IInv, QInv, StoreError, CanFault, At, LetGo, Free, stateDB, mainUnchanged, history
<1>1. FailureStops'
  BY DEF FailureStops, OneFailurePerWorker, TypeOK
<1>2. Draining'
  BY DEF Draining, Driving, TypeOK, Held
<1>3. Drained'
  BY DEF Drained, Driving
<1>4. UndoneDisjoint'
  BY DEF UndoneDisjoint
<1>5. Replanning'
  BY DEF Replanning, ReplannedDaysRefetched, TypeOK, Driving
<1> QED BY <1>1, <1>2, <1>3, <1>4, <1>5

LEMMA MarkFailedQInv ==
    ASSUME IInv, QInv, NEW w \in Workers, MarkFailed(w)
    PROVE  QInv'
<1> USE DEF IInv, QInv, MarkFailed, CanFault, At, LetGo, Free, stateDB, mainUnchanged, history
<1>a. /\ worker[w].unit \in DOMAIN units
      /\ units[worker[w].unit].status = "claimed"
  BY DEF HeldClaimed, Held
<1>b. NotDone(units') = NotDone(units)
  <2>1. \A k \in DOMAIN units :
           units'[k].status = "done" <=> units[k].status = "done"
    BY <1>a DEF TypeOK, UnitRow
  <2> QED BY <2>1 DEF NotDone
<1>c. failures # {} /\ UNCHANGED failures
  BY DEF FailureStops
<1>1. FailureStops'
  BY DEF FailureStops, OneFailurePerWorker, TypeOK
<1>2. Draining'
  BY <1>c DEF Draining
<1>3. Drained'
  BY DEF Drained, Driving
<1>4. UndoneDisjoint'
  BY <1>b DEF UndoneDisjoint
<1>5. Replanning'
  BY <1>b DEF Replanning, ReplannedDaysRefetched, TypeOK, Driving
<1> QED BY <1>1, <1>2, <1>3, <1>4, <1>5

LEMMA StartRunQInv ==
    ASSUME IInv, QInv, StartRun
    PROVE  QInv'
<1> USE DEF IInv, QInv, StartRun, NotRunning, stateDB, history
<1>a. /\ NotDone(units') = NotDone(units)
      /\ \A k \in DOMAIN units' : units'[k].status # "claimed"
  <2>1. /\ DOMAIN units' = DOMAIN units
        /\ \A k \in DOMAIN units :
              /\ units'[k].status # "claimed"
              /\ units'[k].status = "done" <=> units[k].status = "done"
    BY DEF ResetClaimed, TypeOK, UnitRow
  <2> QED BY <2>1 DEF NotDone
<1>b. \A v \in Workers : worker[v].pc = "off"
  BY DEF WorkersOff, Driving
<1>1. FailureStops'
  BY DEF FailureStops, OneFailurePerWorker, TypeOK
<1>2. Draining'
  BY DEF Draining, Driving, TypeOK, Held
<1>3. Drained'
  BY <1>a DEF Drained, Driving
<1>4. UndoneDisjoint'
  BY <1>a DEF UndoneDisjoint
<1>5. Replanning'
  BY <1>b DEF Replanning, ReplannedDaysRefetched, TypeOK, Driving
<1> QED BY <1>1, <1>2, <1>3, <1>4, <1>5

LEMMA HealPrefixQInv ==
    ASSUME IInv, QInv, HealPrefix
    PROVE  QInv'
<1> USE DEF IInv, QInv, HealPrefix, LaunchWorkers, Free, stateDB, history
<1>a. /\ stop' = FALSE /\ \A v \in Workers : worker'[v].pc = "check"
      /\ UNCHANGED units
      /\ \A k \in DOMAIN units : units[k].status # "claimed"
  BY DEF Drained
<1>1. FailureStops'
  BY DEF FailureStops, OneFailurePerWorker, TypeOK
<1>2. Draining'
  <2> HIDE DEF HealPrefix
  <2> QED BY <1>a DEF Draining
<1>3. Drained'
  BY DEF Drained, Driving
<1>4. UndoneDisjoint'
  BY DEF UndoneDisjoint
<1>5. Replanning'
  BY DEF Replanning, ReplannedDaysRefetched, TypeOK, Driving
<1> QED BY <1>1, <1>2, <1>3, <1>4, <1>5

LEMMA JoinLeftoverQInv ==
    ASSUME IInv, QInv, JoinLeftover
    PROVE  QInv'
<1> USE DEF IInv, QInv, JoinLeftover, stateDB, history
<1>1. FailureStops'
  BY DEF FailureStops, OneFailurePerWorker, AllJoined
<1>2. Draining'
  BY DEF Draining, Driving, TypeOK, Held
<1>3. Drained'
  BY JoinDrains DEF Drained, Driving
<1>4. UndoneDisjoint'
  BY DEF UndoneDisjoint
<1>5. Replanning'
  BY DEF Replanning, ReplannedDaysRefetched, TypeOK, Driving
<1> QED BY <1>1, <1>2, <1>3, <1>4, <1>5

LEMMA ResolveResidualQInv ==
    ASSUME IInv, QInv, ResolveResidual
    PROVE  QInv'
<1> USE DEF IInv, QInv, ResolveResidual, stateDB, history
<1>1. FailureStops'
  BY DEF FailureStops, OneFailurePerWorker, TypeOK
<1>2. Draining'
  BY DEF Draining, Driving, TypeOK, Held
<1>3. Drained'
  BY DEF Drained, Driving
<1>4. UndoneDisjoint'
  BY DEF UndoneDisjoint
<1>5. Replanning'
  <2>1. /\ phase' \in {"down", "release", "finished"}
        /\ phase' = "finished" => DaysOf(residual') = {}
        /\ UNCHANGED <<worker, refetched>>
    BY SyncAssumption DEF DaysOf, NoWindow
  <2> HIDE DEF ResolveResidual
  <2> QED BY <2>1 DEF Replanning, ReplannedDaysRefetched
<1> QED BY <1>1, <1>2, <1>3, <1>4, <1>5

LEMMA ReleaseDoneQInv ==
    ASSUME IInv, QInv, ReleaseDone
    PROVE  QInv'
<1> USE DEF IInv, QInv, ReleaseDone, stateDB, history
<1>a. /\ NotDone(units) = {} /\ NotDone(units') = {}
      /\ \A k \in DOMAIN units' :
            ~ (k.start >= residual.start /\ k.end <= residual.end)
  <2>1. NotDone(units) = {} /\ Done(units) = DOMAIN units
    BY DEF Drained, Done
  <2> QED BY <2>1 DEF NotDone
<1>b. /\ phase' = "enqueue" /\ UNCHANGED <<worker, refetched, residual>>
      /\ \A k \in DOMAIN units' : k.start \in Int /\ k.end \in Int
      /\ residual.start \in Int /\ residual.end \in Int
  BY DEF TypeOK, Window, Day, PlanAccounted
<1>1. FailureStops'
  BY DEF FailureStops, OneFailurePerWorker, TypeOK
<1>2. Draining'
  BY DEF Draining, Driving, TypeOK, Held
<1>3. Drained'
  BY <1>a DEF Drained, Driving
<1>4. UndoneDisjoint'
  BY <1>a DEF UndoneDisjoint
<1>5. Replanning'
  <2> HIDE DEF ReleaseDone
  <2> QED BY <1>a, <1>b DEF Replanning, ReplannedDaysRefetched
<1> QED BY <1>1, <1>2, <1>3, <1>4, <1>5

LEMMA EnqueuePlanQInv ==
    ASSUME IInv, QInv, EnqueuePlan
    PROVE  QInv'
<1> USE DEF IInv, QInv, EnqueuePlan, LaunchWorkers, Free, stateDB, history
<1> DEFINE plan == Tiles(residual, chunk)
<1>a. residual \in Window /\ chunk \in Nat \ {0}
  BY SyncAssumption DEF PlanAccounted, TypeOK
<1>b. \A k \in plan : k \notin DOMAIN units
  <2>1. \A k \in plan : /\ k \in Window /\ residual.start \in Int /\ residual.end \in Int
                        /\ k.start >= residual.start /\ k.end <= residual.end
    BY <1>a, TilesTile DEF Window, Day
  <2>2. \A k \in DOMAIN units : k.start < residual.start \/ residual.end < k.end
    BY DEF Replanning
  <2> QED BY <2>1, <2>2 DEF Window, Day
<1>c. /\ NotDone(units) = {}
      /\ DOMAIN units' = DOMAIN units \cup plan
      /\ \A k \in DOMAIN units : units'[k] = units[k]
      /\ \A k \in plan : units'[k].status = "pending"
  BY <1>b DEF Drained
<1>d. NotDone(units') = plan
  BY <1>b, <1>c DEF NotDone
<1>e. \A k \in DOMAIN units' : units'[k].status # "claimed"
  BY <1>c DEF NotDone
<1>f. /\ stop' = FALSE /\ \A v \in Workers : worker'[v].pc = "check"
      /\ phase' = "residual" /\ UNCHANGED <<residual, refetched>>
  OBVIOUS
<1>1. FailureStops'
  BY DEF FailureStops, OneFailurePerWorker, TypeOK
<1>2. Draining'
  <2> HIDE DEF EnqueuePlan
  <2> QED BY <1>e, <1>f DEF Draining
<1>3. Drained'
  BY DEF Drained, Driving
<1>4. UndoneDisjoint'
  <2> HIDE DEF EnqueuePlan
  <2> QED BY <1>a, <1>d, TilesDisjoint DEF UndoneDisjoint
<1>5. Replanning'
  <2>1. \A d \in DaysOf(residual) : \E k \in plan : d \in DaysOf(k)
    BY <1>a, TilesTile
  <2> HIDE DEF EnqueuePlan
  <2> QED BY <1>d, <1>f, <2>1 DEF Replanning, ReplannedDaysRefetched
<1> QED BY <1>1, <1>2, <1>3, <1>4, <1>5

LEMMA JoinResidualQInv ==
    ASSUME IInv, QInv, JoinResidual
    PROVE  QInv'
<1> USE DEF IInv, QInv, JoinResidual, stateDB, history
<1>a. phase' = "finished" => DaysOf(residual) \subseteq refetched
  BY JoinDrains DEF Replanning, Driving
<1>1. FailureStops'
  BY DEF FailureStops, OneFailurePerWorker, AllJoined
<1>2. Draining'
  BY DEF Draining, Driving, TypeOK, Held
<1>3. Drained'
  BY DEF Drained, Driving
<1>4. UndoneDisjoint'
  BY DEF UndoneDisjoint
<1>5. Replanning'
  BY <1>a DEF Replanning, ReplannedDaysRefetched, TypeOK, Driving
<1> QED BY <1>1, <1>2, <1>3, <1>4, <1>5

LEMMA CrashQInv ==
    ASSUME IInv, QInv, Crash
    PROVE  QInv'
<1> USE DEF IInv, QInv, Crash, CanFault, Free, stateDB, history
<1>1. FailureStops'
  BY DEF FailureStops, OneFailurePerWorker, TypeOK
<1>2. Draining'
  BY DEF Draining, Driving, TypeOK, Held
<1>3. Drained'
  BY DEF Drained, Driving
<1>4. UndoneDisjoint'
  BY DEF UndoneDisjoint
<1>5. Replanning'
  BY DEF Replanning, ReplannedDaysRefetched, TypeOK, Driving
<1> QED BY <1>1, <1>2, <1>3, <1>4, <1>5

LEMMA NextDayQInv ==
    ASSUME IInv, QInv, NextDay
    PROVE  QInv'
<1> USE DEF IInv, QInv, NextDay, process, stateDB, history
<1>1. FailureStops'
  BY DEF FailureStops, OneFailurePerWorker, TypeOK
<1>2. Draining'
  BY DEF Draining, Driving, TypeOK, Held
<1>3. Drained'
  BY DEF Drained, Driving
<1>4. UndoneDisjoint'
  BY DEF UndoneDisjoint
<1>5. Replanning'
  BY DEF Replanning, ReplannedDaysRefetched, TypeOK, Driving
<1> QED BY <1>1, <1>2, <1>3, <1>4, <1>5

LEMMA ClockSetBackQInv ==
    ASSUME IInv, QInv, ClockSetBack
    PROVE  QInv'
<1> USE DEF IInv, QInv, ClockSetBack, CanFault, process, stateDB, history
<1>1. FailureStops'
  BY DEF FailureStops, OneFailurePerWorker, TypeOK
<1>2. Draining'
  BY DEF Draining, Driving, TypeOK, Held
<1>3. Drained'
  BY DEF Drained, Driving
<1>4. UndoneDisjoint'
  BY DEF UndoneDisjoint
<1>5. Replanning'
  BY DEF Replanning, ReplannedDaysRefetched, TypeOK, Driving
<1> QED BY <1>1, <1>2, <1>3, <1>4, <1>5

LEMMA StutterQInv == ASSUME IInv, QInv, UNCHANGED vars PROVE QInv'
<1> USE DEF QInv, vars, stateDB, process, history
<1>1. FailureStops' /\ Drained' /\ UndoneDisjoint'
  BY DEF FailureStops, OneFailurePerWorker, Drained, UndoneDisjoint
<1>2. Draining' /\ Replanning'
  BY DEF Draining, Driving, Replanning, ReplannedDaysRefetched
<1> QED BY <1>1, <1>2

LEMMA NextQInv == IInv /\ QInv /\ [Next]_vars => QInv'
<1> SUFFICES ASSUME IInv, QInv, [Next]_vars PROVE QInv'
  OBVIOUS
<1>1. CASE MainStep
  BY <1>1, StartRunQInv, HealPrefixQInv, JoinLeftoverQInv, ResolveResidualQInv,
     ReleaseDoneQInv, EnqueuePlanQInv, JoinResidualQInv DEF MainStep
<1>2. ASSUME NEW w \in Workers, WorkStep(w) PROVE QInv'
  BY <1>2, CheckStopQInv, ClaimNextQInv, WriteWindowQInv, CompleteRunQInv,
     MarkDoneQInv, ReadPrefixQInv, AdvanceForwardQInv, MarkFailedQInv
     DEF WorkStep
<1>3. CASE Fault
  BY <1>3, FailUnitQInv, StoreErrorQInv, CrashQInv, ClockSetBackQInv DEF Fault
<1>4. CASE NextDay
  BY <1>4, NextDayQInv
<1>5. CASE UNCHANGED vars
  BY <1>5, StutterQInv
<1> QED BY <1>1, <1>2, <1>3, <1>4, <1>5 DEF Next

-----------------------------------------------------------------------------
(* The theorems. *)

LEMMA QueueInvariance == Spec => [](IInv /\ QInv)
BY InitQInv, NextQInv, Invariance, PTL DEF Spec

\* No partition ever has two writers: units in two hands share no day, although
\* claimed units of a dead invocation may have another width than the plan's.
THEOREM OneWriterPerDay == Spec => []SingleWriterPerDay
<1>1. IInv /\ QInv => SingleWriterPerDay
  <2> SUFFICES ASSUME IInv, QInv, NEW v \in Workers, NEW w \in Workers, v # w,
                      worker[v].pc \in Held, worker[w].pc \in Held
               PROVE  DaysOf(worker[v].unit) \cap DaysOf(worker[w].unit) = {}
    BY DEF SingleWriterPerDay
  <2>1. /\ worker[v].unit \in NotDone(units) /\ worker[w].unit \in NotDone(units)
        /\ worker[v].unit # worker[w].unit
    BY DEF IInv, HeldClaimed, NotDone
  <2> QED BY <2>1 DEF QInv, UndoneDisjoint
<1> QED BY <1>1, QueueInvariance, PTL

\* A residual is planned over a drained queue only, which is what makes
\* release_done_units safe as the one site that deletes rows.
THEOREM PlanOverDrained == Spec => []DrainedBeforePlan
<1>1. QInv => DrainedBeforePlan
  BY DEF QInv, Drained, DrainedBeforePlan
<1> QED BY <1>1, QueueInvariance, PTL

\* After its first failure a worker claims nothing more in the drive.
THEOREM FailedClaimNothing == Spec => []OneFailurePerWorker
<1>1. QInv => OneFailurePerWorker
  BY DEF QInv, FailureStops
<1> QED BY <1>1, QueueInvariance, PTL

\* An invocation that ends well refetched every day of its residual, also the
\* lookback days that earlier invocations had completed.
THEOREM LookbackRefetched == Spec => []ReplannedDaysRefetched
<1>1. QInv => ReplannedDaysRefetched
  BY DEF QInv, Replanning
<1> QED BY <1>1, QueueInvariance, PTL
=============================================================================
