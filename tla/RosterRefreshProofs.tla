------------------------ MODULE RosterRefreshProofs ------------------------
(***************************************************************************)
(* What RosterRefresh's run checks on two consumers and two members,       *)
(* proved for every number of either, every eviction threshold (or none)   *)
(* and every freshness bound.                                              *)
(***************************************************************************)
EXTENDS RosterRefresh, SequenceTheorems, TLAPS

-----------------------------------------------------------------------------
(* The inductive invariant. *)

\* The points inside the roster's lock.
Locked == {"check", "harvest", "fail", "reconcile", "apply", "complete"}

\* The points of the feeder's run and tap, and those of a consumer's call.
Reaches(t) ==
    IF t = Feeder THEN {"off", "run", "record", "wait", "reconcile", "apply"}
    ELSE {"off", "wait", "check", "harvest", "fail", "reconcile", "apply",
          "complete", "read"}

\* t has a listing in hand that is not dealt with yet.
Carries(t) ==
    \/ task[t].pc \in {"reconcile", "apply", "complete"}
    \/ t = Feeder /\ task[t].pc \in {"record", "wait"}

\* Mutual exclusion; the listing in hand is the newest one fetched, and the
\* roster has it when the harvest completes; what a reconciliation read is what
\* is stored; and a harvest on its way is still due.
TaskInv(t) ==
    /\ task[t].pc \in Reaches(t)
    /\ task[t].pc \in Locked => lock = t
    /\ Carries(t) => task[t].no = fetched
    /\ Carries(t) /\ task[t].pc # "complete" => applied < fetched
    /\ task[t].pc = "complete" => applied = fetched
    /\ task[t].pc = "apply" => task[t].seen = counts /\ task[t].listed # {}
    /\ task[t].pc = "harvest" => RefreshDue

\* The feeder and its consumers are never on their way together.
Staged ==
    /\ stage = "idle" => \A t \in Tasks : At(t, "off")
    /\ stage = "feeders" => \A t \in Consumers : At(t, "off")
    /\ stage = "consumers" => At(Feeder, "off")

\* The last listing that names m.
LastNaming(lists, m, i) ==
    /\ i \in DOMAIN lists /\ m \in lists[i]
    /\ \A j \in DOMAIN lists : m \in lists[j] => j <= i

\* Absences, of any sequence of listings.
Missing(lists, m) ==
    LET last == CHOOSE i \in DOMAIN lists :
                    /\ m \in lists[i]
                    /\ \A j \in DOMAIN lists : m \in lists[j] => j <= i
    IN  Len(lists) - last

Named(lists) == UNION {lists[i] : i \in DOMAIN lists}

\* The roster that a sequence of listings makes.
RosterOf(lists) ==
    [m \in {n \in Named(lists) : Threshold = NoThreshold
                                     \/ Missing(lists, n) <= Threshold}
        |-> Missing(lists, m)]

Recorded ==
    /\ listings \in Seq(SUBSET Members)
    /\ Len(listings) <= applied
    /\ \A m \in Named(listings) :
          \E i \in DOMAIN listings : LastNaming(listings, m, i)
    /\ counts = RosterOf(listings)
    /\ listings # <<>> => counts # NoRows
    /\ harvested <= applied

IInv ==
    /\ TypeOK
    /\ Recorded
    /\ Staged
    /\ \A t \in Tasks : TaskInv(t)

TaskRecord == [pc : Points, seen : Rows, listed : SUBSET Members, no : 0 .. MaxListings]

-----------------------------------------------------------------------------
(* Listings. *)

LEMMA MissingIs ==
    ASSUME NEW lists, NEW m, NEW i, lists \in Seq(SUBSET Members),
           LastNaming(lists, m, i)
    PROVE  Missing(lists, m) = Len(lists) - i
<1> DEFINE P(k) == /\ m \in lists[k]
                   /\ \A j \in DOMAIN lists : m \in lists[j] => j <= k
           last == CHOOSE k \in DOMAIN lists : P(k)
<1>1. last \in DOMAIN lists /\ P(last)
  BY DEF LastNaming
<1>2. DOMAIN lists = 1 .. Len(lists) /\ Len(lists) \in Nat
  BY LenProperties
<1>3. Missing(lists, m) = Len(lists) - last
  BY DEF Missing
<1> HIDE DEF last
<1>4. last <= i /\ i <= last /\ last \in Int /\ i \in Int
  BY <1>1, <1>2 DEF LastNaming
<1> QED BY <1>3, <1>4

\* One more listing: who is on it is missed no more, everybody else once more.
LEMMA OneMore ==
    ASSUME NEW lists \in Seq(SUBSET Members), NEW listed \in SUBSET Members,
           \A m \in Named(lists) : \E i \in DOMAIN lists : LastNaming(lists, m, i)
    PROVE  LET more == Append(lists, listed)
           IN  /\ more \in Seq(SUBSET Members) /\ Len(more) = Len(lists) + 1
               /\ more # <<>>
               /\ Named(more) = Named(lists) \cup listed
               /\ \A m \in Named(more) : \E i \in DOMAIN more : LastNaming(more, m, i)
               /\ \A m \in listed : Missing(more, m) = 0
               /\ \A m \in Named(lists) \ listed :
                     Missing(more, m) = Missing(lists, m) + 1
<1> DEFINE more == Append(lists, listed)
<1>1. /\ more \in Seq(SUBSET Members) /\ Len(more) = Len(lists) + 1 /\ more # <<>>
      /\ more[Len(lists) + 1] = listed
      /\ \A i \in 1 .. Len(lists) : more[i] = lists[i]
      /\ DOMAIN more = 1 .. Len(lists) + 1
      /\ DOMAIN lists = 1 .. Len(lists)
      /\ Len(lists) \in Nat
  BY AppendProperties, LenProperties
<1> HIDE DEF more
<1>2. Named(more) = Named(lists) \cup listed
  BY <1>1 DEF Named
<1>3. ASSUME NEW m \in listed
      PROVE  LastNaming(more, m, Len(lists) + 1)
  BY <1>1 DEF LastNaming
<1>4. ASSUME NEW m \in Named(lists) \ listed, NEW i \in DOMAIN lists,
             LastNaming(lists, m, i)
      PROVE  LastNaming(more, m, i) /\ i \in DOMAIN more
  BY <1>1, <1>4 DEF LastNaming
<1>5. \A m \in Named(more) : \E i \in DOMAIN more : LastNaming(more, m, i)
  BY <1>1, <1>2, <1>3, <1>4
<1>6. \A m \in listed : Missing(more, m) = 0
  <2> SUFFICES ASSUME NEW m \in listed PROVE Missing(more, m) = 0
    OBVIOUS
  <2>1. Missing(more, m) = Len(more) - (Len(lists) + 1)
    BY <1>1, <1>3, MissingIs
  <2> QED BY <1>1, <2>1
<1>7. ASSUME NEW m \in Named(lists) \ listed
      PROVE  Missing(more, m) = Missing(lists, m) + 1
  <2>1. PICK i \in DOMAIN lists : LastNaming(lists, m, i)
    OBVIOUS
  <2>2. Missing(lists, m) = Len(lists) - i
    BY <2>1, MissingIs
  <2>3. Missing(more, m) = Len(more) - i
    BY <1>1, <1>4, <2>1, MissingIs
  <2> QED BY <1>1, <2>2, <2>3
<1> QED BY <1>1, <1>2, <1>5, <1>6, <1>7 DEF more

\* A member is missed by at most all the listings.
LEMMA MissingType ==
    ASSUME NEW lists \in Seq(SUBSET Members), NEW m \in Named(lists),
           \A n \in Named(lists) : \E i \in DOMAIN lists : LastNaming(lists, n, i)
    PROVE  m \in Members /\ Missing(lists, m) \in 0 .. Len(lists)
<1>1. PICK i \in DOMAIN lists : LastNaming(lists, m, i)
  OBVIOUS
<1>2. Missing(lists, m) = Len(lists) - i
  BY <1>1, MissingIs
<1>3. DOMAIN lists = 1 .. Len(lists) /\ Len(lists) \in Nat /\ lists[i] \in SUBSET Members
  BY LenProperties, ElementOfSeq
<1> QED BY <1>1, <1>2, <1>3 DEF LastNaming

\* reconcile and RosterStore.apply over the rows that the listings so far make
\* give the rows that one more listing makes.
LEMMA AppliedIsRosterOf ==
    ASSUME NEW lists \in Seq(SUBSET Members), NEW listed \in SUBSET Members,
           \A m \in Named(lists) : \E i \in DOMAIN lists : LastNaming(lists, m, i)
    PROVE  Applied(RosterOf(lists), RosterOf(lists), listed)
               = RosterOf(Append(lists, listed))
<1> DEFINE rows == RosterOf(lists)
           more == Append(lists, listed)
           kept == {n \in Named(lists) : Threshold = NoThreshold
                                             \/ Missing(lists, n) <= Threshold}
           next == {n \in Named(more) : Threshold = NoThreshold
                                            \/ Missing(more, n) <= Threshold}
           gone == Evicted(rows, listed)
<1>1. /\ Named(more) = Named(lists) \cup listed
      /\ \A m \in listed : Missing(more, m) = 0
      /\ \A m \in Named(lists) \ listed : Missing(more, m) = Missing(lists, m) + 1
  BY OneMore
<1>2. \A m \in Named(lists) : Missing(lists, m) \in Nat
  <2> SUFFICES ASSUME NEW m \in Named(lists) PROVE Missing(lists, m) \in Nat
    OBVIOUS
  <2>1. Missing(lists, m) \in 0 .. Len(lists)
    BY MissingType
  <2> QED BY <2>1, LenProperties
<1>3. DOMAIN rows = kept /\ \A m \in kept : rows[m] = Missing(lists, m)
  BY DEF RosterOf
<1>4. RosterOf(more) = [m \in next |-> Missing(more, m)]
  BY DEF RosterOf
<1> HIDE DEF rows, more
<1>5. Threshold \in Int /\ NoThreshold = -1 /\ (Threshold # NoThreshold => Threshold \in Nat)
  BY RosterAssumption DEF NoThreshold
<1>6. gone = {m \in kept \ listed : Threshold # NoThreshold
                                       /\ Missing(lists, m) + 1 > Threshold}
  BY <1>3 DEF Evicted
<1>7. (DOMAIN rows \cup Reset(rows, listed)) \ gone = (kept \cup listed) \ gone
  BY <1>3 DEF Reset
<1>8. (kept \cup listed) \ gone = next
  <2>1. ASSUME NEW m \in (kept \cup listed) \ gone PROVE m \in next
    <3>1. CASE m \in listed
      BY <1>1, <1>5, <3>1
    <3>2. CASE m \notin listed
      BY <1>1, <1>2, <1>5, <1>6, <2>1, <3>2
    <3> QED BY <3>1, <3>2
  <2>2. ASSUME NEW m \in next PROVE m \in (kept \cup listed) \ gone
    <3>1. CASE m \in listed
      BY <1>6, <3>1
    <3>2. CASE m \notin listed
      <4>1. m \in Named(lists) /\ Missing(more, m) = Missing(lists, m) + 1
        BY <1>1, <3>2
      <4> QED BY <1>2, <1>5, <1>6, <3>2, <4>1
    <3> QED BY <3>1, <3>2
  <2> QED BY <2>1, <2>2
<1>9. ASSUME NEW m \in next
      PROVE  (IF m \in Reset(rows, listed) THEN 0
              ELSE IF m \in Missed(rows, listed) THEN rows[m] + 1
              ELSE rows[m]) = Missing(more, m)
  <2>1. CASE m \in listed
    <3>1. Missing(more, m) = 0 /\ m \notin Missed(rows, listed)
      BY <1>1, <2>1 DEF Missed
    <3> QED BY <1>3, <2>1, <3>1 DEF Reset
  <2>2. CASE m \notin listed
    <3>1. m \in kept \ gone
      BY <1>8, <2>2
    <3>2. m \notin Reset(rows, listed) /\ m \in Missed(rows, listed)
      BY <1>3, <2>2, <3>1 DEF Reset, Missed
    <3>3. Missing(more, m) = Missing(lists, m) + 1
      BY <1>1, <2>2, <3>1
    <3> QED BY <1>3, <3>1, <3>2, <3>3
  <2> QED BY <2>1, <2>2
<1>10. Applied(rows, rows, listed) =
           [m \in next |-> IF m \in Reset(rows, listed) THEN 0
                           ELSE IF m \in Missed(rows, listed) THEN rows[m] + 1
                           ELSE rows[m]]
  BY <1>7, <1>8 DEF Applied
<1>11. Applied(rows, rows, listed) = [m \in next |-> Missing(more, m)]
  BY <1>9, <1>10
<1> QED BY <1>4, <1>11 DEF rows, more

\* The stored counts are typed because they are what the listings make.
LEMMA RowsTyped ==
    ASSUME NEW lists \in Seq(SUBSET Members), Len(lists) <= MaxListings,
           \A m \in Named(lists) : \E i \in DOMAIN lists : LastNaming(lists, m, i)
    PROVE  RosterOf(lists) \in Rows
<1> DEFINE kept == {n \in Named(lists) : Threshold = NoThreshold
                                             \/ Missing(lists, n) <= Threshold}
<1>1. \A m \in kept : m \in Members /\ Missing(lists, m) \in 0 .. Len(lists)
  BY MissingType
<1>2. Len(lists) \in Nat
  BY LenProperties
<1>3. \A m \in kept : Missing(lists, m) \in Counts
  BY <1>1, <1>2, RosterAssumption DEF Counts
<1>4. RosterOf(lists) = [m \in kept |-> Missing(lists, m)]
  BY DEF RosterOf
<1>5. kept \in SUBSET Members
  BY <1>1
<1> HIDE DEF kept
<1>6. RosterOf(lists) \in [kept -> Counts]
  BY <1>3, <1>4
<1> QED BY <1>5, <1>6 DEF Rows

-----------------------------------------------------------------------------
(* Tasks. *)

LEMMA TaskTyped ==
    ASSUME IInv, NEW t \in Tasks
    PROVE  /\ task \in [Tasks -> TaskRecord] /\ task[t] \in TaskRecord
           /\ TaskInv(t)
           /\ t # Nobody
BY RosterAssumption DEF IInv, TypeOK, TaskRecord, Tasks

\* While t is inside the lock, or is the feeder on its way, nobody else is
\* inside the lock or has a listing in hand.
LEMMA Alone ==
    ASSUME IInv, NEW t \in Tasks, NEW u \in Tasks \ {t},
           task[t].pc \in Locked \/ (t = Feeder /\ task[t].pc # "off")
    PROVE  task[u].pc \notin Locked /\ ~Carries(u)
<1>1. TaskInv(t) /\ TaskInv(u) /\ Staged /\ stage \in {"idle", "feeders", "consumers"}
  BY TaskTyped DEF IInv, TypeOK
<1>2. task[t].pc # "off"
  BY DEF Locked
<1>3. CASE t = Feeder
  <2>1. u \in Consumers /\ task[u].pc = "off"
    BY <1>1, <1>2, <1>3 DEF Staged, At, Tasks
  <2> QED BY <1>3, <2>1 DEF Locked, Carries
<1>4. CASE t # Feeder
  <2>1. task[t].pc \in Locked /\ lock = t
    BY <1>1, <1>4 DEF TaskInv
  <2>2. task[u].pc \notin Locked
    BY <1>1, <2>1 DEF TaskInv
  <2>3. u = Feeder => task[u].pc = "off"
    BY <1>1, <1>2, <1>4 DEF Staged, At, Tasks
  <2> QED BY <2>2, <2>3 DEF Locked, Carries
<1> QED BY <1>3, <1>4

\* Somebody else's step, when the rows, the ledger and the fetches stand.
LEMMA OthersKeep ==
    ASSUME IInv, NEW t \in Tasks, NEW u \in Tasks \ {t}, task'[u] = task[u],
           lock' = lock \/ lock \in {t, Nobody},
           UNCHANGED <<counts, lastSuccess, now, fetched, applied>>
    PROVE  TaskInv(u)'
<1>1. TaskInv(u) /\ u # Nobody
  BY TaskTyped
<1>2. task'[u].pc \in Locked => lock' = u
  BY <1>1 DEF TaskInv
<1>3. RefreshDue' <=> RefreshDue
  BY DEF RefreshDue, IsRosterStale
<1> QED BY <1>1, <1>2, <1>3 DEF TaskInv, Carries

\* Somebody else's step, whatever it writes, when u is out of the lock.
LEMMA OthersOutside ==
    ASSUME IInv, NEW u \in Tasks, task'[u] = task[u],
           task[u].pc \notin Locked, ~Carries(u)
    PROVE  TaskInv(u)'
BY TaskTyped DEF TaskInv, Carries, Locked, Reaches

\* A step of t that writes neither the rows nor the ledger nor the fetches.
LEMMA QuietStep ==
    ASSUME IInv, NEW t \in Tasks, NEW rec \in TaskRecord,
           task' = [task EXCEPT ![t] = rec],
           lock' = lock \/ lock \in {t, Nobody}, lock' \in Tasks \cup {Nobody},
           UNCHANGED <<counts, lastSuccess, now, fetched, ledgered, harvested,
                       applied, listings>>,
           stage' \in {"idle", "feeders", "consumers"}, selected' \subseteq Tasks,
           faults' \in 0 .. MaxFaults,
           Staged', TaskInv(t)'
    PROVE  IInv'
<1>1. task \in [Tasks -> TaskRecord] /\ task' \in [Tasks -> TaskRecord]
      /\ \A u \in Tasks \ {t} : task'[u] = task[u]
  BY TaskTyped
<1>2. TypeOK'
  BY <1>1 DEF IInv, TypeOK, TaskRecord
<1>3. Recorded'
  BY DEF IInv, Recorded
<1>4. \A u \in Tasks \ {t} : TaskInv(u)'
  BY <1>1, OthersKeep
<1> QED BY <1>2, <1>3, <1>4 DEF IInv

\* A task on its way that goes on, or off, keeps the stages apart.
LEMMA StagedKept ==
    ASSUME IInv, NEW t \in Tasks, task[t].pc # "off", stage' = stage,
           \A u \in Tasks \ {t} : task'[u] = task[u]
    PROVE  Staged'
<1>1. Staged /\ stage \in {"idle", "feeders", "consumers"}
  BY DEF IInv, TypeOK
<1>2. CASE t = Feeder
  <2>1. stage = "feeders"
    BY <1>1, <1>2 DEF Staged, At
  <2> QED BY <1>1, <1>2, <2>1, RosterAssumption DEF Staged, At, Tasks
<1>3. CASE t # Feeder
  <2>1. stage = "consumers" /\ Feeder \in Tasks
    BY <1>1, <1>3 DEF Staged, At, Tasks
  <2> QED BY <1>1, <1>3, <2>1 DEF Staged, At, Tasks
<1> QED BY <1>2, <1>3

LEMMA OffTyped ==
    ASSUME NEW p \in Points
    PROVE  Off \in TaskRecord /\ Off.pc = "off" /\ [Off EXCEPT !.pc = p] \in TaskRecord
           /\ [Off EXCEPT !.pc = p].pc = p
<1>1. NoRows \in Rows
  <2>1. NoRows \in [{} -> Counts] /\ {} \in SUBSET Members
    BY DEF NoRows
  <2> QED BY <2>1 DEF Rows
<1>2. Off \in TaskRecord
  BY <1>1, RosterAssumption DEF Off, TaskRecord, Points
<1>3. Off.pc = "off"
  BY DEF Off
<1> HIDE DEF Off
<1> QED BY <1>2, <1>3 DEF TaskRecord

\* A program counter that moves: the rest of the record stays.
LEMMA PcMoved ==
    ASSUME IInv, NEW t \in Tasks, NEW p \in Points, Goto(t, p)
    PROVE  /\ [task[t] EXCEPT !.pc = p] \in TaskRecord
           /\ task' = [task EXCEPT ![t] = [task[t] EXCEPT !.pc = p]]
           /\ task'[t].pc = p /\ task'[t].seen = task[t].seen
           /\ task'[t].listed = task[t].listed /\ task'[t].no = task[t].no
           /\ \A u \in Tasks \ {t} : task'[u] = task[u]
<1> DEFINE rec == [task[t] EXCEPT !.pc = p]
<1>1. task \in [Tasks -> TaskRecord] /\ task[t] \in TaskRecord
  BY TaskTyped
<1>2. rec \in TaskRecord
  BY <1>1, Zenon DEF TaskRecord
<1>3. rec.pc = p /\ rec.seen = task[t].seen /\ rec.listed = task[t].listed
      /\ rec.no = task[t].no
  BY <1>1 DEF TaskRecord
<1>4. task' = [task EXCEPT ![t] = rec]
  BY <1>1 DEF Goto
<1> HIDE DEF rec
<1>5. task'[t] = rec /\ \A u \in Tasks \ {t} : task'[u] = task[u]
  BY <1>1, <1>4
<1> QED BY <1>2, <1>3, <1>4, <1>5 DEF rec

-----------------------------------------------------------------------------
(* The invariant holds at first and is kept by every action. *)

LEMMA InitIInv == Init => IInv
<1> SUFFICES ASSUME Init PROVE IInv
  OBVIOUS
<1> USE DEF Init
<1>1. NoRows \in Rows /\ Off \in TaskRecord /\ Off.pc = "off"
  <2>1. NoRows \in [{} -> Counts] /\ {} \in SUBSET Members
    BY DEF NoRows
  <2>2. "off" \in Points
    BY DEF Points
  <2> QED BY <2>1, <2>2, OffTyped DEF Rows
<1> HIDE DEF Off
<1>2. Len(listings) = 0 /\ listings \in Seq(SUBSET Members) /\ DOMAIN listings = {}
  BY EmptySeq, LenProperties
<1>3. TypeOK
  BY <1>1, <1>2, RosterAssumption DEF TypeOK, TaskRecord
<1>4. Named(listings) = {}
  BY <1>2 DEF Named
<1>5. counts = RosterOf(listings)
  BY <1>4 DEF RosterOf, NoRows
<1>6. Recorded
  BY <1>2, <1>4, <1>5 DEF Recorded
<1>7. \A t \in Tasks : TaskInv(t)
  BY <1>1 DEF TaskInv, Carries, Reaches, Locked
<1>8. Staged
  BY <1>1, RosterAssumption DEF Staged, At, Tasks
<1> QED BY <1>3, <1>6, <1>7, <1>8 DEF IInv

\* A stage starts: the tasks entered are in front of their work, the rest off.
LEMMA EnterKeeps ==
    ASSUME IInv, NEW names \in SUBSET Tasks, NEW p \in {"run", "wait"},
           \A t \in Tasks : At(t, "off"),
           task' = Enter(names, p),
           p = "run" => names = {Feeder} /\ stage' = "feeders",
           p = "wait" => Feeder \notin names /\ stage' = "consumers",
           selected' \subseteq Tasks,
           UNCHANGED <<counts, lastSuccess, now, lock, history>>
    PROVE  IInv'
<1>1. /\ Off \in TaskRecord /\ [Off EXCEPT !.pc = p] \in TaskRecord
      /\ Off.pc = "off" /\ [Off EXCEPT !.pc = p].pc = p
  BY OffTyped DEF Points
<1> HIDE DEF Off
<1>2. /\ task' \in [Tasks -> TaskRecord]
      /\ \A t \in Tasks : task'[t].pc = IF t \in names THEN p ELSE "off"
  BY <1>1 DEF Enter
<1>3. UNCHANGED <<fetched, ledgered, harvested, applied, listings, faults>>
  BY DEF history
<1>4. TypeOK'
  BY <1>2, <1>3 DEF IInv, TypeOK, TaskRecord
<1>5. Recorded'
  BY <1>3 DEF IInv, Recorded
<1>6. Staged'
  BY <1>2, RosterAssumption DEF Staged, At, Tasks
<1>7. \A t \in Tasks : TaskInv(t)'
  BY <1>2 DEF TaskInv, Carries, Reaches, Locked
<1> QED BY <1>4, <1>5, <1>6, <1>7 DEF IInv

LEMMA StagesKeep ==
    ASSUME IInv, StartSync \/ Barrier \/ EndSync
    PROVE  IInv'
<1>1. Feeder \in Tasks /\ Staged /\ selected \subseteq Tasks
  BY DEF Tasks, IInv, TypeOK
<1>2. CASE StartSync
  <2>1. PICK names \in SUBSET Tasks \ {{}} :
            /\ selected' = names
            /\ IF Feeder \in names
               THEN stage' = "feeders" /\ task' = Enter({Feeder}, "run")
               ELSE stage' = "consumers" /\ task' = Enter(names, "wait")
    BY <1>2 DEF StartSync
  <2>2. \A t \in Tasks : At(t, "off")
    BY <1>1, <1>2 DEF StartSync, Staged
  <2>3. UNCHANGED <<counts, lastSuccess, now, lock, history>>
    BY <1>2 DEF StartSync
  <2>4. CASE Feeder \in names
    BY <1>1, <2>1, <2>2, <2>3, <2>4, EnterKeeps
  <2>5. CASE Feeder \notin names
    BY <1>1, <2>1, <2>2, <2>3, <2>5, EnterKeeps
  <2> QED BY <2>4, <2>5
<1>3. CASE Barrier
  <2>1. \A t \in Tasks : At(t, "off")
    BY <1>1, <1>3 DEF Barrier, Staged, Tasks
  <2>2. /\ task' = Enter(selected \ {Feeder}, "wait") /\ stage' = "consumers"
        /\ UNCHANGED <<counts, lastSuccess, now, selected, lock, history>>
    BY <1>3 DEF Barrier
  <2> QED BY <1>1, <2>1, <2>2, EnterKeeps
<1>4. CASE EndSync
  <2>1. /\ \A t \in Tasks : At(t, "off")
        /\ stage' = "idle" /\ selected' = {}
        /\ UNCHANGED <<counts, lastSuccess, now, lock, task, fetched, ledgered,
                       harvested, applied, listings, faults>>
    BY <1>4 DEF EndSync, history
  <2>2. TypeOK' /\ Recorded' /\ Staged'
    BY <2>1 DEF IInv, TypeOK, Recorded, Staged, At
  <2>3. ASSUME NEW t \in Tasks PROVE TaskInv(t)'
    BY <2>1, TaskTyped
       DEF TaskInv, Carries, RefreshDue, IsRosterStale
  <2> QED BY <2>2, <2>3 DEF IInv
<1> QED BY <1>2, <1>3, <1>4

\* A task ends: the lock, if it had it, is free again.
LEMMA EndKeeps ==
    ASSUME IInv, NEW t \in Tasks, task' = [task EXCEPT ![t] = Off],
           lock' = lock \/ Unlock(t), Staged',
           UNCHANGED <<counts, lastSuccess, now, fetched, ledgered, harvested,
                       applied, listings>>,
           stage' \in {"idle", "feeders", "consumers"}, selected' \subseteq Tasks,
           faults' \in 0 .. MaxFaults
    PROVE  IInv'
<1>1. "off" \in Points
  BY DEF Points
<1>2. Off \in TaskRecord /\ Off.pc = "off"
  BY <1>1, OffTyped
<1> HIDE DEF Off
<1>3. task'[t] = Off
  BY TaskTyped
<1>4. TaskInv(t)'
  BY <1>2, <1>3 DEF TaskInv, Carries, Reaches, Locked
<1>5. /\ lock' = lock \/ lock \in {t, Nobody}
      /\ lock' \in Tasks \cup {Nobody}
  BY DEF Unlock, IInv, TypeOK
<1> QED BY <1>2, <1>4, <1>5, QuietStep

\* The same for a task that ends inside a stage that goes on.
LEMMA EndsInStage ==
    ASSUME IInv, NEW t \in Tasks, task[t].pc # "off",
           task' = [task EXCEPT ![t] = Off], lock' = lock \/ Unlock(t),
           UNCHANGED <<counts, lastSuccess, now, stage, selected, history>>
    PROVE  IInv'
<1>1. \A u \in Tasks \ {t} : task'[u] = task[u]
  BY TaskTyped
<1>2. UNCHANGED <<fetched, ledgered, harvested, applied, listings, faults>>
  BY DEF history
<1>3. /\ stage' \in {"idle", "feeders", "consumers"} /\ selected' \subseteq Tasks
      /\ faults' \in 0 .. MaxFaults
  BY <1>2 DEF IInv, TypeOK
<1> QED BY <1>1, <1>2, <1>3, StagedKept, EndKeeps

\* A task that only moves on.
LEMMA MovesKeeps ==
    ASSUME IInv, NEW t \in Tasks, NEW p \in Points, Goto(t, p), task[t].pc # "off",
           lock' = lock \/ lock \in {t, Nobody}, lock' \in Tasks \cup {Nobody},
           UNCHANGED <<counts, lastSuccess, now, stage, selected, history>>,
           TaskInv(t)'
    PROVE  IInv'
<1>1. UNCHANGED <<fetched, ledgered, harvested, applied, listings, faults>>
  BY DEF history
<1>2. /\ stage' \in {"idle", "feeders", "consumers"} /\ selected' \subseteq Tasks
      /\ faults' \in 0 .. MaxFaults
  BY <1>1 DEF IInv, TypeOK
<1>3. /\ [task[t] EXCEPT !.pc = p] \in TaskRecord
      /\ task' = [task EXCEPT ![t] = [task[t] EXCEPT !.pc = p]]
      /\ \A u \in Tasks \ {t} : task'[u] = task[u]
  BY PcMoved
<1> QED BY <1>1, <1>2, <1>3, StagedKept, QuietStep

\* A listing fetched is the newest, and newer than every one reconciled.
LEMMA ListingKeeps ==
    ASSUME IInv, NEW t \in Tasks, NEW p, Listing(t, p),
           \/ t = Feeder /\ task[t].pc = "run" /\ p = "record"
           \/ t # Feeder /\ task[t].pc = "harvest" /\ p = "reconcile",
           UNCHANGED <<counts, lastSuccess, now, stage, selected, lock, ledgered,
                       harvested, applied, listings, faults>>
    PROVE  IInv'
<1>1. /\ task \in [Tasks -> TaskRecord] /\ task[t] \in TaskRecord /\ TaskInv(t)
      /\ p \in Points
  BY TaskTyped DEF Points
<1>2. PICK listed \in SUBSET Members :
          task' = [task EXCEPT ![t].pc = p, ![t].listed = listed,
                               ![t].no = fetched + 1]
  BY DEF Listing
<1>3. fetched < MaxListings /\ fetched' = fetched + 1 /\ fetched \in Nat
      /\ fetched + 1 \in 0 .. MaxListings
  BY RosterAssumption DEF Listing, IInv, TypeOK
<1> DEFINE rec == [task[t] EXCEPT !.pc = p, !.listed = listed, !.no = fetched + 1]
<1>4. task' = [task EXCEPT ![t] = rec]
  BY <1>1, <1>2
<1>5. rec \in TaskRecord
  BY <1>1, <1>3, Zenon DEF TaskRecord
<1>6. rec.pc = p /\ rec.no = fetched + 1
  BY <1>1 DEF TaskRecord
<1> HIDE DEF rec
<1>7. /\ task' \in [Tasks -> TaskRecord] /\ task'[t] = rec
      /\ \A u \in Tasks \ {t} : task'[u] = task[u]
  BY <1>1, <1>4, <1>5
<1>8. {ledgered, harvested, applied} \subseteq 0 .. fetched
  BY DEF IInv, TypeOK
<1>9. TypeOK'
  BY <1>3, <1>7, <1>8, RosterAssumption DEF IInv, TypeOK, TaskRecord
<1>10. Recorded'
  BY DEF IInv, Recorded
<1>11. Staged'
  BY <1>7, StagedKept
<1>12. TaskInv(t)'
  BY <1>1, <1>3, <1>6, <1>7, <1>8 DEF TaskInv, Carries, Reaches, Locked
<1>13. ASSUME NEW u \in Tasks \ {t} PROVE TaskInv(u)'
  BY <1>7, Alone, OthersOutside DEF Locked
<1> QED BY <1>9, <1>10, <1>11, <1>12, <1>13 DEF IInv

LEMMA FeederRunKeeps ==
    ASSUME IInv, FeederRun
    PROVE  IInv'
<1>1. Feeder \in Tasks /\ task[Feeder].pc = "run"
  BY DEF Tasks, FeederRun, At
<1>2. CASE Listing(Feeder, "record")
  BY <1>1, <1>2, ListingKeeps DEF FeederRun
<1>3. CASE task' = [task EXCEPT ![Feeder] = Off] /\ UNCHANGED fetched
  BY <1>1, <1>3, EndsInStage DEF FeederRun, history
<1> QED BY <1>2, <1>3 DEF FeederRun

\* The ledger's last success moves on; whoever might harvest is off.
LEMMA LedgerMoves ==
    ASSUME IInv, lastSuccess' = Later(lastSuccess, now)
    PROVE  lastSuccess' \in {Never} \cup 0 .. now
BY DEF IInv, TypeOK, Later

LEMMA FeederRecordKeeps ==
    ASSUME IInv, FeederRecord
    PROVE  IInv'
<1>1. /\ Feeder \in Tasks /\ task[Feeder].pc = "record" /\ Goto(Feeder, "wait")
      /\ "wait" \in Points /\ lastSuccess' = Later(lastSuccess, now)
      /\ ledgered' = IF task[Feeder].listed = {} THEN ledgered ELSE task[Feeder].no
      /\ UNCHANGED <<counts, now, stage, selected, lock, fetched, harvested,
                     applied, listings, faults>>
  BY DEF Tasks, FeederRecord, At, Points
<1>2. TaskInv(Feeder) /\ task[Feeder].no = fetched /\ fetched \in Nat
  BY <1>1, TaskTyped DEF TaskInv, Carries, IInv, TypeOK
<1>3. /\ task'[Feeder].pc = "wait" /\ task'[Feeder].no = task[Feeder].no
      /\ \A u \in Tasks \ {Feeder} : task'[u] = task[u]
  BY <1>1, PcMoved
<1>4. task' \in [Tasks -> TaskRecord]
  BY <1>1, PcMoved, TaskTyped
<1>5. TypeOK'
  BY <1>1, <1>2, <1>4, LedgerMoves DEF IInv, TypeOK, TaskRecord
<1>6. Recorded' /\ Staged'
  BY <1>1, <1>3, StagedKept DEF IInv, Recorded
<1>7. TaskInv(Feeder)'
  BY <1>1, <1>2, <1>3 DEF TaskInv, Carries, Reaches, Locked
<1>8. ASSUME NEW u \in Tasks \ {Feeder} PROVE TaskInv(u)'
  BY <1>1, <1>3, Alone, OthersOutside
<1> QED BY <1>5, <1>6, <1>7, <1>8 DEF IInv

LEMMA AcquireLockKeeps ==
    ASSUME IInv, NEW t \in Tasks, AcquireLock(t)
    PROVE  IInv'
<1> DEFINE p == IF t = Feeder THEN "reconcile" ELSE "check"
<1>1. /\ task[t].pc = "wait" /\ lock = Nobody /\ lock' = t /\ Goto(t, p)
      /\ UNCHANGED <<counts, lastSuccess, now, stage, selected, history>>
  BY DEF AcquireLock, At
<1>2. p \in Points /\ TaskInv(t)
  BY TaskTyped DEF Points
<1>3. /\ task'[t].pc = p /\ task'[t].no = task[t].no
  BY <1>1, <1>2, PcMoved
<1>4. TaskInv(t)'
  <2>1. UNCHANGED <<fetched, applied>>
    BY <1>1 DEF history
  <2> QED BY <1>1, <1>2, <1>3, <2>1 DEF TaskInv, Carries, Reaches
<1> HIDE DEF p
<1> QED BY <1>1, <1>2, <1>4, MovesKeeps

\* The call that finds the roster fresh goes on to read it.
LEMMA ReleaseKeeps ==
    ASSUME IInv, NEW t \in Tasks, t # Feeder, task[t].pc # "off",
           Goto(t, "read"), Unlock(t),
           UNCHANGED <<counts, lastSuccess, now, stage, selected, history>>
    PROVE  IInv'
<1>1. "read" \in Points
  BY DEF Points
<1>2. task'[t].pc = "read"
  BY <1>1, PcMoved
<1>3. TaskInv(t)'
  BY <1>2 DEF TaskInv, Carries, Reaches, Locked
<1>4. /\ lock' = lock \/ lock \in {t, Nobody}
      /\ lock' \in Tasks \cup {Nobody}
  BY DEF Unlock, IInv, TypeOK
<1> QED BY <1>1, <1>3, <1>4, MovesKeeps

\* A reading of the rows before the next step.
LEMMA ReadsKeeps ==
    ASSUME IInv, NEW t \in Tasks, NEW p \in Points, task[t].pc # "off",
           task' = [task EXCEPT ![t].pc = p, ![t].seen = counts],
           UNCHANGED <<counts, lastSuccess, now, stage, selected, lock, history>>,
           p \in Reaches(t) \ {"complete"}, p \in Locked => lock = t,
           p = "harvest" => RefreshDue,
           p \in {"record", "wait", "reconcile", "apply"} => Carries(t) /\ task[t].pc # "complete",
           p = "apply" => task[t].listed # {}
    PROVE  IInv'
<1> DEFINE rec == [task[t] EXCEPT !.pc = p, !.seen = counts]
<1>1. /\ task \in [Tasks -> TaskRecord] /\ task[t] \in TaskRecord /\ TaskInv(t)
      /\ counts \in Rows
  BY TaskTyped DEF IInv, TypeOK
<1>2. rec \in TaskRecord
  BY <1>1, Zenon DEF TaskRecord
<1>3. rec.pc = p /\ rec.seen = counts /\ rec.listed = task[t].listed
      /\ rec.no = task[t].no
  BY <1>1 DEF TaskRecord
<1>4. task' = [task EXCEPT ![t] = rec]
  BY <1>1
<1> HIDE DEF rec
<1>5. task'[t] = rec /\ \A u \in Tasks \ {t} : task'[u] = task[u]
  BY <1>1, <1>4
<1>6. UNCHANGED <<fetched, ledgered, harvested, applied, listings, faults>>
  BY DEF history
<1>7. RefreshDue' <=> RefreshDue
  BY DEF RefreshDue, IsRosterStale
<1>8. TaskInv(t)'
  BY <1>1, <1>3, <1>5, <1>6, <1>7 DEF TaskInv, Carries, Reaches
<1>9. /\ stage' \in {"idle", "feeders", "consumers"} /\ selected' \subseteq Tasks
      /\ faults' \in 0 .. MaxFaults /\ lock' \in Tasks \cup {Nobody}
  BY <1>6 DEF IInv, TypeOK
<1> QED BY <1>2, <1>4, <1>5, <1>6, <1>8, <1>9, StagedKept, QuietStep

LEMMA CheckDueKeeps ==
    ASSUME IInv, NEW t \in Tasks, CheckDue(t)
    PROVE  IInv'
<1>1. /\ task[t].pc = "check" /\ TaskInv(t)
      /\ UNCHANGED <<counts, lastSuccess, now, stage, selected, history>>
  BY TaskTyped DEF CheckDue, At
<1>2. t # Feeder /\ lock = t
  BY <1>1 DEF TaskInv, Reaches, Locked
<1>3. CASE RefreshDue
  <2>1. task' = [task EXCEPT ![t].pc = "harvest", ![t].seen = counts] /\ lock' = lock
    BY <1>3 DEF CheckDue
  <2>2. "harvest" \in Points /\ "harvest" \in Reaches(t) \ {"complete"}
    BY <1>2 DEF Points, Reaches
  <2> QED BY <1>1, <1>2, <1>3, <2>1, <2>2, ReadsKeeps
<1>4. CASE ~RefreshDue
  BY <1>1, <1>2, <1>4, ReleaseKeeps DEF CheckDue
<1> QED BY <1>3, <1>4

LEMMA FailsKeeps ==
    ASSUME IInv, NEW t \in Tasks, t # Feeder, task[t].pc \in {"harvest", "reconcile"},
           Goto(t, "fail"),
           UNCHANGED <<counts, lastSuccess, now, stage, selected, lock, history>>
    PROVE  IInv'
<1>1. "fail" \in Points /\ TaskInv(t) /\ lock \in Tasks \cup {Nobody}
  BY TaskTyped DEF Points, IInv, TypeOK
<1>2. task'[t].pc = "fail"
  BY <1>1, PcMoved
<1>3. TaskInv(t)'
  BY <1>1, <1>2 DEF TaskInv, Carries, Reaches, Locked
<1> QED BY <1>1, <1>3, MovesKeeps

LEMMA HarvestKeeps ==
    ASSUME IInv, NEW t \in Tasks, Harvest(t)
    PROVE  IInv'
<1>1. task[t].pc = "harvest" /\ t # Feeder
  BY TaskTyped DEF Harvest, At, TaskInv, Reaches
<1>2. CASE Listing(t, "reconcile")
  BY <1>1, <1>2, ListingKeeps DEF Harvest
<1>3. CASE Goto(t, "fail") /\ UNCHANGED fetched
  BY <1>1, <1>3, FailsKeeps DEF Harvest, history
<1> QED BY <1>2, <1>3 DEF Harvest

LEMMA ReconcileListingKeeps ==
    ASSUME IInv, NEW t \in Tasks, ReconcileListing(t)
    PROVE  IInv'
<1>1. /\ task[t].pc = "reconcile" /\ TaskInv(t)
      /\ UNCHANGED <<counts, lastSuccess, now, stage, selected, history>>
  BY TaskTyped DEF ReconcileListing, At
<1>2. CASE task[t].listed # {}
  <2>1. task' = [task EXCEPT ![t].pc = "apply", ![t].seen = counts] /\ lock' = lock
    BY <1>2 DEF ReconcileListing
  <2>2. "apply" \in Points /\ "apply" \in Reaches(t) \ {"complete"} /\ lock = t
        /\ Carries(t)
    BY <1>1 DEF Points, Reaches, TaskInv, Locked, Carries
  <2> QED BY <1>1, <1>2, <2>1, <2>2, ReadsKeeps
<1>3. CASE task[t].listed = {} /\ t = Feeder
  BY <1>1, <1>3, EndsInStage DEF ReconcileListing
<1>4. CASE task[t].listed = {} /\ t # Feeder
  BY <1>1, <1>4, FailsKeeps DEF ReconcileListing
<1> QED BY <1>2, <1>3, <1>4

\* The reconciliation: the rows read are the rows stored, so what is written is
\* what one more listing makes.
LEMMA ApplyDeltaKeeps ==
    ASSUME IInv, NEW t \in Tasks, ApplyDelta(t)
    PROVE  IInv'
<1> DEFINE listed == task[t].listed
<1>1. /\ task[t].pc = "apply" /\ TaskInv(t) /\ task[t] \in TaskRecord
      /\ counts' = Applied(counts, task[t].seen, listed)
      /\ applied' = task[t].no
      /\ listings' = Append(listings, listed)
      /\ UNCHANGED <<lastSuccess, now, stage, selected, fetched, ledgered,
                     harvested, faults>>
  BY TaskTyped DEF ApplyDelta, At
<1>2. /\ task[t].seen = counts /\ listed # {} /\ listed \in SUBSET Members
      /\ task[t].no = fetched /\ applied < fetched
  BY <1>1 DEF TaskInv, Carries, TaskRecord
<1> HIDE DEF listed
<1>3. /\ counts = RosterOf(listings) /\ listings \in Seq(SUBSET Members)
      /\ Len(listings) <= applied /\ Len(listings) \in Nat
      /\ \A m \in Named(listings) : \E i \in DOMAIN listings : LastNaming(listings, m, i)
      /\ harvested <= applied
  BY LenProperties DEF IInv, Recorded
<1>4. /\ {ledgered, harvested, applied} \subseteq 0 .. fetched
      /\ fetched \in 0 .. MaxListings /\ MaxListings \in Nat
  BY RosterAssumption DEF IInv, TypeOK
<1>5. counts' = RosterOf(listings')
  BY <1>1, <1>2, <1>3, AppliedIsRosterOf
<1>6. /\ listings' \in Seq(SUBSET Members) /\ Len(listings') = Len(listings) + 1
      /\ \A m \in Named(listings') :
            \E i \in DOMAIN listings' : LastNaming(listings', m, i)
      /\ Named(listings') = Named(listings) \cup listed
      /\ \A m \in listed : Missing(listings', m) = 0
  BY <1>1, <1>2, <1>3, OneMore
<1>7. Len(listings') <= applied' /\ Len(listings') \in 0 .. MaxListings
      /\ harvested' <= applied'
  BY <1>1, <1>2, <1>3, <1>4, <1>6
<1>8. counts' # NoRows
  <2>1. PICK m \in listed : TRUE
    BY <1>2
  <2>2. m \in Named(listings') /\ Missing(listings', m) = 0
    BY <1>6
  <2>3. Threshold = NoThreshold \/ 0 <= Threshold
    BY RosterAssumption
  <2>4. m \in DOMAIN RosterOf(listings')
    BY <2>2, <2>3 DEF RosterOf
  <2> QED BY <1>5, <2>4 DEF NoRows
<1>9. counts' \in Rows
  <2>1. Len(listings') <= MaxListings
    BY <1>4, <1>7
  <2> QED BY <1>5, <1>6, <2>1, RowsTyped
<1>10. Recorded'
  BY <1>5, <1>6, <1>7, <1>8 DEF Recorded
<1>11. /\ task' \in [Tasks -> TaskRecord]
       /\ \A u \in Tasks \ {t} : task'[u] = task[u]
       /\ TaskInv(t)'
  <2>1. CASE t = Feeder
    <3>1. task' = [task EXCEPT ![t] = Off]
      BY <2>1 DEF ApplyDelta
    <3>2. Off \in TaskRecord /\ Off.pc = "off"
      BY OffTyped DEF Points
    <3> HIDE DEF Off
    <3>3. task'[t] = Off /\ \A u \in Tasks \ {t} : task'[u] = task[u]
      BY <3>1, TaskTyped
    <3>4. task' \in [Tasks -> TaskRecord]
      BY <3>1, <3>2, TaskTyped
    <3> QED BY <3>2, <3>3, <3>4 DEF TaskInv, Carries, Reaches, Locked
  <2>2. CASE t # Feeder
    <3>1. Goto(t, "complete") /\ lock' = lock /\ "complete" \in Points
      BY <2>2 DEF ApplyDelta, Points
    <3>2. /\ task'[t].pc = "complete" /\ task'[t].no = task[t].no
          /\ \A u \in Tasks \ {t} : task'[u] = task[u]
      BY <3>1, PcMoved
    <3>3. task' \in [Tasks -> TaskRecord]
      BY <3>1, PcMoved, TaskTyped
    <3> QED BY <1>1, <1>2, <2>2, <3>1, <3>2, <3>3
            DEF TaskInv, Carries, Reaches, Locked
  <2> QED BY <2>1, <2>2
<1>12. lock' \in Tasks \cup {Nobody}
  BY DEF ApplyDelta, Unlock, IInv, TypeOK
<1>13. TypeOK'
  BY <1>1, <1>2, <1>4, <1>7, <1>9, <1>11, <1>12 DEF IInv, TypeOK, TaskRecord
<1>14. Staged'
  BY <1>1, <1>11, StagedKept
<1>15. ASSUME NEW u \in Tasks \ {t} PROVE TaskInv(u)'
  BY <1>1, <1>11, Alone, OthersOutside DEF Locked
<1> QED BY <1>10, <1>11, <1>13, <1>14, <1>15 DEF IInv

\* A harvest is ledgered when its listing, the newest, is in the roster.
LEMMA CompleteHarvestKeeps ==
    ASSUME IInv, NEW t \in Tasks, CompleteHarvest(t)
    PROVE  IInv'
<1>1. /\ task[t].pc = "complete" /\ TaskInv(t)
      /\ lastSuccess' = Later(lastSuccess, now)
      /\ ledgered' = task[t].no /\ harvested' = task[t].no
      /\ Goto(t, "read") /\ Unlock(t) /\ "read" \in Points
      /\ UNCHANGED <<counts, now, stage, selected, fetched, applied, listings, faults>>
  BY TaskTyped DEF CompleteHarvest, At, Points
<1>2. /\ t # Feeder /\ task[t].no = fetched /\ applied = fetched /\ fetched \in Nat
  BY <1>1 DEF TaskInv, Carries, Reaches, IInv, TypeOK
<1>3. /\ task'[t].pc = "read" /\ \A u \in Tasks \ {t} : task'[u] = task[u]
  BY <1>1, PcMoved
<1>4. task' \in [Tasks -> TaskRecord] /\ lock' \in Tasks \cup {Nobody}
  <2>1. task' \in [Tasks -> TaskRecord]
    BY <1>1, PcMoved, TaskTyped
  <2>2. lock' \in Tasks \cup {Nobody}
    BY <1>1 DEF Unlock, IInv, TypeOK
  <2> QED BY <2>1, <2>2
<1>5. TypeOK'
  BY <1>1, <1>2, <1>4, LedgerMoves DEF IInv, TypeOK, TaskRecord
<1>6. Recorded'
  BY <1>1, <1>2 DEF IInv, Recorded
<1>7. Staged'
  BY <1>1, <1>3, StagedKept
<1>8. TaskInv(t)'
  BY <1>2, <1>3 DEF TaskInv, Carries, Reaches, Locked
<1>9. ASSUME NEW u \in Tasks \ {t} PROVE TaskInv(u)'
  BY <1>1, <1>3, Alone, OthersOutside DEF Locked
<1> QED BY <1>5, <1>6, <1>7, <1>8, <1>9 DEF IInv

LEMMA FailHarvestKeeps ==
    ASSUME IInv, NEW t \in Tasks, FailHarvest(t)
    PROVE  IInv'
<1>1. /\ task[t].pc = "fail" /\ Unlock(t) /\ t # Feeder
      /\ UNCHANGED <<counts, lastSuccess, now, stage, selected, history>>
  BY TaskTyped DEF FailHarvest, At, TaskInv, Reaches
<1>2. CASE task[t].seen = NoRows
  BY <1>1, <1>2, EndsInStage DEF FailHarvest
<1>3. CASE task[t].seen # NoRows
  BY <1>1, <1>3, ReleaseKeeps DEF FailHarvest, Goto
<1> QED BY <1>2, <1>3

LEMMA ReadMembersKeeps ==
    ASSUME IInv, NEW t \in Tasks, ReadMembers(t)
    PROVE  IInv'
BY EndsInStage DEF ReadMembers, At

LEMMA BugEscapesKeeps ==
    ASSUME IInv, NEW t \in Tasks, BugEscapes(t)
    PROVE  IInv'
<1>1. /\ task[t].pc # "off" /\ task' = [task EXCEPT ![t] = Off] /\ Unlock(t)
      /\ faults < MaxFaults /\ faults' = faults + 1
      /\ UNCHANGED <<counts, lastSuccess, now, fetched, ledgered, harvested,
                     applied, listings>>
  BY DEF BugEscapes, CanFault
<1>2. faults' \in 0 .. MaxFaults
  BY <1>1, RosterAssumption DEF IInv, TypeOK
<1>3. /\ \A u \in Tasks \ {t} : task'[u] = task[u]
      /\ task'[t].pc = "off"
  <2>1. Off.pc = "off"
    BY DEF Off
  <2> HIDE DEF Off
  <2> QED BY <1>1, <2>1, TaskTyped
<1>4. CASE t = Feeder
  <2>1. stage' = "idle" /\ selected' = {}
    BY <1>4 DEF BugEscapes
  <2>2. stage = "feeders"
    BY <1>1, <1>4 DEF IInv, Staged, At, TypeOK
  <2>3. Staged'
    BY <1>3, <1>4, <2>1, <2>2, RosterAssumption DEF IInv, Staged, At, Tasks
  <2> QED BY <1>1, <1>2, <2>1, <2>3, EndKeeps
<1>5. CASE t # Feeder
  <2>1. stage' = stage /\ selected' = selected
    BY <1>5 DEF BugEscapes
  <2>2. Staged'
    BY <1>1, <1>3, <2>1, StagedKept
  <2>3. stage \in {"idle", "feeders", "consumers"} /\ selected \subseteq Tasks
    BY DEF IInv, TypeOK
  <2> QED BY <1>1, <1>2, <2>1, <2>2, <2>3, EndKeeps
<1> QED BY <1>4, <1>5

LEMMA CrashKeeps == IInv /\ Crash => IInv'
<1> SUFFICES ASSUME IInv, Crash PROVE IInv'
  OBVIOUS
<1>1. /\ faults < MaxFaults /\ faults' = faults + 1 /\ stage' = "idle"
      /\ selected' = {} /\ lock' = Nobody /\ task' = [t \in Tasks |-> Off]
      /\ UNCHANGED <<counts, lastSuccess, now, fetched, ledgered, harvested,
                     applied, listings>>
  BY DEF Crash, CanFault
<1>2. Off \in TaskRecord /\ Off.pc = "off"
  BY OffTyped DEF Points
<1> HIDE DEF Off
<1>3. task' \in [Tasks -> TaskRecord] /\ \A t \in Tasks : task'[t].pc = "off"
  BY <1>1, <1>2
<1>4. TypeOK'
  BY <1>1, <1>3, RosterAssumption DEF IInv, TypeOK, TaskRecord
<1>5. Recorded' /\ Staged'
  BY <1>1, <1>3 DEF IInv, Recorded, Staged, At
<1>6. \A t \in Tasks : TaskInv(t)'
  BY <1>3 DEF TaskInv, Carries, Reaches, Locked
<1> QED BY <1>4, <1>5, <1>6 DEF IInv

LEMMA TickKeeps == IInv /\ Tick => IInv'
<1> SUFFICES ASSUME IInv, Tick PROVE IInv'
  OBVIOUS
<1>1. /\ now < LastTime /\ now' = now + 1
      /\ UNCHANGED <<counts, lastSuccess, stage, selected, lock, task, fetched,
                     ledgered, harvested, applied, listings, faults>>
  BY DEF Tick, history
<1>2. now \in Nat /\ LastTime \in Nat /\ MaxAge \in Nat /\ lastSuccess \in Int
      /\ now' \in 0 .. LastTime /\ lastSuccess \in {Never} \cup 0 .. now'
  BY <1>1, RosterAssumption DEF IInv, TypeOK, Never
<1>3. TypeOK'
  BY <1>1, <1>2 DEF IInv, TypeOK
<1>4. Recorded' /\ Staged'
  BY <1>1 DEF IInv, Recorded, Staged, At
<1>5. RefreshDue => RefreshDue'
  BY <1>1, <1>2 DEF RefreshDue, IsRosterStale
<1>6. ASSUME NEW t \in Tasks PROVE TaskInv(t)'
  BY <1>1, <1>5, TaskTyped DEF TaskInv, Carries
<1> QED BY <1>3, <1>4, <1>6 DEF IInv

LEMMA NextIInv == IInv /\ [Next]_vars => IInv'
<1> SUFFICES ASSUME IInv, [Next]_vars PROVE IInv'
  OBVIOUS
<1>1. CASE UNCHANGED vars
  BY <1>1 DEF vars, history, IInv, TypeOK, Recorded, Staged, At, TaskInv, Carries,
              RefreshDue, IsRosterStale
<1>2. ASSUME NEW t \in Tasks, Step(t) PROVE IInv'
  BY <1>2, AcquireLockKeeps, CheckDueKeeps, HarvestKeeps, ReconcileListingKeeps,
     ApplyDeltaKeeps, CompleteHarvestKeeps, FailHarvestKeeps, ReadMembersKeeps,
     FeederRunKeeps, FeederRecordKeeps DEF Step
<1> QED BY <1>1, <1>2, StagesKeep, BugEscapesKeeps, CrashKeeps, TickKeeps DEF Next

LEMMA Invariance == Spec => []IInv
BY InitIInv, NextIInv, PTL DEF Spec

-----------------------------------------------------------------------------
(* Theorems. *)

\* The stored roster is what the reconciled listings make, in their order
\* (reconcile, RosterStore.apply): no increment is lost, no member resurrected,
\* and a roster once filled is never empty again.
THEOREM RosterFollowsListings == Spec => []CountsFollowListings
<1>1. IInv => CountsFollowListings
  <2>1. \A m : Absences(m) = Missing(listings, m)
    BY DEF Absences, Missing
  <2>2. RosterOf(listings) =
            [m \in {n \in Listed : Threshold = NoThreshold
                                       \/ Absences(n) <= Threshold} |-> Absences(m)]
    BY <2>1 DEF RosterOf, Listed, Named
  <2> QED BY <2>2 DEF IInv, Recorded, CountsFollowListings
<1> QED BY <1>1, Invariance, PTL

\* A harvest on its way is still due: of the consumers of one stale roster only
\* one harvests (RosterRefreshCoordinator.refresh_if_stale checks under the
\* single-flight lock).
THEOREM HarvestStillDue == Spec => []NoRedundantHarvest
<1>1. IInv => NoRedundantHarvest
  BY DEF IInv, NoRedundantHarvest, TaskInv, At, Tasks
<1> QED BY <1>1, Invariance, PTL

\* A harvest's success is in the ledger only after its listing is in the roster
\* (RosterRefreshCoordinator._refresh_if_due applies the delta, then completes
\* the run).
THEOREM StoredBeforeLedgered == Spec => []HarvestStoredBeforeLedgered
<1>1. IInv => HarvestStoredBeforeLedgered
  BY DEF IInv, Recorded, HarvestStoredBeforeLedgered
<1> QED BY <1>1, Invariance, PTL
=============================================================================
