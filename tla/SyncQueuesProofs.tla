-------------------------- MODULE SyncQueuesProofs --------------------------
(***************************************************************************)
(* Theorems about a sync from its configuration to its report, for any     *)
(* documents, environments and database files, any number of invocations   *)
(* and migrations, and a process death anywhere.                           *)
(***************************************************************************)
EXTENDS SyncQueues, SequenceTheorems, FiniteSetTheorems, TLAPS

-----------------------------------------------------------------------------
(* The inductive invariant. *)

Registries == {"clients", "pools"}
Stages == {"none", "feeders", "consumers", "joined"}

\* A record as the state database is held in.
Database == [stamp : {"none", "fleetpull", "other"}, wal : BOOLEAN,
             sound : BOOLEAN, version : Nat, schema : SUBSET Nat]

Migrating == {"apply", "bump", "commit"}
Verified == {"migrate"} \union Migrating

\* What each step of the opening has established of the file, and what the open
\* transaction holds against it.
DatabaseInv ==
    /\ file \in Database
    /\ at \in {"wal", "check", "version"} \union Verified => file.stamp = "fleetpull"
    /\ at \in {"check", "version"} \union Verified => file.wal
    /\ at \in {"version"} \union Verified => file.sound
    /\ at \in Migrating => file.version < HeadVersion
    /\ at = "apply" => transaction = file
    /\ at \in {"bump", "commit"} =>
          /\ transaction.schema = file.schema \union {file.version + 1}
          /\ transaction.version = file.version + (IF at = "bump" THEN 0 ELSE 1)
          /\ transaction \in Database
          /\ transaction.stamp = file.stamp /\ transaction.wal = file.wal
          /\ transaction.sound = file.sound

\* The selected endpoints and how far each is, with nothing under way unless the
\* queues are running.
SelectionInv ==
    /\ selection \in [Providers -> Seq(STRING)]
    /\ \A p \in Providers : IsInjective(selection[p])
    /\ at \notin {"idle", "ended"} => Enabled # {}
    /\ DOMAIN task = Pairs(selection)
    /\ \A t \in DOMAIN task :
          task[t] \in {"waiting", "running", "raising", "succeeded", "failed",
                       "skipped", "bug"}
    /\ at # "running" => \A t \in DOMAIN task : task[t] \notin {"running", "raising"}

\* A registry is published exactly while all its resources are open; in the
\* unwinding one still published has a resource left to release.
ResourceInv ==
    /\ opened \in Seq(Registries \X Providers)
    /\ published \subseteq Registries
    /\ at \notin {"open", "running", "close"} => opened = <<>> /\ published = {}
    /\ at \in {"open", "running"} => \A g \in Registries :
          g \in published <=> \A p \in Enabled : <<g, p>> \in ToSet(opened)
    /\ at = "running" => published = Registries
    /\ at = "close" => \A g \in published : \E i \in DOMAIN opened : opened[i][1] = g

\* The tasks of one provider.
Of(p) == {t \in DOMAIN task : t[1] = p}

\* Where a queue is tells how far its tasks can be; what has set the stop event
\* is still to be seen among them.
QueueInv(p) ==
    /\ stage[p] \in Stages
    /\ stage[p] = "none" => p \notin stopped /\ \A t \in Of(p) : task[t] = "waiting"
    /\ stage[p] = "feeders" => \A t \in Of(p) : ~Feeds(t) => task[t] = "waiting"
    /\ stage[p] = "consumers" => \A t \in Of(p) :
          Feeds(t) => task[t] \in {"succeeded", "failed"}
    /\ stage[p] = "joined" => \A t \in Of(p) : task[t] \notin {"running", "raising"}
    /\ p \in stopped => \E t \in Of(p) : task[t] \in {"raising", "bug"}
    /\ \A t \in Of(p) : task[t] \in {"raising", "bug", "skipped"} => p \in stopped

\* A sequence that lists a set of tasks in the order reports are made in.
Lists(seq, tasks) ==
    /\ seq \in Seq(tasks) /\ ToSet(seq) = tasks
    /\ \A i, j \in DOMAIN seq : i < j => ReportedBefore(seq[i], seq[j])

\* What a queue has reported, against what its tasks did.
ReportInv(p) ==
    /\ collected[p] = Ended(collected[p].kind, collected[p].failures)
    /\ collected[p].kind \in {"none", "bug"}
    /\ stage[p] \in {"none", "feeders"} => collected[p] = NoReport
    /\ stage[p] = "consumers" =>
          /\ collected[p].kind = "none"
          /\ Lists(collected[p].failures, {t \in Of(p) : Feeds(t) /\ task[t] = "failed"})
    /\ stage[p] = "joined" /\ collected[p].kind = "none" =>
          /\ Lists(collected[p].failures, {t \in Of(p) : task[t] = "failed"})
          /\ \A t \in Of(p) : task[t] \in {"succeeded", "failed"}
    /\ collected[p].kind = "bug" =>
          /\ stage[p] = "joined"
          /\ \E bug \in Of(p) :
                /\ task[bug] = "bug" /\ collected[p].failures = <<bug>>
                /\ \A t \in Of(p) : task[t] = "bug" /\ t # bug => ReportedBefore(bug, t)

\* What the invocation has ended with, or will.
OutcomeInv ==
    /\ at = "running" => \A p \in Enabled : stage[p] # "none"
    /\ at \notin {"close", "ended"} => outcome = NoReport
    /\ at = "close" => outcome \in {NoReport, Ended("broken", <<>>)}
    /\ at = "close" /\ outcome = NoReport => \A p \in Enabled : stage[p] = "joined"
    /\ \A p \in Providers \ Enabled : stage[p] = "none"
    /\ at \notin {"running", "close", "ended"} => \A p \in Providers : stage[p] = "none"
    /\ ReportExact

IInv ==
    /\ DatabaseInv /\ SelectionInv /\ ResourceInv /\ OutcomeInv
    /\ stage \in [Providers -> Stages] /\ stopped \subseteq Providers
    /\ DOMAIN collected = Providers
    /\ at \in {"idle", "stamp", "wal", "check", "version", "migrate", "apply",
               "bump", "commit", "open", "running", "close", "ended"}
    /\ outcome.kind \in {"none", "refused", "broken", "bug", "failures", "succeeded"}
    /\ invocations \in 0..MaxInvocations
    /\ \A p \in Providers : QueueInv(p) /\ ReportInv(p)

-----------------------------------------------------------------------------
(* Selections, tasks and places. *)

\* The selected endpoints are the pairs of a provider and a name listed for it.
LEMMA PairsMembers ==
    ASSUME NEW sel
    PROVE  \A t : t \in Pairs(sel) <=>
              \E p \in Providers : \E i \in DOMAIN sel[p] : t = <<p, sel[p][i]>>
BY DEF Pairs, ToSet

LEMMA ProviderFacts ==
    /\ Providers = {Motive, Geotab, Samsara}
    /\ Motive # Geotab /\ Motive # Samsara /\ Geotab # Samsara
    /\ Place(Motive) = 1 /\ Place(Geotab) = 2 /\ Place(Samsara) = 3
<1>1. Motive # Geotab /\ Motive # Samsara /\ Geotab # Samsara
  BY DEF Motive, Geotab, Samsara
<1>2. /\ DOMAIN ProviderOrder = {1, 2, 3}
      /\ ProviderOrder[1] = Motive /\ ProviderOrder[2] = Geotab
      /\ ProviderOrder[3] = Samsara
  BY DEF ProviderOrder
<1>3. \A e : \A i \in DOMAIN ProviderOrder :
         /\ ProviderOrder[i] = e
         /\ \A j \in DOMAIN ProviderOrder : ProviderOrder[j] = e => j = i
         => Index(ProviderOrder, e) = i
  BY DEF Index
<1> QED BY <1>1, <1>2, <1>3 DEF Providers, Place

\* A task belongs to one provider, by name; there are finitely many.
LEMMA TaskFacts ==
    ASSUME SelectionInv, NEW t \in DOMAIN task
    PROVE  /\ t[1] \in Providers /\ t = <<t[1], t[2]>>
           /\ t \in Of(t[1]) /\ t[1] \in Enabled
           /\ \E i \in DOMAIN selection[t[1]] : t[2] = selection[t[1]][i]
<1>1. PICK p \in Providers : \E i \in DOMAIN selection[p] : t = <<p, selection[p][i]>>
  BY PairsMembers DEF SelectionInv
<1>2. t[1] = p /\ selection[p] # <<>>
  BY <1>1
<1> QED BY <1>1, <1>2 DEF Of, Enabled

LEMMA TasksFinite ==
    ASSUME SelectionInv
    PROVE  IsFiniteSet(DOMAIN task)
<1>1. ASSUME NEW p \in Providers
      PROVE  IsFiniteSet({p} \X ToSet(selection[p]))
  <2> DEFINE S == 1..Len(selection[p])
             T == {p} \X ToSet(selection[p])
             f == [i \in S |-> <<p, selection[p][i]>>]
  <2>1. selection[p] \in Seq(STRING) /\ DOMAIN selection[p] = S
    BY DEF SelectionInv
  <2>a. f \in [S -> T]
    <3> SUFFICES ASSUME NEW i \in S PROVE <<p, selection[p][i]>> \in T
      OBVIOUS
    <3> QED BY <2>1 DEF ToSet
  <2>b. \A t \in T : \E i \in S : f[i] = t
    <3> SUFFICES ASSUME NEW t \in T PROVE \E i \in S : t = <<p, selection[p][i]>>
      OBVIOUS
    <3> QED BY <2>1 DEF ToSet
  <2>2. f \in Surjection(S, T)
    BY <2>a, <2>b DEF Surjection
  <2>3. IsFiniteSet(S)
    BY <2>1, FS_Interval
  <2> QED BY <2>2, <2>3, FS_Surjection
<1>2. Pairs(selection) = ({Motive} \X ToSet(selection[Motive]))
        \union (({Geotab} \X ToSet(selection[Geotab]))
                \union ({Samsara} \X ToSet(selection[Samsara])))
  BY ProviderFacts DEF Pairs
<1>3. IsFiniteSet(({Geotab} \X ToSet(selection[Geotab]))
                    \union ({Samsara} \X ToSet(selection[Samsara])))
  BY <1>1, ProviderFacts, FS_Union
<1>4. IsFiniteSet({Motive} \X ToSet(selection[Motive]))
  BY <1>1, ProviderFacts
<1>5. IsFiniteSet(Pairs(selection))
  <2>1. \A A, B : IsFiniteSet(A) /\ IsFiniteSet(B) => IsFiniteSet(A \union B)
    BY FS_Union
  <2> QED BY <1>2, <1>3, <1>4, <2>1
<1> QED BY <1>5 DEF SelectionInv

-----------------------------------------------------------------------------
(* Lists. *)

\* Every sequence of a finite set's elements, each once, in report order lists
\* the set.
LEMMA OrderedLists ==
    ASSUME NEW S, IsFiniteSet(S), NEW f \in SetToSeqs(S),
           \A i, j \in DOMAIN f : i < j => ReportedBefore(f[i], f[j])
    PROVE  Lists(f, S)
<1> DEFINE D == 1..Cardinality(S)
<1>1. Cardinality(S) \in Nat
  BY FS_CardinalityType
<1>2. f \in [D -> S] /\ \A i, j \in D : i # j => f[i] # f[j]
  BY DEF SetToSeqs
<1>3. f \in Injection(D, S)
  BY <1>2 DEF Injection, IsInjective
<1>4. IsFiniteSet(D) /\ Cardinality(D) = Cardinality(S)
  BY <1>1, FS_Interval
<1>5. f \in Surjection(D, S)
  BY <1>3, <1>4, FS_Injection
<1>6. ToSet(f) = S
  BY <1>2, <1>5 DEF Surjection, ToSet
<1>7. f \in Seq(S)
  BY <1>1, <1>2, SeqDef
<1> QED BY <1>6, <1>7 DEF Lists

\* Two lists, all of the first before all of the second, are one.
LEMMA ListsConcat ==
    ASSUME NEW S, NEW T, NEW f, NEW g, Lists(f, S), Lists(g, T),
           \A s \in S, t \in T : ReportedBefore(s, t)
    PROVE  Lists(f \o g, S \union T)
<1> DEFINE R == S \union T
           h == f \o g
<1>1. f \in Seq(S) /\ g \in Seq(T) /\ ToSet(f) = S /\ ToSet(g) = T
  BY DEF Lists
<1>2. f \in Seq(R) /\ g \in Seq(R)
  BY <1>1, SeqMonotonic
<1>3. /\ h \in Seq(R) /\ Len(h) = Len(f) + Len(g)
      /\ \A i \in 1..Len(f) : h[i] = f[i]
      /\ \A i \in 1..Len(g) : h[Len(f) + i] = g[i]
      /\ Len(f) \in Nat /\ Len(g) \in Nat
      /\ DOMAIN f = 1..Len(f) /\ DOMAIN g = 1..Len(g) /\ DOMAIN h = 1..Len(h)
  BY <1>2
<1> HIDE DEF h
<1>4. \A i \in 1..Len(h) : \/ i \in 1..Len(f)
                           \/ i - Len(f) \in 1..Len(g) /\ h[i] = g[i - Len(f)]
  <2> SUFFICES ASSUME NEW i \in 1..Len(h), i \notin 1..Len(f)
               PROVE  i - Len(f) \in 1..Len(g) /\ h[i] = g[i - Len(f)]
    OBVIOUS
  <2>1. i - Len(f) \in 1..Len(g) /\ i = Len(f) + (i - Len(f))
    BY <1>3
  <2> QED BY <1>3, <2>1
<1>5. ToSet(h) = R
  <2>1. \A i \in DOMAIN h : h[i] \in R
    BY <1>3, ElementOfSeq
  <2>2. \A s \in S : \E i \in DOMAIN h : h[i] = s
    <3> SUFFICES ASSUME NEW s \in S PROVE \E i \in DOMAIN h : h[i] = s
      OBVIOUS
    <3>1. PICK i \in DOMAIN f : f[i] = s
      BY <1>1 DEF ToSet
    <3>2. i \in 1..Len(f) /\ i \in 1..Len(h)
      BY <1>3, <3>1
    <3> QED BY <1>3, <3>1, <3>2
  <2>3. \A t \in T : \E i \in DOMAIN h : h[i] = t
    <3> SUFFICES ASSUME NEW t \in T PROVE \E i \in DOMAIN h : h[i] = t
      OBVIOUS
    <3>1. PICK i \in DOMAIN g : g[i] = t
      BY <1>1 DEF ToSet
    <3>2. i \in 1..Len(g) /\ Len(f) + i \in 1..Len(h)
      BY <1>3, <3>1
    <3> QED BY <1>3, <3>1, <3>2
  <2> QED BY <2>1, <2>2, <2>3 DEF ToSet
<1>6. ASSUME NEW i \in DOMAIN h, NEW j \in DOMAIN h, i < j
      PROVE  ReportedBefore(h[i], h[j])
  <2>1. CASE j \in 1..Len(f)
    <3>1. i \in 1..Len(f)
      BY <1>3, <1>6, <2>1
    <3> QED BY <1>3, <1>6, <2>1, <3>1 DEF Lists
  <2>2. CASE i \notin 1..Len(f)
    <3>1. /\ i - Len(f) \in DOMAIN g /\ h[i] = g[i - Len(f)]
          /\ j - Len(f) \in DOMAIN g /\ h[j] = g[j - Len(f)]
          /\ i - Len(f) < j - Len(f)
      BY <1>3, <1>4, <1>6, <2>2
    <3> QED BY <3>1 DEF Lists
  <2>3. CASE i \in 1..Len(f) /\ j \notin 1..Len(f)
    <3>1. h[i] = f[i] /\ f[i] \in S
      BY <1>1, <1>3, <2>3, ElementOfSeq
    <3>2. h[j] = g[j - Len(f)] /\ g[j - Len(f)] \in T
      BY <1>1, <1>3, <1>4, <2>3, ElementOfSeq
    <3> QED BY <3>1, <3>2
  <2> QED BY <2>1, <2>2, <2>3
<1> QED BY <1>3, <1>5, <1>6 DEF Lists, h

LEMMA EmptyLists ==
    /\ Lists(<<>>, {})
    /\ \A f : Lists(f, {}) => f = <<>>
    /\ \A S : Lists(<<>>, S) => S = {}
<1>1. Lists(<<>>, {})
  BY DEF Lists, ToSet
<1>2. ASSUME NEW f, Lists(f, {}) PROVE f = <<>>
  BY <1>2, EmptySeq DEF Lists, ToSet
<1>3. ASSUME NEW S, Lists(<<>>, S) PROVE S = {}
  BY <1>3 DEF Lists, ToSet
<1> QED BY <1>1, <1>2, <1>3

-----------------------------------------------------------------------------
(* Steps that leave parts of the state alone. *)

\* The phases in which nothing of an invocation is open yet.
Checking == {"stamp", "wal", "check", "version", "migrate"} \union Migrating
Phases == {"idle", "open", "running", "close", "ended"} \union Checking

\* The facts of IInv that name no other part.
Frame ==
    /\ stage \in [Providers -> Stages] /\ stopped \subseteq Providers
    /\ DOMAIN collected = Providers
    /\ at \in Phases
    /\ outcome.kind \in {"none", "refused", "broken", "bug", "failures", "succeeded"}
    /\ invocations \in 0..MaxInvocations

LEMMA Parts ==
    IInv <=> /\ DatabaseInv /\ SelectionInv /\ ResourceInv /\ OutcomeInv /\ Frame
             /\ \A p \in Providers : QueueInv(p) /\ ReportInv(p)
BY DEF IInv, Frame, Phases, Checking, Migrating

LEMMA QueuesSame ==
    ASSUME UNCHANGED <<selection, stage, task, stopped, collected>>,
           NEW p, QueueInv(p), ReportInv(p)
    PROVE  QueueInv(p)' /\ ReportInv(p)'
BY DEF QueueInv, ReportInv, Of, Lists, ReportedBefore, QueuedBefore

LEMMA ReportSame ==
    ASSUME UNCHANGED <<selection, task, outcome>>, ReportExact
    PROVE  ReportExact'
BY DEF ReportExact, ReportedBefore, QueuedBefore

LEMMA DatabaseSame ==
    ASSUME DatabaseInv, UNCHANGED file, at' \notin Checking
    PROVE  DatabaseInv'
BY DEF DatabaseInv, Checking, Verified, Migrating

\* A step within the checks of the database, or out of them with an error.
LEMMA CheckingStep ==
    ASSUME IInv, at \in Checking,
           UNCHANGED <<selection, resourceVars, queueVars, invocations>>,
           \/ at' \in Checking \union {"open"} /\ outcome' = outcome
           \/ /\ at' = "ended"
              /\ \E kind \in {"refused", "broken"} : outcome' = Ended(kind, <<>>)
    PROVE  SelectionInv' /\ ResourceInv' /\ OutcomeInv' /\ Frame'
           /\ \A p \in Providers : QueueInv(p)' /\ ReportInv(p)'
<1> USE DEF resourceVars, queueVars
<1>1. /\ DatabaseInv /\ SelectionInv /\ ResourceInv /\ OutcomeInv /\ Frame
      /\ \A p \in Providers : QueueInv(p) /\ ReportInv(p)
  BY Parts
<1>2. /\ at \notin {"idle", "open", "running", "close", "ended"}
      /\ at' \notin {"idle", "running", "close"}
  BY DEF Checking, Migrating
<1>3. Enabled' = Enabled /\ Pairs(selection)' = Pairs(selection)
  BY DEF Enabled
<1>4. SelectionInv'
  BY <1>1, <1>2, <1>3 DEF SelectionInv
<1>5. ResourceInv'
  <2>1. opened = <<>> /\ published = {} /\ ToSet(opened) = {} /\ Enabled # {}
    BY <1>1, <1>2 DEF ResourceInv, SelectionInv, ToSet
  <2>2. ToSet(opened)' = ToSet(opened)
    OBVIOUS
  <2> QED BY <1>1, <1>2, <1>3, <2>1, <2>2 DEF ResourceInv
<1>6. OutcomeInv'
  <2>1. ReportExact'
    <3>1. CASE outcome' = outcome
      BY <1>1, <3>1, ReportSame DEF OutcomeInv
    <3>2. CASE outcome'.kind \in {"refused", "broken"}
      BY <3>2 DEF ReportExact
    <3> QED BY <3>1, <3>2 DEF Ended
  <2>2. outcome = NoReport
    BY <1>1, <1>2 DEF OutcomeInv
  <2> QED BY <1>1, <1>2, <1>3, <2>1, <2>2 DEF OutcomeInv
<1>7. Frame'
  BY <1>1 DEF Frame, Ended, Phases
<1>8. \A p \in Providers : QueueInv(p)' /\ ReportInv(p)'
  BY <1>1, QueuesSame
<1> QED BY <1>4, <1>5, <1>6, <1>7, <1>8

-----------------------------------------------------------------------------
(* The checks of the database and the migrations. *)

\* One step of the checks, by its effect on the file.
DatabaseStep ==
    \/ StampOrVerify \/ EnableWal \/ VerifyQuickCheck \/ ReadVersion
    \/ BeginMigration \/ ApplyMigration \/ BumpVersion \/ CommitMigration
    \/ FailMigration \/ AtHead

LEMMA DatabaseKept ==
    ASSUME IInv, DatabaseStep
    PROVE  DatabaseInv'
<1> USE SyncAssumption DEF Verified, Migrating
<1>1. DatabaseInv
  BY Parts
<1>2. CASE StampOrVerify
  BY <1>1, <1>2 DEF StampOrVerify, DatabaseInv, Raise, Database
<1>3. CASE EnableWal
  BY <1>1, <1>3 DEF EnableWal, DatabaseInv, Raise, Database
<1>4. CASE VerifyQuickCheck
  BY <1>1, <1>4 DEF VerifyQuickCheck, DatabaseInv, Raise
<1>5. CASE ReadVersion
  BY <1>1, <1>5 DEF ReadVersion, DatabaseInv, Raise
<1>6. CASE BeginMigration
  BY <1>1, <1>6 DEF BeginMigration, DatabaseInv
<1>7. CASE ApplyMigration
  <2>1. file \in Database /\ transaction = file
    BY <1>1, <1>7 DEF ApplyMigration, DatabaseInv
  <2>2. /\ transaction'.schema = file.schema \union {file.version + 1}
        /\ transaction'.version = file.version /\ transaction' \in Database
        /\ transaction'.stamp = file.stamp /\ transaction'.wal = file.wal
        /\ transaction'.sound = file.sound
    BY <1>7, <2>1 DEF ApplyMigration, Database
  <2> QED BY <1>1, <1>7, <2>1, <2>2 DEF ApplyMigration, DatabaseInv, Database
<1>8. CASE BumpVersion
  <2>1. /\ file \in Database /\ transaction \in Database
        /\ transaction.schema = file.schema \union {file.version + 1}
        /\ transaction.version = file.version
        /\ transaction.stamp = file.stamp /\ transaction.wal = file.wal
        /\ transaction.sound = file.sound
    BY <1>1, <1>8 DEF BumpVersion, DatabaseInv, Database
  <2>2. /\ transaction'.schema = transaction.schema
        /\ transaction'.version = transaction.version + 1 /\ transaction' \in Database
        /\ transaction'.stamp = transaction.stamp /\ transaction'.wal = transaction.wal
        /\ transaction'.sound = transaction.sound
    BY <1>8, <2>1 DEF BumpVersion, Database
  <2> QED BY <1>1, <1>8, <2>1, <2>2 DEF BumpVersion, DatabaseInv
<1>9. CASE CommitMigration
  BY <1>1, <1>9 DEF CommitMigration, DatabaseInv
<1>10. CASE FailMigration
  BY <1>1, <1>10 DEF FailMigration, Raise, DatabaseInv
<1>11. CASE AtHead
  BY <1>1, <1>11 DEF AtHead, DatabaseInv
<1> QED
  BY <1>2, <1>3, <1>4, <1>5, <1>6, <1>7, <1>8, <1>9, <1>10, <1>11 DEF DatabaseStep

LEMMA DatabasePreserves ==
    ASSUME IInv, DatabaseStep
    PROVE  IInv'
<1>1. /\ at \in Checking
      /\ UNCHANGED <<selection, resourceVars, queueVars, invocations>>
      /\ \/ at' \in Checking \union {"open"} /\ outcome' = outcome
         \/ /\ at' = "ended"
            /\ \E kind \in {"refused", "broken"} : outcome' = Ended(kind, <<>>)
  BY DEF DatabaseStep, StampOrVerify, EnableWal, VerifyQuickCheck, ReadVersion,
         BeginMigration, ApplyMigration, BumpVersion, CommitMigration, FailMigration,
         AtHead, Raise, Checking, Migrating
<1>2. DatabaseInv'
  BY DatabaseKept
<1> QED BY <1>1, <1>2, CheckingStep DEF IInv, Frame, Phases, Checking, Migrating

-----------------------------------------------------------------------------
(* The start and the end of a process. *)

\* A process without tasks, or with tasks none of which has started.
LEMMA FreshProcess ==
    ASSUME DatabaseInv', Frame', opened' = <<>>, published' = {},
           at' \in {"idle", "stamp", "ended"},
           selection' \in [Providers -> Seq(STRING)],
           \A p \in Providers : IsInjective(selection'[p]),
           at' = "stamp" => Enabled' # {},
           task' = [t \in Pairs(selection') |-> "waiting"],
           stage' = [p \in Providers |-> "none"], stopped' = {},
           collected' = [p \in Providers |-> NoReport],
           outcome' \in {NoReport, Ended("refused", <<>>)},
           at' # "ended" => outcome' = NoReport
    PROVE  IInv'
<1>1. SelectionInv'
  BY DEF SelectionInv
<1>2. ResourceInv'
  BY DEF ResourceInv, Registries
<1>3. ReportExact'
  BY DEF ReportExact, NoReport, Ended
<1>4. OutcomeInv'
  BY <1>3 DEF OutcomeInv
<1>5. ASSUME NEW p \in Providers PROVE QueueInv(p)' /\ ReportInv(p)'
  <2>1. \A t \in Of(p)' : task'[t] = "waiting"
    BY DEF Of
  <2>2. QueueInv(p)'
    BY <2>1 DEF QueueInv, Stages
  <2>3. ReportInv(p)'
    BY DEF ReportInv, NoReport, Ended
  <2> QED BY <2>2, <2>3
<1> QED BY <1>1, <1>2, <1>4, <1>5 DEF IInv, Frame, Phases, Checking, Migrating

LEMMA NoTasks ==
    ASSUME NEW sel, sel = [p \in Providers |-> <<>>]
    PROVE  /\ sel \in [Providers -> Seq(STRING)]
           /\ \A p \in Providers : IsInjective(sel[p])
           /\ Pairs(sel) = {}
           /\ <<>> = [t \in Pairs(sel) |-> "waiting"]
<1>1. \A p \in Providers : DOMAIN sel[p] = {}
  OBVIOUS
<1>2. Pairs(sel) = {}
  BY <1>1, PairsMembers
<1>3. \A p \in Providers : IsInjective(sel[p])
  BY <1>1 DEF IsInjective
<1>4. <<>> = [t \in {} |-> "waiting"]
  OBVIOUS
<1> QED BY <1>2, <1>3, <1>4

LEMMA InitIInv == Init => IInv
<1> SUFFICES ASSUME Init PROVE IInv
  OBVIOUS
<1>1. DatabaseInv
  BY SyncAssumption DEF Init, DatabaseInv, Database, Verified, Migrating
<1>2. SelectionInv
  BY NoTasks DEF Init, SelectionInv
<1>3. ResourceInv
  BY DEF Init, ResourceInv, Registries
<1>4. ReportExact
  BY DEF Init, ReportExact, NoReport, Ended
<1>5. OutcomeInv
  BY <1>4 DEF Init, OutcomeInv
<1>6. ASSUME NEW p \in Providers PROVE QueueInv(p) /\ ReportInv(p)
  <2>1. Of(p) = {}
    BY NoTasks DEF Init, Of
  <2>2. QueueInv(p)
    BY <2>1 DEF Init, QueueInv, Stages
  <2>3. ReportInv(p)
    BY DEF Init, ReportInv, NoReport, Ended
  <2> QED BY <2>2, <2>3
<1> QED
  <2>1. outcome.kind = "none"
    BY DEF Init, NoReport, Ended
  <2>2. stage \in [Providers -> Stages] /\ DOMAIN collected = Providers
    BY DEF Init, Stages
  <2> QED
    BY <1>1, <1>2, <1>3, <1>5, <1>6, <2>1, <2>2, SyncAssumption DEF Init, IInv

LEMMA ConstructPreserves ==
    ASSUME IInv, Construct
    PROVE  IInv'
<1>1. DatabaseInv /\ Frame
  BY Parts
<1>2. PICK document \in Documents, environment \in Environments :
         IF ValidDocument(document, environment) /\ ValidSelection(document)
         THEN /\ at' = "stamp" /\ outcome' = NoReport
              /\ selection' = [p \in Providers |-> document[p].endpoints]
              /\ task' = [t \in Pairs(selection') |-> "waiting"]
         ELSE /\ Raise("refused")
              /\ selection' = [p \in Providers |-> <<>>]
              /\ task' = <<>>
  BY DEF Construct
<1>3. at' \in {"stamp", "ended"} /\ outcome' \in {NoReport, Ended("refused", <<>>)}
      /\ (at' # "ended" => outcome' = NoReport)
  BY <1>2 DEF Raise
<1>4. /\ opened' = <<>> /\ published' = {} /\ stopped' = {} /\ UNCHANGED file
      /\ stage' = [p \in Providers |-> "none"]
      /\ collected' = [p \in Providers |-> NoReport]
      /\ invocations < MaxInvocations /\ invocations' = invocations + 1
  BY DEF Construct, Forget
<1>5. DatabaseInv'
  BY <1>1, <1>3, <1>4 DEF DatabaseInv, Verified, Migrating
<1>6. Frame'
  <2>1. invocations' \in 0..MaxInvocations
    BY <1>1, <1>4, SyncAssumption DEF Frame
  <2>2. outcome'.kind \in {"none", "refused"}
    BY <1>3 DEF NoReport, Ended
  <2>3. stage' \in [Providers -> Stages] /\ DOMAIN collected' = Providers
    BY <1>4 DEF Stages
  <2> QED BY <1>3, <1>4, <2>1, <2>2, <2>3 DEF Frame, Phases, Checking
<1>7. /\ selection' \in [Providers -> Seq(STRING)]
      /\ \A p \in Providers : IsInjective(selection'[p])
      /\ task' = [t \in Pairs(selection') |-> "waiting"]
      /\ at' = "stamp" => Enabled' # {}
  <2>1. CASE ValidDocument(document, environment) /\ ValidSelection(document)
    <3>1. \A p \in Providers : selection'[p] = document[p].endpoints
      BY <1>2, <2>1
    <3>2. \A p \in Providers : document[p].endpoints \in Seq(STRING)
      BY SyncAssumption
    <3>3. \A p \in Providers : IsInjective(document[p].endpoints)
      BY <2>1 DEF ValidDocument
    <3>4. \E p \in Providers : document[p].endpoints # <<>>
      BY <2>1 DEF ValidSelection
    <3> QED BY <1>2, <2>1, <3>1, <3>2, <3>3, <3>4 DEF Enabled
  <2>2. CASE ~(ValidDocument(document, environment) /\ ValidSelection(document))
    <3>1. /\ at' = "ended" /\ selection' = [p \in Providers |-> <<>>]
          /\ task' = <<>>
      BY <1>2, <2>2 DEF Raise
    <3> QED BY <3>1, NoTasks
  <2> QED BY <2>1, <2>2
<1> QED BY <1>3, <1>4, <1>5, <1>6, <1>7, FreshProcess

LEMMA CrashPreserves ==
    ASSUME IInv, Crash
    PROVE  IInv'
<1>1. DatabaseInv /\ Frame
  BY Parts
<1>2. /\ opened' = <<>> /\ published' = {} /\ stopped' = {} /\ UNCHANGED file
      /\ stage' = [p \in Providers |-> "none"]
      /\ collected' = [p \in Providers |-> NoReport]
      /\ selection' = [p \in Providers |-> <<>>] /\ task' = <<>>
      /\ at' = "idle" /\ outcome' = NoReport /\ invocations' = invocations
  BY DEF Crash, Forget
<1>3. DatabaseInv'
  BY <1>1, <1>2 DEF DatabaseInv, Verified, Migrating
<1>4. Frame'
  <2>1. outcome'.kind = "none"
    BY <1>2 DEF NoReport, Ended
  <2>2. stage' \in [Providers -> Stages] /\ DOMAIN collected' = Providers
    BY <1>2 DEF Stages
  <2> QED BY <1>1, <1>2, <2>1, <2>2 DEF Frame, Phases
<1>5. /\ selection' \in [Providers -> Seq(STRING)]
      /\ \A p \in Providers : IsInjective(selection'[p])
      /\ task' = [t \in Pairs(selection') |-> "waiting"]
  BY <1>2, NoTasks
<1> QED BY <1>2, <1>3, <1>4, <1>5, FreshProcess

-----------------------------------------------------------------------------
(* The resources. *)

\* What a step over the resources leaves alone.
LEMMA ResourcesStep ==
    ASSUME IInv, UNCHANGED <<file, selection, task, stopped, collected, invocations>>,
           at \in {"open", "running", "close"}, at' \in {"open", "running", "close"},
           at' # "running" => \A t \in DOMAIN task : task[t] \notin {"running", "raising"}
    PROVE  /\ DatabaseInv' /\ SelectionInv'
           /\ stage' = stage => \A p \in Providers : QueueInv(p)' /\ ReportInv(p)'
<1>1. DatabaseInv /\ SelectionInv /\ \A p \in Providers : QueueInv(p) /\ ReportInv(p)
  BY Parts
<1>2. DatabaseInv'
  BY <1>1, DatabaseSame DEF Checking, Migrating
<1>3. Enabled' = Enabled /\ Pairs(selection)' = Pairs(selection)
  BY DEF Enabled
<1>4. SelectionInv'
  BY <1>1, <1>3 DEF SelectionInv
<1> QED BY <1>1, <1>2, <1>4, QueuesSame

LEMMA OpenPreserves ==
    ASSUME IInv, OpenResource
    PROVE  IInv'
<1>1. SelectionInv /\ ResourceInv /\ OutcomeInv /\ Frame
  BY Parts
<1>2. /\ at = "open" /\ at' = "open"
      /\ UNCHANGED <<file, selection, stage, task, stopped, collected, outcome,
                     invocations>>
  BY DEF OpenResource, queueVars
<1>3. /\ DatabaseInv' /\ SelectionInv'
      /\ \A p \in Providers : QueueInv(p)' /\ ReportInv(p)'
  BY <1>1, <1>2, ResourcesStep DEF SelectionInv
<1>4. PICK r \in Unopened :
         /\ opened' = Append(opened, r)
         /\ published' = IF \A s \in Unopened \ {r} : s[1] # r[1]
                         THEN published \union {r[1]} ELSE published
  BY DEF OpenResource
<1>5. /\ r \in Registries \X Providers /\ r[1] \in Registries /\ r[2] \in Enabled
      /\ r = <<r[1], r[2]>> /\ r \notin ToSet(opened)
  BY DEF Unopened, Registries, Enabled
<1>6. ToSet(opened') = ToSet(opened) \union {r}
  <2>1. /\ DOMAIN opened = 1..Len(opened) /\ DOMAIN opened' = 1..(Len(opened) + 1)
        /\ \A i \in 1..Len(opened) : opened'[i] = opened[i]
        /\ opened'[Len(opened) + 1] = r /\ Len(opened) \in Nat
    BY <1>1, <1>4, <1>5 DEF ResourceInv
  <2>2. 1..(Len(opened) + 1) = (1..Len(opened)) \union {Len(opened) + 1}
    BY <2>1
  <2> QED BY <2>1, <2>2 DEF ToSet
<1>7. ASSUME NEW g \in Registries
      PROVE  g \in published' <=> \A p \in Enabled : <<g, p>> \in ToSet(opened')
  <2>1. g \in published <=> \A p \in Enabled : <<g, p>> \in ToSet(opened)
    BY <1>1, <1>2 DEF ResourceInv
  <2>2. CASE r[1] = g
    <3>1. g \notin published
      BY <1>5, <2>1, <2>2
    <3>2. (\A s \in Unopened \ {r} : s[1] # r[1])
            <=> \A p \in Enabled : <<g, p>> \in ToSet(opened) \/ <<g, p>> = r
      <4>1. ASSUME \A s \in Unopened \ {r} : s[1] # r[1], NEW p \in Enabled
            PROVE  <<g, p>> \in ToSet(opened) \/ <<g, p>> = r
        BY <2>2, <4>1 DEF Unopened, Registries
      <4>2. ASSUME \A p \in Enabled : <<g, p>> \in ToSet(opened) \/ <<g, p>> = r,
                   NEW s \in Unopened \ {r}
            PROVE  s[1] # r[1]
        BY <2>2, <4>2 DEF Unopened
      <4> QED BY <4>1, <4>2
    <3> QED BY <1>4, <1>6, <2>2, <3>1, <3>2
  <2>3. CASE r[1] # g
    <3>1. g \in published' <=> g \in published
      BY <1>4, <2>3
    <3>2. \A p : <<g, p>> # r
      BY <2>3
    <3> QED BY <1>6, <2>1, <3>1, <3>2
  <2> QED BY <2>2, <2>3
<1>8. ResourceInv'
  <2>1. opened' \in Seq(Registries \X Providers) /\ published' \subseteq Registries
    BY <1>1, <1>4, <1>5 DEF ResourceInv
  <2>2. Enabled' = Enabled
    BY <1>2 DEF Enabled
  <2> QED BY <1>2, <1>7, <2>1, <2>2 DEF ResourceInv
<1>9. ReportExact' /\ Enabled' = Enabled
  BY <1>1, <1>2, ReportSame DEF OutcomeInv, Enabled
<1>10. OutcomeInv'
  BY <1>1, <1>2, <1>9 DEF OutcomeInv
<1> QED BY <1>1, <1>2, <1>3, <1>8, <1>10 DEF IInv, Frame

LEMMA FailOpenPreserves ==
    ASSUME IInv, FailOpen
    PROVE  IInv'
<1>1. SelectionInv /\ ResourceInv /\ OutcomeInv /\ Frame
  BY Parts
<1>2. /\ at = "open" /\ at' = "close" /\ outcome' = Ended("broken", <<>>)
      /\ UNCHANGED <<file, selection, opened, published, stage, task, stopped,
                     collected, invocations>>
  BY DEF FailOpen, queueVars, resourceVars
<1>3. /\ DatabaseInv' /\ SelectionInv'
      /\ \A p \in Providers : QueueInv(p)' /\ ReportInv(p)'
  BY <1>1, <1>2, ResourcesStep DEF SelectionInv
<1>4. ResourceInv'
  <2>1. ASSUME NEW g \in published PROVE \E i \in DOMAIN opened : opened[i][1] = g
    <3>1. PICK p : p \in Enabled
      BY <1>1, <1>2 DEF SelectionInv
    <3>2. <<g, p>> \in ToSet(opened)
      BY <1>1, <1>2, <3>1 DEF ResourceInv
    <3> QED BY <3>2 DEF ToSet
  <2> QED BY <1>1, <1>2, <2>1 DEF ResourceInv
<1>5. ReportExact' /\ Enabled' = Enabled
  BY <1>2 DEF ReportExact, Ended, Enabled
<1>6. OutcomeInv'
  <2>1. outcome' # NoReport
    BY <1>2 DEF NoReport, Ended
  <2> QED BY <1>1, <1>2, <1>5, <2>1 DEF OutcomeInv
<1>7. Frame'
  BY <1>1, <1>2 DEF Frame, Phases, Ended
<1> QED BY <1>3, <1>4, <1>6, <1>7 DEF IInv, Frame, Phases, Checking, Migrating

LEMMA SubmitPreserves ==
    ASSUME IInv, SubmitQueues
    PROVE  IInv'
<1>1. /\ SelectionInv /\ ResourceInv /\ OutcomeInv /\ Frame
      /\ \A p \in Providers : QueueInv(p) /\ ReportInv(p)
  BY Parts
<1>2. /\ at = "open" /\ at' = "running" /\ Unopened = {}
      /\ UNCHANGED <<file, selection, opened, published, task, stopped,
                     collected, outcome, invocations>>
      /\ stage' = [p \in Providers |->
                      IF selection[p] = <<>> THEN "none" ELSE "feeders"]
  BY DEF SubmitQueues, resourceVars
<1>3. DatabaseInv' /\ SelectionInv'
  BY <1>1, <1>2, ResourcesStep DEF SelectionInv
<1>4. Enabled' = Enabled
  BY <1>2 DEF Enabled
<1>5. ResourceInv'
  <2>1. \A g \in Registries, p \in Enabled : <<g, p>> \in ToSet(opened)
    BY <1>2 DEF Unopened, Registries
  <2>2. \A g \in Registries : g \in published
    BY <1>1, <1>2, <2>1 DEF ResourceInv
  <2> QED BY <1>1, <1>2, <1>4, <2>2 DEF ResourceInv
<1>6. OutcomeInv'
  <2>1. ReportExact'
    BY <1>1, <1>2, ReportSame DEF OutcomeInv
  <2>2. \A p \in Providers : stage'[p] = "none" <=> p \notin Enabled
    BY <1>2 DEF Enabled
  <2>3. Enabled \subseteq Providers
    BY DEF Enabled
  <2> QED BY <1>1, <1>2, <1>4, <2>1, <2>2, <2>3 DEF OutcomeInv
<1>7. ASSUME NEW p \in Providers PROVE QueueInv(p)' /\ ReportInv(p)'
  <2>1. stage[p] = "none" /\ stage'[p] \in {"none", "feeders"}
    BY <1>1, <1>2 DEF OutcomeInv
  <2>2. Of(p)' = Of(p)
    BY <1>2 DEF Of
  <2>3. QueueInv(p)'
    BY <1>1, <1>2, <2>1, <2>2 DEF QueueInv, Stages
  <2>4. ReportInv(p)'
    BY <1>1, <1>2, <2>1, <2>2 DEF ReportInv, NoReport, Ended
  <2> QED BY <2>3, <2>4
<1>8. stage' \in [Providers -> Stages]
  BY <1>2 DEF Stages
<1> QED BY <1>1, <1>2, <1>3, <1>5, <1>6, <1>7, <1>8 DEF IInv, Frame

LEMMA ReleasePreserves ==
    ASSUME IInv, ReleaseResource
    PROVE  IInv'
<1>1. SelectionInv /\ ResourceInv /\ OutcomeInv /\ Frame
  BY Parts
<1>2. /\ at = "close" /\ at' = "close" /\ opened # <<>>
      /\ UNCHANGED <<file, selection, stage, task, stopped, collected, outcome,
                     invocations>>
      /\ IF Last(opened)[1] \in published
         THEN published' = published \ {Last(opened)[1]} /\ opened' = opened
         ELSE opened' = Front(opened) /\ published' = published
  BY DEF ReleaseResource, queueVars
<1>3. /\ DatabaseInv' /\ SelectionInv'
      /\ \A p \in Providers : QueueInv(p)' /\ ReportInv(p)'
  BY <1>1, <1>2, ResourcesStep DEF SelectionInv
<1>4. ResourceInv'
  <2>1. CASE Last(opened)[1] \in published
    BY <1>1, <1>2, <2>1 DEF ResourceInv
  <2>2. CASE Last(opened)[1] \notin published
    <3>1. /\ opened \in Seq(Registries \X Providers) /\ Len(opened) \in Nat \ {0}
          /\ DOMAIN opened = 1..Len(opened)
      BY <1>1, <1>2, EmptySeq DEF ResourceInv
    <3>2. /\ opened' \in Seq(Registries \X Providers)
          /\ DOMAIN opened' = 1..(Len(opened) - 1)
          /\ \A i \in 1..(Len(opened) - 1) : opened'[i] = opened[i]
      <4>1. opened' = SubSeq(opened, 1, Len(opened) - 1)
        BY <1>2, <2>2 DEF Front
      <4>2. Len(opened) - 1 \in Nat /\ Len(opened) - 1 <= Len(opened)
        BY <3>1
      <4>3. /\ opened' \in Seq(Registries \X Providers)
            /\ Len(opened') = Len(opened) - 1
        BY <3>1, <4>1, <4>2
      <4>4. \A i \in 1..(Len(opened) - 1) : opened'[i] = opened[i]
        BY <3>1, <4>1, <4>2
      <4> QED BY <4>3, <4>4
    <3>3. ASSUME NEW g \in published' PROVE \E i \in DOMAIN opened' : opened'[i][1] = g
      <4>1. PICK i \in DOMAIN opened : opened[i][1] = g
        BY <1>1, <1>2, <2>2 DEF ResourceInv
      <4>2. i # Len(opened)
        BY <1>2, <2>2, <4>1 DEF Last
      <4>3. i \in 1..(Len(opened) - 1)
        BY <3>1, <4>1, <4>2
      <4> QED BY <3>2, <4>1, <4>3
    <3> QED BY <1>1, <1>2, <2>2, <3>2, <3>3 DEF ResourceInv
  <2> QED BY <2>1, <2>2
<1>5. ReportExact' /\ Enabled' = Enabled
  BY <1>1, <1>2, ReportSame DEF OutcomeInv, Enabled
<1>6. OutcomeInv'
  BY <1>1, <1>2, <1>5 DEF OutcomeInv
<1> QED BY <1>1, <1>2, <1>3, <1>4, <1>6 DEF IInv, Frame

-----------------------------------------------------------------------------
(* The queues. *)

\* A task under way is its queue's current stage's.
LEMMA UnderWay ==
    ASSUME IInv, NEW t \in DOMAIN task, task[t] \in {"running", "raising"}
    PROVE  at = "running" /\ t \in StageTasks(t[1])
<1>1. /\ SelectionInv /\ t[1] \in Providers /\ t \in Of(t[1])
      /\ QueueInv(t[1])
  BY Parts, TaskFacts
<1>2. at = "running"
  BY <1>1 DEF SelectionInv
<1>3. stage[t[1]] = IF Feeds(t) THEN "feeders" ELSE "consumers"
  BY <1>1 DEF QueueInv, Stages
<1> QED BY <1>2, <1>3 DEF StageTasks

\* A step of one task of a stage, which can set its queue's stop event.
LEMMA TaskStep ==
    ASSUME IInv, NEW t \in DOMAIN task, NEW c, at = "running",
           t \in StageTasks(t[1]), task[t] \in {"waiting", "running", "raising"},
           c \in {"running", "raising", "succeeded", "failed", "skipped", "bug"},
           c \in {"raising", "bug", "skipped"} => t[1] \in stopped',
           task[t] = "raising" => c = "bug",
           task' = [task EXCEPT ![t] = c],
           stopped' = stopped \/ (stopped' = stopped \union {t[1]} /\ c = "raising"),
           UNCHANGED <<file, transaction, at, selection, resourceVars, stage,
                       collected, outcome, invocations>>
    PROVE  IInv'
<1> USE DEF resourceVars
<1>1. /\ DatabaseInv /\ SelectionInv /\ ResourceInv /\ OutcomeInv /\ Frame
      /\ \A p \in Providers : QueueInv(p) /\ ReportInv(p)
  BY Parts
<1>2. DOMAIN task' = DOMAIN task /\ task'[t] = c
      /\ \A u \in DOMAIN task \ {t} : task'[u] = task[u]
  BY <1>1
<1>3. t[1] \in Providers /\ t \in Of(t[1])
  BY <1>1, TaskFacts
<1>4. DatabaseInv'
  BY <1>1 DEF DatabaseInv, Verified, Migrating
<1>5. Enabled' = Enabled /\ Pairs(selection)' = Pairs(selection)
  BY DEF Enabled
<1>6. SelectionInv'
  BY <1>1, <1>2, <1>5 DEF SelectionInv
<1>7. ResourceInv'
  BY <1>1, <1>5 DEF ResourceInv
<1>8. OutcomeInv'
  <2>1. outcome = NoReport
    BY <1>1 DEF OutcomeInv
  <2>2. ReportExact'
    BY <2>1 DEF ReportExact, NoReport, Ended
  <2> QED BY <1>1, <1>5, <2>1, <2>2 DEF OutcomeInv
<1>9. Frame'
  BY <1>1, <1>3 DEF Frame
<1>10. ASSUME NEW p \in Providers PROVE QueueInv(p)' /\ ReportInv(p)'
  <2>1. Of(p)' = Of(p)
    BY <1>2 DEF Of
  <2>2. CASE p = t[1]
    <3>1. stage[p] = IF Feeds(t) THEN "feeders" ELSE "consumers"
      BY <2>2 DEF StageTasks
    <3>2. QueueInv(p)'
      <4>1. p \in stopped' => \E u \in Of(p) : task'[u] \in {"raising", "bug"}
        <5>1. CASE c \in {"raising", "bug"}
          BY <1>2, <1>3, <2>2, <5>1
        <5>2. CASE c \notin {"raising", "bug"}
          BY <1>1, <1>2, <5>2 DEF QueueInv, Of
        <5> QED BY <5>1, <5>2
      <4>2. \A u \in Of(p) : task'[u] \in {"raising", "bug", "skipped"} => p \in stopped'
        BY <1>1, <1>2, <2>2 DEF QueueInv, Of
      <4>3. \A u \in Of(p) \ {t} : task'[u] = task[u]
        BY <1>2 DEF Of
      <4> QED BY <1>1, <2>1, <3>1, <4>1, <4>2, <4>3 DEF QueueInv
    <3>3. ReportInv(p)'
      <4>1. CASE Feeds(t)
        BY <1>1, <3>1, <4>1 DEF ReportInv, NoReport, Ended
      <4>2. CASE ~Feeds(t)
        <5>1. {u \in Of(p) : Feeds(u) /\ task'[u] = "failed"}
                = {u \in Of(p) : Feeds(u) /\ task[u] = "failed"}
          BY <1>2, <4>2 DEF Of
        <5>2. /\ collected[p] = Ended(collected[p].kind, collected[p].failures)
              /\ collected[p].kind = "none"
              /\ Lists(collected[p].failures, {u \in Of(p) : Feeds(u) /\ task[u] = "failed"})
          BY <1>1, <3>1, <4>2 DEF ReportInv
        <5>3. Lists(collected[p].failures, {u \in Of(p) : Feeds(u) /\ task[u] = "failed"})'
          BY <2>1, <5>1, <5>2 DEF Lists, ReportedBefore, QueuedBefore
        <5> QED BY <3>1, <4>2, <5>2, <5>3 DEF ReportInv
      <4> QED BY <4>1, <4>2
    <3> QED BY <3>2, <3>3
  <2>3. CASE p # t[1]
    <3>1. \A u \in Of(p) : task'[u] = task[u]
      BY <1>2, <2>3 DEF Of
    <3>2. p \in stopped' <=> p \in stopped
      BY <2>3
    <3>3. QueueInv(p)'
      BY <1>1, <2>1, <3>1, <3>2 DEF QueueInv
    <3>4. /\ {u \in Of(p) : Feeds(u) /\ task'[u] = "failed"}
               = {u \in Of(p) : Feeds(u) /\ task[u] = "failed"}
          /\ {u \in Of(p) : task'[u] = "failed"} = {u \in Of(p) : task[u] = "failed"}
      BY <3>1
    <3>5. ReportInv(p)'
      <4>1. /\ ReportInv(p) /\ collected'[p] = collected[p] /\ stage'[p] = stage[p]
            /\ \A s, u : ReportedBefore(s, u)' <=> ReportedBefore(s, u)
        BY <1>1 DEF ReportedBefore, QueuedBefore
      <4>2. stage[p] = "consumers" =>
               Lists(collected[p].failures, {u \in Of(p) : Feeds(u) /\ task[u] = "failed"})'
        BY <2>1, <3>4, <4>1 DEF ReportInv, Lists
      <4>3. stage[p] = "joined" /\ collected[p].kind = "none" =>
               Lists(collected[p].failures, {u \in Of(p) : task[u] = "failed"})'
        BY <2>1, <3>4, <4>1 DEF ReportInv, Lists
      <4>4. collected[p].kind = "bug" =>
              \E bug \in Of(p)' :
                 /\ task'[bug] = "bug" /\ collected[p].failures = <<bug>>
                 /\ \A u \in Of(p)' :
                       task'[u] = "bug" /\ u # bug => ReportedBefore(bug, u)'
        BY <2>1, <3>1, <4>1 DEF ReportInv
      <4> QED BY <2>1, <3>1, <4>1, <4>2, <4>3, <4>4 DEF ReportInv
    <3> QED BY <3>3, <3>5
  <2> QED BY <2>2, <2>3
<1> QED
  BY <1>4, <1>6, <1>7, <1>8, <1>9, <1>10 DEF IInv, Frame, Phases, Checking, Migrating

LEMMA TaskPreserves ==
    ASSUME IInv, NEW t \in DOMAIN task,
           StartTask(t) \/ EndTask(t) \/ CatchBug(t) \/ RaiseBug(t)
    PROVE  IInv'
<1>1. SelectionInv /\ t[1] \in Providers /\ t \in Of(t[1]) /\ QueueInv(t[1])
  BY Parts, TaskFacts
<1>2. CASE StartTask(t)
  <2> DEFINE c == IF t[1] \in stopped THEN "skipped" ELSE "running"
  <2>1. /\ at = "running" /\ t \in StageTasks(t[1]) /\ task[t] = "waiting"
        /\ task' = [task EXCEPT ![t] = c] /\ stopped' = stopped
        /\ c = "skipped" => t[1] \in stopped'
        /\ c \in {"skipped", "running"}
        /\ UNCHANGED <<file, transaction, at, selection, resourceVars, stage,
                       collected, outcome, invocations>>
    BY <1>2 DEF StartTask
  <2> HIDE DEF c
  <2> QED BY <2>1, TaskStep
<1>3. CASE EndTask(t)
  <2>1. PICK c \in {"succeeded", "failed"} : task' = [task EXCEPT ![t] = c]
    BY <1>3 DEF EndTask
  <2>2. /\ task[t] = "running" /\ stopped' = stopped
        /\ UNCHANGED <<file, transaction, at, selection, resourceVars, stage,
                       collected, outcome, invocations>>
    BY <1>3 DEF EndTask
  <2>3. at = "running" /\ t \in StageTasks(t[1])
    BY <2>2, UnderWay
  <2> QED BY <2>1, <2>2, <2>3, TaskStep
<1>4. CASE CatchBug(t)
  <2>1. /\ task[t] = "running" /\ task' = [task EXCEPT ![t] = "raising"]
        /\ stopped' = stopped \union {t[1]}
        /\ UNCHANGED <<file, transaction, at, selection, resourceVars, stage,
                       collected, outcome, invocations>>
    BY <1>4 DEF CatchBug
  <2>2. at = "running" /\ t \in StageTasks(t[1])
    BY <2>1, UnderWay
  <2> QED BY <2>1, <2>2, TaskStep
<1>5. CASE RaiseBug(t)
  <2>1. /\ task[t] = "raising" /\ task' = [task EXCEPT ![t] = "bug"]
        /\ stopped' = stopped
        /\ UNCHANGED <<file, transaction, at, selection, resourceVars, stage,
                       collected, outcome, invocations>>
    BY <1>5 DEF RaiseBug
  <2>2. at = "running" /\ t \in StageTasks(t[1])
    BY <2>1, UnderWay
  <2>3. t[1] \in stopped
    BY <1>1, <2>1 DEF QueueInv
  <2> QED BY <2>1, <2>2, <2>3, TaskStep
<1> QED BY <1>2, <1>3, <1>4, <1>5

\* What a stage all of whose tasks have ended says of its provider's tasks.
LEMMA StageDone ==
    ASSUME IInv, NEW p \in Providers, stage[p] \in {"feeders", "consumers"},
           \A t \in StageTasks(p) : TaskEnded(t)
    PROVE  /\ \A t \in Of(p) : task[t] \notin {"running", "raising"}
           /\ \A t \in Of(p) : task[t] = "bug" => t \in Ending(p, "bug")
           /\ \A t \in StageTasks(p) :
                 t \in Of(p) /\ (Feeds(t) <=> stage[p] = "feeders")
           /\ \A t \in Of(p) :
                 (Feeds(t) <=> stage[p] = "feeders") => t \in StageTasks(p)
           /\ Ending(p, "bug") = {} => \A t \in StageTasks(p) :
                 task[t] \in {"succeeded", "failed"}
<1>1. QueueInv(p) /\ \A t \in Of(p) : t \in DOMAIN task /\ t[1] = p
  BY Parts DEF Of
<1>2. \A t \in StageTasks(p) : t \in Of(p) /\ (Feeds(t) <=> stage[p] = "feeders")
  BY DEF StageTasks, Of
<1>3. \A t \in Of(p) : (Feeds(t) <=> stage[p] = "feeders") => t \in StageTasks(p)
  BY <1>1 DEF StageTasks
<1>4. \A t \in Of(p) :
         t \notin StageTasks(p) => task[t] \in {"waiting", "succeeded", "failed"}
  BY <1>1, <1>3 DEF QueueInv
<1>5. \A t \in Of(p) : task[t] \notin {"running", "raising"}
  BY <1>4 DEF TaskEnded
<1>6. \A t \in Of(p) : task[t] = "bug" => t \in Ending(p, "bug")
  BY <1>4 DEF Ending
<1>7. ASSUME Ending(p, "bug") = {}, NEW t \in StageTasks(p)
      PROVE  task[t] \in {"succeeded", "failed"}
  <2>1. p \notin stopped
    BY <1>1, <1>5, <1>6, <1>7 DEF QueueInv
  <2> QED BY <1>1, <1>2, <1>7, <2>1 DEF QueueInv, TaskEnded
<1> QED BY <1>2, <1>3, <1>5, <1>6, <1>7

\* The queue's own part of joining a stage.
LEMMA JoinKeepsQueue ==
    ASSUME IInv, NEW p \in Providers, JoinStage(p)
    PROVE  QueueInv(p)'
<1>1. /\ QueueInv(p) /\ Frame /\ stage[p] \in {"feeders", "consumers"}
      /\ \A t \in StageTasks(p) : TaskEnded(t)
      /\ UNCHANGED <<selection, task, stopped>>
  BY Parts DEF JoinStage
<1>2. Of(p)' = Of(p)
  BY <1>1 DEF Of
<1>3. \/ stage'[p] = "joined"
      \/ stage[p] = "feeders" /\ stage'[p] = "consumers" /\ Ending(p, "bug") = {}
  BY <1>1 DEF JoinStage, Frame
<1>4. CASE stage'[p] = "joined"
  <2>1. \A t \in Of(p) : task[t] \notin {"running", "raising"}
    BY <1>1, StageDone
  <2> QED BY <1>1, <1>2, <1>4, <2>1 DEF QueueInv, Stages
<1>5. CASE stage[p] = "feeders" /\ stage'[p] = "consumers" /\ Ending(p, "bug") = {}
  <2>1. \A t \in Of(p) : Feeds(t) => task[t] \in {"succeeded", "failed"}
    BY <1>1, <1>5, StageDone
  <2> QED BY <1>1, <1>2, <1>5, <2>1 DEF QueueInv, Stages
<1> QED BY <1>3, <1>4, <1>5

\* What the drain of a joined stage reports.
LEMMA JoinKeepsReport ==
    ASSUME IInv, NEW p \in Providers, JoinStage(p)
    PROVE  ReportInv(p)'
<1>1. /\ SelectionInv /\ QueueInv(p) /\ ReportInv(p) /\ Frame
      /\ stage[p] \in {"feeders", "consumers"}
      /\ \A t \in StageTasks(p) : TaskEnded(t)
      /\ UNCHANGED <<selection, task, stopped>>
  BY Parts DEF JoinStage
<1>2. Of(p)' = Of(p) /\ \A s, t : ReportedBefore(s, t)' <=> ReportedBefore(s, t)
  BY <1>1 DEF Of, ReportedBefore, QueuedBefore
<1>3. \A s \in StageTasks(p), t \in StageTasks(p) :
         QueuedBefore(s, t) => ReportedBefore(s, t)
  <2> SUFFICES ASSUME NEW s \in StageTasks(p), NEW t \in StageTasks(p), QueuedBefore(s, t)
               PROVE  ReportedBefore(s, t)
    OBVIOUS
  <2>1. s[1] = p /\ t[1] = p /\ (Feeds(s) <=> Feeds(t))
    BY <1>1, StageDone DEF Of
  <2> QED BY <2>1 DEF ReportedBefore
<1>4. CASE \E bug \in Ending(p, "bug") :
              /\ \A t \in Ending(p, "bug") \ {bug} : QueuedBefore(bug, t)
              /\ collected' = [collected EXCEPT ![p] = Ended("bug", <<bug>>)]
              /\ stage' = [stage EXCEPT ![p] = "joined"]
  <2>1. PICK bug \in Ending(p, "bug") :
              /\ \A t \in Ending(p, "bug") \ {bug} : QueuedBefore(bug, t)
              /\ collected' = [collected EXCEPT ![p] = Ended("bug", <<bug>>)]
              /\ stage' = [stage EXCEPT ![p] = "joined"]
    BY <1>4
  <2>2. collected'[p] = Ended("bug", <<bug>>) /\ stage'[p] = "joined"
    BY <1>1, <2>1 DEF Frame
  <2>3. bug \in StageTasks(p) /\ task[bug] = "bug" /\ bug \in Of(p)
    BY <1>1, StageDone DEF Ending
  <2>4. \A t \in Of(p) : task[t] = "bug" /\ t # bug => ReportedBefore(bug, t)
    <3> SUFFICES ASSUME NEW t \in Of(p), task[t] = "bug", t # bug
                 PROVE  ReportedBefore(bug, t)
      OBVIOUS
    <3>1. t \in Ending(p, "bug")
      BY <1>1, StageDone
    <3>2. t \in StageTasks(p)
      BY <3>1 DEF Ending
    <3> QED BY <1>3, <2>1, <2>3, <3>1, <3>2
  <2>5. /\ collected'[p].kind = "bug" /\ collected'[p].failures = <<bug>>
        /\ collected'[p] = Ended(collected'[p].kind, collected'[p].failures)
    BY <2>2 DEF Ended
  <2> QED BY <1>1, <1>2, <2>2, <2>3, <2>4, <2>5 DEF ReportInv
<1>5. CASE /\ Ending(p, "bug") = {}
           /\ \E failures \in SetToSeqs(Ending(p, "failed")) :
                 /\ \A i, j \in DOMAIN failures :
                       i < j => QueuedBefore(failures[i], failures[j])
                 /\ collected' = [collected EXCEPT ![p].failures = @ \o failures]
           /\ stage' = [stage EXCEPT
                  ![p] = IF @ = "feeders" THEN "consumers" ELSE "joined"]
  <2> DEFINE F == Ending(p, "failed")
             G == IF stage[p] = "feeders" THEN {}
                  ELSE {t \in Of(p) : Feeds(t) /\ task[t] = "failed"}
             g == collected[p].failures
  <2>1. PICK f \in SetToSeqs(F) :
              /\ \A i, j \in DOMAIN f : i < j => QueuedBefore(f[i], f[j])
              /\ collected' = [collected EXCEPT ![p].failures = @ \o f]
    BY <1>5
  <2>2. /\ collected[p] = Ended("none", g) /\ Lists(g, G)
        /\ stage[p] = "feeders" => g = <<>>
    BY <1>1, EmptyLists DEF ReportInv, NoReport, Ended
  <2>3. Lists(f, F)
    <3>1. IsFiniteSet(F)
      <4>1. F \subseteq DOMAIN task
        BY DEF Ending, StageTasks
      <4> QED BY <1>1, <4>1, TasksFinite, FS_Subset
    <3>2. \A i \in DOMAIN f : f[i] \in StageTasks(p)
      BY DEF SetToSeqs, Ending
    <3>3. \A i, j \in DOMAIN f : i < j => ReportedBefore(f[i], f[j])
      BY <1>3, <2>1, <3>2
    <3> QED BY <3>1, <3>3, OrderedLists
  <2>4. \A s \in G, t \in F : ReportedBefore(s, t)
    <3> SUFFICES ASSUME NEW s \in G, NEW t \in F PROVE ReportedBefore(s, t)
      OBVIOUS
    <3>1. stage[p] = "consumers" /\ s \in Of(p) /\ Feeds(s)
      BY <1>1
    <3>2. t \in Of(p) /\ ~Feeds(t)
      BY <1>1, <3>1, StageDone DEF Ending
    <3> QED BY <3>1, <3>2 DEF ReportedBefore, Of
  <2>5. Lists(g \o f, G \union F)
    BY <2>2, <2>3, <2>4, ListsConcat
  <2>6. /\ collected'[p].kind = "none" /\ collected'[p].failures = g \o f
        /\ collected'[p] = Ended("none", g \o f)
    <3>1. collected'[p] = [collected[p] EXCEPT !.failures = g \o f]
      BY <1>1, <2>1 DEF Frame
    <3>2. \A x, y : [Ended("none", x) EXCEPT !.failures = y] = Ended("none", y)
      BY DEF Ended
    <3>5. collected[p] = Ended("none", g)
      BY <2>2
    <3> HIDE DEF F, G, g
    <3>6. collected'[p] = [Ended("none", g) EXCEPT !.failures = g \o f]
      BY <3>1, <3>5
    <3>3. collected'[p] = Ended("none", g \o f)
      BY <3>2, <3>6
    <3>4. \A y : Ended("none", y).kind = "none" /\ Ended("none", y).failures = y
      BY DEF Ended
    <3> QED BY <3>3, <3>4
  <2>7. \A t \in StageTasks(p) : task[t] \in {"succeeded", "failed"}
    BY <1>1, <1>5, StageDone
  <2>8. F = {t \in Of(p) : task[t] = "failed" /\ (Feeds(t) <=> stage[p] = "feeders")}
    BY <1>1, StageDone DEF Ending
  <2>9. CASE stage[p] = "feeders"
    <3>1. stage'[p] = "consumers"
      BY <1>1, <1>5, <2>9 DEF Frame
    <3>2. G \union F = {t \in Of(p) : Feeds(t) /\ task[t] = "failed"}
      BY <2>8, <2>9
    <3>3. Lists(collected[p].failures, {t \in Of(p) : Feeds(t) /\ task[t] = "failed"})'
      BY <1>1, <1>2, <2>5, <2>6, <3>2 DEF Lists
    <3> QED BY <1>2, <2>6, <3>1, <3>3 DEF ReportInv
  <2>10. CASE stage[p] = "consumers"
    <3>1. stage'[p] = "joined"
      BY <1>1, <1>5, <2>10 DEF Frame
    <3>2. G \union F = {t \in Of(p) : task[t] = "failed"}
      BY <2>8, <2>10
    <3>3. Lists(collected[p].failures, {t \in Of(p) : task[t] = "failed"})'
      BY <1>1, <1>2, <2>5, <2>6, <3>2 DEF Lists
    <3>4. \A t \in Of(p) : task[t] \in {"succeeded", "failed"}
      BY <1>1, <2>7, <2>10, StageDone DEF QueueInv
    <3> QED BY <1>1, <1>2, <2>6, <3>1, <3>3, <3>4 DEF ReportInv
  <2> QED BY <1>1, <2>9, <2>10
<1> QED BY <1>4, <1>5 DEF JoinStage

\* Another provider's queue does not notice.
LEMMA JoinKeepsOthers ==
    ASSUME IInv, NEW p \in Providers, JoinStage(p), NEW q \in Providers \ {p}
    PROVE  QueueInv(q)' /\ ReportInv(q)'
<1>1. /\ QueueInv(q) /\ ReportInv(q) /\ Frame
      /\ UNCHANGED <<selection, task, stopped>>
  BY Parts DEF JoinStage
<1>2. stage'[q] = stage[q] /\ collected'[q] = collected[q]
  BY <1>1 DEF JoinStage, Frame
<1>3. Of(q)' = Of(q) /\ \A s, t : ReportedBefore(s, t)' <=> ReportedBefore(s, t)
  BY <1>1 DEF Of, ReportedBefore, QueuedBefore
<1>4. QueueInv(q)'
  BY <1>1, <1>2, <1>3 DEF QueueInv
<1>5. /\ Lists(collected[q].failures, {t \in Of(q) : Feeds(t) /\ task[t] = "failed"})'
            <=> Lists(collected[q].failures, {t \in Of(q) : Feeds(t) /\ task[t] = "failed"})
      /\ Lists(collected[q].failures, {t \in Of(q) : task[t] = "failed"})'
            <=> Lists(collected[q].failures, {t \in Of(q) : task[t] = "failed"})
  BY <1>1, <1>2, <1>3 DEF Lists
<1> QED BY <1>1, <1>2, <1>3, <1>4, <1>5 DEF ReportInv

LEMMA JoinStagePreserves ==
    ASSUME IInv, NEW p \in Providers, JoinStage(p)
    PROVE  IInv'
<1>1. DatabaseInv /\ SelectionInv /\ ResourceInv /\ OutcomeInv /\ Frame
  BY Parts
<1>2. /\ at = "running" /\ stage[p] \in {"feeders", "consumers"}
      /\ UNCHANGED <<file, transaction, at, selection, opened, published, task,
                     stopped, outcome, invocations>>
  BY DEF JoinStage, resourceVars
<1>3. /\ stage' \in [Providers -> Stages] /\ DOMAIN collected' = Providers
      /\ stage'[p] # "none" /\ \A q \in Providers \ {p} : stage'[q] = stage[q]
  BY <1>1 DEF JoinStage, Frame, Stages
<1>4. /\ Enabled' = Enabled /\ Pairs(selection)' = Pairs(selection)
      /\ Enabled \subseteq Providers
  BY <1>2 DEF Enabled
<1>5. DatabaseInv' /\ SelectionInv'
  BY <1>1, <1>2, <1>4 DEF DatabaseInv, SelectionInv, Verified, Migrating
<1>6. ResourceInv'
  BY <1>1, <1>2, <1>4 DEF ResourceInv
<1>7. OutcomeInv'
  <2>1. ReportExact'
    BY <1>1, <1>2, ReportSame DEF OutcomeInv
  <2>2. p \in Enabled
    BY <1>1, <1>2 DEF OutcomeInv
  <2> QED BY <1>1, <1>2, <1>3, <1>4, <2>1, <2>2 DEF OutcomeInv
<1>8. ASSUME NEW q \in Providers PROVE QueueInv(q)' /\ ReportInv(q)'
  BY JoinKeepsQueue, JoinKeepsReport, JoinKeepsOthers
<1> QED BY <1>1, <1>2, <1>3, <1>5, <1>6, <1>7, <1>8 DEF IInv, Frame

LEMMA JoinQueuesPreserves ==
    ASSUME IInv, JoinQueues
    PROVE  IInv'
<1>1. /\ SelectionInv /\ ResourceInv /\ OutcomeInv /\ Frame
      /\ \A p \in Providers : QueueInv(p)
  BY Parts
<1>2. /\ at = "running" /\ at' = "close" /\ \A p \in Enabled : stage[p] = "joined"
      /\ UNCHANGED <<file, selection, opened, published, stage, task, stopped,
                     collected, outcome, invocations>>
  BY DEF JoinQueues, resourceVars, queueVars
<1>3. \A t \in DOMAIN task : task[t] \notin {"running", "raising"}
  BY <1>1, <1>2, TaskFacts DEF QueueInv
<1>4. /\ DatabaseInv' /\ SelectionInv'
      /\ \A p \in Providers : QueueInv(p)' /\ ReportInv(p)'
  BY <1>2, <1>3, ResourcesStep
<1>5. ResourceInv'
  <2>1. ASSUME NEW g \in published PROVE \E i \in DOMAIN opened : opened[i][1] = g
    <3>1. PICK p : p \in Enabled
      BY <1>1, <1>2 DEF SelectionInv
    <3>2. <<g, p>> \in ToSet(opened)
      BY <1>1, <1>2, <3>1 DEF ResourceInv
    <3> QED BY <3>2 DEF ToSet
  <2> QED BY <1>1, <1>2, <2>1 DEF ResourceInv
<1>6. ReportExact' /\ Enabled' = Enabled
  BY <1>1, <1>2, ReportSame DEF OutcomeInv, Enabled
<1>7. OutcomeInv'
  <2>1. outcome = NoReport
    BY <1>1, <1>2 DEF OutcomeInv
  <2> QED BY <1>1, <1>2, <1>6, <2>1 DEF OutcomeInv
<1> QED BY <1>1, <1>2, <1>4, <1>5, <1>7 DEF IInv, Frame

-----------------------------------------------------------------------------
(* The report. *)

\* What a joined queue, or one with nothing selected, has reported.
LEMMA QueueReport ==
    ASSUME IInv, at = "close", outcome = NoReport, NEW p \in Providers
    PROVE  /\ collected[p].kind \in {"none", "bug"}
           /\ collected[p].kind = "none" =>
                 /\ Lists(collected[p].failures, {t \in Of(p) : task[t] = "failed"})
                 /\ \A t \in Of(p) : task[t] \in {"succeeded", "failed"}
           /\ collected[p].kind = "bug" => \E bug \in Of(p) :
                 /\ task[bug] = "bug" /\ collected[p] = Ended("bug", <<bug>>)
                 /\ \A t \in Of(p) : task[t] = "bug" /\ t # bug => ReportedBefore(bug, t)
<1>1. SelectionInv /\ OutcomeInv /\ ReportInv(p)
  BY Parts
<1>2. CASE p \in Enabled
  <2>1. stage[p] = "joined"
    BY <1>1, <1>2 DEF OutcomeInv
  <2> QED BY <1>1, <2>1 DEF ReportInv
<1>3. CASE p \notin Enabled
  <2>1. collected[p] = NoReport
    BY <1>1, <1>3 DEF OutcomeInv, ReportInv
  <2>2. Of(p) = {}
    BY <1>1, <1>3, TaskFacts DEF Of
  <2>3. collected[p].kind = "none" /\ collected[p].failures = <<>>
    BY <2>1 DEF NoReport, Ended
  <2> QED BY <2>2, <2>3, EmptyLists
<1> QED BY <1>2, <1>3

\* Tasks of different providers are reported in the providers' order.
LEMMA ProvidersInOrder ==
    ASSUME NEW p \in Providers, NEW q \in Providers, Place(p) < Place(q)
    PROVE  \A s \in Of(p), t \in Of(q) : ReportedBefore(s, t)
BY DEF Of, ReportedBefore

LEMMA LeastOf ==
    ASSUME NEW S, S \subseteq 1..3, S # {}
    PROVE  Min(S) \in S /\ \A i \in S : Min(S) <= i
<1>1. \E i \in S : \A j \in S : i <= j
  <2>1. CASE 1 \in S
    BY <2>1
  <2>2. CASE 1 \notin S /\ 2 \in S
    BY <2>2
  <2>3. CASE 1 \notin S /\ 2 \notin S
    <3>1. ASSUME NEW i \in S PROVE i = 3
      <4>1. i \in 1..3 /\ i # 1 /\ i # 2
        BY <2>3
      <4> QED BY <4>1
    <3>2. PICK i \in S : TRUE
      OBVIOUS
    <3>3. i \in S /\ \A j \in S : i <= j
      BY <3>1
    <3> QED BY <3>3
  <2> QED BY <2>1, <2>2, <2>3
<1> QED BY <1>1 DEF Min

\* The exact report of an invocation, as ReportExact asks for it.
Exact(report) ==
    LET Done(end) == {t \in DOMAIN task : task[t] = end} IN
    /\ report.kind = "succeeded" => DOMAIN task = Done("succeeded")
    /\ report.kind = "failures" =>
          /\ DOMAIN task = Done("succeeded") \union Done("failed")
          /\ ToSet(report.failures) = Done("failed")
          /\ \A i, j \in DOMAIN report.failures : i < j =>
                ReportedBefore(report.failures[i], report.failures[j])
    /\ report.kind = "bug" =>
          LET first == Head(report.failures) IN
          /\ first \in Done("bug")
          /\ \A t \in Done("bug") \ {first} : ReportedBefore(first, t)

LEMMA DrainedExact ==
    ASSUME IInv, at = "close", outcome = NoReport
    PROVE  Exact(Drained) /\ Drained.kind \in {"bug", "failures", "succeeded"}
<1> DEFINE Queue(i) == collected[ProviderOrder[i]]
           bugs == {i \in 1..3 : Queue(i).kind = "bug"}
           failures == Queue(1).failures \o Queue(2).failures \o Queue(3).failures
           Failed(p) == {t \in Of(p) : task[t] = "failed"}
<1>1. /\ ProviderOrder[1] = Motive /\ ProviderOrder[2] = Geotab
      /\ ProviderOrder[3] = Samsara
  BY DEF ProviderOrder
<1>2. \A i \in 1..3 : ProviderOrder[i] \in Providers /\ Place(ProviderOrder[i]) = i
  BY <1>1, ProviderFacts
<1>3. \A t \in DOMAIN task : \E i \in 1..3 : t \in Of(ProviderOrder[i])
  <2> SUFFICES ASSUME NEW t \in DOMAIN task
               PROVE  \E i \in 1..3 : t \in Of(ProviderOrder[i])
    OBVIOUS
  <2>1. t[1] \in Providers /\ t \in Of(t[1])
    BY Parts, TaskFacts
  <2> QED BY <1>1, <2>1, ProviderFacts
<1>4. CASE bugs # {}
  <2>1. PICK m : m = Min(bugs)
    OBVIOUS
  <2>2. m \in bugs /\ \A i \in bugs : m <= i
    BY <1>4, <2>1, LeastOf
  <2>3. PICK bug \in Of(ProviderOrder[m]) :
           /\ task[bug] = "bug" /\ Queue(m) = Ended("bug", <<bug>>)
           /\ \A t \in Of(ProviderOrder[m]) :
                 task[t] = "bug" /\ t # bug => ReportedBefore(bug, t)
    BY <1>2, <2>2, QueueReport
  <2>4. Drained = Ended("bug", <<bug>>)
    BY <1>4, <2>1, <2>3 DEF Drained
  <2>5. Drained.kind = "bug" /\ Head(Drained.failures) = bug
    BY <2>4 DEF Ended
  <2>6. \A t \in DOMAIN task : task[t] = "bug" /\ t # bug => ReportedBefore(bug, t)
    <3> SUFFICES ASSUME NEW t \in DOMAIN task, task[t] = "bug", t # bug
                 PROVE  ReportedBefore(bug, t)
      OBVIOUS
    <3>1. PICK i \in 1..3 : t \in Of(ProviderOrder[i])
      BY <1>3
    <3>2. i \in bugs
      BY <1>2, <3>1, QueueReport
    <3>3. CASE i = m
      BY <2>3, <3>1, <3>3
    <3>4. CASE m < i
      BY <1>2, <2>2, <2>3, <3>1, <3>4, ProvidersInOrder
    <3> QED BY <2>2, <3>2, <3>3, <3>4
  <2>7. bug \in DOMAIN task
    BY <2>3 DEF Of
  <2> QED BY <2>3, <2>5, <2>6, <2>7 DEF Exact
<1>5. CASE bugs = {}
  <2>1. \A i \in 1..3 :
           /\ Lists(Queue(i).failures, Failed(ProviderOrder[i]))
           /\ \A t \in Of(ProviderOrder[i]) : task[t] \in {"succeeded", "failed"}
    BY <1>2, <1>5, QueueReport
  <2> DEFINE F == {t \in DOMAIN task : task[t] = "failed"}
  <2>2. F = (Failed(Motive) \union Failed(Geotab)) \union Failed(Samsara)
    <3>1. \A t \in DOMAIN task : t \in Of(Motive) \/ t \in Of(Geotab) \/ t \in Of(Samsara)
      <4> SUFFICES ASSUME NEW t \in DOMAIN task
                   PROVE  t \in Of(Motive) \/ t \in Of(Geotab) \/ t \in Of(Samsara)
        OBVIOUS
      <4>1. PICK i \in 1..3 : t \in Of(ProviderOrder[i])
        BY <1>3
      <4>2. i = 1 \/ i = 2 \/ i = 3
        OBVIOUS
      <4> QED BY <1>1, <4>1, <4>2
    <3> QED BY <3>1 DEF Of
  <2>3. Lists(Queue(1).failures \o Queue(2).failures,
              Failed(Motive) \union Failed(Geotab))
    <3>1. \A s \in Failed(Motive), t \in Failed(Geotab) : ReportedBefore(s, t)
      BY ProviderFacts, ProvidersInOrder
    <3>2. /\ Lists(Queue(1).failures, Failed(Motive))
          /\ Lists(Queue(2).failures, Failed(Geotab))
      BY <1>1, <2>1
    <3> HIDE DEF Queue, Failed
    <3> QED BY <3>1, <3>2, ListsConcat
  <2>4. Lists(failures, F)
    <3>1. \A s \in Failed(Motive) \union Failed(Geotab), t \in Failed(Samsara) :
             ReportedBefore(s, t)
      BY ProviderFacts, ProvidersInOrder
    <3>2. Lists(Queue(3).failures, Failed(Samsara))
      BY <1>1, <2>1
    <3>3. Lists((Queue(1).failures \o Queue(2).failures) \o Queue(3).failures,
                (Failed(Motive) \union Failed(Geotab)) \union Failed(Samsara))
      <4> HIDE DEF Queue, Failed
      <4> QED BY <2>3, <3>1, <3>2, ListsConcat
    <3> QED BY <2>2, <3>3
  <2>5. \A t \in DOMAIN task : task[t] \in {"succeeded", "failed"}
    BY <1>3, <2>1
  <2>6. CASE failures # <<>>
    <3>1. Drained = Ended("failures", failures)
      BY <1>5, <2>6 DEF Drained
    <3>2. Drained.kind = "failures" /\ Drained.failures = failures
      BY <3>1 DEF Ended
    <3> HIDE DEF failures, bugs
    <3> QED BY <2>4, <2>5, <3>2 DEF Exact, Lists
  <2>7. CASE failures = <<>>
    <3>1. Drained = Ended("succeeded", <<>>)
      BY <1>5, <2>7 DEF Drained
    <3>2. Drained.kind = "succeeded"
      BY <3>1 DEF Ended
    <3>3. F = {}
      BY <2>4, <2>7, EmptyLists
    <3> HIDE DEF failures, bugs
    <3> QED BY <2>5, <3>2, <3>3 DEF Exact
  <2> QED BY <2>6, <2>7
<1> QED BY <1>4, <1>5

LEMMA CollectPreserves ==
    ASSUME IInv, CollectFailures
    PROVE  IInv'
<1>1. /\ DatabaseInv /\ SelectionInv /\ ResourceInv /\ OutcomeInv /\ Frame
      /\ \A p \in Providers : QueueInv(p) /\ ReportInv(p)
  BY Parts
<1>2. /\ at = "close" /\ opened = <<>> /\ at' = "ended"
      /\ outcome' = IF outcome = NoReport THEN Drained ELSE outcome
      /\ UNCHANGED <<file, selection, opened, published, stage, task, stopped,
                     collected, invocations>>
  BY DEF CollectFailures, resourceVars, queueVars
<1>3. Enabled' = Enabled /\ Pairs(selection)' = Pairs(selection)
  BY <1>2 DEF Enabled
<1>4. DatabaseInv' /\ SelectionInv'
  BY <1>1, <1>2, <1>3 DEF DatabaseInv, SelectionInv, Verified, Migrating
<1>5. ResourceInv'
  BY <1>1, <1>2 DEF ResourceInv
<1>6. ReportExact' /\ outcome'.kind \in {"broken", "bug", "failures", "succeeded"}
  <2>1. CASE outcome = NoReport
    <3>1. outcome' = Drained
      BY <1>2, <2>1
    <3>2. Exact(Drained) /\ Drained.kind \in {"bug", "failures", "succeeded"}
      BY <1>2, <2>1, DrainedExact
    <3>3. PICK report : report = Drained
      OBVIOUS
    <3>4. Exact(report) /\ outcome' = report
      BY <3>1, <3>2, <3>3
    <3>5. \A s, t : ReportedBefore(s, t)' <=> ReportedBefore(s, t)
      BY <1>2 DEF ReportedBefore, QueuedBefore
    <3> QED BY <1>2, <3>2, <3>3, <3>4, <3>5 DEF Exact, ReportExact
  <2>2. CASE outcome = Ended("broken", <<>>)
    BY <1>2, <2>2 DEF ReportExact, NoReport, Ended
  <2> QED BY <1>1, <1>2, <2>1, <2>2 DEF OutcomeInv
<1>7. OutcomeInv'
  BY <1>1, <1>2, <1>3, <1>6 DEF OutcomeInv
<1>8. Frame'
  BY <1>1, <1>2, <1>6 DEF Frame, Phases
<1>9. \A p \in Providers : QueueInv(p)' /\ ReportInv(p)'
  BY <1>1, <1>2, QueuesSame
<1> QED
  BY <1>4, <1>5, <1>7, <1>8, <1>9 DEF IInv, Frame, Phases, Checking, Migrating

LEMMA StutterPreserves ==
    ASSUME IInv, UNCHANGED vars
    PROVE  IInv'
<1> USE DEF vars
<1>1. /\ DatabaseInv /\ SelectionInv /\ ResourceInv /\ OutcomeInv /\ Frame
      /\ \A p \in Providers : QueueInv(p) /\ ReportInv(p)
  BY Parts
<1>2. Enabled' = Enabled /\ Pairs(selection)' = Pairs(selection)
  BY DEF Enabled
<1>3. DatabaseInv' /\ SelectionInv' /\ ResourceInv' /\ Frame'
  BY <1>1, <1>2 DEF DatabaseInv, SelectionInv, ResourceInv, Frame
<1>4. OutcomeInv'
  BY <1>1, <1>2, ReportSame DEF OutcomeInv
<1>5. \A p \in Providers : QueueInv(p)' /\ ReportInv(p)'
  BY <1>1, QueuesSame
<1> QED BY <1>3, <1>4, <1>5 DEF IInv, Frame, Phases, Checking, Migrating

LEMMA NextIInv == IInv /\ [Next]_vars => IInv'
<1> SUFFICES ASSUME IInv, [Next]_vars PROVE IInv'
  OBVIOUS
<1>1. CASE Construct
  BY <1>1, ConstructPreserves
<1>2. CASE Crash
  BY <1>2, CrashPreserves
<1>3. CASE DatabaseStep
  BY <1>3, DatabasePreserves
<1>4. CASE OpenResource \/ FailOpen \/ SubmitQueues \/ ReleaseResource
  BY <1>4, OpenPreserves, FailOpenPreserves, SubmitPreserves, ReleasePreserves
<1>5. CASE \E t \in DOMAIN task : StartTask(t) \/ EndTask(t) \/ CatchBug(t) \/ RaiseBug(t)
  BY <1>5, TaskPreserves
<1>6. CASE \E p \in Providers : JoinStage(p)
  BY <1>6, JoinStagePreserves
<1>7. CASE JoinQueues \/ CollectFailures
  BY <1>7, JoinQueuesPreserves, CollectPreserves
<1>8. CASE UNCHANGED vars
  BY <1>8, StutterPreserves
<1> QED
  BY <1>1, <1>2, <1>3, <1>4, <1>5, <1>6, <1>7, <1>8 DEF Next, Proceed, DatabaseStep

LEMMA Invariance == Spec => []IInv
BY InitIInv, NextIInv, PTL DEF Spec

-----------------------------------------------------------------------------
(* Theorems. *)

\* The operator is told exactly what happened (api/sync.py, run_stage and
\* _collected_failures): success only when every selected endpoint succeeded,
\* every failure once and in the documented order, and of bugs the first.
THEOREM ReportsExactly == Spec => []ReportExact
<1>1. IInv => ReportExact
  BY DEF IInv, OutcomeInv
<1> QED BY <1>1, Invariance, PTL

\* A running endpoint has its provider's client and pool, published and open; an
\* invocation that has ended holds none (ProviderResourceRegistry's __enter__
\* and __exit__), whatever failed to open and whatever the queues ended with.
THEOREM ResourcesOutliveUse == Spec => []ResourcesOutliveTheirUse
<1>1. IInv => ResourcesOutliveTheirUse
  <2> SUFFICES ASSUME IInv PROVE ResourcesOutliveTheirUse
    OBVIOUS
  <2>1. /\ DatabaseInv /\ SelectionInv /\ ResourceInv /\ Frame
    BY Parts
  <2>2. ToSet(opened) \subseteq Registries \X Providers
    BY <2>1, ElementOfSeq DEF ResourceInv, ToSet
  <2>3. TypeOK
    BY <2>1, <2>2 DEF TypeOK, DatabaseInv, Database, SelectionInv, ResourceInv, Frame,
                      Phases, Checking, Migrating, Registries, Stages
  <2>4. ASSUME NEW t \in DOMAIN task, task[t] \in {"running", "raising"},
               NEW g \in Registries
        PROVE  g \in published /\ <<g, t[1]>> \in ToSet(opened)
    <3>1. at = "running" /\ t[1] \in Enabled
      BY <2>1, <2>4, UnderWay, TaskFacts
    <3> QED BY <2>1, <3>1 DEF ResourceInv
  <2>5. at \in {"idle", "ended"} => opened = <<>> /\ published = {}
    BY <2>1 DEF ResourceInv
  <2> QED BY <2>3, <2>4, <2>5 DEF ResourcesOutliveTheirUse, Registries
<1> QED BY <1>1, Invariance, PTL

\* The schema moves by whole migrations, each with its version, in a file that is
\* ours, sound and not newer than the code (migrate_to_head under the checks of
\* StateDatabase.open); no death, failing statement or refusal leaves half of one.
THEOREM MigrationsWhole == Spec => WholeMigrations
<1> DEFINE Moves == <<file.schema, file.version>>' # <<file.schema, file.version>> =>
                       /\ file.stamp = "fleetpull" /\ file.sound /\ file.wal
                       /\ file.version < HeadVersion
                       /\ file.version' = file.version + 1
                       /\ file.schema' = file.schema \union {file.version'}
<1>1. ASSUME IInv, [Next]_vars PROVE Moves
  <2>1. DatabaseInv
    BY <1>1, Parts
  <2>2. CASE file' = file
    BY <2>2
  <2>3. CASE StampOrVerify \/ EnableWal
    <3>1. file'.schema = file.schema /\ file'.version = file.version
      BY <2>1, <2>3 DEF StampOrVerify, EnableWal, DatabaseInv, Database
    <3> QED BY <3>1
  <2>4. CASE CommitMigration
    <3>1. at = "commit" /\ file' = transaction
      BY <2>4 DEF CommitMigration
    <3>2. /\ transaction.schema = file.schema \union {file.version + 1}
          /\ transaction.version = file.version + 1
          /\ file.stamp = "fleetpull" /\ file.sound /\ file.wal
          /\ file.version < HeadVersion
      BY <2>1, <3>1 DEF DatabaseInv, Verified, Migrating
    <3> QED BY <3>1, <3>2
  <2>5. StampOrVerify \/ EnableWal \/ CommitMigration \/ file' = file
    BY <1>1 DEF Next, Proceed, Construct, Crash, VerifyQuickCheck, ReadVersion,
                BeginMigration, ApplyMigration, BumpVersion, FailMigration, AtHead,
                OpenResource, FailOpen, SubmitQueues, ReleaseResource, StartTask,
                EndTask, CatchBug, RaiseBug, JoinStage, JoinQueues, CollectFailures, vars
  <2> QED BY <2>2, <2>3, <2>4, <2>5
<1>2. IInv /\ [Next]_vars => [Moves]_vars
  BY <1>1
<1> QED BY <1>2, Invariance, PTL DEF Spec, WholeMigrations

\* Once a bug has left its task nothing of that provider starts any more, in the
\* stage or the one after, and no consumer starts before every feeder has ended
\* with an answer (_run_endpoint_task under _run_provider_queue's stages).
THEOREM NothingStarts == Spec => NothingStartsAfterABug
<1> DEFINE Orderly == \A t \in DOMAIN task :
              t \in DOMAIN task' /\ task[t] = "waiting" /\ task'[t] = "running" =>
                  \A s \in DOMAIN task : s[1] = t[1] =>
                      /\ task[s] # "bug"
                      /\ Feeds(s) /\ ~Feeds(t) => task[s] \in {"succeeded", "failed"}
<1>1. ASSUME IInv, [Next]_vars PROVE Orderly
  <2> SUFFICES ASSUME NEW t \in DOMAIN task, t \in DOMAIN task',
                      task[t] = "waiting", task'[t] = "running",
                      NEW s \in DOMAIN task, s[1] = t[1]
               PROVE  /\ task[s] # "bug"
                      /\ Feeds(s) /\ ~Feeds(t) => task[s] \in {"succeeded", "failed"}
    OBVIOUS
  <2>1. SelectionInv /\ t[1] \in Providers /\ QueueInv(t[1]) /\ s \in Of(t[1])
    BY <1>1, Parts, TaskFacts DEF Of
  <2>2. StartTask(t)
    <3>1. CASE UNCHANGED task
      BY <3>1
    <3>2. CASE Construct
      <4>1. \A u \in DOMAIN task' : task'[u] = "waiting"
        BY <3>2 DEF Construct
      <4> QED BY <4>1
    <3>3. CASE Crash
      <4>1. DOMAIN task' = {}
        BY <3>3 DEF Crash
      <4> QED BY <4>1
    <3>4. CASE \E u \in DOMAIN task :
                  StartTask(u) \/ EndTask(u) \/ CatchBug(u) \/ RaiseBug(u)
      <4>1. PICK u \in DOMAIN task :
                  StartTask(u) \/ EndTask(u) \/ CatchBug(u) \/ RaiseBug(u)
        BY <3>4
      <4>2. u = t
        BY <4>1 DEF StartTask, EndTask, CatchBug, RaiseBug
      <4> QED BY <4>1, <4>2 DEF EndTask, CatchBug, RaiseBug
    <3> QED
      BY <1>1, <3>1, <3>2, <3>3, <3>4
         DEF Next, Proceed, StampOrVerify, EnableWal, VerifyQuickCheck, ReadVersion,
             BeginMigration, ApplyMigration, BumpVersion, CommitMigration,
             FailMigration, AtHead, OpenResource, FailOpen, SubmitQueues,
             ReleaseResource, JoinStage, JoinQueues, CollectFailures, queueVars, vars
  <2>3. t[1] \notin stopped /\ stage[t[1]] = IF Feeds(t) THEN "feeders" ELSE "consumers"
    BY <2>2 DEF StartTask, StageTasks
  <2> QED BY <2>1, <2>3 DEF QueueInv
<1>2. IInv /\ [Next]_vars => [Orderly]_vars
  BY <1>1
<1> QED BY <1>2, Invariance, PTL DEF Spec, NothingStartsAfterABug
=============================================================================
