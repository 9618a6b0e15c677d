------------------------- MODULE SessionFetchProofs -------------------------
(***************************************************************************)
(* What SessionFetch's run checks on two threads, proved for every number  *)
(* of threads, every pair of retry budgets and any number of pages and of  *)
(* lost sessions.                                                          *)
(***************************************************************************)
EXTENDS SessionFetch, FiniteSetTheorems, TLAPS

-----------------------------------------------------------------------------
(* The inductive invariant. *)

Active == {"prepare", "login", "send", "invalidate", "relogin"}

\* A page under way has spent neither budget, and every attempt is accounted for.
Budgeted(t) ==
    /\ task[t].attempts = task[t].transient + task[t].rateLimited + task[t].auth
    /\ task[t].pc \in Active =>
          /\ task[t].transient <= TransientMax
          /\ task[t].rateLimited <= RateMax
          /\ task[t].auth <= 1

\* The session rejected first on the page in hand, seen from where the page is.
OldSession(t, gen) ==
    /\ task[t].rejected = {gen}
    /\ task[t].pc \in {"invalidate", "relogin"} => gen = task[t].prepared
    /\ task[t].pc \in {"prepare", "login"} => gen < session.gen
    /\ task[t].pc = "send" => gen < task[t].prepared

Rejections(t) ==
    IF HasSessions
    THEN /\ task[t].auth = 0 => task[t].rejected = {}
         /\ task[t].auth = 1 /\ task[t].pc \in Active =>
               \E gen \in 0 .. session.gen : OldSession(t, gen)
         /\ task[t].pc \in {"invalidate", "relogin"} => task[t].auth = 1
         /\ task[t].pc = "rejected" =>
               \E gen, next \in 0 .. session.gen :
                   gen # next /\ task[t].rejected = {gen, next}
    ELSE /\ task[t].pc \notin {"login", "invalidate", "relogin"}
         /\ task[t].pc \in Active => task[t].auth = 0
         /\ task[t].pc = "rejected" => task[t].auth = 1

\* Why a login is under way.
LoginDue(t) ==
    /\ task[t].pc = "login" => session.gen = 0 \/ session.aged
    /\ task[t].pc = "relogin" => task[t].prepared = session.gen

ThreadInv(t) == Budgeted(t) /\ Rejections(t) /\ LoginDue(t)

IInv ==
    /\ TypeOK
    /\ lock \in Threads \cup {Nobody}
    /\ ~HasSessions => session.gen = 0
    /\ \A t \in Threads : ThreadInv(t)

-----------------------------------------------------------------------------
(* Lemmas. *)

TaskRecord(newest, gone) ==
    [pc : Points, prepared : 0 .. newest, transient : 0 .. TransientMax + 1,
     rateLimited : 0 .. RateMax + 1, auth : 0 .. 2,
     attempts : 0 .. TransientMax + RateMax + 2, rejected : SUBSET (gone \cup {0})]

\* The server accepts a session until it has dropped it.
LEMMA AcceptedIsNoAuthFailure ==
    /\ Received["accepted"] \subseteq Categories \ {"AUTH_FAILURE"}
    /\ Received["dropped"] \subseteq Categories
    /\ Received["key"] \subseteq Categories
<1>1. \A answer \in Answers :
          /\ GeotabCategory(answer) \in Categories /\ KeyCategory(answer) \in Categories
          /\ answer.body # "InvalidUserException" =>
                GeotabCategory(answer) # "AUTH_FAILURE"
  BY DEF GeotabCategory, KeyCategory, ErrorCategory, Categories
<1>2. /\ Possible["accepted"] = {answer \in Answers : answer.body # "InvalidUserException"}
      /\ Possible["dropped"] \subseteq Answers /\ Possible["key"] \subseteq Answers
      /\ DOMAIN Possible = {"accepted", "dropped", "key"}
  BY DEF Possible
<1>3. /\ Received["accepted"] = {Checked(GeotabCategory(a), a) : a \in Possible["accepted"]}
      /\ Received["dropped"] = {Checked(GeotabCategory(a), a) : a \in Possible["dropped"]}
      /\ Received["key"] = {Checked(KeyCategory(a), a) : a \in Possible["key"]}
  BY <1>2 DEF Received
<1>4. \A c \in Categories, a \in Answers :
          Checked(c, a) \in Categories /\ (c # "AUTH_FAILURE" => Checked(c, a) # "AUTH_FAILURE")
  BY DEF Checked, Categories
<1> QED BY <1>1, <1>2, <1>3, <1>4

\* One thread's record replaced, the others seeing a session that stays, ages or
\* is renewed while they are not logging in.
LEMMA OneThread ==
    ASSUME IInv, NEW t \in Threads,
           NEW rec \in TaskRecord(session.gen', dropped'),
           task' = [task EXCEPT ![t] = rec],
           UNCHANGED <<provider, losses, dropped>>,
           pages' \in 0 .. MaxPages,
           \/ session' = session
           \/ /\ session' = [gen |-> session.gen + 1, aged |-> FALSE]
              /\ lock = t /\ HasSessions,
           lock' \in {lock, t, Nobody},
           lock' # lock => lock \in {t, Nobody},
           rec.pc \in {"login", "relogin"} <=> lock' = t,
           ThreadInv(t)'
    PROVE  IInv'
<1> USE DEF IInv
<1>1. /\ session.gen \in Nat /\ session.gen' \in Nat /\ session.gen <= session.gen'
      /\ session' \in [gen : Nat, aged : BOOLEAN]
  <2>1. session \in [gen : Nat, aged : BOOLEAN]
    BY DEF TypeOK
  <2>2. session.gen \in Nat
    BY <2>1
  <2>3. CASE session' = session
    BY <2>1, <2>2, <2>3
  <2>4. CASE session' = [gen |-> session.gen + 1, aged |-> FALSE]
    BY <2>2, <2>4
  <2> QED BY <2>3, <2>4
<1>2. task \in [Threads -> TaskRecord(session.gen, dropped)]
  BY DEF TypeOK, TaskRecord
<1>3. TaskRecord(session.gen, dropped) \subseteq TaskRecord(session.gen', dropped')
  BY <1>1 DEF TaskRecord
<1>4. task' \in [Threads -> TaskRecord(session.gen', dropped')]
  BY <1>2, <1>3
<1>5. task'[t] = rec /\ \A u \in Threads \ {t} : task'[u] = task[u]
  BY <1>2
<1>6. dropped' \subseteq 1 .. session.gen'
  BY <1>1 DEF TypeOK
<1>7. ASSUME NEW u \in Threads \ {t}
      PROVE  /\ lock' = u <=> lock = u
             /\ LoggingIn(u) <=> lock = u
             /\ LoggingIn(u)' <=> LoggingIn(u)
  BY <1>5, FetchAssumption DEF TypeOK, LoggingIn, At
<1>8. \A u \in Threads : LoggingIn(u)' <=> lock' = u
  BY <1>5, <1>7 DEF LoggingIn, At
<1>9. TypeOK'
  BY <1>1, <1>4, <1>6, <1>8 DEF TypeOK, TaskRecord
<1>10. ~HasSessions' => session.gen' = 0
  BY DEF HasSessions
<1>11. ASSUME NEW u \in Threads \ {t} PROVE ThreadInv(u)'
  <2>1. Budgeted(u) /\ Rejections(u) /\ LoginDue(u)
    BY DEF ThreadInv
  <2>2. Budgeted(u)'
    BY <1>5, <2>1 DEF Budgeted
  <2>3. LoginDue(u)'
    <3>1. CASE session' = session
      BY <1>5, <2>1, <3>1 DEF LoginDue
    <3>2. CASE lock = t
      <4>1. task[u].pc # "login" /\ task[u].pc # "relogin"
        BY <1>7, <3>2 DEF LoggingIn, At
      <4> QED BY <1>5, <4>1 DEF LoginDue
    <3> QED BY <3>1, <3>2
  <2>4. Rejections(u)'
    <3>1. CASE HasSessions
      <4>1. ASSUME NEW gen \in 0 .. session.gen, OldSession(u, gen)
            PROVE  gen \in 0 .. session.gen' /\ OldSession(u, gen)'
        BY <1>1, <1>5, <4>1 DEF OldSession
      <4>2. task[u].auth = 1 /\ task[u].pc \in Active =>
               \E gen \in 0 .. session.gen' : OldSession(u, gen)'
        BY <2>1, <3>1, <4>1 DEF Rejections
      <4>3. task[u].pc = "rejected" =>
               \E gen, next \in 0 .. session.gen' :
                   gen # next /\ task[u].rejected = {gen, next}
        BY <1>1, <2>1, <3>1 DEF Rejections
      <4> QED BY <1>5, <2>1, <3>1, <4>2, <4>3 DEF Rejections, HasSessions
    <3>2. CASE ~HasSessions
      BY <1>5, <2>1, <3>2 DEF Rejections, HasSessions
    <3> QED BY <3>1, <3>2
  <2> QED BY <2>2, <2>3, <2>4 DEF ThreadInv
<1>12. lock' \in Threads \cup {Nobody}
  OBVIOUS
<1> QED BY <1>9, <1>10, <1>11, <1>12

LEMMA TaskTyped ==
    ASSUME IInv, NEW t \in Threads
    PROVE  /\ task[t] \in TaskRecord(session.gen, dropped)
           /\ task \in [Threads -> TaskRecord(session.gen, dropped)]
           /\ session.gen \in Nat /\ dropped \subseteq 1 .. session.gen
           /\ ThreadInv(t)
           /\ LoggingIn(t) <=> lock = t
BY DEF IInv, TypeOK, TaskRecord

-----------------------------------------------------------------------------
(* The invariant holds at first and is kept by every action. *)

LEMMA InitIInv == Init => IInv
<1> SUFFICES ASSUME Init PROVE IInv
  OBVIOUS
<1> USE FetchAssumption DEF Init
<1>1. TypeOK
  BY DEF TypeOK, Points, Ends, LoggingIn, At
<1>2. ASSUME NEW t \in Threads PROVE ThreadInv(t)
  BY DEF ThreadInv, Budgeted, Rejections, LoginDue, Active, HasSessions
<1> QED BY <1>1, <1>2 DEF IInv

LEMMA BeginPageKeeps ==
    ASSUME IInv, NEW t \in Threads, BeginPage(t)
    PROVE  IInv'
<1> DEFINE rec == [task[t] EXCEPT !.pc = "prepare", !.transient = 0,
                                  !.rateLimited = 0, !.auth = 0, !.attempts = 0,
                                  !.rejected = {}]
<1>1. /\ task' = [task EXCEPT ![t] = rec] /\ pages < MaxPages /\ pages' = pages + 1
      /\ UNCHANGED <<provider, session, lock, dropped, losses>>
      /\ task[t].pc \in {"idle"} \cup Ends
  BY DEF BeginPage, Over
<1>2. /\ rec \in TaskRecord(session.gen, dropped) /\ rec.pc = "prepare"
      /\ rec.transient = 0 /\ rec.rateLimited = 0 /\ rec.auth = 0
      /\ rec.attempts = 0 /\ rec.rejected = {}
  <2>1. task[t] \in TaskRecord(session.gen, dropped)
    BY TaskTyped
  <2>2. /\ 0 \in 0 .. TransientMax + 1 /\ 0 \in 0 .. RateMax + 1 /\ 0 \in 0 .. 2
        /\ 0 \in 0 .. TransientMax + RateMax + 2
        /\ {} \in SUBSET (dropped \cup {0})
    BY FetchAssumption
  <2>3. "prepare" \in Points
    BY DEF Points
  <2>4. rec \in TaskRecord(session.gen, dropped)
    BY <2>1, <2>2, <2>3, Zenon DEF TaskRecord
  <2> QED BY <2>1, <2>4 DEF TaskRecord
<1> HIDE DEF rec
<1>3. task'[t] = rec
  BY <1>1, TaskTyped
<1>4. ThreadInv(t)'
  BY <1>1, <1>2, <1>3, FetchAssumption
     DEF ThreadInv, Budgeted, Rejections, LoginDue, HasSessions
<1>5. lock # t
  BY <1>1, TaskTyped DEF LoggingIn, At, Ends
<1>6. pages' \in 0 .. MaxPages
  BY <1>1, FetchAssumption DEF IInv, TypeOK
<1> QED BY <1>1, <1>2, <1>4, <1>5, <1>6, OneThread

\* A thread that only moves on keeps its counters.
LEMMA PcMoved ==
    ASSUME IInv, NEW t \in Threads, NEW p \in Points,
           task' = [task EXCEPT ![t].pc = p]
    PROVE  /\ [task[t] EXCEPT !.pc = p] \in TaskRecord(session.gen, dropped)
           /\ task' = [task EXCEPT ![t] = [task[t] EXCEPT !.pc = p]]
           /\ task'[t].pc = p
           /\ task'[t].prepared = task[t].prepared
           /\ task'[t].transient = task[t].transient
           /\ task'[t].rateLimited = task[t].rateLimited
           /\ task'[t].auth = task[t].auth
           /\ task'[t].attempts = task[t].attempts
           /\ task'[t].rejected = task[t].rejected
<1> DEFINE rec == [task[t] EXCEPT !.pc = p]
<1>1. /\ task[t] \in TaskRecord(session.gen, dropped)
      /\ task \in [Threads -> TaskRecord(session.gen, dropped)]
  BY TaskTyped
<1>2. rec \in TaskRecord(session.gen, dropped)
  BY <1>1, Zenon DEF TaskRecord
<1>3. /\ rec.pc = p /\ rec.prepared = task[t].prepared
      /\ rec.transient = task[t].transient /\ rec.rateLimited = task[t].rateLimited
      /\ rec.auth = task[t].auth /\ rec.attempts = task[t].attempts
      /\ rec.rejected = task[t].rejected
  BY <1>1 DEF TaskRecord
<1>4. task' = [task EXCEPT ![t] = rec] /\ task'[t] = rec
  BY <1>1
<1> QED BY <1>2, <1>3, <1>4

\* A failed attempt within or beyond the TRANSIENT budget, under the request or
\* under prepare's login.
LEMMA TransientKeeps ==
    ASSUME IInv, NEW t \in Threads, Transient(t),
           UNCHANGED <<provider, session, dropped, losses, pages>>,
           \/ task[t].pc = "send" /\ lock' = lock
           \/ task[t].pc = "login" /\ lock' = Nobody
    PROVE  IInv'
<1> DEFINE next == IF task[t].transient < TransientMax THEN "prepare" ELSE "exhausted"
           rec == [task[t] EXCEPT !.pc = next, !.transient = task[t].transient + 1,
                                  !.attempts = task[t].attempts + 1]
<1>1. /\ task[t] \in TaskRecord(session.gen, dropped)
      /\ task \in [Threads -> TaskRecord(session.gen, dropped)]
      /\ ThreadInv(t) /\ (LoggingIn(t) <=> lock = t) /\ session.gen \in Nat
  BY TaskTyped
<1>2. task[t].transient \in Nat /\ task[t].rateLimited \in Nat /\ task[t].auth \in Nat
      /\ task[t].prepared \in 0 .. session.gen
  BY <1>1, FetchAssumption DEF TaskRecord
<1>3. /\ task[t].attempts = task[t].transient + task[t].rateLimited + task[t].auth
      /\ task[t].transient <= TransientMax /\ task[t].rateLimited <= RateMax
      /\ task[t].auth <= 1
  BY <1>1 DEF ThreadInv, Budgeted, Active
<1>4. /\ task[t].transient + 1 \in 0 .. TransientMax + 1
      /\ task[t].attempts + 1 \in 0 .. TransientMax + RateMax + 2
      /\ next \in Points
  BY <1>2, <1>3, FetchAssumption DEF Points, Ends
<1> HIDE DEF next
<1>5. rec \in TaskRecord(session.gen, dropped)
  BY <1>1, <1>4, Zenon DEF TaskRecord
<1>6. /\ rec.pc = next /\ rec.prepared = task[t].prepared
      /\ rec.transient = task[t].transient + 1
      /\ rec.rateLimited = task[t].rateLimited
      /\ rec.auth = task[t].auth /\ rec.attempts = task[t].attempts + 1
      /\ rec.rejected = task[t].rejected
  BY <1>1 DEF TaskRecord
<1>7. task' = [task EXCEPT ![t] = rec]
  BY DEF Transient, next
<1> HIDE DEF rec
<1>14. task'[t] = rec
  BY <1>1, <1>7
<1>8. next \in {"prepare", "exhausted"} /\ (next = "prepare" => task[t].transient < TransientMax)
  BY DEF next
<1>9. Budgeted(t)'
  BY <1>2, <1>3, <1>6, <1>14, <1>8, FetchAssumption DEF Budgeted, Active
<1>10. LoginDue(t)'
  BY <1>6, <1>14, <1>8 DEF LoginDue
<1>11. Rejections(t)'
  <2>1. ASSUME NEW gen \in 0 .. session.gen, OldSession(t, gen)
        PROVE  OldSession(t, gen)'
    <3>1. gen < session.gen /\ task[t].rejected = {gen}
      BY <1>1, <1>2, <2>1 DEF OldSession
    <3> QED BY <1>6, <1>14, <1>8, <3>1 DEF OldSession
  <2>2. Rejections(t) /\ task[t].pc \in Active
    BY <1>1 DEF ThreadInv, Active
  <2>3. CASE HasSessions
    BY <1>6, <1>14, <1>8, <2>1, <2>2, <2>3 DEF Rejections, HasSessions
  <2>4. CASE ~HasSessions
    BY <1>6, <1>14, <1>8, <2>2, <2>4 DEF Rejections, HasSessions, Active
  <2> QED BY <2>3, <2>4
<1>12. lock' # t /\ (lock' # lock => lock = t)
  BY <1>1, FetchAssumption DEF LoggingIn, At
<1>13. pages' \in 0 .. MaxPages /\ ThreadInv(t)'
  BY <1>9, <1>10, <1>11 DEF IInv, TypeOK, ThreadInv
<1> QED BY <1>5, <1>6, <1>7, <1>8, <1>12, <1>13, OneThread

\* A rate-limited answer, within or beyond its budget.
LEMMA RateLimitedKeeps ==
    ASSUME IInv, NEW t \in Threads, RateLimited(t), task[t].pc = "send",
           UNCHANGED <<provider, session, lock, dropped, losses, pages>>
    PROVE  IInv'
<1> DEFINE next == IF task[t].rateLimited < RateMax THEN "prepare" ELSE "exhausted"
           rec == [task[t] EXCEPT !.pc = next, !.rateLimited = task[t].rateLimited + 1,
                                  !.attempts = task[t].attempts + 1]
<1>1. /\ task[t] \in TaskRecord(session.gen, dropped)
      /\ task \in [Threads -> TaskRecord(session.gen, dropped)]
      /\ ThreadInv(t) /\ (LoggingIn(t) <=> lock = t) /\ session.gen \in Nat
  BY TaskTyped
<1>2. task[t].transient \in Nat /\ task[t].rateLimited \in Nat /\ task[t].auth \in Nat
      /\ task[t].prepared \in 0 .. session.gen
  BY <1>1, FetchAssumption DEF TaskRecord
<1>3. /\ task[t].attempts = task[t].transient + task[t].rateLimited + task[t].auth
      /\ task[t].transient <= TransientMax /\ task[t].rateLimited <= RateMax
      /\ task[t].auth <= 1
  BY <1>1 DEF ThreadInv, Budgeted, Active
<1>4. /\ task[t].rateLimited + 1 \in 0 .. RateMax + 1
      /\ task[t].attempts + 1 \in 0 .. TransientMax + RateMax + 2
      /\ next \in Points
  BY <1>2, <1>3, FetchAssumption DEF Points, Ends
<1> HIDE DEF next
<1>5. rec \in TaskRecord(session.gen, dropped)
  BY <1>1, <1>4, Zenon DEF TaskRecord
<1>6. /\ rec.pc = next /\ rec.prepared = task[t].prepared
      /\ rec.transient = task[t].transient
      /\ rec.rateLimited = task[t].rateLimited + 1
      /\ rec.auth = task[t].auth /\ rec.attempts = task[t].attempts + 1
      /\ rec.rejected = task[t].rejected
  BY <1>1 DEF TaskRecord
<1>7. task' = [task EXCEPT ![t] = rec]
  BY DEF RateLimited, next
<1> HIDE DEF rec
<1>8. task'[t] = rec
  BY <1>1, <1>7
<1>9. next \in {"prepare", "exhausted"}
      /\ (next = "prepare" => task[t].rateLimited < RateMax)
  BY DEF next
<1>10. Budgeted(t)'
  BY <1>2, <1>3, <1>6, <1>8, <1>9, FetchAssumption DEF Budgeted, Active
<1>11. LoginDue(t)'
  BY <1>6, <1>8, <1>9 DEF LoginDue
<1>12. Rejections(t)'
  <2>1. ASSUME NEW gen \in 0 .. session.gen, OldSession(t, gen)
        PROVE  OldSession(t, gen)'
    <3>1. gen < session.gen /\ task[t].rejected = {gen}
      BY <1>1, <1>2, <2>1 DEF OldSession
    <3> QED BY <1>6, <1>8, <1>9, <3>1 DEF OldSession
  <2>2. Rejections(t) /\ task[t].pc \in Active
    BY <1>1 DEF ThreadInv, Active
  <2>3. CASE HasSessions
    BY <1>6, <1>8, <1>9, <2>1, <2>2, <2>3 DEF Rejections, HasSessions
  <2>4. CASE ~HasSessions
    BY <1>6, <1>8, <1>9, <2>2, <2>4 DEF Rejections, HasSessions, Active
  <2> QED BY <2>3, <2>4
<1>13. lock # t
  BY <1>1 DEF LoggingIn, At
<1>14. pages' \in 0 .. MaxPages /\ ThreadInv(t)'
  BY <1>10, <1>11, <1>12 DEF IInv, TypeOK, ThreadInv
<1> QED BY <1>5, <1>6, <1>7, <1>9, <1>13, <1>14, OneThread

\* A rejected session: the first on the page is reported, a second is another
\* one; and the one key of a key provider ends the page.
LEMMA RejectedKeeps ==
    ASSUME IInv, NEW t \in Threads, Rejected(t), task[t].pc = "send",
           HasSessions => task[t].prepared \in dropped,
           UNCHANGED <<provider, session, lock, dropped, losses, pages>>
    PROVE  IInv'
<1> DEFINE next == IF task[t].auth = 0 /\ HasSessions THEN "invalidate" ELSE "rejected"
           known == task[t].rejected \cup {task[t].prepared}
           rec == [task[t] EXCEPT !.pc = next, !.auth = task[t].auth + 1,
                                  !.attempts = task[t].attempts + 1,
                                  !.rejected = known]
<1>1. /\ task[t] \in TaskRecord(session.gen, dropped)
      /\ task \in [Threads -> TaskRecord(session.gen, dropped)]
      /\ ThreadInv(t) /\ (LoggingIn(t) <=> lock = t) /\ session.gen \in Nat
      /\ dropped \subseteq 1 .. session.gen
  BY TaskTyped
<1>2. task[t].transient \in Nat /\ task[t].rateLimited \in Nat /\ task[t].auth \in Nat
      /\ task[t].prepared \in 0 .. session.gen
      /\ task[t].rejected \subseteq dropped \cup {0}
  BY <1>1, FetchAssumption DEF TaskRecord
<1>3. /\ task[t].attempts = task[t].transient + task[t].rateLimited + task[t].auth
      /\ task[t].transient <= TransientMax /\ task[t].rateLimited <= RateMax
      /\ task[t].auth <= 1
  BY <1>1 DEF ThreadInv, Budgeted, Active
<1>4. /\ task[t].auth + 1 \in 0 .. 2
      /\ task[t].attempts + 1 \in 0 .. TransientMax + RateMax + 2
      /\ next \in Points
  BY <1>2, <1>3, FetchAssumption DEF Points, Ends
<1>5. task[t].prepared \in dropped \cup {0}
  <2>1. CASE HasSessions
    BY <2>1
  <2>2. CASE ~HasSessions
    BY <1>2, <2>2 DEF IInv
  <2> QED BY <2>1, <2>2
<1>6. known \in SUBSET (dropped \cup {0})
  BY <1>2, <1>5
<1> HIDE DEF next, known
<1>7. rec \in TaskRecord(session.gen, dropped)
  BY <1>1, <1>4, <1>6, Zenon DEF TaskRecord
<1>8. /\ rec.pc = next /\ rec.prepared = task[t].prepared
      /\ rec.transient = task[t].transient
      /\ rec.rateLimited = task[t].rateLimited
      /\ rec.auth = task[t].auth + 1 /\ rec.attempts = task[t].attempts + 1
      /\ rec.rejected = known
  BY <1>1 DEF TaskRecord
<1>9. task' = [task EXCEPT ![t] = rec]
  BY DEF Rejected, next, known
<1> HIDE DEF rec
<1>10. task'[t] = rec
  BY <1>1, <1>9
<1>11. next \in {"invalidate", "rejected"}
       /\ (next = "invalidate" <=> task[t].auth = 0 /\ HasSessions)
  BY DEF next
<1>12. Budgeted(t)'
  BY <1>2, <1>3, <1>8, <1>10, <1>11, FetchAssumption DEF Budgeted, Active
<1>13. LoginDue(t)'
  BY <1>8, <1>10, <1>11 DEF LoginDue
<1>14. Rejections(t)'
  <2>1. Rejections(t) /\ task[t].pc \in Active
    BY <1>1 DEF ThreadInv, Active
  <2>2. CASE HasSessions /\ task[t].auth = 0
    <3>1. PICK gen \in 0 .. session.gen : gen = task[t].prepared
      BY <1>2
    <3>2. known = {gen}
      BY <2>1, <2>2, <3>1 DEF Rejections, known
    <3>3. OldSession(t, gen)' /\ next = "invalidate"
      BY <1>8, <1>10, <1>11, <2>2, <3>1, <3>2 DEF OldSession
    <3>4. \E old \in 0 .. session'.gen : OldSession(t, old)'
      BY <3>3
    <3> QED BY <1>8, <1>10, <1>2, <2>2, <3>3, <3>4 DEF Rejections, HasSessions
  <2>3. CASE HasSessions /\ task[t].auth # 0
    <3>1. task[t].auth = 1
      BY <1>2, <1>3, <2>3
    <3>2. PICK gen \in 0 .. session.gen : OldSession(t, gen)
      BY <2>1, <2>3, <3>1 DEF Rejections
    <3>3. gen < task[t].prepared /\ known = {gen, task[t].prepared}
      BY <3>2 DEF OldSession, known
    <3>4. gen # task[t].prepared
      BY <1>2, <3>3
    <3>5. \E a, b \in 0 .. session'.gen : a # b /\ known = {a, b}
      BY <1>2, <3>2, <3>3, <3>4
    <3>6. next = "rejected" /\ task'[t].auth = 2
      BY <1>8, <1>10, <1>11, <2>3, <3>1
    <3> QED BY <1>8, <1>10, <2>3, <3>5, <3>6 DEF Rejections, HasSessions, Active
  <2>4. CASE ~HasSessions
    <3>1. task[t].auth = 0 /\ next = "rejected"
      BY <1>11, <2>1, <2>4 DEF Rejections
    <3> QED BY <1>8, <1>10, <2>4, <3>1 DEF Rejections, HasSessions, Active
  <2> QED BY <2>2, <2>3, <2>4
<1>15. lock # t
  BY <1>1 DEF LoggingIn, At
<1>16. pages' \in 0 .. MaxPages /\ ThreadInv(t)'
  BY <1>12, <1>13, <1>14 DEF IInv, TypeOK, ThreadInv
<1> QED BY <1>7, <1>8, <1>9, <1>11, <1>15, <1>16, OneThread

\* A thread only moves on, and what its new place promises already holds.
LEMMA MovesKeeps ==
    ASSUME IInv, NEW t \in Threads, NEW p \in Points,
           task' = [task EXCEPT ![t].pc = p],
           UNCHANGED <<provider, session, dropped, losses, pages>>,
           lock' \in {lock, t, Nobody},
           lock' # lock => lock \in {t, Nobody},
           p \in {"login", "relogin"} <=> lock' = t,
           ThreadInv(t)'
    PROVE  IInv'
<1>1. pages' \in 0 .. MaxPages
  BY DEF IInv, TypeOK
<1> DEFINE rec == [task[t] EXCEPT !.pc = p]
<1>2. /\ rec \in TaskRecord(session.gen', dropped')
      /\ task' = [task EXCEPT ![t] = rec]
  BY PcMoved
<1>3. rec.pc = p
  BY PcMoved, TaskTyped DEF TaskRecord
<1> HIDE DEF rec
<1> QED BY <1>1, <1>2, <1>3, OneThread

LEMMA SendKeeps ==
    ASSUME IInv, NEW t \in Threads, Send(t)
    PROVE  IInv'
<1>1. PICK category \in Received[Sent(t)] :
          \/ category = "SUCCESS" /\ Goto(t, "envelope")
          \/ category = "TRANSIENT" /\ Transient(t)
          \/ category = "RATE_LIMITED" /\ RateLimited(t)
          \/ category = "AUTH_FAILURE" /\ Rejected(t)
          \/ category = "FATAL" /\ Goto(t, "fatal")
  BY DEF Send
<1>2. /\ task[t].pc = "send"
      /\ UNCHANGED <<provider, session, lock, dropped, losses, pages>>
  BY DEF Send, At
<1>3. /\ ThreadInv(t) /\ lock # t
  BY <1>2, TaskTyped DEF LoggingIn, At
<1>4. ASSUME NEW p \in {"envelope", "fatal"}, Goto(t, p)
      PROVE  IInv'
  <2>1. p \in Points /\ p \notin Active \cup {"login", "relogin", "rejected", "send"}
    BY DEF Points, Ends, Active
  <2>2. task' = [task EXCEPT ![t].pc = p]
    BY <1>4 DEF Goto
  <2>3. /\ task'[t].pc = p
        /\ task'[t].transient = task[t].transient
        /\ task'[t].rateLimited = task[t].rateLimited
        /\ task'[t].auth = task[t].auth
        /\ task'[t].attempts = task[t].attempts
        /\ task'[t].rejected = task[t].rejected
    BY <2>1, <2>2, PcMoved
  <2>4. Budgeted(t)' /\ LoginDue(t)' /\ Rejections(t)'
    BY <1>2, <1>3, <2>1, <2>3
       DEF ThreadInv, Budgeted, LoginDue, Rejections, Active, HasSessions
  <2>5. ThreadInv(t)'
    BY <2>4 DEF ThreadInv
  <2> QED BY <1>2, <1>3, <2>1, <2>2, <2>5, MovesKeeps
<1>5. CASE category = "TRANSIENT" /\ Transient(t)
  BY <1>2, <1>5, TransientKeeps
<1>6. CASE category = "RATE_LIMITED" /\ RateLimited(t)
  BY <1>2, <1>6, RateLimitedKeeps
<1>7. CASE category = "AUTH_FAILURE" /\ Rejected(t)
  <2>1. HasSessions => task[t].prepared \in dropped
    BY <1>7, AcceptedIsNoAuthFailure DEF Sent
  <2> QED BY <1>2, <1>7, <2>1, RejectedKeeps
<1> QED BY <1>1, <1>4, <1>5, <1>6, <1>7

LEMMA SendFailsKeeps ==
    ASSUME IInv, NEW t \in Threads, SendFails(t)
    PROVE  IInv'
BY TransientKeeps DEF SendFails, At

LEMMA PrepareKeyKeeps ==
    ASSUME IInv, NEW t \in Threads, PrepareKey(t)
    PROVE  IInv'
<1>1. /\ task[t].pc = "prepare" /\ ~HasSessions
      /\ task' = [task EXCEPT ![t].pc = "send"]
      /\ UNCHANGED <<provider, session, lock, dropped, losses, pages>>
  BY DEF PrepareKey, At, Goto
<1>2. ThreadInv(t) /\ lock # t
  BY <1>1, TaskTyped DEF LoggingIn, At
<1>3. "send" \in Points
  BY DEF Points
<1>4. /\ task'[t].pc = "send"
      /\ task'[t].transient = task[t].transient
      /\ task'[t].rateLimited = task[t].rateLimited
      /\ task'[t].auth = task[t].auth
      /\ task'[t].attempts = task[t].attempts
  BY <1>1, <1>3, PcMoved
<1>5. Budgeted(t)' /\ LoginDue(t)' /\ Rejections(t)'
  BY <1>1, <1>2, <1>4
     DEF ThreadInv, Budgeted, LoginDue, Rejections, Active, HasSessions
<1>6. ThreadInv(t)'
  BY <1>5 DEF ThreadInv
<1> QED BY <1>1, <1>2, <1>3, <1>6, MovesKeeps DEF Active

\* prepare takes the cached session, which is newer than one rejected before, or
\* the lock for a login.
LEMMA PrepareKeeps ==
    ASSUME IInv, NEW t \in Threads, Prepare(t)
    PROVE  IInv'
<1>1. /\ task[t].pc = "prepare" /\ HasSessions /\ lock = Nobody
      /\ UNCHANGED <<provider, session, dropped, losses, pages>>
  BY DEF Prepare, At
<1>2. /\ ThreadInv(t) /\ lock # t /\ session.gen \in Nat
      /\ task[t] \in TaskRecord(session.gen, dropped)
      /\ task \in [Threads -> TaskRecord(session.gen, dropped)]
  BY <1>1, TaskTyped DEF LoggingIn, At
<1>3. CASE session.gen = 0 \/ session.aged
  <2>1. task' = [task EXCEPT ![t].pc = "login"] /\ lock' = t
    BY <1>3 DEF Prepare, Goto
  <2>2. "login" \in Points
    BY DEF Points
  <2>3. /\ task'[t].pc = "login"
        /\ task'[t].transient = task[t].transient
        /\ task'[t].rateLimited = task[t].rateLimited
        /\ task'[t].auth = task[t].auth
        /\ task'[t].attempts = task[t].attempts
        /\ task'[t].rejected = task[t].rejected
    BY <2>1, <2>2, PcMoved
  <2>4. Budgeted(t)' /\ LoginDue(t)'
    BY <1>1, <1>2, <1>3, <2>3 DEF ThreadInv, Budgeted, LoginDue, Active
  <2>5. \A gen \in 0 .. session.gen : OldSession(t, gen) => OldSession(t, gen)'
    BY <1>1, <2>3 DEF OldSession
  <2>6. Rejections(t)'
    BY <1>1, <1>2, <2>3, <2>5 DEF ThreadInv, Rejections, Active, HasSessions
  <2>7. ThreadInv(t)'
    BY <2>4, <2>6 DEF ThreadInv
  <2> QED BY <1>1, <2>1, <2>2, <2>7, MovesKeeps
<1>4. CASE ~(session.gen = 0 \/ session.aged)
  <2> DEFINE rec == [task[t] EXCEPT !.pc = "send", !.prepared = session.gen]
  <2>1. task' = [task EXCEPT ![t] = rec] /\ lock' = lock
    BY <1>2, <1>4 DEF Prepare
  <2>2. "send" \in Points /\ session.gen \in 0 .. session.gen
    BY <1>2 DEF Points
  <2>3. rec \in TaskRecord(session.gen, dropped)
    BY <1>2, <2>2, Zenon DEF TaskRecord
  <2>4. /\ rec.pc = "send" /\ rec.prepared = session.gen
        /\ rec.transient = task[t].transient
        /\ rec.rateLimited = task[t].rateLimited
        /\ rec.auth = task[t].auth /\ rec.attempts = task[t].attempts
        /\ rec.rejected = task[t].rejected
    BY <1>2 DEF TaskRecord
  <2> HIDE DEF rec
  <2>5. task'[t] = rec
    BY <1>2, <2>1
  <2>6. Budgeted(t)' /\ LoginDue(t)'
    BY <1>1, <1>2, <2>4, <2>5 DEF ThreadInv, Budgeted, LoginDue, Active
  <2>7. \A gen \in 0 .. session.gen : OldSession(t, gen) => OldSession(t, gen)'
    BY <1>1, <2>4, <2>5 DEF OldSession
  <2>8. Rejections(t)'
    BY <1>1, <1>2, <2>4, <2>5, <2>7 DEF ThreadInv, Rejections, Active, HasSessions
  <2>9. ThreadInv(t)' /\ pages' \in 0 .. MaxPages
    BY <1>1, <2>6, <2>8 DEF ThreadInv, IInv, TypeOK
  <2> QED BY <1>1, <1>2, <2>1, <2>3, <2>4, <2>9, OneThread
<1> QED BY <1>3, <1>4

\* A session replaced by a sibling is left, the cached one is logged in anew.
LEMMA InvalidateKeeps ==
    ASSUME IInv, NEW t \in Threads, Invalidate(t)
    PROVE  IInv'
<1>1. /\ task[t].pc = "invalidate" /\ lock = Nobody
      /\ UNCHANGED <<provider, session, dropped, losses, pages>>
  BY DEF Invalidate, At
<1>2. /\ ThreadInv(t) /\ lock # t /\ session.gen \in Nat
      /\ task[t] \in TaskRecord(session.gen, dropped)
  BY <1>1, TaskTyped DEF LoggingIn, At
<1>3. HasSessions /\ task[t].auth = 1 /\ task[t].prepared \in 0 .. session.gen
  BY <1>1, <1>2 DEF ThreadInv, Rejections, TaskRecord
<1>4. PICK p \in {"prepare", "relogin"} :
          /\ task' = [task EXCEPT ![t].pc = p]
          /\ p = "prepare" => task[t].prepared < session.gen /\ lock' = lock
          /\ p = "relogin" => ~(task[t].prepared < session.gen) /\ lock' = t
  BY DEF Invalidate, Goto
<1>5. p \in Points
  BY <1>4 DEF Points
<1>6. /\ task'[t].pc = p
      /\ task'[t].prepared = task[t].prepared
      /\ task'[t].transient = task[t].transient
      /\ task'[t].rateLimited = task[t].rateLimited
      /\ task'[t].auth = task[t].auth
      /\ task'[t].attempts = task[t].attempts
      /\ task'[t].rejected = task[t].rejected
  BY <1>4, <1>5, PcMoved
<1>7. Budgeted(t)'
  BY <1>1, <1>2, <1>4, <1>6 DEF ThreadInv, Budgeted, Active
<1>8. p = "relogin" => task[t].prepared = session.gen
  BY <1>2, <1>3, <1>4
<1>9. LoginDue(t)'
  BY <1>1, <1>4, <1>6, <1>8 DEF LoginDue
<1>10. \A gen \in 0 .. session.gen : OldSession(t, gen) => OldSession(t, gen)'
  BY <1>1, <1>4, <1>6 DEF OldSession
<1>11. Rejections(t)'
  BY <1>1, <1>2, <1>3, <1>4, <1>6, <1>10
     DEF ThreadInv, Rejections, Active, HasSessions
<1>12. ThreadInv(t)' /\ Nobody # t
  BY <1>7, <1>9, <1>11, FetchAssumption DEF ThreadInv
<1> QED BY <1>1, <1>4, <1>5, <1>12, MovesKeeps

\* A login makes the next generation, newer than every session rejected before.
LEMMA LoginSucceedsKeeps ==
    ASSUME IInv, NEW t \in Threads, LoginSucceeds(t)
    PROVE  IInv'
<1>1. /\ task[t].pc \in {"login", "relogin"}
      /\ session' = [gen |-> session.gen + 1, aged |-> FALSE] /\ lock' = Nobody
      /\ UNCHANGED <<provider, dropped, losses, pages>>
  BY DEF LoginSucceeds, LoggingIn, At
<1>2. /\ ThreadInv(t) /\ lock = t /\ session.gen \in Nat
      /\ task[t] \in TaskRecord(session.gen, dropped)
      /\ task \in [Threads -> TaskRecord(session.gen, dropped)]
  BY <1>1, TaskTyped DEF LoggingIn, At
<1>3. HasSessions /\ session'.gen = session.gen + 1
  BY <1>1, <1>2 DEF ThreadInv, Rejections
<1>4. task[t].prepared \in 0 .. session.gen
  BY <1>2 DEF TaskRecord
<1>5. task[t] \in TaskRecord(session.gen + 1, dropped)
  <2>1. 0 .. session.gen \subseteq 0 .. session.gen + 1
    BY <1>2
  <2> QED BY <1>2, <2>1 DEF TaskRecord
<1>6. "send" \in Points /\ "prepare" \in Points
      /\ session.gen + 1 \in 0 .. session.gen + 1
  BY <1>2 DEF Points
<1>7. CASE task[t].pc = "login"
  <2> DEFINE rec == [task[t] EXCEPT !.pc = "send", !.prepared = session.gen + 1]
  <2>1. task' = [task EXCEPT ![t] = rec]
    BY <1>2, <1>7 DEF LoginSucceeds, At
  <2>2. rec \in TaskRecord(session.gen + 1, dropped)
    BY <1>5, <1>6, Zenon DEF TaskRecord
  <2>3. /\ rec.pc = "send" /\ rec.prepared = session.gen + 1
        /\ rec.transient = task[t].transient
        /\ rec.rateLimited = task[t].rateLimited
        /\ rec.auth = task[t].auth /\ rec.attempts = task[t].attempts
        /\ rec.rejected = task[t].rejected
    BY <1>2 DEF TaskRecord
  <2> HIDE DEF rec
  <2>4. task'[t] = rec
    BY <1>2, <2>1
  <2>5. Budgeted(t)' /\ LoginDue(t)'
    BY <1>2, <1>7, <2>3, <2>4 DEF ThreadInv, Budgeted, LoginDue, Active
  <2>6. ASSUME NEW gen \in 0 .. session.gen, OldSession(t, gen)
        PROVE  gen \in 0 .. session'.gen /\ OldSession(t, gen)'
    BY <1>2, <1>3, <1>7, <2>3, <2>4, <2>6 DEF OldSession
  <2>7. Rejections(t)'
    BY <1>2, <1>3, <1>7, <1>1, <2>3, <2>4, <2>6
       DEF ThreadInv, Rejections, Active, HasSessions
  <2>8. ThreadInv(t)' /\ pages' \in 0 .. MaxPages
    BY <1>1, <2>5, <2>7 DEF ThreadInv, IInv, TypeOK
  <2>9. rec \in TaskRecord(session.gen', dropped') /\ Nobody # t
    BY <1>1, <1>3, <2>2, FetchAssumption
  <2> QED BY <1>1, <1>2, <1>3, <2>1, <2>3, <2>8, <2>9, OneThread
<1>8. CASE task[t].pc = "relogin"
  <2> DEFINE rec == [task[t] EXCEPT !.pc = "prepare"]
  <2>1. task' = [task EXCEPT ![t] = rec]
    BY <1>2, <1>8 DEF LoginSucceeds, At
  <2>2. rec \in TaskRecord(session.gen + 1, dropped)
    BY <1>5, <1>6, Zenon DEF TaskRecord
  <2>3. /\ rec.pc = "prepare" /\ rec.prepared = task[t].prepared
        /\ rec.transient = task[t].transient
        /\ rec.rateLimited = task[t].rateLimited
        /\ rec.auth = task[t].auth /\ rec.attempts = task[t].attempts
        /\ rec.rejected = task[t].rejected
    BY <1>2 DEF TaskRecord
  <2> HIDE DEF rec
  <2>4. task'[t] = rec
    BY <1>2, <2>1
  <2>5. Budgeted(t)' /\ LoginDue(t)'
    BY <1>2, <1>8, <2>3, <2>4 DEF ThreadInv, Budgeted, LoginDue, Active
  <2>6. ASSUME NEW gen \in 0 .. session.gen, OldSession(t, gen)
        PROVE  gen \in 0 .. session'.gen /\ OldSession(t, gen)'
    BY <1>2, <1>3, <1>8, <2>3, <2>4, <2>6 DEF OldSession
  <2>7. Rejections(t)'
    BY <1>2, <1>3, <1>8, <1>1, <2>3, <2>4, <2>6
       DEF ThreadInv, Rejections, Active, HasSessions
  <2>8. ThreadInv(t)' /\ pages' \in 0 .. MaxPages
    BY <1>1, <2>5, <2>7 DEF ThreadInv, IInv, TypeOK
  <2>9. rec \in TaskRecord(session.gen', dropped') /\ Nobody # t
    BY <1>1, <1>3, <2>2, FetchAssumption
  <2> QED BY <1>1, <1>2, <1>3, <2>1, <2>3, <2>8, <2>9, OneThread
<1> QED BY <1>1, <1>7, <1>8

\* A login that raises ends its page: nothing but the lock changes hands.
LEMMA LoginRaisesKeeps ==
    ASSUME IInv, NEW t \in Threads, NEW p \in {"refused", "raw"},
           LoggingIn(t), Goto(t, p), lock' = Nobody,
           UNCHANGED <<provider, session, dropped, losses, pages>>
    PROVE  IInv'
<1>1. p \in Points /\ p \notin Active /\ p # "rejected"
  BY DEF Points, Ends, Active
<1>2. task' = [task EXCEPT ![t].pc = p]
  BY DEF Goto
<1>3. /\ ThreadInv(t) /\ lock = t /\ task[t].pc \in {"login", "relogin"}
  BY TaskTyped DEF LoggingIn, At
<1>4. /\ task'[t].pc = p
      /\ task'[t].transient = task[t].transient
      /\ task'[t].rateLimited = task[t].rateLimited
      /\ task'[t].auth = task[t].auth
      /\ task'[t].attempts = task[t].attempts
      /\ task'[t].rejected = task[t].rejected
  BY <1>1, <1>2, PcMoved
<1>5. Budgeted(t)' /\ LoginDue(t)' /\ Rejections(t)'
  BY <1>1, <1>3, <1>4
     DEF ThreadInv, Budgeted, LoginDue, Rejections, Active, HasSessions
<1>6. ThreadInv(t)' /\ Nobody # t
  BY <1>5, FetchAssumption DEF ThreadInv
<1> QED BY <1>1, <1>2, <1>3, <1>6, MovesKeeps

LEMMA LoginUnreachableKeeps ==
    ASSUME IInv, NEW t \in Threads, LoginUnreachable(t)
    PROVE  IInv'
<1>1. CASE At(t, "login")
  BY <1>1, TransientKeeps DEF LoginUnreachable, At
<1>2. CASE ~At(t, "login")
  BY <1>2, LoginRaisesKeeps DEF LoginUnreachable
<1> QED BY <1>1, <1>2

\* A session that is dropped or ages disturbs no thread.
LEMMA LossKeeps ==
    ASSUME IInv, Drop \/ Age
    PROVE  IInv'
<1>1. /\ UNCHANGED <<provider, lock, pages, task>> /\ losses' = losses + 1
      /\ losses < MaxLosses
  BY DEF Drop, Age, CanLose
<1>2. /\ session \in [gen : Nat, aged : BOOLEAN] /\ dropped \subseteq 1 .. session.gen
      /\ session.gen \in Nat
      /\ task \in [Threads -> TaskRecord(session.gen, dropped)]
      /\ losses' \in 0 .. MaxLosses
  BY <1>1, FetchAssumption DEF IInv, TypeOK, TaskRecord
<1>3. /\ session'.gen = session.gen /\ session' \in [gen : Nat, aged : BOOLEAN]
      /\ session.aged => session'.aged
      /\ dropped \subseteq dropped' /\ dropped' \subseteq 1 .. session'.gen
  BY <1>2 DEF Drop, Age
<1>4. task' \in [Threads -> TaskRecord(session'.gen, dropped')]
  <2>1. TaskRecord(session.gen, dropped) \subseteq TaskRecord(session.gen, dropped')
    BY <1>3 DEF TaskRecord
  <2> QED BY <1>1, <1>2, <1>3, <2>1
<1>5. TypeOK'
  BY <1>1, <1>2, <1>3, <1>4 DEF IInv, TypeOK, TaskRecord, LoggingIn, At
<1>6. ASSUME NEW t \in Threads PROVE ThreadInv(t)'
  <2>1. ThreadInv(t)
    BY DEF IInv
  <2>2. Budgeted(t)' /\ LoginDue(t)'
    BY <1>1, <1>3, <2>1 DEF ThreadInv, Budgeted, LoginDue
  <2>3. \A gen \in 0 .. session.gen : OldSession(t, gen) => OldSession(t, gen)'
    BY <1>1, <1>3 DEF OldSession
  <2>4. Rejections(t)'
    BY <1>1, <1>3, <2>1, <2>3 DEF ThreadInv, Rejections, HasSessions
  <2> QED BY <2>2, <2>4 DEF ThreadInv
<1> QED BY <1>1, <1>3, <1>5, <1>6 DEF IInv, HasSessions

LEMMA NextIInv == IInv /\ [Next]_vars => IInv'
<1> SUFFICES ASSUME IInv, [Next]_vars PROVE IInv'
  OBVIOUS
<1>1. ASSUME NEW t \in Threads, BeginPage(t) \/ Step(t)
      PROVE  IInv'
  <2>1. CASE LoginRefused(t)
    BY <2>1, LoginRaisesKeeps DEF LoginRefused
  <2> QED BY <1>1, <2>1, BeginPageKeeps, SendKeeps, SendFailsKeeps, PrepareKeyKeeps,
             PrepareKeeps, InvalidateKeeps, LoginSucceedsKeeps, LoginUnreachableKeeps
          DEF Step
<1>2. CASE UNCHANGED vars
  BY <1>2 DEF vars, IInv, TypeOK, HasSessions, LoggingIn, At, ThreadInv, Budgeted,
              Rejections, OldSession, LoginDue
<1> QED BY <1>1, <1>2, LossKeeps DEF Next, Rest

LEMMA Invariance == Spec => []IInv
BY InitIInv, NextIInv, PTL DEF Spec

-----------------------------------------------------------------------------
(* Theorems. *)

\* No login is spent on a session that is fine (SessionManager.get_session and
\* invalidate): under prepare the cached session is absent or past its margin,
\* and the one logged in anew after a rejection is the very session the server
\* rejected, since a report about an older one was turned away.
THEOREM LoginsAreNeeded == Spec => []LoginOnlyWhenNeeded
<1>1. IInv => LoginOnlyWhenNeeded
  <2> SUFFICES ASSUME IInv, NEW t \in Threads, LoggingIn(t)
               PROVE  session.gen = 0 \/ session.aged \/ session.gen \in dropped
    BY DEF IInv, LoginOnlyWhenNeeded
  <2>1. ThreadInv(t) /\ task[t] \in TaskRecord(session.gen, dropped)
    BY TaskTyped
  <2>2. CASE task[t].pc = "login"
    BY <2>1, <2>2 DEF ThreadInv, LoginDue
  <2>3. CASE task[t].pc = "relogin"
    <3>1. task[t].prepared = session.gen /\ task[t].auth = 1 /\ HasSessions
      BY <2>1, <2>3 DEF ThreadInv, LoginDue, Rejections
    <3>2. PICK gen \in 0 .. session.gen : OldSession(t, gen)
      BY <2>1, <2>3, <3>1 DEF ThreadInv, Rejections, Active
    <3>3. task[t].prepared \in task[t].rejected
      BY <2>3, <3>2 DEF OldSession
    <3>4. task[t].rejected \subseteq dropped \cup {0}
      BY <2>1 DEF TaskRecord
    <3> QED BY <3>1, <3>3, <3>4
  <2> QED BY <2>2, <2>3 DEF LoggingIn, At
<1> QED BY <1>1, Invariance, PTL

\* A page is given up for authentication only after two different sessions were
\* rejected on it, a page over a static key at its first rejection
\* (TransportClient's AUTH_FAILURE branch over SessionAuth.on_auth_failure).
THEOREM GivenUpAfterTwo == Spec => []TwoSessionsRejected
<1>1. IInv => TwoSessionsRejected
  <2> SUFFICES ASSUME IInv, NEW t \in Threads, task[t].pc = "rejected"
               PROVE  IF HasSessions THEN Cardinality(task[t].rejected) = 2
                                     ELSE task[t].auth = 1
    BY DEF TwoSessionsRejected, At
  <2>1. Rejections(t)
    BY TaskTyped DEF ThreadInv
  <2>2. CASE HasSessions
    <3>1. PICK gen, next \in 0 .. session.gen :
              gen # next /\ task[t].rejected = {gen, next}
      BY <2>1, <2>2 DEF Rejections
    <3>2. Cardinality({gen}) = 1 /\ IsFiniteSet({gen})
      BY FS_Singleton
    <3>3. Cardinality({gen} \cup {next}) = 2
      BY <3>1, <3>2, FS_AddElement
    <3>4. task[t].rejected = {gen} \cup {next}
      BY <3>1
    <3> QED BY <2>2, <3>3, <3>4
  <2>3. CASE ~HasSessions
    BY <2>1, <2>3 DEF Rejections
  <2> QED BY <2>2, <2>3
<1> QED BY <1>1, Invariance, PTL
=============================================================================
