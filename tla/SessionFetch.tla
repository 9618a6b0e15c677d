---------------------------- MODULE SessionFetch ----------------------------
(***************************************************************************)
(* Fetching one page over GeoTab's shared session: the retry loop of the   *)
(* transport client (network/client/transport.py, network/retry/           *)
(* decision.py) on every fetching thread, the strategy that pins each      *)
(* thread's last prepared session (network/auth/strategies.py), and the    *)
(* single-flight session manager under them all (network/auth/manager.py), *)
(* whose lock is held across the Authenticate call                         *)
(* (network/auth/authenticate.py), against a server that drops sessions.   *)
(*                                                                         *)
(* The same loop runs over Motive's and Samsara's static keys, with other  *)
(* strategies and classifiers: the provider is chosen at the start.        *)
(*                                                                         *)
(* A session is known by its generation, an answer is a member of          *)
(* Responses.  Delays and quota slots are QuotaLimiter's matter.           *)
(***************************************************************************)
EXTENDS Integers, FiniteSets, Responses

CONSTANTS
    Providers,     \* the clients: "geotab" has sessions, the others a key
    Threads,       \* the threads that fetch pages
    Nobody,        \* the holder of a free lock
    TransientMax,  \* RetryConfig.transient_max_failures
    RateMax,       \* RetryConfig.rate_limited_max_failures
    MaxPages,      \* bound: pages fetched in all
    MaxLosses      \* bound: sessions dropped by the server or come of age

ASSUME FetchAssumption ==
    /\ Providers \subseteq {"geotab", "motive", "samsara"}
    /\ Threads # {} /\ Nobody \notin Threads
    /\ TransientMax \in Nat /\ RateMax \in Nat
    /\ MaxPages \in Nat /\ MaxLosses \in Nat

VARIABLES
    provider,  \* whose client this is: its strategy and its classifier
    session,   \* the cached session: its generation (0: none), past its margin?
    lock,      \* the manager's lock: its holder, or Nobody
    dropped,   \* the generations the server does not accept any more
    losses,    \* sessions dropped or aged so far
    pages,     \* pages begun so far
    task       \* per thread: program counter, the session last prepared, the
               \* three failure counters; and, of the page in hand, the attempts
               \* made and the generations the server rejected

vars == <<provider, session, lock, dropped, losses, pages, task>>

Init ==
    /\ provider \in Providers
    /\ session = [gen |-> 0, aged |-> FALSE]
    /\ lock = Nobody
    /\ dropped = {}
    /\ losses = 0
    /\ pages = 0
    /\ task = [t \in Threads |->
                  [pc |-> "idle", prepared |-> 0, transient |-> 0,
                   rateLimited |-> 0, auth |-> 0, attempts |-> 0,
                   rejected |-> {}]]

At(t, pc) == task[t].pc = pc

HasSessions == provider = "geotab"

Goto(t, pc) == task' = [task EXCEPT ![t].pc = pc]

\* The ways a page ends: its envelope; RetriesExhaustedError; two rejections
\* (AuthenticationError); a refused login (AuthenticationError or
\* ProviderResponseError); ProviderResponseError; a raw httpx.TransportError.
Ends == {"envelope", "exhausted", "rejected", "refused", "fatal", "raw"}

Over(t) == task[t].pc \in {"idle"} \cup Ends

-----------------------------------------------------------------------------
(* The transport's loop. *)

\* _fetch_single_page begins with its counters at zero.
BeginPage(t) ==
    /\ Over(t)
    /\ pages < MaxPages
    /\ pages' = pages + 1
    /\ task' = [task EXCEPT ![t] =
                   [@ EXCEPT !.pc = "prepare", !.transient = 0,
                             !.rateLimited = 0, !.auth = 0, !.attempts = 0,
                             !.rejected = {}]]
    /\ UNCHANGED <<provider, session, lock, dropped, losses>>

\* One more TRANSIENT failure: slept off and tried again, or the budget is spent.
Transient(t) ==
    task' = [task EXCEPT ![t] =
                [@ EXCEPT !.pc = IF task[t].transient < TransientMax
                                 THEN "prepare" ELSE "exhausted",
                          !.transient = task[t].transient + 1,
                          !.attempts = task[t].attempts + 1]]

\* One more RATE_LIMITED failure: the scope is penalized, or the budget is spent.
RateLimited(t) ==
    task' = [task EXCEPT ![t] =
                [@ EXCEPT !.pc = IF task[t].rateLimited < RateMax
                                 THEN "prepare" ELSE "exhausted",
                          !.rateLimited = task[t].rateLimited + 1,
                          !.attempts = task[t].attempts + 1]]

\* An AUTH_FAILURE: the first on this page reports the session, a second is
\* unfixable, and so is the first over a static key.
Rejected(t) ==
    task' = [task EXCEPT ![t] =
                [@ EXCEPT !.pc = IF task[t].auth = 0 /\ HasSessions
                                 THEN "invalidate" ELSE "rejected",
                          !.auth = task[t].auth + 1,
                          !.attempts = task[t].attempts + 1,
                          !.rejected = task[t].rejected \cup {task[t].prepared}]]

\* What the server answers.  GeoTab accepts a session until it drops it, and
\* says InvalidUserException of no other; a key provider may reject its key at
\* any time.
Possible == [sent \in {"accepted", "dropped", "key"} |->
    {answer \in Answers :
        CASE sent = "accepted" -> answer.body # "InvalidUserException"
          [] sent = "dropped" -> answer.body # "result" \/ ServerError(answer)
          [] OTHER -> TRUE}]

\* classify_response of the provider's classifier, and the transport's check.
Received == [sent \in DOMAIN Possible |->
    {Checked(IF sent = "key" THEN KeyCategory(answer) ELSE GeotabCategory(answer),
             answer) : answer \in Possible[sent]}]

Sent(t) ==
    CASE ~HasSessions -> "key"
      [] HasSessions /\ task[t].prepared \in dropped -> "dropped"
      [] OTHER -> "accepted"

\* The request, carrying the prepared session, and the dispatch on the category
\* of its answer.
Send(t) ==
    /\ At(t, "send")
    /\ \E category \in Received[Sent(t)] :
          \/ category = "SUCCESS" /\ Goto(t, "envelope")
          \/ category = "TRANSIENT" /\ Transient(t)
          \/ category = "RATE_LIMITED" /\ RateLimited(t)
          \/ category = "AUTH_FAILURE" /\ Rejected(t)
          \/ category = "FATAL" /\ Goto(t, "fatal")
    /\ UNCHANGED <<provider, session, lock, dropped, losses, pages>>

\* httpx.TransportError under the request: always TRANSIENT.
SendFails(t) ==
    /\ At(t, "send")
    /\ Transient(t)
    /\ UNCHANGED <<provider, session, lock, dropped, losses, pages>>

-----------------------------------------------------------------------------
(* The strategies and the session manager. *)

\* StaticHeaderAuth.prepare: the key goes into the header.
PrepareKey(t) ==
    /\ ~HasSessions
    /\ At(t, "prepare")
    /\ Goto(t, "send")
    /\ UNCHANGED <<provider, session, lock, dropped, losses, pages>>

\* get_session for prepare: the cached session when there is one within its
\* margin, otherwise a login with the lock held.
Prepare(t) ==
    /\ HasSessions
    /\ At(t, "prepare")
    /\ lock = Nobody
    /\ IF session.gen = 0 \/ session.aged
       THEN /\ Goto(t, "login")
            /\ lock' = t
       ELSE /\ task' = [task EXCEPT ![t].pc = "send",
                                    ![t].prepared = session.gen]
            /\ UNCHANGED lock
    /\ UNCHANGED <<provider, session, dropped, losses, pages>>

\* Faulty variant: every reported rejection logs in again.
InvalidateAlways(t) ==
    /\ At(t, "invalidate")
    /\ lock = Nobody
    /\ lock' = t
    /\ Goto(t, "relogin")
    /\ UNCHANGED <<provider, session, dropped, losses, pages>>

\* Faulty variant: the retry goes out as it was prepared the first time.
InvalidateUnprepared(t) ==
    /\ At(t, "invalidate")
    /\ lock = Nobody
    /\ IF task[t].prepared < session.gen
       THEN /\ Goto(t, "send")
            /\ UNCHANGED lock
       ELSE /\ Goto(t, "relogin")
            /\ lock' = t
    /\ UNCHANGED <<provider, session, dropped, losses, pages>>

\* invalidate for on_auth_failure: a session older than the cached one has been
\* replaced by a sibling already, the cached one itself is logged in anew.
Invalidate(t) ==
    /\ At(t, "invalidate")
    /\ lock = Nobody
    /\ IF task[t].prepared < session.gen
       THEN /\ Goto(t, "prepare")
            /\ UNCHANGED lock
       ELSE /\ Goto(t, "relogin")
            /\ lock' = t
    /\ UNCHANGED <<provider, session, dropped, losses, pages>>

LoggingIn(t) == At(t, "login") \/ At(t, "relogin")

\* Authenticate succeeds: the next generation is cached and the lock released;
\* prepare goes on with it, a retry prepares again.
LoginSucceeds(t) ==
    /\ LoggingIn(t)
    /\ \E answer \in Answers : Authenticates(answer)
    /\ session' = [gen |-> session.gen + 1, aged |-> FALSE]
    /\ lock' = Nobody
    /\ task' = IF At(t, "login")
               THEN [task EXCEPT ![t].pc = "send",
                                 ![t].prepared = session.gen + 1]
               ELSE [task EXCEPT ![t].pc = "prepare"]
    /\ UNCHANGED <<provider, dropped, losses, pages>>

\* Faulty variant: the lock is not released when Authenticate raises.
LoginRefusedHolding(t) ==
    /\ LoggingIn(t)
    /\ Goto(t, "refused")
    /\ UNCHANGED <<provider, session, lock, dropped, losses, pages>>

\* Authenticate raises a typed error: the cache is untouched, the page fails.
LoginRefused(t) ==
    /\ LoggingIn(t)
    /\ \E answer \in Answers : ~Authenticates(answer)
    /\ lock' = Nobody
    /\ Goto(t, "refused")
    /\ UNCHANGED <<provider, session, dropped, losses, pages>>

\* Authenticate raises httpx.TransportError: under prepare it is an attempt that
\* failed TRANSIENT; under on_auth_failure nothing catches it.
LoginUnreachable(t) ==
    /\ LoggingIn(t)
    /\ lock' = Nobody
    /\ IF At(t, "login") THEN Transient(t) ELSE Goto(t, "raw")
    /\ UNCHANGED <<provider, session, dropped, losses, pages>>

-----------------------------------------------------------------------------
(* The environment. *)

CanLose == losses < MaxLosses

\* The server drops a session (a password change, its cap on sessions).
Drop ==
    /\ CanLose
    /\ losses' = losses + 1
    /\ \E gen \in (1 .. session.gen) \ dropped : dropped' = dropped \cup {gen}
    /\ UNCHANGED <<provider, session, lock, pages, task>>

\* The cached session comes within a day of its assumed lifetime.
Age ==
    /\ CanLose
    /\ losses' = losses + 1
    /\ session.gen > 0 /\ ~session.aged
    /\ session' = [session EXCEPT !.aged = TRUE]
    /\ UNCHANGED <<provider, lock, dropped, pages, task>>

Step(t) ==
    \/ Send(t) \/ SendFails(t) \/ PrepareKey(t) \/ Prepare(t) \/ Invalidate(t)
    \/ LoginSucceeds(t) \/ LoginRefused(t) \/ LoginUnreachable(t)

\* All the pages there are have been fetched.
Rest ==
    /\ pages = MaxPages
    /\ \A t \in Threads : Over(t)
    /\ UNCHANGED vars

Next ==
    \/ \E t \in Threads : BeginPage(t) \/ Step(t)
    \/ Drop \/ Age
    \/ Rest

Spec == Init /\ [][Next]_vars

\* Every thread is scheduled and every call to the server returns or times out.
FairSpec == Spec /\ \A t \in Threads : WF_vars(Step(t))

-----------------------------------------------------------------------------
(* Properties. *)

Points == {"idle", "prepare", "login", "send", "invalidate", "relogin"} \cup Ends

\* The shape of every variable; the lock is held exactly across a login; and a
\* page's attempts stay within both budgets, one rejected session and the
\* answer that ends it.
TypeOK ==
    /\ provider \in Providers
    /\ session \in [gen : Nat, aged : BOOLEAN]
    /\ dropped \subseteq 1 .. session.gen
    /\ losses \in 0 .. MaxLosses
    /\ pages \in 0 .. MaxPages
    /\ task \in [Threads -> [pc : Points, prepared : 0 .. session.gen,
                             transient : 0 .. TransientMax + 1,
                             rateLimited : 0 .. RateMax + 1, auth : 0 .. 2,
                             attempts : 0 .. TransientMax + RateMax + 2,
                             rejected : SUBSET (dropped \cup {0})]]
    /\ \A t \in Threads : LoggingIn(t) <=> lock = t

\* No login is spent on a session that is fine: whoever calls Authenticate, the
\* cached session is absent, past its margin or one the server dropped; threads
\* that hit one expiry together make one call, and a late report about a session
\* long replaced makes none.
LoginOnlyWhenNeeded ==
    /\ TypeOK
    /\ \A t \in Threads : LoggingIn(t) =>
          session.gen = 0 \/ session.aged \/ session.gen \in dropped

\* A page is given up for authentication only when two different sessions were
\* rejected on it: the retry carries a session newer than the one rejected, also
\* when a sibling replaced it in the meantime.  A static key, which no retry can
\* renew, is given up at its first rejection.
TwoSessionsRejected ==
    \A t \in Threads : At(t, "rejected") =>
       IF HasSessions THEN Cardinality(task[t].rejected) = 2 ELSE task[t].auth = 1

\* "Always one of the public subclasses": a page that fails, fails with a
\* FleetpullError, which the sync collects while the queue goes on.
OnlyOperationalErrors == \A t \in Threads : ~At(t, "raw")

\* Every page that is begun ends, whatever fails under the manager's lock.
EveryPageEnds ==
    \A t \in Threads : At(t, "prepare") ~> Over(t)
=============================================================================
