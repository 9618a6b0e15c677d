---------------------------- MODULE QuotaLimiter ----------------------------
(***************************************************************************)
(* The rate limiter of one quota scope (network/limits/limiter.py,         *)
(* network/limits/bucket_math.py), shared by every thread that talks to    *)
(* the scope: a token bucket, an in-flight semaphore and a scope-wide      *)
(* pause, and the transport's use of it (network/client/transport.py), one *)
(* slot per HTTP attempt and a penalty per 429.                            *)
(*                                                                         *)
(* Time is the monotonic clock in ticks.  Tokens are counted in parts, Cost*)
(* of them a whole token and Rate of them refilled per tick, so that the   *)
(* bucket holds fractions of a token as the code's float does.             *)
(***************************************************************************)
EXTENDS Integers, FiniteSets

CONSTANTS
    Threads,         \* the threads of the process
    MaxConcurrency,  \* RateLimitConfig.max_concurrency
    Burst,           \* RateLimitConfig.burst, in tokens
    Rate, Cost,      \* refill_rate_per_second is Rate / Cost
    RetryAfters,     \* what Retry-After headers say, in ticks (0: nothing usable)
    Fallback,        \* RetryConfig.fallback_penalty_seconds
    LastTime         \* bound: the last tick

ASSUME LimiterAssumption ==
    /\ IsFiniteSet(Threads)
    /\ MaxConcurrency \in Nat \ {0} /\ Burst \in Nat \ {0}
    /\ Rate \in Nat \ {0} /\ Cost \in Nat \ {0}
    /\ RetryAfters \subseteq Nat /\ Fallback \in Nat \ {0}
    /\ LastTime \in Nat

VARIABLES
    now,          \* the clock
    tokens,       \* _tokens, in parts
    lastRefill,   \* _last_refill_monotonic
    pauseUntil,   \* _pause_until
    permits,      \* the semaphore's counter
    thread        \* per thread: program counter, end of its timed wait

limiter == <<tokens, lastRefill, pauseUntil, permits>>

\* History variables.
VARIABLES
    started,      \* per tick, the attempts started before it
    owed          \* the latest end of any penalty asked for

vars == <<now, limiter, thread, started, owed>>

Capacity == Burst * Cost

Init ==
    /\ now = 0
    /\ tokens = Capacity
    /\ lastRefill = 0
    /\ pauseUntil = 0
    /\ permits = MaxConcurrency
    /\ thread = [t \in Threads |-> [pc |-> "idle", wake |-> 0]]
    /\ started = [tick \in 0 .. LastTime + 1 |-> 0]
    /\ owed = 0

At(t, pc) == thread[t].pc = pc

Goto(t, pc) == thread' = [thread EXCEPT ![t].pc = pc]

Lesser(a, b) == IF a < b THEN a ELSE b

Greater(a, b) == IF a > b THEN a ELSE b

-----------------------------------------------------------------------------
(* An attempt. *)

\* request_slot takes the semaphore first.
AcquireSlot(t) ==
    /\ At(t, "idle")
    /\ permits > 0
    /\ permits' = permits - 1
    /\ Goto(t, "consume")
    /\ UNCHANGED <<now, tokens, lastRefill, pauseUntil, started, owed>>

\* refill_tokens: capped at the bucket's capacity.
Refilled == Lesser(Capacity, tokens + (now - lastRefill) * Rate)

\* seconds_until_available, in whole ticks: the deficit over the rate.
TicksUntilAvailable == ((Cost - Refilled) + Rate - 1) \div Rate

WaitUntil(t, tick) ==
    thread' = [thread EXCEPT ![t] = [pc |-> "wait", wake |-> tick]]

CountStart ==
    started' = [tick \in 0 .. LastTime + 1 |->
                   IF tick > now THEN started[tick] + 1 ELSE started[tick]]

\* Faulty variant: the refill instant is not kept when the token is short.
ConsumeForgetful(t) ==
    /\ At(t, "consume")
    /\ IF now < pauseUntil
       THEN /\ WaitUntil(t, pauseUntil)
            /\ UNCHANGED <<tokens, lastRefill, started>>
       ELSE IF Refilled >= Cost
            THEN /\ tokens' = Refilled - Cost
                 /\ lastRefill' = now
                 /\ CountStart
                 /\ Goto(t, "fire")
            ELSE /\ tokens' = Refilled
                 /\ WaitUntil(t, now + TicksUntilAvailable)
                 /\ UNCHANGED <<lastRefill, started>>
    /\ UNCHANGED <<now, pauseUntil, permits, owed>>

\* One turn of _consume_token under the condition's lock: the pause first, then
\* the refill, then the token.
Consume(t) ==
    /\ At(t, "consume")
    /\ IF now < pauseUntil
       THEN /\ WaitUntil(t, pauseUntil)
            /\ UNCHANGED <<tokens, lastRefill, started>>
       ELSE /\ lastRefill' = now
            /\ IF Refilled >= Cost
               THEN /\ tokens' = Refilled - Cost
                    /\ CountStart
                    /\ Goto(t, "fire")
               ELSE /\ tokens' = Refilled
                    /\ WaitUntil(t, now + TicksUntilAvailable)
                    /\ UNCHANGED started
    /\ UNCHANGED <<now, pauseUntil, permits, owed>>

\* The wait times out; everything is computed again from scratch.
Wake(t) ==
    /\ At(t, "wait")
    /\ now >= thread[t].wake
    /\ Goto(t, "consume")
    /\ UNCHANGED <<now, limiter, started, owed>>

\* Faulty variant: a request that raises keeps its slot.
AnswerLeaking(t) ==
    /\ At(t, "fire")
    /\ \/ permits' = permits + 1 /\ Goto(t, "answered")
       \/ permits' = permits /\ Goto(t, "idle")
    /\ UNCHANGED <<now, tokens, lastRefill, pauseUntil, started, owed>>

\* The attempt ends, with a response or raising: the slot is released before
\* the answer is looked at.
Answer(t) ==
    /\ At(t, "fire")
    /\ permits' = permits + 1
    /\ Goto(t, "answered")
    /\ UNCHANGED <<now, tokens, lastRefill, pauseUntil, started, owed>>

\* _penalize_scope: an absent, unreadable or non-positive Retry-After counts as
\* the configured fallback.
PenaltySeconds(retryAfter) == IF retryAfter > 0 THEN retryAfter ELSE Fallback

\* Faulty variant: a penalty overwrites the one in force.
PenalizeOver(t) ==
    /\ At(t, "answered")
    /\ \E retryAfter \in RetryAfters :
          /\ pauseUntil' = now + PenaltySeconds(retryAfter)
          /\ owed' = Greater(owed, now + PenaltySeconds(retryAfter))
    /\ thread' = [u \in Threads |->
                     IF u = t THEN [thread[t] EXCEPT !.pc = "idle"]
                     ELSE IF At(u, "wait") THEN [thread[u] EXCEPT !.pc = "consume"]
                     ELSE thread[u]]
    /\ UNCHANGED <<now, tokens, lastRefill, permits, started>>

\* A 429 pauses the whole scope, merged by maximum, and wakes every waiter.
Penalize(t) ==
    /\ At(t, "answered")
    /\ \E retryAfter \in RetryAfters :
          /\ pauseUntil' = Greater(pauseUntil, now + PenaltySeconds(retryAfter))
          /\ owed' = Greater(owed, now + PenaltySeconds(retryAfter))
    /\ thread' = [u \in Threads |->
                     IF u = t THEN [thread[t] EXCEPT !.pc = "idle"]
                     ELSE IF At(u, "wait") THEN [thread[u] EXCEPT !.pc = "consume"]
                     ELSE thread[u]]
    /\ UNCHANGED <<now, tokens, lastRefill, permits, started>>

\* Any other answer.
Carry(t) ==
    /\ At(t, "answered")
    /\ Goto(t, "idle")
    /\ UNCHANGED <<now, limiter, started, owed>>

Tick ==
    /\ now < LastTime
    /\ now' = now + 1
    /\ UNCHANGED <<limiter, thread, started, owed>>

-----------------------------------------------------------------------------
Next ==
    \/ \E t \in Threads :
          \/ AcquireSlot(t) \/ Consume(t) \/ Wake(t) \/ Answer(t)
          \/ Penalize(t) \/ Carry(t)
    \/ Tick

Spec == Init /\ [][Next]_vars

-----------------------------------------------------------------------------
(* Properties. *)

\* The shape of every variable: the bucket is never overdrawn or overfull, and
\* no slot is released twice.
TypeOK ==
    /\ now \in 0 .. LastTime
    /\ tokens \in 0 .. Capacity
    /\ lastRefill \in 0 .. now
    /\ pauseUntil \in Nat /\ owed \in Nat
    /\ permits \in 0 .. MaxConcurrency
    /\ thread \in [Threads -> [pc : {"idle", "consume", "wait", "fire",
                                     "answered"}, wake : Nat]]
    /\ started \in [0 .. LastTime + 1 -> Nat]

Started(first, last) == started[last + 1] - started[first]

\* The budget the provider meters: over any stretch of time the scope starts at
\* most a full bucket and what refilled meanwhile, whichever threads start
\* them, however long they waited and however pauses fell.
WithinBudget ==
    \A first \in 0 .. now : \A last \in first .. now :
        Started(first, last) * Cost <= Capacity + (last - first) * Rate

\* Every slot taken is given back: the permits and the threads that hold one
\* always add up, so the scope cannot dry up.
SlotsConserved ==
    /\ TypeOK
    /\ permits + Cardinality({t \in Threads :
                                 thread[t].pc \in {"consume", "wait", "fire"}})
          = MaxConcurrency

\* No attempt starts before the end of any penalty that was asked for, in
\* whichever order concurrent 429s come in and however short the last one is.
StartsRespectPenalties ==
    [][started' # started => now >= owed]_started
=============================================================================
