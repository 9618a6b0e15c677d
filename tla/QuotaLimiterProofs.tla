------------------------- MODULE QuotaLimiterProofs -------------------------
(***************************************************************************)
(* What QuotaLimiter's run checks on three threads and five ticks, proved  *)
(* for every number of threads, every concurrency, burst and refill rate   *)
(* and every stretch of time.                                              *)
(***************************************************************************)
EXTENDS QuotaLimiter, FiniteSetTheorems, TLAPS

-----------------------------------------------------------------------------
(* The inductive invariant. *)

Holding == {"consume", "wait", "fire"}

Holders == {t \in Threads : thread[t].pc \in Holding}

\* All the attempts started so far.
Total == started[LastTime + 1]

\* Nothing starts after the last refill without making it the last refill.
NoneSinceRefill == \A tick \in lastRefill + 1 .. LastTime + 1 : started[tick] = Total

\* What the starts since `first` cost and what is left in the bucket never
\* exceed a full bucket and the refill from `first` to the last one.
Potential ==
    \A first \in 0 .. lastRefill :
        (Total - started[first]) * Cost + tokens
            <= Capacity + (lastRefill - first) * Rate

IInv ==
    /\ TypeOK
    /\ permits + Cardinality(Holders) = MaxConcurrency
    /\ pauseUntil = owed
    /\ NoneSinceRefill
    /\ Potential
    /\ WithinBudget

-----------------------------------------------------------------------------
(* Arithmetic. *)

LEMMA Products ==
    ASSUME NEW a \in Nat, NEW b \in Nat
    PROVE  a * b \in Nat
OBVIOUS

LEMMA ProductsGrow ==
    ASSUME NEW a \in Int, NEW b \in Int, NEW c \in Nat, a <= b
    PROVE  a * c \in Int /\ b * c \in Int /\ a * c <= b * c
<1>1. (b - a) * c \in Nat
  BY Products
<1>2. (b - a) * c = b * c - a * c
  OBVIOUS
<1>3. a * c \in Int /\ b * c \in Int
  OBVIOUS
<1> QED BY <1>1, <1>2, <1>3

LEMMA CapacityType == Capacity \in Nat /\ Cost <= Capacity
<1>1. Burst * Cost \in Nat
  BY LimiterAssumption, Products
<1>2. 1 * Cost <= Burst * Cost
  BY LimiterAssumption, ProductsGrow
<1> QED BY <1>1, <1>2, LimiterAssumption DEF Capacity

\* refill_tokens: within the bucket, and no more than what was there and what
\* has flowed in.
LEMMA RefilledType ==
    ASSUME TypeOK
    PROVE  /\ Refilled \in 0 .. Capacity
           /\ Refilled <= tokens + (now - lastRefill) * Rate
           /\ (now - lastRefill) * Rate \in Nat
<1>1. now - lastRefill \in Nat /\ tokens \in 0 .. Capacity /\ Rate \in Nat
  BY LimiterAssumption DEF TypeOK
<1>2. (now - lastRefill) * Rate \in Nat
  BY <1>1, Products
<1> QED BY <1>1, <1>2, CapacityType DEF Refilled, Lesser

\* seconds_until_available of a bucket that is short of a token.
LEMMA TicksType ==
    ASSUME TypeOK, Refilled < Cost
    PROVE  TicksUntilAvailable \in Nat
<1> DEFINE short == (Cost - Refilled) + Rate - 1
<1>1. short \in Nat /\ Rate \in Nat \ {0}
  BY RefilledType, CapacityType, LimiterAssumption
<1> HIDE DEF short
<1>2. short \div Rate \in Nat
  BY <1>1
<1> QED BY <1>2 DEF TicksUntilAvailable, short

\* The potential bounds every stretch of time that reaches the last refill.
LEMMA LateStretches ==
    ASSUME TypeOK, NoneSinceRefill, Potential,
           NEW last \in lastRefill .. LastTime, NEW first \in 0 .. last
    PROVE  Started(first, last) * Cost <= Capacity + (last - first) * Rate
<1>1. /\ lastRefill \in Nat /\ tokens \in Nat /\ Rate \in Nat /\ Cost \in Nat
      /\ LastTime \in Nat /\ Capacity \in Nat
      /\ \A tick \in 0 .. LastTime + 1 : started[tick] \in Nat
  BY LimiterAssumption, CapacityType DEF TypeOK
<1>2. Started(first, last) = Total - started[first]
  BY <1>1 DEF Started, NoneSinceRefill
<1>3. CASE first <= lastRefill
  <2>1. (Total - started[first]) * Cost + tokens
            <= Capacity + (lastRefill - first) * Rate
    BY <1>1, <1>3 DEF Potential
  <2>2. /\ (lastRefill - first) * Rate <= (last - first) * Rate
        /\ (lastRefill - first) * Rate \in Int /\ (last - first) * Rate \in Int
    BY <1>1, ProductsGrow
  <2>3. (Total - started[first]) * Cost \in Int
    BY <1>1 DEF Total
  <2> QED BY <1>1, <1>2, <2>1, <2>2, <2>3
<1>4. CASE first > lastRefill
  <2>1. started[first] = Total /\ Total \in Nat
    BY <1>1, <1>4 DEF NoneSinceRefill, Total
  <2>2. Started(first, last) * Cost = 0
    BY <1>1, <1>2, <2>1
  <2>3. (last - first) * Rate \in Nat
    BY <1>1, Products
  <2> QED BY <1>1, <2>2, <2>3
<1> QED BY <1>1, <1>3, <1>4

-----------------------------------------------------------------------------
(* Threads and slots. *)

LEMMA FiniteHolders ==
    ASSUME NEW S \in SUBSET Threads
    PROVE  IsFiniteSet(S) /\ Cardinality(S) \in Nat
BY LimiterAssumption, FS_Subset, FS_CardinalityType

\* One thread moves on; it may take a slot, keep its side or give one back.
LEMMA Moved ==
    ASSUME TypeOK, NEW t \in Threads, NEW rec,
           thread' = [thread EXCEPT ![t] = rec]
    PROVE  /\ rec.pc \in Holding <=> thread[t].pc \in Holding =>
                 Holders' = Holders
           /\ rec.pc \in Holding /\ thread[t].pc \notin Holding =>
                 Cardinality(Holders') = Cardinality(Holders) + 1
           /\ rec.pc \notin Holding /\ thread[t].pc \in Holding =>
                 Cardinality(Holders') = Cardinality(Holders) - 1
<1>1. thread'[t] = rec /\ \A u \in Threads \ {t} : thread'[u] = thread[u]
  BY DEF TypeOK
<1>2. Holders \in SUBSET Threads /\ Holders' \in SUBSET Threads
  BY DEF Holders
<1>3. ASSUME rec.pc \in Holding, thread[t].pc \notin Holding
      PROVE  Holders' = Holders \cup {t} /\ t \notin Holders
  BY <1>1, <1>3 DEF Holders
<1>4. ASSUME rec.pc \notin Holding, thread[t].pc \in Holding
      PROVE  Holders' = Holders \ {t} /\ t \in Holders
  BY <1>1, <1>4 DEF Holders
<1>5. ASSUME rec.pc \in Holding <=> thread[t].pc \in Holding
      PROVE  Holders' = Holders
  BY <1>1, <1>5 DEF Holders
<1> QED BY <1>2, <1>3, <1>4, <1>5, FiniteHolders, FS_AddElement, FS_RemoveElement

\* The same for a thread whose program counter alone changes.
LEMMA Gone ==
    ASSUME TypeOK, NEW t \in Threads, NEW p \in {"idle", "consume", "wait", "fire",
                                                 "answered"},
           Goto(t, p)
    PROVE  /\ thread' \in [Threads -> [pc : {"idle", "consume", "wait", "fire",
                                             "answered"}, wake : Nat]]
           /\ p \in Holding <=> thread[t].pc \in Holding =>
                 Cardinality(Holders') = Cardinality(Holders)
           /\ p \in Holding /\ thread[t].pc \notin Holding =>
                 Cardinality(Holders') = Cardinality(Holders) + 1
           /\ p \notin Holding /\ thread[t].pc \in Holding =>
                 Cardinality(Holders') = Cardinality(Holders) - 1
<1> DEFINE rec == [thread[t] EXCEPT !.pc = p]
<1>1. thread' = [thread EXCEPT ![t] = rec]
  BY DEF Goto
<1>2. rec \in [pc : {"idle", "consume", "wait", "fire", "answered"}, wake : Nat]
      /\ rec.pc = p
  BY DEF TypeOK
<1> HIDE DEF rec
<1>3. thread' \in [Threads -> [pc : {"idle", "consume", "wait", "fire",
                                     "answered"}, wake : Nat]]
  BY <1>1, <1>2 DEF TypeOK
<1>4. /\ p \in Holding <=> thread[t].pc \in Holding =>
            Holders' = Holders
      /\ p \in Holding /\ thread[t].pc \notin Holding =>
            Cardinality(Holders') = Cardinality(Holders) + 1
      /\ p \notin Holding /\ thread[t].pc \in Holding =>
            Cardinality(Holders') = Cardinality(Holders) - 1
  BY <1>1, <1>2, Moved
<1> QED BY <1>3, <1>4

\* A slot taken or given back leaves the bucket alone.
LEMMA BucketUntouched ==
    ASSUME IInv, UNCHANGED <<now, tokens, lastRefill, started>>
    PROVE  NoneSinceRefill' /\ Potential' /\ WithinBudget'
BY DEF IInv, NoneSinceRefill, Potential, WithinBudget, Total, Started

-----------------------------------------------------------------------------
(* The invariant holds at first and is kept by every action. *)

LEMMA InitIInv == Init => IInv
<1> SUFFICES ASSUME Init PROVE IInv
  OBVIOUS
<1> USE DEF Init
<1>1. TypeOK
  BY CapacityType, LimiterAssumption DEF TypeOK
<1>2. Holders = {}
  BY DEF Holders, Holding
<1>3. permits + Cardinality(Holders) = MaxConcurrency
  BY <1>2, FS_EmptySet, LimiterAssumption
<1>4. NoneSinceRefill
  BY LimiterAssumption DEF NoneSinceRefill, Total
<1>5. Potential
  BY LimiterAssumption, CapacityType DEF Potential, Total
<1>6. WithinBudget
  <2> SUFFICES ASSUME NEW last \in 0 .. now, NEW first \in 0 .. last
               PROVE  Started(first, last) * Cost <= Capacity + (last - first) * Rate
    BY DEF WithinBudget
  <2> QED BY <1>1, <1>4, <1>5, LateStretches, LimiterAssumption
<1> QED BY <1>1, <1>3, <1>4, <1>5, <1>6 DEF IInv

LEMMA AcquireSlotKeeps ==
    ASSUME IInv, NEW t \in Threads, AcquireSlot(t)
    PROVE  IInv'
<1>1. /\ permits > 0 /\ permits' = permits - 1 /\ thread[t].pc = "idle"
      /\ Goto(t, "consume")
      /\ UNCHANGED <<now, tokens, lastRefill, pauseUntil, started, owed>>
  BY DEF AcquireSlot, At
<1>2. TypeOK /\ permits + Cardinality(Holders) = MaxConcurrency
  BY DEF IInv
<1>3. Cardinality(Holders') = Cardinality(Holders) + 1
  BY <1>1, <1>2, Gone DEF Holding
<1>4. TypeOK'
  BY <1>1, <1>2, Gone, LimiterAssumption DEF TypeOK
<1>5. Cardinality(Holders) \in Nat /\ permits \in Int
  BY <1>2, FiniteHolders DEF Holders, TypeOK
<1> QED BY <1>1, <1>2, <1>3, <1>4, <1>5, BucketUntouched DEF IInv

LEMMA AnswerKeeps ==
    ASSUME IInv, NEW t \in Threads, Answer(t)
    PROVE  IInv'
<1>1. /\ permits' = permits + 1 /\ thread[t].pc = "fire" /\ Goto(t, "answered")
      /\ UNCHANGED <<now, tokens, lastRefill, pauseUntil, started, owed>>
  BY DEF Answer, At
<1>2. TypeOK /\ permits + Cardinality(Holders) = MaxConcurrency
  BY DEF IInv
<1>3. Cardinality(Holders') = Cardinality(Holders) - 1
  BY <1>1, <1>2, Gone DEF Holding
<1>4. Cardinality(Holders') \in Nat /\ Cardinality(Holders) \in Nat /\ permits \in Nat
  <2>1. Holders \in SUBSET Threads /\ Holders' \in SUBSET Threads
    BY DEF Holders
  <2> QED BY <1>2, <2>1, FiniteHolders DEF TypeOK
<1>5. permits' + Cardinality(Holders') = MaxConcurrency /\ permits' \in 0 .. MaxConcurrency
  BY <1>1, <1>2, <1>3, <1>4, LimiterAssumption
<1>6. TypeOK'
  BY <1>1, <1>2, <1>5, Gone DEF TypeOK
<1> QED BY <1>1, <1>5, <1>6, BucketUntouched DEF IInv

\* A thread wakes, or carries on after an answer that asks for no pause.
LEMMA WakeCarryKeeps ==
    ASSUME IInv, NEW t \in Threads, Wake(t) \/ Carry(t)
    PROVE  IInv'
<1>1. PICK p \in {"consume", "idle"} :
          /\ Goto(t, p) /\ (p \in Holding <=> thread[t].pc \in Holding)
          /\ UNCHANGED <<now, limiter, started, owed>>
  BY DEF Wake, Carry, At, Holding
<1>2. UNCHANGED <<now, tokens, lastRefill, pauseUntil, permits, started, owed>>
  BY <1>1 DEF limiter
<1>3. TypeOK' /\ Cardinality(Holders') = Cardinality(Holders)
  BY <1>1, <1>2, Gone DEF IInv, TypeOK
<1> QED BY <1>2, <1>3, BucketUntouched DEF IInv

\* The one turn of _consume_token, in its three outcomes.
LEMMA ConsumeKeeps ==
    ASSUME IInv, NEW t \in Threads, Consume(t)
    PROVE  IInv'
<1>1. /\ thread[t].pc = "consume"
      /\ UNCHANGED <<now, pauseUntil, permits, owed>>
  BY DEF Consume, At
<1>2. TypeOK /\ permits + Cardinality(Holders) = MaxConcurrency
  BY DEF IInv
<1>3. ASSUME NEW tick \in Nat, WaitUntil(t, tick)
      PROVE  /\ thread' \in [Threads -> [pc : {"idle", "consume", "wait", "fire",
                                               "answered"}, wake : Nat]]
             /\ Cardinality(Holders') = Cardinality(Holders)
  <2> DEFINE rec == [pc |-> "wait", wake |-> tick]
  <2>1. thread' = [thread EXCEPT ![t] = rec]
    BY <1>3 DEF WaitUntil
  <2>2. rec \in [pc : {"idle", "consume", "wait", "fire", "answered"}, wake : Nat]
    OBVIOUS
  <2>3. rec.pc \in Holding /\ thread[t].pc \in Holding
    BY <1>1 DEF Holding
  <2> HIDE DEF rec
  <2>4. Holders' = Holders
    BY <1>2, <2>1, <2>3, Moved
  <2> QED BY <1>2, <2>1, <2>2, <2>4 DEF TypeOK
<1>4. CASE now < pauseUntil
  <2>1. WaitUntil(t, pauseUntil) /\ UNCHANGED <<tokens, lastRefill, started>>
    BY <1>4 DEF Consume
  <2>2. pauseUntil \in Nat
    BY <1>2 DEF TypeOK
  <2>3. TypeOK' /\ Cardinality(Holders') = Cardinality(Holders)
    BY <1>1, <1>2, <1>3, <2>1, <2>2 DEF TypeOK
  <2> QED BY <1>1, <2>1, <2>3, BucketUntouched DEF IInv
<1>5. /\ now \in Nat /\ lastRefill \in 0 .. now /\ now <= LastTime /\ LastTime \in Nat
      /\ tokens \in Nat /\ Rate \in Nat /\ Cost \in Nat \ {0} /\ Capacity \in Nat
      /\ Refilled \in 0 .. Capacity
      /\ started \in [0 .. LastTime + 1 -> Nat] /\ Total \in Nat
  BY <1>2, LimiterAssumption, CapacityType, RefilledType DEF TypeOK, Total
<1>6. ASSUME NEW first \in 0 .. now
      PROVE  (Total - started[first]) * Cost + Refilled
                 <= Capacity + (now - first) * Rate
  <2>1. /\ (now - first) * Rate \in Nat
    BY <1>5, Products
  <2>2. CASE first <= lastRefill
    <3>1. (Total - started[first]) * Cost + tokens
              <= Capacity + (lastRefill - first) * Rate
      BY <1>5, <2>2 DEF IInv, Potential
    <3>2. Refilled <= tokens + (now - lastRefill) * Rate
      BY <1>2, RefilledType
    <3>3. (now - lastRefill) * Rate + (lastRefill - first) * Rate = (now - first) * Rate
      BY <1>5
    <3>4. /\ (now - lastRefill) * Rate \in Int /\ (lastRefill - first) * Rate \in Int
          /\ (Total - started[first]) * Cost \in Int
      BY <1>5
    <3> QED BY <1>5, <2>1, <3>1, <3>2, <3>3, <3>4
  <2>3. CASE first > lastRefill
    <3>1. started[first] = Total
      BY <1>5, <2>3 DEF IInv, NoneSinceRefill
    <3>2. (Total - started[first]) * Cost = 0
      BY <1>5, <3>1
    <3>3. PICK flow \in Nat : flow = (now - first) * Rate
      BY <2>1
    <3>4. 0 + Refilled <= Capacity + flow
      BY <1>5
    <3> QED BY <3>2, <3>3, <3>4
  <2> QED BY <1>5, <2>2, <2>3
<1>7. CASE ~(now < pauseUntil) /\ Refilled >= Cost
  <2>1. /\ lastRefill' = now /\ tokens' = Refilled - Cost /\ CountStart
        /\ Goto(t, "fire")
    BY <1>7 DEF Consume
  <2>2. /\ started' \in [0 .. LastTime + 1 -> Nat]
        /\ \A tick \in 0 .. LastTime + 1 :
              started'[tick] = IF tick > now THEN started[tick] + 1 ELSE started[tick]
    BY <1>5, <2>1 DEF CountStart
  <2>3. Total' = Total + 1
    BY <1>5, <2>2 DEF Total
  <2>4. TypeOK'
    BY <1>1, <1>2, <1>5, <1>7, <2>1, <2>2, Gone DEF TypeOK
  <2>5. Cardinality(Holders') = Cardinality(Holders)
    BY <1>1, <1>2, <2>1, Gone DEF Holding
  <2>6. NoneSinceRefill'
    <3> SUFFICES ASSUME NEW tick \in now + 1 .. LastTime + 1
                 PROVE  started'[tick] = Total'
      BY <2>1 DEF NoneSinceRefill
    <3>1. started[tick] = Total
      BY <1>5 DEF IInv, NoneSinceRefill
    <3> QED BY <1>5, <2>2, <2>3, <3>1
  <2>7. Potential'
    <3> SUFFICES ASSUME NEW first \in 0 .. now
                 PROVE  (Total' - started'[first]) * Cost + tokens'
                            <= Capacity + (now - first) * Rate
      BY <2>1 DEF Potential, Capacity
    <3>1. started'[first] = started[first] /\ started[first] \in Nat
      BY <1>5, <2>2
    <3>2. (Total + 1 - started[first]) * Cost = (Total - started[first]) * Cost + Cost
      BY <1>5, <3>1
    <3>3. (Total - started[first]) * Cost \in Int /\ (now - first) * Rate \in Int
      BY <1>5, <3>1
    <3>4. PICK spent \in Int : spent = (Total - started[first]) * Cost
      BY <3>3
    <3>5. PICK flow \in Int : flow = (now - first) * Rate
      BY <3>3
    <3>6. spent + Refilled <= Capacity + flow
      BY <1>6, <3>4, <3>5
    <3>7. (Total' - started'[first]) * Cost = spent + Cost
      <4>1. PICK paid \in Nat : paid = started[first]
        BY <3>1
      <4>2. PICK total \in Nat : total = Total
        BY <1>5
      <4>3. Total' = total + 1 /\ started'[first] = paid
        BY <2>3, <3>1, <4>1, <4>2
      <4>4. (total + 1 - paid) * Cost = spent + Cost
        BY <3>2, <3>4, <4>1, <4>2
      <4> QED BY <4>3, <4>4
    <3>8. spent + Cost + (Refilled - Cost) <= Capacity + flow
      BY <1>5, <3>6
    <3> QED BY <2>1, <3>5, <3>7, <3>8
  <2>8. WithinBudget'
    <3> SUFFICES ASSUME NEW last \in 0 .. now, NEW first \in 0 .. last
                 PROVE  Started(first, last)' * Cost <= Capacity + (last - first) * Rate
      BY <1>1, <1>5 DEF WithinBudget, Capacity
    <3>1. CASE last < now
      <4>1. Started(first, last)' = Started(first, last)
        BY <1>5, <2>2, <3>1 DEF Started
      <4> QED BY <1>5, <4>1 DEF IInv, WithinBudget
    <3>2. CASE last = now
      <4>1. (Total' - started'[first]) * Cost + tokens'
                <= Capacity + (now - first) * Rate
        BY <2>1, <2>7, <3>2 DEF Potential, Capacity
      <4>2. Started(first, last)' = Total' - started'[first]
        BY <1>5, <2>1, <2>6, <3>2 DEF Started, NoneSinceRefill
      <4>3. tokens' \in Nat /\ (Total' - started'[first]) * Cost \in Int
            /\ (now - first) * Rate \in Int
        BY <1>5, <1>7, <2>1, <2>2, <2>3
      <4> QED BY <1>5, <3>2, <4>1, <4>2, <4>3
    <3> QED BY <1>5, <3>1, <3>2
  <2> QED BY <1>1, <1>2, <2>4, <2>5, <2>6, <2>7, <2>8 DEF IInv
<1>8. CASE ~(now < pauseUntil) /\ ~(Refilled >= Cost)
  <2>1. /\ lastRefill' = now /\ tokens' = Refilled /\ UNCHANGED started
        /\ WaitUntil(t, now + TicksUntilAvailable)
    BY <1>8 DEF Consume
  <2>2. now + TicksUntilAvailable \in Nat
    BY <1>2, <1>5, <1>8, TicksType
  <2>3. TypeOK' /\ Cardinality(Holders') = Cardinality(Holders)
    BY <1>1, <1>2, <1>3, <1>5, <2>1, <2>2 DEF TypeOK
  <2>4. NoneSinceRefill'
    BY <1>5, <2>1 DEF IInv, NoneSinceRefill, Total
  <2>5. Potential'
    BY <1>6, <2>1 DEF Potential, Total, Capacity
  <2>6. WithinBudget'
    BY <1>1, <2>1 DEF IInv, WithinBudget, Started, Capacity
  <2> QED BY <1>1, <1>2, <2>3, <2>4, <2>5, <2>6 DEF IInv
<1> QED BY <1>4, <1>7, <1>8

\* A 429 pauses the scope and wakes every waiter; no slot changes hands.
LEMMA PenalizeKeeps ==
    ASSUME IInv, NEW t \in Threads, Penalize(t)
    PROVE  IInv'
<1>1. /\ thread[t].pc = "answered"
      /\ UNCHANGED <<now, tokens, lastRefill, permits, started>>
      /\ thread' = [u \in Threads |->
                       IF u = t THEN [thread[t] EXCEPT !.pc = "idle"]
                       ELSE IF At(u, "wait") THEN [thread[u] EXCEPT !.pc = "consume"]
                       ELSE thread[u]]
  BY DEF Penalize, At
<1>2. TypeOK /\ pauseUntil = owed
  BY DEF IInv
<1>3. PICK retryAfter \in RetryAfters :
          /\ pauseUntil' = Greater(pauseUntil, now + PenaltySeconds(retryAfter))
          /\ owed' = Greater(owed, now + PenaltySeconds(retryAfter))
  BY DEF Penalize
<1>4. now + PenaltySeconds(retryAfter) \in Nat
  BY <1>2, LimiterAssumption DEF PenaltySeconds, TypeOK
<1>5. pauseUntil' = owed' /\ owed' \in Nat
  BY <1>2, <1>3, <1>4 DEF Greater, TypeOK
<1>6. thread' \in [Threads -> [pc : {"idle", "consume", "wait", "fire",
                                     "answered"}, wake : Nat]]
  <2> SUFFICES ASSUME NEW u \in Threads
               PROVE  thread'[u] \in [pc : {"idle", "consume", "wait", "fire",
                                            "answered"}, wake : Nat]
    BY <1>1
  <2> QED BY <1>1, <1>2 DEF TypeOK
<1>7. Holders' = Holders
  <2>1. ASSUME NEW u \in Threads
        PROVE  thread'[u].pc \in Holding <=> thread[u].pc \in Holding
    <3>1. thread[u] \in [pc : {"idle", "consume", "wait", "fire", "answered"},
                         wake : Nat]
          /\ thread[t] \in [pc : {"idle", "consume", "wait", "fire", "answered"},
                            wake : Nat]
      BY <1>2 DEF TypeOK
    <3>2. CASE u = t
      BY <1>1, <3>1, <3>2 DEF Holding
    <3>3. CASE u # t /\ thread[u].pc = "wait"
      BY <1>1, <3>1, <3>3 DEF Holding, At
    <3>4. CASE u # t /\ thread[u].pc # "wait"
      BY <1>1, <3>4 DEF At
    <3> QED BY <3>2, <3>3, <3>4
  <2> QED BY <2>1 DEF Holders
<1>8. TypeOK'
  BY <1>1, <1>2, <1>5, <1>6 DEF TypeOK
<1> QED BY <1>1, <1>5, <1>7, <1>8, BucketUntouched DEF IInv

LEMMA TickKeeps == IInv /\ Tick => IInv'
<1> SUFFICES ASSUME IInv, Tick PROVE IInv'
  OBVIOUS
<1>1. /\ now < LastTime /\ now' = now + 1
      /\ UNCHANGED <<tokens, lastRefill, pauseUntil, permits, thread, started, owed>>
  BY DEF Tick, limiter
<1>2. TypeOK /\ NoneSinceRefill /\ Potential /\ WithinBudget
  BY DEF IInv
<1>3. /\ TypeOK' /\ NoneSinceRefill' /\ Potential' /\ Holders' = Holders
      /\ now \in Nat /\ lastRefill \in 0 .. now /\ LastTime \in Nat
  BY <1>1, <1>2, LimiterAssumption
     DEF TypeOK, NoneSinceRefill, Potential, Holders, Total, Capacity
<1>4. WithinBudget'
  <2> SUFFICES ASSUME NEW first \in 0 .. now + 1, NEW last \in first .. now + 1
               PROVE  Started(first, last) * Cost <= Capacity + (last - first) * Rate
    BY <1>1 DEF WithinBudget, Started, Capacity
  <2>1. CASE last <= now
    BY <1>2, <1>3, <2>1 DEF WithinBudget
  <2>2. CASE last = now + 1
    BY <1>1, <1>2, <1>3, <2>2, LateStretches
  <2> QED BY <1>3, <2>1, <2>2
<1> QED BY <1>1, <1>3, <1>4 DEF IInv

LEMMA NextIInv == IInv /\ [Next]_vars => IInv'
<1> SUFFICES ASSUME IInv, [Next]_vars PROVE IInv'
  OBVIOUS
<1>1. CASE UNCHANGED vars
  BY <1>1 DEF vars, limiter, IInv, TypeOK, Holders, NoneSinceRefill, Potential,
              WithinBudget, Total, Started
<1> QED BY <1>1, AcquireSlotKeeps, ConsumeKeeps, WakeCarryKeeps, AnswerKeeps,
           PenalizeKeeps, TickKeeps DEF Next

LEMMA Invariance == Spec => []IInv
BY InitIInv, NextIInv, PTL DEF Spec

-----------------------------------------------------------------------------
(* Theorems. *)

\* The provider's budget holds over any stretch of time
\* (QuotaScopeLimiter._consume_token over refill_tokens): the attempts started
\* in it cost no more than a full bucket and the refill meanwhile.
THEOREM BudgetRespected == Spec => []WithinBudget
<1>1. IInv => WithinBudget
  BY DEF IInv
<1> QED BY <1>1, Invariance, PTL

\* The permits and the threads that hold a slot always add up
\* (QuotaScopeLimiter.request_slot), also when an attempt raises.
THEOREM SlotsNeverLeak == Spec => []SlotsConserved
<1>1. IInv => SlotsConserved
  BY DEF IInv, SlotsConserved, Holders, Holding
<1> QED BY <1>1, Invariance, PTL

\* No attempt starts before the end of any penalty asked for
\* (QuotaScopeLimiter.penalize merges by maximum, _consume_token reads the pause
\* again after every wait).
THEOREM PenaltiesRespected == Spec => StartsRespectPenalties
<1>1. IInv /\ [Next]_vars => [started' # started => now >= owed]_started
  <2> SUFFICES ASSUME IInv, [Next]_vars, started' # started
               PROVE  now >= owed
    OBVIOUS
  <2>1. PICK t \in Threads : Consume(t)
    BY DEF Next, vars, limiter, AcquireSlot, Wake, Answer, Penalize, Carry, Tick
  <2>2. ~(now < pauseUntil)
    BY <2>1 DEF Consume
  <2> QED BY <2>2 DEF IInv, TypeOK
<1> QED BY <1>1, Invariance, PTL DEF Spec, StartsRespectPenalties
=============================================================================
