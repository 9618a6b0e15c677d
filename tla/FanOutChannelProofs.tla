------------------------ MODULE FanOutChannelProofs ------------------------
(***************************************************************************)
(* What FanOutChannel's run checks on two streams of five pieces, proved   *)
(* for every number of streams, pieces and workers and every window.       *)
(***************************************************************************)
EXTENDS FanOutChannel, FiniteSetTheorems, SequenceTheorems, TLAPS

-----------------------------------------------------------------------------
(* The inductive invariant. *)

Alive(s) == pc[s] \in {"prime", "drain", "yield", "unwind", "join"}

\* While a stream is alive its window is the stretch of pieces between the one
\* taken last and the next one to submit; and it is full as long as there are
\* tasks left to fill it with.
WindowTight(s) ==
    /\ Alive(s) =>
          /\ next[s] = taken[s] + Len(outstanding[s]) + 1
          /\ \A k \in 1 .. Len(outstanding[s]) : outstanding[s][k] = taken[s] + k
          /\ Len(outstanding[s]) <= Window
    /\ pc[s] = "prime" => taken[s] = 0
    /\ pc[s] \in {"drain", "yield"} /\ next[s] <= Tasks
          => Len(outstanding[s]) = Window

\* What is known of a future by where its piece lies.
FutureByPlace(s) ==
    /\ \A i \in Pieces :
          /\ i < taken[s] => future[s][i] = "done"
          /\ i = taken[s] => future[s][i] \in {"done", "failed"}
          /\ i >= next[s] => future[s][i] = "none"
          /\ future[s][i] = "cancelled" =>
                taken[s] < i /\ pc[s] \in {"unwind", "join", "raised", "closed"}
          /\ Over(s) => future[s][i] \notin {"queued", "running"}
    /\ taken[s] < next[s]

\* Where the taken piece leads: a failed one only into the unwinding.
TakenByPoint(s) ==
    /\ pc[s] \notin {"prime", "drain", "finished"} => taken[s] # 0
    /\ taken[s] # 0 /\ pc[s] \in {"drain", "yield", "finished", "closed"}
          => future[s][taken[s]] = "done"
    /\ pc[s] = "raised" => future[s][taken[s]] = "failed"
    /\ pc[s] = "finished" => taken[s] = Tasks

\* The pieces handed over: all up to the taken one, without it while the
\* consumer has not had it or never will.
Pending(s) == pc[s] = "yield" \/ (taken[s] # 0 /\ future[s][taken[s]] = "failed")

HandedOver(s) ==
    /\ Len(yielded[s]) = IF Pending(s) THEN taken[s] - 1 ELSE taken[s]
    /\ \A k \in 1 .. Len(yielded[s]) : yielded[s][k] = k

StreamInv(s) ==
    WindowTight(s) /\ FutureByPlace(s) /\ TakenByPoint(s) /\ HandedOver(s)

\* The executor's queue holds each piece once, and only pieces no worker took.
Waiting(p) == future[p[1]][p[2]] \in {"queued", "cancelled"}

BacklogWaits ==
    /\ \A k \in 1 .. Len(backlog) : Waiting(backlog[k])
    /\ \A j, k \in 1 .. Len(backlog) : backlog[j] = backlog[k] => j = k

IInv ==
    /\ TypeOK
    /\ IsFiniteSet(Running)
    /\ BacklogWaits
    /\ \A s \in Streams : StreamInv(s)

-----------------------------------------------------------------------------
(* Lemmas. *)

\* A step that starts no piece keeps the pool within its workers.
LEMMA NothingStarted ==
    ASSUME TypeOK, IsFiniteSet(Running), Running' \subseteq Running
    PROVE  IsFiniteSet(Running)' /\ Cardinality(Running)' <= PoolWorkers
<1>1. /\ IsFiniteSet(Running') /\ Cardinality(Running') <= Cardinality(Running)
      /\ Cardinality(Running') \in Nat /\ Cardinality(Running) \in Nat
  BY FS_Subset, FS_CardinalityType
<1> QED BY <1>1, ChannelAssumption DEF TypeOK

\* A step that touches one stream only leaves what is known of the others.
LEMMA OthersKept ==
    ASSUME \A t \in Streams : StreamInv(t), NEW s \in Streams, StreamInv(s)',
           \A t \in Streams \ {s} :
              /\ future'[t] = future[t] /\ outstanding'[t] = outstanding[t]
              /\ next'[t] = next[t] /\ pc'[t] = pc[t]
              /\ taken'[t] = taken[t] /\ yielded'[t] = yielded[t]
    PROVE  \A t \in Streams : StreamInv(t)'
<1> SUFFICES ASSUME NEW t \in Streams, t # s PROVE StreamInv(t)'
  OBVIOUS
<1>1. StreamInv(t)
  OBVIOUS
<1> QED BY <1>1 DEF StreamInv, WindowTight, FutureByPlace, TakenByPoint, HandedOver,
                    Pending, Alive, Over

-----------------------------------------------------------------------------
(* The invariant holds at first and is kept by every action. *)

LEMMA InitIInv == Init => IInv
<1> SUFFICES ASSUME Init PROVE IInv
  OBVIOUS
<1> USE ChannelAssumption DEF Init
<1>1. Running = {}
  BY DEF Running
<1>2. IsFiniteSet(Running) /\ Cardinality(Running) = 0
  BY <1>1, FS_EmptySet
<1>3. TypeOK
  BY <1>2 DEF TypeOK, Futures, Points, Pieces
<1>4. BacklogWaits
  BY DEF BacklogWaits
<1>5. ASSUME NEW s \in Streams PROVE StreamInv(s)
  BY DEF StreamInv, WindowTight, FutureByPlace, TakenByPoint, HandedOver,
         Pending, Alive, Over, Pieces
<1> QED BY <1>2, <1>3, <1>4, <1>5 DEF IInv

\* An update of one future, seen from every other one.
LEMMA OneFuture ==
    ASSUME TypeOK, NEW s \in Streams, NEW i \in Pieces, NEW c \in Futures,
           future' = [future EXCEPT ![s][i] = c]
    PROVE  /\ future' \in [Streams -> [Pieces -> Futures]]
           /\ \A t \in Streams : \A j \in Pieces :
                 future'[t][j] = IF t = s /\ j = i THEN c ELSE future[t][j]
           /\ \A t \in Streams \ {s} : future'[t] = future[t]
<1>1. future \in [Streams -> [Pieces -> Futures]]
  BY DEF TypeOK
<1>2. [future[s] EXCEPT ![i] = c] \in [Pieces -> Futures]
  BY <1>1
<1>3. future' = [future EXCEPT ![s] = [future[s] EXCEPT ![i] = c]]
  OBVIOUS
<1> QED BY <1>1, <1>2, <1>3

\* What a submission does, for the two actions that make one.
LEMMA Submitted ==
    ASSUME IInv, NEW s \in Streams, next[s] \in Pieces,
           NEW window \in Seq(Pieces), Submit(s, window)
    PROVE  /\ future' \in [Streams -> [Pieces -> Futures]]
           /\ \A i \in Pieces : future'[s][i] = IF i = next[s] THEN "queued"
                                               ELSE future[s][i]
           /\ \A t \in Streams \ {s} : /\ future'[t] = future[t]
                                       /\ outstanding'[t] = outstanding[t]
                                       /\ next'[t] = next[t]
           /\ backlog' \in Seq(Streams \X Pieces)
           /\ outstanding' \in [Streams -> Seq(Pieces)]
           /\ outstanding'[s] = Append(window, next[s])
           /\ next' \in [Streams -> 1 .. Tasks + 1]
           /\ next'[s] = next[s] + 1
           /\ Running' = Running
           /\ BacklogWaits'
<1>1. /\ backlog \in Seq(Streams \X Pieces)
      /\ outstanding \in [Streams -> Seq(Pieces)]
      /\ next \in [Streams -> 1 .. Tasks + 1]
      /\ Tasks \in Nat
  BY ChannelAssumption DEF IInv, TypeOK
<1>2. /\ future' \in [Streams -> [Pieces -> Futures]]
      /\ \A t \in Streams : \A i \in Pieces :
            future'[t][i] = IF t = s /\ i = next[s] THEN "queued" ELSE future[t][i]
      /\ \A t \in Streams \ {s} : future'[t] = future[t]
  BY OneFuture, "queued" \in Futures DEF IInv, Submit, Futures
<1>3. /\ next' \in [Streams -> 1 .. Tasks + 1]
      /\ next'[s] = next[s] + 1
      /\ \A t \in Streams \ {s} : next'[t] = next[t]
  BY <1>1 DEF Submit, Pieces
<1>4. <<s, next[s]>> \in Streams \X Pieces
  OBVIOUS
<1>5. Append(window, next[s]) \in Seq(Pieces)
  BY AppendProperties
<1>6. /\ outstanding' \in [Streams -> Seq(Pieces)]
      /\ outstanding'[s] = Append(window, next[s])
      /\ \A t \in Streams \ {s} : outstanding'[t] = outstanding[t]
  BY <1>1, <1>5 DEF Submit
<1>7. backlog' \in Seq(Streams \X Pieces)
  BY <1>1, <1>4, AppendProperties DEF Submit
<1>8. future[s][next[s]] = "none"
  <2>1. FutureByPlace(s) /\ next[s] >= next[s]
    BY <1>1 DEF IInv, StreamInv
  <2> QED BY <2>1 DEF FutureByPlace
<1>9. Running' = Running
  BY <1>2, <1>8 DEF Running
<1>10. /\ Len(backlog) \in Nat
       /\ Len(backlog') = Len(backlog) + 1
       /\ \A k \in 1 .. Len(backlog) : backlog'[k] = backlog[k]
       /\ backlog'[Len(backlog) + 1] = <<s, next[s]>>
  BY <1>1, <1>4, AppendProperties, LenProperties DEF Submit
<1>11. ASSUME NEW k \in 1 .. Len(backlog)
       PROVE  /\ backlog[k] \in Streams \X Pieces
              /\ backlog[k] # <<s, next[s]>>
              /\ Waiting(backlog[k]) /\ Waiting(backlog[k])'
  <2>1. backlog[k] \in Streams \X Pieces
    BY <1>1, ElementOfSeq
  <2>2. Waiting(backlog[k])
    BY DEF IInv, BacklogWaits
  <2>3. PICK t \in Streams, i \in Pieces : backlog[k] = <<t, i>>
    BY <2>1
  <2>4. backlog[k][1] = t /\ backlog[k][2] = i /\ backlog'[k] = backlog[k]
    BY <1>10, <2>3
  <2>5. future[t][i] \in {"queued", "cancelled"}
    BY <2>2, <2>4 DEF Waiting
  <2>6. future'[t][i] \in {"queued", "cancelled"}
    BY <1>2, <2>5
  <2>7. ~(t = s /\ i = next[s])
    BY <1>8, <2>5
  <2> QED BY <2>1, <2>2, <2>3, <2>4, <2>6, <2>7 DEF Waiting
<1>12. BacklogWaits'
  <2>1. future'[s][next[s]] = "queued"
    BY <1>2
  <2>2. ASSUME NEW k \in 1 .. Len(backlog')
        PROVE  Waiting(backlog[k])'
    <3>1. CASE k = Len(backlog) + 1
      BY <1>10, <2>1, <3>1 DEF Waiting
    <3>2. CASE k \in 1 .. Len(backlog)
      BY <1>11, <3>2
    <3> QED BY <1>10, <3>1, <3>2
  <2>3. ASSUME NEW j \in 1 .. Len(backlog'), NEW k \in 1 .. Len(backlog'),
               backlog'[j] = backlog'[k]
        PROVE  j = k
    <3>1. \A m, n \in 1 .. Len(backlog) : backlog[m] = backlog[n] => m = n
      BY DEF IInv, BacklogWaits
    <3>2. CASE j \in 1 .. Len(backlog) /\ k \in 1 .. Len(backlog)
      BY <1>10, <2>3, <3>1, <3>2
    <3>3. CASE j = Len(backlog) + 1 \/ k = Len(backlog) + 1
      BY <1>10, <1>11, <2>3, <3>3
    <3> QED BY <1>10, <3>2, <3>3
  <2> QED BY <2>2, <2>3 DEF BacklogWaits
<1> QED BY <1>2, <1>3, <1>6, <1>7, <1>9, <1>12

LEMMA PrimeIInv ==
    ASSUME IInv, NEW s \in Streams, Prime(s)
    PROVE  IInv'
<1> USE ChannelAssumption
<1>1. TypeOK /\ StreamInv(s) /\ pc[s] = "prime" /\ UNCHANGED <<taken, yielded>>
  BY DEF IInv, Prime
<1>2. CASE /\ next[s] \in Pieces /\ Len(outstanding[s]) < Window
           /\ Submit(s, outstanding[s]) /\ UNCHANGED pc
  <2>1. outstanding[s] \in Seq(Pieces)
    BY <1>1 DEF TypeOK
  <2>2. /\ future' \in [Streams -> [Pieces -> Futures]]
        /\ \A i \in Pieces : future'[s][i] = IF i = next[s] THEN "queued"
                                            ELSE future[s][i]
        /\ \A t \in Streams \ {s} : /\ future'[t] = future[t]
                                    /\ outstanding'[t] = outstanding[t]
                                    /\ next'[t] = next[t]
        /\ backlog' \in Seq(Streams \X Pieces)
        /\ outstanding' \in [Streams -> Seq(Pieces)]
        /\ outstanding'[s] = Append(outstanding[s], next[s])
        /\ next' \in [Streams -> 1 .. Tasks + 1]
        /\ next'[s] = next[s] + 1
        /\ Running' = Running
        /\ BacklogWaits'
    BY <1>2, <2>1, Submitted
  <2>3. IsFiniteSet(Running)' /\ Cardinality(Running)' <= PoolWorkers
    BY <1>1, <2>2, NothingStarted DEF IInv
  <2>4. TypeOK'
    BY <1>1, <1>2, <2>2, <2>3 DEF TypeOK
  <2>5. /\ Len(outstanding[s]) \in Nat
        /\ Len(outstanding'[s]) = Len(outstanding[s]) + 1
        /\ \A k \in 1 .. Len(outstanding[s]) : outstanding'[s][k] = outstanding[s][k]
        /\ outstanding'[s][Len(outstanding[s]) + 1] = next[s]
    BY <1>2, <2>1, <2>2, AppendProperties, LenProperties
  <2>6. /\ taken[s] = 0 /\ taken'[s] = 0 /\ pc'[s] = "prime"
        /\ next[s] = Len(outstanding[s]) + 1
    BY <1>1, <1>2, <2>5 DEF StreamInv, WindowTight, Alive
  <2>7. StreamInv(s)'
    <3>1. WindowTight(s)'
      <4>1. \A k \in 1 .. Len(outstanding'[s]) : outstanding'[s][k] = k
        BY <1>1, <2>5, <2>6 DEF StreamInv, WindowTight, Alive
      <4> QED BY <1>2, <2>2, <2>5, <2>6, <4>1 DEF WindowTight, Alive
    <3>2. FutureByPlace(s)'
      <4>1. FutureByPlace(s) /\ pc'[s] = pc[s] /\ next[s] \in Nat
        BY <1>1, <1>2, <2>5, <2>6 DEF StreamInv
      <4>2. taken[s] < next[s] /\ next'[s] = next[s] + 1
        BY <2>2, <4>1 DEF FutureByPlace
      <4>3. ASSUME NEW i \in Pieces
            PROVE  /\ i < taken'[s] => future'[s][i] = "done"
                   /\ i = taken'[s] => future'[s][i] \in {"done", "failed"}
                   /\ i >= next'[s] => future'[s][i] = "none"
                   /\ future'[s][i] = "cancelled" =>
                         taken'[s] < i /\ pc'[s] \in {"unwind", "join", "raised", "closed"}
                   /\ Over(s)' => future'[s][i] \notin {"queued", "running"}
        <5>1. i > 0 /\ i \in Nat
          BY DEF Pieces
        <5>2. ~Over(s)'
          BY <2>6 DEF Over
        <5>3. future'[s][i] = IF i = next[s] THEN "queued" ELSE future[s][i]
          BY <2>2
        <5>4. /\ i >= next[s] => future[s][i] = "none"
              /\ future[s][i] # "cancelled"
          BY <2>6, <4>1 DEF FutureByPlace
        <5> QED BY <2>6, <4>1, <4>2, <5>1, <5>2, <5>3, <5>4
      <4> QED BY <2>6, <4>2, <4>3 DEF FutureByPlace
    <3>3. TakenByPoint(s)' /\ HandedOver(s)'
      BY <1>1, <2>6 DEF StreamInv, TakenByPoint, HandedOver, Pending
    <3> QED BY <3>1, <3>2, <3>3 DEF StreamInv
  <2>8. \A t \in Streams : StreamInv(t)'
    BY <1>1, <1>2, <2>2, <2>7, OthersKept DEF IInv
  <2> QED BY <2>2, <2>3, <2>4, <2>8 DEF IInv
<1>3. CASE /\ ~(next[s] \in Pieces /\ Len(outstanding[s]) < Window)
           /\ Goto(s, "drain") /\ UNCHANGED <<future, backlog, outstanding, next>>
  <2>1. pc' \in [Streams -> Points] /\ pc'[s] = "drain"
        /\ \A t \in Streams \ {s} : pc'[t] = pc[t]
    BY <1>1, <1>3 DEF TypeOK, Goto, Points
  <2>2. Running' = Running
    BY <1>3 DEF Running
  <2>3. TypeOK' /\ IsFiniteSet(Running)' /\ BacklogWaits'
    BY <1>1, <1>3, <2>1, <2>2 DEF IInv, TypeOK, BacklogWaits, Waiting
  <2>4. taken[s] = 0 /\ Len(outstanding[s]) \in Nat /\ next[s] \in 1 .. Tasks + 1
    BY <1>1 DEF StreamInv, WindowTight, TypeOK
  <2>5. StreamInv(s)'
    <3>1. WindowTight(s)'
      BY <1>1, <1>3, <2>1, <2>4 DEF StreamInv, WindowTight, Alive, Pieces
    <3>2. FutureByPlace(s)'
      BY <1>1, <1>3, <2>1 DEF StreamInv, FutureByPlace, Over
    <3>3. TakenByPoint(s)' /\ HandedOver(s)'
      BY <1>1, <1>3, <2>1, <2>4 DEF StreamInv, TakenByPoint, HandedOver, Pending
    <3> QED BY <3>1, <3>2, <3>3 DEF StreamInv
  <2>6. \A t \in Streams : StreamInv(t)'
    BY <1>1, <1>3, <2>1, <2>5, OthersKept DEF IInv
  <2> QED BY <2>3, <2>6 DEF IInv
<1> QED BY <1>2, <1>3 DEF Prime

\* What the oldest outstanding piece and the rest of the window are.
LEMMA OldestAndRest ==
    ASSUME IInv, NEW s \in Streams, Alive(s), outstanding[s] # <<>>
    PROVE  /\ Len(outstanding[s]) \in Nat \ {0}
           /\ next[s] = taken[s] + Len(outstanding[s]) + 1
           /\ Head(outstanding[s]) = taken[s] + 1 /\ taken[s] + 1 \in Pieces
           /\ Tail(outstanding[s]) \in Seq(Pieces)
           /\ Len(Tail(outstanding[s])) = Len(outstanding[s]) - 1
           /\ \A k \in 1 .. Len(outstanding[s]) - 1 :
                 Tail(outstanding[s])[k] = taken[s] + 1 + k
<1>1. outstanding[s] \in Seq(Pieces) /\ taken[s] \in Nat /\ next[s] \in Nat
  BY ChannelAssumption DEF IInv, TypeOK
<1>2. /\ next[s] = taken[s] + Len(outstanding[s]) + 1
      /\ \A k \in 1 .. Len(outstanding[s]) : outstanding[s][k] = taken[s] + k
  BY DEF IInv, StreamInv, WindowTight
<1>3. /\ Len(outstanding[s]) \in Nat \ {0}
      /\ Tail(outstanding[s]) \in Seq(Pieces)
      /\ Head(outstanding[s]) = outstanding[s][1] /\ outstanding[s][1] \in Pieces
      /\ Len(Tail(outstanding[s])) = Len(outstanding[s]) - 1
      /\ \A k \in 1 .. Len(outstanding[s]) - 1 :
            Tail(outstanding[s])[k] = outstanding[s][k + 1]
  BY <1>1, HeadTailProperties, LenProperties, EmptySeq, ElementOfSeq
<1>4. \A k \in 1 .. Len(outstanding[s]) - 1 :
         outstanding[s][k + 1] = taken[s] + 1 + k
  <2> SUFFICES ASSUME NEW k \in 1 .. Len(outstanding[s]) - 1
               PROVE  outstanding[s][k + 1] = taken[s] + 1 + k
    OBVIOUS
  <2>1. k \in Nat /\ k + 1 \in 1 .. Len(outstanding[s])
    BY <1>3
  <2>2. outstanding[s][k + 1] = taken[s] + (k + 1)
    BY <1>2, <2>1
  <2> QED BY <1>1, <2>1, <2>2
<1> QED BY <1>1, <1>2, <1>3, <1>4

\* The taken piece failed: the window is left to be unwound.
LEMMA TakeFailedIInv ==
    ASSUME IInv, NEW s \in Streams, TakeOldest(s),
           future[s][Head(outstanding[s])] = "failed"
    PROVE  IInv'
<1> DEFINE piece == taken[s] + 1
           n == Len(outstanding[s])
<1>1. TypeOK /\ StreamInv(s) /\ pc[s] = "drain" /\ Alive(s) /\ outstanding[s] # <<>>
  BY DEF IInv, TakeOldest, Alive
<1>2. /\ n \in Nat \ {0} /\ next[s] = taken[s] + n + 1
      /\ Head(outstanding[s]) = piece /\ piece \in Pieces
      /\ Tail(outstanding[s]) \in Seq(Pieces)
      /\ Len(Tail(outstanding[s])) = n - 1
      /\ \A k \in 1 .. n - 1 : Tail(outstanding[s])[k] = piece + k
  BY <1>1, OldestAndRest
<1>3. /\ taken' = [taken EXCEPT ![s] = piece]
      /\ outstanding' = [outstanding EXCEPT ![s] = Tail(outstanding[s])]
      /\ pc' = [pc EXCEPT ![s] = "unwind"]
      /\ UNCHANGED <<future, backlog, next, yielded>>
      /\ future[s][piece] = "failed"
  BY <1>2 DEF TakeOldest, Goto
<1>4. /\ taken' \in [Streams -> 0 .. Tasks] /\ taken'[s] = piece
      /\ outstanding' \in [Streams -> Seq(Pieces)]
      /\ outstanding'[s] = Tail(outstanding[s])
      /\ pc' \in [Streams -> Points] /\ pc'[s] = "unwind"
      /\ \A t \in Streams \ {s} :
            /\ taken'[t] = taken[t] /\ outstanding'[t] = outstanding[t]
            /\ pc'[t] = pc[t]
  BY <1>1, <1>2, <1>3 DEF TypeOK, Points, Pieces
<1>5. Running' = Running /\ BacklogWaits'
  BY <1>3 DEF IInv, Running, BacklogWaits, Waiting
<1>6. TypeOK' /\ IsFiniteSet(Running)'
  BY <1>1, <1>3, <1>4, <1>5 DEF IInv, TypeOK
<1>7. /\ taken[s] \in Nat /\ piece \in Nat /\ piece = taken[s] + 1
      /\ n <= Window /\ Window \in Nat
  BY <1>1, ChannelAssumption DEF TypeOK, StreamInv, WindowTight
<1> HIDE DEF piece, n
<1>8. StreamInv(s)'
  <2>1. WindowTight(s)'
    <3>1. /\ outstanding'[s] = Tail(outstanding[s]) /\ next'[s] = next[s]
          /\ taken'[s] = piece /\ pc'[s] = "unwind"
      BY <1>3, <1>4
    <3>2. /\ Len(outstanding'[s]) = n - 1
          /\ \A k \in 1 .. n - 1 : outstanding'[s][k] = piece + k
      BY <1>2, <3>1
    <3>3. next[s] = taken[s] + n + 1 /\ n \in Nat
      BY <1>2
    <3>4. /\ next'[s] = piece + (n - 1) + 1
          /\ n - 1 <= Window
      BY <1>7, <3>1, <3>3
    <3>5. next'[s] = taken'[s] + Len(outstanding'[s]) + 1
      BY <3>1, <3>2, <3>4
    <3>6. Len(outstanding'[s]) <= Window
      BY <3>2, <3>4
    <3>7. \A k \in 1 .. Len(outstanding'[s]) : outstanding'[s][k] = taken'[s] + k
      BY <3>1, <3>2
    <3> QED BY <3>1, <3>5, <3>6, <3>7 DEF WindowTight
  <2>2. FutureByPlace(s)'
    <3>1. FutureByPlace(s) /\ TakenByPoint(s) /\ ~Over(s)'
      BY <1>1, <1>4 DEF StreamInv, Over
    <3>2. ASSUME NEW i \in Pieces, i < piece PROVE future[s][i] = "done"
      <4>1. i \in Nat \ {0} /\ (i < taken[s] \/ i = taken[s])
        BY <1>7, <3>2 DEF Pieces
      <4> QED BY <1>1, <3>1, <4>1 DEF FutureByPlace, TakenByPoint
    <3>3. \A i \in Pieces : /\ i = piece => future[s][i] = "failed"
                            /\ i >= next[s] => future[s][i] = "none"
                            /\ future[s][i] # "cancelled"
      BY <1>1, <1>3, <3>1 DEF FutureByPlace
    <3>4. piece < next[s]
      BY <1>2, <1>7
    <3>5. /\ taken'[s] = piece /\ next'[s] = next[s] /\ future'[s] = future[s]
          /\ pc'[s] = "unwind"
      BY <1>3, <1>4
    <3>6. ~Over(s)'
      BY <3>1
    <3>7. ASSUME NEW i \in Pieces
          PROVE  /\ i < taken'[s] => future'[s][i] = "done"
                 /\ i = taken'[s] => future'[s][i] \in {"done", "failed"}
                 /\ i >= next'[s] => future'[s][i] = "none"
                 /\ future'[s][i] # "cancelled"
      <4>1. /\ i < piece => future[s][i] = "done"
            /\ i = piece => future[s][i] = "failed"
            /\ i >= next[s] => future[s][i] = "none"
            /\ future[s][i] # "cancelled"
        BY <3>2, <3>3
      <4> QED BY <3>5, <4>1
    <3> QED BY <3>4, <3>5, <3>6, <3>7 DEF FutureByPlace
  <2>3. TakenByPoint(s)' /\ HandedOver(s)'
    <3>1. /\ Len(yielded[s]) = taken[s]
          /\ \A k \in 1 .. Len(yielded[s]) : yielded[s][k] = k
      BY <1>1 DEF StreamInv, TakenByPoint, HandedOver, Pending
    <3>2. piece # 0 /\ taken[s] = piece - 1
      BY <1>7
    <3> QED BY <1>3, <1>4, <3>1, <3>2 DEF TakenByPoint, HandedOver, Pending
  <2> QED BY <2>1, <2>2, <2>3 DEF StreamInv
<1>9. \A t \in Streams : StreamInv(t)'
  BY <1>3, <1>4, <1>8, OthersKept DEF IInv
<1> QED BY <1>5, <1>6, <1>9 DEF IInv

\* The taken piece is done: the next task, if there is one, takes its place in
\* the window before its items are handed over.
LEMMA TakeDoneIInv ==
    ASSUME IInv, NEW s \in Streams, TakeOldest(s),
           future[s][Head(outstanding[s])] # "failed"
    PROVE  IInv'
<1> DEFINE piece == taken[s] + 1
           n == Len(outstanding[s])
           rest == Tail(outstanding[s])
<1>1. TypeOK /\ StreamInv(s) /\ pc[s] = "drain" /\ Alive(s) /\ outstanding[s] # <<>>
  BY DEF IInv, TakeOldest, Alive
<1>2. /\ n \in Nat \ {0} /\ next[s] = taken[s] + n + 1
      /\ Head(outstanding[s]) = piece /\ piece \in Pieces
      /\ rest \in Seq(Pieces) /\ Len(rest) = n - 1
      /\ \A k \in 1 .. n - 1 : rest[k] = piece + k
  BY <1>1, OldestAndRest
<1>3. /\ future[s][piece] = "done"
      /\ taken' = [taken EXCEPT ![s] = piece]
      /\ pc' = [pc EXCEPT ![s] = "yield"]
      /\ UNCHANGED yielded
  BY <1>2 DEF TakeOldest, Goto
<1>4. /\ taken' \in [Streams -> 0 .. Tasks] /\ taken'[s] = piece
      /\ pc' \in [Streams -> Points] /\ pc'[s] = "yield"
      /\ \A t \in Streams \ {s} : taken'[t] = taken[t] /\ pc'[t] = pc[t]
  BY <1>1, <1>2, <1>3 DEF TypeOK, Points, Pieces
<1>5. /\ taken[s] \in Nat /\ piece \in Nat /\ piece = taken[s] + 1
      /\ n <= Window /\ Window \in Nat /\ Tasks \in Nat
      /\ next[s] <= Tasks => n = Window
  BY <1>1, ChannelAssumption DEF TypeOK, StreamInv, WindowTight
<1>6. /\ \A i \in Pieces : /\ i < piece => future[s][i] = "done"
                           /\ i >= next[s] => future[s][i] = "none"
                           /\ future[s][i] # "cancelled"
      /\ ~Over(s)'
  BY <1>1, <1>4, <1>5 DEF StreamInv, FutureByPlace, TakenByPoint, Over, Pieces
<1> HIDE DEF piece, n, rest
<1>7. TakenByPoint(s)' /\ HandedOver(s)'
      /\ IsFiniteSet(Running)' /\ TypeOK' /\ BacklogWaits'
      /\ WindowTight(s)' /\ FutureByPlace(s)'
      /\ \A t \in Streams \ {s} : /\ future'[t] = future[t]
                                  /\ outstanding'[t] = outstanding[t]
                                  /\ next'[t] = next[t]
  <2>1. CASE next[s] \in Pieces /\ Submit(s, rest)
    <3>1. /\ future' \in [Streams -> [Pieces -> Futures]]
          /\ \A i \in Pieces : future'[s][i] = IF i = next[s] THEN "queued"
                                              ELSE future[s][i]
          /\ \A t \in Streams \ {s} : /\ future'[t] = future[t]
                                      /\ outstanding'[t] = outstanding[t]
                                      /\ next'[t] = next[t]
          /\ backlog' \in Seq(Streams \X Pieces)
          /\ outstanding' \in [Streams -> Seq(Pieces)]
          /\ outstanding'[s] = Append(rest, next[s])
          /\ next' \in [Streams -> 1 .. Tasks + 1]
          /\ next'[s] = next[s] + 1
          /\ Running' = Running
          /\ BacklogWaits'
      BY <1>2, <2>1, Submitted
    <3>2. IsFiniteSet(Running)' /\ Cardinality(Running)' <= PoolWorkers
      BY <1>1, <3>1, NothingStarted DEF IInv
    <3>3. TypeOK'
      BY <1>1, <1>3, <1>4, <3>1, <3>2 DEF TypeOK
    <3>4. /\ Len(outstanding'[s]) = n
          /\ \A k \in 1 .. n - 1 : outstanding'[s][k] = piece + k
          /\ outstanding'[s][n] = next[s]
      BY <1>2, <2>1, <3>1, AppendProperties, LenProperties
    <3>5. /\ taken'[s] = piece /\ pc'[s] = "yield" /\ next'[s] = next[s] + 1
          /\ next[s] = piece + n /\ n \in Nat \ {0} /\ piece \in Pieces
      BY <1>2, <1>4, <1>5, <3>1
    <3>6. WindowTight(s)'
      <4>1. next'[s] = taken'[s] + n + 1 /\ next[s] <= Tasks
        BY <1>5, <2>1, <3>5 DEF Pieces
      <4>2. Len(outstanding'[s]) = Window
        BY <1>5, <3>4, <4>1
      <4>3. \A k \in 1 .. n : outstanding'[s][k] = piece + k
        BY <3>4, <3>5
      <4> QED BY <1>5, <3>4, <3>5, <4>1, <4>2, <4>3 DEF WindowTight
    <3>7. \A i \in Pieces : future'[s][i] = IF i = next[s] THEN "queued"
                                          ELSE future[s][i]
      BY <3>1
    <3>8. future'[s][piece] = "done"
      BY <1>3, <1>5, <3>5, <3>7
    <3>9. FutureByPlace(s)'
      <4>1. ASSUME NEW i \in Pieces
            PROVE  /\ i < piece => future'[s][i] = "done"
                   /\ i >= next[s] + 1 => future'[s][i] = "none"
                   /\ future'[s][i] # "cancelled"
        <5>1. i \in Nat
          BY DEF Pieces
        <5>2. /\ i < piece => future[s][i] = "done"
              /\ i >= next[s] => future[s][i] = "none"
              /\ future[s][i] # "cancelled"
          BY <1>6
        <5> QED BY <1>5, <3>5, <3>7, <5>1, <5>2
      <4>2. piece < next[s] + 1
        BY <1>5, <3>5
      <4>3. ~Over(s)'
        BY <1>6
      <4> QED BY <3>5, <3>8, <4>1, <4>2, <4>3 DEF FutureByPlace
    <3>10. TakenByPoint(s)' /\ HandedOver(s)'
      <4>1. /\ Len(yielded[s]) = taken[s]
            /\ \A k \in 1 .. Len(yielded[s]) : yielded[s][k] = k
        BY <1>1 DEF StreamInv, TakenByPoint, HandedOver, Pending
      <4> QED BY <1>3, <1>4, <1>5, <3>8, <4>1 DEF TakenByPoint, HandedOver, Pending
    <3> QED BY <3>1, <3>2, <3>3, <3>6, <3>9, <3>10
  <2>2. CASE /\ next[s] \notin Pieces
             /\ outstanding' = [outstanding EXCEPT ![s] = rest]
             /\ UNCHANGED <<future, backlog, next>>
    <3>1. /\ outstanding' \in [Streams -> Seq(Pieces)] /\ outstanding'[s] = rest
          /\ \A t \in Streams \ {s} : outstanding'[t] = outstanding[t]
      BY <1>1, <1>2, <2>2 DEF TypeOK
    <3>2. Running' = Running /\ BacklogWaits' /\ IsFiniteSet(Running)'
      BY <2>2 DEF IInv, Running, BacklogWaits, Waiting
    <3>3. TypeOK'
      BY <1>1, <1>3, <1>4, <2>2, <3>1, <3>2 DEF TypeOK
    <3>4. /\ taken'[s] = piece /\ pc'[s] = "yield" /\ next'[s] = next[s]
          /\ next[s] = piece + n /\ n \in Nat \ {0} /\ next[s] > Tasks
          /\ future'[s] = future[s]
      <4>1. /\ taken'[s] = piece /\ pc'[s] = "yield" /\ next'[s] = next[s]
            /\ next[s] = piece + n /\ n \in Nat \ {0} /\ future'[s] = future[s]
        BY <1>2, <1>4, <1>5, <2>2
      <4> QED BY <1>5, <2>2, <4>1 DEF Pieces
    <3>5. WindowTight(s)'
      <4>1. /\ Len(outstanding'[s]) = n - 1
            /\ \A k \in 1 .. n - 1 : outstanding'[s][k] = piece + k
        BY <1>2, <3>1
      <4>2. next'[s] = taken'[s] + (n - 1) + 1 /\ n - 1 <= Window /\ ~(next'[s] <= Tasks)
        BY <1>5, <3>4
      <4> QED BY <3>4, <4>1, <4>2 DEF WindowTight
    <3>6. FutureByPlace(s)'
      <4>1. piece < next[s]
        BY <1>5, <3>4
      <4> QED BY <1>3, <1>6, <3>4, <4>1 DEF FutureByPlace
    <3>7. TakenByPoint(s)' /\ HandedOver(s)'
      BY <1>1, <1>3, <1>4, <1>5, <2>2
         DEF StreamInv, TakenByPoint, HandedOver, Pending
    <3> QED BY <2>2, <3>1, <3>2, <3>3, <3>5, <3>6, <3>7
  <2>3. \/ next[s] \in Pieces /\ Submit(s, rest)
        \/ /\ next[s] \notin Pieces
           /\ outstanding' = [outstanding EXCEPT ![s] = rest]
           /\ UNCHANGED <<future, backlog, next>>
    BY DEF TakeOldest, rest
  <2> QED BY <2>1, <2>2, <2>3
<1>8. StreamInv(s)'
  BY <1>7 DEF StreamInv
<1>9. \A t \in Streams : StreamInv(t)'
  BY <1>3, <1>4, <1>7, <1>8, OthersKept DEF IInv
<1> QED BY <1>7, <1>9 DEF IInv

LEMMA YieldIInv ==
    ASSUME IInv, NEW s \in Streams, Yield(s)
    PROVE  IInv'
<1>1. TypeOK /\ StreamInv(s) /\ pc[s] = "yield"
      /\ UNCHANGED <<future, backlog, outstanding, next, taken>>
  BY DEF IInv, Yield
<1>2. /\ taken[s] \in Nat \ {0} /\ taken[s] \in Pieces
      /\ future[s][taken[s]] = "done"
      /\ yielded \in [Streams -> Seq(Pieces)]
  BY <1>1, ChannelAssumption DEF TypeOK, StreamInv, TakenByPoint, Pieces
<1>3. /\ pc' \in [Streams -> Points] /\ pc'[s] \in {"drain", "unwind"}
      /\ \A t \in Streams \ {s} : pc'[t] = pc[t]
  BY <1>1 DEF TypeOK, Yield, Goto, Points
<1>4. /\ yielded' \in [Streams -> Seq(Pieces)]
      /\ yielded'[s] = Append(yielded[s], taken[s])
      /\ \A t \in Streams \ {s} : yielded'[t] = yielded[t]
  <2>1. Append(yielded[s], taken[s]) \in Seq(Pieces)
    BY <1>2, AppendProperties
  <2> QED BY <1>2, <2>1 DEF Yield
<1>5. Running' = Running /\ BacklogWaits' /\ IsFiniteSet(Running)'
  BY <1>1 DEF IInv, Running, BacklogWaits, Waiting
<1>6. TypeOK'
  BY <1>1, <1>3, <1>4, <1>5 DEF TypeOK
<1>7. WindowTight(s)'
  BY <1>1, <1>3 DEF StreamInv, WindowTight, Alive
<1>8. FutureByPlace(s)' /\ TakenByPoint(s)'
  BY <1>1, <1>2, <1>3 DEF StreamInv, FutureByPlace, TakenByPoint, Over
<1>9. HandedOver(s)'
  <2>1. /\ Len(yielded[s]) = taken[s] - 1
        /\ \A k \in 1 .. Len(yielded[s]) : yielded[s][k] = k
    BY <1>1 DEF StreamInv, HandedOver, Pending
  <2>2. /\ Len(yielded'[s]) = taken[s] /\ yielded'[s][taken[s]] = taken[s]
        /\ \A k \in 1 .. taken[s] - 1 : yielded'[s][k] = yielded[s][k]
    BY <1>2, <1>4, <2>1, AppendProperties
  <2>3. \A k \in 1 .. taken[s] : yielded'[s][k] = k
    BY <1>2, <2>1, <2>2
  <2>4. ~Pending(s)'
    BY <1>1, <1>2, <1>3 DEF Pending
  <2> QED BY <1>1, <2>2, <2>3, <2>4 DEF HandedOver
<1>10. \A t \in Streams : StreamInv(t)'
  <2>1. StreamInv(s)'
    BY <1>7, <1>8, <1>9 DEF StreamInv
  <2> QED BY <1>1, <1>3, <1>4, <2>1, OthersKept DEF IInv
<1> QED BY <1>5, <1>6, <1>10 DEF IInv

LEMMA FinishIInv ==
    ASSUME IInv, NEW s \in Streams, Finish(s)
    PROVE  IInv'
<1>1. /\ TypeOK /\ StreamInv(s) /\ pc[s] = "drain" /\ outstanding[s] = <<>>
      /\ UNCHANGED <<future, backlog, outstanding, next, taken, yielded>>
  BY DEF IInv, Finish
<1>2. /\ pc' \in [Streams -> Points] /\ pc'[s] = "finished"
      /\ \A t \in Streams \ {s} : pc'[t] = pc[t]
  BY <1>1 DEF TypeOK, Finish, Goto, Points
<1>3. taken[s] = Tasks /\ next[s] = Tasks + 1
  <2>1. Len(outstanding[s]) = 0 /\ taken[s] \in 0 .. Tasks /\ next[s] \in 1 .. Tasks + 1
    BY <1>1, EmptySeq DEF TypeOK
  <2>2. /\ next[s] = taken[s] + 0 + 1
        /\ next[s] <= Tasks => 0 = Window
    BY <1>1, <2>1 DEF StreamInv, WindowTight, Alive
  <2> QED BY <2>1, <2>2, ChannelAssumption
<1>4. Running' = Running /\ BacklogWaits' /\ IsFiniteSet(Running)'
  BY <1>1 DEF IInv, Running, BacklogWaits, Waiting
<1>5. TypeOK'
  BY <1>1, <1>2, <1>4 DEF TypeOK
<1>6. WindowTight(s)' /\ TakenByPoint(s)' /\ HandedOver(s)'
  BY <1>1, <1>2, <1>3
     DEF StreamInv, WindowTight, Alive, TakenByPoint, HandedOver, Pending
<1>7. FutureByPlace(s)'
  <2>1. ASSUME NEW i \in Pieces PROVE future[s][i] \in {"done", "failed"}
    BY <1>1, <1>3, ChannelAssumption DEF StreamInv, FutureByPlace, Pieces
  <2> QED BY <1>1, <1>2, <2>1 DEF StreamInv, FutureByPlace
<1>8. \A t \in Streams : StreamInv(t)'
  <2>1. StreamInv(s)'
    BY <1>6, <1>7 DEF StreamInv
  <2> QED BY <1>1, <1>2, <2>1, OthersKept DEF IInv
<1> QED BY <1>4, <1>5, <1>8 DEF IInv

\* The pieces of the window that is unwound.
LEMMA LeftIsStretch ==
    ASSUME IInv, NEW s \in Streams, Alive(s)
    PROVE  Left(s) = {i \in Pieces : taken[s] < i /\ i < next[s]}
<1>1. /\ outstanding[s] \in Seq(Pieces) /\ taken[s] \in Nat
      /\ next[s] = taken[s] + Len(outstanding[s]) + 1
      /\ \A k \in 1 .. Len(outstanding[s]) : outstanding[s][k] = taken[s] + k
  BY DEF IInv, TypeOK, StreamInv, WindowTight
<1>2. /\ Len(outstanding[s]) \in Nat
      /\ DOMAIN outstanding[s] = 1 .. Len(outstanding[s])
      /\ \A k \in 1 .. Len(outstanding[s]) : outstanding[s][k] \in Pieces
  BY <1>1, LenProperties, ElementOfSeq
<1>3. ASSUME NEW i \in Left(s)
      PROVE  i \in Pieces /\ taken[s] < i /\ i < next[s]
  BY <1>1, <1>2 DEF Left
<1>4. ASSUME NEW i \in Pieces, taken[s] < i, i < next[s]
      PROVE  i \in Left(s)
  <2>1. i - taken[s] \in 1 .. Len(outstanding[s]) /\ taken[s] + (i - taken[s]) = i
    BY <1>1, <1>2, <1>4 DEF Pieces
  <2> QED BY <1>1, <1>2, <2>1 DEF Left
<1> QED BY <1>3, <1>4

LEMMA CancelOutstandingIInv ==
    ASSUME IInv, NEW s \in Streams, CancelOutstanding(s)
    PROVE  IInv'
<1>1. /\ TypeOK /\ StreamInv(s) /\ pc[s] = "unwind"
      /\ UNCHANGED <<backlog, outstanding, next, taken, yielded>>
  BY DEF IInv, CancelOutstanding
<1>2. CASE pc' = [pc EXCEPT ![s] = "join"] /\ UNCHANGED future
  <2>1. /\ pc' \in [Streams -> Points] /\ pc'[s] = "join"
        /\ \A t \in Streams \ {s} : pc'[t] = pc[t]
    BY <1>1, <1>2 DEF TypeOK, Points
  <2>2. Running' = Running /\ BacklogWaits' /\ IsFiniteSet(Running)'
    BY <1>1, <1>2 DEF IInv, Running, BacklogWaits, Waiting
  <2>3. TypeOK'
    BY <1>1, <1>2, <2>1, <2>2 DEF TypeOK
  <2>4. StreamInv(s)'
    BY <1>1, <1>2, <2>1 DEF StreamInv, WindowTight, FutureByPlace, TakenByPoint,
                            HandedOver, Pending, Alive, Over
  <2>5. \A t \in Streams : StreamInv(t)'
    BY <1>1, <1>2, <2>1, <2>4, OthersKept DEF IInv
  <2> QED BY <2>2, <2>3, <2>5 DEF IInv
<1>3. ASSUME NEW i \in Left(s), future[s][i] = "queued",
             future' = [future EXCEPT ![s][i] = "cancelled"], UNCHANGED pc
      PROVE  IInv'
  <2>1. i \in Pieces /\ taken[s] < i /\ i < next[s] /\ taken[s] \in Nat
    BY <1>1, <1>3, LeftIsStretch, ChannelAssumption DEF Alive, TypeOK
  <2>2. /\ future' \in [Streams -> [Pieces -> Futures]]
        /\ \A t \in Streams : \A j \in Pieces :
              future'[t][j] = IF t = s /\ j = i THEN "cancelled" ELSE future[t][j]
        /\ \A t \in Streams \ {s} : future'[t] = future[t]
    BY <1>1, <1>3, <2>1, OneFuture, "cancelled" \in Futures DEF Futures
  <2>3. Running' = Running
    BY <1>3, <2>1, <2>2 DEF Running
  <2>4. BacklogWaits'
    <3>1. backlog \in Seq(Streams \X Pieces) /\ backlog' = backlog
      BY <1>1 DEF TypeOK
    <3>2. ASSUME NEW k \in 1 .. Len(backlog) PROVE Waiting(backlog[k])'
      <4>1. backlog[k] \in Streams \X Pieces
        BY <3>1, ElementOfSeq
      <4>2. PICK t \in Streams, j \in Pieces : backlog[k] = <<t, j>>
        BY <4>1
      <4>3. backlog'[k][1] = t /\ backlog'[k][2] = j
        BY <3>1, <4>2
      <4>4. future[t][j] \in {"queued", "cancelled"}
        BY <4>2 DEF IInv, BacklogWaits, Waiting
      <4> QED BY <2>2, <4>3, <4>4 DEF Waiting
    <3> QED BY <3>1, <3>2 DEF IInv, BacklogWaits
  <2>5. IsFiniteSet(Running)' /\ TypeOK'
    BY <1>1, <1>3, <2>2, <2>3 DEF IInv, TypeOK
  <2>6. WindowTight(s)'
    BY <1>1, <1>3 DEF StreamInv, WindowTight, Alive
  <2>7. future'[s][taken[s]] = future[s][taken[s]] \/ taken[s] = 0
    <3>1. taken[s] \in 0 .. Tasks /\ taken[s] # i
      BY <1>1, <2>1 DEF TypeOK
    <3>2. taken[s] \in Pieces \/ taken[s] = 0
      BY <3>1, ChannelAssumption DEF Pieces
    <3> QED BY <2>2, <3>1, <3>2
  <2>8. TakenByPoint(s)' /\ HandedOver(s)'
    BY <1>1, <1>3, <2>7 DEF StreamInv, TakenByPoint, HandedOver, Pending
  <2>9. FutureByPlace(s)'
    <3>1. FutureByPlace(s) /\ ~Over(s)' /\ pc'[s] = "unwind"
      BY <1>1, <1>3 DEF StreamInv, Over
    <3>2. ASSUME NEW j \in Pieces
          PROVE  /\ j < taken[s] => future'[s][j] = "done"
                 /\ j = taken[s] => future'[s][j] \in {"done", "failed"}
                 /\ j >= next[s] => future'[s][j] = "none"
                 /\ future'[s][j] = "cancelled" => taken[s] < j
      <4>1. CASE j = i
        BY <1>1, <2>1, <4>1 DEF TypeOK, Pieces
      <4>2. CASE j # i
        BY <2>2, <3>1, <4>2 DEF FutureByPlace
      <4> QED BY <4>1, <4>2
    <3> QED BY <1>1, <3>1, <3>2 DEF FutureByPlace
  <2>10. \A t \in Streams : StreamInv(t)'
    <3>1. StreamInv(s)'
      BY <2>6, <2>8, <2>9 DEF StreamInv
    <3> QED BY <1>1, <1>3, <2>2, <3>1, OthersKept DEF IInv
  <2> QED BY <2>4, <2>5, <2>10 DEF IInv
<1> QED BY <1>2, <1>3 DEF CancelOutstanding, Goto

LEMMA JoinOutstandingIInv ==
    ASSUME IInv, NEW s \in Streams, JoinOutstanding(s)
    PROVE  IInv'
<1>1. /\ TypeOK /\ StreamInv(s) /\ pc[s] = "join" /\ Alive(s)
      /\ UNCHANGED <<future, backlog, next, taken, yielded>>
  BY DEF IInv, JoinOutstanding, Alive
<1>2. /\ taken[s] \in Pieces /\ future[s][taken[s]] \in {"done", "failed"}
  <2>1. taken[s] \in Pieces
    BY <1>1, ChannelAssumption DEF TypeOK, StreamInv, TakenByPoint, Pieces
  <2> QED BY <1>1, <2>1 DEF StreamInv, FutureByPlace
<1>3. /\ pc' \in [Streams -> Points]
      /\ pc'[s] = IF future[s][taken[s]] = "failed" THEN "raised" ELSE "closed"
      /\ \A t \in Streams \ {s} : pc'[t] = pc[t]
  BY <1>1 DEF TypeOK, JoinOutstanding, HowItDied, Goto, Points
<1>4. /\ outstanding' \in [Streams -> Seq(Pieces)]
      /\ \A t \in Streams \ {s} : outstanding'[t] = outstanding[t]
  BY <1>1, EmptySeq DEF TypeOK, JoinOutstanding
<1>5. Running' = Running /\ BacklogWaits' /\ IsFiniteSet(Running)'
  BY <1>1 DEF IInv, Running, BacklogWaits, Waiting
<1>6. TypeOK'
  BY <1>1, <1>3, <1>4, <1>5 DEF TypeOK
<1>7. WindowTight(s)'
  BY <1>3 DEF WindowTight, Alive
<1>8. TakenByPoint(s)' /\ HandedOver(s)'
  BY <1>1, <1>2, <1>3 DEF StreamInv, TakenByPoint, HandedOver, Pending
<1>9. FutureByPlace(s)'
  <2>1. ASSUME NEW i \in Pieces PROVE future[s][i] \notin {"queued", "running"}
    <3>1. CASE i <= taken[s] \/ i >= next[s]
      <4>1. i < taken[s] \/ i = taken[s] \/ i >= next[s]
        BY <1>1, <1>2, <3>1 DEF TypeOK, Pieces
      <4> QED BY <1>1, <4>1 DEF StreamInv, FutureByPlace
    <3>2. CASE taken[s] < i /\ i < next[s]
      BY <1>1, <3>2, LeftIsStretch DEF JoinOutstanding
    <3> QED BY <1>1, <1>2, <3>1, <3>2 DEF TypeOK, Pieces
  <2> QED BY <1>1, <1>3, <2>1 DEF StreamInv, FutureByPlace
<1>10. \A t \in Streams : StreamInv(t)'
  <2>1. StreamInv(s)'
    BY <1>7, <1>8, <1>9 DEF StreamInv
  <2> QED BY <1>1, <1>3, <1>4, <2>1, OthersKept DEF IInv
<1> QED BY <1>5, <1>6, <1>10 DEF IInv

\* A future that goes on in the pool, from one state of the pool's to another,
\* changes nothing of what is known of its stream.
LEMMA PoolKeepsStreams ==
    ASSUME IInv, NEW s \in Streams, NEW i \in Pieces, NEW c \in Futures,
           \/ future[s][i] = "queued" /\ c = "running"
           \/ future[s][i] = "running" /\ c \in {"done", "failed"},
           future' = [future EXCEPT ![s][i] = c],
           UNCHANGED <<outstanding, next, pc, taken, yielded>>
    PROVE  \A t \in Streams : StreamInv(t)'
<1>1. TypeOK /\ StreamInv(s) /\ taken[s] \in 0 .. Tasks /\ next[s] \in 1 .. Tasks + 1
  BY DEF IInv, TypeOK
<1>2. /\ \A j \in Pieces : future'[s][j] = IF j = i THEN c ELSE future[s][j]
      /\ \A t \in Streams \ {s} : future'[t] = future[t]
  BY <1>1, OneFuture
<1>3. taken[s] < i /\ i < next[s] /\ ~Over(s)
  BY <1>1, ChannelAssumption DEF StreamInv, FutureByPlace, Pieces
<1>4. taken[s] = 0 \/ future'[s][taken[s]] = future[s][taken[s]]
  <2>1. taken[s] = 0 \/ (taken[s] \in Pieces /\ taken[s] # i)
    BY <1>1, <1>3, ChannelAssumption DEF Pieces
  <2> QED BY <1>2, <2>1
<1>5. WindowTight(s)' /\ TakenByPoint(s)' /\ HandedOver(s)'
  BY <1>1, <1>4
     DEF StreamInv, WindowTight, Alive, TakenByPoint, HandedOver, Pending
<1>6. FutureByPlace(s)'
  <2>1. ~Over(s)' /\ taken'[s] < next'[s]
    BY <1>1, <1>3 DEF Over, StreamInv, FutureByPlace
  <2>2. ASSUME NEW j \in Pieces
        PROVE  /\ j < taken[s] => future'[s][j] = "done"
               /\ j = taken[s] => future'[s][j] \in {"done", "failed"}
               /\ j >= next[s] => future'[s][j] = "none"
               /\ future'[s][j] = "cancelled" =>
                     taken[s] < j /\ pc[s] \in {"unwind", "join", "raised", "closed"}
    <3>1. CASE j = i
      BY <1>1, <1>2, <1>3, <3>1 DEF Pieces
    <3>2. CASE j # i
      BY <1>1, <1>2, <3>2 DEF StreamInv, FutureByPlace
    <3> QED BY <3>1, <3>2
  <2> QED BY <2>1, <2>2 DEF FutureByPlace
<1>7. StreamInv(s)'
  BY <1>5, <1>6 DEF StreamInv
<1> QED BY <1>2, <1>7, OthersKept DEF IInv

LEMMA StartPieceIInv ==
    ASSUME IInv, StartPiece
    PROVE  IInv'
<1>1. /\ TypeOK /\ backlog # <<>> /\ backlog \in Seq(Streams \X Pieces)
      /\ UNCHANGED <<outstanding, next, pc, taken, yielded>>
  BY DEF IInv, StartPiece, TypeOK
<1>2. /\ Len(backlog) \in Nat \ {0}
      /\ Head(backlog) = backlog[1] /\ backlog[1] \in Streams \X Pieces
      /\ backlog' \in Seq(Streams \X Pieces)
      /\ Len(backlog') = Len(backlog) - 1
      /\ \A k \in 1 .. Len(backlog) - 1 : backlog'[k] = backlog[k + 1]
  BY <1>1, HeadTailProperties, LenProperties, EmptySeq, ElementOfSeq DEF StartPiece
<1>3. PICK s \in Streams, i \in Pieces : backlog[1] = <<s, i>>
  BY <1>2
<1>4. future[s][i] \in {"queued", "cancelled"}
  BY <1>2, <1>3 DEF IInv, BacklogWaits, Waiting
<1>5. ASSUME NEW k \in 1 .. Len(backlog')
      PROVE  /\ backlog'[k] \in Streams \X Pieces /\ backlog'[k] # <<s, i>>
             /\ Waiting(backlog'[k])
  <2>1. k + 1 \in 1 .. Len(backlog) /\ k + 1 # 1 /\ 1 \in 1 .. Len(backlog)
    BY <1>2
  <2>2. backlog'[k] = backlog[k + 1] /\ backlog[k + 1] \in Streams \X Pieces
    BY <1>1, <1>2, <2>1, ElementOfSeq
  <2> QED BY <1>3, <2>1, <2>2 DEF IInv, BacklogWaits
<1>6. \A j, k \in 1 .. Len(backlog') : backlog'[j] = backlog'[k] => j = k
  <2> SUFFICES ASSUME NEW j \in 1 .. Len(backlog'), NEW k \in 1 .. Len(backlog'),
                      backlog'[j] = backlog'[k]
               PROVE  j = k
    OBVIOUS
  <2>1. j + 1 \in 1 .. Len(backlog) /\ k + 1 \in 1 .. Len(backlog)
    BY <1>2
  <2>2. backlog[j + 1] = backlog[k + 1]
    BY <1>2
  <2>3. j + 1 = k + 1
    BY <2>1, <2>2 DEF IInv, BacklogWaits
  <2> QED BY <1>2, <2>3
<1>7. CASE future[s][i] = "cancelled"
  <2>1. UNCHANGED future
    BY <1>2, <1>3, <1>7 DEF StartPiece
  <2>2. Running' = Running /\ IsFiniteSet(Running)'
    BY <2>1 DEF IInv, Running
  <2>3. TypeOK'
    BY <1>1, <1>2, <2>1, <2>2 DEF TypeOK
  <2>4. BacklogWaits'
    BY <1>5, <1>6, <2>1 DEF BacklogWaits, Waiting
  <2>5. \A t \in Streams : StreamInv(t)'
    BY <1>1, <2>1 DEF IInv, StreamInv, WindowTight, FutureByPlace, TakenByPoint,
                      HandedOver, Pending, Alive, Over
  <2> QED BY <2>2, <2>3, <2>4, <2>5 DEF IInv
<1>8. CASE future[s][i] = "queued"
  <2>1. future' = [future EXCEPT ![s][i] = "running"]
    BY <1>2, <1>3, <1>8 DEF StartPiece
  <2>2. "running" \in Futures
    BY DEF Futures
  <2>3. /\ future' \in [Streams -> [Pieces -> Futures]]
        /\ \A t \in Streams : \A j \in Pieces :
              future'[t][j] = IF t = s /\ j = i THEN "running" ELSE future[t][j]
    BY <1>1, <2>1, <2>2, OneFuture
  <2>4. Running' = Running \cup {<<s, i>>} /\ <<s, i>> \notin Running
    BY <1>8, <2>3 DEF Running
  <2>5. IsFiniteSet(Running') /\ Cardinality(Running') <= PoolWorkers
    <3>1. IsFiniteSet(Running) /\ Cardinality(Running) < PoolWorkers
      BY DEF IInv, StartPiece
    <3>2. /\ IsFiniteSet(Running \cup {<<s, i>>})
          /\ Cardinality(Running \cup {<<s, i>>}) = Cardinality(Running) + 1
      BY <2>4, <3>1, FS_AddElement
    <3> QED BY <2>4, <3>1, <3>2, FS_CardinalityType, ChannelAssumption
  <2>6. TypeOK'
    BY <1>1, <1>2, <2>3, <2>5 DEF TypeOK
  <2>7. BacklogWaits'
    <3>1. ASSUME NEW k \in 1 .. Len(backlog') PROVE Waiting(backlog[k])'
      <4>1. PICK t \in Streams, j \in Pieces : backlog'[k] = <<t, j>>
        BY <1>5
      <4>2. future[t][j] \in {"queued", "cancelled"} /\ ~(t = s /\ j = i)
        BY <1>5, <4>1 DEF Waiting
      <4> QED BY <2>3, <4>1, <4>2 DEF Waiting
    <3> QED BY <1>6, <3>1 DEF BacklogWaits
  <2>8. \A t \in Streams : StreamInv(t)'
    BY <1>1, <1>8, <2>1, <2>2, PoolKeepsStreams
  <2> QED BY <2>5, <2>6, <2>7, <2>8 DEF IInv
<1> QED BY <1>4, <1>7, <1>8

LEMMA EndPieceIInv ==
    ASSUME IInv, EndPiece
    PROVE  IInv'
<1>1. TypeOK /\ UNCHANGED <<backlog, outstanding, next, pc, taken, yielded>>
  BY DEF IInv, EndPiece
<1>2. PICK p \in Running, end \in {"done", "failed"} :
         future' = [future EXCEPT ![p[1]][p[2]] = end]
  BY DEF EndPiece
<1>3. PICK s \in Streams, i \in Pieces : p = <<s, i>> /\ future[s][i] = "running"
  BY DEF Running
<1>4. future' = [future EXCEPT ![s][i] = end] /\ end \in Futures
  BY <1>2, <1>3 DEF Futures
<1>5. /\ future' \in [Streams -> [Pieces -> Futures]]
      /\ \A t \in Streams : \A j \in Pieces :
            future'[t][j] = IF t = s /\ j = i THEN end ELSE future[t][j]
  BY <1>1, <1>4, OneFuture
<1>6. IsFiniteSet(Running)' /\ Cardinality(Running)' <= PoolWorkers
  <2>1. Running' \subseteq Running
    BY <1>5 DEF Running
  <2> QED BY <1>1, <2>1, NothingStarted DEF IInv
<1>7. TypeOK'
  BY <1>1, <1>5, <1>6 DEF TypeOK
<1>8. BacklogWaits'
  <2>1. ASSUME NEW k \in 1 .. Len(backlog) PROVE Waiting(backlog[k])'
    <3>1. backlog[k] \in Streams \X Pieces
      BY <1>1, ElementOfSeq DEF TypeOK
    <3>2. PICK t \in Streams, j \in Pieces : backlog[k] = <<t, j>>
      BY <3>1
    <3>3. backlog'[k] = <<t, j>>
      BY <1>1, <3>2
    <3>4. future[t][j] \in {"queued", "cancelled"} /\ ~(t = s /\ j = i)
      BY <1>3, <3>2 DEF IInv, BacklogWaits, Waiting
    <3> QED BY <1>5, <3>3, <3>4 DEF Waiting
  <2> QED BY <1>1, <2>1 DEF IInv, BacklogWaits
<1>9. \A t \in Streams : StreamInv(t)'
  BY <1>1, <1>3, <1>4, PoolKeepsStreams
<1> QED BY <1>6, <1>7, <1>8, <1>9 DEF IInv

LEMMA NextIInv == IInv /\ [Next]_vars => IInv'
<1> SUFFICES ASSUME IInv, [Next]_vars PROVE IInv'
  OBVIOUS
<1>1. ASSUME NEW s \in Streams, Stream(s) PROVE IInv'
  BY <1>1, PrimeIInv, TakeFailedIInv, TakeDoneIInv, YieldIInv, FinishIInv,
     CancelOutstandingIInv, JoinOutstandingIInv DEF Stream
<1>2. CASE UNCHANGED vars
  BY <1>2 DEF vars, IInv, TypeOK, Running, BacklogWaits, Waiting, StreamInv,
              WindowTight, FutureByPlace, TakenByPoint, HandedOver, Pending,
              Alive, Over
<1> QED BY <1>1, <1>2, StartPieceIInv, EndPieceIInv DEF Next, Rest

-----------------------------------------------------------------------------
(* The theorems. *)

LEMMA Invariance == Spec => []IInv
BY InitIInv, NextIInv, PTL DEF Spec

\* Every variable keeps its type and the pool never runs more pieces than it has
\* workers, for any number of streams.
THEOREM TypeCorrect == Spec => []TypeOK
<1>1. IInv => TypeOK
  BY DEF IInv
<1> QED BY <1>1, Invariance, PTL

\* What has been fetched and not consumed is never more than the window and the
\* piece in hand ("never a function of task count", orchestrator/fanout.py).
LEMMA AheadInWindow ==
    ASSUME IInv, NEW s \in Streams, pc[s] \in {"prime", "drain", "yield"}
    PROVE  Cardinality(Ahead(s)) <= Window + 1
<1> DEFINE stretch == taken[s] .. (taken[s] + Window)
<1>1. /\ taken[s] \in Nat /\ Window \in Nat /\ StreamInv(s)
      /\ yielded[s] \in Seq(Pieces) /\ Len(outstanding[s]) \in Nat
  BY ChannelAssumption, LenProperties DEF IInv, TypeOK
<1>2. next[s] <= taken[s] + Window + 1
  BY <1>1 DEF StreamInv, WindowTight, Alive
<1>3. \A k \in 1 .. taken[s] - 1 : k \in DOMAIN yielded[s] /\ yielded[s][k] = k
  <2>1. /\ Len(yielded[s]) >= taken[s] - 1 /\ Len(yielded[s]) \in Nat
        /\ \A k \in 1 .. Len(yielded[s]) : yielded[s][k] = k
        /\ DOMAIN yielded[s] = 1 .. Len(yielded[s])
    BY <1>1, LenProperties DEF StreamInv, HandedOver, Pending
  <2> QED BY <1>1, <2>1
<1>4. Ahead(s) \subseteq stretch
  <2> SUFFICES ASSUME NEW i \in Ahead(s) PROVE i \in stretch
    OBVIOUS
  <2>1. /\ i \in Pieces /\ i \in Nat \ {0} /\ future[s][i] = "done"
        /\ \A k \in DOMAIN yielded[s] : yielded[s][k] # i
    BY DEF Ahead, Pieces
  <2>2. ~(i <= taken[s] - 1)
    BY <1>1, <1>3, <2>1
  <2>3. ~(i >= next[s])
    BY <1>1, <2>1 DEF StreamInv, FutureByPlace
  <2>4. next[s] \in Nat
    BY DEF IInv, TypeOK
  <2> QED BY <1>1, <1>2, <2>1, <2>2, <2>3, <2>4
<1>5. IsFiniteSet(stretch) /\ Cardinality(stretch) = Window + 1
  <2>1. taken[s] \in Int /\ taken[s] + Window \in Int
        /\ ~(taken[s] > taken[s] + Window)
        /\ (taken[s] + Window) - taken[s] + 1 = Window + 1
    BY <1>1
  <2> QED BY <2>1, FS_Interval
<1>6. Cardinality(Ahead(s)) <= Cardinality(stretch)
  BY <1>4, <1>5, FS_Subset
<1> QED BY <1>5, <1>6

THEOREM BackpressureHolds == Spec => []BoundedAhead
<1>1. IInv => BoundedAhead
  BY AheadInWindow DEF IInv, BoundedAhead
<1> QED BY <1>1, Invariance, PTL

\* A stream that has ended left nothing behind in the pool: no request of its
\* outlives it (_discard_outstanding joins what it cannot cancel).
THEOREM NothingLeftBehind == Spec => []NoStraggler
<1>1. IInv => NoStraggler
  BY DEF IInv, NoStraggler, StreamInv, FutureByPlace
<1> QED BY <1>1, Invariance, PTL

-----------------------------------------------------------------------------
(* The channel implements the serial loop. *)

Ending(s) == IF Over(s) THEN pc[s] ELSE "on"

Culprit(s) == IF pc[s] = "raised" THEN taken[s] ELSE 0

\* A step that hands nothing over and ends no stream is one the loop does not see.
LEMMA LoopStutters ==
    ASSUME UNCHANGED yielded,
           \A s \in Streams : Ending(s)' = Ending(s) /\ Culprit(s)' = Culprit(s)
    PROVE  UNCHANGED Serial!vars
BY DEF Serial!vars, Ending, Culprit

\* A stream on its way, in the loop's words.
LEMMA OnItsWay ==
    ASSUME IInv, NEW s \in Streams, ~Over(s)
    PROVE  /\ Ending(s) = "on" /\ Culprit(s) = 0
           /\ pc \in [Streams -> Points]
           /\ taken[s] \in 0 .. Tasks
           /\ Len(yielded[s]) = IF Pending(s) THEN taken[s] - 1 ELSE taken[s]
           /\ taken[s] > 0 /\ ~Pending(s) => yielded[s] # <<>>
<1>1. StreamInv(s) /\ TypeOK /\ Tasks \in Nat
  BY ChannelAssumption DEF IInv
<1>2. Len(yielded[s]) > 0 => yielded[s] # <<>>
  BY <1>1, EmptySeq DEF TypeOK
<1> QED BY <1>1, <1>2 DEF TypeOK, Ending, Culprit, Over, StreamInv, HandedOver

\* How the ending of one stream reads in the loop's variables.
LEMMA StreamEnds ==
    ASSUME IInv, NEW s \in Streams, ~Over(s),
           NEW end \in {"finished", "raised", "closed"},
           pc' = [pc EXCEPT ![s] = end], UNCHANGED taken
    PROVE  /\ [t \in Streams |-> Ending(t)]'
                 = [[t \in Streams |-> Ending(t)] EXCEPT ![s] = end]
           /\ [t \in Streams |-> Culprit(t)]'
                 = IF end = "raised"
                   THEN [[t \in Streams |-> Culprit(t)] EXCEPT ![s] = taken[s]]
                   ELSE [t \in Streams |-> Culprit(t)]
<1>1. /\ pc'[s] = end /\ \A t \in Streams \ {s} : pc'[t] = pc[t]
      /\ Culprit(s) = 0
  BY OnItsWay
<1>2. /\ Ending(s)' = end
      /\ Culprit(s)' = IF end = "raised" THEN taken[s] ELSE 0
      /\ \A t \in Streams \ {s} : Ending(t)' = Ending(t) /\ Culprit(t)' = Culprit(t)
  BY <1>1 DEF Ending, Culprit, Over
<1> QED BY <1>1, <1>2

LEMMA StepImplementsLoop ==
    ASSUME IInv, [Next]_vars
    PROVE  [Serial!Next]_(Serial!vars)
<1>1. ASSUME NEW s \in Streams, Prime(s) \/ TakeOldest(s) \/ CancelOutstanding(s)
      PROVE  UNCHANGED Serial!vars
  <2>1. /\ ~Over(s) /\ UNCHANGED yielded /\ Ending(s) = "on" /\ Culprit(s) = 0
        /\ pc \in [Streams -> Points]
    BY <1>1, OnItsWay DEF Prime, TakeOldest, CancelOutstanding, Over
  <2>2. /\ pc'[s] \in {"prime", "drain", "yield", "unwind", "join"}
        /\ \A t \in Streams \ {s} : pc'[t] = pc[t]
        /\ \A t \in Streams \ {s} : taken'[t] = taken[t]
    <3>1. CASE Prime(s)
      BY <3>1, <2>1 DEF Prime, Goto
    <3>2. CASE TakeOldest(s)
      <4>1. /\ pc' = [pc EXCEPT ![s] = "unwind"] \/ pc' = [pc EXCEPT ![s] = "yield"]
            /\ taken' = [taken EXCEPT ![s] = Head(outstanding[s])]
        BY <3>2 DEF TakeOldest, Goto
      <4> QED BY <2>1, <4>1
    <3>3. CASE CancelOutstanding(s)
      BY <3>3, <2>1 DEF CancelOutstanding, Goto
    <3> QED BY <1>1, <3>1, <3>2, <3>3
  <2>3. \A t \in Streams : Ending(t)' = Ending(t) /\ Culprit(t)' = Culprit(t)
    BY <2>1, <2>2 DEF Ending, Culprit, Over
  <2> QED BY <2>1, <2>3, LoopStutters
<1>2. ASSUME NEW s \in Streams, Yield(s)
      PROVE  Serial!Next
  <2>1. /\ ~Over(s) /\ Pending(s) /\ taken[s] \in 1 .. Tasks
        /\ Len(yielded[s]) = taken[s] - 1 /\ Ending(s) = "on" /\ Culprit(s) = 0
        /\ pc \in [Streams -> Points]
    <3>1. ~Over(s) /\ Pending(s) /\ taken[s] # 0
      BY <1>2 DEF Yield, Over, Pending, IInv, StreamInv, TakenByPoint
    <3> QED BY <3>1, OnItsWay, ChannelAssumption
  <2>2. /\ yielded' = [yielded EXCEPT ![s] = Append(@, Len(yielded[s]) + 1)]
        /\ UNCHANGED taken
    <3>1. taken[s] = Len(yielded[s]) + 1
      BY <2>1
    <3> QED BY <1>2, <3>1 DEF Yield
  <2>3. /\ pc'[s] \in {"drain", "unwind"}
        /\ \A t \in Streams \ {s} : pc'[t] = pc[t]
    BY <1>2, <2>1 DEF Yield, Goto
  <2>4. \A t \in Streams : Ending(t)' = Ending(t) /\ Culprit(t)' = Culprit(t)
    BY <2>1, <2>2, <2>3 DEF Ending, Culprit, Over
  <2>5. Serial!Hand(s)
    BY <2>1, <2>2, <2>4 DEF Serial!Hand, Serial!NextPiece, Ending, Culprit
  <2> QED BY <2>5 DEF Serial!Next
<1>3. ASSUME NEW s \in Streams, Finish(s)
      PROVE  Serial!Next
  <2>1. ~Over(s) /\ pc' = [pc EXCEPT ![s] = "finished"] /\ UNCHANGED <<taken, yielded>>
    BY <1>3 DEF Finish, Over, Goto
  <2>2. IInv' /\ pc'[s] = "finished"
    BY <1>3, <2>1, FinishIInv DEF IInv, TypeOK
  <2>3. Len(yielded[s]) = Tasks
    <3>1. taken'[s] = Tasks /\ ~Pending(s)' /\ StreamInv(s)'
      BY <2>2, ChannelAssumption DEF IInv, StreamInv, TakenByPoint, Pending
    <3> QED BY <2>1, <3>1 DEF StreamInv, HandedOver
  <2>4. Serial!Return(s)
    BY <2>1, <2>3, StreamEnds, OnItsWay DEF Serial!Return, Ending, Culprit
  <2> QED BY <2>4 DEF Serial!Next
<1>4. ASSUME NEW s \in Streams, JoinOutstanding(s)
      PROVE  Serial!Next
  <2>1. /\ ~Over(s) /\ UNCHANGED <<future, taken, yielded>>
        /\ pc' = [pc EXCEPT ![s] = HowItDied(s)]
    BY <1>4 DEF JoinOutstanding, Over, Goto
  <2>2. /\ taken[s] \in 1 .. Tasks /\ Ending(s) = "on"
        /\ Len(yielded[s]) = IF Pending(s) THEN taken[s] - 1 ELSE taken[s]
        /\ ~Pending(s) => yielded[s] # <<>>
    <3>1. taken[s] # 0
      BY <1>4 DEF JoinOutstanding, IInv, StreamInv, TakenByPoint
    <3> QED BY <2>1, <3>1, OnItsWay, ChannelAssumption
  <2>3. CASE future[s][taken[s]] = "failed"
    <3>1. HowItDied(s) = "raised" /\ Len(yielded[s]) + 1 = taken[s]
      BY <2>2, <2>3 DEF HowItDied, Pending
    <3>2. Serial!Fail(s)
      <4>1. /\ [t \in Streams |-> Ending(t)]'
                  = [[t \in Streams |-> Ending(t)] EXCEPT ![s] = "raised"]
            /\ [t \in Streams |-> Culprit(t)]'
                  = [[t \in Streams |-> Culprit(t)] EXCEPT ![s] = taken[s]]
        BY <2>1, <3>1, StreamEnds
      <4>2. Serial!NextPiece(s) = taken[s] /\ taken[s] <= Tasks
        BY <2>2, <3>1 DEF Serial!NextPiece
      <4>3. UNCHANGED yielded /\ Ending(s) = "on"
        BY <2>1, <2>2
      <4> QED BY <4>1, <4>2, <4>3 DEF Serial!Fail, Ending, Culprit
    <3> QED BY <3>2 DEF Serial!Next
  <2>4. CASE future[s][taken[s]] # "failed"
    <3>1. HowItDied(s) = "closed" /\ yielded[s] # <<>>
      BY <1>4, <2>2, <2>4 DEF HowItDied, Pending, JoinOutstanding
    <3>2. Serial!Leave(s)
      BY <2>1, <2>2, <3>1, StreamEnds DEF Serial!Leave, Ending, Culprit
    <3> QED BY <3>2 DEF Serial!Next
  <2> QED BY <2>3, <2>4
<1>5. CASE StartPiece \/ EndPiece \/ Rest \/ UNCHANGED vars
  BY <1>5, LoopStutters DEF StartPiece, EndPiece, Rest, vars, Ending, Culprit, Over
<1> QED BY <1>1, <1>2, <1>3, <1>4, <1>5 DEF Next, Stream

\* The channel implements the plain loop: whatever completes first in the pool
\* and however streams share it, a consumer sees task order, no piece after a
\* failed one, and that piece's failure (orchestrator/fanout.py).
THEOREM LoopImplemented == Spec => ImplementsSerialLoop
<1>1. Init => Serial!Init
  BY DEF Init, Serial!Init, Over
<1>2. IInv /\ [Next]_vars => [Serial!Next]_(Serial!vars)
  BY StepImplementsLoop
<1> QED BY <1>1, <1>2, Invariance, PTL DEF Spec, ImplementsSerialLoop, Serial!Spec
=============================================================================
