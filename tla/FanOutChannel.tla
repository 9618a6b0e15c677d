--------------------------- MODULE FanOutChannel ---------------------------
(***************************************************************************)
(* The bounded fan-out channel (orchestrator/fanout.py): each stream, the  *)
(* fan-out of one endpoint, submits its pieces to the provider's one fetch *)
(* pool (orchestrator/executors.py) through a window of its own and drains *)
(* them in submission order; a failed piece, or a consumer that goes away, *)
(* unwinds the window.                                                     *)
(*                                                                         *)
(* Pieces are numbered in task order.  A piece's items are what the        *)
(* consumer is handed between two turns of the drain, as one.              *)
(***************************************************************************)
EXTENDS Integers, Sequences, FiniteSets

CONSTANTS
    Streams,       \* the concurrent fan-outs over one pool
    Tasks,         \* the pieces of each stream
    PoolWorkers,   \* ThreadPoolExecutor(max_workers)
    Window         \* FetchPool.submission_window

ASSUME ChannelAssumption ==
    /\ Tasks \in Nat
    /\ PoolWorkers \in Nat \ {0}
    /\ Window \in Nat \ {0}   \* __post_init__ refuses less than one

Pieces == 1 .. Tasks

VARIABLES
    future,      \* per stream and piece, the state of its future
    backlog,     \* the executor's queue: the pieces no worker has taken, in order
    outstanding, \* per stream, the window: pieces not yet taken, oldest first
    next,        \* per stream, the next task of the iterator
    pc,          \* per stream: "prime", "drain", "yield", "unwind", "join",
                 \* "finished", "raised", "closed"
    taken,       \* per stream, the piece taken last
    yielded      \* per stream, the pieces whose items the consumer has had

vars == <<future, backlog, outstanding, next, pc, taken, yielded>>

Init ==
    /\ future = [s \in Streams |-> [i \in Pieces |-> "none"]]
    /\ backlog = <<>>
    /\ outstanding = [s \in Streams |-> <<>>]
    /\ next = [s \in Streams |-> 1]
    /\ pc = [s \in Streams |-> "prime"]
    /\ taken = [s \in Streams |-> 0]
    /\ yielded = [s \in Streams |-> <<>>]

Goto(s, point) == pc' = [pc EXCEPT ![s] = point]

-----------------------------------------------------------------------------
(* The stream, on the consumer's thread. *)

\* executor.submit of the next task, joining a window.
Submit(s, window) ==
    /\ future' = [future EXCEPT ![s][next[s]] = "queued"]
    /\ backlog' = Append(backlog, <<s, next[s]>>)
    /\ outstanding' = [outstanding EXCEPT ![s] = Append(window, next[s])]
    /\ next' = [next EXCEPT ![s] = @ + 1]

\* Faulty variant: every task is submitted up front.
PrimeAll(s) ==
    /\ pc[s] = "prime"
    /\ IF next[s] \in Pieces
       THEN Submit(s, outstanding[s]) /\ UNCHANGED pc
       ELSE Goto(s, "drain") /\ UNCHANGED <<future, backlog, outstanding, next>>
    /\ UNCHANGED <<taken, yielded>>

\* The window is primed with the first tasks, then drained.
Prime(s) ==
    /\ pc[s] = "prime"
    /\ IF next[s] \in Pieces /\ Len(outstanding[s]) < Window
       THEN Submit(s, outstanding[s]) /\ UNCHANGED pc
       ELSE Goto(s, "drain") /\ UNCHANGED <<future, backlog, outstanding, next>>
    /\ UNCHANGED <<taken, yielded>>

\* Faulty variant: whichever piece is ready is taken.
TakeAnyReady(s) ==
    /\ pc[s] = "drain"
    /\ \E k \in 1 .. Len(outstanding[s]) :
          LET piece == outstanding[s][k]
              rest == SubSeq(outstanding[s], 1, k - 1)
                          \o SubSeq(outstanding[s], k + 1, Len(outstanding[s]))
          IN  /\ future[s][piece] \in {"done", "failed"}
              /\ taken' = [taken EXCEPT ![s] = piece]
              /\ IF future[s][piece] = "failed"
                 THEN /\ outstanding' = [outstanding EXCEPT ![s] = rest]
                      /\ Goto(s, "unwind")
                      /\ UNCHANGED <<future, backlog, next>>
                 ELSE /\ Goto(s, "yield")
                      /\ IF next[s] \in Pieces THEN Submit(s, rest)
                         ELSE /\ outstanding' = [outstanding EXCEPT ![s] = rest]
                              /\ UNCHANGED <<future, backlog, next>>
    /\ UNCHANGED yielded

\* The oldest outstanding piece is waited for and taken; its exception starts
\* the unwinding, its result is preceded by the submission of the next task.
TakeOldest(s) ==
    /\ pc[s] = "drain" /\ outstanding[s] # <<>>
    /\ LET piece == Head(outstanding[s])
           rest == Tail(outstanding[s])
       IN  /\ future[s][piece] \in {"done", "failed"}
           /\ taken' = [taken EXCEPT ![s] = piece]
           /\ IF future[s][piece] = "failed"
              THEN /\ outstanding' = [outstanding EXCEPT ![s] = rest]
                   /\ Goto(s, "unwind")
                   /\ UNCHANGED <<future, backlog, next>>
              ELSE /\ Goto(s, "yield")
                   /\ IF next[s] \in Pieces THEN Submit(s, rest)
                      ELSE /\ outstanding' = [outstanding EXCEPT ![s] = rest]
                           /\ UNCHANGED <<future, backlog, next>>
    /\ UNCHANGED yielded

\* The consumer works through the piece and asks for more; or it goes away,
\* closing the generator at the yield.
Yield(s) ==
    /\ pc[s] = "yield"
    /\ yielded' = [yielded EXCEPT ![s] = Append(@, taken[s])]
    /\ \/ Goto(s, "drain")
       \/ Goto(s, "unwind")
    /\ UNCHANGED <<future, backlog, outstanding, next, taken>>

\* The window drained and no task left, the generator returns.
Finish(s) ==
    /\ pc[s] = "drain" /\ outstanding[s] = <<>>
    /\ Goto(s, "finished")
    /\ UNCHANGED <<future, backlog, outstanding, next, taken, yielded>>

Left(s) == {outstanding[s][k] : k \in DOMAIN outstanding[s]}

\* _discard_outstanding: what has not started is cancelled, oldest first, while
\* workers go on starting pieces ...
CancelOutstanding(s) ==
    /\ pc[s] = "unwind"
    /\ LET queued == {i \in Left(s) : future[s][i] = "queued"}
       IN  IF queued = {}
           THEN Goto(s, "join") /\ UNCHANGED future
           ELSE /\ \E i \in queued :
                      /\ \A j \in queued : i <= j
                      /\ future' = [future EXCEPT ![s][i] = "cancelled"]
                /\ UNCHANGED pc
    /\ UNCHANGED <<backlog, outstanding, next, taken, yielded>>

HowItDied(s) == IF future[s][taken[s]] = "failed" THEN "raised" ELSE "closed"

\* Faulty variant: the in-flight pieces are not waited for.
LeaveBehind(s) ==
    /\ pc[s] = "join"
    /\ outstanding' = [outstanding EXCEPT ![s] = <<>>]
    /\ Goto(s, HowItDied(s))
    /\ UNCHANGED <<future, backlog, next, taken, yielded>>

\* Faulty variant: a cancelled piece is waited for as well.
JoinCancelled(s) ==
    /\ pc[s] = "join"
    /\ \A i \in Left(s) : future[s][i] \in {"done", "failed"}
    /\ outstanding' = [outstanding EXCEPT ![s] = <<>>]
    /\ Goto(s, HowItDied(s))
    /\ UNCHANGED <<future, backlog, next, taken, yielded>>

\* ... and what has is waited for and discarded, its failure only logged;
\* the first failure, or the close, continues outward.
JoinOutstanding(s) ==
    /\ pc[s] = "join"
    /\ \A i \in Left(s) : future[s][i] \in {"done", "failed", "cancelled"}
    /\ outstanding' = [outstanding EXCEPT ![s] = <<>>]
    /\ Goto(s, HowItDied(s))
    /\ UNCHANGED <<future, backlog, next, taken, yielded>>

-----------------------------------------------------------------------------
(* The pool. *)

Running == {p \in Streams \X Pieces : future[p[1]][p[2]] = "running"}

\* A free worker takes the oldest piece of the executor's queue, and starts it
\* unless it has been cancelled there.
StartPiece ==
    /\ backlog # <<>>
    /\ Cardinality(Running) < PoolWorkers
    /\ LET p == Head(backlog)
       IN  IF future[p[1]][p[2]] = "cancelled" THEN UNCHANGED future
           ELSE future' = [future EXCEPT ![p[1]][p[2]] = "running"]
    /\ backlog' = Tail(backlog)
    /\ UNCHANGED <<outstanding, next, pc, taken, yielded>>

\* A piece ends, with its items or with an exception.
EndPiece ==
    /\ \E p \in Running, end \in {"done", "failed"} :
          future' = [future EXCEPT ![p[1]][p[2]] = end]
    /\ UNCHANGED <<backlog, outstanding, next, pc, taken, yielded>>

-----------------------------------------------------------------------------
Over(s) == pc[s] \in {"finished", "raised", "closed"}

Stream(s) ==
    \/ Prime(s) \/ TakeOldest(s) \/ Yield(s) \/ Finish(s)
    \/ CancelOutstanding(s) \/ JoinOutstanding(s)

\* All streams over, the run goes on to its finalize or its failure.
Rest == (\A s \in Streams : Over(s)) /\ UNCHANGED vars

Next ==
    \/ \E s \in Streams : Stream(s)
    \/ StartPiece \/ EndPiece
    \/ Rest

\* Consumers and pool workers are scheduled, and every request returns.
Spec ==
    /\ Init /\ [][Next]_vars
    /\ \A s \in Streams : WF_vars(Stream(s))
    /\ WF_vars(StartPiece) /\ WF_vars(EndPiece)

-----------------------------------------------------------------------------
(* Properties. *)

Futures == {"none", "queued", "running", "done", "failed", "cancelled"}

Points == {"prime", "drain", "yield", "unwind", "join", "finished", "raised",
           "closed"}

\* The shape of every variable, and the pool's ceiling.
TypeOK ==
    /\ future \in [Streams -> [Pieces -> Futures]]
    /\ backlog \in Seq(Streams \X Pieces)
    /\ outstanding \in [Streams -> Seq(Pieces)]
    /\ next \in [Streams -> 1 .. Tasks + 1]
    /\ pc \in [Streams -> Points]
    /\ taken \in [Streams -> 0 .. Tasks]
    /\ yielded \in [Streams -> Seq(Pieces)]
    /\ Cardinality(Running) <= PoolWorkers

Ahead(s) ==
    {i \in Pieces : /\ future[s][i] = "done"
                    /\ \A k \in DOMAIN yielded[s] : yielded[s][k] # i}

\* "The fetched-but-unconsumed count never exceeds submission_window + 1", a
\* live stream's discarded pieces apart.
BoundedAhead ==
    /\ TypeOK
    /\ \A s \in Streams : pc[s] \in {"prime", "drain", "yield"} =>
          Cardinality(Ahead(s)) <= Window + 1

\* When a stream has ended, none of its pieces is queued or running: no request
\* outlives the run that asked for it.
NoStraggler ==
    \A s \in Streams : Over(s) =>
        \A i \in Pieces : future[s][i] \notin {"queued", "running"}

\* What the consumer sees is a plain loop over the pieces, however they complete
\* and whatever the other stream does to the pool: every piece in task order, no
\* piece after a failed one, and the failure that ends the stream that of the
\* first piece not handed over ("items yield in exactly the order a serial loop
\* would produce them", orchestrator/fanout.py:122).
Serial == INSTANCE SerialLoop WITH
    handed  <- yielded,
    ending  <- [s \in Streams |-> IF Over(s) THEN pc[s] ELSE "on"],
    culprit <- [s \in Streams |-> IF pc[s] = "raised" THEN taken[s] ELSE 0]

ImplementsSerialLoop == Serial!Spec

\* Every stream ends, whatever fails, although the streams share one pool that
\* may be smaller than a window.
EveryStreamEnds == \A s \in Streams : <>Over(s)
=============================================================================
