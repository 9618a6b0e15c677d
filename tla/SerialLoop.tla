----------------------------- MODULE SerialLoop -----------------------------
(***************************************************************************)
(* What a fan-out promises its consumer (orchestrator/fanout.py): the      *)
(* plain loop over the pieces it stands in for.  Each piece is fetched and *)
(* handed over before the next is looked at; the first that fails ends the *)
(* loop; the consumer may leave between two pieces.  No pool, no window,   *)
(* no other stream.                                                        *)
(***************************************************************************)
EXTENDS Integers, Sequences

CONSTANTS Streams, Tasks

VARIABLES
    handed,   \* per stream, the pieces the consumer has had
    ending,   \* per stream, how it ended, or "on"
    culprit   \* per stream, the piece whose failure ended it, or 0

vars == <<handed, ending, culprit>>

Init ==
    /\ handed = [s \in Streams |-> <<>>]
    /\ ending = [s \in Streams |-> "on"]
    /\ culprit = [s \in Streams |-> 0]

NextPiece(s) == Len(handed[s]) + 1

Hand(s) ==
    /\ ending[s] = "on" /\ NextPiece(s) <= Tasks
    /\ handed' = [handed EXCEPT ![s] = Append(@, NextPiece(s))]
    /\ UNCHANGED <<ending, culprit>>

Fail(s) ==
    /\ ending[s] = "on" /\ NextPiece(s) <= Tasks
    /\ ending' = [ending EXCEPT ![s] = "raised"]
    /\ culprit' = [culprit EXCEPT ![s] = NextPiece(s)]
    /\ UNCHANGED handed

Leave(s) ==
    /\ ending[s] = "on" /\ handed[s] # <<>>
    /\ ending' = [ending EXCEPT ![s] = "closed"]
    /\ UNCHANGED <<handed, culprit>>

Return(s) ==
    /\ ending[s] = "on" /\ Len(handed[s]) = Tasks
    /\ ending' = [ending EXCEPT ![s] = "finished"]
    /\ UNCHANGED <<handed, culprit>>

Next == \E s \in Streams : Hand(s) \/ Fail(s) \/ Leave(s) \/ Return(s)

Spec == Init /\ [][Next]_vars
=============================================================================
