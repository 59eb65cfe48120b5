---------------------------- MODULE BoundedFifo ----------------------------
(***************************************************************************)
(* What a ring between two threads promises: a first-in first-out queue of *)
(* at most Cap elements.  A push is refused exactly when the queue is full *)
(* and then changes nothing; a poll takes a prefix, in order.              *)
(***************************************************************************)
EXTENDS Integers, Sequences

CONSTANTS Cap, Values

VARIABLES
    queue,      \* accepted and not yet taken
    answer,     \* the last push: "none", "accepted" or "refused"
    got         \* the batch the last poll took

vars == <<queue, answer, got>>

Init == queue = <<>> /\ answer = "none" /\ got = <<>>

Push(v) ==
    /\ Len(queue) < Cap
    /\ queue' = Append(queue, v)
    /\ answer' = "accepted"
    /\ UNCHANGED got

Refuse ==
    /\ Len(queue) = Cap
    /\ answer' = "refused"
    /\ UNCHANGED <<queue, got>>

Poll(n) ==
    /\ got' = SubSeq(queue, 1, n)
    /\ queue' = SubSeq(queue, n + 1, Len(queue))
    /\ UNCHANGED answer

Next ==
    \/ \E v \in Values : Push(v)
    \/ Refuse
    \/ \E n \in 0 .. Len(queue) : Poll(n)

Spec == Init /\ [][Next]_vars
=============================================================================
