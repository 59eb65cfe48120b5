------------------------------ MODULE SpscRing ------------------------------
(***************************************************************************)
(* The single-producer single-consumer ring the engine uses three times:   *)
(* the command queue (control to render), the event queue (render to       *)
(* control) and pd_ring.  Two indices count for ever in a machine word and *)
(* wrap; an element lives in the slot of its index modulo the capacity.    *)
(* The producer reads the consumer's index, fills a slot, then publishes   *)
(* its own; the consumer reads the producer's index, copies a batch, then  *)
(* publishes its own.                                                      *)
(***************************************************************************)
EXTENDS Integers, Sequences

CONSTANTS
    Cap,        \* slots: kCommandCapacity, kEventCapacity, capacity_pow2
    Wrap,       \* values of an index: 2^32 for uint32_t
    Values      \* what is queued

ASSUME RingAssumption ==
    /\ Cap \in Nat \ {0} /\ Wrap \in Nat \ {0}
    /\ Wrap % Cap = 0 /\ Wrap > Cap     \* both are powers of two
    /\ Values # {}

VARIABLES
    slot, writeIndex, readIndex,    \* shared
    ppc, pval, pwrite,              \* producer: point, element, its index
    cpc, cread, cwrite, batch, max, \* consumer: point, cursor, limit, copied so far
    answer, got                     \* what the last calls returned

shared   == <<slot, writeIndex, readIndex>>
producer == <<ppc, pval, pwrite, answer>>
consumer == <<cpc, cread, cwrite, batch, max, got>>
vars     == <<shared, producer, consumer>>

Index == 0 .. Wrap - 1

SuccNoWrap(i) == i + 1

Succ(i) == (i + 1) % Wrap

Distance(from, to) == (to - from) % Wrap     \* unsigned subtraction

Init ==
    /\ slot \in [0 .. Cap - 1 -> {CHOOSE v \in Values : TRUE}]
    /\ writeIndex = 0 /\ readIndex = 0
    /\ ppc = "idle" /\ pval = CHOOSE v \in Values : TRUE
    /\ pwrite = 0 /\ answer = "none"
    /\ cpc = "idle" /\ cread = 0 /\ cwrite = 0 /\ batch = <<>> /\ max = 0 /\ got = <<>>

-----------------------------------------------------------------------------
(* The producer: pe_post_command, pushEvent, pd_ring_push                  *)

FullLate(w, r) == Distance(r, w) > Cap

Full(w, r) == Distance(r, w) >= Cap

PushBegin(v) ==
    /\ ppc = "idle"
    /\ IF Full(writeIndex, readIndex)
       THEN answer' = "refused" /\ UNCHANGED <<ppc, pval, pwrite>>
       ELSE /\ ppc' = "copy" /\ pval' = v /\ pwrite' = writeIndex
            /\ UNCHANGED answer
    /\ UNCHANGED <<shared, consumer>>

PushCopy ==
    /\ ppc = "copy"
    /\ slot' = [slot EXCEPT ![pwrite % Cap] = pval]
    /\ ppc' = "publish"
    /\ UNCHANGED <<writeIndex, readIndex, pval, pwrite, answer, consumer>>

PushPublish ==
    /\ ppc = "publish"
    /\ writeIndex' = Succ(pwrite)
    /\ ppc' = "idle" /\ answer' = "accepted"
    /\ UNCHANGED <<slot, readIndex, pval, pwrite, consumer>>

Producer == (\E v \in Values : PushBegin(v)) \/ PushCopy \/ PushPublish

-----------------------------------------------------------------------------
(* The consumer: drainCommands (no limit), pe_poll_events (up to `max'),   *)
(* pd_ring_pop (one)                                                       *)

PollBegin(n) ==
    /\ cpc = "idle"
    /\ cread' = readIndex /\ cwrite' = writeIndex
    /\ batch' = <<>> /\ max' = n
    /\ cpc' = "copy"
    /\ UNCHANGED <<shared, producer, got>>

PollCopy ==
    /\ cpc = "copy"
    /\ cread # cwrite /\ Len(batch) < max
    /\ batch' = Append(batch, slot[cread % Cap])
    /\ cread' = Succ(cread)
    /\ UNCHANGED <<shared, producer, cpc, cwrite, max, got>>

PollEndAtLimit ==
    /\ cpc = "copy"
    /\ cread = cwrite \/ Len(batch) = max
    /\ readIndex' = cwrite
    /\ got' = batch
    /\ cpc' = "idle" /\ batch' = <<>>
    /\ UNCHANGED <<slot, writeIndex, producer, cread, cwrite, max>>

PollEndUnpublished ==
    /\ cpc = "copy"
    /\ cread = cwrite \/ Len(batch) = max
    /\ got' = batch
    /\ cpc' = "idle" /\ batch' = <<>>
    /\ UNCHANGED <<shared, producer, cread, cwrite, max>>

PollEnd ==
    /\ cpc = "copy"
    /\ cread = cwrite \/ Len(batch) = max
    /\ readIndex' = cread
    /\ got' = batch
    /\ cpc' = "idle" /\ batch' = <<>>
    /\ UNCHANGED <<slot, writeIndex, producer, cread, cwrite, max>>

Consumer == (\E n \in 1 .. Cap : PollBegin(n)) \/ PollCopy \/ PollEnd

Next == Producer \/ Consumer

Spec == Init /\ [][Next]_vars

(* The render thread drains on every block, and the control thread polls.  *)
FairSpec == Spec /\ WF_vars(Consumer)

-----------------------------------------------------------------------------
(* Properties *)

TypeOK ==
    /\ slot \in [0 .. Cap - 1 -> Values]
    /\ writeIndex \in Index /\ readIndex \in Index
    /\ ppc \in {"idle", "copy", "publish"} /\ pval \in Values /\ pwrite \in Index
    /\ cpc \in {"idle", "copy"} /\ cread \in Index /\ cwrite \in Index
    /\ batch \in Seq(Values) /\ got \in Seq(Values) /\ max \in 0 .. Cap
    /\ answer \in {"none", "accepted", "refused"}

(* An index between the consumer's and the producer's, wrapping.           *)
Between(i, from, to) == Distance(from, i) < Distance(from, to)

(* The slot being filled is none of those the consumer still has to copy,  *)
(* nor any of those already published: neither side needs a lock.          *)
SlotExclusive ==
    ppc = "copy" => \A i \in Index :
        /\ Between(i, readIndex, writeIndex) => i % Cap # pwrite % Cap
        /\ cpc = "copy" /\ Between(i, cread, cwrite) => i % Cap # pwrite % Cap

(* The ring is a bounded first-in first-out queue, also when its indices   *)
(* wrap: nothing is lost, doubled or reordered, and only a full ring       *)
(* refuses.                                                                *)
Content ==
    [k \in 1 .. Distance(readIndex, writeIndex) |-> slot[(readIndex + k - 1) % Cap]]

Fifo == INSTANCE BoundedFifo WITH queue <- Content

RefinesFifo == Fifo!Spec

(* Whatever was accepted is eventually taken, so a full ring drains.       *)
EventuallyTaken ==
    \A i \in Index : Between(i, readIndex, writeIndex)
                        ~> ~Between(i, readIndex, writeIndex)
=============================================================================
