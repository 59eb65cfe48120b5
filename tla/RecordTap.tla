----------------------------- MODULE RecordTap ------------------------------
(***************************************************************************)
(* The tap on the master bus: the render thread copies each block into a   *)
(* ring, the main actor drains it into the recorder.  When the ring is     *)
(* full the render thread drops the oldest frame by moving the reader's    *)
(* index, so both threads write that index.  A frame is known by the index *)
(* it was written at.                                                      *)
(***************************************************************************)
EXTENDS Integers

CONSTANTS
    RecordCapacity,     \* kRecordCapacity
    IndexWrap,          \* values of an index: 2^32
    Blocks,             \* the block sizes of the device
    ScratchFrames,      \* frames of the host's scratch buffers
    Unwritten

ASSUME TapAssumption ==
    /\ RecordCapacity \in Nat \ {0} /\ Blocks \subseteq 1..RecordCapacity
    /\ ScratchFrames \in Nat \ {0}
    /\ IndexWrap \in Nat /\ IndexWrap % RecordCapacity = 0 /\ IndexWrap > 2 * RecordCapacity
    /\ Unwritten \notin 0..(IndexWrap - 1)

VARIABLES
    recordWrite, recordRead, recordDropped, recordActive, recorded,     \* shared
    tap,        \* the render thread: [pc, write, read, left]
    drain,      \* the main actor: [pc, read, write, count, then]
    recorder,   \* a recorder is attached and recording
    tapHistory  \* [expected, raced, misTaken], see below

tapVars == <<recordWrite, recordRead, recordDropped, recordActive, recorded,
             tap, drain, recorder, tapHistory>>

TapIndex == 0..(IndexWrap - 1)
NextUnwrapped(i) == i + 1

Next1(i) == (i + 1) % IndexWrap
Span(from, to) == (to - from) % IndexWrap
Cell(i) == i % RecordCapacity

NotTapping  == [pc |-> "off", write |-> 0, read |-> 0, left |-> 0]
NotDraining == [pc |-> "idle", read |-> 0, write |-> 0, count |-> 0, then |-> "idle"]

\* expected: the read index if only the drains had moved it since the reset
\* (0 when raced).
\* raced: a frame was dropped in a block that ran across a drain or a reset, so
\* that two threads have written the read index or the count; a reset that no block runs
\* across mends it.
\* misTaken: before that, the recorder got a frame its index does not stand for.
TapInit ==
    /\ recordWrite = 0 /\ recordRead = 0 /\ recordDropped = 0 /\ recordActive = FALSE
    /\ recorded = [c \in 0..(RecordCapacity - 1) |-> Unwritten]
    /\ tap = NotTapping /\ drain = NotDraining /\ recorder = FALSE
    /\ tapHistory = [expected |-> 0, raced |-> FALSE, misTaken |-> FALSE]

-----------------------------------------------------------------------------
(* render, from line 119 on *)

TapBegin(frames) ==
    /\ tap.pc = "off"
    /\ tap' = IF recordActive
              THEN [pc |-> "copy", write |-> recordWrite, read |-> recordRead, left |-> frames]
              ELSE tap
    /\ UNCHANGED <<recordWrite, recordRead, recordDropped, recorded, tapHistory>>

RingFullLate == Span(tap.read, tap.write) > RecordCapacity

RingFull == Span(tap.read, tap.write) >= RecordCapacity

\* The main actor holds an index it has loaded, or is about to forget the count.
HoldsIndex == drain.pc \in {"loadWrite", "copy", "reset", "forget"}

DropUncounted ==
    /\ recordRead' = Next1(recordRead)
    /\ UNCHANGED recordDropped

\* Counts modulo the index, like everything the model counts.
DropOldest ==
    /\ recordDropped' = Next1(recordDropped)
    /\ recordRead' = Next1(recordRead)

TapFrame ==
    /\ tap.pc = "copy" /\ tap.left > 0
    /\ IF RingFull
       THEN /\ DropOldest
            /\ tapHistory' = IF HoldsIndex \/ tap.read # recordRead
                             THEN [tapHistory EXCEPT !.raced = TRUE, !.expected = 0] ELSE tapHistory
       ELSE UNCHANGED <<recordDropped, recordRead, tapHistory>>
    /\ recorded' = [recorded EXCEPT ![Cell(tap.write)] = tap.write]
    /\ tap' = [tap EXCEPT !.write = Next1(@), !.left = @ - 1,
                          !.read = IF RingFull THEN Next1(@) ELSE @]
    /\ UNCHANGED recordWrite

TapPublish ==
    /\ tap.pc = "copy" /\ tap.left = 0
    /\ recordWrite' = tap.write /\ tap' = NotTapping
    /\ UNCHANGED <<recordRead, recordDropped, recorded, tapHistory>>

RecordTapStep(frames) == /\ TapBegin(frames) \/ TapFrame \/ TapPublish
                         /\ UNCHANGED <<recordActive, drain, recorder>>

-----------------------------------------------------------------------------
(* drainRecordTap and pe_record_drain *)

DrainFrom(then) == [pc |-> "loadWrite", read |-> recordRead, write |-> 0, count |-> 0, then |-> then]

\* The pump, HeadlessDJEngine.render and interruptRecording.
drainRecordTap ==
    /\ drain.pc = "idle" /\ recorder
    /\ drain' = DrainFrom("idle")
    /\ UNCHANGED <<recordRead, recordDropped, recordActive, recorder, tapHistory>>

DrainLoadWrite ==
    /\ drain.pc = "loadWrite"
    /\ drain' = [drain EXCEPT !.pc = "copy", !.write = recordWrite]
    /\ UNCHANGED <<recordRead, recordDropped, recordActive, recorder, tapHistory>>

DrainCopyLate ==
    /\ drain.pc = "copy" /\ drain.read # drain.write /\ drain.count < ScratchFrames
    /\ drain' = [drain EXCEPT !.read = Next1(@), !.count = @ + 1]
    /\ tapHistory' = [tapHistory EXCEPT !.expected = IF tapHistory.raced THEN 0 ELSE Next1(@),
                          !.misTaken = @ \/ (~tapHistory.raced /\ recorded[Cell(Next1(drain.read))] # drain.read)]
    /\ UNCHANGED <<recordRead, recordDropped, recordActive, recorder>>

DrainCopy ==
    /\ drain.pc = "copy" /\ drain.read # drain.write /\ drain.count < ScratchFrames
    /\ drain' = [drain EXCEPT !.read = Next1(@), !.count = @ + 1]
    /\ tapHistory' = [tapHistory EXCEPT !.expected = IF tapHistory.raced THEN 0 ELSE Next1(@),
                          !.misTaken = @ \/ (~tapHistory.raced /\ recorded[Cell(drain.read)] # drain.read)]
    /\ UNCHANGED <<recordRead, recordDropped, recordActive, recorder>>

DrainStoreWrite ==
    /\ drain.pc = "copy" /\ (drain.read = drain.write \/ drain.count = ScratchFrames)
    /\ recordRead' = drain.write
    /\ drain' = [NotDraining EXCEPT !.pc = IF drain.count = ScratchFrames THEN "again" ELSE drain.then,
                                    !.then = drain.then]
    /\ UNCHANGED <<recordDropped, recordActive, recorder, tapHistory>>

\* A full scratch buffer: the loop asks again.
DrainStore ==
    /\ drain.pc = "copy" /\ (drain.read = drain.write \/ drain.count = ScratchFrames)
    /\ recordRead' = drain.read
    /\ drain' = [NotDraining EXCEPT !.pc = IF drain.count = ScratchFrames THEN "again" ELSE drain.then,
                                    !.then = drain.then]
    /\ UNCHANGED <<recordDropped, recordActive, recorder, tapHistory>>

DrainAgain ==
    /\ drain.pc = "again" /\ drain' = DrainFrom(drain.then)
    /\ UNCHANGED <<recordRead, recordDropped, recordActive, recorder, tapHistory>>

(* startRecording: attach, pe_record_reset in three steps, activate *)

startRecording ==
    /\ drain.pc = "idle" /\ recorder' = TRUE
    /\ drain' = [NotDraining EXCEPT !.pc = "reset", !.write = recordWrite]
    /\ UNCHANGED <<recordRead, recordDropped, recordActive, tapHistory>>

ResetRead ==
    /\ drain.pc = "reset" /\ recordRead' = drain.write
    /\ drain' = [NotDraining EXCEPT !.pc = "forget"]
    /\ LET mended == tap.pc = "off" /\ recordWrite = drain.write
       IN  IF tapHistory.raced /\ ~mended THEN UNCHANGED tapHistory
           ELSE tapHistory' = [tapHistory EXCEPT !.expected = drain.write, !.raced = FALSE]
    /\ UNCHANGED <<recordDropped, recordActive, recorder>>

ResetDropped ==
    /\ drain.pc = "forget" /\ recordDropped' = 0
    /\ drain' = [NotDraining EXCEPT !.pc = "activate"]
    /\ UNCHANGED <<recordRead, recordActive, recorder, tapHistory>>

Activate ==
    /\ drain.pc = "activate" /\ recordActive' = TRUE /\ drain' = NotDraining
    /\ UNCHANGED <<recordRead, recordDropped, recorder, tapHistory>>

stopRecording ==
    /\ drain.pc = "idle" /\ recorder
    /\ drain' = DrainFrom("deactivate")
    /\ UNCHANGED <<recordRead, recordDropped, recordActive, recorder, tapHistory>>

Deactivate ==
    /\ drain.pc = "deactivate" /\ recordActive' = FALSE /\ recorder' = FALSE
    /\ drain' = NotDraining
    /\ UNCHANGED <<recordRead, recordDropped, tapHistory>>

HostTap == UNCHANGED <<recordWrite, recorded, tap>>

RecordCall == HostTap /\ (drainRecordTap \/ startRecording \/ stopRecording)
RecordStep == HostTap /\ (DrainLoadWrite \/ DrainCopy \/ DrainStore \/ DrainAgain
                          \/ ResetRead \/ ResetDropped \/ Activate \/ Deactivate)

-----------------------------------------------------------------------------
(***************************************************************************)
(* Properties.  Each is about a recording in which no frame was dropped    *)
(* across a drain or a reset: then the drain puts back an index the render *)
(* thread has moved, or the render thread moves one the drain has taken    *)
(* past it, and none of the three holds.                                   *)
(***************************************************************************)
Raced == tapHistory.raced

\* The reader's index stays behind the published write index and within the
\* ring: otherwise a drain would count around the whole of the 32 bits.
TapCursors == Raced \/ Span(recordRead, recordWrite) <= RecordCapacity

\* "The oldest frames are dropped and counted": every frame since the reset that
\* is no longer in the ring went to the recorder or into the count.
TapAccounts ==
    Raced \/ drain.pc # "idle" \/ Span(tapHistory.expected, recordRead) = recordDropped

\* What the recorder gets are the frames its indices stand for, in order, none
\* of them overwritten by the lap after it.
TapInOrder == ~tapHistory.misTaken
=============================================================================
