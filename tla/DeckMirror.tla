----------------------------- MODULE DeckMirror -----------------------------
(***************************************************************************)
(* A deck and its mirror: the host's Deck object (Sources/ParsoDJEngine)   *)
(* drives the render thread's deck through the command ring and learns of  *)
(* it through the event ring.  The host sets its own flags at once, and    *)
(* the events overwrite them later.  A full ring refuses: the host ignores *)
(* the refusal of a command, the render thread that of an event.           *)
(*                                                                         *)
(* The rings are the queues that SpscRing implements.  Where a block of    *)
(* frames begins and ends is left open: a block is some commands, then     *)
(* some frames.                                                            *)
(***************************************************************************)
EXTENDS DeckTransport, SequencesExt

CONSTANTS
    CommandCap, EventCap,   \* kCommandCapacity, kEventCapacity
    Loops,                  \* loops the host may set, as <<start, end>>
    HostSessions            \* bound: the host operations a behaviour uses

ASSUME MirrorAssumption ==
    CommandCap \in Nat /\ EventCap \in Nat /\ Loops \subseteq Int \X Int

VARIABLES
    commands, events,       \* the two rings
    mirror,                 \* isPlaying, isLoopActive
    jog,                    \* joggingWasPlaying, joggingVinylMode
    looped,                 \* loopStartTime and loopEndTime are set
    stale,                  \* history: the deck has not told how it stands
                            \* since it last changed, see Untold
    refused,                \* history: a command was refused since the host
                            \* last heard a STATE
    uses                    \* the host operations of this behaviour

hostVars   == <<mirror, jog, looped, uses>>
mirrorVars == <<vars, commands, events, hostVars, stale, refused>>

NoJog == [wasPlaying |-> FALSE, vinyl |-> FALSE]

MirrorInit ==
    /\ Init
    /\ commands = <<>> /\ events = <<>>
    /\ mirror = [isPlaying |-> FALSE, isLoopActive |-> FALSE]
    /\ jog = NoJog /\ looped = FALSE
    /\ stale = FALSE /\ refused = FALSE
    /\ uses \in HostSessions

-----------------------------------------------------------------------------
(* The host *)

(* Deck.post: whether the ring took the command is not looked at.          *)
Post(c) ==
    /\ commands' = IF Len(commands) < CommandCap THEN Append(commands, c) ELSE commands
    /\ refused' = (refused \/ Len(commands) = CommandCap)
    /\ UNCHANGED <<vars, events, stale, uses>>

Shows(playing) == mirror' = [mirror EXCEPT !.isPlaying = playing]

HostPlay == Post([op |-> "PLAY"]) /\ Shows(TRUE) /\ UNCHANGED <<jog, looped>>

HostPause == Post([op |-> "PAUSE"]) /\ Shows(FALSE) /\ UNCHANGED <<jog, looped>>

HostSeek(p) == Post([op |-> "SEEK", to |-> p]) /\ UNCHANGED <<mirror, jog, looped>>

HostReverse(on) == Post([op |-> "SET_REVERSE", on |-> on]) /\ UNCHANGED <<mirror, jog, looped>>

HostSlip(on) == Post([op |-> "SET_SLIP", on |-> on]) /\ UNCHANGED <<mirror, jog, looped>>

JogTouchBegan(vinyl) ==
    /\ jog' = [wasPlaying |-> mirror.isPlaying, vinyl |-> vinyl]
    /\ Shows(mirror.isPlaying /\ ~vinyl)
    /\ Post([op |-> "JOG_TOUCH", vinyl |-> vinyl])
    /\ UNCHANGED looped

PlaysOn == jog.vinyl /\ jog.wasPlaying

JogTouchEnded ==
    /\ Shows(mirror.isPlaying \/ PlaysOn)
    /\ Post([op |-> "JOG_RELEASE", playOn |-> PlaysOn])
    /\ jog' = NoJog
    /\ UNCHANGED looped

(* setLocalLoop: the host keeps a loop that is not empty within its track. *)
Fits(loop) == Clamp(loop[1], 0, deck.frames) < Clamp(loop[2], 0, deck.frames)

HostSetLoop(loop) ==
    /\ mirror' = [mirror EXCEPT !.isLoopActive = @ \/ Fits(loop)]
    /\ looped' = (looped \/ Fits(loop))
    /\ Post([op |-> "SET_LOOP", loop |-> loop])
    /\ UNCHANGED jog

(* The host takes the loop to be over as soon as a new one is begun.       *)
HostLoopIn ==
    /\ mirror' = [mirror EXCEPT !.isLoopActive = FALSE]
    /\ Post([op |-> "LOOP_IN"])
    /\ UNCHANGED <<jog, looped>>

HostReloopExit ==
    /\ mirror' = [mirror EXCEPT !.isLoopActive = ~@ /\ looped]
    /\ Post([op |-> "RELOOP_EXIT"])
    /\ UNCHANGED <<jog, looped>>

HostExitLoopAtEnd ==
    /\ mirror.isLoopActive
    /\ Post([op |-> "LOOP_EXIT_AT_END"])
    /\ UNCHANGED <<mirror, jog, looped>>

IsState(e) == e.type = "STATE"

HasState(q) == \E i \in DOMAIN q : IsState(q[i])

(* Deck.load: the buffer is swapped under the rings; what they still hold  *)
(* belongs to the track before.                                            *)
HostLoad(n) ==
    /\ SetBuffer(n)
    /\ Shows(FALSE)
    /\ looped' = FALSE
    /\ stale' = HasState(events)
    /\ UNCHANGED <<commands, events, jog, refused, uses>>

(* drainEvents, with what apply and applyEndOfTrack make of an event.      *)
HeardLoop(m, e) ==
    IF IsState(e) THEN [m EXCEPT !.isLoopActive = e.loop]
    ELSE IF e = EndOfTrack THEN [m EXCEPT !.isPlaying = FALSE]
    ELSE m

Heard(m, e) ==
    IF IsState(e) THEN [isPlaying |-> e.playing, isLoopActive |-> e.loop]
    ELSE IF e = EndOfTrack THEN [m EXCEPT !.isPlaying = FALSE]
    ELSE m

Poll ==
    /\ events # <<>>
    /\ mirror' = FoldLeft(Heard, mirror, events)
    /\ events' = <<>>
    /\ refused' = (refused /\ ~HasState(events))
    /\ UNCHANGED <<vars, commands, jog, looped, stale, uses>>

May(use) == use \in uses

Host ==
    \/ HostPlay \/ (May("pause") /\ HostPause)
    \/ (May("reload") \/ ~HasTrack) /\ \E n \in Lengths : HostLoad(n)
    \/ May("seek") /\ \E p \in Places : HostSeek(p)
    \/ May("reverse") /\ \E on \in BOOLEAN : HostReverse(on) \/ HostSlip(on)
    \/ May("jog") /\ ((\E vinyl \in BOOLEAN : JogTouchBegan(vinyl)) \/ JogTouchEnded)
    \/ May("loop") /\ ((\E l \in Loops : HostSetLoop(l)) \/ HostReloopExit
                         \/ HostExitLoopAtEnd)
    \/ May("loop in") /\ HostLoopIn

-----------------------------------------------------------------------------
(* The render thread *)

(* pushEvent, once for every event of the step: a full ring drops it.      *)
Fitting(told) == SubSeq(told, 1, Clamp(EventCap - Len(events), 0, Len(told)))

PushUnbounded(told) == events' = events \o told

Push(told) == events' = events \o Fitting(told)

(* What the deck does without a STATE: a slip reverse that ends past the   *)
(* end of the track, and a jog release that finds the deck at its end and  *)
(* does not play on as the host expects.                                   *)
Untold ==
    \/ deck'.playing # deck.playing
    \/ commands # commands' /\ Head(commands).op = "JOG_RELEASE"
         /\ Head(commands).playOn /\ ~deck'.playing

(* A STATE that finds room makes good what was not told before it.         *)
Pushed ==
    /\ Push(news')
    /\ stale' = IF HasState(news') THEN ~HasState(Fitting(news')) ELSE stale \/ Untold

Execute(c) ==
    \/ c.op = "PLAY" /\ Play
    \/ c.op = "PAUSE" /\ Pause
    \/ c.op = "SEEK" /\ Seek(c.to)
    \/ c.op = "SET_REVERSE" /\ SetReverse(c.on)
    \/ c.op = "SET_SLIP" /\ SetSlip(c.on)
    \/ c.op = "JOG_TOUCH" /\ JogTouch(c.vinyl)
    \/ c.op = "JOG_RELEASE" /\ JogRelease(c.playOn)
    \/ c.op = "SET_LOOP" /\ SetLoopFrames(c.loop[1], c.loop[2], TRUE)
    \/ c.op = "LOOP_IN" /\ LoopIn(deck.position)
    \/ c.op = "RELOOP_EXIT" /\ ReloopExit
    \/ c.op = "LOOP_EXIT_AT_END" /\ LoopExitAtEnd

RenderCommand ==
    /\ commands # <<>> /\ NotFarOut
    /\ Execute(Head(commands))
    /\ commands' = Tail(commands)
    /\ Pushed
    /\ UNCHANGED <<hostVars, refused>>

RenderFader == May("fader") /\ FaderStart /\ UNCHANGED <<commands, hostVars, refused>> /\ Pushed

RenderFrame == Frame /\ UNCHANGED <<commands, hostVars, refused>> /\ Pushed

MirrorNext == Host \/ Poll \/ RenderCommand \/ RenderFader \/ RenderFrame

MirrorSpec == MirrorInit /\ [][MirrorNext]_mirrorVars

-----------------------------------------------------------------------------
(* Properties *)

MirrorTypeOK ==
    /\ Len(commands) <= CommandCap /\ Len(events) <= EventCap
    /\ mirror \in [isPlaying : BOOLEAN, isLoopActive : BOOLEAN]
    /\ jog \in [wasPlaying : BOOLEAN, vinyl : BOOLEAN]

Settled ==
    HasTrack /\ commands = <<>> /\ events = <<>> /\ ~stale /\ ~refused

(* Once both rings are empty the host shows a deck as playing if and only  *)
(* if it plays, although the host ran ahead of the commands and the events *)
(* ran behind the deck.  There are exceptions, and no others: the last     *)
(* STATE was lost to a full ring or is from before a track change, the     *)
(* deck did not tell (see Untold), or a command was refused.               *)
MirrorAgrees == Settled => mirror.isPlaying = deck.playing

(* "The host's Deck.isLoopActive follows state events" (parso_engine_      *)
(* commands.inc, at applyCommand), so it should agree as well.  It does    *)
(* not: see the run loop_mirror.                                           *)
LoopMirrorAgrees == Settled => mirror.isLoopActive = deck.active
=============================================================================
