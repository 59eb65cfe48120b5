---------------------------- MODULE DeckTransport ----------------------------
(***************************************************************************)
(* The transport of one deck on the render thread (Sources/CParsoEngine):  *)
(* what each deck command does to the playhead, the loop, the platter and  *)
(* the slip shadow, and what one rendered frame does.  A step leaves in    *)
(* `news' the events it pushed for the host.                               *)
(*                                                                         *)
(* The playhead is counted in units, Full of them to a source frame: a     *)
(* platter turning at n of Full advances it n units a frame.  Tempo, pitch *)
(* bend and sound are left out; a point given in seconds is a unit.        *)
(***************************************************************************)
EXTENDS Integers, Sequences

CONSTANTS
    Full,       \* the motor at full speed
    Lengths,    \* lengths of the tracks that may be loaded, in units
    Places,     \* points commands may name, in or out of the track
    Waits,      \* frames to the next grid line; 0: no usable tempo
    Halves,     \* half-lengths a loop may be scaled to, and its moves
    Sessions,   \* bound: each behaviour uses one of these sets of controls
    None        \* no point

ASSUME TransportAssumption ==
    /\ Full \in Nat \ {0}
    /\ Lengths \subseteq {n \in Nat : n >= Full}
    /\ Places \subseteq Int /\ Waits \subseteq Nat /\ Halves \subseteq Nat \ {0}
    /\ None \notin Int

VARIABLES
    deck,       \* DeckState
    news,       \* the events the last step pushed, in order
    session     \* which controls this behaviour uses

vars == <<deck, news, session>>

Clamp(x, low, high) == IF x < low THEN low ELSE IF x > high THEN high ELSE x

NoJump == [to |-> None, wait |-> 0]

(* A deck with n units of PCM just set (pe_deck_set_buffer): the platter   *)
(* stands and nothing is cued, looped or touched.                          *)
Loaded(n, easedBrake, easedSpin) ==
    [frames |-> n, position |-> 0, shadow |-> 0, playing |-> FALSE,
     motor |-> 0, target |-> 0, easedBrake |-> easedBrake, easedSpin |-> easedSpin,
     slip |-> FALSE, reverse |-> FALSE,
     touched |-> FALSE, vinyl |-> FALSE, hand |-> 0, audio |-> 0, aim |-> 0,
     jump |-> NoJump, loopIn |-> None,
     start |-> 0, end |-> 0, available |-> FALSE, active |-> FALSE, exitAtEnd |-> FALSE]

(* A new engine: no PCM, and a platter that turns at once.                 *)
Init ==
    /\ deck = [Loaded(0, FALSE, FALSE) EXCEPT !.motor = Full, !.target = Full]
    /\ news = <<>>
    /\ session \in Sessions

-----------------------------------------------------------------------------
(* Events, and the end of every command *)

State(d) == [type |-> "STATE", playing |-> d.playing, loop |-> d.active]

Playhead == [type |-> "PLAYHEAD"]

EndOfTrack == [type |-> "END_OF_TRACK"]

(* applyCommand: a command that changes the loop's activity reports it.    *)
ApplyUnreported(d, told) == deck' = d /\ news' = told /\ UNCHANGED session

Apply(d, told) ==
    /\ deck' = d
    /\ news' = told \o IF d.active # deck.active THEN <<State(d)>> ELSE <<>>
    /\ UNCHANGED session

Ignore == Apply(deck, <<>>)

HasTrack == deck.frames > 0

-----------------------------------------------------------------------------
(* Commands: play, pause and the jog wheel *)

SpinUp(d) == [d EXCEPT !.playing = TRUE, !.target = Full,
                       !.motor = IF d.easedSpin THEN @ ELSE Full]

Brake(d) == [d EXCEPT !.playing = FALSE, !.target = 0,
                      !.motor = IF d.easedBrake THEN @ ELSE 0]

Play ==
    LET d == SpinUp([deck EXCEPT !.shadow = deck.position])
    IN  Apply(d, <<State(d)>>)

Pause == Apply(Brake(deck), <<State(Brake(deck))>>)

VinylSpeed(brake, spin) ==
    Apply([deck EXCEPT !.easedBrake = brake, !.easedSpin = spin], <<>>)

Scratching(d) == d.touched /\ d.vinyl

(* A vinyl touch stops the deck under the hand.                            *)
JogTouch(vinyl) ==
    LET d == [deck EXCEPT !.touched = TRUE, !.vinyl = vinyl, !.hand = 0,
                          !.audio = deck.position, !.aim = deck.position]
    IN  IF vinyl /\ d.playing THEN Apply(Brake(d), <<State(Brake(d))>>)
                              ELSE Apply(d, <<>>)

At(d, p) == [d EXCEPT !.position = p, !.shadow = p]

(* A move scratches, bends the pitch, or searches.                         *)
JogMove(m) ==
    LET aim   == Clamp(deck.aim + m, 0, deck.frames - Full)
        found == Clamp(deck.position + m, 0, deck.frames)
    IN  IF ~HasTrack THEN Ignore
        ELSE Apply(IF Scratching(deck)
                       THEN [At(deck, aim) EXCEPT !.aim = aim,
                                                  !.hand = IF m < 0 THEN -1 ELSE 1]
                   ELSE IF deck.touched THEN deck
                   ELSE At(deck, found),
                   <<Playhead>>)

(* The playhead returns to where the hand left the sound; the deck plays   *)
(* on if it played before the touch (the host remembers) and has not ended.*)
JogRelease(playOn) ==
    LET d == [IF Scratching(deck) THEN At(deck, deck.audio) ELSE deck
                 EXCEPT !.touched = FALSE, !.vinyl = FALSE, !.hand = 0]
    IN  IF playOn /\ d.position < d.frames
        THEN Apply(SpinUp(d), <<State(SpinUp(d))>>)
        ELSE Apply(d, <<>>)

-----------------------------------------------------------------------------
(* Commands: moving the playhead, slip and reverse *)

Land(d, p) == [At(d, p) EXCEPT !.jump = NoJump]

Seek(p) ==
    IF HasTrack THEN Apply(Land(deck, Clamp(p, 0, deck.frames)), <<Playhead>>)
                ELSE Ignore

(* JUMP_CUE, HOTCUE_JUMP, BEATJUMP: to a point of the track, now or on the *)
(* next grid line (scheduleQuantizedJump).                                 *)
Jump(p, wait) ==
    LET to == Clamp(p, 0, deck.frames)
    IN  IF wait = 0 THEN Apply(Land(deck, to), <<Playhead>>)
                    ELSE Apply([deck EXCEPT !.jump = [to |-> to, wait |-> wait]], <<>>)

Sync(p) ==
    Apply(IF HasTrack /\ p >= 0
              THEN At(deck, IF p < deck.frames THEN p ELSE deck.frames - Full)
              ELSE deck,
          <<Playhead>>)

SetSlip(on) ==
    Apply([deck EXCEPT !.slip = on,
                       !.shadow = IF on THEN deck.position ELSE @], <<>>)

(* Back to the slip shadow, where the deck stops if that is past the end.  *)
ResumeUnclamped(d) == [d EXCEPT !.position = d.shadow]

Resume(d) == [d EXCEPT !.position = Clamp(d.shadow, 0, d.frames),
                       !.playing = @ /\ d.shadow < d.frames]

SlipReverseEnds(on) == deck.reverse /\ ~on /\ deck.slip

SetReverse(on) ==
    LET d == IF SlipReverseEnds(on) THEN Resume(deck) ELSE deck
    IN  Apply([d EXCEPT !.reverse = on,
                        !.shadow = IF on /\ d.slip THEN d.position ELSE @],
              IF SlipReverseEnds(on) THEN <<Playhead>> ELSE <<>>)

-----------------------------------------------------------------------------
(* Commands: loops *)

(* setLoop: the ends in order, inside the track, and not empty.            *)
WithLoopEmpty(d, p, q) ==
    LET start == Clamp(IF p < q THEN p ELSE q, 0, d.frames)
        end   == Clamp(IF p < q THEN q ELSE p, 0, d.frames)
    IN  [d EXCEPT !.start = start, !.end = end, !.available = TRUE, !.active = TRUE]

WithLoop(d, p, q) ==
    LET start == Clamp(IF p < q THEN p ELSE q, 0, d.frames)
        end   == Clamp(IF p < q THEN q ELSE p, 0, d.frames)
    IN  IF start < end
        THEN [d EXCEPT !.start = start, !.end = end, !.available = TRUE, !.active = TRUE]
        ELSE d

LoopIn(p) == Apply([deck EXCEPT !.loopIn = Clamp(p, 0, deck.frames)], <<>>)

LoopOut(p) ==
    IF deck.loopIn = None THEN Ignore
    ELSE Apply([WithLoop(deck, deck.loopIn, p) EXCEPT !.loopIn = None], <<>>)

(* RELOOP_EXIT toggles; leaving a loop under slip resumes at the shadow.   *)
ReloopExit ==
    LET d == [deck EXCEPT !.exitAtEnd = FALSE]
    IN  IF d.active /\ d.slip THEN Apply(Resume([d EXCEPT !.active = FALSE]), <<Playhead>>)
        ELSE Apply([d EXCEPT !.active = ~d.active /\ d.available], <<>>)

LoopExitAtEnd == Apply([deck EXCEPT !.exitAtEnd = @ \/ (deck.active /\ deck.available)], <<>>)

LoopCancelExit == Apply([deck EXCEPT !.exitAtEnd = FALSE], <<>>)

(* BEATLOOP: a loop of the given length, moved left to fit the track.      *)
BeatLoop(p, half) ==
    LET length == Clamp(2 * half, 0, deck.frames)
        start  == Clamp(p, 0, deck.frames - length)
    IN  Apply(WithLoop(deck, start, start + length), <<>>)

LoopScale(half) ==
    LET centre == (deck.start + deck.end) \div 2
    IN  IF deck.available THEN Apply(WithLoop(deck, centre - half, centre + half), <<>>)
                          ELSE Ignore

LoopMove(by) ==
    LET length == deck.end - deck.start
        start  == Clamp(deck.start + by, 0, deck.frames - length)
    IN  IF deck.available THEN Apply(WithLoop(deck, start, start + length), <<>>)
                          ELSE Ignore

(* SET_LOOP: given in frames it is active only if there is a loop; given   *)
(* in seconds it is as active as the command says.                         *)
SetLoopFrames(p, q, on) ==
    LET d == WithLoop(deck, p, q)
    IN  Apply([d EXCEPT !.active = d.available /\ on], <<>>)

SetLoopSeconds(p, q, on) ==
    IF HasTrack THEN Apply([WithLoop(deck, p, q) EXCEPT !.active = on], <<>>)
                ELSE Ignore

SetLoopActive(on) == Apply([deck EXCEPT !.active = IF deck.available THEN on ELSE @], <<>>)

-----------------------------------------------------------------------------
(* From outside the queue *)

(* pe_deck_set_buffer runs on the control thread and pushes no event.      *)
SetBuffer(n) ==
    /\ deck' = Loaded(n, deck.easedBrake, deck.easedSpin)
    /\ news' = <<>>
    /\ UNCHANGED session

(* A crossfader move starts the decks that are set to fader start.         *)
FaderStart ==
    /\ ~deck.playing /\ HasTrack
    /\ LET d == [deck EXCEPT !.playing = TRUE] IN Apply(d, <<State(d)>>)

-----------------------------------------------------------------------------
(* One rendered frame: a pending jump fires, the motor eases, and then the *)
(* deck stands, is scratched, or moves.                                    *)

JumpFires == deck.jump.to # None /\ deck.jump.wait <= 1

TowardPast(level, goal, step) ==
    IF level < goal THEN level + step
    ELSE IF level > goal THEN level - step
    ELSE level

Toward(level, goal, step) ==
    IF level < goal THEN Clamp(level + step, 0, goal)
    ELSE IF level > goal THEN Clamp(level - step, goal, Full)
    ELSE level

(* The deck as the frame finds it.                                         *)
Now ==
    LET d == IF JumpFires THEN Land(deck, deck.jump.to)
             ELSE [deck EXCEPT !.jump.wait = IF deck.jump.to = None THEN 0 ELSE @ - 1]
        eased == IF d.motor < d.target THEN d.easedSpin ELSE d.easedBrake
    IN  [d EXCEPT !.motor = Toward(@, d.target, IF eased THEN 1 ELSE Full)]

Moving(d) == d.frames > 0 /\ ~Scratching(d) /\ (d.playing \/ d.motor > 0)

Scratched(d) == d.frames > 0 /\ Scratching(d) /\ d.hand # 0

(* What the frame made of the deck, and what it told after a jump's news.  *)
Rendered(d, told) ==
    /\ deck' = d
    /\ news' = (IF JumpFires THEN <<Playhead>> ELSE <<>>) \o told
    /\ UNCHANGED session

Stand(d) == ~Moving(d) /\ ~Scratched(d) /\ Rendered(d, <<>>)

(* The shadow runs on at full speed, past the end of the track too, where  *)
(* it only matters that it is past the end.                                *)
Shadowed(d) ==
    [d EXCEPT !.shadow = IF d.slip THEN Clamp(@ + Full, 0, d.frames + Full) ELSE @]

(* The hand moves the sound, and comes to rest sooner or later.            *)
Scratch(d, rests) ==
    /\ Scratched(d)
    /\ Rendered([Shadowed(d) EXCEPT !.audio = Clamp(@ + d.hand, 0, d.frames - Full),
                                    !.hand = IF rests THEN 0 ELSE @], <<>>)

(* The deck after the platter has turned, before loops and ends.           *)
Moved(d) ==
    [Shadowed(d) EXCEPT !.position = IF d.reverse THEN @ - d.motor ELSE @ + d.motor]

Looping(d) == d.active /\ d.start < d.end

PastLoop(d) == Looping(d) /\ d.position >= d.end

BeforeLoop(d) == Looping(d) /\ d.position < d.start

LeaveLoop(d) ==
    /\ PastLoop(d) /\ d.exitAtEnd
    /\ LET left == [d EXCEPT !.exitAtEnd = FALSE, !.active = FALSE]
       IN  Rendered(left, <<State(left)>>)

(* Whole loop lengths are subtracted, or added, until the playhead is in.  *)
WrappedOnce(d) == IF d.position < d.start THEN d.position + (d.end - d.start)
                                          ELSE d.position - (d.end - d.start)

Wrapped(d) == d.start + ((d.position - d.start) % (d.end - d.start))

WrapLoop(d) ==
    /\ (PastLoop(d) /\ ~d.exitAtEnd) \/ BeforeLoop(d)
    /\ Rendered([d EXCEPT !.position = Wrapped(d)], <<>>)

AtEnd(d) == ~PastLoop(d) /\ ~BeforeLoop(d) /\ d.position >= d.frames

(* The end of the track: the deck stops and says so; its motor runs on.    *)
ReachEndPlaying(d) == AtEnd(d) /\ Rendered(At(d, d.frames), <<EndOfTrack, State(d)>>)

ReachEnd(d) ==
    /\ AtEnd(d)
    /\ LET ended == [At(d, d.frames) EXCEPT !.playing = FALSE]
       IN  Rendered(ended, <<EndOfTrack, State(ended)>>)

AtStartForward(d) == ~PastLoop(d) /\ ~BeforeLoop(d) /\ d.position <= 0

AtStart(d) == ~PastLoop(d) /\ ~BeforeLoop(d) /\ d.reverse /\ d.position <= 0

(* Reversed to the start: the deck and its motor stop.                     *)
ReachStart(d) ==
    /\ AtStart(d) /\ ~AtEnd(d)
    /\ LET stopped == [d EXCEPT !.position = 0, !.playing = FALSE, !.target = 0, !.motor = 0]
       IN  Rendered(stopped, <<State(stopped)>>)

MoveOn(d) ==
    /\ ~PastLoop(d) /\ ~BeforeLoop(d) /\ ~AtEnd(d) /\ ~AtStart(d)
    /\ Rendered(d, <<>>)

Move(d) == LeaveLoop(d) \/ WrapLoop(d) \/ ReachEnd(d) \/ ReachStart(d) \/ MoveOn(d)

Frame ==
    \E now \in {Now} :
        \/ Stand(now)
        \/ \E rests \in BOOLEAN : Scratch(now, rests)
        \/ Moving(now) /\ \E moved \in {Moved(now)} : Move(moved)

-----------------------------------------------------------------------------
Uses(control) == control \in session

Commands ==
    \/ Play \/ Pause
    \/ Uses("jog") /\ \/ \E vinyl \in BOOLEAN : JogTouch(vinyl)
                      \/ \E m \in {-1, 1} : JogMove(m)
                      \/ \E playOn \in BOOLEAN : JogRelease(playOn)
    \/ Uses("speed") /\ \E brake, spin \in BOOLEAN : VinylSpeed(brake, spin)
    \/ Uses("seek") /\ \E p \in Places : Seek(p)
    \/ Uses("jump") /\ \E p \in Places : Sync(p) \/ \E wait \in Waits : Jump(p, wait)
    \/ Uses("slip") /\ \E on \in BOOLEAN : SetSlip(on)
    \/ Uses("reverse") /\ \E on \in BOOLEAN : SetReverse(on)
    \/ Uses("loop") /\ \/ ReloopExit \/ LoopExitAtEnd \/ LoopCancelExit
                       \/ \E p, q \in Places, on \in BOOLEAN : SetLoopFrames(p, q, on)
    \/ Uses("edit") /\ \/ \E p \in Places : LoopIn(p) \/ LoopOut(p)
                       \/ \E p \in Places, half \in Halves : BeatLoop(p, half)
                       \/ \E half \in Halves : LoopScale(half)
                       \/ \E half \in Halves, sign \in {-1, 1} : LoopMove(sign * half)
                       \/ \E p, q \in Places, on \in BOOLEAN : SetLoopSeconds(p, q, on)
                       \/ \E on \in BOOLEAN : SetLoopActive(on)

(* Bound: a deck past the end is not made to leave loops there for ever.   *)
NotFarOut == deck.position <= deck.frames + Full

Next ==
    \/ NotFarOut /\ Commands
    \/ \E n \in Lengths : SetBuffer(n)
    \/ Uses("fader") /\ FaderStart
    \/ Frame

Spec == Init /\ [][Next]_vars

(* The device keeps asking for frames.                                     *)
FairSpec == Spec /\ WF_vars(Frame)

-----------------------------------------------------------------------------
(* Properties *)

DeckState ==
    [frames : Nat, position : Int, shadow : Int, playing : BOOLEAN,
     motor : 0 .. Full, target : {0, Full}, easedBrake : BOOLEAN, easedSpin : BOOLEAN,
     slip : BOOLEAN, reverse : BOOLEAN,
     touched : BOOLEAN, vinyl : BOOLEAN, hand : {-1, 0, 1}, audio : Int, aim : Int,
     jump : [to : Int \cup {None}, wait : Nat], loopIn : Int \cup {None},
     start : Int, end : Int, available : BOOLEAN, active : BOOLEAN, exitAtEnd : BOOLEAN]

Events == [type : {"STATE"}, playing : BOOLEAN, loop : BOOLEAN] \cup {Playhead, EndOfTrack}

TypeOK == deck \in DeckState /\ news \in Seq(Events)

(* The playhead, the scratch reader and a pending jump stay in the track,  *)
(* whatever is sought, jumped to, wrapped or resumed, although the slip    *)
(* shadow they resume from runs past the end.  There is one overrun: the   *)
(* frame that leaves a loop does not look for the end of the track, so a   *)
(* track with a loop may be passed.                                        *)
InTrack ==
    /\ deck.position >= 0 /\ deck.shadow >= 0 /\ deck.audio >= 0 /\ deck.aim >= 0
    /\ deck.jump.to # None => deck.jump.to \in 0 .. deck.frames
    /\ ~deck.available =>
          {deck.position, deck.audio, deck.aim} \subseteq 0 .. deck.frames

(* A loop, however it was set, scaled or moved, is a non-empty part of the *)
(* track, and an exit is only ever pending for a loop there is.            *)
LoopInTrack ==
    /\ deck.available => 0 <= deck.start /\ deck.start < deck.end /\ deck.end <= deck.frames
    /\ ~deck.available => deck.start = deck.end /\ ~deck.exitAtEnd

(* An active loop catches the playhead: after a frame in which the platter *)
(* turns, it is inside the loop, from wherever and in either direction,    *)
(* unless the loop was asked to end and did.                               *)
LoopCaptures ==
    [][deck'.active /\ Looping(deck) /\ Frame /\ Moving(Now)
        => deck'.start <= deck'.position /\ deck'.position < deck'.end]_vars

(* "Every command that changes a deck's loop state reports it", and so     *)
(* does every step that starts or stops the deck, with the values it ends  *)
(* with.  Two steps are silent: a track change, and the end of a slip      *)
(* reverse past the end of the track.                                      *)
ChangesReported ==
    [][\/ deck'.playing = deck.playing /\ deck'.active = deck.active
       \/ \E n \in Lengths : SetBuffer(n)
       \/ SetReverse(FALSE) /\ SlipReverseEnds(FALSE)
       \/ news' # <<>> /\ news'[Len(news')] = State(deck')]_vars

(* A frame stops a playing deck only at an end of the track: at its end,   *)
(* announced, or reversed to its start.                                    *)
StopsOnlyAtEnds ==
    [][deck.playing /\ ~deck'.playing /\ Frame =>
        \/ deck'.position = deck.frames /\ news' # <<>> /\ EndOfTrack \in {news'[i] : i \in 1 .. Len(news')}
        \/ deck.reverse /\ deck'.position = 0 /\ deck'.motor = 0]_vars

(* Left alone, a deck comes to rest, unless it loops, is held or pitch     *)
(* bent by a hand, or was started by a fader (see InstantStart).           *)
ComesToRest ==
    <>[][Frame]_vars =>
        <>[](deck.playing => deck.active \/ Scratching(deck) \/ deck.target = 0 \/ ~HasTrack)

(* "Zero seconds == the classic instant start/stop" (parso_engine_state    *)
(* .inc): without an eased brake, a deck that does not play and is not     *)
(* touched stands.  The code does not ensure it: see the run stopped_deck. *)
InstantStop ==
    [][~deck.playing /\ ~deck.touched /\ ~deck.easedBrake /\ deck.jump.to = None /\ Frame
        => deck'.position = deck.position]_vars

(* And a deck that plays, without an eased start, a loop or a hand on it,  *)
(* moves: "moving the fader up starts the deck" (README).  The code does   *)
(* not ensure it: see the run fader_start.                                 *)
InstantStart ==
    [][HasTrack /\ deck.playing /\ deck'.playing /\ ~deck.touched /\ ~deck.easedSpin /\ ~deck.active
         /\ deck.jump.to = None /\ Frame
        => deck'.position # deck.position]_vars
=============================================================================
