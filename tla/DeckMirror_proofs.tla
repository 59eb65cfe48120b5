-------------------------- MODULE DeckMirror_proofs --------------------------
(***************************************************************************)
(* A deck for every track, point, motor speed and session, and its mirror  *)
(* for every length of its queues.  A deck is sound if it is well typed,   *)
(* its track is one that may be loaded, and its playhead, its points and   *)
(* its loop lie where they should.  Every operator that makes a deck of    *)
(* another keeps it sound, so every step does; what a frame does to a      *)
(* loop, and what it reports, follows.  The mirror agrees with such a deck *)
(* because what is still to be read of its events ends as the deck is.     *)
(***************************************************************************)
EXTENDS DeckMirror, SequenceTheorems, WellFoundedInduction, TLAPS

(* InTrack and LoopInTrack of any deck, the playhead apart: a frame takes  *)
(* it out of the track before the loop and the ends put it back.           *)
PointsPlaced(d) ==
    /\ d.shadow >= 0 /\ d.audio >= 0 /\ d.aim >= 0
    /\ d.jump.to # None => d.jump.to \in 0 .. d.frames
    /\ ~d.available => d.audio <= d.frames /\ d.aim <= d.frames

LoopPlaced(d) ==
    /\ d.available => 0 <= d.start /\ d.start < d.end /\ d.end <= d.frames
    /\ ~d.available => d.start = d.end /\ ~d.exitAtEnd

MayStandAt(d, p) == p >= 0 /\ (~d.available => p <= d.frames)

(* A deck that has PCM has at least one frame of it.                       *)
SoundBut(d) ==
    /\ d \in DeckState
    /\ d.frames > 0 => d.frames >= Full
    /\ PointsPlaced(d) /\ LoopPlaced(d)

Sound(d) == SoundBut(d) /\ MayStandAt(d, d.position)

-----------------------------------------------------------------------------
(* Decks and points *)

LEMMA ClampIn ==
    ASSUME NEW x \in Int, NEW low \in Int, NEW high \in Int, low <= high
    PROVE  /\ Clamp(x, low, high) \in Int
           /\ low <= Clamp(x, low, high) /\ Clamp(x, low, high) <= high
           /\ low <= x /\ x <= high => Clamp(x, low, high) = x
  BY DEF Clamp

LEMMA Typed ==
    ASSUME NEW d \in DeckState
    PROVE  /\ d.frames \in Nat /\ d.position \in Int /\ d.shadow \in Int
           /\ d.playing \in BOOLEAN /\ d.motor \in 0 .. Full /\ d.target \in {0, Full}
           /\ d.slip \in BOOLEAN /\ d.reverse \in BOOLEAN /\ d.hand \in {-1, 0, 1}
           /\ d.easedBrake \in BOOLEAN /\ d.easedSpin \in BOOLEAN
           /\ d.touched \in BOOLEAN /\ d.vinyl \in BOOLEAN
           /\ d.audio \in Int /\ d.aim \in Int
           /\ d.jump \in [to : Int \cup {None}, wait : Nat]
           /\ d.jump.to \in Int \cup {None} /\ d.jump.wait \in Nat
           /\ d.loopIn \in Int \cup {None}
           /\ d.start \in Int /\ d.end \in Int
           /\ d.available \in BOOLEAN /\ d.active \in BOOLEAN /\ d.exitAtEnd \in BOOLEAN
  BY DEF DeckState

(* A deck with one field changed is a deck.                                *)
LEMMA OneField ==
    ASSUME NEW d \in DeckState
    PROVE  /\ \A v \in Int : /\ [d EXCEPT !.position = v] \in DeckState
                             /\ [d EXCEPT !.shadow = v] \in DeckState
                             /\ [d EXCEPT !.audio = v] \in DeckState
                             /\ [d EXCEPT !.aim = v] \in DeckState
                             /\ [d EXCEPT !.start = v] \in DeckState
                             /\ [d EXCEPT !.end = v] \in DeckState
           /\ \A v \in BOOLEAN : /\ [d EXCEPT !.playing = v] \in DeckState
                                 /\ [d EXCEPT !.easedBrake = v] \in DeckState
                                 /\ [d EXCEPT !.easedSpin = v] \in DeckState
                                 /\ [d EXCEPT !.slip = v] \in DeckState
                                 /\ [d EXCEPT !.reverse = v] \in DeckState
                                 /\ [d EXCEPT !.touched = v] \in DeckState
                                 /\ [d EXCEPT !.vinyl = v] \in DeckState
                                 /\ [d EXCEPT !.available = v] \in DeckState
                                 /\ [d EXCEPT !.active = v] \in DeckState
                                 /\ [d EXCEPT !.exitAtEnd = v] \in DeckState
           /\ \A v \in 0 .. Full : [d EXCEPT !.motor = v] \in DeckState
           /\ \A v \in {0, Full} : [d EXCEPT !.target = v] \in DeckState
           /\ \A v \in {-1, 0, 1} : [d EXCEPT !.hand = v] \in DeckState
           /\ \A v \in Int \cup {None} : [d EXCEPT !.loopIn = v] \in DeckState
           /\ \A v \in [to : Int \cup {None}, wait : Nat] : [d EXCEPT !.jump = v] \in DeckState
<1> USE DEF DeckState
<1>1. \A v \in Int : [d EXCEPT !.position = v] \in DeckState
  OBVIOUS
<1>2. \A v \in Int : [d EXCEPT !.shadow = v] \in DeckState
  OBVIOUS
<1>3. \A v \in Int : [d EXCEPT !.audio = v] \in DeckState
  OBVIOUS
<1>4. \A v \in Int : [d EXCEPT !.aim = v] \in DeckState
  OBVIOUS
<1>5. \A v \in Int : [d EXCEPT !.start = v] \in DeckState
  OBVIOUS
<1>6. \A v \in Int : [d EXCEPT !.end = v] \in DeckState
  OBVIOUS
<1>7. \A v \in BOOLEAN : [d EXCEPT !.playing = v] \in DeckState
  OBVIOUS
<1>8. \A v \in BOOLEAN : [d EXCEPT !.easedBrake = v] \in DeckState
  OBVIOUS
<1>9. \A v \in BOOLEAN : [d EXCEPT !.easedSpin = v] \in DeckState
  OBVIOUS
<1>10. \A v \in BOOLEAN : [d EXCEPT !.slip = v] \in DeckState
  OBVIOUS
<1>11. \A v \in BOOLEAN : [d EXCEPT !.reverse = v] \in DeckState
  OBVIOUS
<1>12. \A v \in BOOLEAN : [d EXCEPT !.touched = v] \in DeckState
  OBVIOUS
<1>13. \A v \in BOOLEAN : [d EXCEPT !.vinyl = v] \in DeckState
  OBVIOUS
<1>14. \A v \in BOOLEAN : [d EXCEPT !.available = v] \in DeckState
  OBVIOUS
<1>15. \A v \in BOOLEAN : [d EXCEPT !.active = v] \in DeckState
  OBVIOUS
<1>16. \A v \in BOOLEAN : [d EXCEPT !.exitAtEnd = v] \in DeckState
  OBVIOUS
<1>17. \A v \in 0 .. Full : [d EXCEPT !.motor = v] \in DeckState
  OBVIOUS
<1>18. \A v \in {0, Full} : [d EXCEPT !.target = v] \in DeckState
  OBVIOUS
<1>19. \A v \in {-1, 0, 1} : [d EXCEPT !.hand = v] \in DeckState
  OBVIOUS
<1>20. \A v \in Int \cup {None} : [d EXCEPT !.loopIn = v] \in DeckState
  OBVIOUS
<1>21. \A v \in [to : Int \cup {None}, wait : Nat] : [d EXCEPT !.jump = v] \in DeckState
  OBVIOUS
<1> HIDE DEF DeckState
<1> QED
  BY <1>1, <1>2, <1>3, <1>4, <1>5, <1>6, <1>7, <1>8, <1>9, <1>10, <1>11, <1>12, <1>13, <1>14,
     <1>15, <1>16, <1>17, <1>18, <1>19, <1>20, <1>21

(* What soundness is about; the rest of a deck may change freely.          *)
Track(d) == <<d.frames, d.shadow, d.audio, d.aim, d.jump.to, d.available, d.start, d.end, d.exitAtEnd>>

LEMMA SameTrack ==
    ASSUME NEW d, SoundBut(d), NEW e \in DeckState, Track(e) = Track(d)
    PROVE  SoundBut(e)
  BY DEF SoundBut, Track, PointsPlaced, LoopPlaced

LEMMA SamePlace ==
    ASSUME NEW d, Sound(d), NEW e \in DeckState, Track(e) = Track(d), e.position = d.position
    PROVE  Sound(e)
<1>1. SoundBut(e)
  BY SameTrack DEF Sound
<1> QED
  BY <1>1 DEF Sound, Track, MayStandAt

-----------------------------------------------------------------------------
(* The operators that make a deck of another *)

LEMMA LoadedSound ==
    ASSUME NEW n \in Lengths \cup {0}, NEW b \in BOOLEAN, NEW s \in BOOLEAN
    PROVE  Sound(Loaded(n, b, s))
<1>1. n \in Nat /\ (n > 0 => n >= Full)
  BY TransportAssumption
<1>2. Loaded(n, b, s) \in DeckState
  BY <1>1, TransportAssumption DEF Loaded, DeckState, NoJump
<1> QED
  BY <1>1, <1>2 DEF Loaded, NoJump, Sound, SoundBut, PointsPlaced, LoopPlaced, MayStandAt

LEMMA AtSound ==
    ASSUME NEW d, SoundBut(d), NEW p \in Int, MayStandAt(d, p)
    PROVE  /\ Sound(At(d, p))
           /\ At(d, p).frames = d.frames /\ At(d, p).position = p
           /\ At(d, p).playing = d.playing /\ At(d, p).active = d.active
           /\ At(d, p).reverse = d.reverse /\ At(d, p).start = d.start /\ At(d, p).end = d.end
<1>0. d \in DeckState /\ p >= 0
  BY DEF SoundBut, MayStandAt
<1>1. At(d, p) \in DeckState
  BY <1>0, OneField DEF At
<1>2. /\ At(d, p).frames = d.frames /\ At(d, p).position = p /\ At(d, p).shadow = p
      /\ At(d, p).audio = d.audio /\ At(d, p).aim = d.aim /\ At(d, p).jump = d.jump
      /\ At(d, p).available = d.available /\ At(d, p).start = d.start /\ At(d, p).end = d.end
      /\ At(d, p).exitAtEnd = d.exitAtEnd
      /\ At(d, p).playing = d.playing /\ At(d, p).active = d.active
      /\ At(d, p).reverse = d.reverse
  BY <1>0 DEF At, DeckState
<1>3. PointsPlaced(At(d, p)) /\ LoopPlaced(At(d, p))
  BY <1>0, <1>2 DEF SoundBut, PointsPlaced, LoopPlaced
<1> QED
  BY <1>0, <1>1, <1>2, <1>3 DEF Sound, SoundBut, MayStandAt

LEMMA LandSound ==
    ASSUME NEW d, SoundBut(d), NEW p \in 0 .. d.frames
    PROVE  /\ Sound(Land(d, p))
           /\ Land(d, p).frames = d.frames /\ Land(d, p).position = p
           /\ Land(d, p).playing = d.playing /\ Land(d, p).active = d.active
           /\ Land(d, p).reverse = d.reverse
           /\ Land(d, p).start = d.start /\ Land(d, p).end = d.end
<1> DEFINE a == At(d, p)
           l == [a EXCEPT !.jump = NoJump]
<1>0. p \in Int /\ MayStandAt(d, p)
  BY Typed DEF SoundBut, MayStandAt
<1>1. Sound(a) /\ a \in DeckState /\ a.position = p /\ a.frames = d.frames
      /\ a.playing = d.playing /\ a.active = d.active
      /\ a.reverse = d.reverse /\ a.start = d.start /\ a.end = d.end
  BY <1>0, AtSound DEF Sound, SoundBut
<1> HIDE DEF a
<1>2. NoJump \in [to : Int \cup {None}, wait : Nat] /\ NoJump.to = None
  BY DEF NoJump
<1>3. l \in DeckState
  BY <1>1, <1>2, OneField
<1>4. /\ l.jump.to = None /\ l.frames = a.frames /\ l.position = a.position
      /\ l.shadow = a.shadow /\ l.audio = a.audio /\ l.aim = a.aim
      /\ l.available = a.available /\ l.start = a.start /\ l.end = a.end
      /\ l.exitAtEnd = a.exitAtEnd /\ l.playing = a.playing /\ l.active = a.active
      /\ l.reverse = a.reverse
  BY <1>1, <1>2 DEF DeckState
<1>5. Land(d, p) = l
  BY DEF Land, a
<1> HIDE DEF l
<1>6. Sound(l)
  BY <1>1, <1>3, <1>4 DEF Sound, SoundBut, PointsPlaced, LoopPlaced, MayStandAt
<1> QED
  BY <1>1, <1>4, <1>5, <1>6

LEMMA SpinUpSound ==
    ASSUME NEW d, Sound(d)
    PROVE  /\ Sound(SpinUp(d))
           /\ SpinUp(d).playing /\ SpinUp(d).active = d.active
<1> DEFINE m == IF d.easedSpin THEN d.motor ELSE Full
<1>0. d \in DeckState
  BY DEF Sound, SoundBut
<1>1. SpinUp(d) = [d EXCEPT !.playing = TRUE, !.target = Full, !.motor = m]
  BY <1>0 DEF SpinUp, DeckState
<1>2. m \in 0 .. Full
  BY <1>0, TransportAssumption, Typed
<1>3. Track(SpinUp(d)) = Track(d) /\ SpinUp(d).position = d.position
      /\ SpinUp(d).playing /\ SpinUp(d).active = d.active
  BY <1>0 DEF SpinUp, DeckState, Track
<1> HIDE DEF m
<1>4. [d EXCEPT !.playing = TRUE, !.target = Full, !.motor = m] \in DeckState
  BY <1>0, <1>2, OneField
<1> QED
  BY <1>1, <1>3, <1>4, SamePlace

LEMMA BrakeSound ==
    ASSUME NEW d, Sound(d)
    PROVE  /\ Sound(Brake(d))
           /\ ~Brake(d).playing /\ Brake(d).active = d.active
<1> DEFINE m == IF d.easedBrake THEN d.motor ELSE 0
<1>0. d \in DeckState
  BY DEF Sound, SoundBut
<1>1. Brake(d) = [d EXCEPT !.playing = FALSE, !.target = 0, !.motor = m]
  BY <1>0 DEF Brake, DeckState
<1>2. m \in 0 .. Full
  BY <1>0, TransportAssumption, Typed
<1>3. Track(Brake(d)) = Track(d) /\ Brake(d).position = d.position
      /\ ~Brake(d).playing /\ Brake(d).active = d.active
  BY <1>0 DEF Brake, DeckState, Track
<1> HIDE DEF m
<1>4. [d EXCEPT !.playing = FALSE, !.target = 0, !.motor = m] \in DeckState
  BY <1>0, <1>2, OneField
<1> QED
  BY <1>1, <1>3, <1>4, SamePlace

LEMMA ResumeSound ==
    ASSUME NEW d, Sound(d)
    PROVE  Sound(Resume(d)) /\ Resume(d).active = d.active
<1> DEFINE p == Clamp(d.shadow, 0, d.frames)
           b == d.playing /\ d.shadow < d.frames
           r == [d EXCEPT !.position = p, !.playing = b]
<1>0. d \in DeckState /\ d.frames \in Nat /\ d.shadow \in Int
  BY Typed DEF Sound, SoundBut
<1>1. p \in Int /\ 0 <= p /\ p <= d.frames
  BY <1>0 DEF Clamp
<1>2. b \in BOOLEAN
  OBVIOUS
<1>3. Resume(d) = r
  BY <1>0 DEF Resume, DeckState
<1> HIDE DEF p, b
<1>4. r \in DeckState
  BY <1>0, <1>1, <1>2, OneField
<1>5. Track(r) = Track(d) /\ r.frames = d.frames /\ r.position = p /\ r.active = d.active
  BY <1>0 DEF DeckState, Track
<1> HIDE DEF r
<1>6. SoundBut(r)
  BY <1>4, <1>5, SameTrack DEF Sound
<1> QED
  BY <1>1, <1>3, <1>5, <1>6 DEF Sound, MayStandAt

(* Whatever two points setLoop is given, it makes a loop in the track or   *)
(* leaves the deck as it is.                                               *)
LEMMA WithLoopSound ==
    ASSUME NEW d, Sound(d), NEW p \in Int, NEW q \in Int
    PROVE  Sound(WithLoop(d, p, q)) /\ WithLoop(d, p, q).playing = d.playing
<1> DEFINE s == Clamp(IF p < q THEN p ELSE q, 0, d.frames)
           e == Clamp(IF p < q THEN q ELSE p, 0, d.frames)
           l == [d EXCEPT !.start = s, !.end = e, !.available = TRUE, !.active = TRUE]
<1>0. d \in DeckState /\ d.frames \in Nat
  BY Typed DEF Sound, SoundBut
<1>1. s \in Int /\ 0 <= s /\ e \in Int /\ e <= d.frames
  BY <1>0 DEF Clamp
<1>2. WithLoop(d, p, q) = IF s < e THEN l ELSE d
  BY DEF WithLoop
<1> HIDE DEF s, e
<1>3. l \in DeckState
  BY <1>0, <1>1, OneField
<1>4. /\ l.frames = d.frames /\ l.position = d.position /\ l.shadow = d.shadow
      /\ l.audio = d.audio /\ l.aim = d.aim /\ l.jump = d.jump
      /\ l.start = s /\ l.end = e /\ l.available /\ l.playing = d.playing
  BY <1>0 DEF DeckState
<1> HIDE DEF l
<1>5. s < e => Sound(l)
  BY <1>1, <1>3, <1>4 DEF Sound, SoundBut, PointsPlaced, LoopPlaced, MayStandAt
<1> QED
  BY <1>2, <1>4, <1>5

-----------------------------------------------------------------------------
(* Events *)

LEMMA NewsMade ==
    ASSUME NEW d \in DeckState
    PROVE  /\ <<>> \in Seq(Events) /\ <<Playhead>> \in Seq(Events)
           /\ <<State(d)>> \in Seq(Events) /\ <<EndOfTrack, State(d)>> \in Seq(Events)
  BY Typed DEF Events, State

(* A step tells of what it started, stopped, entered or left, last.        *)
Reported ==
    \/ deck'.playing = deck.playing /\ deck'.active = deck.active
    \/ news' # <<>> /\ news'[Len(news')] = State(deck')

Fine == Sound(deck') /\ news' \in Seq(Events) /\ Reported

LEMMA LastTold ==
    ASSUME NEW e \in Events, NEW told \in Seq(Events)
    PROVE  /\ told \o <<e>> \in Seq(Events) /\ told \o <<e>> # <<>>
           /\ (told \o <<e>>)[Len(told \o <<e>>)] = e
<1>1. <<e>> \in Seq(Events) /\ Len(<<e>>) = 1 /\ <<e>>[1] = e
  OBVIOUS
<1>2. Len(told) \in Nat
  BY LenProperties
<1>3. /\ told \o <<e>> \in Seq(Events)
      /\ Len(told \o <<e>>) = Len(told) + 1
      /\ (told \o <<e>>)[Len(told) + 1] = e
  BY <1>1, <1>2, ConcatProperties
<1> QED
  BY <1>2, <1>3, EmptySeq

LEMMA Applied ==
    ASSUME Sound(deck), NEW d, Sound(d), NEW told \in Seq(Events), Apply(d, told)
    PROVE  /\ Sound(deck') /\ news' \in Seq(Events)
           /\ d.playing = deck.playing \/ d.active # deck.active \/ told = <<State(d)>>
                => Reported
<1>1. deck' = d /\ State(d) \in Events
  BY Typed DEF Apply, Sound, SoundBut, State, Events
<1>2. CASE d.active # deck.active
  <2>1. news' = told \o <<State(d)>>
    BY <1>2 DEF Apply
  <2> QED
    BY <1>1, <2>1, LastTold DEF Reported
<1>3. CASE d.active = deck.active
  <2>1. news' = told \o <<>>
    BY <1>3 DEF Apply
  <2>2. news' = told
    BY <2>1, ConcatEmptySeq
  <2>3. told = <<State(d)>> => told # <<>> /\ told[Len(told)] = State(d)
    OBVIOUS
  <2> QED
    BY <1>1, <1>3, <2>2, <2>3 DEF Reported
<1> QED
  BY <1>2, <1>3

-----------------------------------------------------------------------------
(* Commands: play, pause and the jog wheel *)

LEMMA PlayFine == ASSUME Sound(deck), Play PROVE Fine
<1> DEFINE e == [deck EXCEPT !.shadow = deck.position]
<1>0. deck \in DeckState /\ deck.position \in Int /\ deck.position >= 0
  BY Typed DEF Sound, SoundBut, MayStandAt
<1>1. e \in DeckState
  BY <1>0, OneField
<1>2. /\ e.frames = deck.frames /\ e.position = deck.position /\ e.shadow = deck.position
      /\ e.audio = deck.audio /\ e.aim = deck.aim /\ e.jump = deck.jump
      /\ e.available = deck.available /\ e.start = deck.start /\ e.end = deck.end
      /\ e.exitAtEnd = deck.exitAtEnd /\ e.active = deck.active
  BY <1>0 DEF DeckState
<1>3. Apply(SpinUp(e), <<State(SpinUp(e))>>)
  BY DEF Play
<1> HIDE DEF e
<1>4. Sound(e)
  BY <1>0, <1>1, <1>2 DEF Sound, SoundBut, PointsPlaced, LoopPlaced, MayStandAt
<1>5. Sound(SpinUp(e)) /\ SpinUp(e) \in DeckState
  BY <1>4, SpinUpSound DEF Sound, SoundBut
<1> QED
  BY <1>3, <1>5, NewsMade, Applied DEF Fine

LEMMA PauseFine == ASSUME Sound(deck), Pause PROVE Fine
<1>1. Sound(Brake(deck)) /\ Brake(deck) \in DeckState
  BY BrakeSound DEF Sound, SoundBut
<1> QED
  BY <1>1, NewsMade, Applied DEF Fine, Pause

(* A command that only changes fields soundness is not about.              *)
LEMMA QuietFine ==
    ASSUME Sound(deck), NEW d \in DeckState, Track(d) = Track(deck), d.position = deck.position,
           d.playing = deck.playing \/ d.active # deck.active, Apply(d, <<>>)
    PROVE  Fine
<1>1. Sound(d) /\ deck \in DeckState
  BY SamePlace DEF Sound, SoundBut
<1> QED
  BY <1>1, NewsMade, Applied DEF Fine

LEMMA IgnoreFine == ASSUME Sound(deck), Ignore PROVE Fine
  BY QuietFine DEF Ignore, Sound, SoundBut

LEMMA VinylSpeedFine ==
    ASSUME Sound(deck), NEW brake \in BOOLEAN, NEW spin \in BOOLEAN, VinylSpeed(brake, spin)
    PROVE  Fine
<1> DEFINE d == [deck EXCEPT !.easedBrake = brake, !.easedSpin = spin]
<1>0. deck \in DeckState
  BY DEF Sound, SoundBut
<1>1. d \in DeckState
  BY <1>0, OneField
<1>2. Track(d) = Track(deck) /\ d.position = deck.position /\ d.playing = deck.playing
  BY <1>0 DEF Track, DeckState
<1> QED
  BY <1>1, <1>2, QuietFine DEF VinylSpeed

LEMMA JogTouchFine ==
    ASSUME Sound(deck), NEW vinyl \in BOOLEAN, JogTouch(vinyl)
    PROVE  Fine
<1> DEFINE d == [deck EXCEPT !.touched = TRUE, !.vinyl = vinyl, !.hand = 0,
                             !.audio = deck.position, !.aim = deck.position]
<1>0. deck \in DeckState /\ deck.position \in Int
  BY Typed DEF Sound, SoundBut
<1>1. d \in DeckState
  BY <1>0, OneField
<1>2. /\ d.frames = deck.frames /\ d.position = deck.position /\ d.shadow = deck.shadow
      /\ d.audio = deck.position /\ d.aim = deck.position /\ d.jump = deck.jump
      /\ d.available = deck.available /\ d.start = deck.start /\ d.end = deck.end
      /\ d.exitAtEnd = deck.exitAtEnd /\ d.active = deck.active /\ d.playing = deck.playing
  BY <1>0 DEF DeckState
<1>3. IF vinyl /\ d.playing THEN Apply(Brake(d), <<State(Brake(d))>>) ELSE Apply(d, <<>>)
  BY DEF JogTouch
<1> HIDE DEF d
<1>4. Sound(d)
  BY <1>0, <1>1, <1>2 DEF Sound, SoundBut, PointsPlaced, LoopPlaced, MayStandAt
<1>5. Sound(Brake(d)) /\ Brake(d) \in DeckState
  BY <1>4, BrakeSound DEF Sound, SoundBut
<1> QED
  BY <1>1, <1>2, <1>3, <1>4, <1>5, NewsMade, Applied DEF Fine

LEMMA JogMoveFine ==
    ASSUME Sound(deck), NEW m \in {-1, 1}, JogMove(m)
    PROVE  Fine
<1> DEFINE aim == Clamp(deck.aim + m, 0, deck.frames - Full)
           found == Clamp(deck.position + m, 0, deck.frames)
           a == At(deck, aim)
           h == IF m < 0 THEN -1 ELSE 1
           d == [a EXCEPT !.aim = aim, !.hand = h]
<1>0. /\ deck \in DeckState /\ SoundBut(deck) /\ Full \in Nat
      /\ deck.frames \in Nat /\ deck.position \in Int /\ deck.aim \in Int
  BY Typed, TransportAssumption DEF Sound, SoundBut
<1>1. CASE ~HasTrack
  BY <1>1, IgnoreFine DEF JogMove
<1>2. CASE HasTrack
  <2>1. /\ aim \in 0 .. deck.frames /\ aim \in Int /\ MayStandAt(deck, aim)
        /\ found \in Int /\ MayStandAt(deck, found)
    BY <1>0, <1>2 DEF Clamp, HasTrack, SoundBut, MayStandAt
  <2>2. Apply(IF Scratching(deck) THEN d ELSE IF deck.touched THEN deck ELSE At(deck, found),
              <<Playhead>>)
    BY <1>2 DEF JogMove
  <2> HIDE DEF aim, found
  <2>3. Sound(At(deck, found)) /\ At(deck, found).playing = deck.playing
    BY <1>0, <2>1, AtSound
  <2>4. Sound(a) /\ a \in DeckState /\ a.playing = deck.playing /\ a.frames = deck.frames
    BY <1>0, <2>1, AtSound DEF Sound, SoundBut
  <2> HIDE DEF a
  <2>5. h \in {-1, 0, 1}
    OBVIOUS
  <2> HIDE DEF h
  <2>6. d \in DeckState
    BY <2>1, <2>4, <2>5, OneField
  <2>7. /\ d.frames = a.frames /\ d.position = a.position /\ d.shadow = a.shadow
        /\ d.audio = a.audio /\ d.aim = aim /\ d.jump = a.jump
        /\ d.available = a.available /\ d.start = a.start /\ d.end = a.end
        /\ d.exitAtEnd = a.exitAtEnd /\ d.active = a.active /\ d.playing = a.playing
    BY <2>4 DEF DeckState
  <2> HIDE DEF d
  <2>8. Sound(d)
    BY <2>1, <2>4, <2>6, <2>7 DEF Sound, SoundBut, PointsPlaced, LoopPlaced, MayStandAt
  <2> DEFINE e == IF Scratching(deck) THEN d ELSE IF deck.touched THEN deck ELSE At(deck, found)
  <2>9. Sound(e) /\ e.playing = deck.playing
    BY <2>3, <2>4, <2>7, <2>8
  <2> HIDE DEF e
  <2>10. Apply(e, <<Playhead>>)
    BY <2>2 DEF e
  <2> QED
    BY <1>0, <2>9, <2>10, NewsMade, Applied DEF Fine
<1> QED
  BY <1>1, <1>2

LEMMA JogReleaseFine ==
    ASSUME Sound(deck), NEW playOn \in BOOLEAN, JogRelease(playOn)
    PROVE  Fine
<1> DEFINE a == IF Scratching(deck) THEN At(deck, deck.audio) ELSE deck
           d == [a EXCEPT !.touched = FALSE, !.vinyl = FALSE, !.hand = 0]
<1>0. /\ SoundBut(deck) /\ deck \in DeckState /\ deck.audio \in Int /\ MayStandAt(deck, deck.audio)
  BY Typed DEF Sound, SoundBut, PointsPlaced, MayStandAt
<1>1. Sound(At(deck, deck.audio)) /\ At(deck, deck.audio).playing = deck.playing
  BY <1>0, AtSound
<1>2. Sound(a) /\ a \in DeckState /\ a.playing = deck.playing
  BY <1>0, <1>1 DEF Sound, SoundBut
<1>3. IF playOn /\ d.position < d.frames THEN Apply(SpinUp(d), <<State(SpinUp(d))>>)
                                        ELSE Apply(d, <<>>)
  BY DEF JogRelease
<1> HIDE DEF a
<1>4. d \in DeckState
  BY <1>2, OneField
<1>5. Track(d) = Track(a) /\ d.position = a.position /\ d.playing = a.playing
  BY <1>2 DEF Track, DeckState
<1> HIDE DEF d
<1>6. Sound(d)
  BY <1>2, <1>4, <1>5, SamePlace
<1>7. Sound(SpinUp(d)) /\ SpinUp(d) \in DeckState
  BY <1>6, SpinUpSound DEF Sound, SoundBut
<1> QED
  BY <1>2, <1>3, <1>4, <1>5, <1>6, <1>7, NewsMade, Applied DEF Fine

-----------------------------------------------------------------------------
(* Commands: moving the playhead, slip and reverse *)

(* A command that puts a sound deck in place, and tells at most of that.   *)
LEMMA PutFine ==
    ASSUME Sound(deck), NEW d, Sound(d), d.playing = deck.playing,
           Apply(d, <<Playhead>>) \/ Apply(d, <<>>)
    PROVE  Fine
<1>1. d \in DeckState
  BY DEF Sound, SoundBut
<1> QED
  BY <1>1, NewsMade, Applied DEF Fine

LEMMA SeekFine ==
    ASSUME Sound(deck), NEW p \in Int, Seek(p)
    PROVE  Fine
<1>1. SoundBut(deck) /\ Clamp(p, 0, deck.frames) \in 0 .. deck.frames
  BY Typed DEF Clamp, Sound, SoundBut
<1> QED
  BY <1>1, LandSound, PutFine, IgnoreFine DEF Seek

LEMMA JumpFine ==
    ASSUME Sound(deck), NEW p \in Int, NEW wait \in Nat, Jump(p, wait)
    PROVE  Fine
<1> DEFINE to == Clamp(p, 0, deck.frames)
           j == [to |-> to, wait |-> wait]
           d == [deck EXCEPT !.jump = j]
<1>0. SoundBut(deck) /\ deck \in DeckState
  BY DEF Sound, SoundBut
<1>1. to \in 0 .. deck.frames /\ to \in Int
  BY <1>0, Typed DEF Clamp
<1>2. IF wait = 0 THEN Apply(Land(deck, to), <<Playhead>>) ELSE Apply(d, <<>>)
  BY DEF Jump
<1> HIDE DEF to
<1>3. Sound(Land(deck, to)) /\ Land(deck, to).playing = deck.playing
  BY <1>0, <1>1, LandSound
<1>4. j \in [to : Int \cup {None}, wait : Nat] /\ j.to = to
  BY <1>1
<1> HIDE DEF j
<1>5. d \in DeckState
  BY <1>0, <1>4, OneField
<1>6. /\ d.frames = deck.frames /\ d.position = deck.position /\ d.shadow = deck.shadow
      /\ d.audio = deck.audio /\ d.aim = deck.aim /\ d.jump.to = to
      /\ d.available = deck.available /\ d.start = deck.start /\ d.end = deck.end
      /\ d.exitAtEnd = deck.exitAtEnd /\ d.playing = deck.playing
  BY <1>0, <1>4 DEF DeckState
<1> HIDE DEF d
<1>7. Sound(d)
  BY <1>1, <1>5, <1>6 DEF Sound, SoundBut, PointsPlaced, LoopPlaced, MayStandAt
<1> QED
  BY <1>2, <1>3, <1>6, <1>7, PutFine

LEMMA SyncFine ==
    ASSUME Sound(deck), NEW p \in Int, Sync(p)
    PROVE  Fine
<1> DEFINE to == IF p < deck.frames THEN p ELSE deck.frames - Full
<1>0. SoundBut(deck) /\ deck \in DeckState /\ deck.frames \in Nat /\ Full \in Nat
  BY Typed, TransportAssumption DEF Sound, SoundBut
<1>1. HasTrack /\ p >= 0 => to \in Int /\ MayStandAt(deck, to)
  BY <1>0 DEF HasTrack, SoundBut, MayStandAt
<1>2. Apply(IF HasTrack /\ p >= 0 THEN At(deck, to) ELSE deck, <<Playhead>>)
  BY DEF Sync
<1> HIDE DEF to
<1>3. HasTrack /\ p >= 0 => Sound(At(deck, to)) /\ At(deck, to).playing = deck.playing
  BY <1>0, <1>1, AtSound
<1> QED
  BY <1>2, <1>3, PutFine

LEMMA SetSlipFine ==
    ASSUME Sound(deck), NEW on \in BOOLEAN, SetSlip(on)
    PROVE  Fine
<1> DEFINE p == IF on THEN deck.position ELSE deck.shadow
           d == [deck EXCEPT !.slip = on, !.shadow = p]
<1>0. deck \in DeckState
  BY DEF Sound, SoundBut
<1>1. p \in Int /\ p >= 0
  BY <1>0, Typed DEF Sound, SoundBut, PointsPlaced, MayStandAt
<1>2. Apply(d, <<>>)
  BY <1>0 DEF SetSlip, DeckState
<1> HIDE DEF p
<1>3. d \in DeckState
  BY <1>0, <1>1, OneField
<1>4. /\ d.frames = deck.frames /\ d.position = deck.position /\ d.shadow = p
      /\ d.audio = deck.audio /\ d.aim = deck.aim /\ d.jump = deck.jump
      /\ d.available = deck.available /\ d.start = deck.start /\ d.end = deck.end
      /\ d.exitAtEnd = deck.exitAtEnd /\ d.playing = deck.playing
  BY <1>0 DEF DeckState
<1> HIDE DEF d
<1>5. Sound(d)
  BY <1>1, <1>3, <1>4 DEF Sound, SoundBut, PointsPlaced, LoopPlaced, MayStandAt
<1> QED
  BY <1>2, <1>4, <1>5, PutFine

(* Only the end of a slip reverse may stop the deck without a word.        *)
LEMMA SetReverseFine ==
    ASSUME Sound(deck), NEW on \in BOOLEAN, SetReverse(on)
    PROVE  Sound(deck') /\ news' \in Seq(Events) /\ (Reported \/ SlipReverseEnds(on))
<1> DEFINE a == IF SlipReverseEnds(on) THEN Resume(deck) ELSE deck
           p == IF on /\ a.slip THEN a.position ELSE a.shadow
           d == [a EXCEPT !.reverse = on, !.shadow = p]
           told == IF SlipReverseEnds(on) THEN <<Playhead>> ELSE <<>>
<1>1. Sound(a) /\ a \in DeckState /\ (~SlipReverseEnds(on) => a.playing = deck.playing)
  BY ResumeSound DEF Sound, SoundBut
<1>2. Apply([a EXCEPT !.reverse = on, !.shadow = IF on /\ a.slip THEN a.position ELSE @], told)
  BY DEF SetReverse
<1> HIDE DEF a
<1>3. p \in Int /\ p >= 0
  BY <1>1, Typed DEF Sound, SoundBut, PointsPlaced, MayStandAt
<1>4. Apply(d, told)
  BY <1>1, <1>2 DEF DeckState
<1> HIDE DEF p
<1>5. d \in DeckState
  BY <1>1, <1>3, OneField
<1>6. /\ d.frames = a.frames /\ d.position = a.position /\ d.shadow = p
      /\ d.audio = a.audio /\ d.aim = a.aim /\ d.jump = a.jump
      /\ d.available = a.available /\ d.start = a.start /\ d.end = a.end
      /\ d.exitAtEnd = a.exitAtEnd /\ d.playing = a.playing
  BY <1>1 DEF DeckState
<1> HIDE DEF d
<1>7. Sound(d)
  BY <1>1, <1>3, <1>5, <1>6 DEF Sound, SoundBut, PointsPlaced, LoopPlaced, MayStandAt
<1>8. told \in Seq(Events)
  BY <1>5, NewsMade
<1> HIDE DEF told
<1> QED
  BY <1>1, <1>4, <1>6, <1>7, <1>8, Applied

-----------------------------------------------------------------------------
(* Commands: loops.  One that only turns the loop on or off, or cancels an *)
(* exit, leaves the deck as sound as it was.                               *)
LEMMA TurnedSound ==
    ASSUME NEW d, Sound(d), NEW on \in BOOLEAN, NEW exit \in BOOLEAN, exit => d.available
    PROVE  /\ Sound([d EXCEPT !.active = on]) /\ [d EXCEPT !.active = on].playing = d.playing
           /\ Sound([d EXCEPT !.exitAtEnd = exit])
           /\ [d EXCEPT !.exitAtEnd = exit].playing = d.playing
<1> DEFINE a == [d EXCEPT !.active = on]
           e == [d EXCEPT !.exitAtEnd = exit]
<1>0. d \in DeckState
  BY DEF Sound, SoundBut
<1>1. a \in DeckState /\ e \in DeckState
  BY <1>0, OneField
<1>2. Track(a) = Track(d) /\ a.position = d.position /\ a.playing = d.playing
  BY <1>0 DEF Track, DeckState
<1>3. /\ e.frames = d.frames /\ e.position = d.position /\ e.shadow = d.shadow
      /\ e.audio = d.audio /\ e.aim = d.aim /\ e.jump = d.jump
      /\ e.available = d.available /\ e.start = d.start /\ e.end = d.end
      /\ e.exitAtEnd = exit /\ e.playing = d.playing
  BY <1>0 DEF DeckState
<1> HIDE DEF a, e
<1>4. Sound(a)
  BY <1>1, <1>2, SamePlace
<1>5. Sound(e)
  BY <1>1, <1>3 DEF Sound, SoundBut, PointsPlaced, LoopPlaced, MayStandAt
<1> QED
  BY <1>2, <1>3, <1>4, <1>5 DEF a, e

LEMMA LoopInFine ==
    ASSUME Sound(deck), NEW p \in Int, LoopIn(p)
    PROVE  Fine
<1> DEFINE q == Clamp(p, 0, deck.frames)
           d == [deck EXCEPT !.loopIn = q]
<1>0. deck \in DeckState /\ deck.frames \in Nat
  BY Typed DEF Sound, SoundBut
<1>1. q \in Int \cup {None}
  BY <1>0 DEF Clamp
<1>2. Apply(d, <<>>)
  BY DEF LoopIn
<1> HIDE DEF q
<1>3. d \in DeckState
  BY <1>0, <1>1, OneField
<1>4. Track(d) = Track(deck) /\ d.position = deck.position /\ d.playing = deck.playing
  BY <1>0 DEF Track, DeckState
<1> QED
  BY <1>2, <1>3, <1>4, QuietFine

LEMMA LoopOutFine ==
    ASSUME Sound(deck), NEW p \in Int, LoopOut(p)
    PROVE  Fine
<1> DEFINE w == WithLoop(deck, deck.loopIn, p)
           d == [w EXCEPT !.loopIn = None]
<1>1. CASE deck.loopIn = None
  BY <1>1, IgnoreFine DEF LoopOut
<1>2. CASE deck.loopIn # None
  <2>1. deck.loopIn \in Int
    BY <1>2, Typed DEF Sound, SoundBut
  <2>2. Sound(w) /\ w \in DeckState /\ w.playing = deck.playing
    BY <2>1, WithLoopSound DEF Sound, SoundBut
  <2>3. Apply(d, <<>>)
    BY <1>2 DEF LoopOut
  <2> HIDE DEF w
  <2>4. d \in DeckState
    BY <2>2, OneField
  <2>5. Track(d) = Track(w) /\ d.position = w.position /\ d.playing = w.playing
    BY <2>2 DEF Track, DeckState
  <2> HIDE DEF d
  <2> QED
    BY <2>2, <2>3, <2>4, <2>5, SamePlace, PutFine
<1> QED
  BY <1>1, <1>2

LEMMA ReloopExitFine == ASSUME Sound(deck), ReloopExit PROVE Fine
<1> DEFINE d == [deck EXCEPT !.exitAtEnd = FALSE]
           left == [d EXCEPT !.active = FALSE]
           on == ~d.active /\ d.available
<1>1. deck \in DeckState
  BY DEF Sound, SoundBut
<1>2. Sound(d) /\ d.playing = deck.playing
  BY TurnedSound
<1>3. d.active = deck.active /\ left.active = FALSE
  BY <1>1 DEF DeckState
<1>4. IF d.active /\ d.slip THEN Apply(Resume(left), <<Playhead>>)
                            ELSE Apply([d EXCEPT !.active = on], <<>>)
  BY DEF ReloopExit
<1>5. on \in BOOLEAN
  OBVIOUS
<1> HIDE DEF d, on
<1>6. Sound(left) /\ Sound([d EXCEPT !.active = on]) /\ [d EXCEPT !.active = on].playing = d.playing
  BY <1>2, <1>5, TurnedSound
<1> HIDE DEF left
<1>7. CASE d.active /\ d.slip
  <2>1. Sound(Resume(left)) /\ Resume(left).active # deck.active
    BY <1>3, <1>6, <1>7, ResumeSound
  <2> QED
    BY <1>1, <1>4, <1>7, <2>1, NewsMade, Applied DEF Fine
<1>8. CASE ~(d.active /\ d.slip)
  BY <1>2, <1>4, <1>6, <1>8, PutFine
<1> QED
  BY <1>7, <1>8

LEMMA ExitFine ==
    ASSUME Sound(deck), LoopExitAtEnd \/ LoopCancelExit
    PROVE  Fine
<1> DEFINE exit == deck.exitAtEnd \/ (deck.active /\ deck.available)
<1>1. deck \in DeckState /\ exit \in BOOLEAN /\ (exit => deck.available)
  BY Typed DEF Sound, SoundBut, LoopPlaced
<1>2. Apply([deck EXCEPT !.exitAtEnd = exit], <<>>) \/ Apply([deck EXCEPT !.exitAtEnd = FALSE], <<>>)
  BY DEF LoopExitAtEnd, LoopCancelExit
<1> HIDE DEF exit
<1> QED
  BY <1>1, <1>2, TurnedSound, PutFine

LEMMA SetLoopFine ==
    ASSUME Sound(deck), NEW p \in Int, NEW q \in Int, NEW on \in BOOLEAN,
           SetLoopFrames(p, q, on) \/ SetLoopSeconds(p, q, on)
    PROVE  Fine
<1> DEFINE w == WithLoop(deck, p, q)
           b == w.available /\ on
<1>1. Sound(w) /\ w \in DeckState /\ w.playing = deck.playing
  BY WithLoopSound DEF Sound, SoundBut
<1>2. b \in BOOLEAN
  OBVIOUS
<1>3. \/ Apply([w EXCEPT !.active = b], <<>>) \/ Apply([w EXCEPT !.active = on], <<>>) \/ Ignore
  BY DEF SetLoopFrames, SetLoopSeconds
<1> HIDE DEF w, b
<1> QED
  BY <1>1, <1>2, <1>3, TurnedSound, PutFine, IgnoreFine

LEMMA SetLoopActiveFine ==
    ASSUME Sound(deck), NEW on \in BOOLEAN, SetLoopActive(on)
    PROVE  Fine
<1> DEFINE b == IF deck.available THEN on ELSE deck.active
<1>1. deck \in DeckState /\ b \in BOOLEAN
  BY Typed DEF Sound, SoundBut
<1>2. Apply([deck EXCEPT !.active = b], <<>>)
  BY DEF SetLoopActive
<1> HIDE DEF b
<1> QED
  BY <1>1, <1>2, TurnedSound, PutFine

(* Loops of a given length, scaled or moved: setLoop sees to their ends.   *)
LEMMA LoopedFine ==
    ASSUME Sound(deck), NEW p \in Int, NEW q \in Int, Apply(WithLoop(deck, p, q), <<>>)
    PROVE  Fine
  BY WithLoopSound, PutFine

LEMMA LoopEditFine ==
    ASSUME Sound(deck), NEW p \in Int, NEW half \in Nat, NEW by \in Int,
           BeatLoop(p, half) \/ LoopScale(half) \/ LoopMove(by)
    PROVE  Fine
<1>0. deck.frames \in Int /\ deck.start \in Int /\ deck.end \in Int
  BY Typed DEF Sound, SoundBut
<1>1. CASE BeatLoop(p, half)
  <2> DEFINE length == Clamp(2 * half, 0, deck.frames)
             start == Clamp(p, 0, deck.frames - length)
  <2>1. length \in Int
    BY <1>0 DEF Clamp
  <2>2. start \in Int
    BY <1>0, <2>1 DEF Clamp
  <2>3. Apply(WithLoop(deck, start, start + length), <<>>)
    BY <1>1 DEF BeatLoop
  <2> HIDE DEF start, length
  <2> QED
    BY <2>1, <2>2, <2>3, LoopedFine
<1>2. CASE LoopScale(half)
  <2> DEFINE centre == (deck.start + deck.end) \div 2
  <2>1. centre \in Int
    BY <1>0
  <2>2. Apply(WithLoop(deck, centre - half, centre + half), <<>>) \/ Ignore
    BY <1>2 DEF LoopScale
  <2> HIDE DEF centre
  <2> QED
    BY <2>1, <2>2, LoopedFine, IgnoreFine
<1>3. CASE LoopMove(by)
  <2> DEFINE length == deck.end - deck.start
             start == Clamp(deck.start + by, 0, deck.frames - length)
  <2>1. length \in Int
    BY <1>0
  <2>2. start \in Int
    BY <1>0, <2>1 DEF Clamp
  <2>3. Apply(WithLoop(deck, start, start + length), <<>>) \/ Ignore
    BY <1>3 DEF LoopMove
  <2> HIDE DEF start, length
  <2> QED
    BY <2>1, <2>2, <2>3, LoopedFine, IgnoreFine
<1> QED
  BY <1>1, <1>2, <1>3

-----------------------------------------------------------------------------
(* From outside the queue *)

LEMMA SetBufferSound ==
    ASSUME Sound(deck), NEW n \in Lengths, SetBuffer(n)
    PROVE  Sound(deck') /\ news' \in Seq(Events)
<1>1. deck.easedBrake \in BOOLEAN /\ deck.easedSpin \in BOOLEAN
  BY Typed DEF Sound, SoundBut
<1>2. deck' = Loaded(n, deck.easedBrake, deck.easedSpin) /\ news' = <<>>
  BY DEF SetBuffer
<1>3. Sound(deck')
  BY <1>1, <1>2, LoadedSound
<1> QED
  BY <1>2, <1>3

LEMMA FaderStartFine == ASSUME Sound(deck), FaderStart PROVE Fine
<1> DEFINE d == [deck EXCEPT !.playing = TRUE]
<1>0. deck \in DeckState
  BY DEF Sound, SoundBut
<1>1. d \in DeckState
  BY <1>0, OneField
<1>2. Track(d) = Track(deck) /\ d.position = deck.position
  BY <1>0 DEF Track, DeckState
<1>3. Apply(d, <<State(d)>>)
  BY DEF FaderStart
<1> HIDE DEF d
<1> QED
  BY <1>1, <1>2, <1>3, SamePlace, NewsMade, Applied DEF Fine

-----------------------------------------------------------------------------
(* A frame *)

LEMMA TowardIn ==
    ASSUME NEW level \in 0 .. Full, NEW goal \in {0, Full}, NEW step \in {1, Full}
    PROVE  Toward(level, goal, step) \in 0 .. Full
  BY TransportAssumption DEF Toward, Clamp

(* What a frame leaves alone until it is decided where the playhead goes.  *)
Course(d) == <<d.frames, d.playing, d.active, d.reverse, d.start, d.end>>

LEMMA NowSound ==
    ASSUME Sound(deck)
    PROVE  Sound(Now) /\ Course(Now) = Course(deck)
<1> DEFINE w == IF deck.jump.to = None THEN 0 ELSE deck.jump.wait - 1
           j == [deck.jump EXCEPT !.wait = w]
           late == [deck EXCEPT !.jump = j]
           d == IF JumpFires THEN Land(deck, deck.jump.to) ELSE late
           eased == IF d.motor < d.target THEN d.easedSpin ELSE d.easedBrake
           m == Toward(d.motor, d.target, IF eased THEN 1 ELSE Full)
           now == [d EXCEPT !.motor = m]
<1>0. /\ SoundBut(deck) /\ deck \in DeckState
      /\ deck.jump \in [to : Int \cup {None}, wait : Nat]
  BY Typed DEF Sound, SoundBut
<1>1. JumpFires => deck.jump.to \in 0 .. deck.frames
  BY <1>0 DEF JumpFires, SoundBut, PointsPlaced
<1>2. JumpFires => Sound(d) /\ Course(d) = Course(deck)
  BY <1>0, <1>1, LandSound DEF Course
<1>3. ~JumpFires => Sound(d) /\ Course(d) = Course(deck)
  <2> HAVE ~JumpFires
  <2>1. w \in Nat
    BY <1>0 DEF JumpFires
  <2> HIDE DEF w
  <2>2. j \in [to : Int \cup {None}, wait : Nat] /\ j.to = deck.jump.to
    BY <1>0, <2>1
  <2> HIDE DEF j
  <2>3. late \in DeckState
    BY <1>0, <2>2, OneField
  <2>4. Track(late) = Track(deck) /\ late.position = deck.position /\ Course(late) = Course(deck)
    BY <1>0, <2>2 DEF Track, Course, DeckState
  <2> HIDE DEF late
  <2> QED
    BY <2>3, <2>4, SamePlace
<1>4. Now = now
  <2>1. [deck EXCEPT !.jump.wait = IF deck.jump.to = None THEN 0 ELSE @ - 1] = late
    BY <1>0 DEF DeckState
  <2> QED
    BY <2>1 DEF Now
<1> HIDE DEF d
<1>5. Sound(d) /\ d \in DeckState /\ Course(d) = Course(deck)
  BY <1>2, <1>3 DEF Sound, SoundBut
<1>6. m \in 0 .. Full
  BY <1>5, Typed, TowardIn
<1> HIDE DEF m
<1>7. now \in DeckState
  BY <1>5, <1>6, OneField
<1>8. Track(now) = Track(d) /\ now.position = d.position /\ Course(now) = Course(d)
  BY <1>5 DEF Track, Course, DeckState
<1> QED
  BY <1>4, <1>5, <1>7, <1>8, SamePlace

LEMMA ShadowedSound ==
    ASSUME NEW d, Sound(d)
    PROVE  Sound(Shadowed(d)) /\ Course(Shadowed(d)) = Course(d)
<1> DEFINE p == IF d.slip THEN Clamp(d.shadow + Full, 0, d.frames + Full) ELSE d.shadow
           e == [d EXCEPT !.shadow = p]
<1>0. d \in DeckState /\ d.shadow \in Int /\ d.shadow >= 0 /\ d.frames \in Nat /\ Full \in Nat
  BY Typed, TransportAssumption DEF Sound, SoundBut, PointsPlaced
<1>1. p \in Int /\ p >= 0
  BY <1>0 DEF Clamp
<1>2. Shadowed(d) = e
  BY DEF Shadowed
<1> HIDE DEF p
<1>3. e \in DeckState
  BY <1>0, <1>1, OneField
<1>4. /\ e.frames = d.frames /\ e.position = d.position /\ e.shadow = p
      /\ e.audio = d.audio /\ e.aim = d.aim /\ e.jump = d.jump
      /\ e.available = d.available /\ e.start = d.start /\ e.end = d.end
      /\ e.exitAtEnd = d.exitAtEnd
  BY <1>0 DEF DeckState
<1>5. Course(e) = Course(d)
  BY <1>0 DEF Course, DeckState
<1> HIDE DEF e
<1>6. Sound(e)
  BY <1>1, <1>3, <1>4 DEF Sound, SoundBut, PointsPlaced, LoopPlaced, MayStandAt
<1> QED
  BY <1>2, <1>5, <1>6

(* The playhead put somewhere it may stand, whatever its place before.     *)
LEMMA Repositioned ==
    ASSUME NEW d, SoundBut(d), NEW p \in Int
    PROVE  /\ SoundBut([d EXCEPT !.position = p])
           /\ MayStandAt(d, p) => Sound([d EXCEPT !.position = p])
           /\ [d EXCEPT !.position = p].position = p
           /\ Course([d EXCEPT !.position = p]) = Course(d)
<1> DEFINE e == [d EXCEPT !.position = p]
<1>0. d \in DeckState
  BY DEF SoundBut
<1>1. e \in DeckState
  BY <1>0, OneField
<1>2. Track(e) = Track(d) /\ e.position = p /\ Course(e) = Course(d)
  BY <1>0 DEF Track, Course, DeckState
<1> HIDE DEF e
<1>3. SoundBut(e)
  BY <1>1, <1>2, SameTrack
<1>4. MayStandAt(d, p) => Sound(e)
  BY <1>2, <1>3 DEF Sound, MayStandAt, Track
<1> QED
  BY <1>2, <1>3, <1>4 DEF e

(* Only the playhead of a moved deck may be out of place, and only a deck  *)
(* in reverse moves to the left.                                           *)
LEMMA MovedSound ==
    ASSUME NEW d, Sound(d)
    PROVE  /\ SoundBut(Moved(d)) /\ Course(Moved(d)) = Course(d)
           /\ Moved(d).position \in Int
           /\ ~d.reverse => Moved(d).position >= 0
<1> DEFINE e == Shadowed(d)
           p == IF d.reverse THEN e.position - d.motor ELSE e.position + d.motor
<1>1. Sound(e) /\ SoundBut(e) /\ Course(e) = Course(d) /\ e \in DeckState
  BY ShadowedSound DEF Sound, SoundBut
<1>2. Moved(d) = [e EXCEPT !.position = p]
  BY DEF Moved
<1>3. d.motor \in Nat /\ e.position \in Int /\ e.position >= 0
  BY <1>1, Typed, TransportAssumption DEF Sound, SoundBut, MayStandAt
<1> HIDE DEF e
<1>4. p \in Int /\ (~d.reverse => p >= 0)
  BY <1>3
<1> HIDE DEF p
<1> QED
  BY <1>1, <1>2, <1>4, Repositioned

(* What a rendered frame tells: the news of a jump, then its own.          *)
LEMMA Tells ==
    ASSUME NEW d, NEW told \in Seq(Events), Rendered(d, told)
    PROVE  /\ deck' = d /\ news' \in Seq(Events)
           /\ told # <<>> => /\ news' # <<>> /\ news'[Len(news')] = told[Len(told)]
                             /\ told[1] \in {news'[i] : i \in 1 .. Len(news')}
<1> DEFINE jumped == IF JumpFires THEN <<Playhead>> ELSE <<>>
<1>1. jumped \in Seq(Events)
  <2>1. Playhead \in Events
    BY DEF Events
  <2> QED
    BY <2>1
<1>2. deck' = d /\ news' = jumped \o told
  BY DEF Rendered
<1> HIDE DEF jumped
<1>3. Len(jumped) \in Nat /\ Len(told) \in Nat
  BY <1>1, LenProperties
<1>4. /\ news' \in Seq(Events) /\ Len(news') = Len(jumped) + Len(told)
      /\ \A i \in 1 .. Len(jumped) + Len(told) :
            news'[i] = IF i <= Len(jumped) THEN jumped[i] ELSE told[i - Len(jumped)]
  BY <1>1, <1>2, ConcatProperties
<1>5. CASE told # <<>>
  <2>1. Len(told) >= 1
    BY <1>3, <1>5, EmptySeq
  <2>2. /\ Len(jumped) + 1 \in 1 .. Len(news') /\ news'[Len(jumped) + 1] = told[1]
        /\ news'[Len(news')] = told[Len(told)]
    BY <1>3, <1>4, <2>1
  <2>3. news' # <<>>
    BY <1>3, <1>4, <2>1, EmptySeq
  <2> QED
    BY <1>2, <1>4, <2>2, <2>3
<1> QED
  BY <1>2, <1>4, <1>5

(* What a frame may do to a loop and to a playing deck.                    *)
Captured ==
    deck'.active /\ Looping(deck) => deck'.start <= deck'.position /\ deck'.position < deck'.end

EndsWell ==
    deck.playing /\ ~deck'.playing =>
        \/ /\ deck'.position = deck.frames /\ news' # <<>>
           /\ EndOfTrack \in {news'[i] : i \in 1 .. Len(news')}
        \/ deck.reverse /\ deck'.position = 0 /\ deck'.motor = 0

LEMMA CourseSame ==
    ASSUME NEW d, NEW e, Course(d) = Course(e)
    PROVE  /\ d.frames = e.frames /\ d.playing = e.playing /\ d.active = e.active
           /\ d.reverse = e.reverse /\ d.start = e.start /\ d.end = e.end
           /\ Looping(d) <=> Looping(e)
  BY DEF Course, Looping

(* The frame as its five ends see it: the deck m has moved.                *)
LEMMA Steered ==
    ASSUME NEW m, SoundBut(m), m.position \in Int
    PROVE  /\ m \in DeckState /\ m.frames \in Nat /\ m.start \in Int /\ m.end \in Int
           /\ Looping(m) => m.available /\ 0 <= m.start /\ m.end <= m.frames
           /\ ~m.available => ~Looping(m)
  BY Typed DEF SoundBut, LoopPlaced, Looping

LEMMA LeaveLoopFine ==
    ASSUME NEW m, SoundBut(m), m.position \in Int, Course(m) = Course(deck), LeaveLoop(m)
    PROVE  Fine /\ Captured /\ EndsWell
<1> DEFINE left == [m EXCEPT !.exitAtEnd = FALSE, !.active = FALSE]
<1>1. /\ m \in DeckState /\ Looping(m) /\ m.position >= m.end /\ m.available
      /\ m.start < m.end /\ 0 <= m.start /\ m.end \in Int /\ m.start \in Int
  BY Steered DEF LeaveLoop, PastLoop, Looping
<1>2. Rendered(left, <<State(left)>>)
  BY DEF LeaveLoop
<1>3. left \in DeckState
  BY <1>1, OneField
<1>4. /\ left.frames = m.frames /\ left.position = m.position /\ left.shadow = m.shadow
      /\ left.audio = m.audio /\ left.aim = m.aim /\ left.jump = m.jump
      /\ left.available = m.available /\ left.start = m.start /\ left.end = m.end
      /\ left.exitAtEnd = FALSE /\ left.active = FALSE /\ left.playing = m.playing
  BY <1>1 DEF DeckState
<1> HIDE DEF left
<1>5. Sound(left)
  BY <1>1, <1>3, <1>4 DEF Sound, SoundBut, PointsPlaced, LoopPlaced, MayStandAt
<1>6. deck' = left /\ news' \in Seq(Events) /\ news' # <<>> /\ news'[Len(news')] = State(left)
  BY <1>2, <1>3, NewsMade, Tells
<1> QED
  BY <1>4, <1>5, <1>6, CourseSame DEF Fine, Reported, Captured, EndsWell

LEMMA WrapLoopFine ==
    ASSUME NEW m, SoundBut(m), m.position \in Int, Course(m) = Course(deck), WrapLoop(m)
    PROVE  Fine /\ Captured /\ EndsWell
<1> DEFINE p == Wrapped(m)
           e == [m EXCEPT !.position = p]
<1>1. /\ m \in DeckState /\ Looping(m) /\ m.available
      /\ m.start < m.end /\ 0 <= m.start /\ m.end \in Int /\ m.start \in Int
  BY Steered DEF WrapLoop, PastLoop, BeforeLoop, Looping
<1>2. p \in Int /\ m.start <= p /\ p < m.end
  <2> DEFINE n == m.end - m.start
             x == m.position - m.start
  <2>1. n \in Nat \ {0} /\ x \in Int
    BY <1>1
  <2> HIDE DEF n, x
  <2>2. x % n \in 0 .. n - 1
    BY <2>1
  <2>3. p = m.start + (x % n)
    BY DEF Wrapped, x, n
  <2> QED
    BY <1>1, <2>2, <2>3 DEF n
<1>3. Rendered(e, <<>>)
  BY DEF WrapLoop
<1> HIDE DEF p
<1>4. Sound(e) /\ e.position = p /\ Course(e) = Course(m)
  BY <1>1, <1>2, Repositioned DEF MayStandAt
<1>5. deck' = e /\ news' \in Seq(Events)
  BY <1>1, <1>3, NewsMade, Tells
<1> HIDE DEF e
<1>6. /\ deck'.playing = deck.playing /\ deck'.active = deck.active
      /\ deck'.start = m.start /\ deck'.end = m.end
  BY <1>4, <1>5, CourseSame
<1> QED
  BY <1>2, <1>4, <1>5, <1>6 DEF Fine, Reported, Captured, EndsWell

LEMMA ReachEndFine ==
    ASSUME NEW m, SoundBut(m), m.position \in Int, Course(m) = Course(deck), ReachEnd(m)
    PROVE  Fine /\ Captured /\ EndsWell
<1> DEFINE a == At(m, m.frames)
           ended == [a EXCEPT !.playing = FALSE]
<1>1. /\ m \in DeckState /\ m.frames \in Nat /\ ~Looping(m) /\ MayStandAt(m, m.frames)
  BY Steered DEF ReachEnd, AtEnd, PastLoop, MayStandAt
<1>2. Rendered(ended, <<EndOfTrack, State(ended)>>)
  BY DEF ReachEnd
<1>3. Sound(a) /\ a \in DeckState /\ a.position = m.frames /\ a.active = m.active
  BY <1>1, AtSound DEF Sound, SoundBut
<1> HIDE DEF a
<1>4. ended \in DeckState
  BY <1>3, OneField
<1>5. Track(ended) = Track(a) /\ ended.position = a.position /\ ended.active = a.active
  BY <1>3 DEF Track, DeckState
<1> HIDE DEF ended
<1>6. Sound(ended)
  BY <1>3, <1>4, <1>5, SamePlace
<1> DEFINE told == <<EndOfTrack, State(ended)>>
<1>7. told \in Seq(Events) /\ told # <<>> /\ told[1] = EndOfTrack /\ told[Len(told)] = State(ended)
  BY <1>4, NewsMade
<1> HIDE DEF told
<1>8. /\ deck' = ended /\ news' \in Seq(Events) /\ news' # <<>>
      /\ news'[Len(news')] = State(ended) /\ EndOfTrack \in {news'[i] : i \in 1 .. Len(news')}
  BY <1>2, <1>7, Tells DEF told
<1>9. deck'.position = deck.frames /\ ~Looping(deck)
  BY <1>1, <1>3, <1>5, <1>8, CourseSame
<1> QED
  BY <1>6, <1>8, <1>9 DEF Fine, Reported, Captured, EndsWell

LEMMA ReachStartFine ==
    ASSUME NEW m, SoundBut(m), m.position \in Int, Course(m) = Course(deck), ReachStart(m)
    PROVE  Fine /\ Captured /\ EndsWell
<1> DEFINE e == [m EXCEPT !.position = 0]
           stopped == [m EXCEPT !.position = 0, !.playing = FALSE, !.target = 0, !.motor = 0]
<1>1. /\ m \in DeckState /\ m.frames \in Nat /\ MayStandAt(m, 0) /\ m.reverse /\ 0 \in 0 .. Full
      /\ Looping(m) => m.start <= 0 /\ 0 <= m.start /\ 0 < m.end
  BY Steered, TransportAssumption DEF ReachStart, AtStart, BeforeLoop, MayStandAt, Looping
<1>2. Rendered(stopped, <<State(stopped)>>)
  BY DEF ReachStart
<1>3. Sound(e) /\ e \in DeckState
  BY <1>1, Repositioned DEF Sound, SoundBut
<1>4. stopped \in DeckState
  <2>1. [e EXCEPT !.playing = FALSE, !.target = 0, !.motor = 0] \in DeckState
    <3> HIDE DEF e
    <3> QED
      BY <1>1, <1>3, OneField
  <2> QED
    BY <2>1
<1>5. /\ Track(stopped) = Track(e) /\ stopped.position = e.position /\ stopped.position = 0
      /\ stopped.motor = 0 /\ stopped.start = m.start /\ stopped.end = m.end
  BY <1>1 DEF Track, DeckState
<1> HIDE DEF e, stopped
<1>6. Sound(stopped)
  BY <1>3, <1>4, <1>5, SamePlace
<1>7. /\ deck' = stopped /\ news' \in Seq(Events) /\ news' # <<>>
      /\ news'[Len(news')] = State(stopped)
  BY <1>2, <1>4, NewsMade, Tells
<1> QED
  BY <1>1, <1>5, <1>6, <1>7, CourseSame DEF Fine, Reported, Captured, EndsWell

LEMMA MoveOnFine ==
    ASSUME NEW m, SoundBut(m), m.position \in Int, ~m.reverse => m.position >= 0,
           Course(m) = Course(deck), MoveOn(m)
    PROVE  Fine /\ Captured /\ EndsWell
<1>1. /\ m \in DeckState /\ m.frames \in Nat /\ m.position >= 0 /\ m.position <= m.frames
      /\ Looping(m) => m.start <= m.position /\ m.position < m.end
  BY Steered DEF MoveOn, AtEnd, AtStart, PastLoop, BeforeLoop
<1>2. Sound(m)
  BY <1>1 DEF Sound, MayStandAt
<1>3. deck' = m /\ news' \in Seq(Events)
  BY <1>1, NewsMade, Tells DEF MoveOn
<1> QED
  BY <1>1, <1>2, <1>3, CourseSame DEF Fine, Reported, Captured, EndsWell

LEMMA StandFine ==
    ASSUME Sound(deck), Stand(Now)
    PROVE  Fine /\ EndsWell
<1>1. Sound(Now) /\ Now \in DeckState /\ Course(Now) = Course(deck)
  BY NowSound DEF Sound, SoundBut
<1>2. deck' = Now /\ news' \in Seq(Events)
  BY <1>1, NewsMade, Tells DEF Stand
<1> QED
  BY <1>1, <1>2, CourseSame DEF Fine, Reported, EndsWell

LEMMA ScratchFine ==
    ASSUME Sound(deck), NEW rests \in BOOLEAN, Scratch(Now, rests)
    PROVE  Fine /\ EndsWell
<1> DEFINE s == Shadowed(Now)
           p == Clamp(s.audio + Now.hand, 0, Now.frames - Full)
           h == IF rests THEN 0 ELSE s.hand
           e == [s EXCEPT !.audio = p, !.hand = h]
<1>1. Sound(Now) /\ Now \in DeckState /\ Course(Now) = Course(deck) /\ Now.frames > 0
  BY NowSound DEF Sound, SoundBut, Scratch, Scratched
<1>2. Sound(s) /\ s \in DeckState /\ Course(s) = Course(Now)
  BY <1>1, ShadowedSound DEF Sound, SoundBut
<1>3. [s EXCEPT !.audio = Clamp(@ + Now.hand, 0, Now.frames - Full), !.hand = IF rests THEN 0 ELSE @] = e
  BY <1>2 DEF DeckState
<1>4. Rendered(e, <<>>)
  BY <1>3 DEF Scratch
<1>5. s.audio \in Int /\ s.hand \in {-1, 0, 1} /\ Now.hand \in Int /\ Now.frames >= Full
      /\ Now.frames \in Nat /\ Full \in Nat /\ s.frames = Now.frames
  BY <1>1, <1>2, Typed, TransportAssumption, CourseSame DEF Sound, SoundBut
<1> HIDE DEF s
<1>6. p \in Int /\ p >= 0 /\ p <= s.frames /\ h \in {-1, 0, 1}
  BY <1>5 DEF Clamp
<1> HIDE DEF p, h
<1>7. e \in DeckState
  BY <1>2, <1>6, OneField
<1>8. /\ e.frames = s.frames /\ e.position = s.position /\ e.shadow = s.shadow
      /\ e.audio = p /\ e.aim = s.aim /\ e.jump = s.jump
      /\ e.available = s.available /\ e.start = s.start /\ e.end = s.end
      /\ e.exitAtEnd = s.exitAtEnd
  BY <1>2 DEF DeckState
<1>9. Course(e) = Course(s)
  BY <1>2 DEF Course, DeckState
<1> HIDE DEF e
<1>10. Sound(e)
  BY <1>2, <1>6, <1>7, <1>8 DEF Sound, SoundBut, PointsPlaced, LoopPlaced, MayStandAt
<1>11. deck' = e /\ news' \in Seq(Events)
  BY <1>2, <1>4, NewsMade, Tells
<1> QED
  BY <1>1, <1>2, <1>9, <1>10, <1>11, CourseSame DEF Fine, Reported, EndsWell

LEMMA MoveFine ==
    ASSUME Sound(deck), Moving(Now), Move(Moved(Now))
    PROVE  Fine /\ Captured /\ EndsWell
<1>1. Sound(Now) /\ Course(Now) = Course(deck)
  BY NowSound
<1>2. /\ SoundBut(Moved(Now)) /\ Moved(Now).position \in Int /\ Course(Moved(Now)) = Course(deck)
      /\ ~Moved(Now).reverse => Moved(Now).position >= 0
  BY <1>1, MovedSound, CourseSame
<1> QED
  BY <1>2, LeaveLoopFine, WrapLoopFine, ReachEndFine, ReachStartFine, MoveOnFine DEF Move

(* A frame whose platter turns is a move.                                  *)
LEMMA FrameFine ==
    ASSUME Sound(deck), Frame
    PROVE  Fine /\ EndsWell /\ (Moving(Now) => Captured)
<1>1. CASE Stand(Now)
  BY <1>1, StandFine DEF Stand
<1>2. ASSUME NEW rests \in BOOLEAN, Scratch(Now, rests)
      PROVE  Fine /\ EndsWell /\ ~Moving(Now)
  BY <1>2, ScratchFine DEF Scratch, Scratched, Moving
<1>3. CASE Moving(Now) /\ Move(Moved(Now))
  BY <1>3, MoveFine
<1> QED
  BY <1>1, <1>2, <1>3 DEF Frame

-----------------------------------------------------------------------------
(* Every step keeps a sound deck, and reports it, two kinds of step apart. *)
LEMMA CommandsFine ==
    ASSUME Sound(deck), Commands
    PROVE  /\ Sound(deck') /\ news' \in Seq(Events)
           /\ Reported \/ (SetReverse(FALSE) /\ SlipReverseEnds(FALSE))
<1> USE TransportAssumption
<1>1. CASE Play \/ Pause
  BY <1>1, PlayFine, PauseFine DEF Fine
<1>2. CASE \/ \E vinyl \in BOOLEAN : JogTouch(vinyl)
           \/ \E m \in {-1, 1} : JogMove(m)
           \/ \E playOn \in BOOLEAN : JogRelease(playOn)
           \/ \E brake, spin \in BOOLEAN : VinylSpeed(brake, spin)
  BY <1>2, JogTouchFine, JogMoveFine, JogReleaseFine, VinylSpeedFine DEF Fine
<1>3. CASE \/ \E p \in Places : Seek(p) \/ Sync(p)
           \/ \E p \in Places, wait \in Waits : Jump(p, wait)
  <2>1. Places \subseteq Int /\ Waits \subseteq Nat
    OBVIOUS
  <2> QED
    BY <1>3, <2>1, SeekFine, SyncFine, JumpFine DEF Fine
<1>4. CASE \E on \in BOOLEAN : SetSlip(on)
  BY <1>4, SetSlipFine DEF Fine
<1>5. ASSUME NEW on \in BOOLEAN, SetReverse(on)
      PROVE  /\ Sound(deck') /\ news' \in Seq(Events)
             /\ Reported \/ (SetReverse(FALSE) /\ SlipReverseEnds(FALSE))
  <2>1. SlipReverseEnds(on) => on = FALSE
    BY DEF SlipReverseEnds
  <2> QED
    BY <1>5, <2>1, SetReverseFine
<1>6. CASE ReloopExit \/ LoopExitAtEnd \/ LoopCancelExit
  BY <1>6, ReloopExitFine, ExitFine DEF Fine
<1>7. CASE \E p, q \in Places, on \in BOOLEAN : SetLoopFrames(p, q, on) \/ SetLoopSeconds(p, q, on)
  <2>1. Places \subseteq Int
    OBVIOUS
  <2> QED
    BY <1>7, <2>1, SetLoopFine DEF Fine
<1>8. CASE \/ \E p \in Places : LoopIn(p) \/ LoopOut(p)
           \/ \E on \in BOOLEAN : SetLoopActive(on)
  <2>1. Places \subseteq Int
    OBVIOUS
  <2> QED
    BY <1>8, <2>1, LoopInFine, LoopOutFine, SetLoopActiveFine DEF Fine
<1>9. CASE \/ \E p \in Places, half \in Halves : BeatLoop(p, half)
           \/ \E half \in Halves : LoopScale(half)
           \/ \E half \in Halves, sign \in {-1, 1} : LoopMove(sign * half)
  <2>1. /\ \A half \in Halves : half \in Nat /\ -half \in Int /\ -1 * half = -half /\ 1 * half = half
        /\ \A p \in Places : p \in Int
        /\ 0 \in Int /\ 0 \in Nat
    OBVIOUS
  <2>2. ASSUME NEW half \in Halves, NEW sign \in {-1, 1}, LoopMove(sign * half)
        PROVE  Fine
    <3>1. sign * half \in Int
      BY <2>1
    <3> QED
      BY <2>1, <2>2, <3>1, LoopEditFine
  <2> QED
    BY <1>9, <2>1, <2>2, LoopEditFine DEF Fine
<1> QED
  BY <1>1, <1>2, <1>3, <1>4, <1>5, <1>6, <1>7, <1>8, <1>9 DEF Commands

Safe == Sound(deck) /\ news \in Seq(Events)

LEMMA StepFine ==
    ASSUME Sound(deck), Next
    PROVE  /\ Sound(deck') /\ news' \in Seq(Events)
           /\ \/ Reported \/ (\E n \in Lengths : SetBuffer(n))
              \/ SetReverse(FALSE) /\ SlipReverseEnds(FALSE)
  BY CommandsFine, SetBufferSound, FaderStartFine, FrameFine DEF Next, Fine

LEMMA SafeInv == Safe /\ [Next]_vars => Safe'
<1> SUFFICES ASSUME Safe, [Next]_vars PROVE Safe'
  OBVIOUS
<1>1. CASE Next
  BY <1>1, StepFine DEF Safe
<1>2. CASE UNCHANGED vars
  BY <1>2 DEF vars, Safe
<1> QED
  BY <1>1, <1>2

(* A new engine's deck is sound.                                           *)
LEMMA InitSafe == Init => Safe
<1> SUFFICES ASSUME Init PROVE Safe
  OBVIOUS
<1> DEFINE l == Loaded(0, FALSE, FALSE)
           d == [l EXCEPT !.motor = Full, !.target = Full]
<1>1. Sound(l) /\ l \in DeckState
  BY LoadedSound DEF Sound, SoundBut
<1>2. deck = d /\ news = <<>>
  BY DEF Init
<1> HIDE DEF l
<1>3. Full \in 0 .. Full /\ Full \in {0, Full}
  BY TransportAssumption
<1>4. d \in DeckState
  BY <1>1, <1>3, OneField
<1>5. Track(d) = Track(l) /\ d.position = l.position
  BY <1>1 DEF Track, DeckState
<1> HIDE DEF d
<1> QED
  BY <1>1, <1>2, <1>4, <1>5, SamePlace DEF Safe

LEMMA SafeAlways == Spec => []Safe
  BY InitSafe, SafeInv, PTL DEF Spec

(* Types, for every track, motor and set of controls used together.        *)
THEOREM TransportTyped == Spec => []TypeOK
<1>1. Safe => TypeOK
  BY DEF Safe, Sound, SoundBut, TypeOK
<1> QED
  BY SafeAlways, <1>1, PTL

(* The playhead, the scratch reader and a pending jump are where there is  *)
(* sound, whatever points the commands name and in whatever order.         *)
THEOREM TransportInTrack == Spec => []InTrack
<1>1. Safe => InTrack
  <2> SUFFICES ASSUME Safe PROVE InTrack
    OBVIOUS
  <2>1. deck.position \in Int /\ deck.audio \in Int /\ deck.aim \in Int /\ deck.frames \in Nat
    BY Typed DEF Safe, Sound, SoundBut
  <2> QED
    BY <2>1 DEF Safe, Sound, SoundBut, MayStandAt, PointsPlaced, InTrack
<1> QED
  BY SafeAlways, <1>1, PTL

(* A loop is a non-empty part of the track, however it came about.         *)
THEOREM TransportLoopInTrack == Spec => []LoopInTrack
<1>1. Safe => LoopInTrack
  BY DEF Safe, Sound, SoundBut, LoopPlaced, LoopInTrack
<1> QED
  BY SafeAlways, <1>1, PTL

(* An active loop has the playhead after one turn of the platter.          *)
THEOREM TransportLoopCaptures == Spec => LoopCaptures
<1> DEFINE Step == deck'.active /\ Looping(deck) /\ Frame /\ Moving(Now)
                     => deck'.start <= deck'.position /\ deck'.position < deck'.end
<1>1. Safe => Step
  BY FrameFine DEF Safe, Captured
<1>2. Safe /\ [Next]_vars => [Step]_vars
  BY <1>1
<1> QED
  BY SafeAlways, <1>2, PTL DEF Spec, LoopCaptures

(* What starts, stops, enters or leaves a loop is told to the host last.   *)
THEOREM TransportReports == Spec => ChangesReported
<1> DEFINE Step ==
       \/ deck'.playing = deck.playing /\ deck'.active = deck.active
       \/ \E n \in Lengths : SetBuffer(n)
       \/ SetReverse(FALSE) /\ SlipReverseEnds(FALSE)
       \/ news' # <<>> /\ news'[Len(news')] = State(deck')
<1>1. Safe /\ Next => Step
  BY StepFine DEF Safe, Reported
<1>2. Safe /\ [Next]_vars => [Step]_vars
  BY <1>1
<1> QED
  BY SafeAlways, <1>2, PTL DEF Spec, ChangesReported

(* A playing deck is stopped by a frame at an end of its track only.       *)
THEOREM TransportStops == Spec => StopsOnlyAtEnds
<1> DEFINE Step ==
       deck.playing /\ ~deck'.playing /\ Frame =>
        \/ deck'.position = deck.frames /\ news' # <<>> /\ EndOfTrack \in {news'[i] : i \in 1 .. Len(news')}
        \/ deck.reverse /\ deck'.position = 0 /\ deck'.motor = 0
<1>1. Safe => Step
  BY FrameFine DEF Safe, EndsWell
<1>2. Safe /\ [Next]_vars => [Step]_vars
  BY <1>1
<1> QED
  BY SafeAlways, <1>2, PTL DEF Spec, StopsOnlyAtEnds

-----------------------------------------------------------------------------
(* What drainEvents makes of the mirror: a fold has no value before it is  *)
(* given one.  The last STATE counts, and an END_OF_TRACK after it.        *)

LEMMA LeastOf ==
    ASSUME NEW S \in SUBSET Nat, S # {}
    PROVE  \E n \in S : \A m \in S : n <= m
<1>1. \E n \in S : \A m \in S : ~ (<<m, n>> \in OpToRel(<, Nat))
  BY WFMin, NatLessThanWellFounded, Zenon
<1>2. PICK n \in S : \A m \in S : ~ (<<m, n>> \in OpToRel(<, Nat))
  BY <1>1, Zenon
<1>3. ASSUME NEW m \in S PROVE n <= m
  <2>1. ~ (<<m, n>> \in OpToRel(<, Nat))
    BY <1>2, Zenon
  <2>2. <<m, n>> \in Nat \X Nat /\ ~ (<<m, n>>[1] < <<m, n>>[2])
    BY <2>1 DEF OpToRel
  <2> QED
    BY <2>2
<1> QED
  BY <1>2, <1>3

Shown == [isPlaying : BOOLEAN, isLoopActive : BOOLEAN]

Decides(e) == IsState(e) \/ e = EndOfTrack

\* The last of the indices of s.
LEMMA LastOf ==
    ASSUME NEW n \in Nat, NEW s \in SUBSET (1..n), s # {}
    PROVE  Max(s) \in s /\ \A i \in s : i <= Max(s)
<1> DEFINE B == {b \in Nat : \A i \in s : i <= b}
<1>1. n \in B /\ B \subseteq Nat
  OBVIOUS
<1>2. PICK b \in B : \A c \in B : b <= c
  BY <1>1, LeastOf
<1>3. b \in s
  <2>1. SUFFICES ASSUME b \notin s PROVE FALSE
    OBVIOUS
  <2>2. b # 0
    <3>1. PICK i \in s : TRUE
      OBVIOUS
    <3>2. i \in 1..n /\ i <= b
      BY <1>2
    <3> QED
      BY <3>2
  <2>3. b - 1 \in Nat /\ \A i \in s : i <= b - 1
    BY <1>2, <2>1, <2>2
  <2>4. b - 1 \in B
    BY <2>3
  <2> QED
    BY <1>2, <2>4
<1>4. \E x \in s : \A y \in s : x >= y
  BY <1>2, <1>3
<1>5. Max(s) \in s /\ \A y \in s : Max(s) >= y
  BY <1>4, Zenon DEF Max
<1> QED
  BY <1>5

LEMMA LastIs ==
    ASSUME NEW n \in Nat, NEW s \in SUBSET (1..n), NEW x \in s, \A i \in s : i <= x
    PROVE  Max(s) = x
<1>1. Max(s) \in s /\ x <= Max(s) /\ Max(s) <= x
  BY LastOf
<1>2. x \in 1..n /\ Max(s) \in 1..n
  BY <1>1
<1> HIDE DEF Max
<1> QED
  BY <1>1, <1>2

\* What the events of q at the indices in s make of m.
StatesIn(q, s) == {i \in s : IsState(q[i])}
DecidersIn(q, s) == {i \in s : Decides(q[i])}
Made(m, q, s) ==
    [isPlaying |-> IF DecidersIn(q, s) = {} THEN m.isPlaying
                   ELSE IF IsState(q[Max(DecidersIn(q, s))]) THEN q[Max(DecidersIn(q, s))].playing
                   ELSE FALSE,
     isLoopActive |-> IF StatesIn(q, s) = {} THEN m.isLoopActive ELSE q[Max(StatesIn(q, s))].loop]

LEMMA MadeNone ==
    ASSUME NEW m \in Shown, NEW q
    PROVE  Made(m, q, {}) = m
  BY DEF Made, StatesIn, DecidersIn, Shown

\* One more event.
LEMMA MadeNext ==
    ASSUME NEW m, NEW q, NEW n \in Nat, NEW s \in SUBSET (1..n), s # {}
    PROVE  Made(m, q, s) = Heard(Made(m, q, s \ {Max(s)}), q[Max(s)])
<1> DEFINE x == Max(s)
           r == s \ {x}
<1>1. x \in s /\ \A i \in s : i <= x
  BY LastOf
<1> HIDE DEF x
<1>2. CASE IsState(q[x])
  <2>1. x \in StatesIn(q, s) /\ x \in DecidersIn(q, s)
    BY <1>1, <1>2 DEF StatesIn, DecidersIn, Decides
  <2>2. Max(StatesIn(q, s)) = x /\ Max(DecidersIn(q, s)) = x
    BY <1>1, <2>1, LastIs DEF StatesIn, DecidersIn
  <2>3. Made(m, q, s) = [isPlaying |-> q[x].playing, isLoopActive |-> q[x].loop]
    BY <1>2, <2>1, <2>2 DEF Made
  <2> QED
    BY <1>2, <2>3 DEF Heard, x
<1>3. CASE ~IsState(q[x]) /\ q[x] = EndOfTrack
  <2>1. x \in DecidersIn(q, s) /\ StatesIn(q, s) = StatesIn(q, r)
    BY <1>1, <1>3 DEF StatesIn, DecidersIn, Decides
  <2>2. Max(DecidersIn(q, s)) = x
    BY <1>1, <2>1, LastIs DEF DecidersIn
  <2>3. Made(m, q, s).isPlaying = FALSE /\ Made(m, q, s).isLoopActive = Made(m, q, r).isLoopActive
    BY <1>3, <2>1, <2>2 DEF Made
  <2>4. Made(m, q, s) = [Made(m, q, r) EXCEPT !.isPlaying = FALSE]
    BY <2>3 DEF Made
  <2> QED
    BY <1>3, <2>4 DEF Heard, x
<1>4. CASE ~IsState(q[x]) /\ q[x] # EndOfTrack
  <2>1. DecidersIn(q, s) = DecidersIn(q, r) /\ StatesIn(q, s) = StatesIn(q, r)
    BY <1>1, <1>4 DEF StatesIn, DecidersIn, Decides
  <2>2. Made(m, q, s) = Made(m, q, r)
    BY <2>1 DEF Made
  <2> QED
    BY <1>4, <2>2 DEF Heard, x
<1> QED
  BY <1>2, <1>3, <1>4

LEMMA FoldMakes ==
    ASSUME NEW m \in Shown, NEW q \in Seq(Events)
    PROVE  FoldLeft(Heard, m, q) = Made(m, q, DOMAIN q)
<1> DEFINE n == Len(q)
           Step(g, s) == IF s = {} THEN m ELSE Heard(g[s \ {Max(s)}], q[Max(s)])
           D(g) == g = [s \in SUBSET (1..n) |-> Step(g, s)]
           made == [s \in SUBSET (1..n) |-> Made(m, q, s)]
           iter == CHOOSE g : D(g)
<1>1. n \in Nat /\ DOMAIN q = 1..n
  OBVIOUS
<1> HIDE DEF n
<1>2. D(made)
  <2>1. ASSUME NEW s \in SUBSET (1..n) PROVE made[s] = Step(made, s)
    <3>1. CASE s = {}
      BY <3>1, MadeNone
    <3>2. CASE s # {}
      <4>1. s \ {Max(s)} \in SUBSET (1..n)
        OBVIOUS
      <4>2. made[s \ {Max(s)}] = Made(m, q, s \ {Max(s)}) /\ made[s] = Made(m, q, s)
        BY <4>1
      <4>3. Made(m, q, s) = Heard(Made(m, q, s \ {Max(s)}), q[Max(s)])
        BY <1>1, <3>2, MadeNext
      <4> HIDE DEF made
      <4> QED
        BY <3>2, <4>2, <4>3
    <3> QED
      BY <3>1, <3>2
  <2> HIDE DEF Step
  <2> QED
    BY <2>1
<1>3. D(iter)
  BY <1>2, Zenon
<1>4. FoldLeft(Heard, m, q) = iter[1..n]
  BY <1>1 DEF FoldLeft, MapThenFoldSet
<1> HIDE DEF iter
<1>5. \A s \in SUBSET (1..n) : iter[s] = Step(iter, s)
  BY <1>3
<1>6. \A j \in 0..n : iter[1..j] = Made(m, q, 1..j)
  <2> DEFINE Bad == {j \in 0..n : iter[1..j] # Made(m, q, 1..j)}
  <2>1. SUFFICES ASSUME Bad # {} PROVE FALSE
    OBVIOUS
  <2>2. PICK j \in Bad : \A i \in Bad : j <= i
    <3>1. Bad \in SUBSET Nat
      BY <1>1
    <3> QED
      BY <2>1, <3>1, LeastOf
  <2>3. j # 0
    <3>1. 1..0 = {}
      OBVIOUS
    <3>2. iter[{}] = m
      BY <1>5
    <3> QED
      BY <2>2, <3>1, <3>2, MadeNone
  <2>4. j \in 1..n /\ j - 1 \in 0..n /\ j - 1 \notin Bad
    BY <1>1, <2>2, <2>3
  <2>5. 1..j \in SUBSET (1..n) /\ 1..j # {} /\ j \in 1..j /\ \A i \in 1..j : i <= j
    <3>1. j \in Nat /\ j <= n /\ 1 <= j
      BY <1>1, <2>4
    <3> QED
      BY <1>1, <3>1
  <2>6. Max(1..j) = j /\ (1..j) \ {j} = 1..(j - 1)
    <3>1. Max(1..j) = j
      BY <1>1, <2>5, LastIs
    <3>2. j \in Int
      BY <1>1, <2>4
    <3> QED
      BY <3>1, <3>2
  <2>7. iter[1..(j - 1)] = Made(m, q, 1..(j - 1))
    BY <2>4
  <2>8. iter[1..j] = Heard(iter[1..(j - 1)], q[j])
    BY <1>5, <2>5, <2>6
  <2>9. Made(m, q, 1..j) = Heard(Made(m, q, 1..(j - 1)), q[j])
    <3>1. Made(m, q, 1..j) = Heard(Made(m, q, (1..j) \ {Max(1..j)}), q[Max(1..j)])
      BY <1>1, <2>5, MadeNext
    <3> QED
      BY <2>6, <3>1, Zenon
  <2> QED
    BY <2>2, <2>7, <2>8, <2>9
<1> QED
  BY <1>1, <1>4, <1>6

-----------------------------------------------------------------------------
(* The invariant *)

CommandSet ==
    [op : {"PLAY", "PAUSE", "LOOP_IN", "RELOOP_EXIT", "LOOP_EXIT_AT_END"}]
    \cup [op : {"SEEK"}, to : Int]
    \cup [op : {"SET_REVERSE", "SET_SLIP"}, on : BOOLEAN]
    \cup [op : {"JOG_TOUCH"}, vinyl : BOOLEAN]
    \cup [op : {"JOG_RELEASE"}, playOn : BOOLEAN]
    \cup [op : {"SET_LOOP"}, loop : Int \X Int]

Formed ==
    /\ Sound(deck)
    /\ commands \in Seq(CommandSet) /\ Len(commands) <= CommandCap
    /\ events \in Seq(Events) /\ Len(events) <= EventCap
    /\ mirror \in Shown
    /\ jog \in [wasPlaying : BOOLEAN, vinyl : BOOLEAN]
    /\ looped \in BOOLEAN

HasEnd(q) == \E i \in DOMAIN q : q[i] = EndOfTrack

\* The last event of q that says whether the deck plays is a STATE, and says so.
Concludes(q, playing) ==
    \E i \in DOMAIN q :
        /\ IsState(q[i])
        /\ \A j \in i .. Len(q) : q[j] # EndOfTrack /\ (IsState(q[j]) => q[j].playing = playing)

\* What is on its way to the host ends with how the deck stands.
Told ==
    ~stale => /\ HasState(events) => Concludes(events, deck.playing)
              /\ ~HasState(events) /\ HasEnd(events) => ~deck.playing

\* A command that will tell the host how the deck stands, once it is executed.
WillTell(c) ==
    \/ c.op \in {"PLAY", "PAUSE"}
    \/ c.op = "JOG_TOUCH" /\ c.vinyl /\ deck.playing
    \/ c.op = "JOG_RELEASE" /\ c.playOn /\ ~deck.playing

Pending == \E i \in DOMAIN commands : WillTell(commands[i])

\* With nothing on its way that will tell it, the host shows how the deck stands.
Knows ==
    ~stale /\ ~refused /\ ~HasState(events) /\ ~Pending =>
        HasEnd(events) \/ mirror.isPlaying = deck.playing

Agreeing == Formed /\ Told /\ Knows

-----------------------------------------------------------------------------
(* What a poll makes of it *)

LEMMA EventForms ==
    ASSUME NEW e \in Events
    PROVE  /\ IsState(e) => e.playing \in BOOLEAN /\ e.loop \in BOOLEAN /\ e # EndOfTrack
           /\ e = EndOfTrack => ~IsState(e)
           /\ IsState(Playhead) <=> FALSE
           /\ Playhead # EndOfTrack
  BY DEF Events, IsState, EndOfTrack, Playhead

LEMMA HeardMakes ==
    ASSUME NEW m \in Shown, NEW q \in Seq(Events)
    PROVE  LET h == FoldLeft(Heard, m, q)
           IN  /\ h \in Shown
               /\ \A p \in BOOLEAN : Concludes(q, p) => h.isPlaying = p
               /\ ~HasState(q) /\ HasEnd(q) => ~h.isPlaying
               /\ ~HasState(q) /\ ~HasEnd(q) => h.isPlaying = m.isPlaying
<1> DEFINE h == FoldLeft(Heard, m, q)
           d == DOMAIN q
           x == Max(DecidersIn(q, d))
           y == Max(StatesIn(q, d))
<1>1. h = Made(m, q, d)
  BY FoldMakes
<1>2. /\ Len(q) \in Nat /\ d = 1 .. Len(q) /\ \A i \in d : q[i] \in Events
      /\ DecidersIn(q, d) \in SUBSET (1 .. Len(q)) /\ StatesIn(q, d) \in SUBSET (1 .. Len(q))
  BY DEF DecidersIn, StatesIn
<1>3. DecidersIn(q, d) # {} => x \in DecidersIn(q, d) /\ \A i \in DecidersIn(q, d) : i <= x
  BY <1>2, LastOf
<1>4. StatesIn(q, d) # {} => y \in StatesIn(q, d)
  BY <1>2, LastOf
<1> HIDE DEF h, d, x, y
<1>5. /\ h.isPlaying = IF DecidersIn(q, d) = {} THEN m.isPlaying
                       ELSE IF IsState(q[x]) THEN q[x].playing ELSE FALSE
      /\ h.isLoopActive = IF StatesIn(q, d) = {} THEN m.isLoopActive ELSE q[y].loop
      /\ h = [isPlaying |-> h.isPlaying, isLoopActive |-> h.isLoopActive]
  BY <1>1 DEF Made, x, y
<1>6. h \in Shown
  <2>1. h.isPlaying \in BOOLEAN
    BY <1>2, <1>3, <1>5, EventForms DEF Shown, DecidersIn
  <2>2. h.isLoopActive \in BOOLEAN
    BY <1>2, <1>4, <1>5, EventForms DEF Shown, StatesIn
  <2> QED
    BY <1>5, <2>1, <2>2 DEF Shown
<1>7. ASSUME NEW p \in BOOLEAN, Concludes(q, p) PROVE h.isPlaying = p
  <2>1. PICK i \in d : /\ IsState(q[i])
                       /\ \A j \in i .. Len(q) :
                             q[j] # EndOfTrack /\ (IsState(q[j]) => q[j].playing = p)
    BY <1>7 DEF Concludes, d
  <2>2. i \in DecidersIn(q, d)
    BY <2>1 DEF DecidersIn, Decides
  <2>3. x \in i .. Len(q) /\ Decides(q[x])
    BY <1>2, <1>3, <2>2 DEF DecidersIn
  <2>4. IsState(q[x]) /\ q[x].playing = p
    BY <2>1, <2>3 DEF Decides
  <2> QED
    BY <1>5, <2>2, <2>4
<1>8. ASSUME ~HasState(q), HasEnd(q) PROVE ~h.isPlaying
  <2>1. DecidersIn(q, d) # {}
    BY <1>8 DEF HasEnd, DecidersIn, Decides, d
  <2>2. ~IsState(q[x])
    BY <1>3, <1>8, <2>1 DEF HasState, DecidersIn, d
  <2> QED
    BY <1>5, <2>1, <2>2
<1>9. ASSUME ~HasState(q), ~HasEnd(q) PROVE h.isPlaying = m.isPlaying
  <2>1. DecidersIn(q, d) = {}
    BY <1>9 DEF HasEnd, HasState, DecidersIn, Decides, d
  <2> QED
    BY <1>5, <2>1
<1> QED
  BY <1>6, <1>7, <1>8, <1>9 DEF h

LEMMA PollAgrees ==
    ASSUME Agreeing, Poll
    PROVE  Agreeing'
<1>1. /\ Formed /\ mirror \in Shown /\ events \in Seq(Events) /\ deck.playing \in BOOLEAN
  BY Typed DEF Agreeing, Formed, Sound, SoundBut
<1>2. /\ mirror' = FoldLeft(Heard, mirror, events) /\ events' = <<>>
      /\ refused' = (refused /\ ~HasState(events))
      /\ deck' = deck /\ commands' = commands /\ jog' = jog /\ looped' = looped /\ stale' = stale
  BY DEF Poll, vars
<1>3. /\ mirror' \in Shown
      /\ Concludes(events, deck.playing) => mirror'.isPlaying = deck.playing
      /\ ~HasState(events) /\ HasEnd(events) => ~mirror'.isPlaying
      /\ ~HasState(events) /\ ~HasEnd(events) => mirror'.isPlaying = mirror.isPlaying
  BY <1>1, <1>2, HeardMakes
<1>4. ~HasState(events') /\ ~HasEnd(events')
  BY <1>2 DEF HasState, HasEnd
<1>5. Formed'
  <2>1. <<>> \in Seq(Events) /\ Len(<<>>) = 0 /\ EventCap \in Nat
    BY MirrorAssumption
  <2>2. 0 <= EventCap
    BY <2>1
  <2>3. events' \in Seq(Events) /\ Len(events') <= EventCap
    BY <1>2, <2>1, <2>2
  <2> QED
    BY <1>1, <1>2, <1>3, <2>3 DEF Formed
<1>6. Told'
  BY <1>4 DEF Told
<1>7. Knows'
  <2>1. SUFFICES ASSUME ~stale, ~(refused /\ ~HasState(events)), ~Pending
                 PROVE  mirror'.isPlaying = deck.playing
    BY <1>2 DEF Knows, Pending, WillTell
  <2>2. CASE HasState(events)
    BY <1>3, <2>1, <2>2 DEF Agreeing, Told
  <2>3. CASE ~HasState(events)
    BY <1>1, <1>3, <2>1, <2>3 DEF Agreeing, Told, Knows, Shown
  <2> QED
    BY <2>2, <2>3
<1> QED
  BY <1>5, <1>6, <1>7 DEF Agreeing

-----------------------------------------------------------------------------
(* What the host does *)

LEMMA PostAgrees ==
    ASSUME Agreeing, NEW c \in CommandSet, Post(c), mirror' \in Shown,
           jog' \in [wasPlaying : BOOLEAN, vinyl : BOOLEAN], looped' \in BOOLEAN,
           mirror'.isPlaying = mirror.isPlaying \/ WillTell(c) \/ mirror'.isPlaying = deck.playing
    PROVE  Agreeing'
<1>1. /\ deck' = deck /\ events' = events /\ stale' = stale
      /\ commands' = IF Len(commands) < CommandCap THEN Append(commands, c) ELSE commands
      /\ refused' = (refused \/ Len(commands) = CommandCap)
  BY DEF Post, vars
<1>2. /\ commands \in Seq(CommandSet) /\ Len(commands) <= CommandCap /\ Len(commands) \in Nat
      /\ CommandCap \in Nat
  BY MirrorAssumption DEF Agreeing, Formed
<1>3. commands' \in Seq(CommandSet) /\ Len(commands') <= CommandCap
  BY <1>1, <1>2
<1>4. Formed'
  BY <1>1, <1>3 DEF Agreeing, Formed
<1>5. Told'
  BY <1>1 DEF Agreeing, Told
<1>6. Knows'
  <2>1. CASE Len(commands) = CommandCap
    BY <1>1, <2>1 DEF Knows
  <2>2. CASE Len(commands) < CommandCap
    <3>1. commands' = Append(commands, c)
      BY <1>1, <2>2
    <3>2. \A i \in DOMAIN commands : i \in DOMAIN commands' /\ commands'[i] = commands[i]
      BY <1>2, <3>1
    <3>3. Len(commands) + 1 \in DOMAIN commands' /\ commands'[Len(commands) + 1] = c
      BY <1>2, <3>1
    <3>4. Pending \/ WillTell(c) => Pending'
      BY <1>1, <3>2, <3>3 DEF Pending, WillTell
    <3> QED
      BY <1>1, <3>4 DEF Agreeing, Knows
  <2> QED
    BY <1>2, <2>1, <2>2
<1> QED
  BY <1>4, <1>5, <1>6 DEF Agreeing

LEMMA HostAgrees ==
    ASSUME Agreeing, Host
    PROVE  Agreeing'
<1>0. /\ deck.playing \in BOOLEAN /\ deck.easedBrake \in BOOLEAN /\ deck.easedSpin \in BOOLEAN
      /\ mirror \in Shown /\ looped \in BOOLEAN
      /\ jog \in [wasPlaying : BOOLEAN, vinyl : BOOLEAN] /\ Sound(deck)
  BY Typed DEF Agreeing, Formed, Sound, SoundBut
<1>1. \A p \in BOOLEAN : /\ [mirror EXCEPT !.isPlaying = p] \in Shown
                         /\ [mirror EXCEPT !.isPlaying = p].isPlaying = p
                         /\ [mirror EXCEPT !.isLoopActive = p] \in Shown
                         /\ [mirror EXCEPT !.isLoopActive = p].isPlaying = mirror.isPlaying
  BY <1>0 DEF Shown
<1>2. CASE HostPlay
  <2>1. [op |-> "PLAY"] \in CommandSet /\ WillTell([op |-> "PLAY"])
    BY DEF CommandSet, WillTell
  <2> QED
    BY <1>0, <1>1, <1>2, <2>1, PostAgrees DEF HostPlay, Shows
<1>3. CASE HostPause
  <2>1. [op |-> "PAUSE"] \in CommandSet /\ WillTell([op |-> "PAUSE"])
    BY DEF CommandSet, WillTell
  <2> QED
    BY <1>0, <1>1, <1>3, <2>1, PostAgrees DEF HostPause, Shows
<1>4. ASSUME NEW p \in Places, HostSeek(p) PROVE Agreeing'
  <2>1. [op |-> "SEEK", to |-> p] \in CommandSet
    BY TransportAssumption DEF CommandSet
  <2> QED
    BY <1>0, <1>4, <2>1, PostAgrees DEF HostSeek
<1>5. ASSUME NEW on \in BOOLEAN, HostReverse(on) \/ HostSlip(on) PROVE Agreeing'
  <2>1. [op |-> "SET_REVERSE", on |-> on] \in CommandSet /\ [op |-> "SET_SLIP", on |-> on] \in CommandSet
    BY DEF CommandSet
  <2> QED
    BY <1>0, <1>5, <2>1, PostAgrees DEF HostReverse, HostSlip
<1>6. ASSUME NEW vinyl \in BOOLEAN, JogTouchBegan(vinyl) PROVE Agreeing'
  <2> DEFINE c == [op |-> "JOG_TOUCH", vinyl |-> vinyl]
  <2>1. c \in CommandSet /\ (WillTell(c) <=> vinyl /\ deck.playing)
    BY DEF CommandSet, WillTell
  <2>2. mirror' = [mirror EXCEPT !.isPlaying = mirror.isPlaying /\ ~vinyl]
    BY <1>6 DEF JogTouchBegan, Shows
  <2>3. (mirror.isPlaying /\ ~vinyl) \in BOOLEAN
    OBVIOUS
  <2>4. mirror' \in Shown /\ mirror'.isPlaying = (mirror.isPlaying /\ ~vinyl)
    BY <1>1, <2>2, <2>3
  <2>5. mirror'.isPlaying = mirror.isPlaying \/ WillTell(c) \/ mirror'.isPlaying = deck.playing
    BY <1>0, <2>1, <2>4 DEF Shown
  <2>6. jog' \in [wasPlaying : BOOLEAN, vinyl : BOOLEAN] /\ looped' \in BOOLEAN /\ Post(c)
    BY <1>0, <1>6 DEF JogTouchBegan, Shown
  <2> HIDE DEF c
  <2> QED
    BY <2>1, <2>4, <2>5, <2>6, PostAgrees
<1>7. CASE JogTouchEnded
  <2> DEFINE c == [op |-> "JOG_RELEASE", playOn |-> PlaysOn]
  <2>0. PlaysOn \in BOOLEAN
    BY <1>0 DEF PlaysOn
  <2>1. c \in CommandSet /\ (WillTell(c) <=> PlaysOn /\ ~deck.playing)
    BY <2>0 DEF CommandSet, WillTell
  <2>2. mirror' = [mirror EXCEPT !.isPlaying = mirror.isPlaying \/ PlaysOn]
    BY <1>7 DEF JogTouchEnded, Shows
  <2>3. (mirror.isPlaying \/ PlaysOn) \in BOOLEAN
    OBVIOUS
  <2>4. mirror' \in Shown /\ mirror'.isPlaying = (mirror.isPlaying \/ PlaysOn)
    BY <1>1, <2>2, <2>3
  <2>5. mirror'.isPlaying = mirror.isPlaying \/ WillTell(c) \/ mirror'.isPlaying = deck.playing
    BY <1>0, <2>0, <2>1, <2>4 DEF Shown
  <2>6. jog' \in [wasPlaying : BOOLEAN, vinyl : BOOLEAN] /\ looped' \in BOOLEAN /\ Post(c)
    BY <1>0, <1>7 DEF JogTouchEnded, NoJog
  <2> HIDE DEF c
  <2> QED
    BY <2>1, <2>4, <2>5, <2>6, PostAgrees
<1>8. ASSUME NEW l \in Loops, HostSetLoop(l) PROVE Agreeing'
  <2>1. [op |-> "SET_LOOP", loop |-> l] \in CommandSet
    BY MirrorAssumption DEF CommandSet
  <2>2. Fits(l) \in BOOLEAN
    BY DEF Fits
  <2>3. (mirror.isLoopActive \/ Fits(l)) \in BOOLEAN /\ (looped \/ Fits(l)) \in BOOLEAN
    OBVIOUS
  <2> QED
    BY <1>0, <1>1, <1>8, <2>1, <2>3, PostAgrees DEF HostSetLoop
<1>9. CASE HostLoopIn \/ HostReloopExit \/ HostExitLoopAtEnd
  <2>1. /\ [op |-> "LOOP_IN"] \in CommandSet /\ [op |-> "RELOOP_EXIT"] \in CommandSet
        /\ [op |-> "LOOP_EXIT_AT_END"] \in CommandSet
    BY DEF CommandSet
  <2>2. (~mirror.isLoopActive /\ looped) \in BOOLEAN
    OBVIOUS
  <2> QED
    BY <1>0, <1>1, <1>9, <2>1, <2>2, PostAgrees DEF HostLoopIn, HostReloopExit, HostExitLoopAtEnd
<1>10. ASSUME NEW n \in Lengths, HostLoad(n) PROVE Agreeing'
  <2>1. /\ deck' = Loaded(n, deck.easedBrake, deck.easedSpin)
        /\ mirror' = [mirror EXCEPT !.isPlaying = FALSE]
        /\ looped' = FALSE /\ stale' = HasState(events)
        /\ commands' = commands /\ events' = events /\ jog' = jog
    BY <1>10 DEF HostLoad, SetBuffer, Shows
  <2>2. Sound(deck') /\ deck'.playing = FALSE
    BY <1>0, <2>1, LoadedSound DEF Loaded
  <2>3. mirror' \in Shown /\ mirror'.isPlaying = FALSE
    BY <1>1, <2>1
  <2>4. Formed'
    BY <2>1, <2>2, <2>3 DEF Agreeing, Formed
  <2>5. Told' /\ Knows'
    BY <2>1, <2>2, <2>3 DEF Told, Knows
  <2> QED
    BY <2>4, <2>5 DEF Agreeing
<1> QED
  BY <1>2, <1>3, <1>4, <1>5, <1>6, <1>7, <1>8, <1>9, <1>10 DEF Host

-----------------------------------------------------------------------------
(* What the render thread does *)

\* What a step tells of the deck is so, and the end of the track comes before it.
Faithful ==
    /\ \A i \in DOMAIN news' : IsState(news'[i]) => news'[i].playing = deck'.playing
    /\ \A i, j \in DOMAIN news' : i < j /\ IsState(news'[i]) => news'[j] # EndOfTrack
    /\ HasEnd(news') => HasState(news')

LEMMA NewsForms ==
    ASSUME NEW d, NEW q \in {<<>>, <<Playhead>>, <<State(d)>>, <<Playhead, State(d)>>, <<EndOfTrack, State(d)>>,
                             <<Playhead, EndOfTrack, State(d)>>}
    PROVE  /\ \A i \in DOMAIN q : IsState(q[i]) => q[i].playing = d.playing
           /\ \A i, j \in DOMAIN q : i < j /\ IsState(q[i]) => q[j] # EndOfTrack
           /\ HasEnd(q) => HasState(q)
           /\ q \notin {<<>>, <<Playhead>>} => HasState(q)
<1>1. IsState(State(d)) /\ State(d).playing = d.playing /\ State(d) # EndOfTrack
  BY DEF IsState, State, EndOfTrack
<1>2. ~IsState(Playhead) /\ ~IsState(EndOfTrack) /\ Playhead # EndOfTrack
  BY DEF IsState, Playhead, EndOfTrack
<1> DEFINE S == State(d)
<1>3. CASE q = <<>>
  BY <1>3 DEF HasEnd
<1>4. CASE q = <<Playhead>>
  BY <1>2, <1>4 DEF HasEnd
<1>5. CASE q = <<S>>
  <2> HIDE DEF S
  <2>1. DOMAIN q = {1} /\ q[1] = S
    BY <1>5
  <2> QED
    BY <1>1, <2>1 DEF HasEnd, HasState, S
<1>6. CASE q = <<Playhead, S>>
  <2> HIDE DEF S
  <2>1. DOMAIN q = {1, 2} /\ q[1] = Playhead /\ q[2] = S
    BY <1>6
  <2> QED
    BY <1>1, <1>2, <2>1 DEF HasEnd, HasState, S
<1>7. CASE q = <<EndOfTrack, S>>
  <2> HIDE DEF S
  <2>1. DOMAIN q = {1, 2} /\ q[1] = EndOfTrack /\ q[2] = S
    BY <1>7
  <2> QED
    BY <1>1, <1>2, <2>1 DEF HasEnd, HasState, S
<1>8. CASE q = <<Playhead, EndOfTrack, S>>
  <2> HIDE DEF S
  <2>1. DOMAIN q = {1, 2, 3} /\ q[1] = Playhead /\ q[2] = EndOfTrack /\ q[3] = S
    BY <1>8
  <2> QED
    BY <1>1, <1>2, <2>1 DEF HasEnd, HasState, S
<1> QED
  BY <1>3, <1>4, <1>5, <1>6, <1>7, <1>8

\* Putting the loop's STATE, or a jump's news, with what a step tells.
LEMMA Joined ==
    ASSUME NEW e, NEW f, NEW g
    PROVE  /\ <<>> \o <<>> = <<>> /\ <<>> \o <<e>> = <<e>> /\ <<e>> \o <<>> = <<e>>
           /\ <<f>> \o <<e>> = <<f, e>> /\ <<>> \o <<f, e>> = <<f, e>>
           /\ <<g>> \o <<f, e>> = <<g, f, e>>
<1> DEFINE T == {e, f, g}
<1>1. /\ <<>> \in Seq(T) /\ <<e>> \in Seq(T) /\ <<f>> \in Seq(T) /\ <<g>> \in Seq(T)
      /\ <<f, e>> \in Seq(T) /\ <<g, f, e>> \in Seq(T)
  OBVIOUS
<1> HIDE DEF T
<1>2. /\ <<>> \o <<>> = <<>> /\ <<>> \o <<e>> = <<e>> /\ <<e>> \o <<>> = <<e>>
      /\ <<>> \o <<f, e>> = <<f, e>>
  BY <1>1, ConcatEmptySeq
<1>3. <<f>> \o <<e>> = <<f, e>>
  <2> DEFINE s == <<f>> \o <<e>>
             t == <<f, e>>
  <2>1. Len(<<f>>) = 1 /\ Len(<<e>>) = 1 /\ Len(t) = 2 /\ t[1] = f /\ t[2] = e
        /\ <<f>>[1] = f /\ <<e>>[1] = e
    OBVIOUS
  <2>2. s \in Seq(T) /\ Len(s) = 2 /\ s[1] = f /\ s[2] = e
    BY <1>1, <2>1, ConcatProperties
  <2> HIDE DEF s, t
  <2>3. t \in Seq(T)
    BY <1>1 DEF t
  <2>4. \A i \in 1 .. 2 : i = 1 \/ i = 2
    OBVIOUS
  <2>5. s = t
    BY <2>1, <2>2, <2>3, <2>4, SeqEqual
  <2> QED
    BY <2>5 DEF s, t
<1>4. <<g>> \o <<f, e>> = <<g, f, e>>
  <2> DEFINE s == <<g>> \o <<f, e>>
             t == <<g, f, e>>
  <2>1. Len(<<g>>) = 1 /\ Len(<<f, e>>) = 2 /\ Len(t) = 3 /\ t[1] = g /\ t[2] = f /\ t[3] = e
        /\ <<g>>[1] = g /\ <<f, e>>[1] = f /\ <<f, e>>[2] = e
    OBVIOUS
  <2>2. s \in Seq(T) /\ Len(s) = 3 /\ s[1] = g /\ s[2] = f /\ s[3] = e
    BY <1>1, <2>1, ConcatProperties
  <2> HIDE DEF s, t
  <2>3. t \in Seq(T)
    BY <1>1 DEF t
  <2>4. \A i \in 1 .. 3 : i = 1 \/ i = 2 \/ i = 3
    OBVIOUS
  <2>5. s = t
    BY <2>1, <2>2, <2>3, <2>4, SeqEqual
  <2> QED
    BY <2>5 DEF s, t
<1> QED
  BY <1>2, <1>3, <1>4

LEMMA AppliedTells ==
    ASSUME NEW d, NEW told \in {<<>>, <<Playhead>>, <<State(d)>>}, Apply(d, told),
           told = <<State(d)>> => d.active = deck.active
    PROVE  /\ Faithful
           /\ told = <<State(d)>> => HasState(news')
<1> DEFINE S == State(d)
           more == IF d.active # deck.active THEN <<S>> ELSE <<>>
<1>1. deck' = d /\ news' = told \o more
  BY DEF Apply
<1>2. told = <<>> \/ told = <<Playhead>> \/ told = <<S>>
  OBVIOUS
<1>3. more = <<>> \/ (more = <<S>> /\ told # <<S>>)
  OBVIOUS
<1> HIDE DEF S, more
<1>4. news' \in {<<>>, <<Playhead>>, <<S>>, <<Playhead, S>>, <<EndOfTrack, S>>,
                 <<Playhead, EndOfTrack, S>>}
  BY <1>1, <1>2, <1>3, Joined
<1>5. told = <<S>> => news' = <<S>>
  BY <1>1, <1>3, Joined
<1>6. /\ \A i \in DOMAIN news' : IsState(news'[i]) => news'[i].playing = d.playing
      /\ \A i, j \in DOMAIN news' : i < j /\ IsState(news'[i]) => news'[j] # EndOfTrack
      /\ HasEnd(news') => HasState(news')
      /\ news' \notin {<<>>, <<Playhead>>} => HasState(news')
  BY <1>4, NewsForms, Zenon DEF S
<1>7. <<S>> \notin {<<>>, <<Playhead>>}
  <2>1. S # Playhead
    BY DEF S, State, Playhead
  <2> QED
    BY <2>1
<1> QED
  BY <1>1, <1>5, <1>6, <1>7 DEF Faithful, S

LEMMA RenderedTells ==
    ASSUME NEW d, NEW told \in {<<>>, <<State(d)>>, <<EndOfTrack, State(d)>>}, Rendered(d, told)
    PROVE  Faithful
<1> DEFINE S == State(d)
           before == IF JumpFires THEN <<Playhead>> ELSE <<>>
<1>1. deck' = d /\ news' = before \o told
  BY DEF Rendered
<1>2. told = <<>> \/ told = <<S>> \/ told = <<EndOfTrack, S>>
  OBVIOUS
<1>3. before = <<>> \/ before = <<Playhead>>
  OBVIOUS
<1> HIDE DEF S, before
<1>4. news' \in {<<>>, <<Playhead>>, <<S>>, <<Playhead, S>>, <<EndOfTrack, S>>,
                 <<Playhead, EndOfTrack, S>>}
  BY <1>1, <1>2, <1>3, Joined
<1>5. /\ \A i \in DOMAIN news' : IsState(news'[i]) => news'[i].playing = d.playing
      /\ \A i, j \in DOMAIN news' : i < j /\ IsState(news'[i]) => news'[j] # EndOfTrack
      /\ HasEnd(news') => HasState(news')
  BY <1>4, NewsForms, Zenon DEF S
<1> QED
  BY <1>1, <1>5 DEF Faithful

LEMMA FrameTells == ASSUME Frame PROVE Faithful
<1>1. CASE Stand(Now)
  BY <1>1, RenderedTells DEF Stand
<1>2. ASSUME NEW rests \in BOOLEAN, Scratch(Now, rests) PROVE Faithful
  BY <1>2, RenderedTells DEF Scratch
<1>3. ASSUME NEW m, Move(m) PROVE Faithful
  BY <1>3, RenderedTells DEF Move, LeaveLoop, WrapLoop, ReachEnd, ReachStart, MoveOn
<1> QED
  BY <1>1, <1>2, <1>3 DEF Frame

LEMMA FaderTells == ASSUME FaderStart PROVE Faithful /\ HasState(news')
<1> DEFINE d == [deck EXCEPT !.playing = TRUE]
<1>1. Apply(d, <<State(d)>>)
  BY DEF FaderStart
<1>2. d.active = deck.active
  OBVIOUS
<1> HIDE DEF d
<1> QED
  BY <1>1, <1>2, AppliedTells

LEMMA QuietTells ==
    ASSUME NEW d, Apply(d, <<>>) \/ Apply(d, <<Playhead>>)
    PROVE  Faithful
<1>1. State(d) # Playhead
  BY DEF State, Playhead
<1>2. <<>> # <<State(d)>> /\ <<Playhead>> # <<State(d)>>
  BY <1>1
<1> QED
  BY <1>2, AppliedTells

LEMMA CommandForms ==
    ASSUME NEW c \in CommandSet
    PROVE  /\ c.op = "SEEK" => c.to \in Int
           /\ c.op \in {"SET_REVERSE", "SET_SLIP"} => c.on \in BOOLEAN
           /\ c.op = "JOG_TOUCH" => c.vinyl \in BOOLEAN
           /\ c.op = "JOG_RELEASE" => c.playOn \in BOOLEAN
           /\ c.op = "SET_LOOP" => c.loop[1] \in Int /\ c.loop[2] \in Int
  BY DEF CommandSet

LEMMA PlayTells == ASSUME Sound(deck), Play PROVE Faithful /\ HasState(news')
<1> DEFINE d == SpinUp([deck EXCEPT !.shadow = deck.position])
<1>1. Apply(d, <<State(d)>>)
  BY DEF Play
<1>2. d.active = deck.active
  BY DEF SpinUp, Sound, SoundBut, DeckState
<1> HIDE DEF d
<1> QED
  BY <1>1, <1>2, AppliedTells

LEMMA PauseTells == ASSUME Sound(deck), Pause PROVE Faithful /\ HasState(news')
<1> DEFINE d == Brake(deck)
<1>1. Apply(d, <<State(d)>>)
  BY DEF Pause
<1>2. d.active = deck.active
  BY BrakeSound
<1> HIDE DEF d
<1> QED
  BY <1>1, <1>2, AppliedTells

LEMMA JogTouchTells ==
    ASSUME Sound(deck), NEW vinyl \in BOOLEAN, JogTouch(vinyl)
    PROVE  Faithful /\ (vinyl /\ deck.playing => HasState(news'))
<1> DEFINE d == [deck EXCEPT !.touched = TRUE, !.vinyl = vinyl, !.hand = 0,
                             !.audio = deck.position, !.aim = deck.position]
           e == Brake(d)
<1>1. IF vinyl /\ d.playing THEN Apply(e, <<State(e)>>) ELSE Apply(d, <<>>)
  BY DEF JogTouch
<1>2. d.playing = deck.playing /\ e.active = deck.active
  BY DEF Brake, Sound, SoundBut, DeckState
<1> HIDE DEF d, e
<1>3. CASE vinyl /\ d.playing
  BY <1>1, <1>2, <1>3, AppliedTells
<1>4. CASE ~(vinyl /\ d.playing)
  BY <1>1, <1>2, <1>4, QuietTells
<1> QED
  BY <1>3, <1>4

LEMMA JogReleaseTells ==
    ASSUME Sound(deck), NEW playOn \in BOOLEAN, JogRelease(playOn)
    PROVE  Faithful /\ (HasState(news') \/ deck'.playing = deck.playing)
<1> DEFINE b == IF Scratching(deck) THEN At(deck, deck.audio) ELSE deck
           d == [b EXCEPT !.touched = FALSE, !.vinyl = FALSE, !.hand = 0]
           e == SpinUp(d)
<1>1. IF playOn /\ d.position < d.frames THEN Apply(e, <<State(e)>>) ELSE Apply(d, <<>>)
  BY DEF JogRelease
<1>2. deck \in DeckState /\ deck.audio \in Int
  BY Typed DEF Sound, SoundBut
<1>3. b \in DeckState /\ b.playing = deck.playing /\ b.active = deck.active
  <2>1. /\ At(deck, deck.audio) \in DeckState
        /\ At(deck, deck.audio).playing = deck.playing /\ At(deck, deck.audio).active = deck.active
    BY <1>2 DEF At, DeckState
  <2> QED
    BY <1>2, <2>1
<1> HIDE DEF b
<1>4. d.playing = deck.playing /\ e.active = deck.active
  BY <1>3 DEF SpinUp, DeckState
<1> HIDE DEF d, e
<1>5. CASE playOn /\ d.position < d.frames
  BY <1>1, <1>4, <1>5, AppliedTells
<1>6. CASE ~(playOn /\ d.position < d.frames)
  <2>1. Apply(d, <<>>)
    BY <1>1, <1>6
  <2> QED
    BY <1>4, <2>1, QuietTells DEF Apply
<1> QED
  BY <1>5, <1>6

LEMMA ReloopExitTells == ASSUME ReloopExit PROVE Faithful
<1> DEFINE d == [deck EXCEPT !.exitAtEnd = FALSE]
           e == Resume([d EXCEPT !.active = FALSE])
           f == [d EXCEPT !.active = ~d.active /\ d.available]
<1>1. Apply(e, <<Playhead>>) \/ Apply(f, <<>>)
  BY DEF ReloopExit
<1> HIDE DEF e, f
<1> QED
  BY <1>1, QuietTells

\* What a command makes of the deck, and what it says of it.
LEMMA ExecuteTells ==
    ASSUME Sound(deck), NEW c \in CommandSet, Execute(c)
    PROVE  /\ Sound(deck') /\ news' \in Seq(Events) /\ Faithful
           /\ WillTell(c) => HasState(news') \/ (c.op = "JOG_RELEASE" /\ c.playOn /\ ~deck'.playing)
<1> DEFINE Goal == /\ Sound(deck') /\ news' \in Seq(Events) /\ Faithful
                   /\ WillTell(c) => \/ HasState(news')
                                     \/ c.op = "JOG_RELEASE" /\ c.playOn /\ ~deck'.playing
<1>1. CASE c.op = "PLAY" /\ Play
  BY <1>1, PlayFine, PlayTells DEF Fine
<1>2. CASE c.op = "PAUSE" /\ Pause
  BY <1>2, PauseFine, PauseTells DEF Fine
<1>3. CASE c.op = "SEEK" /\ Seek(c.to)
  <2>1. Apply(deck, <<>>) \/ \E d : Apply(d, <<Playhead>>)
    BY <1>3 DEF Seek, Ignore
  <2> QED
    BY <1>3, <2>1, CommandForms, SeekFine, QuietTells DEF Fine, WillTell
<1>4. CASE c.op = "SET_REVERSE" /\ SetReverse(c.on)
  <2>1. \E d : Apply(d, <<>>) \/ Apply(d, <<Playhead>>)
    BY <1>4 DEF SetReverse
  <2> QED
    BY <1>4, <2>1, CommandForms, SetReverseFine, QuietTells DEF WillTell
<1>5. CASE c.op = "SET_SLIP" /\ SetSlip(c.on)
  <2>1. \E d : Apply(d, <<>>)
    BY <1>5 DEF SetSlip
  <2> QED
    BY <1>5, <2>1, CommandForms, SetSlipFine, QuietTells DEF Fine, WillTell
<1>6. CASE c.op = "JOG_TOUCH" /\ JogTouch(c.vinyl)
  BY <1>6, CommandForms, JogTouchFine, JogTouchTells DEF Fine, WillTell
<1>7. CASE c.op = "JOG_RELEASE" /\ JogRelease(c.playOn)
  BY <1>7, CommandForms, JogReleaseFine, JogReleaseTells DEF Fine, WillTell
<1>8. CASE c.op = "SET_LOOP" /\ SetLoopFrames(c.loop[1], c.loop[2], TRUE)
  <2>1. \E d : Apply(d, <<>>)
    BY <1>8 DEF SetLoopFrames
  <2> QED
    BY <1>8, <2>1, CommandForms, SetLoopFine, QuietTells DEF Fine, WillTell
<1>9. CASE c.op = "LOOP_IN" /\ LoopIn(deck.position)
  <2>1. \E d : Apply(d, <<>>)
    BY <1>9 DEF LoopIn
  <2>2. deck.position \in Int
    BY Typed DEF Sound, SoundBut
  <2> QED
    BY <1>9, <2>1, <2>2, LoopInFine, QuietTells DEF Fine, WillTell
<1>10. CASE c.op = "RELOOP_EXIT" /\ ReloopExit
  BY <1>10, ReloopExitFine, ReloopExitTells DEF Fine, WillTell
<1>11. CASE c.op = "LOOP_EXIT_AT_END" /\ LoopExitAtEnd
  <2>1. \E d : Apply(d, <<>>)
    BY <1>11 DEF LoopExitAtEnd
  <2> QED
    BY <1>11, <2>1, ExitFine, QuietTells DEF Fine, WillTell
<1> QED
  BY <1>1, <1>2, <1>3, <1>4, <1>5, <1>6, <1>7, <1>8, <1>9, <1>10, <1>11 DEF Execute

-----------------------------------------------------------------------------
(* What reaches the event ring *)

\* The first k events of the step go in, behind what is there.
LEMMA FitsBehind ==
    ASSUME events \in Seq(Events), Len(events) <= EventCap, news' \in Seq(Events), Push(news')
    PROVE  \E k \in 0 .. Len(news') :
              /\ events' \in Seq(Events) /\ Len(events') = Len(events) + k /\ Len(events') <= EventCap
              /\ \A i \in DOMAIN events : events'[i] = events[i]
              /\ \A i \in 1 .. k : events'[Len(events) + i] = news'[i]
              /\ HasState(Fitting(news')) <=> \E i \in 1 .. k : IsState(news'[i])
<1> DEFINE k == Clamp(EventCap - Len(events), 0, Len(news'))
           f == Fitting(news')
<1>1. Len(events) \in Nat /\ Len(news') \in Nat /\ EventCap \in Nat
  BY LenProperties, MirrorAssumption
<1>2. k \in 0 .. Len(news') /\ k <= EventCap - Len(events)
  BY <1>1 DEF Clamp
<1>3. f = SubSeq(news', 1, k) /\ events' = events \o f
  BY DEF Push, Fitting
<1> HIDE DEF k, f
<1>4. \A i \in 1 .. k : news'[i] \in Events
  BY <1>1, <1>2
<1>5. f \in Seq(Events) /\ Len(f) = k /\ \A i \in 1 .. k : f[i] = news'[i]
  BY <1>1, <1>2, <1>3, <1>4, SubSeqProperties
<1>6. /\ events' \in Seq(Events) /\ Len(events') = Len(events) + k
      /\ \A i \in 1 .. Len(events) + k :
            events'[i] = IF i <= Len(events) THEN events[i] ELSE f[i - Len(events)]
  BY <1>3, <1>5, ConcatProperties
<1>7. Len(events') <= EventCap
  BY <1>1, <1>2, <1>6
<1>8. \A i \in DOMAIN events : events'[i] = events[i]
  BY <1>1, <1>2, <1>6
<1>9. ASSUME NEW i \in 1 .. k PROVE events'[Len(events) + i] = news'[i]
  <2>1. /\ Len(events) + i \in 1 .. Len(events) + k /\ ~(Len(events) + i <= Len(events))
        /\ (Len(events) + i) - Len(events) = i
    BY <1>1, <1>2
  <2> QED
    BY <1>5, <1>6, <2>1
<1>10. HasState(f) <=> \E i \in 1 .. k : IsState(news'[i])
  <2>1. DOMAIN f = 1 .. k
    BY <1>5, LenProperties
  <2>2. \A i \in 1 .. k : IsState(f[i]) <=> IsState(news'[i])
    BY <1>5
  <2> QED
    BY <2>1, <2>2, Zenon DEF HasState
<1> QED
  BY <1>2, <1>6, <1>7, <1>8, <1>9, <1>10 DEF f

\* A step of the deck that says what it did, or did not change how the deck stands.
LEMMA PushAgrees ==
    ASSUME Agreeing, Sound(deck'), news' \in Seq(Events), Faithful, Pushed,
           commands' \in Seq(CommandSet), Len(commands') <= CommandCap,
           UNCHANGED <<mirror, jog, looped, refused>>,
           ~HasState(news') /\ ~Untold /\ Pending => Pending'
    PROVE  Agreeing'
<1>1. /\ events \in Seq(Events) /\ Len(events) <= EventCap /\ Len(events) \in Nat
      /\ Len(news') \in Nat /\ Told /\ Knows
  BY LenProperties DEF Agreeing, Formed
<1>2. PICK k \in 0 .. Len(news') :
              /\ events' \in Seq(Events) /\ Len(events') = Len(events) + k /\ Len(events') <= EventCap
              /\ \A i \in DOMAIN events : events'[i] = events[i]
              /\ \A i \in 1 .. k : events'[Len(events) + i] = news'[i]
              /\ HasState(Fitting(news')) <=> \E i \in 1 .. k : IsState(news'[i])
  BY <1>1, FitsBehind DEF Pushed
<1>3. DOMAIN events = 1 .. Len(events) /\ DOMAIN events' = 1 .. Len(events) + k
  BY <1>1, <1>2
<1>4. Formed'
  BY <1>2 DEF Agreeing, Formed
<1>5. CASE HasState(news')
  <2>1. stale' = ~HasState(Fitting(news'))
    BY <1>5 DEF Pushed
  <2>2. SUFFICES ASSUME ~stale' PROVE Told' /\ Knows'
    BY <1>4 DEF Agreeing, Told, Knows
  <2>3. PICK i \in 1 .. k : IsState(news'[i])
    BY <1>2, <2>1, <2>2
  <2> DEFINE x == Len(events) + i
  <2>4. x \in DOMAIN events' /\ events'[x] = news'[i] /\ i \in DOMAIN news'
    BY <1>1, <1>2, <1>3, <2>3
  <2>5. ASSUME NEW j \in x .. Len(events')
        PROVE  events'[j] # EndOfTrack /\ (IsState(events'[j]) => events'[j].playing = deck'.playing)
    <3>1. /\ j - Len(events) \in 1 .. k /\ i <= j - Len(events)
          /\ j = Len(events) + (j - Len(events))
      BY <1>1, <1>2, <2>3, <2>5
    <3>2. events'[j] = news'[j - Len(events)] /\ j - Len(events) \in DOMAIN news'
      BY <1>1, <1>2, <3>1
    <3>3. news'[i] \in Events
      BY <2>4
    <3>4. news'[j - Len(events)] # EndOfTrack
      BY <2>3, <2>4, <3>1, <3>2, <3>3, EventForms DEF Faithful
    <3> QED
      BY <3>2, <3>4 DEF Faithful
  <2>6. HasState(events')
    BY <2>3, <2>4 DEF HasState
  <2>7. Concludes(events', deck'.playing)
    BY <2>3, <2>4, <2>5 DEF Concludes
  <2> QED
    BY <2>6, <2>7 DEF Told, Knows
<1>6. CASE ~HasState(news')
  <2>1. SUFFICES ASSUME ~stale' PROVE Told' /\ Knows'
    BY <1>4 DEF Agreeing, Told, Knows
  <2>2. ~stale /\ ~Untold /\ deck'.playing = deck.playing
    BY <1>6, <2>1 DEF Pushed, Untold
  <2>3. \A i \in 1 .. k : ~IsState(news'[i]) /\ news'[i] # EndOfTrack
    <3>1. \A i \in 1 .. k : i \in DOMAIN news'
      BY <1>1, <1>2
    <3> QED
      BY <1>6, <3>1 DEF Faithful, HasState, HasEnd
  <2>4. ASSUME NEW i \in DOMAIN events', i > Len(events)
        PROVE  ~IsState(events'[i]) /\ events'[i] # EndOfTrack
    <3>1. i - Len(events) \in 1 .. k /\ i = Len(events) + (i - Len(events))
      BY <1>1, <1>2, <1>3, <2>4
    <3> QED
      BY <1>2, <2>3, <3>1
  <2>5. \A i \in DOMAIN events' : i > Len(events) \/ i \in DOMAIN events
    BY <1>1, <1>2, <1>3
  <2>6. (HasState(events') <=> HasState(events)) /\ (HasEnd(events') <=> HasEnd(events))
    <3>1. \A i \in DOMAIN events : i \in DOMAIN events'
      BY <1>1, <1>2, <1>3
    <3> QED
      BY <1>2, <2>4, <2>5, <3>1 DEF HasState, HasEnd
  <2>7. Concludes(events, deck.playing) => Concludes(events', deck'.playing)
    <3>1. SUFFICES ASSUME NEW i \in DOMAIN events, IsState(events[i]),
                          \A j \in i .. Len(events) :
                             /\ events[j] # EndOfTrack
                             /\ (IsState(events[j]) => events[j].playing = deck.playing)
                   PROVE  Concludes(events', deck'.playing)
      BY DEF Concludes
    <3>2. i \in DOMAIN events' /\ IsState(events'[i])
      BY <1>1, <1>2, <1>3, <3>1
    <3>3. ASSUME NEW j \in i .. Len(events')
          PROVE  events'[j] # EndOfTrack /\ (IsState(events'[j]) => events'[j].playing = deck'.playing)
      <4>1. j \in DOMAIN events'
        BY <1>1, <1>2, <1>3
      <4>2. CASE j > Len(events)
        BY <2>4, <4>1, <4>2
      <4>3. CASE ~(j > Len(events))
        <5>1. j \in i .. Len(events) /\ j \in DOMAIN events
          BY <1>1, <1>2, <1>3, <4>1, <4>3
        <5> QED
          BY <1>2, <2>2, <3>1, <5>1
      <4> QED
        BY <4>2, <4>3
    <3> QED
      BY <3>2, <3>3 DEF Concludes
  <2>8. Told'
    BY <1>1, <2>2, <2>6, <2>7 DEF Told
  <2>9. Knows'
    <3>1. SUFFICES ASSUME ~refused, ~HasState(events), ~Pending
                   PROVE  HasEnd(events) \/ mirror.isPlaying = deck.playing
      BY <1>6, <2>2, <2>6 DEF Knows
    <3> QED
      BY <1>1, <2>2, <3>1 DEF Knows
  <2> QED
    BY <2>8, <2>9
<1> QED
  BY <1>4, <1>5, <1>6 DEF Agreeing

LEMMA CommandAgrees == ASSUME Agreeing, RenderCommand PROVE Agreeing'
<1> DEFINE c == Head(commands)
<1>1. /\ commands \in Seq(CommandSet) /\ commands # <<>> /\ Len(commands) <= CommandCap
      /\ commands' = Tail(commands) /\ Sound(deck) /\ Execute(c) /\ Pushed
      /\ UNCHANGED <<mirror, jog, looped, refused>>
  BY DEF Agreeing, Formed, RenderCommand, hostVars
<1>2. /\ c \in CommandSet /\ c = commands[1] /\ Len(commands) \in Nat
      /\ commands' \in Seq(CommandSet) /\ Len(commands') = Len(commands) - 1
      /\ \A i \in 1 .. Len(commands) - 1 : commands'[i] = commands[i + 1]
  BY <1>1, HeadTailProperties, LenProperties
<1>3. Len(commands') <= CommandCap /\ commands' # commands
  <2>1. /\ Len(commands) \in Nat /\ Len(commands') = Len(commands) - 1
        /\ Len(commands) <= CommandCap /\ CommandCap \in Nat
    BY <1>1, <1>2, MirrorAssumption
  <2>2. Len(commands') # Len(commands) /\ Len(commands') <= CommandCap
    BY <2>1
  <2> QED
    BY <2>2
<1> HIDE DEF c
<1>4. /\ Sound(deck') /\ news' \in Seq(Events) /\ Faithful
      /\ WillTell(c) => HasState(news') \/ (c.op = "JOG_RELEASE" /\ c.playOn /\ ~deck'.playing)
  BY <1>1, <1>2, ExecuteTells
<1>5. ASSUME ~HasState(news'), ~Untold, Pending PROVE Pending'
  <2>1. deck'.playing = deck.playing /\ ~(c.op = "JOG_RELEASE" /\ c.playOn /\ ~deck'.playing)
    BY <1>3, <1>5 DEF Untold, c
  <2>2. PICK i \in DOMAIN commands : WillTell(commands[i])
    BY <1>5 DEF Pending
  <2>3. i # 1
    BY <1>2, <1>4, <1>5, <2>1, <2>2
  <2>4. i - 1 \in 1 .. Len(commands) - 1 /\ i = (i - 1) + 1
    BY <1>1, <1>2, <2>2, <2>3
  <2>5. i - 1 \in DOMAIN commands' /\ commands'[i - 1] = commands[i]
    BY <1>2, <2>4
  <2> QED
    BY <2>1, <2>2, <2>5 DEF Pending, WillTell
<1> QED
  BY <1>1, <1>2, <1>3, <1>4, <1>5, PushAgrees

LEMMA RenderAgrees == ASSUME Agreeing, RenderFader \/ RenderFrame PROVE Agreeing'
<1>1. /\ Sound(deck) /\ commands \in Seq(CommandSet) /\ Len(commands) <= CommandCap
      /\ commands' = commands /\ Pushed /\ UNCHANGED <<mirror, jog, looped, refused>>
      /\ FaderStart \/ Frame
  BY DEF Agreeing, Formed, RenderFader, RenderFrame, hostVars
<1>2. Sound(deck') /\ news' \in Seq(Events) /\ Faithful
  BY <1>1, FaderStartFine, FrameFine, FaderTells, FrameTells DEF Fine
<1>3. ASSUME ~Untold, Pending PROVE Pending'
  BY <1>1, <1>3 DEF Untold, Pending, WillTell
<1> QED
  BY <1>1, <1>2, <1>3, PushAgrees

LEMMA AgreeingInv == Agreeing /\ [MirrorNext]_mirrorVars => Agreeing'
<1> SUFFICES ASSUME Agreeing, [MirrorNext]_mirrorVars PROVE Agreeing'
  OBVIOUS
<1>1. CASE Host
  BY <1>1, HostAgrees
<1>2. CASE Poll
  BY <1>2, PollAgrees
<1>3. CASE RenderCommand
  BY <1>3, CommandAgrees
<1>4. CASE RenderFader \/ RenderFrame
  BY <1>4, RenderAgrees
<1>5. CASE UNCHANGED mirrorVars
  BY <1>5 DEF mirrorVars, vars, hostVars, Agreeing, Formed, Told, Knows, Pending, WillTell
<1> QED
  BY <1>1, <1>2, <1>3, <1>4, <1>5 DEF MirrorNext

LEMMA InitAgreeing == MirrorInit => Agreeing
<1> SUFFICES ASSUME MirrorInit PROVE Agreeing
  OBVIOUS
<1>1. Sound(deck) /\ deck.playing = FALSE
  BY InitSafe DEF MirrorInit, Safe, Init, Loaded
<1>2. <<>> \in Seq(CommandSet) /\ <<>> \in Seq(Events) /\ Len(<<>>) = 0
  BY EmptySeq
<1>3. 0 <= CommandCap /\ 0 <= EventCap
  BY MirrorAssumption
<1>4. commands = <<>> /\ events = <<>>
  BY DEF MirrorInit
<1>5. /\ mirror \in Shown /\ mirror.isPlaying = FALSE
      /\ jog \in [wasPlaying : BOOLEAN, vinyl : BOOLEAN] /\ looped \in BOOLEAN
  BY DEF MirrorInit, Shown, NoJog
<1>6. ~HasState(events) /\ ~HasEnd(events)
  BY <1>4 DEF HasState, HasEnd
<1>7. commands \in Seq(CommandSet) /\ Len(commands) <= CommandCap
      /\ events \in Seq(Events) /\ Len(events) <= EventCap
  <2>1. Len(commands) = 0 /\ Len(events) = 0
    BY <1>2, <1>4, Zenon
  <2>2. commands \in Seq(CommandSet) /\ events \in Seq(Events)
    BY <1>2, <1>4, Zenon
  <2> QED
    BY <1>3, <2>1, <2>2
<1> QED
  BY <1>1, <1>5, <1>6, <1>7 DEF Agreeing, Formed, Told, Knows

LEMMA AgreeingAlways == MirrorSpec => []Agreeing
  BY InitAgreeing, AgreeingInv, PTL DEF MirrorSpec

\* Neither ring is ever overfilled, however many commands and events are put in it.
THEOREM MirrorTyped == MirrorSpec => []MirrorTypeOK
<1>1. Agreeing => MirrorTypeOK
  BY DEF Agreeing, Formed, MirrorTypeOK, Shown
<1> QED
  BY <1>1, AgreeingAlways, PTL

\* With both rings empty the host shows how the deck stands, the named exceptions apart.
THEOREM MirrorFollows == MirrorSpec => []MirrorAgrees
<1>1. ASSUME Agreeing, Settled PROVE mirror.isPlaying = deck.playing
  <2>1. ~HasState(events) /\ ~HasEnd(events) /\ ~Pending
    BY <1>1 DEF Settled, HasState, HasEnd, Pending
  <2> QED
    BY <1>1, <2>1 DEF Agreeing, Knows, Settled
<1>2. Agreeing => MirrorAgrees
  BY <1>1 DEF MirrorAgrees
<1> QED
  BY <1>2, AgreeingAlways, PTL
==============================================================================
