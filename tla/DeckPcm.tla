------------------------------ MODULE DeckPcm -------------------------------
(***************************************************************************)
(* The PCM a deck borrows.  The host's Deck holds the track and the stem   *)
(* it has loaded; the engine reads through pointers and lengths that       *)
(* pe_deck_set_buffer and the stem calls write with plain stores while the *)
(* render thread may be in the deck.  There is no answer to a load         *)
(* (BUFFER_RELEASED is never pushed): the host lets the old PCM go first.  *)
(*                                                                         *)
(* Plain stores that race become visible in any order.  One deck and one   *)
(* of its four voices; the motor starts and stops at once; no jog wheel,   *)
(* loop or seek (DeckTransport has those).                                 *)
(***************************************************************************)
EXTENDS Naturals, Sequences, FiniteSetsExt, Functions

CONSTANTS Pcms,     \* PCMBuffers: [name, frames]
          NoPcm,    \* nil
          Queued    \* bound on the commands that wait

ASSUME PcmAssumption == Queued \in Nat /\ NoPcm \notin Pcms /\ \A q \in Pcms : q.frames \in Nat \ {0}

VARIABLES
    buffer, stemBuffer,     \* the host's strong references
    deck,       \* DeckState
    commands,   \* the PLAYs and PAUSEs in the command ring
    loader,     \* field -> value: the stores the call under way has still to make
    reader,     \* renderChunk: [pc, left, from, of, index]
    unsettled,  \* history: a deck that runs is being loaded, armed or disarmed
    misRead     \* history: a settled read of PCM that is gone, or past its end

pcmVars == <<buffer, stemBuffer, deck, commands, loader, reader, unsettled, misRead>>

NoStores == [f \in {} |-> NoPcm]
NotReading == [pc |-> "off", left |-> 0, from |-> 0, of |-> "track", index |-> 0]

\* A new engine's motor is on.
PcmInit ==
    /\ buffer = NoPcm /\ stemBuffer = NoPcm
    /\ deck = [channels |-> NoPcm, frames |-> 0, position |-> 0, playing |-> FALSE, motor |-> 1,
               stemsArmed |-> FALSE, present |-> FALSE, stemChannels |-> NoPcm, stemFrames |-> 0]
    /\ commands = <<>> /\ loader = NoStores /\ reader = NotReading
    /\ unsettled = FALSE /\ misRead = FALSE

-----------------------------------------------------------------------------
(* The host *)

InFrame == reader.pc \in {"place", "take", "advance"}

Running == deck.playing \/ deck.motor > 0 \/ InFrame
           \/ \E i \in DOMAIN commands : commands[i] = "PLAY"

\* The call that begins has these stores to make; it may find the deck running.
Stores(s) == /\ loader = NoStores /\ loader' = s
             /\ unsettled' = (unsettled \/ (Running /\ deck.frames > 0))
             /\ UNCHANGED <<deck, commands, reader, misRead>>

Load(q) == /\ buffer' = q /\ UNCHANGED stemBuffer
           /\ Stores([channels |-> q, frames |-> q.frames, position |-> 0,
                      playing |-> FALSE, motor |-> 0])

\* One voice of armStems; a voice it is not given is taken out.
ArmStem(q) == /\ stemBuffer' = q /\ UNCHANGED buffer
              /\ Stores([stemChannels |-> q, stemFrames |-> q.frames, present |-> TRUE,
                         stemsArmed |-> TRUE])

DropStem == /\ stemBuffer' = NoPcm /\ UNCHANGED buffer
            /\ Stores([stemChannels |-> NoPcm, stemFrames |-> 0, present |-> FALSE])

DisarmForgotten == stemBuffer' = NoPcm /\ UNCHANGED buffer /\ Stores([stemsArmed |-> deck.stemsArmed])

DisarmStems == /\ stemBuffer' = NoPcm /\ UNCHANGED buffer
               /\ Stores([stemChannels |-> NoPcm, stemFrames |-> 0, present |-> FALSE,
                          stemsArmed |-> FALSE])

Post(c) == /\ Len(commands) < Queued /\ commands' = Append(commands, c)
           /\ UNCHANGED <<buffer, stemBuffer, deck, loader, reader, unsettled, misRead>>

LoadCall == \E q \in Pcms : Load(q)
StemCall == (\E q \in Pcms : ArmStem(q)) \/ DropStem \/ DisarmStems

play  == Post("PLAY")
pause == Post("PAUSE")

\* The call is over with its last store; a deck that nobody reads is settled.
PcmStep == \E f \in DOMAIN loader :
    /\ deck' = [deck EXCEPT ![f] = loader[f]]
    /\ loader' = Restrict(loader, DOMAIN loader \ {f})
    /\ unsettled' = (unsettled /\ (DOMAIN loader # {f} \/ InFrame))
    /\ UNCHANGED <<buffer, stemBuffer, commands, reader, misRead>>

-----------------------------------------------------------------------------
(* The render thread *)

\* drainCommands, with instant start and stop.
DrainCommands ==
    /\ commands' = <<>>
    /\ deck' = IF commands = <<>> THEN deck
               ELSE LET on == commands[Len(commands)] = "PLAY"
                    IN  [deck EXCEPT !.playing = on, !.motor = IF on THEN 1 ELSE 0]
    /\ UNCHANGED <<buffer, stemBuffer, loader, reader, unsettled, misRead>>

\* A frame of the block is over.
Leave(r) == IF r.left = 1 THEN NotReading ELSE [NotReading EXCEPT !.pc = "decide", !.left = r.left - 1]

PcmBegin(n) == /\ reader.pc = "off" /\ reader' = [reader EXCEPT !.pc = "decide", !.left = n]
               /\ UNCHANGED <<deck, unsettled, misRead>>

Decide == /\ reader.pc = "decide"
          /\ reader' = IF (deck.playing \/ deck.motor > 0) /\ deck.frames > 0
                       THEN [reader EXCEPT !.pc = "place"] ELSE Leave(reader)
          /\ UNCHANGED <<deck, unsettled, misRead>>

PlaceUnclamped ==
    /\ reader.pc = "place"
    /\ reader' = [reader EXCEPT !.from = deck.position,
                      !.pc = IF deck.stemsArmed /\ ~deck.present THEN "advance" ELSE "take",
                      !.of = IF deck.stemsArmed THEN "stem" ELSE "track",
                      !.index = deck.position]
    /\ UNCHANGED <<deck, unsettled, misRead>>

\* Which frame: the playhead, or the last frame of the track or the voice.
Place ==
    LET frames == IF deck.stemsArmed THEN deck.stemFrames ELSE deck.frames
    IN  /\ reader.pc = "place"
        /\ reader' = [reader EXCEPT !.from = deck.position,
                          !.pc = IF deck.stemsArmed /\ ~deck.present THEN "advance" ELSE "take",
                          !.of = IF deck.stemsArmed THEN "stem" ELSE "track",
                          !.index = Min({deck.position, Max({frames - 1, 0})})]
        /\ UNCHANGED <<deck, unsettled, misRead>>

\* The read itself.  sampleAt skips a null channel of the track, not of a voice.
Take ==
    LET pcm  == IF reader.of = "stem" THEN deck.stemChannels ELSE deck.channels
        fine == \/ pcm = NoPcm /\ reader.of = "track"
                \/ pcm \in {buffer, stemBuffer} \ {NoPcm} /\ reader.index < pcm.frames
    IN  /\ reader.pc = "take"
        /\ misRead' = (misRead \/ (~unsettled /\ ~fine))
        /\ reader' = [reader EXCEPT !.pc = "advance"]
        /\ UNCHANGED <<deck, unsettled>>

\* From the position it has loaded, or loaded again; the end of the track stops
\* the deck and leaves the motor on.
Advance ==
    /\ reader.pc = "advance"
    /\ \E from \in {reader.from, deck.position} :
          LET to == from + deck.motor
          IN  deck' = IF to >= deck.frames THEN [deck EXCEPT !.position = deck.frames, !.playing = FALSE]
                                           ELSE [deck EXCEPT !.position = to]
    /\ reader' = Leave(reader)
    /\ unsettled' = (unsettled /\ loader # NoStores)
    /\ UNCHANGED misRead

RenderDeck(n) == /\ PcmBegin(n) \/ Decide \/ Place \/ Take \/ Advance
                 /\ UNCHANGED <<buffer, stemBuffer, commands, loader>>

-----------------------------------------------------------------------------
(***************************************************************************)
(* What the render thread reads is PCM that the host still holds, at a     *)
(* frame it has, whatever the order in which the stores of a load become   *)
(* visible -- as long as the deck was empty or at rest when the load, arm  *)
(* or disarm began: not playing, motor stopped, no PLAY on its way.        *)
(***************************************************************************)
PcmWhole == ~misRead
=============================================================================
