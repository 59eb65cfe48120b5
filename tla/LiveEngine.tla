----------------------------- MODULE LiveEngine -----------------------------
(***************************************************************************)
(* The seams of the running engine where the main actor works while the    *)
(* render thread is inside a block.  The render thread takes the block's   *)
(* stages in the order of the code; the main actor makes one call at a     *)
(* time, each interleaved with the render thread at its atomics.           *)
(***************************************************************************)
EXTENDS InsertSeam, RecordTap, ScheduledTransition, DeckPcm

CONSTANTS Budgets   \* bound: how many calls of each kind the main actor makes

ASSUME BudgetAssumption == Budgets \subseteq [{"insert", "tap", "transition", "load", "stem"} -> Nat]

VARIABLES
    stage,      \* what the render thread does next
    frames,     \* of its block
    budget      \* the calls left to the main actor

vars == <<insertVars, tapVars, transitionVars, pcmVars, stage, frames, budget>>

Init ==
    /\ InsertInit /\ TapInit /\ TransitionInit /\ PcmInit
    /\ stage = "commands" /\ frames = 0 /\ budget \in Budgets

-----------------------------------------------------------------------------
(* render: commands, transition, decks, buses, tap, clock *)

RenderCommands == /\ stage = "commands" /\ DrainCommands
                  /\ stage' = "transition" /\ frames' \in Blocks
                  /\ UNCHANGED <<insertVars, tapVars, transitionVars>>

RenderTransition == /\ stage = "transition" /\ ApplyTransition
                    /\ stage' = IF apply'.pc = "off" THEN "decks" ELSE stage
                    /\ UNCHANGED <<insertVars, tapVars, pcmVars, frames>>

RenderDecks == /\ stage = "decks" /\ RenderDeck(frames)
               /\ stage' = IF reader'.pc = "off" THEN "buses" ELSE stage
               /\ UNCHANGED <<insertVars, tapVars, transitionVars, frames>>

RenderBuses == /\ stage = "buses" /\ ApplyInsert
               /\ stage' = IF caller'.pc = "off" THEN "tap" ELSE stage
               /\ UNCHANGED <<tapVars, transitionVars, pcmVars, frames>>

RenderTap == /\ stage = "tap" /\ RecordTapStep(frames)
             /\ stage' = IF tap'.pc = "off" THEN "clock" ELSE stage
             /\ UNCHANGED <<insertVars, transitionVars, pcmVars, frames>>

EndBlock == /\ stage = "clock" /\ AdvanceClock(frames)
            /\ stage' = "commands" /\ frames' = 0
            /\ UNCHANGED <<insertVars, tapVars, pcmVars>>

Render == /\ RenderCommands \/ RenderTransition \/ RenderDecks \/ RenderBuses \/ RenderTap \/ EndBlock
          /\ UNCHANGED budget

-----------------------------------------------------------------------------
(* The main actor *)

Free == setter.pc = "idle" /\ drain.pc = "idle" /\ armer.pc = "idle" /\ loader = NoStores

\* Only a call that begins is counted.
Counts(kind) == budget[kind] > 0 /\ budget' = [budget EXCEPT ![kind] = @ - 1]

CallInsertSeam == /\ Free /\ Counts("insert") /\ \E o \in Inserts \union {Null} : SetInsert(o)
                  /\ UNCHANGED <<tapVars, transitionVars, pcmVars>>
CallTap == /\ Free /\ Counts("tap") /\ RecordCall
           /\ UNCHANGED <<insertVars, transitionVars, pcmVars>>
CallTransition == /\ Free /\ Counts("transition") /\ TransitionCall
                  /\ UNCHANGED <<insertVars, tapVars, pcmVars>>
CallDeck == /\ Free /\ ((Counts("load") /\ LoadCall) \/ (Counts("stem") /\ StemCall))
            /\ UNCHANGED <<insertVars, tapVars, transitionVars>>
\* In behaviours that load a deck at all.
CallPlay == /\ Free /\ (budget["load"] + budget["stem"] > 0 \/ buffer # NoPcm) /\ (play \/ pause)
            /\ UNCHANGED <<insertVars, tapVars, transitionVars, budget>>
Tick == /\ Free /\ TransitionTick
        /\ UNCHANGED <<insertVars, tapVars, pcmVars, budget>>

InCall ==
    /\ \/ SetInsertStep /\ UNCHANGED <<tapVars, transitionVars, pcmVars>>
       \/ RecordStep /\ UNCHANGED <<insertVars, transitionVars, pcmVars>>
       \/ TransitionStep /\ UNCHANGED <<insertVars, tapVars, pcmVars>>
       \/ PcmStep /\ UNCHANGED <<insertVars, tapVars, transitionVars>>
    /\ UNCHANGED budget

Control == /\ CallInsertSeam \/ CallTap \/ CallTransition \/ CallDeck \/ CallPlay \/ Tick \/ InCall
           /\ UNCHANGED <<stage, frames>>

Next == Render \/ Control

\* The device keeps calling back, and a call that has begun goes on.
Spec == Init /\ [][Next]_vars /\ WF_vars(Render) /\ WF_vars(InCall /\ UNCHANGED <<stage, frames>>)

-----------------------------------------------------------------------------
\* Types of all the components' variables.
TypeOK ==
    /\ insertFn \in Inserts \union {Null} /\ insertCtx \in Inserts \union {Null}
    /\ inserts \in Inserts \union {Null}
    /\ recordWrite \in TapIndex /\ recordRead \in TapIndex /\ recordDropped \in TapIndex
    /\ recordActive \in BOOLEAN /\ recorder \in BOOLEAN
    /\ \A c \in DOMAIN recorded : recorded[c] \in TapIndex \union {Unwritten}
                                  /\ (recorded[c] \in TapIndex => Cell(recorded[c]) = c)
    /\ drain.count \in 0..ScratchFrames
    /\ transitionActive \in BOOLEAN /\ beatFXOn \in BOOLEAN
    /\ crossfader \in -2..2 /\ control.crossfader \in -2..2
    /\ eqLow \in [Decks -> {"flat", "cut"}]
    /\ masterFrame \in 0..MaxFrame /\ sf.last \in 0..MaxFrame
    /\ {buffer, stemBuffer, deck.channels, deck.stemChannels} \subseteq Pcms \union {NoPcm}
    /\ deck.position \in Nat /\ deck.motor \in {0, 1} /\ reader.left \in 0..frames
    /\ stage \in {"commands", "transition", "decks", "buses", "tap", "clock"} /\ frames \in Blocks \union {0}
=============================================================================
