----------------------------- MODULE MixEngine -----------------------------
(***************************************************************************)
(* The two-deck mix core (Sources/CParsoMix): one control thread and one   *)
(* real-time render thread share an engine without a lock.                 *)
(*                                                                         *)
(* A deck is handed over through its atomic `state': IDLE and FINISHED     *)
(* belong to the control thread, ARMED and PLAYING to the render thread.   *)
(* Everything else a deck holds is plain memory that only its owner may    *)
(* touch.  A blend recipe goes the other way round, through two slots and  *)
(* a version number.  Every step below is one access to shared state, so   *)
(* the two threads interleave at the grain of the code's atomics; plain    *)
(* writes that only the owner of a deck can see are one step.              *)
(*                                                                         *)
(* Times are whole frames.  Audio itself is not modelled: what a block     *)
(* reads of a deck is, through `heard'.                                    *)
(***************************************************************************)
EXTENDS Integers

CONSTANTS
    NDecks,         \* PM_MAX_DECKS
    Tracks,         \* PCM buffers the host may load
    Length,         \* Length[t]: frames of track t
    Froms,          \* source positions a deck may be prepared at
    Tempos,         \* source frames per output frame
    Starts,         \* start frames a deck may be armed with
    Recipes,        \* blends that may be scheduled, see IsRecipe
    MaxFrames,      \* largest render block
    FlatTail,       \* frames rendered past the end of a track, varispeed
    KeylockTail,    \* the same with the stretcher engaged, per unit of tempo
    NaN, NoTrack,   \* "no position", "no PCM"
    MaxMaster,      \* bound: the last block begins before this frame
    ControlUntil,   \* bound: control calls begin before this frame, and no
                    \* block begins past it until the last call has returned
    MaxVersion      \* bound: recipes published

Deck == 0 .. NDecks - 1

(* What a scheduled recipe does to the decks, and when it is over.         *)
IsRecipe(r) ==
    /\ r \in [route : [kind : {"bassSwap", "cut"}, outgoing : Deck, incoming : Deck],
              clock : Nat]
    /\ r.route.outgoing # r.route.incoming

ASSUME MixAssumption ==
    /\ NDecks \in Nat \ {0}
    /\ Length \in [Tracks -> Nat \ {0}]
    /\ Froms \subseteq Int /\ Tempos \subseteq Nat \ {0} /\ Starts \subseteq Nat
    /\ \A r \in Recipes : IsRecipe(r)
    /\ MaxFrames \in Nat \ {0}
    /\ FlatTail \in Nat /\ KeylockTail \in Nat
    /\ NaN \notin Int /\ NoTrack \notin Tracks
    /\ MaxMaster \in Nat /\ ControlUntil \in Nat /\ MaxVersion \in Nat

VARIABLES
    \* shared, atomic
    state, stopRequested, position, masterFrame, recipeVersion,
    \* shared, plain: a deck's fields and the two recipe slots
    deck, slots,
    \* control thread: the call it is in
    call,
    \* render thread: its program counter and locals, and what it holds
    rpc, index, seen, m0, frames, seenVersion, active

ctlVars == <<call>>
rtVars  == <<rpc, index, seen, m0, frames, seenVersion, active>>
vars    == <<state, stopRequested, position, masterFrame, recipeVersion,
             deck, slots, ctlVars, rtVars>>

NoRoute  == [kind |-> "none", outgoing |-> -1, incoming |-> -1]
NoRecipe == [route |-> NoRoute, clock |-> 0]
Fields   == [track : Tracks \cup {NoTrack}, from : Int, tempo : Nat, start : Int]
Ready    == [op |-> "ready"]

Init ==
    /\ state = [d \in Deck |-> "IDLE"]
    /\ stopRequested = [d \in Deck |-> FALSE]
    /\ position = [d \in Deck |-> NaN]
    /\ masterFrame = 0
    /\ recipeVersion = 0
    /\ deck = [d \in Deck |-> [track |-> NoTrack, from |-> 0, tempo |-> 1, start |-> 0]]
    /\ slots = [s \in {0, 1} |-> NoRecipe]
    /\ call = Ready
    /\ rpc = "rest" /\ index = 0 /\ seen = "IDLE" /\ m0 = 0 /\ frames = 0
    /\ seenVersion = 0 /\ active = NoRecipe

-----------------------------------------------------------------------------
(* The control thread *)

CanCall == call = Ready /\ masterFrame < ControlUntil

ControlOwnedArmed == {"IDLE", "FINISHED", "ARMED"}

ControlOwned == {"IDLE", "FINISHED"}

(* pm_deck_prepare: refused unless the control thread owns the deck.       *)
Prepare(d, t, p, k) ==
    /\ CanCall
    /\ state[d] \in ControlOwned
    /\ call' = [op |-> "prepare", deck |-> d,
                to |-> [track |-> t, from |-> p, tempo |-> k]]
    /\ UNCHANGED <<state, stopRequested, position, masterFrame, recipeVersion,
                   deck, slots, rtVars>>

PrepareFields ==
    /\ call.op = "prepare"
    /\ LET d == call.deck IN
        /\ deck' = [deck EXCEPT ![d] = [track |-> call.to.track, from |-> call.to.from,
                                        tempo |-> call.to.tempo, start |-> @.start]]
        /\ call' = [op |-> "handback", deck |-> d]
    /\ UNCHANGED <<state, stopRequested, position, masterFrame, recipeVersion,
                   slots, rtVars>>

PrepareHandBack ==
    /\ call.op = "handback"
    /\ LET d == call.deck IN
        /\ stopRequested' = [stopRequested EXCEPT ![d] = FALSE]
        /\ position' = [position EXCEPT ![d] = NaN]
        /\ state' = [state EXCEPT ![d] = "IDLE"]
    /\ call' = Ready
    /\ UNCHANGED <<masterFrame, recipeVersion, deck, slots, rtVars>>

(* pm_deck_start: the start frame is written before the state is released. *)
Start(d, f) ==
    /\ CanCall
    /\ deck[d].track # NoTrack
    /\ state[d] = "IDLE"
    /\ deck' = [deck EXCEPT ![d].start = f]
    /\ call' = [op |-> "arm", deck |-> d]
    /\ UNCHANGED <<state, stopRequested, position, masterFrame, recipeVersion,
                   slots, rtVars>>

StartArm ==
    /\ call.op = "arm"
    /\ state' = [state EXCEPT ![call.deck] = "ARMED"]
    /\ call' = Ready
    /\ UNCHANGED <<stopRequested, position, masterFrame, recipeVersion, deck,
                   slots, rtVars>>

(* pm_deck_stop: accepted in every state, also where nothing is playing.   *)
Stop(d) ==
    /\ CanCall
    /\ stopRequested' = [stopRequested EXCEPT ![d] = TRUE]
    /\ UNCHANGED <<state, position, masterFrame, recipeVersion, deck, slots,
                   ctlVars, rtVars>>

(* pm_deck_reset: a compare-and-swap.                                      *)
Reset(d) ==
    /\ CanCall
    /\ state[d] = "FINISHED"
    /\ state' = [state EXCEPT ![d] = "IDLE"]
    /\ UNCHANGED <<stopRequested, position, masterFrame, recipeVersion, deck,
                   slots, ctlVars, rtVars>>

(* publish: pm_schedule_bass_swap, pm_schedule_cut and pm_clear_recipe.    *)
(* The slot written is the one the current version does not name; a recipe *)
(* is more than one word, so a reader can see half of it.                  *)
WriteSlotPublished == recipeVersion % 2

WriteSlot == (recipeVersion + 1) % 2

Schedule(r) ==
    /\ CanCall
    /\ recipeVersion < MaxVersion
    /\ slots' = [slots EXCEPT ![WriteSlot].route = r.route]
    /\ call' = [op |-> "publish", recipe |-> r]
    /\ UNCHANGED <<state, stopRequested, position, masterFrame, recipeVersion,
                   deck, rtVars>>

ScheduleClock ==
    /\ call.op = "publish"
    /\ slots' = [slots EXCEPT ![WriteSlot].clock = call.recipe.clock]
    /\ call' = [op |-> "version"]
    /\ UNCHANGED <<state, stopRequested, position, masterFrame, recipeVersion,
                   deck, rtVars>>

ScheduleVersion ==
    /\ call.op = "version"
    /\ recipeVersion' = recipeVersion + 1
    /\ call' = Ready
    /\ UNCHANGED <<state, stopRequested, position, masterFrame, deck, slots, rtVars>>

ControlBegins ==
    \/ \E d \in Deck, t \in Tracks, p \in Froms, k \in Tempos : Prepare(d, t, p, k)
    \/ \E d \in Deck, f \in Starts : Start(d, f)
    \/ \E d \in Deck : Stop(d)
    \/ \E d \in Deck : Reset(d)
    \/ \E r \in Recipes \cup {NoRecipe} : Schedule(r)

ControlContinues ==
    PrepareFields \/ PrepareHandBack \/ StartArm \/ ScheduleClock \/ ScheduleVersion

Control == ControlBegins \/ ControlContinues

-----------------------------------------------------------------------------
(* The render thread: one pm_render call is a walk from "rest" to "rest".  *)

RenderBegin(n) ==
    /\ rpc = "rest"
    /\ masterFrame < MaxMaster
    /\ masterFrame < ControlUntil \/ call = Ready     \* bound
    /\ m0' = masterFrame
    /\ frames' = n
    /\ rpc' = "version"
    /\ UNCHANGED <<state, stopRequested, position, masterFrame, recipeVersion,
                   deck, slots, ctlVars, index, seen, seenVersion, active>>

LoadVersion ==
    /\ rpc = "version"
    /\ seenVersion' = recipeVersion
    /\ rpc' = IF recipeVersion # seenVersion THEN "route" ELSE "load"
    /\ index' = 0
    /\ UNCHANGED <<state, stopRequested, position, masterFrame, recipeVersion,
                   deck, slots, ctlVars, seen, m0, frames, active>>

CopyRoute ==
    /\ rpc = "route"
    /\ active' = [active EXCEPT !.route = slots[seenVersion % 2].route]
    /\ rpc' = "clock"
    /\ UNCHANGED <<state, stopRequested, position, masterFrame, recipeVersion,
                   deck, slots, ctlVars, index, seen, m0, frames, seenVersion>>

CopyClock ==
    /\ rpc = "clock"
    /\ active' = [active EXCEPT !.clock = slots[seenVersion % 2].clock]
    /\ rpc' = "load"
    /\ UNCHANGED <<state, stopRequested, position, masterFrame, recipeVersion,
                   deck, slots, ctlVars, index, seen, m0, frames, seenVersion>>

(* The loop over the decks goes on, or leaves for the recipe.              *)
NextDeckOver ==
    /\ index' = IF index + 1 <= NDecks THEN index + 1 ELSE 0
    /\ rpc' = IF index + 1 <= NDecks THEN "load" ELSE "recipe"

NextDeck ==
    /\ index' = IF index + 1 < NDecks THEN index + 1 ELSE 0
    /\ rpc' = IF index + 1 < NDecks THEN "load" ELSE "recipe"

LoadState ==
    /\ rpc = "load"
    /\ seen' = state[index]
    /\ IF state[index] \in {"ARMED", "PLAYING"}
       THEN rpc' = "stop" /\ UNCHANGED index
       ELSE NextDeck
    /\ UNCHANGED <<state, stopRequested, position, masterFrame, recipeVersion,
                   deck, slots, ctlVars, m0, frames, seenVersion, active>>

(* A pending stop is taken, and ends a deck that is armed or playing.      *)
StoppedPlaying(d) == stopRequested[d] /\ seen = "PLAYING"

Stopped(d) == stopRequested[d]

TakeStop ==
    /\ rpc = "stop"
    /\ stopRequested' = [stopRequested EXCEPT ![index] = FALSE]
    /\ IF Stopped(index)
       THEN /\ position' = [position EXCEPT ![index] = NaN]
            /\ rpc' = "finish"
       ELSE /\ UNCHANGED position
            /\ rpc' = "arm"
    /\ UNCHANGED <<state, masterFrame, recipeVersion, deck, slots, ctlVars,
                   index, seen, m0, frames, seenVersion, active>>

(* An armed deck whose start frame falls inside the block begins to play.  *)
InBlockExactly(d) == m0 = deck[d].start

InBlock(d) == m0 + frames > deck[d].start

ArmedToPlaying ==
    /\ rpc = "arm"
    /\ IF seen = "ARMED" /\ ~InBlock(index)
       THEN NextDeck /\ UNCHANGED <<state, seen>>
       ELSE /\ state' = [state EXCEPT ![index] = "PLAYING"]
            /\ seen' = "PLAYING"
            /\ rpc' = "read" /\ UNCHANGED index
    /\ UNCHANGED <<stopRequested, position, masterFrame, recipeVersion, deck,
                   slots, ctlVars, m0, frames, seenVersion, active>>

Keylock(d) == deck[d].tempo # 1

Tail(d) == IF Keylock(d) THEN KeylockTail * deck[d].tempo ELSE FlatTail

(* The source frame of deck d heard at master frame m.                     *)
SourceFrame(d, m) == deck[d].from + (m - deck[d].start) * deck[d].tempo

EndPositionBlockStart(d) == SourceFrame(d, m0)

EndPosition(d) == SourceFrame(d, m0 + frames)

ReadDeck ==
    /\ rpc = "read"
    /\ position' = [position EXCEPT ![index] = EndPosition(index)]
    /\ IF EndPosition(index) >= Length[deck[index].track] + Tail(index)
       THEN rpc' = "finish" /\ UNCHANGED index
       ELSE NextDeck
    /\ UNCHANGED <<state, stopRequested, masterFrame, recipeVersion, deck,
                   slots, ctlVars, seen, m0, frames, seenVersion, active>>

Finish ==
    /\ rpc = "finish"
    /\ state' = [state EXCEPT ![index] = "FINISHED"]
    /\ NextDeck
    /\ UNCHANGED <<stopRequested, position, masterFrame, recipeVersion, deck,
                   slots, ctlVars, seen, m0, frames, seenVersion, active>>

(* The recipe ends with the block that reaches its last frame; its         *)
(* outgoing deck is released if it plays.                                  *)
RecipeOver == active.route.kind # "none" /\ m0 + frames >= active.clock

EndRecipeKeepsDeck ==
    /\ rpc = "recipe"
    /\ active' = IF RecipeOver THEN NoRecipe ELSE active
    /\ rpc' = "master"
    /\ UNCHANGED <<state, stopRequested, position, masterFrame, recipeVersion,
                   deck, slots, ctlVars, index, seen, m0, frames, seenVersion>>

EndRecipe ==
    /\ rpc = "recipe"
    /\ IF RecipeOver /\ state[active.route.outgoing] = "PLAYING"
       THEN /\ position' = [position EXCEPT ![active.route.outgoing] = NaN]
            /\ rpc' = "release" /\ UNCHANGED active
       ELSE /\ UNCHANGED position
            /\ active' = IF RecipeOver THEN NoRecipe ELSE active
            /\ rpc' = "master"
    /\ UNCHANGED <<state, stopRequested, masterFrame, recipeVersion, deck,
                   slots, ctlVars, index, seen, m0, frames, seenVersion>>

ReleaseOutgoing ==
    /\ rpc = "release"
    /\ state' = [state EXCEPT ![active.route.outgoing] = "FINISHED"]
    /\ active' = NoRecipe
    /\ rpc' = "master"
    /\ UNCHANGED <<stopRequested, position, masterFrame, recipeVersion, deck,
                   slots, ctlVars, index, seen, m0, frames, seenVersion>>

StoreMaster ==
    /\ rpc = "master"
    /\ masterFrame' = m0 + frames
    /\ rpc' = "rest"
    /\ index' = 0 /\ seen' = "IDLE" /\ m0' = 0 /\ frames' = 0    \* locals die
    /\ UNCHANGED <<state, stopRequested, position, recipeVersion, deck, slots,
                   ctlVars, seenVersion, active>>

Render ==
    \/ \E n \in 1 .. MaxFrames : RenderBegin(n)
    \/ LoadVersion \/ CopyRoute \/ CopyClock
    \/ LoadState \/ TakeStop \/ ArmedToPlaying \/ ReadDeck \/ Finish
    \/ EndRecipe \/ ReleaseOutgoing \/ StoreMaster

Next == Control \/ Render

Spec == Init /\ [][Next]_vars

(* The device keeps calling back, and a call that has begun returns.       *)
FairSpec == Spec /\ WF_vars(Render) /\ WF_vars(ControlContinues)

-----------------------------------------------------------------------------
(* Properties *)

States    == {"IDLE", "ARMED", "PLAYING", "FINISHED"}
Points    == {"rest", "version", "route", "clock", "load", "stop", "arm", "read",
              "finish", "recipe", "release", "master"}
SlotWords == [route : {r.route : r \in Recipes} \cup {NoRoute},
              clock : {r.clock : r \in Recipes} \cup {0}]

Calls ==
    [op : {"ready", "version"}]
    \cup [op : {"prepare"}, deck : Deck,
          to : [track : Tracks, from : Froms, tempo : Tempos]]
    \cup [op : {"handback", "arm"}, deck : Deck]
    \cup [op : {"publish"}, recipe : Recipes \cup {NoRecipe}]

(* Every variable keeps its type; a deck that plays always has PCM.        *)
TypeOK ==
    /\ state \in [Deck -> States]
    /\ stopRequested \in [Deck -> BOOLEAN]
    /\ position \in [Deck -> Int \cup {NaN}]
    /\ masterFrame \in Nat /\ recipeVersion \in Nat
    /\ deck \in [Deck -> Fields]
    /\ slots \in [{0, 1} -> SlotWords]
    /\ call \in Calls
    /\ rpc \in Points /\ index \in Deck /\ seen \in States
    /\ m0 \in Nat /\ frames \in Nat
    /\ seenVersion \in Nat /\ active \in SlotWords

ControlHolds(d) == call.op \in {"prepare", "handback", "arm"} /\ call.deck = d

RenderHolds(d) == rpc \in {"stop", "arm", "read", "finish"} /\ index = d

Releasing(d) == rpc = "release" /\ active.route.outgoing = d

(* The threading rule of parso_mix.h:21-24.  While the control thread is   *)
(* inside a call that writes a deck's plain fields, the render thread is   *)
(* not between picking that deck up and letting it go, nor releasing it on *)
(* behalf of a recipe: no plain field is ever touched by both at once.     *)
DeckHandoff == \A d \in Deck : ControlHolds(d) => ~RenderHolds(d) /\ ~Releasing(d)

(* The frames of the timeline deck d has been rendered for.                *)
Passed(d) ==
    \/ rpc \in {"recipe", "release", "master"}
    \/ rpc \in {"load", "stop", "arm", "read", "finish"} /\ d < index

RenderedTo(d) == IF Passed(d) THEN m0 + frames ELSE masterFrame

StandsAt(d, m) ==
    /\ position[d] = SourceFrame(d, m)
    /\ deck[d].start < m

(* The exact clock.  However blocks are cut and whenever the deck was      *)
(* armed, a playing deck stands at the source frame that belongs to the    *)
(* master frame, counted from its start frame, and has not begun early.    *)
ClockExact ==
    \A d \in Deck : state[d] = "PLAYING" /\ ~RenderHolds(d) /\ ~Releasing(d) =>
        StandsAt(d, RenderedTo(d))

(* A reader of a recipe slot meets a writer only if the writer has lapped  *)
(* it: as long as no newer version is out, the slot being copied is whole  *)
(* and unchanged since the copy began.                                     *)
SlotStable ==
    rpc \in {"route", "clock"} /\ recipeVersion = seenVersion =>
        /\ slots[seenVersion % 2] \in Recipes \cup {NoRecipe}
        /\ rpc = "clock" => active.route = slots[seenVersion % 2].route

(* The recipe the blend runs on is one the control thread scheduled (the   *)
(* comment at the slots: "control writes the slot it is not publishing").  *)
(* The code does not ensure it: see the run mix_torn_recipe.               *)
ActiveIsScheduled ==
    rpc # "clock" => active \in Recipes \cup {NoRecipe}

(* A recipe that runs out (it is not replaced, it ends) leaves its         *)
(* outgoing deck silent: "at the end the outgoing deck is released".       *)
RecipeReleases ==
    [][(rpc \in {"recipe", "release"} /\ active # NoRecipe /\ active' = NoRecipe)
        => (state'[active.route.outgoing] # "PLAYING")]_vars

LifecycleSteps ==
    {<<"IDLE", "ARMED">>, <<"ARMED", "PLAYING">>, <<"ARMED", "FINISHED">>,
     <<"PLAYING", "FINISHED">>, <<"FINISHED", "IDLE">>}

(* A deck is taken from the control thread only by arming it and given     *)
(* back only as FINISHED: it never goes from PLAYING or ARMED to IDLE, and *)
(* never from FINISHED straight to ARMED.                                  *)
Lifecycle ==
    [][\A d \in Deck : state[d] = state'[d] \/ <<state[d], state'[d]>> \in LifecycleSteps]_vars

(* A deck armed for a frame the timeline reaches is always handed back.    *)
DeckComesBack ==
    \A d \in Deck : state[d] \in {"ARMED", "PLAYING"} /\ deck[d].start < ControlUntil
        ~> state[d] = "FINISHED"

(* A stop releases the deck even if its start frame is still far away.     *)
StopReleases ==
    \A d \in Deck : state[d] \in {"ARMED", "PLAYING"} /\ stopRequested[d]
        ~> state[d] = "FINISHED"
=============================================================================
