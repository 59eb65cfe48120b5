-------------------------- MODULE MixEngine_proofs --------------------------
(***************************************************************************)
(* MixEngine proved for any number of decks, any tracks, tempos and        *)
(* recipes: the types, that no plain field is touched by both threads at   *)
(* once, the exact clock, a deck's life cycle, and what a block sees of a  *)
(* recipe and what a recipe leaves when it ends.                           *)
(***************************************************************************)
EXTENDS MixEngine, TLAPS

(* What makes DeckHandoff inductive: each thread acts on a deck only while *)
(* the deck's atomic state says the deck is its own, and neither thread    *)
(* can change that state under the other.                                  *)
Ownership ==
    /\ \A d \in Deck : ControlHolds(d) => state[d] \in ControlOwned
    /\ \A d \in Deck : call.op = "arm" /\ call.deck = d => state[d] = "IDLE"
    /\ \A d \in Deck : RenderHolds(d) => state[d] \in {"ARMED", "PLAYING"}
    /\ \A d \in Deck : Releasing(d) => state[d] = "PLAYING"
    /\ rpc = "release" => active.route.kind # "none"
    /\ rpc \in {"stop", "arm"} => seen = state[index]
    /\ rpc = "read" => state[index] = "PLAYING"

IInv == TypeOK /\ Ownership

(* A recipe slot that names a kind names two different decks.              *)
LEMMA RouteDecks ==
    ASSUME NEW w \in SlotWords, w.route.kind # "none"
    PROVE  w.route.outgoing \in Deck
  BY MixAssumption DEF SlotWords, NoRoute, IsRecipe

(* What a render block computes for a deck is a frame number.              *)
LEMMA EndPositionType ==
    ASSUME TypeOK, NEW d \in Deck
    PROVE  EndPosition(d) \in Int
  BY DEF TypeOK, Fields, EndPosition, SourceFrame

(* The loop over the decks stays inside the decks.                         *)
LEMMA NextDeckType ==
    ASSUME TypeOK, NextDeck
    PROVE  index' \in Deck /\ rpc' \in {"load", "recipe"}
  BY MixAssumption DEF TypeOK, NextDeck, Deck


(* What a call in progress carries.                                        *)
LEMMA CallFields ==
    ASSUME call \in Calls
    PROVE  /\ call.op = "prepare" => /\ call.deck \in Deck
                                     /\ call.to.track \in Tracks
                                     /\ call.to.from \in Froms
                                     /\ call.to.tempo \in Tempos
           /\ call.op \in {"handback", "arm"} => call.deck \in Deck
           /\ call.op = "publish" => call.recipe \in Recipes \cup {NoRecipe}
  BY DEF Calls

(* The calls the control thread begins are calls.                          *)
LEMMA CallsMade ==
    /\ Ready \in Calls
    /\ [op |-> "version"] \in Calls
    /\ \A d \in Deck : /\ [op |-> "handback", deck |-> d] \in Calls
                       /\ [op |-> "arm", deck |-> d] \in Calls
    /\ \A d \in Deck, t \in Tracks, p \in Froms, k \in Tempos :
          [op |-> "prepare", deck |-> d,
           to |-> [track |-> t, from |-> p, tempo |-> k]] \in Calls
    /\ \A r \in Recipes \cup {NoRecipe} : [op |-> "publish", recipe |-> r] \in Calls
  BY DEF Calls, Ready

(* The words of a slot, taken one by one, are words of recipes.            *)
LEMMA SlotWordsMade ==
    /\ NoRecipe \in SlotWords
    /\ \A w \in SlotWords, r \in Recipes \cup {NoRecipe} :
          /\ [w EXCEPT !.route = r.route] \in SlotWords
          /\ [w EXCEPT !.clock = r.clock] \in SlotWords
    /\ \A w \in SlotWords, v \in SlotWords :
          /\ [w EXCEPT !.route = v.route] \in SlotWords
          /\ [w EXCEPT !.clock = v.clock] \in SlotWords
  BY DEF SlotWords, NoRecipe

(* The engine pm_create returns is well typed and nobody holds a deck.     *)
LEMMA InitIInv == Init => IInv
  BY MixAssumption DEF Init, IInv, TypeOK, Ownership, Deck, States, Fields, Points,
     SlotWords, NoRecipe, NoRoute, Calls, Ready, ControlHolds, RenderHolds, Releasing

(* What a lookup returns: of a deck's fields, a start frame, and a slot.   *)
LEMMA FieldTypes ==
    ASSUME TypeOK
    PROVE  /\ \A d \in Deck : deck[d] \in Fields
           /\ \A f \in Starts : f \in Int
  BY MixAssumption DEF TypeOK

LEMMA SlotTypes ==
    ASSUME TypeOK
    PROVE  slots[seenVersion % 2] \in SlotWords
<1>1. seenVersion % 2 \in {0, 1}
  BY DEF TypeOK
<1> QED
  BY <1>1 DEF TypeOK

(* No step of either thread takes a variable out of its type; of the       *)
(* ownership rule it needs that a recipe being released names its decks.   *)
LEMMA TypeInv ==
    ASSUME TypeOK, rpc = "release" => active.route.kind # "none", [Next]_vars
    PROVE  TypeOK'
<1> USE MixAssumption DEF TypeOK
<1>1. ASSUME NEW d \in Deck, NEW t \in Tracks, NEW p \in Froms, NEW k \in Tempos,
             Prepare(d, t, p, k)
      PROVE  TypeOK'
  BY <1>1, CallsMade DEF Prepare, rtVars
<1>2. CASE PrepareFields
  BY <1>2, CallsMade, CallFields DEF PrepareFields, rtVars, Fields
<1>3. CASE PrepareHandBack
  BY <1>3, CallsMade, CallFields DEF PrepareHandBack, rtVars, States
<1>4. ASSUME NEW d \in Deck, NEW f \in Starts, Start(d, f)
      PROVE  TypeOK'
  <2>1. deck[d] \in Fields /\ f \in Int
    BY FieldTypes
  <2>2. [deck[d] EXCEPT !.start = f] \in Fields
    BY <2>1 DEF Fields
  <2>3. deck' \in [Deck -> Fields]
    BY <1>4, <2>2 DEF Start
  <2> QED
    BY <1>4, <2>3, CallsMade DEF Start, rtVars
<1>5. CASE StartArm
  BY <1>5, CallsMade, CallFields DEF StartArm, rtVars, States
<1>6. ASSUME NEW d \in Deck, Stop(d)
      PROVE  TypeOK'
  BY <1>6 DEF Stop, rtVars, ctlVars
<1>7. ASSUME NEW d \in Deck, Reset(d)
      PROVE  TypeOK'
  BY <1>7 DEF Reset, rtVars, ctlVars, States
<1>8. ASSUME NEW r \in Recipes \cup {NoRecipe}, Schedule(r)
      PROVE  TypeOK'
  BY <1>8, CallsMade, SlotWordsMade DEF Schedule, rtVars, WriteSlot
<1>9. CASE ScheduleClock
  BY <1>9, CallsMade, CallFields, SlotWordsMade DEF ScheduleClock, rtVars, WriteSlot
<1>10. CASE ScheduleVersion
  BY <1>10, CallsMade DEF ScheduleVersion, rtVars
<1>11. ASSUME NEW n \in 1 .. MaxFrames, RenderBegin(n)
       PROVE  TypeOK'
  BY <1>11 DEF RenderBegin, ctlVars, Points
<1>12. CASE LoadVersion
  BY <1>12 DEF LoadVersion, ctlVars, Points, Deck
<1>13. CASE CopyRoute
  <2>1. slots[seenVersion % 2] \in SlotWords
    BY SlotTypes
  <2>2. active' \in SlotWords
    BY <1>13, <2>1, SlotWordsMade DEF CopyRoute
  <2> QED
    BY <1>13, <2>2 DEF CopyRoute, ctlVars, Points
<1>14. CASE CopyClock
  <2>1. slots[seenVersion % 2] \in SlotWords
    BY SlotTypes
  <2>2. active' \in SlotWords
    BY <1>14, <2>1, SlotWordsMade DEF CopyClock
  <2> QED
    BY <1>14, <2>2 DEF CopyClock, ctlVars, Points
<1>15. CASE LoadState
  BY <1>15, NextDeckType DEF LoadState, ctlVars, Points
<1>16. CASE TakeStop
  BY <1>16 DEF TakeStop, Stopped, ctlVars, Points
<1>17. CASE ArmedToPlaying
  BY <1>17, NextDeckType DEF ArmedToPlaying, ctlVars, Points, States
<1>18. CASE ReadDeck
  BY <1>18, NextDeckType, EndPositionType DEF ReadDeck, ctlVars, Points
<1>19. CASE Finish
  BY <1>19, NextDeckType DEF Finish, ctlVars, Points, States
<1>20. CASE EndRecipe
  BY <1>20, SlotWordsMade, RouteDecks DEF EndRecipe, RecipeOver, ctlVars, Points
<1>21. CASE ReleaseOutgoing
  BY <1>21, SlotWordsMade, RouteDecks DEF ReleaseOutgoing, ctlVars, Points, States
<1>22. CASE StoreMaster
  BY <1>22 DEF StoreMaster, ctlVars, Points, States, Deck
<1>23. CASE UNCHANGED vars
  BY <1>23 DEF vars, ctlVars, rtVars
<1> QED
  BY <1>1, <1>2, <1>3, <1>4, <1>5, <1>6, <1>7, <1>8, <1>9, <1>10, <1>11, <1>12,
     <1>13, <1>14, <1>15, <1>16, <1>17, <1>18, <1>19, <1>20, <1>21, <1>22, <1>23
     DEF Next, Control, ControlBegins, ControlContinues, Render

(* The ownership rule survives every step of either thread.                *)
LEMMA OwnershipInv ==
    ASSUME IInv, [Next]_vars
    PROVE  Ownership'
<1> USE MixAssumption DEF IInv, Ownership, ControlHolds, RenderHolds, Releasing
<1>1. ASSUME NEW d \in Deck, NEW t \in Tracks, NEW p \in Froms, NEW k \in Tempos,
             Prepare(d, t, p, k)
      PROVE  Ownership'
  BY <1>1 DEF Prepare, rtVars
<1>2. CASE PrepareFields
  BY <1>2 DEF PrepareFields, rtVars
<1>3. CASE PrepareHandBack
  BY <1>3 DEF PrepareHandBack, rtVars, Ready, ControlOwned, TypeOK
<1>4. ASSUME NEW d \in Deck, NEW f \in Starts, Start(d, f)
      PROVE  Ownership'
  BY <1>4 DEF Start, rtVars, ControlOwned
<1>5. CASE StartArm
  BY <1>5 DEF StartArm, rtVars, Ready, ControlOwned, TypeOK
<1>6. ASSUME NEW d \in Deck, Stop(d)
      PROVE  Ownership'
  BY <1>6 DEF Stop, rtVars, ctlVars
<1>7. ASSUME NEW d \in Deck, Reset(d)
      PROVE  Ownership'
  BY <1>7 DEF Reset, rtVars, ctlVars, CanCall, Ready, TypeOK
<1>8. ASSUME NEW r \in Recipes \cup {NoRecipe}, Schedule(r)
      PROVE  Ownership'
  BY <1>8 DEF Schedule, rtVars
<1>9. CASE ScheduleClock
  BY <1>9 DEF ScheduleClock, rtVars
<1>10. CASE ScheduleVersion
  BY <1>10 DEF ScheduleVersion, rtVars, Ready
<1>11. ASSUME NEW n \in 1 .. MaxFrames, RenderBegin(n)
      PROVE  Ownership'
  BY <1>11 DEF RenderBegin, ctlVars
<1>12. CASE LoadVersion
  BY <1>12 DEF LoadVersion, ctlVars
<1>13. CASE CopyRoute
  BY <1>13 DEF CopyRoute, ctlVars
<1>14. CASE CopyClock
  BY <1>14 DEF CopyClock, ctlVars
<1>15. CASE LoadState
  BY <1>15 DEF LoadState, ctlVars, NextDeck
<1>16. CASE TakeStop
  BY <1>16 DEF TakeStop, Stopped, ctlVars
<1>17. CASE ArmedToPlaying
  BY <1>17 DEF ArmedToPlaying, ctlVars, NextDeck, TypeOK, ControlOwned
<1>18. CASE ReadDeck
  BY <1>18 DEF ReadDeck, ctlVars, NextDeck
<1>19. CASE Finish
  BY <1>19 DEF Finish, ctlVars, NextDeck, TypeOK, ControlOwned
<1>20. CASE EndRecipe
  BY <1>20 DEF EndRecipe, ctlVars, RecipeOver
<1>21. CASE ReleaseOutgoing
  BY <1>21 DEF ReleaseOutgoing, ctlVars, TypeOK, ControlOwned
<1>22. CASE StoreMaster
  BY <1>22 DEF StoreMaster, ctlVars
<1>23. CASE UNCHANGED vars
  BY <1>23 DEF vars, ctlVars, rtVars
<1> QED
  BY <1>1, <1>2, <1>3, <1>4, <1>5, <1>6, <1>7, <1>8, <1>9, <1>10, <1>11, <1>12,
     <1>13, <1>14, <1>15, <1>16, <1>17, <1>18, <1>19, <1>20, <1>21, <1>22, <1>23
     DEF Next, Control, ControlBegins, ControlContinues, Render

(* TypeOK holds in every reachable state.                                  *)
THEOREM MixTyped == Spec => []TypeOK
<1>1. IInv /\ [Next]_vars => IInv'
  BY TypeInv, OwnershipInv DEF IInv, Ownership
<1> QED
  BY InitIInv, <1>1, PTL DEF Spec, IInv

(* parso_mix.h:21-24 for any number of decks: the control thread is never  *)
(* writing a deck's plain fields while the render thread holds the deck.   *)
THEOREM MixHandoff == Spec => []DeckHandoff
<1>1. IInv /\ [Next]_vars => IInv'
  BY TypeInv, OwnershipInv DEF IInv, Ownership
<1>2. IInv => DeckHandoff
  BY DEF IInv, Ownership, DeckHandoff, ControlOwned
<1> QED
  BY InitIInv, <1>1, <1>2, PTL DEF Spec

-----------------------------------------------------------------------------
(* The clock.  A deck may be read only if its first frame lies in the      *)
(* block, and a deck picked up while it plays began before the block.      *)
Clock ==
    /\ ClockExact
    /\ rpc # "rest" => m0 = masterFrame
    /\ rpc \in {"route", "clock"} => index = 0
    /\ rpc = "read" => InBlock(index)
    /\ rpc \in {"stop", "arm"} /\ state[index] = "PLAYING" => deck[index].start < m0

(* Moving on to the next deck passes the current one and no other.         *)
LEMMA NextDeckPasses ==
    ASSUME TypeOK, NextDeck, rpc \in {"load", "stop", "arm", "read", "finish"},
           NEW d \in Deck
    PROVE  /\ Passed(d)' <=> Passed(d) \/ d = index
           /\ ~RenderHolds(d)' /\ ~Releasing(d)'
           /\ ~Passed(index)
           /\ RenderHolds(d) => d = index
           /\ ~Releasing(d)
<1>1. CASE index + 1 < NDecks
  BY <1>1, MixAssumption DEF TypeOK, NextDeck, Passed, RenderHolds, Releasing, Deck
<1>2. CASE ~(index + 1 < NDecks)
  BY <1>2, MixAssumption DEF TypeOK, NextDeck, Passed, RenderHolds, Releasing, Deck
<1> QED
  BY <1>1, <1>2

(* The clock survives every step: a block moves the decks it has passed on *)
(* by its frames, and the control thread only touches decks it owns.       *)
LEMMA ClockInv ==
    ASSUME IInv, Clock, [Next]_vars
    PROVE  Clock'
<1> USE MixAssumption DEF IInv, TypeOK, Ownership, Clock
<1>1. ASSUME NEW d \in Deck, NEW t \in Tracks, NEW p \in Froms, NEW k \in Tempos,
             Prepare(d, t, p, k)
      PROVE  Clock'
  BY <1>1 DEF Prepare, rtVars,
     ClockExact, StandsAt, SourceFrame, RenderHolds, Releasing, RenderedTo, Passed, InBlock
<1>2. CASE PrepareFields
  BY <1>2 DEF PrepareFields, rtVars, ControlHolds, ControlOwned,
     ClockExact, StandsAt, SourceFrame, RenderHolds, Releasing, RenderedTo, Passed, InBlock
<1>3. CASE PrepareHandBack
  BY <1>3 DEF PrepareHandBack, rtVars, ControlHolds, ControlOwned,
     ClockExact, StandsAt, SourceFrame, RenderHolds, Releasing, RenderedTo, Passed, InBlock
<1>4. ASSUME NEW d \in Deck, NEW f \in Starts, Start(d, f)
      PROVE  Clock'
  BY <1>4 DEF Start, rtVars,
     ClockExact, StandsAt, SourceFrame, RenderHolds, Releasing, RenderedTo, Passed, InBlock
<1>5. CASE StartArm
  BY <1>5 DEF StartArm, rtVars, ControlHolds, ControlOwned,
     ClockExact, StandsAt, SourceFrame, RenderHolds, Releasing, RenderedTo, Passed, InBlock
<1>6. ASSUME NEW d \in Deck, Stop(d)
      PROVE  Clock'
  BY <1>6 DEF Stop, rtVars, ctlVars,
     ClockExact, StandsAt, SourceFrame, RenderHolds, Releasing, RenderedTo, Passed, InBlock
<1>7. ASSUME NEW d \in Deck, Reset(d)
      PROVE  Clock'
  BY <1>7 DEF Reset, rtVars, ctlVars,
     ClockExact, StandsAt, SourceFrame, RenderHolds, Releasing, RenderedTo, Passed, InBlock
<1>8. ASSUME NEW r \in Recipes \cup {NoRecipe}, Schedule(r)
      PROVE  Clock'
  BY <1>8 DEF Schedule, rtVars,
     ClockExact, StandsAt, SourceFrame, RenderHolds, Releasing, RenderedTo, Passed, InBlock
<1>9. CASE ScheduleClock
  BY <1>9 DEF ScheduleClock, rtVars,
     ClockExact, StandsAt, SourceFrame, RenderHolds, Releasing, RenderedTo, Passed, InBlock
<1>10. CASE ScheduleVersion
  BY <1>10 DEF ScheduleVersion, rtVars,
     ClockExact, StandsAt, SourceFrame, RenderHolds, Releasing, RenderedTo, Passed, InBlock
<1>11. ASSUME NEW n \in 1 .. MaxFrames, RenderBegin(n)
      PROVE  Clock'
  BY <1>11 DEF RenderBegin, ctlVars,
     ClockExact, StandsAt, SourceFrame, RenderHolds, Releasing, RenderedTo, Passed, InBlock
<1>12. CASE LoadVersion
  BY <1>12 DEF LoadVersion, ctlVars, Deck,
     ClockExact, StandsAt, SourceFrame, RenderHolds, Releasing, RenderedTo, Passed, InBlock
<1>13. CASE CopyRoute
  BY <1>13 DEF CopyRoute, ctlVars,
     ClockExact, StandsAt, SourceFrame, RenderHolds, Releasing, RenderedTo, Passed, InBlock
<1>14. CASE CopyClock
  BY <1>14 DEF CopyClock, ctlVars, Deck,
     ClockExact, StandsAt, SourceFrame, RenderHolds, Releasing, RenderedTo, Passed, InBlock
<1>15. CASE LoadState
  <2>1. CASE state[index] \in {"ARMED", "PLAYING"}
    <3>1. state[index] = "PLAYING" => deck[index].start < m0
      BY <1>15 DEF LoadState, ClockExact, StandsAt, SourceFrame, RenderHolds, Releasing, RenderedTo,
         Passed, Deck
    <3>2. \A d \in Deck : d # index => Passed(d)' = Passed(d)
      BY <1>15, <2>1 DEF LoadState, Passed, Deck
    <3> QED
      BY <1>15, <2>1, <3>1, <3>2 DEF LoadState, ctlVars, ClockExact, StandsAt, SourceFrame, RenderHolds,
         Releasing, RenderedTo
  <2>2. CASE state[index] \notin {"ARMED", "PLAYING"}
    <3>1. NextDeck /\ index' \in Deck /\ rpc' \in {"load", "recipe"}
      BY <1>15, <2>2, NextDeckType DEF LoadState
    <3>2. \A d \in Deck : state'[d] = "PLAYING" => StandsAt(d, RenderedTo(d))'
      BY <1>15, <2>2, <3>1, NextDeckPasses DEF LoadState, ctlVars, ClockExact, StandsAt, SourceFrame, RenderedTo
    <3> QED
      BY <1>15, <3>1, <3>2 DEF LoadState, ClockExact
  <2> QED
    BY <2>1, <2>2
<1>16. CASE TakeStop
  BY <1>16 DEF TakeStop, Stopped, ctlVars,
     ClockExact, StandsAt, SourceFrame, RenderHolds, Releasing, RenderedTo, Passed, InBlock
<1>17. CASE ArmedToPlaying
  <2>1. CASE seen = "ARMED" /\ ~InBlock(index)
    <3>1. NextDeck /\ index' \in Deck /\ rpc' \in {"load", "recipe"}
      BY <1>17, <2>1, NextDeckType DEF ArmedToPlaying
    <3>2. \A d \in Deck : state'[d] = "PLAYING" => StandsAt(d, RenderedTo(d))'
      BY <1>17, <2>1, <3>1, NextDeckPasses DEF ArmedToPlaying, ctlVars, ClockExact, StandsAt, SourceFrame, RenderedTo
    <3> QED
      BY <1>17, <2>1, <3>1, <3>2 DEF ArmedToPlaying, ClockExact
  <2>2. CASE ~(seen = "ARMED" /\ ~InBlock(index))
    <3>1. InBlock(index)
      BY <1>17, <2>2 DEF ArmedToPlaying, InBlock, RenderHolds, Fields
    <3> QED
      BY <1>17, <2>2, <3>1 DEF ArmedToPlaying, ctlVars, ClockExact, StandsAt, SourceFrame, RenderHolds,
         Releasing, RenderedTo, Passed, InBlock
  <2> QED
    BY <2>1, <2>2
<1>18. CASE ReadDeck
  <2>1. CASE EndPosition(index) >= Length[deck[index].track] + Tail(index)
    BY <1>18, <2>1 DEF ReadDeck, ctlVars, ClockExact, StandsAt, SourceFrame, RenderHolds, Releasing,
       RenderedTo, Passed
  <2>2. CASE ~(EndPosition(index) >= Length[deck[index].track] + Tail(index))
    <3>1. NextDeck /\ index' \in Deck /\ rpc' \in {"load", "recipe"}
      BY <1>18, <2>2, NextDeckType DEF ReadDeck
    <3>2. \A d \in Deck : d = index => StandsAt(d, RenderedTo(d))'
      <4>1. /\ position'[index] = EndPosition(index)
            /\ deck[index].start < m0 + frames
            /\ m0' = m0 /\ frames' = frames /\ deck' = deck /\ rpc = "read"
        BY <1>18 DEF ReadDeck, InBlock, ctlVars
      <4>2. \A d \in Deck : d = index => RenderedTo(d)' = m0 + frames
        BY <1>18, <3>1, <4>1, NextDeckPasses DEF RenderedTo
      <4>3. ASSUME NEW d \in Deck, d = index
            PROVE  SourceFrame(d, RenderedTo(d))' = SourceFrame(d, m0 + frames)
        BY <4>1, <4>2, <4>3 DEF SourceFrame
      <4> QED
        BY <4>1, <4>2, <4>3 DEF StandsAt, EndPosition
    <3>3. \A d \in Deck : d # index /\ state'[d] = "PLAYING" => StandsAt(d, RenderedTo(d))'
      BY <1>18, <3>1, NextDeckPasses DEF ReadDeck, ctlVars, ClockExact, StandsAt, SourceFrame, RenderedTo
    <3> QED
      BY <1>18, <3>1, <3>2, <3>3 DEF ReadDeck, ClockExact
  <2> QED
    BY <2>1, <2>2
<1>19. CASE Finish
  <2>1. NextDeck /\ index' \in Deck /\ rpc' \in {"load", "recipe"}
    BY <1>19, NextDeckType DEF Finish
  <2>2. \A d \in Deck : state'[d] = "PLAYING" => StandsAt(d, RenderedTo(d))'
    BY <1>19, <2>1, NextDeckPasses DEF Finish, ctlVars, ClockExact, StandsAt, SourceFrame, RenderedTo
  <2> QED
    BY <1>19, <2>1, <2>2 DEF Finish, ClockExact
<1>20. CASE EndRecipe
  BY <1>20 DEF EndRecipe, ctlVars, RecipeOver,
     ClockExact, StandsAt, SourceFrame, RenderHolds, Releasing, RenderedTo, Passed, InBlock
<1>21. CASE ReleaseOutgoing
  BY <1>21 DEF ReleaseOutgoing, ctlVars,
     ClockExact, StandsAt, SourceFrame, RenderHolds, Releasing, RenderedTo, Passed, InBlock
<1>22. CASE StoreMaster
  BY <1>22 DEF StoreMaster, ctlVars,
     ClockExact, StandsAt, SourceFrame, RenderHolds, Releasing, RenderedTo, Passed, InBlock
<1>23. CASE UNCHANGED vars
  BY <1>23 DEF vars, ctlVars, rtVars, ClockExact, StandsAt, SourceFrame, RenderHolds, Releasing, RenderedTo, Passed, InBlock
<1> QED
  BY <1>1, <1>2, <1>3, <1>4, <1>5, <1>6, <1>7, <1>8, <1>9, <1>10, <1>11, <1>12,
     <1>13, <1>14, <1>15, <1>16, <1>17, <1>18, <1>19, <1>20, <1>21, <1>22, <1>23
     DEF Next, Control, ControlBegins, ControlContinues, Render

(* Nothing plays in the engine pm_create returns.                          *)
LEMMA InitClock == Init => Clock
  BY DEF Init, Clock, ClockExact

(* The exact clock, for any decks, tempos, block lengths and start frames: *)
(* a playing deck stands where its start frame and the master frame put it.*)
THEOREM MixClock == Spec => []ClockExact
<1>1. IInv /\ Clock /\ [Next]_vars => (IInv /\ Clock)'
  BY TypeInv, OwnershipInv, ClockInv DEF IInv, Ownership
<1>2. Clock => ClockExact
  BY DEF Clock
<1> QED
  BY InitIInv, InitClock, <1>1, <1>2, PTL DEF Spec

(* A deck changes hands only along its life cycle: the render thread never *)
(* gives one back as IDLE and the control thread never takes one that is   *)
(* ARMED or PLAYING.                                                       *)
THEOREM MixLifecycle == Spec => Lifecycle
<1>1. IInv /\ [Next]_vars => IInv'
  BY TypeInv, OwnershipInv DEF IInv, Ownership
<1> DEFINE Step == \A d \in Deck : state[d] = state'[d]
                                   \/ <<state[d], state'[d]>> \in LifecycleSteps
<1>2. ASSUME IInv, Next
      PROVE  Step
  <2> USE <1>2 DEF IInv, TypeOK, States, Ownership, LifecycleSteps
  <2>1. CASE PrepareHandBack
    BY <2>1 DEF PrepareHandBack, ControlHolds, ControlOwned
  <2>2. CASE StartArm
    BY <2>2, CallFields DEF StartArm
  <2>3. ASSUME NEW d \in Deck, Reset(d)
        PROVE  Step
    BY <2>3 DEF Reset
  <2>4. CASE ArmedToPlaying
    BY <2>4 DEF ArmedToPlaying, RenderHolds
  <2>5. CASE Finish
    BY <2>5 DEF Finish, RenderHolds
  <2>6. CASE ReleaseOutgoing
    BY <2>6 DEF ReleaseOutgoing, Releasing
  <2>7. CASE UNCHANGED state
    BY <2>7
  <2>8. \/ PrepareHandBack \/ StartArm \/ (\E d \in Deck : Reset(d)) \/ ArmedToPlaying
        \/ Finish \/ ReleaseOutgoing \/ UNCHANGED state
    BY DEF Next, Control, ControlBegins, ControlContinues, Render, Prepare, PrepareFields,
       Start, Stop, Schedule, ScheduleClock, ScheduleVersion, RenderBegin, LoadVersion,
       CopyRoute, CopyClock, LoadState, TakeStop, Stopped, ReadDeck, EndRecipe, StoreMaster
  <2> QED
    BY <2>1, <2>2, <2>3, <2>4, <2>5, <2>6, <2>7, <2>8
<1>3. IInv /\ [Next]_vars => [Step]_vars
  BY <1>2
<1> QED
  BY InitIInv, <1>1, <1>3, PTL DEF Spec, Lifecycle

-----------------------------------------------------------------------------
(* The recipe slots.  The slot the version names is whole; the other one   *)
(* becomes the recipe being published word by word; and a copy that is     *)
(* still of the current version agrees with the slot so far.               *)
Whole == Recipes \cup {NoRecipe}

Publishing ==
    /\ seenVersion <= recipeVersion
    /\ slots[recipeVersion % 2] \in Whole
    /\ call.op = "publish" => slots[WriteSlot].route = call.recipe.route
    /\ call.op = "version" => slots[WriteSlot] \in Whole
    /\ rpc = "clock" /\ recipeVersion = seenVersion =>
          active.route = slots[recipeVersion % 2].route

(* The two slots are told apart by the version's parity.                   *)
LEMMA TwoSlots ==
    ASSUME NEW v \in Nat
    PROVE  /\ v % 2 \in {0, 1} /\ (v + 1) % 2 \in {0, 1}
           /\ v % 2 # (v + 1) % 2
  OBVIOUS

(* A recipe is its two words and nothing else.                             *)
LEMMA WholeWords ==
    ASSUME NEW w \in SlotWords, NEW r \in Whole, w.route = r.route
    PROVE  [w EXCEPT !.clock = r.clock] = r
  BY MixAssumption DEF SlotWords, Whole, NoRecipe, IsRecipe

LEMMA PublishingInv ==
    ASSUME TypeOK, Publishing, [Next]_vars
    PROVE  Publishing'
<1> DEFINE v == recipeVersion
<1>0. /\ v \in Nat /\ seenVersion \in Nat /\ call \in Calls
      /\ slots \in [{0, 1} -> SlotWords] /\ active \in SlotWords
      /\ v % 2 \in {0, 1} /\ WriteSlot \in {0, 1} /\ v % 2 # WriteSlot
  BY TwoSlots DEF TypeOK, WriteSlot
<1>1. ASSUME NEW r \in Recipes \cup {NoRecipe}, Schedule(r)
      PROVE  Publishing'
  <2>1. slots'[v % 2] = slots[v % 2] /\ slots'[WriteSlot].route = r.route
    BY <1>0, <1>1 DEF Schedule, SlotWords
  <2> QED
    BY <1>0, <1>1, <2>1 DEF Schedule, Publishing, WriteSlot, rtVars
<1>2. CASE ScheduleClock
  <2>1. call.recipe \in Whole
    BY <1>0, <1>2, CallFields DEF ScheduleClock, Whole
  <2>2. /\ slots'[v % 2] = slots[v % 2]
        /\ slots'[WriteSlot] = [slots[WriteSlot] EXCEPT !.clock = call.recipe.clock]
        /\ slots[WriteSlot] \in SlotWords /\ slots[WriteSlot].route = call.recipe.route
    BY <1>0, <1>2 DEF ScheduleClock, Publishing
  <2>3. slots'[WriteSlot] \in Whole
    BY <2>1, <2>2, WholeWords
  <2> QED
    BY <1>0, <1>2, <2>2, <2>3 DEF ScheduleClock, Publishing, WriteSlot, rtVars
<1>3. CASE ScheduleVersion
  <2>1. v' = v + 1 /\ slots'[v' % 2] \in Whole /\ seenVersion' < v' /\ call'.op = "ready"
        /\ seenVersion' \in Nat
    BY <1>0, <1>3 DEF ScheduleVersion, Publishing, WriteSlot, rtVars, Ready
  <2> QED
    BY <1>0, <2>1 DEF Publishing
<1>4. CASE CopyRoute
  <2>1. /\ seenVersion = v => active'.route = slots[v % 2].route
        /\ slots' = slots /\ v' = v /\ call' = call /\ seenVersion' = seenVersion
    BY <1>0, <1>4 DEF CopyRoute, ctlVars, SlotWords
  <2> QED
    BY <1>0, <2>1 DEF Publishing, WriteSlot
<1>5. CASE LoadVersion
  BY <1>0, <1>5 DEF LoadVersion, ctlVars, Publishing, WriteSlot
<1>6. CASE /\ UNCHANGED <<slots, recipeVersion, seenVersion>>
           /\ rpc' = "clock" => UNCHANGED <<rpc, active>>
           /\ call'.op \in {"publish", "version"} => call' = call
  <2>1. /\ seenVersion' <= v' /\ slots'[v' % 2] \in Whole
        /\ rpc' = "clock" /\ v' = seenVersion' => active'.route = slots'[v' % 2].route
    BY <1>6 DEF Publishing
  <2>2. WriteSlot' = WriteSlot
    BY <1>6 DEF WriteSlot
  <2>3. /\ call'.op = "publish" => slots'[WriteSlot'].route = call'.recipe.route
        /\ call'.op = "version" => slots'[WriteSlot'] \in Whole
    BY <1>6, <2>2 DEF Publishing
  <2> QED
    BY <2>1, <2>3 DEF Publishing
<1>7. ASSUME ~(\E r \in Recipes \cup {NoRecipe} : Schedule(r)), ~ScheduleClock, ~ScheduleVersion,
             ~CopyRoute, ~LoadVersion
      PROVE  /\ UNCHANGED <<slots, recipeVersion, seenVersion>>
             /\ rpc' = "clock" => UNCHANGED <<rpc, active>>
             /\ call'.op \in {"publish", "version"} => call' = call
  <2>1. CASE Control
    BY <1>7, <2>1 DEF Control, ControlBegins, ControlContinues, Prepare, PrepareFields,
       PrepareHandBack, Start, StartArm, Stop, Reset, Ready, rtVars, ctlVars
  <2>2. CASE Render
    BY <1>7, <2>2 DEF Render, RenderBegin, CopyClock, LoadState, TakeStop, Stopped, ArmedToPlaying,
       ReadDeck, Finish, NextDeck, EndRecipe, ReleaseOutgoing, StoreMaster, ctlVars
  <2>3. CASE UNCHANGED vars
    BY <2>3 DEF vars, rtVars, ctlVars
  <2> QED
    BY <2>1, <2>2, <2>3 DEF Next
<1> QED
  BY <1>1, <1>2, <1>3, <1>4, <1>5, <1>6, <1>7

(* Both slots start empty.                                                 *)
LEMMA InitPublishing == Init => Publishing
  BY DEF Init, Publishing, Whole, Ready

(* While no newer version is out, the slot a block is copying is whole and *)
(* what it has copied is of that slot: a copy can only be torn by a writer *)
(* that laps the reader (the run mix_torn_recipe shows one that does).     *)
THEOREM MixSlotStable == Spec => []SlotStable
<1>1. IInv /\ Publishing /\ [Next]_vars => (IInv /\ Publishing)'
  BY TypeInv, OwnershipInv, PublishingInv DEF IInv, Ownership
<1>2. Publishing => SlotStable
  BY DEF Publishing, SlotStable, Whole
<1> QED
  BY InitIInv, InitPublishing, <1>1, <1>2, PTL DEF Spec

(* A recipe that runs out leaves its outgoing deck silent, whatever deck   *)
(* it names and whatever the control thread does to that deck meanwhile.   *)
THEOREM MixRecipeReleases == Spec => RecipeReleases
<1>1. IInv /\ [Next]_vars => IInv'
  BY TypeInv, OwnershipInv DEF IInv, Ownership
<1> DEFINE Step == (rpc \in {"recipe", "release"} /\ active # NoRecipe /\ active' = NoRecipe)
                      => (state'[active.route.outgoing] # "PLAYING")
<1>2. ASSUME IInv, Next
      PROVE  Step
  <2> USE <1>2 DEF IInv, TypeOK
  <2>1. CASE EndRecipe
    BY <2>1 DEF EndRecipe
  <2>2. CASE ReleaseOutgoing
    <3>1. active.route.outgoing \in Deck
      BY <2>2, RouteDecks DEF ReleaseOutgoing, Ownership
    <3> QED
      BY <2>2, <3>1 DEF ReleaseOutgoing
  <2>3. CASE rpc \notin {"recipe", "release"} \/ UNCHANGED active
    BY <2>3
  <2>4. EndRecipe \/ ReleaseOutgoing \/ rpc \notin {"recipe", "release"} \/ UNCHANGED active
    BY DEF Next, Control, ControlBegins, ControlContinues, Render, Prepare, PrepareFields,
       PrepareHandBack, Start, StartArm, Stop, Reset, Schedule, ScheduleClock, ScheduleVersion,
       RenderBegin, LoadVersion, CopyRoute, CopyClock, LoadState, TakeStop, ArmedToPlaying,
       ReadDeck, Finish, StoreMaster, rtVars
  <2> QED
    BY <2>1, <2>2, <2>3, <2>4
<1>3. IInv /\ [Next]_vars => [Step]_vars
  BY <1>2
<1> QED
  BY InitIInv, <1>1, <1>3, PTL DEF Spec, RecipeReleases
=============================================================================
