-------------------------- MODULE LiveEngine_proofs --------------------------
(***************************************************************************)
(* The four seams of the running engine, proved for any decks, plans,      *)
(* inserts and PCM, any ring and any block sizes, whatever the main actor  *)
(* calls while the render thread is in a block.  Each seam has an          *)
(* invariant of its own that the other seams leave alone: where each       *)
(* thread is in its loads and stores tells what the shared state holds.    *)
(***************************************************************************)
EXTENDS LiveEngine, Remainders, TLAPS

(* The render thread in its block *)

\* Where the render thread is in its block.
Staged ==
    /\ stage \in {"commands", "transition", "decks", "buses", "tap", "clock"}
    /\ frames \in Blocks \union {0} /\ (stage # "commands" => frames \in Blocks)
    /\ stage # "transition" => apply.pc = "off"
    /\ stage # "decks" => reader.pc = "off"
    /\ stage # "buses" => caller.pc = "off"
    /\ stage # "tap" => tap.pc = "off"

\* A new engine waits for its first block.
LEMMA StagedStarts == Init => Staged
BY DEF Init, Staged, TransitionInit, PcmInit, InsertInit, TapInit, NotApplying, NotReading, NotCalling, NotTapping

\* The render thread takes the stages one by one; no call of the main actor is one.
LEMMA StagedKeeps == Staged /\ [Next]_vars => Staged'
<1> SUFFICES ASSUME Staged, [Next]_vars PROVE Staged'
    OBVIOUS
<1>1. CASE UNCHANGED vars
    BY <1>1 DEF vars, insertVars, tapVars, transitionVars, pcmVars, Staged
<1>2. CASE Control
    <2>1. UNCHANGED <<stage, frames>>
        BY <1>2 DEF Control
    <2>2. UNCHANGED <<apply, reader, caller, tap>>
        <3>1. CASE CallInsertSeam
            BY <3>1 DEF CallInsertSeam, SetInsert, tapVars, transitionVars, pcmVars
        <3>2. CASE CallTap
            BY <3>2 DEF CallTap, RecordCall, HostTap, insertVars, transitionVars, pcmVars
        <3>3. CASE CallTransition
            BY <3>3 DEF CallTransition, TransitionCall, HostTransition, insertVars, tapVars, pcmVars
        <3>4. CASE CallDeck
            <4>1. UNCHANGED reader
                BY <3>4 DEF CallDeck, LoadCall, StemCall, Load, ArmStem, DropStem, DisarmStems, Stores
            <4> QED BY <3>4, <4>1 DEF CallDeck, insertVars, tapVars, transitionVars
        <3>5. CASE CallPlay
            BY <3>5 DEF CallPlay, play, pause, Post, insertVars, tapVars, transitionVars
        <3>6. CASE Tick
            BY <3>6 DEF Tick, TransitionTick, HostTransition, insertVars, tapVars, pcmVars
        <3>7. CASE InCall
            <4>1. CASE SetInsertStep /\ UNCHANGED <<tapVars, transitionVars, pcmVars>>
                <5>1. UNCHANGED caller
                    BY <4>1 DEF SetInsertStep
                <5> QED BY <4>1, <5>1 DEF tapVars, transitionVars, pcmVars
            <4>2. CASE RecordStep /\ UNCHANGED <<insertVars, transitionVars, pcmVars>>
                BY <4>2 DEF RecordStep, HostTap, insertVars, transitionVars, pcmVars
            <4>3. CASE TransitionStep /\ UNCHANGED <<insertVars, tapVars, pcmVars>>
                BY <4>3 DEF TransitionStep, HostTransition, insertVars, tapVars, pcmVars
            <4>4. CASE PcmStep /\ UNCHANGED <<insertVars, tapVars, transitionVars>>
                BY <4>4 DEF PcmStep, insertVars, tapVars, transitionVars
            <4> QED BY <3>7, <4>1, <4>2, <4>3, <4>4 DEF InCall
        <3> QED BY <1>2, <3>1, <3>2, <3>3, <3>4, <3>5, <3>6, <3>7 DEF Control
    <2> QED BY <2>1, <2>2 DEF Staged
<1>3. CASE Render
    <2>1. CASE RenderCommands
        BY <2>1 DEF RenderCommands, DrainCommands, Staged, insertVars, tapVars, transitionVars
    <2>2. CASE RenderTransition
        BY <2>2 DEF RenderTransition, Staged, insertVars, tapVars, pcmVars
    <2>3. CASE RenderDecks
        BY <2>3 DEF RenderDecks, Staged, insertVars, tapVars, transitionVars
    <2>4. CASE RenderBuses
        BY <2>4 DEF RenderBuses, Staged, transitionVars, tapVars, pcmVars
    <2>5. CASE RenderTap
        BY <2>5 DEF RenderTap, Staged, insertVars, transitionVars, pcmVars
    <2>6. CASE EndBlock
        BY <2>6 DEF EndBlock, AdvanceClock, Staged, insertVars, tapVars, pcmVars
    <2> QED BY <1>3, <2>1, <2>2, <2>3, <2>4, <2>5, <2>6 DEF Render
<1> QED BY <1>1, <1>2, <1>3 DEF Next

-----------------------------------------------------------------------------
(* The insert seam *)

InsertTyped ==
    /\ insertFn \in Inserts \union {Null} /\ insertCtx \in Inserts \union {Null}
    /\ inserts \in Inserts \union {Null}
    /\ setter \in [pc : {"idle", "clearFn", "clearCtx", "ctx", "fn"}, new : Inserts \union {Null}]
    /\ caller \in [pc : {"off", "ctx", "call"}, fn : Inserts \union {Null}, ctx : Inserts \union {Null}]
    /\ caller.pc # "off" => caller.fn \in Inserts
    /\ changed \in BOOLEAN /\ misCalled \in BOOLEAN

\* Where pe_set_insert is tells what the atomics hold.
SetterKnows ==
    /\ setter.pc = "idle" => insertFn = inserts /\ insertCtx = inserts
    /\ setter.pc = "clearFn" => inserts = Null /\ changed
    /\ setter.pc = "clearCtx" => inserts = Null /\ changed /\ insertFn = Null
    /\ setter.pc = "ctx" => inserts = setter.new /\ setter.new \in Inserts
    /\ setter.pc = "fn" => inserts = setter.new /\ setter.new \in Inserts /\ insertCtx = setter.new

\* Unless an insert is being taken away, a setter has found the point empty and
\* the render thread, if it is in a call, is in a call of the living insert.
CallerKnows ==
    ~changed =>
        /\ setter.pc # "idle" => insertFn = Null /\ caller.pc = "off"
        /\ caller.pc # "off" => caller.fn = inserts
        /\ caller.pc = "call" => caller.ctx = inserts

InsertInv == InsertTyped /\ SetterKnows /\ CallerKnows /\ ~misCalled

\* A new engine has no insert.
LEMMA InsertStarts == Init => InsertInv
<1> SUFFICES ASSUME Init PROVE InsertInv
    OBVIOUS
<1> USE DEF Init, InsertInit
<1>1. setter.pc = "idle" /\ caller.pc = "off"
    BY DEF NotSetting, NotCalling
<1>2. InsertTyped
    BY DEF InsertTyped, NotSetting, NotCalling
<1>3. SetterKnows
    BY <1>1 DEF SetterKnows
<1>4. CallerKnows
    BY <1>1 DEF CallerKnows
<1> QED BY <1>2, <1>3, <1>4 DEF InsertInv

\* A call of setInsert, up to its first store.
LEMMA InsertCallKeeps ==
    ASSUME InsertInv, NEW o \in Inserts \union {Null}, SetInsert(o)
    PROVE  InsertInv'
<1> USE InsertAssumption DEF SetInsert
<1>1. InsertTyped'
    <2>1. setter' = [pc |-> "clearFn", new |-> o] \/ setter' = [pc |-> "ctx", new |-> o]
        OBVIOUS
    <2> QED BY <2>1 DEF InsertInv, InsertTyped
<1>2. ~misCalled'
    BY DEF InsertInv
<1>3. CASE o = Null
    <2>1. setter'.pc = "clearFn" /\ inserts' = Null
        BY <1>3
    <2>2. changed'
        <3>1. insertFn # Null
            BY <1>3 DEF InsertInv, SetterKnows
        <3> QED BY <3>1
    <2> QED BY <1>1, <2>1, <2>2 DEF InsertInv, SetterKnows, CallerKnows
<1>4. CASE o # Null
    <2>1. setter'.pc = "ctx" /\ setter'.new = o /\ inserts' = o
        BY <1>4
    <2>2. SetterKnows'
        BY <1>4, <2>1 DEF SetterKnows
    <2>3. CASE changed'
        <3>1. CallerKnows'
            BY <2>3 DEF CallerKnows
        <3> QED BY <1>2, <1>1, <2>2, <3>1 DEF InsertInv
    <2>4. CASE ~changed'
        <3>1. ~changed
            BY <2>4
        <3>2. insertFn = Null
            BY <2>4
        <3>3. inserts = Null
            BY <3>2 DEF InsertInv, SetterKnows
        <3>4. caller.pc = "off"
            BY <3>1, <3>3 DEF InsertInv, InsertTyped, CallerKnows
        <3>5. CallerKnows'
            BY <3>2, <3>4 DEF CallerKnows
        <3> QED BY <1>2, <1>1, <2>2, <3>5 DEF InsertInv
    <2> QED BY <2>3, <2>4
<1> QED BY <1>3, <1>4

\* The stores of pe_set_insert.
LEMMA InsertStoreKeeps ==
    ASSUME InsertInv, SetInsertStep
    PROVE  InsertInv'
<1> USE InsertAssumption DEF InsertInv, InsertTyped, SetterKnows, CallerKnows
<1>1. CASE ClearFn
    BY <1>1 DEF SetInsertStep, ClearFn
<1>2. CASE ClearCtx
    BY <1>2 DEF SetInsertStep, ClearCtx, Settled, NotSetting
<1>3. CASE StoreCtxFirst
    BY <1>3 DEF SetInsertStep, StoreCtxFirst, Settled, NotSetting
<1> QED BY <1>1, <1>2, <1>3 DEF SetInsertStep

\* The loads and the call of applyInsert.
LEMMA InsertApplyKeeps ==
    ASSUME InsertInv, ApplyInsert
    PROVE  InsertInv'
<1> USE InsertAssumption DEF InsertInv, InsertTyped, SetterKnows, CallerKnows
<1>1. CASE LoadFn
    BY <1>1 DEF ApplyInsert, LoadFn
<1>2. CASE LoadCtx
    BY <1>2 DEF ApplyInsert, LoadCtx
<1>3. CASE CallInsert
    BY <1>3 DEF ApplyInsert, CallInsert, NotCalling
<1> QED BY <1>1, <1>2, <1>3 DEF ApplyInsert

\* The other seams leave the insert alone.
LEMMA InsertFramed ==
    ASSUME InsertInv, UNCHANGED insertVars
    PROVE  InsertInv'
BY DEF insertVars, InsertInv, InsertTyped, SetterKnows, CallerKnows

\* Every step of the engine, for the insert.
LEMMA InsertKeeps == InsertInv /\ [Next]_vars => InsertInv'
<1> SUFFICES ASSUME InsertInv, [Next]_vars PROVE InsertInv'
    OBVIOUS
<1>1. CASE UNCHANGED vars
    BY <1>1, InsertFramed DEF vars
<1>2. CASE Render
    <2>1. CASE RenderBuses
        BY <2>1, InsertApplyKeeps DEF RenderBuses
    <2>2. CASE RenderCommands \/ RenderTransition \/ RenderDecks \/ RenderTap \/ EndBlock
        BY <2>2, InsertFramed DEF RenderCommands, RenderTransition, RenderDecks, RenderTap, EndBlock
    <2> QED BY <1>2, <2>1, <2>2 DEF Render
<1>3. CASE Control
    <2>1. CASE CallInsertSeam
        BY <2>1, InsertCallKeeps DEF CallInsertSeam
    <2>2. CASE CallTap \/ CallTransition \/ CallDeck \/ CallPlay \/ Tick
        BY <2>2, InsertFramed DEF CallTap, CallTransition, CallDeck, CallPlay, Tick
    <2>3. CASE InCall
        <3>1. CASE SetInsertStep
            BY <3>1, InsertStoreKeeps
        <3>2. CASE UNCHANGED insertVars
            BY <3>2, InsertFramed
        <3> QED BY <2>3, <3>1, <3>2 DEF InCall
    <2> QED BY <1>3, <2>1, <2>2, <2>3 DEF Control
<1> QED BY <1>1, <1>2, <1>3 DEF Next

\* What the render thread calls is a whole insert that the host keeps alive,
\* unless the app is taking a live insert away.
THEOREM InsertSafe == Spec => []InsertWhole
<1>1. InsertInv => InsertWhole
    BY DEF InsertInv, InsertWhole
<1> QED BY <1>1, InsertStarts, InsertKeeps, PTL DEF Spec

-----------------------------------------------------------------------------
(* Numbers *)

\* The community modules choose the least and the greatest.
LEMMA MinOfTwo ==
    ASSUME NEW a \in Int, NEW b \in Int
    PROVE  Min({a, b}) = IF a <= b THEN a ELSE b
<1>1. \E x \in {a, b} : \A y \in {a, b} : x =< y
    OBVIOUS
<1>2. Min({a, b}) \in {a, b} /\ \A y \in {a, b} : Min({a, b}) =< y
    BY <1>1, Zenon DEF Min
<1> QED BY <1>2

LEMMA MaxOfTwo ==
    ASSUME NEW a \in Int, NEW b \in Int
    PROVE  Max({a, b}) = IF a >= b THEN a ELSE b
<1>1. \E x \in {a, b} : \A y \in {a, b} : x >= y
    OBVIOUS
<1>2. Max({a, b}) \in {a, b} /\ \A y \in {a, b} : Max({a, b}) >= y
    BY <1>1, Zenon DEF Max
<1> QED BY <1>2

-----------------------------------------------------------------------------
(* The PCM a deck borrows *)

FramesOf(q) == IF q = NoPcm THEN 0 ELSE q.frames
LoadFields == {"channels", "frames", "position", "playing", "motor"}
StemFields == {"stemChannels", "stemFrames", "present", "stemsArmed"}
Loading == DOMAIN loader

PcmTyped ==
    /\ buffer \in Pcms \union {NoPcm} /\ stemBuffer \in Pcms \union {NoPcm}
    /\ deck \in [channels : Pcms \union {NoPcm}, frames : Nat, position : Nat, playing : BOOLEAN,
                 motor : {0, 1}, stemsArmed : BOOLEAN, present : BOOLEAN,
                 stemChannels : Pcms \union {NoPcm}, stemFrames : Nat]
    /\ commands \in Seq({"PLAY", "PAUSE"})
    /\ reader \in [pc : {"off", "decide", "place", "take", "advance"}, left : Nat, from : Nat,
                   of : {"track", "stem"}, index : Nat]
    /\ reader.pc = "off" <=> reader.left = 0
    /\ unsettled \in BOOLEAN

\* What a call has still to store, and what it has stored or found.
LoaderKnows ==
    /\ Loading \subseteq LoadFields \/ Loading \subseteq StemFields
    /\ loader = [f \in Loading |-> loader[f]]
    /\ "channels" \in Loading => loader["channels"] = buffer
    /\ "frames" \in Loading => loader["frames"] = FramesOf(buffer)
    /\ Loading \intersect LoadFields # {} => buffer # NoPcm
    /\ "position" \in Loading => loader["position"] = 0
    /\ "playing" \in Loading => loader["playing"] = FALSE
    /\ "motor" \in Loading => loader["motor"] = 0
    /\ "stemChannels" \in Loading => loader["stemChannels"] = stemBuffer
    /\ "stemFrames" \in Loading => loader["stemFrames"] = FramesOf(stemBuffer)
    /\ "present" \in Loading => loader["present"] = (stemBuffer # NoPcm)
    /\ "stemsArmed" \in Loading => loader["stemsArmed"] \in BOOLEAN

DeckKnows ==
    /\ "channels" \notin Loading => deck.channels = buffer
    /\ "frames" \notin Loading => deck.frames = FramesOf(buffer)
    /\ "stemChannels" \notin Loading => deck.stemChannels = stemBuffer
    /\ "stemFrames" \notin Loading => deck.stemFrames = FramesOf(stemBuffer)
    /\ "present" \notin Loading => deck.present = (stemBuffer # NoPcm)

AtRest == ~deck.playing /\ deck.motor = 0 /\ ~InFrame /\ \A i \in DOMAIN commands : commands[i] # "PLAY"

\* A call that has not found the deck running has found it at rest or empty.
SettledKnows ==
    ~unsettled /\ loader # NoStores =>
        \/ AtRest
        \/ Loading \subseteq StemFields /\ deck.frames = 0
        \/ Loading \subseteq LoadFields /\ deck.channels \in {NoPcm, buffer}
                                         /\ deck.frames \in {0, FramesOf(buffer)}

ReaderKnows ==
    /\ InFrame => deck.frames > 0
    /\ reader.pc = "take" /\ ~unsettled =>
        IF reader.of = "stem" THEN stemBuffer # NoPcm /\ reader.index < FramesOf(stemBuffer)
        ELSE reader.index < FramesOf(buffer)

PcmInv == PcmTyped /\ LoaderKnows /\ DeckKnows /\ SettledKnows /\ ReaderKnows /\ ~misRead

-----------------------------------------------------------------------------
\* Only nil has no frames.
LEMMA FramesType ==
    ASSUME NEW q \in Pcms \union {NoPcm}
    PROVE  FramesOf(q) \in Nat /\ (FramesOf(q) = 0 <=> q = NoPcm)
BY PcmAssumption DEF FramesOf

\* A new engine has no PCM.
LEMMA PcmStarts == Init => PcmInv
<1> SUFFICES ASSUME Init PROVE PcmInv
    OBVIOUS
<1> USE DEF Init, PcmInit, NoStores, NotReading
<1>1. PcmTyped
    <2>1. commands \in Seq({"PLAY", "PAUSE"})
        OBVIOUS
    <2>2. deck \in [channels : Pcms \union {NoPcm}, frames : Nat, position : Nat, playing : BOOLEAN,
                    motor : {0, 1}, stemsArmed : BOOLEAN, present : BOOLEAN,
                    stemChannels : Pcms \union {NoPcm}, stemFrames : Nat]
        OBVIOUS
    <2>3. reader \in [pc : {"off", "decide", "place", "take", "advance"}, left : Nat, from : Nat,
                      of : {"track", "stem"}, index : Nat]
        OBVIOUS
    <2> QED BY <2>1, <2>2, <2>3 DEF PcmTyped
<1>2. Loading = {}
    BY DEF Loading
<1>3. LoaderKnows
    <2>1. loader = [f \in Loading |-> loader[f]]
        BY <1>2
    <2> QED BY <1>2, <2>1 DEF LoaderKnows, LoadFields
<1>4. DeckKnows
    BY <1>2 DEF DeckKnows, FramesOf
<1>5. SettledKnows
    BY DEF SettledKnows
<1>6. ReaderKnows
    BY DEF ReaderKnows, InFrame
<1> QED BY <1>1, <1>3, <1>4, <1>5, <1>6 DEF PcmInv

\* A call of the host, up to its first store.
LEMMA PcmCallKeeps ==
    ASSUME PcmInv, LoadCall \/ StemCall
    PROVE  PcmInv'
<1> USE PcmAssumption
<1>0. loader = NoStores /\ Loading = {} /\ UNCHANGED <<deck, commands, reader, misRead>>
      /\ unsettled' = (unsettled \/ (Running /\ deck.frames > 0))
    BY DEF LoadCall, StemCall, Load, ArmStem, DropStem, DisarmStems, Stores, NoStores, Loading
<1>1. /\ buffer' \in Pcms \union {NoPcm} /\ stemBuffer' \in Pcms \union {NoPcm}
      /\ LoaderKnows'
      /\ \/ /\ LoadFields \subseteq Loading' /\ stemBuffer' = stemBuffer
            /\ buffer' # NoPcm
         \/ /\ {"stemChannels", "stemFrames", "present"} \subseteq Loading'
            /\ Loading' \subseteq StemFields /\ buffer' = buffer
    <2>1. ASSUME NEW q \in Pcms, Load(q)
          PROVE  /\ LoaderKnows' /\ buffer' = q /\ stemBuffer' = stemBuffer
                 /\ Loading' = LoadFields
        <3>1. loader' = [channels |-> q, frames |-> q.frames, position |-> 0,
                         playing |-> FALSE, motor |-> 0]
            BY <2>1 DEF Load, Stores
        <3>2. Loading' = LoadFields /\ loader' = [f \in Loading' |-> loader'[f]]
            BY <3>1 DEF Loading, LoadFields
        <3>3. /\ loader'["channels"] = q /\ loader'["frames"] = q.frames
              /\ loader'["position"] = 0 /\ loader'["playing"] = FALSE /\ loader'["motor"] = 0
            BY <3>1
        <3>4. buffer' = q /\ stemBuffer' = stemBuffer
            BY <2>1 DEF Load
        <3>5. LoaderKnows'
            BY <3>2, <3>3, <3>4 DEF LoaderKnows, LoadFields, FramesOf
        <3> QED BY <3>2, <3>4, <3>5
    <2>2. ASSUME NEW q \in Pcms, ArmStem(q)
          PROVE  /\ LoaderKnows' /\ buffer' = buffer /\ stemBuffer' = q
                 /\ Loading' = StemFields
        <3>1. loader' = [stemChannels |-> q, stemFrames |-> q.frames, present |-> TRUE,
                         stemsArmed |-> TRUE]
            BY <2>2 DEF ArmStem, Stores
        <3>2. Loading' = StemFields /\ loader' = [f \in Loading' |-> loader'[f]]
            BY <3>1 DEF Loading, StemFields
        <3>3. /\ loader'["stemChannels"] = q /\ loader'["stemFrames"] = q.frames
              /\ loader'["present"] = TRUE /\ loader'["stemsArmed"] = TRUE
            BY <3>1
        <3>4. stemBuffer' = q /\ buffer' = buffer
            BY <2>2 DEF ArmStem
        <3>5. LoaderKnows'
            BY <3>2, <3>3, <3>4 DEF LoaderKnows, LoadFields, StemFields, FramesOf
        <3> QED BY <3>2, <3>4, <3>5
    <2>3. ASSUME DropStem \/ DisarmStems
          PROVE  /\ LoaderKnows' /\ buffer' = buffer /\ stemBuffer' = NoPcm
                 /\ {"stemChannels", "stemFrames", "present"} \subseteq Loading'
                 /\ Loading' \subseteq StemFields
        <3>1. \/ loader' = [stemChannels |-> NoPcm, stemFrames |-> 0, present |-> FALSE]
              \/ loader' = [stemChannels |-> NoPcm, stemFrames |-> 0, present |-> FALSE,
                            stemsArmed |-> FALSE]
            BY <2>3 DEF DropStem, DisarmStems, Stores
        <3>2. /\ {"stemChannels", "stemFrames", "present"} \subseteq Loading'
              /\ Loading' \subseteq StemFields /\ loader' = [f \in Loading' |-> loader'[f]]
            BY <3>1 DEF Loading, StemFields
        <3>3. /\ loader'["stemChannels"] = NoPcm /\ loader'["stemFrames"] = 0
              /\ loader'["present"] = FALSE
              /\ "stemsArmed" \in Loading' => loader'["stemsArmed"] = FALSE
            BY <3>1 DEF Loading
        <3>4. stemBuffer' = NoPcm /\ buffer' = buffer
            BY <2>3 DEF DropStem, DisarmStems
        <3>5. LoaderKnows'
            BY <3>2, <3>3, <3>4 DEF LoaderKnows, LoadFields, StemFields, FramesOf
        <3> QED BY <3>2, <3>4, <3>5
    <2>4. buffer \in Pcms \union {NoPcm} /\ stemBuffer \in Pcms \union {NoPcm}
        BY DEF PcmInv, PcmTyped
    <2>5. CASE LoadCall
        <3>1. PICK q \in Pcms : Load(q)
            BY <2>5 DEF LoadCall
        <3> QED BY <2>1, <2>4, <3>1
    <2>6. CASE \E q \in Pcms : ArmStem(q)
        <3>1. PICK q \in Pcms : ArmStem(q)
            BY <2>6
        <3>2. Loading' = StemFields /\ buffer' = buffer /\ stemBuffer' = q /\ LoaderKnows'
            BY <2>2, <3>1
        <3> QED BY <2>4, <3>2 DEF StemFields
    <2>7. CASE DropStem \/ DisarmStems
        BY <2>3, <2>4, <2>7
    <2> QED BY <2>5, <2>6, <2>7 DEF StemCall
<1>2. PcmTyped'
    BY <1>0, <1>1 DEF PcmInv, PcmTyped
<1>3. DeckKnows'
    BY <1>0, <1>1 DEF PcmInv, DeckKnows, LoadFields, StemFields
<1>4. ~unsettled' => AtRest' \/ deck.frames = 0
    <2>1. InFrame' <=> InFrame
        BY <1>0 DEF InFrame
    <2>2. PcmTyped
        BY DEF PcmInv
    <2>3. ~unsettled' => ~Running \/ deck.frames = 0
        <3>1. Running /\ deck.frames > 0 => unsettled'
            BY <1>0
        <3>2. deck.frames \in Nat
            BY <2>2 DEF PcmTyped
        <3>3. deck.frames > 0 \/ deck.frames = 0
            BY <3>2
        <3> QED BY <3>1, <3>3
    <2>4. ~Running => AtRest'
        BY <1>0, <2>1, <2>2 DEF Running, AtRest, PcmTyped
    <2> QED BY <2>3, <2>4
<1>5. SettledKnows'
    <2>1. CASE LoadFields \subseteq Loading'
        <3>1. Loading' \subseteq LoadFields
            BY <1>1, <2>1 DEF LoaderKnows, LoadFields, StemFields
        <3>2. deck.frames = 0 => deck'.channels \in {NoPcm, buffer'}
            <4>1. deck.frames = 0 => buffer = NoPcm
                BY <1>0, FramesType DEF PcmInv, PcmTyped, DeckKnows
            <4> QED BY <1>0, <4>1 DEF PcmInv, DeckKnows
        <3> QED BY <1>0, <1>4, <3>1, <3>2 DEF SettledKnows
    <2>2. CASE Loading' \subseteq StemFields
        BY <1>0, <1>4, <2>2 DEF SettledKnows
    <2> QED BY <1>1, <2>1, <2>2
<1>6. ReaderKnows'
    <2>1. InFrame' <=> InFrame
        BY <1>0 DEF InFrame
    <2>2. reader.pc = "take" => InFrame
        BY DEF InFrame
    <2>3. InFrame => unsettled'
        BY <1>0 DEF Running, PcmInv, ReaderKnows
    <2> QED BY <1>0, <2>1, <2>2, <2>3 DEF PcmInv, ReaderKnows
<1> QED BY <1>0, <1>1, <1>2, <1>3, <1>5, <1>6 DEF PcmInv

\* A store of pe_set_deck_buffer or of a stem call.
LEMMA PcmStoreKeeps ==
    ASSUME PcmInv, PcmStep
    PROVE  PcmInv'
<1> USE PcmAssumption
<1>1. PICK f \in Loading : /\ deck' = [deck EXCEPT ![f] = loader[f]]
                            /\ loader' = Restrict(loader, Loading \ {f})
                            /\ unsettled' = (unsettled /\ (Loading # {f} \/ InFrame))
                            /\ UNCHANGED <<buffer, stemBuffer, commands, reader, misRead>>
    BY DEF PcmStep, Loading
<1>2. Loading' = Loading \ {f} /\ \A x \in Loading \ {f} : loader'[x] = loader[x]
    BY <1>1 DEF Restrict, Loading
<1>3. loader' = [x \in Loading' |-> loader'[x]]
    BY <1>1, <1>2 DEF Restrict
<1>4. f \in LoadFields \union StemFields /\ PcmTyped /\ LoaderKnows
    BY DEF PcmInv, LoaderKnows
<1>5. FramesOf(buffer) \in Nat /\ FramesOf(stemBuffer) \in Nat
    BY <1>4, FramesType DEF PcmTyped
<1>6. PcmTyped'
    <2>1. deck' \in [channels : Pcms \union {NoPcm}, frames : Nat, position : Nat, playing : BOOLEAN,
                     motor : {0, 1}, stemsArmed : BOOLEAN, present : BOOLEAN,
                     stemChannels : Pcms \union {NoPcm}, stemFrames : Nat]
        <3>1. CASE f \in {"channels", "frames", "position"}
            BY <1>1, <1>4, <1>5, <3>1 DEF PcmTyped, LoaderKnows
        <3>2. CASE f \in {"playing", "motor"}
            BY <1>1, <1>4, <1>5, <3>2 DEF PcmTyped, LoaderKnows
        <3>3. CASE f \in {"stemChannels", "stemFrames"}
            BY <1>1, <1>4, <1>5, <3>3 DEF PcmTyped, LoaderKnows
        <3>4. CASE f \in {"present", "stemsArmed"}
            BY <1>1, <1>4, <1>5, <3>4 DEF PcmTyped, LoaderKnows
        <3> QED BY <1>4, <3>1, <3>2, <3>3, <3>4 DEF LoadFields, StemFields
    <2>2. unsettled' \in BOOLEAN
        BY <1>1, <1>4 DEF PcmTyped
    <2> QED BY <1>1, <1>4, <2>1, <2>2 DEF PcmTyped
<1>7. LoaderKnows'
    BY <1>1, <1>2, <1>3, <1>4 DEF LoaderKnows
<1>8. DeckKnows'
    BY <1>1, <1>2, <1>4 DEF PcmInv, PcmTyped, DeckKnows, LoaderKnows, LoadFields, StemFields
<1>9. InFrame' <=> InFrame
    BY <1>1 DEF InFrame
<1>10. ~unsettled' => ~unsettled \/ (loader' = NoStores /\ ~InFrame)
    <2>1. CASE Loading = {f}
        <3>1. Loading' = {}
            BY <1>2, <2>1
        <3>2. loader' = NoStores
            BY <1>3, <3>1 DEF NoStores
        <3> QED BY <1>1, <2>1, <3>2
    <2>2. CASE Loading # {f}
        BY <1>1, <2>2
    <2> QED BY <2>1, <2>2
<1>11. SettledKnows'
    <2>1. SUFFICES ASSUME ~unsettled', loader' # NoStores PROVE SettledKnows'
        BY DEF SettledKnows
    <2>2. ~unsettled
        BY <1>10, <2>1
    <2>3. loader # NoStores
        BY DEF NoStores, Loading
    <2>4. CASE AtRest
        BY <1>1, <1>4, <1>9, <2>4 DEF AtRest, PcmTyped, LoaderKnows, SettledKnows, LoadFields, StemFields
    <2>5. CASE Loading \subseteq StemFields /\ deck.frames = 0
        BY <1>1, <1>2, <1>4, <2>5 DEF PcmTyped, SettledKnows, StemFields
    <2>6. CASE /\ Loading \subseteq LoadFields /\ deck.channels \in {NoPcm, buffer}
               /\ deck.frames \in {0, FramesOf(buffer)}
        BY <1>1, <1>2, <1>4, <2>6 DEF PcmTyped, SettledKnows, LoadFields, LoaderKnows
    <2> QED BY <2>2, <2>3, <2>4, <2>5, <2>6 DEF PcmInv, SettledKnows
<1>12. ReaderKnows'
    <2>1. InFrame => deck'.frames > 0
        <3>1. f = "frames" => deck'.frames = FramesOf(buffer) /\ buffer # NoPcm
            BY <1>1, <1>4 DEF PcmTyped, LoaderKnows, LoadFields
        <3>2. f # "frames" => deck'.frames = deck.frames
            BY <1>1, <1>4 DEF PcmTyped
        <3>3. buffer # NoPcm => FramesOf(buffer) > 0
            BY <1>4, <1>5, FramesType DEF PcmTyped
        <3> QED BY <3>1, <3>2, <3>3 DEF PcmInv, ReaderKnows
    <2>2. reader.pc = "take" /\ ~unsettled' => ~unsettled
        BY <1>10 DEF InFrame
    <2> QED BY <1>1, <1>9, <2>1, <2>2 DEF PcmInv, ReaderKnows
<1> QED BY <1>1, <1>6, <1>7, <1>8, <1>11, <1>12 DEF PcmInv

\* A PLAY or a PAUSE on its way.
LEMMA PcmPostKeeps ==
    ASSUME PcmInv, play \/ pause, loader = NoStores
    PROVE  PcmInv'
<1>1. PICK c \in {"PLAY", "PAUSE"} : Post(c)
    BY DEF play, pause
<1>2. commands' \in Seq({"PLAY", "PAUSE"})
    BY <1>1 DEF Post, PcmInv, PcmTyped
<1>3. UNCHANGED <<buffer, stemBuffer, deck, loader, reader, unsettled, misRead>>
    BY <1>1 DEF Post
<1>4. PcmTyped' /\ SettledKnows' /\ (Loading' = Loading) /\ (InFrame' <=> InFrame)
    BY <1>2, <1>3 DEF PcmInv, PcmTyped, SettledKnows, Loading, InFrame
<1> QED BY <1>3, <1>4 DEF PcmInv, LoaderKnows, DeckKnows, ReaderKnows

\* drainCommands.
LEMMA PcmCommandsKeep ==
    ASSUME PcmInv, DrainCommands, reader.pc = "off"
    PROVE  PcmInv'
<1>1. commands' = <<>> /\ UNCHANGED <<buffer, stemBuffer, loader, reader, unsettled, misRead>>
    BY DEF DrainCommands
<1>2. PcmTyped
    BY DEF PcmInv
<1>3. \/ deck' = deck
      \/ /\ commands # <<>>
         /\ LET on == commands[Len(commands)] = "PLAY"
            IN  deck' = [deck EXCEPT !.playing = on, !.motor = IF on THEN 1 ELSE 0]
    BY DEF DrainCommands
<1>4. /\ deck' \in [channels : Pcms \union {NoPcm}, frames : Nat, position : Nat, playing : BOOLEAN,
                     motor : {0, 1}, stemsArmed : BOOLEAN, present : BOOLEAN,
                     stemChannels : Pcms \union {NoPcm}, stemFrames : Nat]
      /\ deck'.channels = deck.channels /\ deck'.frames = deck.frames
      /\ deck'.stemChannels = deck.stemChannels /\ deck'.stemFrames = deck.stemFrames
      /\ deck'.present = deck.present
    BY <1>2, <1>3 DEF PcmTyped
<1>5. PcmTyped'
    BY <1>1, <1>2, <1>4 DEF PcmTyped
<1>6. Loading' = Loading /\ ~InFrame'
    BY <1>1 DEF Loading, InFrame
<1>7. LoaderKnows' /\ DeckKnows' /\ ReaderKnows'
    BY <1>1, <1>4, <1>6 DEF PcmInv, LoaderKnows, DeckKnows, ReaderKnows, InFrame
<1>8. AtRest => AtRest'
    <2> SUFFICES ASSUME AtRest PROVE AtRest'
        OBVIOUS
    <2>1. commands # <<>> => Len(commands) \in DOMAIN commands
        BY <1>2 DEF PcmTyped
    <2>2. ~deck'.playing /\ deck'.motor = 0
        BY <1>2, <1>3, <2>1 DEF AtRest, PcmTyped
    <2> QED BY <1>1, <1>6, <2>2 DEF AtRest
<1>9. SettledKnows'
    BY <1>1, <1>4, <1>6, <1>8 DEF PcmInv, SettledKnows
<1> QED BY <1>1, <1>5, <1>7, <1>9 DEF PcmInv

\* A frame is over, or not to be rendered at all.
LEMMA PcmLeaves ==
    ASSUME PcmTyped, reader.pc # "off", reader' = Leave(reader)
    PROVE  /\ reader' \in [pc : {"off", "decide", "place", "take", "advance"}, left : Nat, from : Nat,
                            of : {"track", "stem"}, index : Nat]
           /\ reader'.pc = "off" <=> reader'.left = 0
           /\ ~InFrame' /\ reader'.pc \in {"off", "decide"}
<1>1. reader.left \in Nat \ {0}
    BY DEF PcmTyped
<1>2. CASE reader.left = 1
    BY <1>2 DEF Leave, NotReading, InFrame
<1>3. CASE reader.left # 1
    <2>1. reader' = [pc |-> "decide", left |-> reader.left - 1, from |-> 0, of |-> "track", index |-> 0]
        BY <1>3 DEF Leave, NotReading
    <2> QED BY <1>1, <1>3, <2>1 DEF InFrame
<1> QED BY <1>2, <1>3

\* renderChunk, from one load to the next.
LEMMA PcmReaderKeeps ==
    ASSUME PcmInv, NEW n \in Nat \ {0}, RenderDeck(n)
    PROVE  PcmInv'
<1> USE PcmAssumption
<1>1. UNCHANGED <<buffer, stemBuffer, commands, loader>> /\ Loading' = Loading
    BY DEF RenderDeck, Loading
<1>2. PcmTyped /\ LoaderKnows /\ DeckKnows /\ SettledKnows /\ ReaderKnows /\ ~misRead
    BY DEF PcmInv
<1>3. LoaderKnows'
    BY <1>1, <1>2 DEF LoaderKnows
<1>4. ASSUME UNCHANGED <<deck, unsettled>>
      PROVE  DeckKnows' /\ (SettledKnows' \/ (InFrame' /\ ~InFrame))
    BY <1>1, <1>2, <1>4 DEF DeckKnows, SettledKnows, AtRest
<1>5. CASE PcmBegin(n)
    <2>1. reader' = [reader EXCEPT !.pc = "decide", !.left = n] /\ UNCHANGED <<deck, unsettled, misRead>>
        BY <1>5 DEF PcmBegin
    <2>2. PcmTyped' /\ ~InFrame' /\ reader'.pc = "decide"
        BY <1>1, <1>2, <2>1 DEF PcmTyped, InFrame
    <2>3. ReaderKnows'
        BY <2>2 DEF ReaderKnows
    <2> QED BY <1>2, <1>3, <1>4, <2>1, <2>2, <2>3 DEF PcmInv
<1>6. CASE Decide
    <2>1. UNCHANGED <<deck, unsettled, misRead>> /\ reader.pc = "decide"
        BY <1>6 DEF Decide
    <2>2. CASE (deck.playing \/ deck.motor > 0) /\ deck.frames > 0
        <3>1. reader' = [reader EXCEPT !.pc = "place"]
            BY <1>6, <2>2 DEF Decide
        <3>2. PcmTyped' /\ ReaderKnows'
            BY <1>1, <1>2, <2>1, <2>2, <3>1 DEF PcmTyped, ReaderKnows
        <3>3. SettledKnows'
            <4>1. ~AtRest
                BY <1>2, <2>2 DEF AtRest, PcmTyped
            <4> QED BY <1>1, <1>2, <2>1, <4>1 DEF SettledKnows
        <3> QED BY <1>2, <1>3, <1>4, <2>1, <3>2, <3>3 DEF PcmInv
    <2>3. CASE ~((deck.playing \/ deck.motor > 0) /\ deck.frames > 0)
        <3>1. reader' = Leave(reader)
            BY <1>6, <2>3 DEF Decide
        <3>2. PcmTyped' /\ ~InFrame' /\ ReaderKnows'
            BY <1>1, <1>2, <2>1, <3>1, PcmLeaves DEF PcmTyped, ReaderKnows
        <3> QED BY <1>2, <1>3, <1>4, <2>1, <3>2 DEF PcmInv
    <2> QED BY <2>2, <2>3
<1>7. CASE Place
    <2> DEFINE all == IF deck.stemsArmed THEN deck.stemFrames ELSE deck.frames
               at == Min({deck.position, Max({all - 1, 0})})
    <2>1. UNCHANGED <<deck, unsettled, misRead>> /\ reader.pc = "place"
        BY <1>7 DEF Place
    <2>2. reader' = [reader EXCEPT !.from = deck.position,
                          !.pc = IF deck.stemsArmed /\ ~deck.present THEN "advance" ELSE "take",
                          !.of = IF deck.stemsArmed THEN "stem" ELSE "track",
                          !.index = at]
        BY <1>7 DEF Place
    <2>3. all \in Nat /\ deck.position \in Nat
        BY <1>2 DEF PcmTyped
    <2>4. at \in Nat /\ (all > 0 => at < all)
        <3>1. all - 1 \in Int /\ 0 \in Int
            BY <2>3
        <3> HIDE DEF all
        <3>2. Max({all - 1, 0}) = IF all - 1 >= 0 THEN all - 1 ELSE 0
            BY <3>1, MaxOfTwo
        <3> DEFINE most == Max({all - 1, 0})
        <3>3. most = (IF all - 1 >= 0 THEN all - 1 ELSE 0) /\ at = Min({deck.position, most})
            BY <3>2
        <3> HIDE DEF most
        <3>6. most \in Int
            BY <3>1, <3>3
        <3>7. Min({deck.position, most}) = IF deck.position <= most THEN deck.position ELSE most
            BY <2>3, <3>6, MinOfTwo
        <3> HIDE DEF at
        <3> QED BY <2>3, <3>3, <3>6, <3>7
    <2> HIDE DEF at
    <2>5. PcmTyped' /\ InFrame /\ InFrame'
        BY <1>1, <1>2, <2>1, <2>2, <2>3, <2>4 DEF PcmTyped, InFrame
    <2>6. deck.frames > 0
        BY <1>2, <2>5 DEF ReaderKnows
    <2>7. ReaderKnows'
        <3>1. SUFFICES ASSUME reader'.pc = "take", ~unsettled
                       PROVE  IF reader'.of = "stem" THEN stemBuffer # NoPcm /\ reader'.index < FramesOf(stemBuffer)
                              ELSE reader'.index < FramesOf(buffer)
            BY <1>1, <2>1, <2>6 DEF ReaderKnows
        <3>2. loader = NoStores \/ (Loading \subseteq LoadFields /\ deck.frames \in {0, FramesOf(buffer)})
            BY <1>2, <2>1, <2>5, <2>6, <3>1 DEF SettledKnows, AtRest
        <3>3. Loading \subseteq LoadFields /\ deck.frames = FramesOf(buffer)
            <4>1. loader = NoStores => Loading = {}
                BY DEF NoStores, Loading
            <4> QED BY <1>2, <2>6, <3>2, <4>1 DEF DeckKnows
        <3>4. deck.stemFrames = FramesOf(stemBuffer) /\ deck.present = (stemBuffer # NoPcm)
            BY <1>2, <3>3 DEF DeckKnows, LoadFields
        <3>5. CASE deck.stemsArmed
            <4>1. deck.present /\ reader'.of = "stem" /\ reader'.index = at
                BY <1>2, <2>2, <3>1, <3>5 DEF PcmTyped
            <4>2. stemBuffer # NoPcm
                BY <3>4, <4>1
            <4>3. FramesOf(stemBuffer) > 0
                BY <1>2, <4>2, FramesType DEF PcmTyped
            <4> QED BY <2>4, <3>4, <3>5, <4>1, <4>2, <4>3
        <3>6. CASE ~deck.stemsArmed
            <4>1. reader'.of = "track" /\ reader'.index = at
                BY <1>2, <2>2, <3>6 DEF PcmTyped
            <4> QED BY <2>4, <2>6, <3>3, <3>6, <4>1
        <3> QED BY <3>5, <3>6
    <2> QED BY <1>2, <1>3, <1>4, <2>1, <2>5, <2>7 DEF PcmInv
<1>8. CASE Take
    <2> DEFINE pcm == IF reader.of = "stem" THEN deck.stemChannels ELSE deck.channels
               fine == \/ pcm = NoPcm /\ reader.of = "track"
                       \/ pcm \in {buffer, stemBuffer} \ {NoPcm} /\ reader.index < pcm.frames
    <2>1. /\ UNCHANGED <<deck, unsettled>> /\ reader.pc = "take"
          /\ reader' = [reader EXCEPT !.pc = "advance"]
          /\ misRead' = (misRead \/ (~unsettled /\ ~fine))
        BY <1>8 DEF Take
    <2>2. PcmTyped' /\ InFrame /\ InFrame' /\ reader'.pc = "advance"
        BY <1>1, <1>2, <2>1 DEF PcmTyped, InFrame
    <2>3. ReaderKnows'
        BY <1>2, <2>1, <2>2 DEF ReaderKnows
    <2>4. ~unsettled => fine
        <3> SUFFICES ASSUME ~unsettled PROVE fine
            OBVIOUS
        <3>1. deck.frames > 0
            BY <1>2, <2>2 DEF ReaderKnows
        <3>2. /\ loader = NoStores \/ Loading \subseteq LoadFields
              /\ loader = NoStores \/ deck.channels \in {NoPcm, buffer}
            BY <1>2, <2>2, <3>1 DEF SettledKnows, AtRest, PcmTyped
        <3>3. Loading \subseteq LoadFields /\ deck.channels \in {NoPcm, buffer}
            <4>1. loader = NoStores => Loading = {}
                BY DEF NoStores, Loading
            <4> QED BY <1>2, <3>2, <4>1 DEF DeckKnows
        <3>4. deck.stemChannels = stemBuffer
            BY <1>2, <3>3 DEF DeckKnows, LoadFields
        <3>5. CASE reader.of = "stem"
            <4>1. stemBuffer # NoPcm /\ reader.index < FramesOf(stemBuffer)
                BY <1>2, <2>1, <3>5 DEF ReaderKnows
            <4> QED BY <3>4, <3>5, <4>1 DEF FramesOf
        <3>6. CASE reader.of # "stem"
            <4>1. reader.of = "track" /\ reader.index < FramesOf(buffer)
                BY <1>2, <2>1, <3>6 DEF ReaderKnows, PcmTyped
            <4> QED BY <3>3, <3>6, <4>1 DEF FramesOf
        <3> QED BY <3>5, <3>6
    <2>5. ~misRead'
        BY <1>2, <2>1, <2>4
    <2> QED BY <1>2, <1>3, <1>4, <2>1, <2>2, <2>3, <2>5 DEF PcmInv
<1>9. CASE Advance
    <2>1. /\ reader.pc = "advance" /\ reader' = Leave(reader) /\ UNCHANGED misRead
          /\ unsettled' = (unsettled /\ loader # NoStores)
        BY <1>9 DEF Advance
    <2>2. PICK from \in {reader.from, deck.position} :
              LET to == from + deck.motor
              IN  deck' = IF to >= deck.frames
                          THEN [deck EXCEPT !.position = deck.frames, !.playing = FALSE]
                          ELSE [deck EXCEPT !.position = to]
        BY <1>9 DEF Advance
    <2>3. /\ deck' \in [channels : Pcms \union {NoPcm}, frames : Nat, position : Nat, playing : BOOLEAN,
                         motor : {0, 1}, stemsArmed : BOOLEAN, present : BOOLEAN,
                         stemChannels : Pcms \union {NoPcm}, stemFrames : Nat]
          /\ deck'.channels = deck.channels /\ deck'.frames = deck.frames
          /\ deck'.stemChannels = deck.stemChannels /\ deck'.stemFrames = deck.stemFrames
          /\ deck'.present = deck.present
        <3>1. from + deck.motor \in Nat
            BY <1>2, <2>2 DEF PcmTyped
        <3> QED BY <1>2, <2>2, <3>1 DEF PcmTyped
    <2>4. InFrame /\ ~InFrame' /\ reader'.pc \in {"off", "decide"}
        BY <1>2, <2>1, PcmLeaves DEF InFrame
    <2>5. PcmTyped'
        BY <1>1, <1>2, <2>1, <2>3, PcmLeaves DEF PcmTyped
    <2>6. DeckKnows'
        BY <1>1, <1>2, <2>3 DEF DeckKnows
    <2>7. ~AtRest
        BY <2>4 DEF AtRest
    <2>8. SettledKnows'
        BY <1>1, <1>2, <2>1, <2>3, <2>7 DEF SettledKnows
    <2>9. ReaderKnows'
        BY <2>4 DEF ReaderKnows
    <2> QED BY <1>2, <1>3, <2>1, <2>5, <2>6, <2>8, <2>9 DEF PcmInv
<1> QED BY <1>5, <1>6, <1>7, <1>8, <1>9 DEF RenderDeck

\* The other seams leave the decks alone.
LEMMA PcmFramed ==
    ASSUME PcmInv, UNCHANGED pcmVars
    PROVE  PcmInv'
<1>1. Loading' = Loading /\ (InFrame' <=> InFrame) /\ (AtRest' <=> AtRest)
    BY DEF pcmVars, Loading, InFrame, AtRest
<1> QED BY <1>1 DEF pcmVars, PcmInv, PcmTyped, LoaderKnows, DeckKnows, SettledKnows, ReaderKnows

\* Every step of the engine, for the PCM.
LEMMA PcmKeeps == Staged /\ PcmInv /\ [Next]_vars => PcmInv'
<1> SUFFICES ASSUME Staged, PcmInv, [Next]_vars PROVE PcmInv'
    OBVIOUS
<1>1. CASE UNCHANGED vars
    BY <1>1, PcmFramed DEF vars
<1>2. CASE Render
    <2>1. CASE RenderCommands
        BY <2>1, PcmCommandsKeep DEF RenderCommands, Staged
    <2>2. CASE RenderDecks
        <3>1. frames \in Nat \ {0}
            BY <2>2, TapAssumption DEF RenderDecks, Staged
        <3> QED BY <2>2, <3>1, PcmReaderKeeps DEF RenderDecks
    <2>3. CASE RenderTransition \/ RenderBuses \/ RenderTap \/ EndBlock
        BY <2>3, PcmFramed DEF RenderTransition, RenderBuses, RenderTap, EndBlock
    <2> QED BY <1>2, <2>1, <2>2, <2>3 DEF Render
<1>3. CASE Control
    <2>1. CASE CallDeck
        BY <2>1, PcmCallKeeps DEF CallDeck
    <2>2. CASE CallPlay
        BY <2>2, PcmPostKeeps DEF CallPlay, Free
    <2>3. CASE CallInsertSeam \/ CallTap \/ CallTransition \/ Tick
        BY <2>3, PcmFramed DEF CallInsertSeam, CallTap, CallTransition, Tick
    <2>4. CASE InCall
        <3>1. CASE PcmStep
            BY <3>1, PcmStoreKeeps
        <3>2. CASE UNCHANGED pcmVars
            BY <3>2, PcmFramed
        <3> QED BY <2>4, <3>1, <3>2 DEF InCall
    <2> QED BY <1>3, <2>1, <2>2, <2>3, <2>4 DEF Control
<1> QED BY <1>1, <1>2, <1>3 DEF Next

\* What the render thread reads is PCM the host holds, at a frame it has, in
\* whatever order the stores of a load, an arm or a disarm become visible to
\* it, if that call found the deck empty or at rest.
THEOREM PcmSafe == Spec => []PcmWhole
<1>1. PcmInv => PcmWhole
    BY DEF PcmInv, PcmWhole
<1>2. Init => Staged /\ PcmInv
    BY StagedStarts, PcmStarts
<1>3. Staged /\ PcmInv /\ [Next]_vars => (Staged /\ PcmInv)'
    BY StagedKeeps, PcmKeeps
<1> QED BY <1>1, <1>2, <1>3, PTL DEF Spec

-----------------------------------------------------------------------------
(* Scheduled transitions *)

Arming == {"armEqs", "outgoing", "incoming", "recipe", "start", "end", "active"}
Ticking == {"tickEqs", "tickTail", "tickEnd", "tickDone"}

PlanState == [outgoing : Nat, incoming : Nat, quick : BOOLEAN, tail : BOOLEAN,
              start : 0..MaxFrame, end : 0..MaxFrame]

\* What arm makes of what the app asks for.
Armed == {q \in PlanState : /\ q.outgoing \in Decks /\ q.incoming \in Decks
                            /\ q.outgoing # q.incoming /\ q.start < q.end}

EqState == [Decks -> {"flat", "cut"}]

ApplyState == [pc : {"off", "start", "end", "decks", "incoming", "crossfader", "eqIn", "eqOut",
                     "tail", "flatten", "clear"},
               plan : PlanState, frame : 0..MaxFrame]
ControlState == [crossfader : -2..2, eqLow : EqState, beatFXOn : BOOLEAN]
FaderState == [state : {"idle", "armed", "running", "tail", "completed", "cancelled"},
               plan : PlanState, tailEngaged : BOOLEAN, last : 0..MaxFrame]
ArmerState == [pc : {"idle", "cancel"} \union Arming \union Ticking, p : 0..4]
FateState == [plans : SUBSET Armed, overlapped : BOOLEAN, mixed : BOOLEAN, orphaned : BOOLEAN]

TransitionTyped ==
    /\ transitionActive \in BOOLEAN /\ plan \in PlanState
    /\ crossfader \in -2..2 /\ eqLow \in EqState /\ beatFXOn \in BOOLEAN
    /\ masterFrame \in 0..MaxFrame
    /\ apply \in ApplyState /\ control \in ControlState
    /\ sf \in FaderState /\ armer \in ArmerState /\ fate \in FateState

\* A plan is applied from its start on.
Due ==
    apply.pc \notin {"off", "start", "end"} =>
        /\ apply.plan.start < apply.plan.end
        /\ apply.plan.start <= apply.frame /\ apply.frame <= masterFrame

\* Where SmartFader is, and the plan it is at.
HostKnows ==
    /\ sf.state # "idle" => sf.plan \in fate.plans /\ sf.plan.start <= sf.last
    /\ sf.state = "idle" => ~transitionActive /\ apply.pc = "off" /\ armer.pc = "idle"
    /\ armer.pc \in Arming => sf.state = "armed"
    /\ armer.pc \in Ticking => sf.state \in {"running", "tail"}
    /\ armer.pc \in {"tickEnd", "tickDone"} => armer.p = 4
    /\ armer.pc = "cancel" => sf.state = "cancelled"

\* The words of the plan that are stored already.
PlanKnows ==
    /\ armer.pc \notin {"armEqs", "outgoing"} => plan.outgoing = sf.plan.outgoing
    /\ armer.pc \notin {"armEqs", "outgoing", "incoming"} => plan.incoming = sf.plan.incoming
    /\ armer.pc \notin {"armEqs", "outgoing", "incoming", "recipe"} =>
          plan.quick = sf.plan.quick /\ plan.tail = sf.plan.tail
    /\ armer.pc \notin {"armEqs", "outgoing", "incoming", "recipe", "start"} => plan.start = sf.plan.start
    /\ armer.pc \notin Arming \ {"active"} => plan.end = sf.plan.end

\* Unless a plan was armed while the engine was at another one, what the engine
\* has loaded is of the plan in force.
EngineKnows ==
    ~fate.overlapped =>
        /\ armer.pc \in Arming => ~transitionActive /\ apply.pc = "off"
        /\ apply.pc # "off" => transitionActive \/ sf.state = "cancelled"
        /\ apply.pc \notin {"off", "start"} => apply.plan.start = plan.start
        /\ apply.pc \notin {"off", "start", "end"} => apply.plan.end = plan.end
        /\ apply.pc \notin {"off", "start", "end", "decks"} => apply.plan.outgoing = plan.outgoing
        /\ apply.pc \notin {"off", "start", "end", "decks", "incoming"} => apply.plan.incoming = plan.incoming
        /\ apply.pc \in {"eqIn", "eqOut", "tail", "flatten", "clear"} => apply.plan.quick = plan.quick
        /\ apply.pc \in {"flatten", "clear"} => P = 4

HostCrossed == (armer.pc \in Ticking /\ armer.p = 4) \/ sf.state = "completed"
EngineCrossed == IF apply.pc = "off" THEN ~transitionActive
                 ELSE apply.pc \in {"eqIn", "eqOut", "tail", "flatten", "clear"} /\ P = 4

HostFlat == armer.pc = "tickDone" \/ sf.state = "completed"
EngineFlat == IF apply.pc = "off" THEN ~transitionActive ELSE apply.pc = "clear"

FlatAt(eqs) == eqs[sf.plan.incoming] = "flat" /\ eqs[sf.plan.outgoing] = "flat"

\* Each driver leaves the mixer where the other will, once it has come that far.
Meeting ==
    ~fate.overlapped =>
        /\ HostCrossed => control.crossfader = CrossfaderAt(sf.plan, 4)
        /\ HostCrossed /\ EngineCrossed => crossfader = CrossfaderAt(sf.plan, 4)
        /\ HostFlat => FlatAt(control.eqLow)
        /\ HostFlat /\ EngineFlat => FlatAt(eqLow)

\* Who may have switched Beat FX on.
Tailing ==
    /\ sf.tailEngaged => sf.plan.tail
    /\ armer.pc \in {"tickEnd", "tickDone"} /\ sf.plan.tail => sf.tailEngaged
    /\ armer.pc \in Arming => ~sf.tailEngaged
    /\ ~fate.overlapped /\ ~fate.orphaned =>
          /\ ~sf.plan.tail => ~control.beatFXOn /\ ~beatFXOn
          /\ sf.state = "completed" => ~beatFXOn

TransitionInv == /\ TransitionTyped /\ Due /\ HostKnows /\ PlanKnows /\ EngineKnows
                 /\ Meeting /\ Tailing /\ ~fate.mixed

-----------------------------------------------------------------------------
\* Between its start and its end a plan is at a quarter, and at the fourth of
\* them from its end on.
LEMMA Quarters ==
    ASSUME NEW q \in PlanState, NEW f \in Int, q.start < q.end, q.start <= f
    PROVE  Progress(q, f) \in 0..4 /\ (Progress(q, f) = 4 <=> q.end <= f)
<1> DEFINE a == 4 * (f - q.start)
           b == q.end - q.start
<1>1. a \in Nat /\ b \in Nat \ {0}
    BY TransitionAssumption DEF PlanState
<1>2. q.end <= f <=> 4 * b <= a
    BY TransitionAssumption DEF PlanState
<1>3. Progress(q, f) = Min({a \div b, 4})
    BY DEF Progress
<1> HIDE DEF a, b
<1>4. a \div b \in Nat
    BY <1>1
<1>5. a \div b >= 4 <=> 4 * b <= a
    <2> DEFINE c == a \div b
    <2>1. c \in Nat
        BY <1>4
    <2>2. a = b * c + (a % b) /\ a % b \in 0..(b - 1)
        BY <1>1
    <2> HIDE DEF c
    <2>3. CASE c >= 4
        <3>1. b * c >= b * 4
            BY <1>1, <2>1, <2>3
        <3> QED BY <1>1, <2>1, <2>2, <2>3, <3>1 DEF c
    <2>4. CASE c <= 3
        <3>1. b * c <= b * 3
            BY <1>1, <2>1, <2>4
        <3> QED BY <1>1, <2>1, <2>2, <2>4, <3>1 DEF c
    <2> QED BY <2>1, <2>3, <2>4 DEF c
<1>6. Min({a \div b, 4}) = IF a \div b <= 4 THEN a \div b ELSE 4
    BY <1>4, MinOfTwo
<1> QED BY <1>2, <1>3, <1>4, <1>5, <1>6

\* The quarter depends on two fields of the plan only.
LEMMA SameQuarter ==
    ASSUME NEW q, NEW r, NEW f, q.start = r.start, q.end = r.end
    PROVE  Progress(q, f) = Progress(r, f)
BY DEF Progress

\* The two controls at a quarter.
LEMMA CurveTypes ==
    ASSUME NEW q \in PlanState, NEW p \in 0..4
    PROVE  /\ CrossfaderAt(q, p) \in -2..2
           /\ IncomingAt(q, p) \in {"flat", "cut"} /\ OutgoingAt(p) \in {"flat", "cut"}
           /\ TailAt(q, p) \in BOOLEAN /\ (TailAt(q, p) => q.tail)
BY DEF PlanState, CrossfaderAt, IncomingAt, OutgoingAt, TailAt

\* The locals of a render thread that applies no plan.
LEMMA NothingApplied == NotApplying \in ApplyState
<1>1. NoPlan \in PlanState
    BY TransitionAssumption DEF NoPlan, PlanState
<1> QED BY <1>1, TransitionAssumption DEF NotApplying, ApplyState

\* A new engine has no plan.
LEMMA TransitionStarts == Init => TransitionInv
<1> SUFFICES ASSUME Init PROVE TransitionInv
    OBVIOUS
<1> USE TransitionAssumption DEF Init, TransitionInit
<1>1. NoPlan \in PlanState /\ Flat \in EqState
    BY DEF NoPlan, PlanState, Flat, EqState
<1>2. TransitionTyped
    <2>1. apply \in ApplyState /\ armer \in ArmerState
        BY <1>1 DEF ApplyState, ArmerState, NotApplying, NotArming
    <2>2. control \in ControlState /\ sf \in FaderState /\ fate \in FateState
        BY <1>1 DEF ControlState, FaderState, FateState
    <2>3. crossfader \in -2..2 /\ masterFrame \in 0..MaxFrame /\ transitionActive \in BOOLEAN
          /\ beatFXOn \in BOOLEAN
        <3>1. crossfader = 0 /\ masterFrame = 0 /\ transitionActive = FALSE /\ beatFXOn = FALSE
            OBVIOUS
        <3>2. transitionActive \in BOOLEAN /\ beatFXOn \in BOOLEAN
            BY ONLY <3>1, Zenon
        <3>3. crossfader \in -2..2 /\ masterFrame \in 0..MaxFrame
            BY ONLY <3>1, TransitionAssumption
        <3> QED BY <3>2, <3>3
    <2>4. plan \in PlanState /\ eqLow \in EqState
        BY <1>1
    <2> QED BY ONLY <2>1, <2>2, <2>3, <2>4 DEF TransitionTyped
<1>3. Due /\ HostKnows /\ EngineKnows
    BY DEF Due, HostKnows, EngineKnows, NotApplying, NotArming, Arming, Ticking
<1>4. PlanKnows
    BY DEF PlanKnows
<1>5. Meeting
    BY DEF Meeting, HostCrossed, HostFlat, NotArming, Ticking
<1>6. Tailing
    BY DEF Tailing, NotArming, Arming
<1> QED BY <1>2, <1>3, <1>4, <1>5, <1>6 DEF TransitionInv

\* P of the plan being applied.
LEMMA EngineQuarter ==
    ASSUME TransitionTyped, Due, apply.pc \notin {"off", "start", "end"}
    PROVE  P \in 0..4 /\ (P = 4 <=> apply.plan.end <= apply.frame)
<1>1. apply.plan \in PlanState /\ apply.frame \in Int
    BY TransitionAssumption DEF TransitionTyped, ApplyState
<1> QED BY <1>1, Quarters DEF Due, P

\* While the engine is at the plan in force, nothing of it is about to change.
LEMMA PlanInForce ==
    ASSUME TransitionInv, ~fate.overlapped, apply.pc # "off"
    PROVE  /\ sf.plan \in fate.plans /\ sf.plan \in Armed
           /\ plan.outgoing = sf.plan.outgoing /\ plan.incoming = sf.plan.incoming
           /\ plan.quick = sf.plan.quick /\ plan.tail = sf.plan.tail
           /\ plan.start = sf.plan.start /\ plan.end = sf.plan.end
           /\ armer.pc \notin Arming
           /\ transitionActive \/ (sf.state = "cancelled" /\ ~HostCrossed /\ ~HostFlat)
<1>1. armer.pc \notin Arming /\ (transitionActive \/ sf.state = "cancelled")
    BY DEF TransitionInv, EngineKnows
<1>2. sf.plan \in fate.plans
    BY DEF TransitionInv, HostKnows
<1>3. sf.plan \in Armed
    BY <1>2 DEF TransitionInv, TransitionTyped, FateState
<1>4. sf.state = "cancelled" => ~HostCrossed /\ ~HostFlat
    BY DEF TransitionInv, HostKnows, HostCrossed, HostFlat, Ticking
<1> QED BY <1>1, <1>2, <1>3, <1>4 DEF TransitionInv, PlanKnows, Arming

\* A step of applyScheduledTransition.
LEMMA EngineKeeps ==
    ASSUME TransitionInv, ApplyTransition
    PROVE  TransitionInv'
<1> USE TransitionAssumption
<1>1. UNCHANGED <<plan, masterFrame, control, sf, armer>>
    BY DEF ApplyTransition
<1>2. /\ TransitionTyped /\ Due /\ HostKnows /\ PlanKnows /\ EngineKnows
      /\ Meeting /\ Tailing /\ ~fate.mixed
    BY DEF TransitionInv
<1>3. PlanKnows'
    BY <1>1, <1>2 DEF PlanKnows
<1>4. CASE LoadActive
    <2>1. /\ apply.pc = "off" /\ UNCHANGED <<transitionActive, crossfader, eqLow, beatFXOn, fate>>
          /\ apply' = IF transitionActive THEN [apply EXCEPT !.pc = "start"] ELSE apply
        BY <1>4 DEF LoadActive, Goto, EngineControls
    <2>2. TransitionTyped'
        BY <1>1, <1>2, <2>1 DEF TransitionTyped, ApplyState
    <2>3. Due' /\ HostKnows' /\ EngineKnows'
        BY <1>1, <1>2, <2>1 DEF TransitionTyped, ApplyState, Due, HostKnows, EngineKnows
    <2>4. Meeting'
        BY <1>1, <1>2, <2>1 DEF TransitionTyped, ApplyState, Meeting, HostCrossed, HostFlat, EngineCrossed, EngineFlat, FlatAt
    <2>5. Tailing' /\ ~fate'.mixed
        BY <1>1, <1>2, <2>1 DEF Tailing
    <2> QED BY <1>3, <2>2, <2>3, <2>4, <2>5 DEF TransitionInv
<1>5. CASE LoadStart
    <2>1. /\ apply.pc = "start" /\ UNCHANGED <<transitionActive, crossfader, eqLow, beatFXOn, fate>>
          /\ apply' = [apply EXCEPT !.pc = "end", !.plan.start = plan.start]
        BY <1>5 DEF LoadStart, EngineControls
    <2>2. TransitionTyped'
        <3>1. apply.plan \in PlanState /\ [apply.plan EXCEPT !.start = plan.start] \in PlanState
            BY <1>2 DEF TransitionTyped, ApplyState, PlanState
        <3>2. apply' \in ApplyState
            BY <1>2, <2>1, <3>1 DEF TransitionTyped, ApplyState
        <3> QED BY <1>1, <1>2, <2>1, <3>2 DEF TransitionTyped
    <2>3. Due' /\ HostKnows' /\ EngineKnows'
        BY <1>1, <1>2, <2>1 DEF TransitionTyped, ApplyState, Due, HostKnows, EngineKnows, PlanState
    <2>4. Meeting'
        BY <1>1, <1>2, <2>1 DEF TransitionTyped, ApplyState, Meeting, HostCrossed, HostFlat, EngineCrossed, EngineFlat, FlatAt
    <2>5. Tailing' /\ ~fate'.mixed
        BY <1>1, <1>2, <2>1 DEF Tailing
    <2> QED BY <1>3, <2>2, <2>3, <2>4, <2>5 DEF TransitionInv
<1>6. CASE LoadEnd
    <2>1. /\ apply.pc = "end" /\ UNCHANGED <<transitionActive, crossfader, eqLow, beatFXOn, fate>>
        BY <1>6 DEF LoadEnd, EngineControls
    <2>2. Tailing' /\ ~fate'.mixed
        BY <1>1, <1>2, <2>1 DEF Tailing
    <2>3. CASE apply' = NotApplying
        <3>1. TransitionTyped'
            BY <1>1, <1>2, <2>1, <2>3, NothingApplied DEF TransitionTyped
        <3>2. Due' /\ HostKnows' /\ EngineKnows'
            BY <1>1, <1>2, <2>1, <2>3 DEF TransitionTyped, ApplyState, Due, HostKnows, EngineKnows, NotApplying
        <3>3. Meeting'
            <4>1. apply'.pc = "off"
                BY <2>3 DEF NotApplying
            <4>2. ~fate.overlapped => transitionActive \/ sf.state = "cancelled"
                BY <1>2, <2>1 DEF EngineKnows
            <4>3. sf.state = "cancelled" => ~HostCrossed /\ ~HostFlat
                BY <1>2 DEF HostKnows, HostCrossed, HostFlat, Ticking
            <4> QED BY <1>1, <1>2, <2>1, <4>1, <4>2, <4>3
                    DEF Meeting, HostCrossed, HostFlat, EngineCrossed, EngineFlat, FlatAt
        <3> QED BY <1>3, <2>2, <3>1, <3>2, <3>3 DEF TransitionInv
    <2>4. CASE apply' # NotApplying
        <3>1. /\ apply' = [apply EXCEPT !.pc = "decks", !.plan.end = plan.end, !.frame = masterFrame]
              /\ ~(plan.end <= apply.plan.start \/ masterFrame < apply.plan.start)
            BY <1>6, <2>4 DEF LoadEnd
        <3>2. TransitionTyped'
            <4>1. apply.plan \in PlanState /\ [apply.plan EXCEPT !.end = plan.end] \in PlanState
                BY <1>2 DEF TransitionTyped, ApplyState, PlanState
            <4>2. apply' \in ApplyState
                BY <1>2, <3>1, <4>1 DEF TransitionTyped, ApplyState
            <4> QED BY <1>1, <1>2, <2>1, <4>2 DEF TransitionTyped
        <3>3. Due' /\ HostKnows' /\ EngineKnows'
            BY <1>1, <1>2, <2>1, <3>1 DEF TransitionTyped, ApplyState, Due, HostKnows, EngineKnows, PlanState
        <3>4. Meeting'
            BY <1>1, <1>2, <2>1, <3>1 DEF TransitionTyped, ApplyState, Meeting, HostCrossed, HostFlat, EngineCrossed, EngineFlat, FlatAt
        <3> QED BY <1>3, <2>2, <3>2, <3>3, <3>4 DEF TransitionInv
    <2> QED BY <2>3, <2>4
<1>7. CASE LoadOutgoing
    <2>1. /\ apply.pc = "decks" /\ UNCHANGED <<transitionActive, crossfader, eqLow, beatFXOn, fate>>
          /\ apply' = [apply EXCEPT !.pc = "incoming", !.plan.outgoing = plan.outgoing]
        BY <1>7 DEF LoadOutgoing, EngineControls
    <2>2. TransitionTyped'
        <3>1. apply.plan \in PlanState /\ [apply.plan EXCEPT !.outgoing = plan.outgoing] \in PlanState
            BY <1>2 DEF TransitionTyped, ApplyState, PlanState
        <3>2. apply' \in ApplyState
            BY <1>2, <2>1, <3>1 DEF TransitionTyped, ApplyState
        <3> QED BY <1>1, <1>2, <2>1, <3>2 DEF TransitionTyped
    <2>3. Due' /\ HostKnows' /\ EngineKnows'
        BY <1>1, <1>2, <2>1 DEF TransitionTyped, ApplyState, Due, HostKnows, EngineKnows, PlanState
    <2>4. Meeting'
        BY <1>1, <1>2, <2>1 DEF TransitionTyped, ApplyState, Meeting, HostCrossed, HostFlat, EngineCrossed, EngineFlat, FlatAt
    <2>5. Tailing' /\ ~fate'.mixed
        BY <1>1, <1>2, <2>1 DEF Tailing
    <2> QED BY <1>3, <2>2, <2>3, <2>4, <2>5 DEF TransitionInv
<1>8. CASE LoadIncoming
    <2>1. apply.pc = "incoming" /\ UNCHANGED <<crossfader, eqLow, beatFXOn, fate>>
        BY <1>8 DEF LoadIncoming, EngineControls
    <2>2. Tailing' /\ ~fate'.mixed
        BY <1>1, <1>2, <2>1 DEF Tailing
    <2>3. CASE plan.incoming = apply.plan.outgoing
        <3>1. transitionActive' = FALSE /\ apply' = NotApplying
            BY <1>8, <2>3 DEF LoadIncoming
        <3>2. fate.overlapped
            <4>1. SUFFICES ASSUME ~fate.overlapped PROVE FALSE
                OBVIOUS
            <4>2. apply.plan.outgoing = plan.outgoing
                BY <1>2, <2>1, <4>1 DEF EngineKnows
            <4> QED BY <2>1, <2>3, <4>1, <4>2, PlanInForce DEF Armed
        <3>3. TransitionTyped'
            BY <1>1, <1>2, <2>1, <3>1, NothingApplied DEF TransitionTyped
        <3>4. Due' /\ HostKnows'
            BY <1>1, <1>2, <2>1, <3>1 DEF TransitionTyped, ApplyState, Due, HostKnows, NotApplying
        <3>5. EngineKnows' /\ Meeting'
            BY <2>1, <3>2 DEF EngineKnows, Meeting
        <3> QED BY <1>3, <2>2, <3>3, <3>4, <3>5 DEF TransitionInv
    <2>4. CASE plan.incoming # apply.plan.outgoing
        <3>1. /\ transitionActive' = transitionActive
              /\ apply' = [apply EXCEPT !.pc = "crossfader", !.plan.incoming = plan.incoming]
            BY <1>8, <2>4 DEF LoadIncoming
        <3>2. TransitionTyped'
            <4>1. apply.plan \in PlanState /\ [apply.plan EXCEPT !.incoming = plan.incoming] \in PlanState
                BY <1>2 DEF TransitionTyped, ApplyState, PlanState
            <4>2. apply' \in ApplyState
                BY <1>2, <3>1, <4>1 DEF TransitionTyped, ApplyState
            <4> QED BY <1>1, <1>2, <2>1, <3>1, <4>2 DEF TransitionTyped
        <3>3. Due' /\ HostKnows' /\ EngineKnows'
            BY <1>1, <1>2, <2>1, <3>1 DEF TransitionTyped, ApplyState, Due, HostKnows, EngineKnows, PlanState
        <3>4. Meeting'
            BY <1>1, <1>2, <2>1, <3>1 DEF TransitionTyped, ApplyState, Meeting, HostCrossed, HostFlat, EngineCrossed, EngineFlat, FlatAt
        <3> QED BY <1>3, <2>2, <3>2, <3>3, <3>4 DEF TransitionInv
    <2> QED BY <2>3, <2>4
<1>9. CASE StoreCrossfader
    <2>1. /\ apply.pc = "crossfader" /\ UNCHANGED <<transitionActive, eqLow, beatFXOn, fate>>
          /\ crossfader' = CrossfaderAt(apply.plan, P)
          /\ apply' = [apply EXCEPT !.pc = "eqIn", !.plan.quick = plan.quick]
        BY <1>9 DEF StoreCrossfader
    <2>2. P \in 0..4 /\ P' = P /\ apply.plan \in PlanState
        BY <1>2, <2>1, EngineQuarter DEF P, Progress, TransitionTyped, ApplyState, PlanState
    <2>3. TransitionTyped'
        <3>1. [apply.plan EXCEPT !.quick = plan.quick] \in PlanState
            BY <1>2, <2>2 DEF TransitionTyped, PlanState
        <3>2. apply' \in ApplyState
            BY <1>2, <2>1, <3>1 DEF TransitionTyped, ApplyState
        <3>3. crossfader' \in -2..2
            BY <2>1, <2>2, CurveTypes
        <3> QED BY <1>1, <1>2, <2>1, <3>2, <3>3 DEF TransitionTyped
    <2>4. Due' /\ HostKnows' /\ EngineKnows'
        BY <1>1, <1>2, <2>1 DEF TransitionTyped, ApplyState, Due, HostKnows, EngineKnows, PlanState
    <2>5. Meeting'
        <3>1. SUFFICES ASSUME ~fate.overlapped PROVE Meeting'
            BY <2>1 DEF Meeting
        <3>2. CrossfaderAt(apply.plan, 4) = CrossfaderAt(sf.plan, 4)
            BY <1>2, <2>1, <3>1, PlanInForce DEF EngineKnows, CrossfaderAt
        <3>3. EngineCrossed' => crossfader' = CrossfaderAt(sf.plan, 4)
            BY <1>2, <2>1, <2>2, <3>2 DEF EngineCrossed, TransitionTyped, ApplyState
        <3>4. ~EngineFlat' /\ HostCrossed' = HostCrossed /\ HostFlat' = HostFlat
            BY <1>1, <1>2, <2>1 DEF EngineFlat, TransitionTyped, ApplyState, HostCrossed, HostFlat
        <3> QED BY <1>1, <1>2, <2>1, <3>1, <3>3, <3>4 DEF Meeting, FlatAt
    <2>6. Tailing' /\ ~fate'.mixed
        BY <1>1, <1>2, <2>1 DEF Tailing
    <2> QED BY <1>3, <2>3, <2>4, <2>5, <2>6 DEF TransitionInv
<1>10. CASE StoreIncoming
    <2>1. /\ apply.pc = "eqIn" /\ UNCHANGED <<transitionActive, crossfader, beatFXOn, fate>>
          /\ eqLow' = [eqLow EXCEPT ![apply.plan.incoming] = IncomingAt(apply.plan, P)]
          /\ apply' = [apply EXCEPT !.pc = "eqOut"]
        BY <1>10 DEF StoreIncoming, Goto
    <2>2. P \in 0..4 /\ P' = P /\ apply.plan \in PlanState
        BY <1>2, <2>1, EngineQuarter DEF P, Progress, TransitionTyped, ApplyState, PlanState
    <2>3. TransitionTyped'
        <3>1. apply' \in ApplyState
            BY <1>2, <2>1 DEF TransitionTyped, ApplyState
        <3>2. eqLow' \in EqState
            BY <1>2, <2>1, <2>2, CurveTypes DEF TransitionTyped, EqState
        <3> QED BY <1>1, <1>2, <2>1, <3>1, <3>2 DEF TransitionTyped
    <2>4. Due' /\ HostKnows' /\ EngineKnows'
        BY <1>1, <1>2, <2>1 DEF TransitionTyped, ApplyState, Due, HostKnows, EngineKnows, PlanState
    <2>5. Meeting'
        <3>1. ~EngineFlat' /\ EngineCrossed' = EngineCrossed
            BY <1>2, <2>1, <2>2 DEF EngineFlat, EngineCrossed, TransitionTyped, ApplyState
        <3> QED BY <1>1, <1>2, <2>1, <3>1 DEF Meeting, HostCrossed, HostFlat, FlatAt
    <2>6. Tailing' /\ ~fate'.mixed
        BY <1>1, <1>2, <2>1 DEF Tailing
    <2> QED BY <1>3, <2>3, <2>4, <2>5, <2>6 DEF TransitionInv
<1>11. CASE StoreOutgoing
    <2>1. /\ apply.pc = "eqOut" /\ UNCHANGED <<transitionActive, crossfader, beatFXOn, fate>>
          /\ eqLow' = [eqLow EXCEPT ![apply.plan.outgoing] = OutgoingAt(P)]
          /\ apply' = [apply EXCEPT !.pc = "tail"]
        BY <1>11 DEF StoreOutgoing, Goto
    <2>2. P \in 0..4 /\ P' = P /\ apply.plan \in PlanState
        BY <1>2, <2>1, EngineQuarter DEF P, Progress, TransitionTyped, ApplyState, PlanState
    <2>3. TransitionTyped'
        <3>1. apply' \in ApplyState
            BY <1>2, <2>1 DEF TransitionTyped, ApplyState
        <3>2. eqLow' \in EqState
            BY <1>2, <2>1, <2>2, CurveTypes DEF TransitionTyped, EqState
        <3> QED BY <1>1, <1>2, <2>1, <3>1, <3>2 DEF TransitionTyped
    <2>4. Due' /\ HostKnows' /\ EngineKnows'
        BY <1>1, <1>2, <2>1 DEF TransitionTyped, ApplyState, Due, HostKnows, EngineKnows, PlanState
    <2>5. Meeting'
        <3>1. ~EngineFlat' /\ EngineCrossed' = EngineCrossed
            BY <1>2, <2>1, <2>2 DEF EngineFlat, EngineCrossed, TransitionTyped, ApplyState
        <3> QED BY <1>1, <1>2, <2>1, <3>1 DEF Meeting, HostCrossed, HostFlat, FlatAt
    <2>6. Tailing' /\ ~fate'.mixed
        BY <1>1, <1>2, <2>1 DEF Tailing
    <2> QED BY <1>3, <2>3, <2>4, <2>5, <2>6 DEF TransitionInv
<1>12. CASE StoreTail
    <2> DEFINE q == [apply.plan EXCEPT !.tail = plan.tail]
               on == TailAt(q, P)
    <2>1. /\ apply.pc = "tail" /\ UNCHANGED <<transitionActive, crossfader, eqLow>>
          /\ beatFXOn' = (beatFXOn \/ on)
          /\ apply' = IF AtEnd THEN [apply EXCEPT !.pc = "flatten", !.plan = q] ELSE NotApplying
          /\ fate' = [fate EXCEPT !.mixed = @ \/ (~fate.overlapped /\ q \notin fate.plans),
                                  !.orphaned = @ \/ (on /\ ~Engaged)]
        BY <1>12 DEF StoreTail
    <2>2. P \in 0..4 /\ apply.plan \in PlanState /\ q \in PlanState
        BY <1>2, <2>1, EngineQuarter DEF TransitionTyped, ApplyState, PlanState
    <2>3. on \in BOOLEAN /\ (on => q.tail)
        BY <2>2, CurveTypes
    <2>4. ~fate.overlapped => q = sf.plan /\ q \in fate.plans
        <3>1. SUFFICES ASSUME ~fate.overlapped PROVE q = sf.plan /\ q \in fate.plans
            OBVIOUS
        <3>2. /\ q.outgoing = plan.outgoing /\ q.incoming = plan.incoming /\ q.quick = plan.quick
              /\ q.tail = plan.tail /\ q.start = plan.start /\ q.end = plan.end
            BY <1>2, <2>1, <2>2, <3>1 DEF EngineKnows, PlanState
        <3>3. sf.plan \in PlanState
            BY <1>2 DEF TransitionTyped, FaderState
        <3>4. /\ q.outgoing = sf.plan.outgoing /\ q.incoming = sf.plan.incoming /\ q.quick = sf.plan.quick
              /\ q.tail = sf.plan.tail /\ q.start = sf.plan.start /\ q.end = sf.plan.end
            BY <2>1, <3>1, <3>2, PlanInForce
        <3>5. q = sf.plan
            BY <2>2, <3>3, <3>4 DEF PlanState
        <3> QED BY <2>1, <3>1, <3>5, PlanInForce
    <2> HIDE DEF q, on
    <2>5. /\ fate'.overlapped = fate.overlapped /\ fate'.plans = fate.plans
          /\ fate'.mixed = FALSE /\ fate'.orphaned = (fate.orphaned \/ (on /\ ~Engaged))
          /\ fate' \in FateState
        BY <1>2, <2>1, <2>3, <2>4 DEF TransitionTyped, FateState, Engaged
    <2>6. TransitionTyped'
        <3>1. apply' \in ApplyState
            BY <1>2, <2>1, <2>2, NothingApplied DEF TransitionTyped, ApplyState
        <3> QED BY <1>1, <1>2, <2>1, <2>3, <2>5, <3>1 DEF TransitionTyped
    <2>7. HostKnows'
        BY <1>1, <1>2, <2>1, <2>5 DEF HostKnows
    <2>8. Tailing'
        <3>1. sf.state = "completed" => ~Engaged
            BY DEF Engaged
        <3> QED BY <1>1, <1>2, <2>1, <2>3, <2>4, <2>5, <3>1 DEF Tailing
    <2>9. CASE AtEnd
        <3>1. apply' = [apply EXCEPT !.pc = "flatten", !.plan = q] /\ P = 4
            BY <2>1, <2>9 DEF AtEnd
        <3>2. /\ apply'.pc = "flatten" /\ apply'.frame = apply.frame
              /\ apply'.plan.start = apply.plan.start /\ apply'.plan.end = apply.plan.end
              /\ apply'.plan.outgoing = apply.plan.outgoing /\ apply'.plan.incoming = apply.plan.incoming
              /\ apply'.plan.quick = apply.plan.quick
            BY <1>2, <2>2, <3>1 DEF q, TransitionTyped, ApplyState, PlanState
        <3>3. P' = 4
            BY <3>1, <3>2 DEF P, Progress
        <3>4. Due' /\ EngineKnows'
            <4>1. Due'
                BY <1>1, <1>2, <2>1, <3>2 DEF Due
            <4>2. EngineKnows'
                BY <1>1, <1>2, <2>1, <2>5, <3>2, <3>3, Zenon DEF EngineKnows
            <4> QED BY <4>1, <4>2
        <3>5. Meeting'
            BY <1>1, <1>2, <2>1, <2>5, <3>1, <3>2, <3>3
               DEF Meeting, HostCrossed, HostFlat, EngineCrossed, EngineFlat, FlatAt
        <3> QED BY <1>3, <2>5, <2>6, <2>7, <2>8, <3>4, <3>5 DEF TransitionInv
    <2>10. CASE ~AtEnd
        <3>1. apply' = NotApplying
            BY <2>1, <2>10
        <3>2. Due' /\ EngineKnows'
            <4>1. apply'.pc = "off" /\ apply'.frame = 0
                BY <3>1 DEF NotApplying
            <4>2. Due'
                BY <1>1, <1>2, <4>1 DEF TransitionTyped, Due
            <4>3. EngineKnows'
                BY <1>1, <1>2, <2>1, <2>5, <4>1, Zenon DEF EngineKnows
            <4> QED BY <4>2, <4>3
        <3>3. Meeting'
            <4>1. SUFFICES ASSUME ~fate.overlapped PROVE Meeting'
                BY <2>5 DEF Meeting
            <4>2. apply'.pc = "off"
                BY <3>1 DEF NotApplying
            <4>3. transitionActive \/ (~HostCrossed /\ ~HostFlat)
                BY <2>1, <4>1, PlanInForce
            <4> QED BY <1>1, <1>2, <2>1, <4>1, <4>2, <4>3
                    DEF Meeting, HostCrossed, HostFlat, EngineCrossed, EngineFlat, FlatAt
        <3> QED BY <1>3, <2>5, <2>6, <2>7, <2>8, <3>2, <3>3 DEF TransitionInv
    <2> QED BY <2>9, <2>10
<1>13. CASE Flatten
    <2>1. /\ apply.pc = "flatten" /\ UNCHANGED <<transitionActive, crossfader, beatFXOn, fate>>
          /\ apply' = [apply EXCEPT !.pc = "clear"]
          /\ eqLow' = [eqLow EXCEPT ![apply.plan.incoming] = "flat", ![apply.plan.outgoing] = "flat"]
        BY <1>13 DEF Flatten, Goto
    <2>2. P' = P
        BY <1>2, <2>1 DEF P, Progress, TransitionTyped, ApplyState
    <2>3. TransitionTyped'
        <3>1. apply' \in ApplyState
            BY <1>2, <2>1 DEF TransitionTyped, ApplyState
        <3>2. eqLow' \in EqState
            BY <1>2, <2>1 DEF TransitionTyped, EqState
        <3> QED BY <1>1, <1>2, <2>1, <3>1, <3>2 DEF TransitionTyped
    <2>4. Due' /\ HostKnows' /\ EngineKnows'
        BY <1>1, <1>2, <2>1, <2>2 DEF TransitionTyped, ApplyState, Due, HostKnows, EngineKnows
    <2>5. Meeting'
        <3>1. SUFFICES ASSUME ~fate.overlapped PROVE Meeting'
            BY <2>1 DEF Meeting
        <3>2. apply.plan.incoming = sf.plan.incoming /\ apply.plan.outgoing = sf.plan.outgoing
            BY <1>2, <2>1, <3>1, PlanInForce DEF EngineKnows
        <3>3. sf.plan.incoming \in Decks /\ sf.plan.outgoing \in Decks
            BY <2>1, <3>1, PlanInForce DEF Armed
        <3>4. FlatAt(eqLow')
            BY <1>2, <2>1, <3>2, <3>3 DEF TransitionTyped, EqState, FlatAt
        <3>5. EngineCrossed' = EngineCrossed
            BY <1>2, <2>1, <2>2 DEF EngineCrossed, TransitionTyped, ApplyState
        <3> QED BY <1>1, <1>2, <2>1, <3>1, <3>4, <3>5 DEF Meeting, HostCrossed, HostFlat, FlatAt
    <2>6. Tailing' /\ ~fate'.mixed
        BY <1>1, <1>2, <2>1 DEF Tailing
    <2> QED BY <1>3, <2>3, <2>4, <2>5, <2>6 DEF TransitionInv
<1>14. CASE ClearActive
    <2>1. /\ apply.pc = "clear" /\ UNCHANGED <<crossfader, eqLow, beatFXOn, fate>>
          /\ transitionActive' = FALSE /\ apply' = NotApplying
        BY <1>14 DEF ClearActive, EngineControls
    <2>2. TransitionTyped'
        BY <1>1, <1>2, <2>1, NothingApplied DEF TransitionTyped
    <2>3. Due' /\ HostKnows' /\ EngineKnows'
        BY <1>1, <1>2, <2>1 DEF TransitionTyped, Due, HostKnows, EngineKnows, NotApplying
    <2>4. Meeting'
        <3>1. ~fate.overlapped => EngineCrossed /\ EngineFlat
            BY <1>2, <2>1 DEF EngineKnows, EngineCrossed, EngineFlat
        <3> QED BY <1>1, <1>2, <2>1, <3>1 DEF Meeting, HostCrossed, HostFlat, FlatAt
    <2>5. Tailing' /\ ~fate'.mixed
        BY <1>1, <1>2, <2>1 DEF Tailing
    <2> QED BY <1>3, <2>2, <2>3, <2>4, <2>5 DEF TransitionInv
<1> QED BY <1>4, <1>5, <1>6, <1>7, <1>8, <1>9, <1>10, <1>11, <1>12, <1>13, <1>14 DEF ApplyTransition

\* The plan SmartFader is at, once it is at one.
LEMMA FaderPlan ==
    ASSUME TransitionInv, sf.state # "idle"
    PROVE  /\ sf.plan \in fate.plans /\ sf.plan \in Armed /\ sf.plan \in PlanState
           /\ sf.plan.incoming \in Decks /\ sf.plan.outgoing \in Decks
<1>1. sf.plan \in fate.plans
    BY DEF TransitionInv, HostKnows
<1>2. sf.plan \in Armed
    BY <1>1 DEF TransitionInv, TransitionTyped, FateState
<1> QED BY <1>1, <1>2 DEF Armed

\* What the host publishes is what the engine has then.
LEMMA Published ==
    ASSUME NEW c \in ControlState, Publish(c)
    PROVE  /\ control' = c /\ control' \in ControlState
           /\ crossfader' = control'.crossfader /\ eqLow' = control'.eqLow /\ beatFXOn' = control'.beatFXOn
           /\ crossfader' \in -2..2 /\ eqLow' \in EqState /\ beatFXOn' \in BOOLEAN
BY DEF Publish, ControlState

\* Two EQs of a structure are changed at once.
LEMMA EqCurve ==
    ASSUME NEW eqs \in EqState, NEW q, NEW a \in {"flat", "cut"}, NEW b \in {"flat", "cut"}
    PROVE  [eqs EXCEPT ![q.incoming] = a, ![q.outgoing] = b] \in EqState
BY DEF EqState

\* One store of a plan over another.
LEMMA PlanStored ==
    ASSUME NEW q \in PlanState, NEW r \in PlanState
    PROVE  /\ [q EXCEPT !.outgoing = r.outgoing] \in PlanState
           /\ [q EXCEPT !.incoming = r.incoming] \in PlanState
           /\ [q EXCEPT !.quick = r.quick, !.tail = r.tail] \in PlanState
           /\ [q EXCEPT !.start = r.start] \in PlanState
           /\ [q EXCEPT !.end = r.end] \in PlanState
BY DEF PlanState

\* arm.
LEMMA ArmKeeps ==
    ASSUME TransitionInv, HostTransition, arm
    PROVE  TransitionInv'
<1> USE TransitionAssumption
<1>1. /\ TransitionTyped /\ Due /\ HostKnows /\ PlanKnows /\ EngineKnows
      /\ Meeting /\ Tailing /\ ~fate.mixed
    BY DEF TransitionInv
<1>2. PICK q \in Plans, start \in masterFrame..(masterFrame + 1) :
          /\ start + q.frames <= MaxFrame
          /\ LET new == [outgoing |-> q.outgoing, incoming |-> q.incoming, quick |-> q.quick,
                         tail |-> q.tail, start |-> start, end |-> start + q.frames]
             IN  /\ sf' = [state |-> "armed", plan |-> new, tailEngaged |-> FALSE, last |-> start]
                 /\ Publish([control EXCEPT !.crossfader = CrossfaderAt(new, 0)])
                 /\ fate' = [plans |-> fate.plans \union {new}, mixed |-> fate.mixed, orphaned |-> control.beatFXOn,
                             overlapped |-> transitionActive \/ apply.pc # "off"]
    BY DEF arm
<1> DEFINE new == [outgoing |-> q.outgoing, incoming |-> q.incoming, quick |-> q.quick,
                   tail |-> q.tail, start |-> start, end |-> start + q.frames]
           c == [control EXCEPT !.crossfader = CrossfaderAt(new, 0)]
<1>3. /\ sf' = [state |-> "armed", plan |-> new, tailEngaged |-> FALSE, last |-> start]
      /\ Publish(c)
      /\ fate' = [plans |-> fate.plans \union {new}, mixed |-> fate.mixed, orphaned |-> control.beatFXOn,
                  overlapped |-> transitionActive \/ apply.pc # "off"]
    BY <1>2
<1>4. new \in PlanState /\ new \in Armed /\ start \in 0..MaxFrame /\ new.start = start
    <2>1. masterFrame \in Nat /\ q.frames \in 1..MaxFrame /\ q.quick \in BOOLEAN /\ q.tail \in BOOLEAN
          /\ q.outgoing \in Decks /\ q.incoming \in Decks /\ q.outgoing # q.incoming
        BY <1>1 DEF TransitionTyped
    <2>2. start \in Nat /\ start + q.frames \in 0..MaxFrame /\ start < start + q.frames
        BY <1>2, <2>1
    <2>3. new \in PlanState
        <3>1. q.outgoing \in Nat /\ q.incoming \in Nat
            BY <2>1
        <3>2. start \in 0..MaxFrame
            <4>1. MaxFrame \in Nat /\ q.frames \in Int
                BY <2>1
            <4> QED BY ONLY <2>2, <4>1
        <3> QED BY ONLY <2>1, <2>2, <3>1, <3>2 DEF PlanState
    <2> QED BY <2>1, <2>2, <2>3 DEF Armed
<1>5. /\ armer.pc = "idle" /\ armer' = [armer EXCEPT !.pc = "armEqs"]
      /\ UNCHANGED <<transitionActive, plan, masterFrame, apply>>
    BY DEF arm, At, HostTransition
<1> HIDE DEF new
<1>6. c \in ControlState /\ c.beatFXOn = control.beatFXOn
    <2>1. CrossfaderAt(new, 0) \in -2..2
        BY <1>4, CurveTypes
    <2> QED BY <1>1, <2>1 DEF TransitionTyped, ControlState
<1> HIDE DEF c
<1>7. /\ control' \in ControlState /\ control'.beatFXOn = control.beatFXOn /\ beatFXOn' = control.beatFXOn
      /\ crossfader' \in -2..2 /\ eqLow' \in EqState /\ beatFXOn' \in BOOLEAN
    BY <1>3, <1>6, Published
<1>8. armer' \in ArmerState /\ armer'.pc = "armEqs"
    BY <1>1, <1>5 DEF TransitionTyped, ArmerState, Arming
<1>9. /\ sf' \in FaderState /\ sf'.state = "armed" /\ sf'.plan = new /\ sf'.last = new.start
      /\ sf'.tailEngaged = FALSE
    BY <1>3, <1>4 DEF FaderState
<1>10. /\ fate' \in FateState /\ fate'.plans = fate.plans \union {new} /\ ~fate'.mixed
       /\ fate'.orphaned = control.beatFXOn /\ fate'.overlapped = (transitionActive \/ apply.pc # "off")
    BY <1>1, <1>3, <1>4 DEF TransitionTyped, FateState, ControlState
<1>11. TransitionTyped'
    BY <1>1, <1>5, <1>7, <1>8, <1>9, <1>10 DEF TransitionTyped
<1>12. Due' /\ PlanKnows'
    BY <1>1, <1>5, <1>8 DEF Due, PlanKnows, Arming
<1>13. HostKnows'
    BY <1>4, <1>8, <1>9, <1>10 DEF HostKnows, Arming, Ticking, PlanState
<1>14. EngineKnows'
    BY <1>5, <1>10 DEF EngineKnows
<1>15. Meeting'
    BY <1>8, <1>9 DEF Meeting, HostCrossed, HostFlat, Ticking
<1>16. Tailing'
    BY <1>7, <1>8, <1>9, <1>10 DEF Tailing
<1> QED BY <1>10, <1>11, <1>12, <1>13, <1>14, <1>15, <1>16 DEF TransitionInv

\* The second publication of arm, and pe_schedule_transition.
LEMMA ArmingKeeps ==
    ASSUME TransitionInv, HostTransition, ArmEqs \/ Schedule
    PROVE  TransitionInv'
<1> USE TransitionAssumption
<1>1. /\ TransitionTyped /\ Due /\ HostKnows /\ PlanKnows /\ EngineKnows
      /\ Meeting /\ Tailing /\ ~fate.mixed
    BY DEF TransitionInv
<1>2. /\ armer.pc \in Arming /\ sf.state = "armed"
      /\ UNCHANGED <<masterFrame, apply, sf, fate>>
    BY <1>1 DEF HostTransition, ArmEqs, Schedule, Arming, HostKnows
<1>3. Due' /\ Meeting'
    <2>1. armer'.pc \in Arming \union {"idle"}
        BY <1>1 DEF TransitionTyped, ArmerState, ArmEqs, Schedule, At, NotArming, Arming
    <2> QED BY <1>1, <1>2, <2>1 DEF Due, Meeting, HostCrossed, HostFlat, Arming, Ticking
<1>4. CASE ArmEqs
    <2> DEFINE eqs == [control.eqLow EXCEPT ![sf.plan.incoming] = "cut", ![sf.plan.outgoing] = "flat"]
               c == [control EXCEPT !.eqLow = eqs]
    <2>1. /\ armer.pc = "armEqs" /\ armer' = [armer EXCEPT !.pc = "outgoing"]
          /\ UNCHANGED <<transitionActive, plan>>
        BY <1>4 DEF ArmEqs, At
    <2>2. eqs \in EqState
        BY <1>1, EqCurve DEF TransitionTyped, ControlState
    <2>3. Publish(c)
        BY <1>1, <1>4 DEF ArmEqs, TransitionTyped, ControlState
    <2> HIDE DEF eqs
    <2>4. c \in ControlState /\ c.beatFXOn = control.beatFXOn
        BY <1>1, <2>2 DEF TransitionTyped, ControlState
    <2> HIDE DEF c
    <2>5. /\ control' \in ControlState /\ control'.beatFXOn = control.beatFXOn /\ beatFXOn' = control.beatFXOn
          /\ crossfader' \in -2..2 /\ eqLow' \in EqState /\ beatFXOn' \in BOOLEAN
        BY <2>3, <2>4, Published
    <2>6. armer' \in ArmerState /\ armer'.pc = "outgoing"
        BY <1>1, <2>1 DEF TransitionTyped, ArmerState, Arming
    <2>7. TransitionTyped'
        BY <1>1, <1>2, <2>1, <2>5, <2>6 DEF TransitionTyped
    <2>8. HostKnows' /\ PlanKnows'
        BY <1>1, <1>2, <2>1, <2>6 DEF HostKnows, PlanKnows, Arming, Ticking
    <2>9. EngineKnows'
        BY <1>1, <1>2, <2>1 DEF EngineKnows
    <2>10. Tailing'
        BY <1>1, <1>2, <2>1, <2>5, <2>6 DEF Tailing, Arming
    <2> QED BY <1>1, <1>2, <1>3, <2>7, <2>8, <2>9, <2>10 DEF TransitionInv
<1>5. CASE Schedule
    <2>1. UNCHANGED <<control, crossfader, eqLow, beatFXOn>>
        BY <1>5 DEF Schedule, Kept, EngineControls
    <2>2. sf.plan \in PlanState
        BY <1>1 DEF TransitionTyped, FaderState
    <2>3. CASE armer.pc = "active"
        <3>1. armer' = NotArming /\ transitionActive' = TRUE /\ plan' = plan
            BY <1>5, <2>3 DEF Schedule
        <3>2. armer' \in ArmerState /\ armer'.pc = "idle"
            BY <3>1 DEF NotArming, ArmerState
        <3>3. TransitionTyped'
            BY <1>1, <1>2, <2>1, <3>1, <3>2 DEF TransitionTyped
        <3>4. HostKnows' /\ PlanKnows'
            BY <1>1, <1>2, <2>3, <3>1, <3>2 DEF HostKnows, PlanKnows, Arming, Ticking
        <3>5. EngineKnows'
            BY <1>1, <1>2, <3>1, <3>2 DEF EngineKnows, Arming
        <3>6. Tailing'
            BY <1>1, <1>2, <2>1, <3>2 DEF Tailing, Arming
        <3> QED BY <1>1, <1>2, <1>3, <3>3, <3>4, <3>5, <3>6 DEF TransitionInv
    <2>4. CASE armer.pc # "active"
        <3>1. transitionActive' = transitionActive
            BY <1>5, <2>4 DEF Schedule
        <3>2. \/ /\ armer.pc = "outgoing" /\ armer' = [armer EXCEPT !.pc = "incoming"]
                 /\ plan' = [plan EXCEPT !.outgoing = sf.plan.outgoing]
              \/ /\ armer.pc = "incoming" /\ armer' = [armer EXCEPT !.pc = "recipe"]
                 /\ plan' = [plan EXCEPT !.incoming = sf.plan.incoming]
              \/ /\ armer.pc = "recipe" /\ armer' = [armer EXCEPT !.pc = "start"]
                 /\ plan' = [plan EXCEPT !.quick = sf.plan.quick, !.tail = sf.plan.tail]
              \/ /\ armer.pc = "start" /\ armer' = [armer EXCEPT !.pc = "end"]
                 /\ plan' = [plan EXCEPT !.start = sf.plan.start]
              \/ /\ armer.pc = "end" /\ armer' = [armer EXCEPT !.pc = "active"]
                 /\ plan' = [plan EXCEPT !.end = sf.plan.end]
            BY <1>5, <2>4 DEF Schedule, At
        <3>3. armer' \in ArmerState /\ armer'.pc \in Arming
            BY <1>1, <3>2 DEF TransitionTyped, ArmerState, Arming
        <3>4. plan' \in PlanState
            <4>1. plan \in PlanState
                BY <1>1 DEF TransitionTyped
            <4> QED BY ONLY <2>2, <3>2, <4>1, PlanStored, Zenon
        <3>5. TransitionTyped'
            BY <1>1, <1>2, <2>1, <3>1, <3>3, <3>4 DEF TransitionTyped
        <3>6. HostKnows'
            BY <1>1, <1>2, <3>1, <3>3 DEF HostKnows, Arming, Ticking
        <3>7. PlanKnows'
            BY <1>1, <1>2, <2>2, <3>2 DEF TransitionTyped, ArmerState, PlanKnows, PlanState, Arming
        <3>8. EngineKnows'
            BY <1>1, <1>2, <3>1 DEF EngineKnows
        <3>9. Tailing'
            BY <1>1, <1>2, <2>1, <3>3 DEF Tailing, Arming
        <3> QED BY <1>1, <1>2, <1>3, <3>5, <3>6, <3>7, <3>8, <3>9 DEF TransitionInv
    <2> QED BY <2>3, <2>4
<1> QED BY <1>4, <1>5

\* The parts a tick has, besides its own.
LEMMA TickKeeps ==
    ASSUME TransitionInv, HostTransition, tick
    PROVE  TransitionInv'
<1> USE TransitionAssumption
<1>1. /\ TransitionTyped /\ Due /\ HostKnows /\ PlanKnows /\ EngineKnows
      /\ Meeting /\ Tailing /\ ~fate.mixed
    BY DEF TransitionInv
<1>2. /\ armer.pc = "idle" /\ Engaged
      /\ UNCHANGED <<transitionActive, plan, fate, masterFrame, apply>>
    BY DEF HostTransition, tick
<1>3. PICK last \in (sf.last + 1)..sf.plan.end :
          LET p == Progress(sf.plan, last)
          IN  /\ sf' = [sf EXCEPT !.last = last, !.state = IF @ = "armed" THEN "running" ELSE @]
              /\ Publish([control EXCEPT !.crossfader = CrossfaderAt(sf.plan, p)])
              /\ armer' = [pc |-> "tickEqs", p |-> p]
    BY DEF tick
<1> DEFINE p == Progress(sf.plan, last)
           c == [control EXCEPT !.crossfader = CrossfaderAt(sf.plan, p)]
<1>4. /\ sf' = [sf EXCEPT !.last = last, !.state = IF @ = "armed" THEN "running" ELSE @]
      /\ Publish(c) /\ armer' = [pc |-> "tickEqs", p |-> p]
    BY <1>3
<1>5. sf.plan \in PlanState /\ sf.plan \in Armed /\ sf.plan \in fate.plans /\ sf.plan.start <= sf.last
    BY <1>1, <1>2, FaderPlan DEF Engaged, HostKnows
<1>6. last \in 0..MaxFrame /\ sf.plan.start <= last
    BY <1>1, <1>5 DEF TransitionTyped, FaderState, PlanState
<1>7. p \in 0..4
    BY <1>5, <1>6, Quarters DEF Armed
<1> HIDE DEF p
<1>8. CrossfaderAt(sf.plan, p) \in -2..2
    BY <1>5, <1>7, CurveTypes
<1>9. /\ c \in ControlState /\ c.beatFXOn = control.beatFXOn
      /\ c.crossfader = CrossfaderAt(sf.plan, p)
    BY <1>1, <1>8 DEF TransitionTyped, ControlState
<1> HIDE DEF c
<1>10. /\ control' \in ControlState /\ control'.beatFXOn = control.beatFXOn /\ beatFXOn' = control.beatFXOn
       /\ control'.crossfader = CrossfaderAt(sf.plan, p) /\ crossfader' = control'.crossfader
       /\ crossfader' \in -2..2 /\ eqLow' \in EqState /\ beatFXOn' \in BOOLEAN
    BY <1>4, <1>9, Published
<1>11. /\ sf' \in FaderState /\ sf'.state \in {"running", "tail"} /\ sf'.plan = sf.plan
       /\ sf'.last = last /\ sf'.tailEngaged = sf.tailEngaged
    BY <1>1, <1>2, <1>4, <1>6 DEF TransitionTyped, FaderState, Engaged
<1>12. armer' \in ArmerState /\ armer'.pc = "tickEqs" /\ armer'.p = p
    BY <1>4, <1>7 DEF ArmerState, Ticking
<1>13. TransitionTyped'
    BY <1>1, <1>2, <1>10, <1>11, <1>12 DEF TransitionTyped
<1>14. Due' /\ PlanKnows'
    BY <1>1, <1>2, <1>11, <1>12 DEF Due, PlanKnows, Arming
<1>15. HostKnows'
    BY <1>2, <1>5, <1>6, <1>11, <1>12 DEF HostKnows, Arming, Ticking
<1>16. EngineKnows'
    <2>1. sf.state # "cancelled"
        BY <1>2 DEF Engaged
    <2>2. P' = P
        BY <1>2 DEF P, Progress
    <2> QED BY <1>1, <1>2, <1>12, <2>1, <2>2 DEF EngineKnows, Arming
<1>17. Meeting'
    BY <1>2, <1>10, <1>11, <1>12 DEF Meeting, HostCrossed, HostFlat, Ticking
<1>18. Tailing'
    BY <1>1, <1>2, <1>10, <1>11, <1>12 DEF Tailing, Arming
<1> QED BY <1>1, <1>2, <1>13, <1>14, <1>15, <1>16, <1>17, <1>18 DEF TransitionInv

\* The steps of a tick.
LEMMA TickStepKeeps ==
    ASSUME TransitionInv, HostTransition, TickStep
    PROVE  TransitionInv'
<1> USE TransitionAssumption
<1>1. /\ TransitionTyped /\ Due /\ HostKnows /\ PlanKnows /\ EngineKnows
      /\ Meeting /\ Tailing /\ ~fate.mixed
    BY DEF TransitionInv
<1>2. /\ armer.pc \in Ticking /\ sf.state \in {"running", "tail"}
      /\ UNCHANGED <<transitionActive, plan, fate, masterFrame, apply>>
    BY <1>1 DEF HostTransition, TickStep, TickEqs, TickTail, TickEnd, TickDone, Ticking, HostKnows
<1>3. /\ sf.plan \in PlanState /\ sf.plan \in fate.plans /\ armer.p \in 0..4
      /\ sf.plan.incoming \in Decks /\ sf.plan.outgoing \in Decks
    BY <1>1, <1>2, FaderPlan DEF TransitionTyped, ArmerState
<1>4. Due'
    BY <1>1, <1>2 DEF Due
<1>5. ASSUME sf'.plan = sf.plan, armer'.pc \in {"idle", "tickTail", "tickEnd", "tickDone"},
             sf'.state \in {"running", "tail", "completed"}
      PROVE  PlanKnows' /\ EngineKnows'
    <2>1. P' = P
        BY <1>2 DEF P, Progress
    <2>2. armer.pc \notin Arming
        BY <1>2 DEF Arming, Ticking
    <2> QED BY <1>1, <1>2, <1>5, <2>1, <2>2 DEF PlanKnows, EngineKnows, Arming
<1>6. CASE TickEqs
    <2> DEFINE eqs == [control.eqLow EXCEPT ![sf.plan.incoming] = IncomingAt(sf.plan, armer.p),
                                            ![sf.plan.outgoing] = OutgoingAt(armer.p)]
               c == [control EXCEPT !.eqLow = eqs]
    <2>1. armer.pc = "tickEqs" /\ armer' = [armer EXCEPT !.pc = "tickTail"] /\ sf' = sf
        BY <1>6 DEF TickEqs, At
    <2>2. eqs \in EqState
        BY <1>1, <1>3, EqCurve, CurveTypes DEF TransitionTyped, ControlState
    <2>3. Publish(c)
        BY <1>1, <1>6 DEF TickEqs, TransitionTyped, ControlState
    <2> HIDE DEF eqs
    <2>4. c \in ControlState /\ c.beatFXOn = control.beatFXOn /\ c.crossfader = control.crossfader
        BY <1>1, <2>2 DEF TransitionTyped, ControlState
    <2> HIDE DEF c
    <2>5. /\ control' \in ControlState /\ control'.beatFXOn = control.beatFXOn /\ beatFXOn' = control.beatFXOn
          /\ control'.crossfader = control.crossfader /\ crossfader' = control.crossfader
          /\ crossfader' \in -2..2 /\ eqLow' \in EqState /\ beatFXOn' \in BOOLEAN
        BY <2>3, <2>4, Published
    <2>6. armer' \in ArmerState /\ armer'.pc = "tickTail" /\ armer'.p = armer.p
        BY <1>1, <2>1 DEF TransitionTyped, ArmerState, Ticking
    <2>7. TransitionTyped'
        BY <1>1, <1>2, <2>1, <2>5, <2>6 DEF TransitionTyped
    <2>8. HostKnows'
        BY <1>1, <1>2, <2>1, <2>6 DEF HostKnows, Arming, Ticking
    <2>9. Meeting'
        BY <1>1, <1>2, <2>1, <2>5, <2>6 DEF Meeting, HostCrossed, HostFlat, Ticking
    <2>10. Tailing'
        BY <1>1, <1>2, <2>1, <2>5, <2>6 DEF Tailing, Arming
    <2> QED BY <1>1, <1>2, <1>4, <1>5, <2>1, <2>6, <2>7, <2>8, <2>9, <2>10 DEF TransitionInv
<1>7. CASE TickTail
    <2>1. armer.pc = "tickTail"
        BY <1>7 DEF TickTail
    <2>2. /\ armer' \in ArmerState
          /\ IF armer.p = 4 THEN armer'.pc = "tickEnd" /\ armer'.p = 4 ELSE armer'.pc = "idle"
        BY <1>1, <1>7 DEF TransitionTyped, ArmerState, TickTail, NotArming, Ticking
    <2>3. TailAt(sf.plan, armer.p) \in BOOLEAN /\ (TailAt(sf.plan, armer.p) => sf.plan.tail)
          /\ (armer.p = 4 /\ sf.plan.tail => TailAt(sf.plan, armer.p))
        BY <1>3, CurveTypes DEF TailAt
    <2>4. CASE ~sf.tailEngaged /\ TailAt(sf.plan, armer.p)
        <3> DEFINE c == [control EXCEPT !.beatFXOn = TRUE]
        <3>1. sf' = [sf EXCEPT !.tailEngaged = TRUE, !.state = "tail"] /\ Publish(c)
            BY <1>7, <2>4 DEF TickTail
        <3>2. c \in ControlState /\ c.crossfader = control.crossfader /\ c.eqLow = control.eqLow
            BY <1>1 DEF TransitionTyped, ControlState
        <3> HIDE DEF c
        <3>3. /\ control' \in ControlState /\ crossfader' \in -2..2 /\ eqLow' \in EqState /\ beatFXOn' \in BOOLEAN
              /\ control'.crossfader = control.crossfader /\ crossfader' = control.crossfader
              /\ control'.eqLow = control.eqLow
            BY <3>1, <3>2, Published
        <3>4. /\ sf' \in FaderState /\ sf'.state = "tail" /\ sf'.tailEngaged = TRUE
              /\ sf'.plan = sf.plan /\ sf'.last = sf.last
            BY <1>1, <3>1 DEF TransitionTyped, FaderState
        <3>5. TransitionTyped'
            BY <1>1, <1>2, <2>2, <3>3, <3>4 DEF TransitionTyped
        <3>6. HostKnows'
            BY <1>1, <1>2, <1>3, <2>2, <3>4 DEF HostKnows, Arming, Ticking
        <3>7. Meeting'
            BY <1>1, <1>2, <2>1, <2>2, <3>3, <3>4 DEF Meeting, HostCrossed, HostFlat, Ticking
        <3>8. Tailing'
            BY <1>1, <1>2, <2>2, <2>3, <2>4, <3>4 DEF Tailing, Arming
        <3> QED BY <1>1, <1>2, <1>4, <1>5, <2>2, <3>4, <3>5, <3>6, <3>7, <3>8 DEF TransitionInv
    <2>5. CASE ~(~sf.tailEngaged /\ TailAt(sf.plan, armer.p))
        <3>1. sf' = sf /\ UNCHANGED <<control, crossfader, eqLow, beatFXOn>>
            BY <1>7, <2>5 DEF TickTail, Kept, EngineControls
        <3>2. TransitionTyped'
            BY <1>1, <1>2, <2>2, <3>1 DEF TransitionTyped
        <3>3. HostKnows'
            BY <1>1, <1>2, <2>2, <3>1 DEF HostKnows, Arming, Ticking
        <3>4. Meeting'
            <4>1. EngineCrossed' = EngineCrossed
                BY <1>2 DEF EngineCrossed, P, Progress
            <4>2. ~HostFlat' /\ (HostCrossed' => HostCrossed)
                BY <1>2, <2>1, <2>2, <3>1 DEF HostFlat, HostCrossed, Ticking
            <4> QED BY <1>1, <1>2, <3>1, <4>1, <4>2 DEF Meeting
        <3>5. Tailing'
            BY <1>1, <1>2, <2>2, <2>3, <2>5, <3>1 DEF Tailing, Arming
        <3> QED BY <1>1, <1>2, <1>4, <1>5, <2>2, <3>1, <3>2, <3>3, <3>4, <3>5 DEF TransitionInv
    <2> QED BY <2>4, <2>5
<1>8. CASE TickEnd
    <2> DEFINE eqs == [control.eqLow EXCEPT ![sf.plan.incoming] = "flat", ![sf.plan.outgoing] = "flat"]
               c == [control EXCEPT !.eqLow = eqs]
    <2>1. armer.pc = "tickEnd" /\ armer' = [armer EXCEPT !.pc = "tickDone"] /\ sf' = sf
        BY <1>8 DEF TickEnd, At
    <2>2. eqs \in EqState /\ FlatAt(eqs)
        BY <1>1, <1>3, EqCurve DEF TransitionTyped, ControlState, EqState, FlatAt
    <2>3. Publish(c)
        BY <1>1, <1>8 DEF TickEnd, TransitionTyped, ControlState
    <2> HIDE DEF eqs
    <2>4. /\ c \in ControlState /\ c.beatFXOn = control.beatFXOn /\ c.crossfader = control.crossfader
          /\ c.eqLow = eqs
        BY <1>1, <2>2 DEF TransitionTyped, ControlState
    <2> HIDE DEF c
    <2>5. /\ control' \in ControlState /\ control'.beatFXOn = control.beatFXOn /\ beatFXOn' = control.beatFXOn
          /\ control'.crossfader = control.crossfader /\ crossfader' = control.crossfader
          /\ control'.eqLow = eqs /\ eqLow' = eqs
          /\ crossfader' \in -2..2 /\ eqLow' \in EqState /\ beatFXOn' \in BOOLEAN
        BY <2>3, <2>4, Published
    <2>6. armer' \in ArmerState /\ armer'.pc = "tickDone" /\ armer'.p = 4
        BY <1>1, <2>1 DEF TransitionTyped, ArmerState, HostKnows, Ticking
    <2>7. TransitionTyped'
        BY <1>1, <1>2, <2>1, <2>5, <2>6 DEF TransitionTyped
    <2>8. HostKnows'
        BY <1>1, <1>2, <2>1, <2>6 DEF HostKnows, Arming, Ticking
    <2>9. Meeting'
        <3>1. HostCrossed
            BY <1>1, <2>1 DEF HostCrossed, HostKnows, Ticking
        <3> QED BY <1>1, <1>2, <2>1, <2>2, <2>5, <3>1 DEF Meeting, FlatAt
    <2>10. Tailing'
        BY <1>1, <1>2, <2>1, <2>5, <2>6 DEF Tailing, Arming
    <2> QED BY <1>1, <1>2, <1>4, <1>5, <2>1, <2>6, <2>7, <2>8, <2>9, <2>10 DEF TransitionInv
<1>9. CASE TickDone
    <2>1. /\ armer.pc = "tickDone" /\ armer' = NotArming /\ sf' = [sf EXCEPT !.state = "completed"]
        BY <1>9 DEF TickDone
    <2>2. /\ sf' \in FaderState /\ sf'.state = "completed" /\ sf'.plan = sf.plan
          /\ sf'.last = sf.last /\ sf'.tailEngaged = sf.tailEngaged
        BY <1>1, <2>1 DEF TransitionTyped, FaderState
    <2>3. armer' \in ArmerState /\ armer'.pc = "idle"
        BY <2>1 DEF NotArming, ArmerState
    <2>4. /\ control' \in ControlState /\ crossfader' \in -2..2 /\ eqLow' \in EqState /\ beatFXOn' \in BOOLEAN
          /\ control'.crossfader = control.crossfader /\ control'.eqLow = control.eqLow
          /\ crossfader' \in {crossfader, control.crossfader} /\ eqLow' \in {eqLow, control.eqLow}
          /\ IF sf.tailEngaged THEN crossfader' = control.crossfader /\ eqLow' = control.eqLow
                                    /\ ~control'.beatFXOn /\ ~beatFXOn'
             ELSE UNCHANGED <<control, crossfader, eqLow, beatFXOn>>
        <3>1. CASE sf.tailEngaged
            <4> DEFINE c == [control EXCEPT !.beatFXOn = FALSE]
            <4>1. Publish(c)
                BY <1>9, <3>1 DEF TickDone
            <4>2. /\ c \in ControlState /\ c.crossfader = control.crossfader /\ c.eqLow = control.eqLow
                  /\ c.beatFXOn = FALSE
                BY <1>1 DEF TransitionTyped, ControlState
            <4> HIDE DEF c
            <4> QED BY <3>1, <4>1, <4>2, Published
        <3>2. CASE ~sf.tailEngaged
            BY <1>1, <1>9, <3>2 DEF TickDone, Kept, EngineControls, TransitionTyped
        <3> QED BY <3>1, <3>2
    <2>5. TransitionTyped'
        BY <1>1, <1>2, <2>2, <2>3, <2>4 DEF TransitionTyped
    <2>6. HostKnows'
        BY <1>1, <1>2, <1>3, <2>2, <2>3 DEF HostKnows, Arming, Ticking
    <2>7. Meeting'
        <3>1. HostCrossed /\ HostFlat
            BY <1>1, <2>1 DEF HostCrossed, HostFlat, HostKnows, Ticking
        <3>2. EngineCrossed' = EngineCrossed /\ EngineFlat' = EngineFlat
            BY <1>2 DEF EngineCrossed, EngineFlat, P, Progress
        <3> QED BY <1>1, <1>2, <2>2, <2>4, <3>1, <3>2 DEF Meeting, FlatAt
    <2>8. Tailing'
        BY <1>1, <1>2, <2>1, <2>2, <2>3, <2>4 DEF Tailing, Arming
    <2> QED BY <1>1, <1>2, <1>4, <1>5, <2>2, <2>3, <2>5, <2>6, <2>7, <2>8 DEF TransitionInv
<1> QED BY <1>6, <1>7, <1>8, <1>9 DEF TickStep

\* cancel, and the store of pe_cancel_transition.
LEMMA CancelKeeps ==
    ASSUME TransitionInv, HostTransition, cancel \/ CancelActive
    PROVE  TransitionInv'
<1> USE TransitionAssumption
<1>1. /\ TransitionTyped /\ Due /\ HostKnows /\ PlanKnows /\ EngineKnows
      /\ Meeting /\ Tailing /\ ~fate.mixed
    BY DEF TransitionInv
<1>2. UNCHANGED <<plan, fate, masterFrame, apply>>
    BY DEF HostTransition, cancel, CancelActive
<1>3. P' = P /\ Due'
    BY <1>1, <1>2 DEF P, Progress, Due
<1>4. CASE cancel
    <2>1. /\ armer.pc = "idle" /\ Engaged /\ transitionActive' = transitionActive
          /\ sf' = [sf EXCEPT !.state = "cancelled"] /\ armer' = [armer EXCEPT !.pc = "cancel"]
        BY <1>4 DEF cancel, At
    <2>2. sf.plan \in fate.plans /\ sf.plan.start <= sf.last
        BY <1>1, <2>1 DEF Engaged, HostKnows
    <2>3. /\ sf' \in FaderState /\ sf'.state = "cancelled" /\ sf'.plan = sf.plan
          /\ sf'.last = sf.last /\ sf'.tailEngaged = sf.tailEngaged
        BY <1>1, <2>1 DEF TransitionTyped, FaderState
    <2>4. armer' \in ArmerState /\ armer'.pc = "cancel"
        BY <1>1, <2>1 DEF TransitionTyped, ArmerState
    <2>5. /\ control' \in ControlState /\ crossfader' \in -2..2 /\ eqLow' \in EqState /\ beatFXOn' \in BOOLEAN
          /\ IF sf.tailEngaged THEN ~control'.beatFXOn /\ ~beatFXOn'
             ELSE UNCHANGED <<control, crossfader, eqLow, beatFXOn>>
        <3>1. CASE sf.tailEngaged
            <4> DEFINE c == [control EXCEPT !.beatFXOn = FALSE]
            <4>1. Publish(c)
                BY <1>4, <3>1 DEF cancel
            <4>2. c \in ControlState /\ c.beatFXOn = FALSE
                BY <1>1 DEF TransitionTyped, ControlState
            <4> HIDE DEF c
            <4> QED BY <3>1, <4>1, <4>2, Published
        <3>2. CASE ~sf.tailEngaged
            BY <1>1, <1>4, <3>2 DEF cancel, Kept, EngineControls, TransitionTyped
        <3> QED BY <3>1, <3>2
    <2>6. TransitionTyped'
        BY <1>1, <1>2, <2>1, <2>3, <2>4, <2>5 DEF TransitionTyped
    <2>7. HostKnows'
        BY <1>1, <1>2, <2>2, <2>3, <2>4 DEF HostKnows, Arming, Ticking
    <2>8. PlanKnows' /\ EngineKnows'
        BY <1>1, <1>2, <1>3, <2>1, <2>3, <2>4 DEF PlanKnows, EngineKnows, Arming
    <2>9. Meeting'
        BY <2>3, <2>4 DEF Meeting, HostCrossed, HostFlat, Ticking
    <2>10. Tailing'
        BY <1>1, <1>2, <2>1, <2>3, <2>4, <2>5 DEF Tailing, Arming
    <2> QED BY <1>1, <1>2, <1>3, <2>6, <2>7, <2>8, <2>9, <2>10 DEF TransitionInv
<1>5. CASE CancelActive
    <2>1. /\ armer.pc = "cancel" /\ armer' = NotArming /\ transitionActive' = FALSE
          /\ UNCHANGED <<control, crossfader, eqLow, beatFXOn, sf>>
        BY <1>5 DEF CancelActive, Kept, EngineControls
    <2>2. armer' \in ArmerState /\ armer'.pc = "idle" /\ sf.state = "cancelled"
        BY <1>1, <2>1 DEF NotArming, ArmerState, HostKnows
    <2>3. TransitionTyped'
        BY <1>1, <1>2, <2>1, <2>2 DEF TransitionTyped
    <2>4. HostKnows'
        BY <1>1, <1>2, <2>1, <2>2 DEF HostKnows, Arming, Ticking
    <2>5. PlanKnows' /\ EngineKnows'
        BY <1>1, <1>2, <1>3, <2>1, <2>2 DEF PlanKnows, EngineKnows, Arming
    <2>6. Meeting'
        BY <2>1, <2>2 DEF Meeting, HostCrossed, HostFlat, Ticking
    <2>7. Tailing'
        BY <1>1, <1>2, <2>1, <2>2 DEF Tailing, Arming
    <2> QED BY <1>1, <1>2, <1>3, <2>3, <2>4, <2>5, <2>6, <2>7 DEF TransitionInv
<1> QED BY <1>4, <1>5

\* The clock at the end of a block.
LEMMA ClockKeeps ==
    ASSUME TransitionInv, NEW n \in Nat, AdvanceClock(n)
    PROVE  TransitionInv'
<1> USE TransitionAssumption
<1>1. /\ TransitionTyped /\ Due /\ HostKnows /\ PlanKnows /\ EngineKnows
      /\ Meeting /\ Tailing /\ ~fate.mixed
    BY DEF TransitionInv
<1>2. UNCHANGED <<transitionActive, plan, crossfader, eqLow, beatFXOn, apply, control, sf, armer, fate>>
    BY DEF AdvanceClock, EngineControls
<1>3. masterFrame' \in 0..MaxFrame /\ (fate.plans # {} => masterFrame <= masterFrame')
    <2>1. masterFrame \in 0..MaxFrame /\ masterFrame + n \in Int /\ MaxFrame \in Int
        BY <1>1 DEF TransitionTyped
    <2>2. Min({masterFrame + n, MaxFrame}) = IF masterFrame + n <= MaxFrame THEN masterFrame + n ELSE MaxFrame
        BY <2>1, MinOfTwo
    <2>3. masterFrame' = IF fate.plans = {} THEN 0 ELSE Min({masterFrame + n, MaxFrame})
        BY DEF AdvanceClock
    <2> QED BY <2>1, <2>2, <2>3
<1>4. TransitionTyped'
    BY <1>1, <1>2, <1>3 DEF TransitionTyped
<1>5. Due'
    <2>1. apply.pc # "off" => fate.plans # {}
        BY <1>1 DEF HostKnows
    <2> QED BY <1>1, <1>2, <1>3, <2>1 DEF TransitionTyped, ApplyState, Due
<1>6. P' = P
    BY <1>2 DEF P, Progress
<1>7. HostKnows' /\ PlanKnows' /\ EngineKnows' /\ Tailing'
    BY <1>1, <1>2, <1>6 DEF HostKnows, PlanKnows, EngineKnows, Tailing
<1>8. Meeting'
    BY <1>1, <1>2, <1>6 DEF Meeting, HostCrossed, HostFlat, EngineCrossed, EngineFlat, FlatAt
<1> QED BY <1>1, <1>2, <1>4, <1>5, <1>7, <1>8 DEF TransitionInv

\* The other seams leave the transition alone.
LEMMA TransitionFramed ==
    ASSUME TransitionInv, UNCHANGED transitionVars
    PROVE  TransitionInv'
<1>1. P' = P
    BY DEF transitionVars, P, Progress
<1>2. /\ TransitionTyped' /\ Due' /\ HostKnows' /\ PlanKnows' /\ Tailing' /\ ~fate'.mixed
    BY DEF transitionVars, TransitionInv, TransitionTyped, Due, HostKnows, PlanKnows, Tailing
<1>3. EngineKnows'
    BY <1>1 DEF transitionVars, TransitionInv, EngineKnows
<1>4. Meeting'
    BY <1>1 DEF transitionVars, TransitionInv, Meeting, HostCrossed, HostFlat, EngineCrossed, EngineFlat, FlatAt
<1> QED BY <1>2, <1>3, <1>4 DEF TransitionInv

\* Every step of the engine, for the transition.
LEMMA TransitionKeeps == Staged /\ TransitionInv /\ [Next]_vars => TransitionInv'
<1> SUFFICES ASSUME Staged, TransitionInv, [Next]_vars PROVE TransitionInv'
    OBVIOUS
<1>1. CASE UNCHANGED vars
    BY <1>1, TransitionFramed DEF vars
<1>2. CASE Render
    <2>1. CASE RenderTransition
        BY <2>1, EngineKeeps DEF RenderTransition
    <2>2. CASE EndBlock
        <3>1. frames \in Nat
            BY <2>2, TapAssumption DEF Staged
        <3> QED BY <2>2, <3>1, ClockKeeps DEF EndBlock
    <2>3. CASE RenderCommands \/ RenderDecks \/ RenderBuses \/ RenderTap
        BY <2>3, TransitionFramed DEF RenderCommands, RenderDecks, RenderBuses, RenderTap
    <2> QED BY <1>2, <2>1, <2>2, <2>3 DEF Render
<1>3. CASE Control
    <2>1. CASE CallTransition
        BY <2>1, ArmKeeps, CancelKeeps DEF CallTransition, TransitionCall
    <2>2. CASE Tick
        BY <2>2, TickKeeps DEF Tick, TransitionTick
    <2>3. CASE CallInsertSeam \/ CallTap \/ CallDeck \/ CallPlay
        BY <2>3, TransitionFramed DEF CallInsertSeam, CallTap, CallDeck, CallPlay
    <2>4. CASE InCall
        <3>1. CASE TransitionStep
            BY <3>1, ArmingKeeps, TickStepKeeps, CancelKeeps DEF TransitionStep
        <3>2. CASE UNCHANGED transitionVars
            BY <3>2, TransitionFramed
        <3> QED BY <2>4, <3>1, <3>2 DEF InCall
    <2> QED BY <1>3, <2>1, <2>2, <2>3, <2>4 DEF Control
<1> QED BY <1>1, <1>2, <1>3 DEF Next

LEMMA TransitionAlways == Spec => [](Staged /\ TransitionInv)
<1>1. Init => Staged /\ TransitionInv
    BY StagedStarts, TransitionStarts
<1>2. Staged /\ TransitionInv /\ [Next]_vars => (Staged /\ TransitionInv)'
    BY StagedKeeps, TransitionKeeps
<1> QED BY <1>1, <1>2, PTL DEF Spec

\* The render thread applies one scheduled plan and never parts of two,
\* although pe_schedule_transition is seven stores and applyScheduledTransition
\* six loads.
THEOREM PlanWhole == Spec => []TransitionWhole
<1>1. TransitionInv => TransitionWhole
    BY DEF TransitionInv, TransitionWhole
<1> QED BY <1>1, TransitionAlways, PTL

\* When the render thread and SmartFader are both through with a plan, the
\* mixer stands at the incoming deck with its EQs flat, whichever was last.
THEOREM DriversAgree == Spec => []DriversMeet
<1>1. TransitionInv => DriversMeet
    BY DEF TransitionInv, Meeting, HostCrossed, EngineCrossed, HostFlat, EngineFlat, FlatAt, BothDone, DriversMeet
<1> QED BY <1>1, TransitionAlways, PTL

\* Beat FX of the tail is off then, unless nobody was left to let it go.
THEOREM TailLetGo == Spec => []TailReleased
<1>1. TransitionInv => TailReleased
    BY DEF TransitionInv, Tailing, BothDone, TailReleased
<1> QED BY <1>1, TransitionAlways, PTL

\* The render thread clears the plan's flag at the end of the plan in force, and
\* at no other moment.
THEOREM EndsWhenDue == Spec => TransitionKept
<1>1. ASSUME Staged, TransitionInv, [Next]_vars
      PROVE  [(transitionActive /\ ~transitionActive' /\ apply.pc # "off" /\ apply' # apply)
              => fate.overlapped \/ masterFrame >= plan.end]_transitionVars
    <2>1. SUFFICES ASSUME transitionActive, ~transitionActive', apply.pc # "off", apply' # apply,
                          ~fate.overlapped
                   PROVE  masterFrame >= plan.end
        OBVIOUS
    <2>2. ApplyTransition
        <3>1. CASE Render
            BY <2>1, <3>1 DEF Render, RenderCommands, RenderTransition, RenderDecks, RenderBuses, RenderTap,
                             EndBlock, AdvanceClock, transitionVars
        <3>2. CASE Control
            BY <2>1, <3>2 DEF Control, CallInsertSeam, CallTap, CallTransition, CallDeck, CallPlay, Tick, InCall,
                             TransitionCall, TransitionTick, TransitionStep, HostTransition, transitionVars
        <3>3. CASE UNCHANGED vars
            BY <2>1, <3>3 DEF vars, transitionVars
        <3> QED BY <1>1, <3>1, <3>2, <3>3 DEF Next
    <2>3. LoadIncoming \/ ClearActive
        BY <2>1, <2>2 DEF ApplyTransition, LoadActive, LoadStart, LoadEnd, LoadOutgoing, StoreCrossfader,
                         StoreIncoming, StoreOutgoing, StoreTail, Flatten
    <2>4. CASE LoadIncoming
        <3>1. apply.pc = "incoming" /\ plan.incoming = apply.plan.outgoing
            BY <2>1, <2>4 DEF LoadIncoming
        <3>2. apply.plan.outgoing = plan.outgoing
            BY <1>1, <2>1, <3>1 DEF TransitionInv, EngineKnows
        <3> QED BY <1>1, <2>1, <3>1, <3>2, PlanInForce DEF Armed
    <2>5. CASE ClearActive
        <3>1. apply.pc = "clear"
            BY <2>5 DEF ClearActive
        <3>2. P = 4 /\ apply.plan.end = plan.end
            BY <1>1, <2>1, <3>1 DEF TransitionInv, EngineKnows
        <3>3. apply.plan.end <= apply.frame
            BY <1>1, <3>1, <3>2, EngineQuarter DEF TransitionInv
        <3>4. apply.frame <= masterFrame
            BY <1>1, <3>1 DEF TransitionInv, Due
        <3>5. masterFrame \in Int /\ apply.frame \in Int /\ plan.end \in Int
            BY <1>1, TransitionAssumption DEF TransitionInv, TransitionTyped, ApplyState, PlanState
        <3> QED BY <3>2, <3>3, <3>4, <3>5
    <2> QED BY <2>3, <2>4, <2>5
<1> QED BY <1>1, TransitionAlways, PTL DEF Spec, TransitionKept

-----------------------------------------------------------------------------
(* The record tap *)

TapState == [pc : {"off", "copy"}, write : TapIndex, read : TapIndex, left : Nat]
DrainState == [pc : {"idle", "loadWrite", "copy", "again", "reset", "forget", "activate", "deactivate"},
               read : TapIndex, write : TapIndex, count : 0..ScratchFrames, then : {"idle", "deactivate"}]
HistoryState == [expected : TapIndex, raced : BOOLEAN, misTaken : BOOLEAN]

TapTyped ==
    /\ recordWrite \in TapIndex /\ recordRead \in TapIndex /\ recordDropped \in TapIndex
    /\ recordActive \in BOOLEAN /\ recorder \in BOOLEAN
    /\ recorded \in [0..(RecordCapacity - 1) -> TapIndex \union {Unwritten}]
    /\ \A c \in 0..(RecordCapacity - 1) : recorded[c] \in TapIndex => Cell(recorded[c]) = c
    /\ tap \in TapState /\ drain \in DrainState /\ tapHistory \in HistoryState

\* Up to where the ring is written.
WriteEnd == IF tap.pc = "copy" THEN tap.write ELSE recordWrite

\* The indices lie in order, within the ring.
TapOrdered ==
    /\ tap.pc = "copy" =>
          /\ Span(tap.read, recordRead) + Span(recordRead, recordWrite) + Span(recordWrite, tap.write)
                = Span(tap.read, tap.write)
          /\ Span(tap.read, tap.write) <= RecordCapacity
          /\ Span(recordWrite, tap.write) + tap.left <= RecordCapacity
    /\ tap.pc = "off" => Span(recordRead, recordWrite) <= RecordCapacity
    /\ drain.pc = "loadWrite" => drain.read = recordRead
    /\ drain.pc = "copy" =>
          Span(recordRead, drain.read) + Span(drain.read, drain.write) + Span(drain.write, recordWrite)
            = Span(recordRead, recordWrite)
    /\ drain.pc = "reset" =>
          Span(recordRead, drain.write) + Span(drain.write, recordWrite) = Span(recordRead, recordWrite)

\* Each frame between the reader and the writer is in its cell.
TapHolds == \A i \in TapIndex : Span(recordRead, i) < Span(recordRead, WriteEnd) => recorded[Cell(i)] = i

\* The count is how far the reader's index is beyond what the drains made of it.
TapCounted ==
    /\ drain.pc \in {"idle", "again", "activate", "deactivate", "reset"} =>
          Span(tapHistory.expected, recordRead) = recordDropped
    /\ drain.pc \in {"loadWrite", "copy"} => Span(tapHistory.expected, drain.read) = recordDropped
    /\ drain.pc = "forget" => tapHistory.expected = recordRead

TapInv == /\ TapTyped /\ ~tapHistory.misTaken
          /\ ~tapHistory.raced => TapOrdered /\ TapHolds /\ TapCounted

-----------------------------------------------------------------------------
(* Indices that wrap.  From here on nothing of Span, Next1 and Cell is used *)
(* but these facts.                                                         *)

\* The capacity and the width, without the division.
LEMMA Widths ==
    /\ RecordCapacity \in Nat \ {0} /\ IndexWrap \in Nat \ {0}
    /\ IndexWrap > 2 * RecordCapacity
BY TapAssumption

\* A difference of two indices is brought back by one lap at most.
LEMMA Wrapped ==
    ASSUME NEW a \in Int, -IndexWrap <= a, a < IndexWrap
    PROVE  a % IndexWrap = IF 0 <= a THEN a ELSE a + IndexWrap
<1>1. IndexWrap \in Nat \ {0}
    BY TapAssumption
<1> DEFINE r == a % IndexWrap
           b == IF 0 <= a THEN a ELSE a + IndexWrap
<1>2. b \in 0..(IndexWrap - 1)
    BY <1>1
<1>3. PICK q \in Int : a = q * IndexWrap + r
    BY <1>1, Divide
<1>4. r \in 0..(IndexWrap - 1)
    BY <1>1, Divide
<1>5. q * IndexWrap \in Int
    BY <1>1
<1> HIDE DEF r
<1>6. CASE 0 <= a
    <2>1. -IndexWrap < q * IndexWrap /\ q * IndexWrap < IndexWrap
        BY <1>1, <1>3, <1>4, <1>5, <1>6
    <2>2. q = 0
        BY <1>1, <2>1, SmallMultiple
    <2>3. q * IndexWrap = 0
        BY <1>1, <2>2
    <2> QED BY <1>3, <1>4, <1>6, <2>3 DEF r
<1>7. CASE a < 0
    <2>1. (q + 1) * IndexWrap = q * IndexWrap + IndexWrap
        BY <1>1
    <2>2. -IndexWrap < (q + 1) * IndexWrap /\ (q + 1) * IndexWrap < IndexWrap
        BY <1>1, <1>3, <1>4, <1>5, <1>7, <2>1
    <2>3. q + 1 = 0
        BY <1>1, <2>2, SmallMultiple
    <2>4. (q + 1) * IndexWrap = 0
        BY <1>1, <2>3
    <2>5. q * IndexWrap = -IndexWrap
        BY <1>1, <1>5, <2>1, <2>4
    <2> QED BY <1>1, <1>3, <1>4, <1>7, <2>5 DEF r
<1> QED BY <1>6, <1>7

LEMMA SpanIs ==
    ASSUME NEW a \in TapIndex, NEW b \in TapIndex
    PROVE  Span(a, b) = IF a <= b THEN b - a ELSE b - a + IndexWrap
<1>1. b - a \in Int /\ -IndexWrap <= b - a /\ b - a < IndexWrap
    BY TapAssumption DEF TapIndex
<1>2. (b - a) % IndexWrap = IF 0 <= b - a THEN b - a ELSE b - a + IndexWrap
    BY <1>1, Wrapped
<1> QED BY <1>2, TapAssumption DEF Span, TapIndex

\* The index after the last one is the first.
LEMMA NextIs ==
    ASSUME NEW a \in TapIndex
    PROVE  Next1(a) = (IF a + 1 = IndexWrap THEN 0 ELSE a + 1) /\ Next1(a) \in TapIndex
<1>1. CASE a + 1 = IndexWrap
    <2>1. IndexWrap % IndexWrap = 0
        BY TapAssumption, <1>1 DEF TapIndex
    <2> QED BY <1>1, <2>1, TapAssumption DEF Next1, TapIndex
<1>2. CASE a + 1 # IndexWrap
    <2>1. a + 1 \in Int /\ -IndexWrap <= a + 1 /\ a + 1 < IndexWrap /\ 0 <= a + 1
        BY <1>2, TapAssumption DEF TapIndex
    <2> QED BY <1>2, <2>1, Wrapped, TapAssumption DEF Next1, TapIndex
<1> QED BY <1>1, <1>2

\* Spans are indices, zero between an index and itself only.
LEMMA SpanType ==
    ASSUME NEW a \in TapIndex, NEW b \in TapIndex
    PROVE  Span(a, b) \in TapIndex /\ Span(a, b) \in Nat /\ Span(a, b) < IndexWrap /\ (Span(a, b) = 0 <=> a = b)
<1>1. Span(a, b) = IF a <= b THEN b - a ELSE b - a + IndexWrap
    BY SpanIs
<1> QED BY <1>1, Widths DEF TapIndex

\* One end moves on.
LEMMA SpanGrows ==
    ASSUME NEW a \in TapIndex, NEW b \in TapIndex
    PROVE  /\ Span(a, Next1(b)) = Next1(Span(a, b))
           /\ Span(a, b) < IndexWrap - 1 => Span(a, Next1(b)) = Span(a, b) + 1
<1>1. Next1(b) \in TapIndex /\ Next1(b) = IF b + 1 = IndexWrap THEN 0 ELSE b + 1
    BY NextIs
<1>2. Span(a, b) = IF a <= b THEN b - a ELSE b - a + IndexWrap
    BY SpanIs
<1>3. Span(a, Next1(b)) = IF a <= Next1(b) THEN Next1(b) - a ELSE Next1(b) - a + IndexWrap
    BY <1>1, SpanIs
<1>4. Span(a, b) \in TapIndex
    BY SpanType
<1>5. Next1(Span(a, b)) = IF Span(a, b) + 1 = IndexWrap THEN 0 ELSE Span(a, b) + 1
    BY <1>4, NextIs
<1> QED BY <1>1, <1>2, <1>3, <1>5, Widths DEF TapIndex

\* So does the other.
LEMMA SpanShrinks ==
    ASSUME NEW a \in TapIndex, NEW b \in TapIndex, a # b
    PROVE  Span(Next1(a), b) = Span(a, b) - 1
<1>1. Next1(a) \in TapIndex /\ Next1(a) = IF a + 1 = IndexWrap THEN 0 ELSE a + 1
    BY NextIs
<1>2. Span(a, b) = IF a <= b THEN b - a ELSE b - a + IndexWrap
    BY SpanIs
<1>3. Span(Next1(a), b) = IF Next1(a) <= b THEN b - Next1(a) ELSE b - Next1(a) + IndexWrap
    BY <1>1, SpanIs
<1> QED BY <1>1, <1>2, <1>3, Widths DEF TapIndex

\* Both move on.
LEMMA SpanMoves ==
    ASSUME NEW a \in TapIndex, NEW b \in TapIndex
    PROVE  Span(Next1(a), Next1(b)) = Span(a, b)
<1>1. Next1(a) \in TapIndex /\ Next1(a) = IF a + 1 = IndexWrap THEN 0 ELSE a + 1
    BY NextIs
<1>2. Next1(b) \in TapIndex /\ Next1(b) = IF b + 1 = IndexWrap THEN 0 ELSE b + 1
    BY NextIs
<1>3. Span(a, b) = IF a <= b THEN b - a ELSE b - a + IndexWrap
    BY SpanIs
<1>4. Span(Next1(a), Next1(b)) = IF Next1(a) <= Next1(b) THEN Next1(b) - Next1(a)
                                 ELSE Next1(b) - Next1(a) + IndexWrap
    BY <1>1, <1>2, SpanIs
<1> QED BY <1>1, <1>2, <1>3, <1>4, Widths DEF TapIndex

\* Spans add up, as long as they do not go round.
LEMMA SpanAdds ==
    ASSUME NEW a \in TapIndex, NEW b \in TapIndex, NEW c \in TapIndex
    PROVE  /\ Span(a, b) + Span(b, c) < IndexWrap => Span(a, c) = Span(a, b) + Span(b, c)
           /\ Span(a, b) <= Span(a, c) => Span(a, c) = Span(a, b) + Span(b, c)
<1>1. /\ Span(a, b) = IF a <= b THEN b - a ELSE b - a + IndexWrap
      /\ Span(b, c) = IF b <= c THEN c - b ELSE c - b + IndexWrap
      /\ Span(a, c) = IF a <= c THEN c - a ELSE c - a + IndexWrap
    BY SpanIs
<1> QED BY <1>1, Widths DEF TapIndex

\* Within the ring, different frames have different cells.
LEMMA CellsApart ==
    ASSUME NEW a \in TapIndex, NEW b \in TapIndex, Span(a, b) < RecordCapacity, Cell(a) = Cell(b)
    PROVE  a = b
<1>1. RecordCapacity \in Nat \ {0} /\ IndexWrap \in Nat
    BY TapAssumption
<1>2. a \in Int /\ b \in Int /\ a % RecordCapacity = b % RecordCapacity
    BY <1>1 DEF Cell, TapIndex
<1>3. CASE a <= b
    <2>1. b - a < RecordCapacity
        BY <1>3, SpanIs
    <2> QED BY <1>1, <1>2, <1>3, <2>1, SameSlot
<1>4. CASE b < a
    <2>1. b + IndexWrap - a < RecordCapacity
        BY <1>1, <1>2, <1>4, SpanIs
    <2>0. IndexWrap \in Int
        BY <1>1
    <2>2. PICK m \in Int : IndexWrap = m * RecordCapacity + (IndexWrap % RecordCapacity)
        BY ONLY <1>1, <2>0, Divide
    <2>3. IndexWrap = m * RecordCapacity
        BY <1>1, <2>2, TapAssumption
    <2>4. (b + m * RecordCapacity) % RecordCapacity = b % RecordCapacity
        BY <1>1, <1>2, Remainder
    <2>5. (b + IndexWrap) % RecordCapacity = a % RecordCapacity
        BY <1>2, <2>3, <2>4
    <2>6. b + IndexWrap - a > 0
        BY <1>1 DEF TapIndex
    <2>7. b + IndexWrap = a
        <3>1. b + IndexWrap \in Int /\ -RecordCapacity < (b + IndexWrap) - a /\ (b + IndexWrap) - a < RecordCapacity
            BY <1>1, <1>2, <2>1, <2>6
        <3> QED BY ONLY <1>1, <1>2, <2>5, <3>1, SameSlot
    <2> QED BY <1>1, <2>6, <2>7, <1>2
<1> QED BY <1>2, <1>3, <1>4

\* A frame has a cell.
LEMMA CellType ==
    ASSUME NEW a \in TapIndex
    PROVE  Cell(a) \in 0..(RecordCapacity - 1)
BY TapAssumption, Divide DEF Cell, TapIndex

-----------------------------------------------------------------------------
\* A new engine has an empty ring.
LEMMA TapStarts == Init => TapInv
<1> SUFFICES ASSUME Init PROVE TapInv
    OBVIOUS
<1>1. 0 \in TapIndex /\ ScratchFrames \in Nat
    BY TapAssumption DEF TapIndex
<1>2. /\ recordWrite = 0 /\ recordRead = 0 /\ recordDropped = 0 /\ recordActive = FALSE
      /\ recorded = [c \in 0..(RecordCapacity - 1) |-> Unwritten]
      /\ tap = NotTapping /\ drain = NotDraining /\ recorder = FALSE
      /\ tapHistory = [expected |-> 0, raced |-> FALSE, misTaken |-> FALSE]
    BY DEF Init, TapInit
<1>3. tap \in TapState /\ drain \in DrainState /\ tapHistory \in HistoryState
    BY <1>1, <1>2 DEF TapState, DrainState, HistoryState, NotTapping, NotDraining
<1>4. recordActive \in BOOLEAN /\ recorder \in BOOLEAN
    BY <1>2, Zenon
<1>5. \A c \in 0..(RecordCapacity - 1) : recorded[c] \notin TapIndex
    BY <1>2, TapAssumption DEF TapIndex
<1>6. recorded \in [0..(RecordCapacity - 1) -> TapIndex \union {Unwritten}]
    BY <1>2
<1>7. TapTyped
    BY <1>1, <1>2, <1>3, <1>4, <1>5, <1>6 DEF TapTyped
<1>8. Span(0, 0) = 0
    BY <1>1, SpanType
<1>9. TapOrdered /\ TapHolds /\ TapCounted
    <2>1. tap.pc = "off" /\ drain.pc = "idle" /\ tapHistory.expected = 0
        BY <1>2 DEF NotTapping, NotDraining
    <2>2. \A i \in TapIndex : ~(Span(0, i) < 0)
        BY <1>1, SpanType
    <2> QED BY <1>1, <1>2, <1>8, <2>1, <2>2, Widths DEF TapOrdered, TapHolds, TapCounted, WriteEnd
<1>10. ~tapHistory.misTaken
    BY <1>2
<1> QED BY <1>7, <1>9, <1>10 DEF TapInv

\* In a recording without a race, the spans between the indices.
LEMMA TapBounds ==
    ASSUME TapTyped, TapOrdered
    PROVE  /\ Span(recordRead, recordWrite) <= Span(recordRead, WriteEnd)
           /\ Span(recordRead, WriteEnd) <= RecordCapacity
           /\ tap.pc = "copy" =>
                 /\ Span(recordRead, tap.write) = Span(recordRead, recordWrite) + Span(recordWrite, tap.write)
                 /\ Span(tap.read, recordRead) + Span(recordRead, tap.write) = Span(tap.read, tap.write)
<1>1. CASE tap.pc = "copy"
    <2>1. /\ tap.write \in TapIndex /\ tap.read \in TapIndex /\ recordRead \in TapIndex /\ recordWrite \in TapIndex
        BY DEF TapTyped, TapState
    <2>2. /\ Span(tap.read, recordRead) \in Nat /\ Span(recordRead, recordWrite) \in Nat
          /\ Span(recordWrite, tap.write) \in Nat
        BY <2>1, SpanType
    <2>3. /\ Span(tap.read, recordRead) + Span(recordRead, recordWrite) + Span(recordWrite, tap.write)
                = Span(tap.read, tap.write)
          /\ Span(tap.read, tap.write) <= RecordCapacity
        BY <1>1 DEF TapOrdered
    <2>4. Span(recordRead, recordWrite) + Span(recordWrite, tap.write) < IndexWrap
        BY <2>2, <2>3, Widths
    <2>5. Span(recordRead, tap.write) = Span(recordRead, recordWrite) + Span(recordWrite, tap.write)
        BY <2>1, <2>4, SpanAdds
    <2> QED BY <1>1, <2>2, <2>3, <2>5, Widths DEF WriteEnd
<1>2. CASE tap.pc = "off"
    <2>1. Span(recordRead, recordWrite) \in Nat
        BY SpanType DEF TapTyped
    <2> QED BY <1>2, <2>1 DEF TapOrdered, WriteEnd
<1> QED BY <1>1, <1>2 DEF TapTyped, TapState

\* The block begins: the render thread loads both indices.
LEMMA TapBeginKeeps ==
    ASSUME TapInv, NEW n \in Blocks, TapBegin(n), UNCHANGED <<recordActive, drain, recorder>>
    PROVE  TapInv'
<1>1. /\ tap.pc = "off"
      /\ UNCHANGED <<recordWrite, recordRead, recordDropped, recordActive, recorded, drain, recorder, tapHistory>>
    BY DEF TapBegin
<1>2. TapTyped
    BY DEF TapInv
<1>3. CASE tap' = tap
    BY <1>1, <1>3 DEF TapInv, TapTyped, TapOrdered, TapHolds, TapCounted, WriteEnd
<1>4. CASE tap' = [pc |-> "copy", write |-> recordWrite, read |-> recordRead, left |-> n]
    <2>1. n \in Nat /\ n <= RecordCapacity
        BY TapAssumption
    <2>2. tap' \in TapState
        BY <1>2, <1>4, <2>1 DEF TapTyped, TapState
    <2>3. TapTyped'
        BY <1>1, <1>2, <2>2 DEF TapTyped
    <2>4. /\ Span(recordRead, recordRead) = 0 /\ Span(recordWrite, recordWrite) = 0
          /\ Span(recordRead, recordWrite) \in Nat
        BY <1>2, SpanType DEF TapTyped
    <2>5. ~tapHistory.raced => TapOrdered'
        BY <1>1, <1>4, <2>1, <2>4 DEF TapInv, TapOrdered
    <2>6. ~tapHistory.raced => TapHolds' /\ TapCounted'
        BY <1>1, <1>4 DEF TapInv, TapHolds, TapCounted, WriteEnd
    <2> QED BY <1>1, <2>3, <2>5, <2>6 DEF TapInv
<1> QED BY <1>3, <1>4 DEF TapBegin

\* The end of the block: the render thread publishes its index.
LEMMA TapPublishKeeps ==
    ASSUME TapInv, TapPublish, UNCHANGED <<recordActive, drain, recorder>>
    PROVE  TapInv'
<1>1. /\ tap.pc = "copy" /\ recordWrite' = tap.write /\ tap' = NotTapping
      /\ UNCHANGED <<recordRead, recordDropped, recordActive, recorded, drain, recorder, tapHistory>>
    BY DEF TapPublish
<1>2. /\ TapTyped /\ tap.write \in TapIndex /\ tap.read \in TapIndex
      /\ recordRead \in TapIndex /\ recordWrite \in TapIndex
      /\ drain.read \in TapIndex /\ drain.write \in TapIndex
    BY DEF TapInv, TapTyped, TapState, DrainState
<1>3. tap' \in TapState /\ tap'.pc = "off"
    BY <1>1, Widths DEF NotTapping, TapState, TapIndex
<1>4. TapTyped'
    BY <1>1, <1>2, <1>3 DEF TapTyped
<1>5. ASSUME ~tapHistory.raced
      PROVE  TapOrdered' /\ TapHolds' /\ TapCounted'
    <2>1. TapOrdered /\ TapHolds /\ TapCounted
        BY <1>5 DEF TapInv
    <2>2. /\ Span(recordRead, tap.write) = Span(recordRead, recordWrite) + Span(recordWrite, tap.write)
          /\ Span(recordRead, tap.write) <= RecordCapacity
        BY <1>1, <1>2, <2>1, TapBounds DEF WriteEnd
    <2>3. /\ Span(recordRead, recordWrite) \in Nat /\ Span(recordWrite, tap.write) \in Nat
          /\ Span(drain.write, recordWrite) \in Nat /\ Span(recordRead, drain.read) \in Nat
          /\ Span(drain.read, drain.write) \in Nat /\ Span(recordRead, drain.write) \in Nat
        BY <1>2, SpanType
    <2>4. drain.pc \in {"copy", "reset"} =>
            Span(drain.write, tap.write) = Span(drain.write, recordWrite) + Span(recordWrite, tap.write)
        <3>1. drain.pc \in {"copy", "reset"} => Span(drain.write, recordWrite) <= Span(recordRead, recordWrite)
            BY <2>1, <2>3 DEF TapOrdered
        <3>2. drain.pc \in {"copy", "reset"} =>
                Span(drain.write, recordWrite) + Span(recordWrite, tap.write) < IndexWrap
            BY <2>2, <2>3, <3>1, Widths
        <3> QED BY <1>2, <3>2, SpanAdds
    <2>5. TapOrdered'
        <3>1. drain.pc = "copy" =>
                Span(recordRead, drain.read) + Span(drain.read, drain.write) + Span(drain.write, tap.write)
                  = Span(recordRead, tap.write)
            <4>1. SUFFICES ASSUME drain.pc = "copy"
                           PROVE  Span(recordRead, drain.read) + Span(drain.read, drain.write)
                                    + Span(drain.write, tap.write) = Span(recordRead, tap.write)
                OBVIOUS
            <4>2. Span(recordRead, drain.read) + Span(drain.read, drain.write) + Span(drain.write, recordWrite)
                    = Span(recordRead, recordWrite)
                BY <2>1, <4>1 DEF TapOrdered
            <4> QED BY <2>2, <2>3, <2>4, <4>1, <4>2
        <3>2. drain.pc = "reset" =>
                Span(recordRead, drain.write) + Span(drain.write, tap.write) = Span(recordRead, tap.write)
            <4>1. SUFFICES ASSUME drain.pc = "reset"
                           PROVE  Span(recordRead, drain.write) + Span(drain.write, tap.write)
                                    = Span(recordRead, tap.write)
                OBVIOUS
            <4>2. Span(recordRead, drain.write) + Span(drain.write, recordWrite) = Span(recordRead, recordWrite)
                BY <2>1, <4>1 DEF TapOrdered
            <4> QED BY <2>2, <2>3, <2>4, <4>1, <4>2
        <3> QED BY <1>1, <1>3, <2>1, <2>2, <3>1, <3>2 DEF TapOrdered
    <2>6. TapHolds' /\ TapCounted'
        BY <1>1, <1>3, <2>1 DEF TapHolds, TapCounted, WriteEnd
    <2> QED BY <2>5, <2>6
<1> QED BY <1>1, <1>4, <1>5 DEF TapInv

\* The frame in the cell that is written is not one between the reader and the
\* writer.
LEMMA FrameStored ==
    ASSUME NEW r \in TapIndex, NEW w \in TapIndex, Span(r, w) < RecordCapacity,
           NEW cells \in [0..(RecordCapacity - 1) -> TapIndex \union {Unwritten}],
           \A i \in TapIndex : Span(r, i) < Span(r, w) => cells[Cell(i)] = i
    PROVE  \A i \in TapIndex : Span(r, i) < Span(r, Next1(w)) => [cells EXCEPT ![Cell(w)] = w][Cell(i)] = i
<1>1. SUFFICES ASSUME NEW i \in TapIndex, Span(r, i) < Span(r, Next1(w))
               PROVE  [cells EXCEPT ![Cell(w)] = w][Cell(i)] = i
    OBVIOUS
<1>2. Cell(i) \in 0..(RecordCapacity - 1) /\ Cell(w) \in 0..(RecordCapacity - 1)
    BY CellType
<1>3. CASE i = w
    BY <1>2, <1>3
<1>4. CASE i # w
    <2>1. Span(r, i) \in Nat /\ Span(r, w) \in Nat /\ Span(i, w) \in Nat /\ Span(i, w) # 0
        BY <1>4, SpanType
    <2>2. Span(r, Next1(w)) = Span(r, w) + 1
        BY <2>1, SpanGrows, Widths
    <2>3. Span(r, w) = Span(r, i) + Span(i, w)
        BY <1>1, <2>1, <2>2, SpanAdds
    <2>4. Span(r, i) < Span(r, w) /\ Span(i, w) < RecordCapacity
        BY <2>1, <2>3, Widths
    <2>5. Cell(i) # Cell(w)
        BY <1>4, <2>4, CellsApart
    <2> QED BY <1>2, <2>4, <2>5
<1> QED BY <1>3, <1>4

\* A frame of the block, and the oldest one dropped for it.
LEMMA TapFrameKeeps ==
    ASSUME TapInv, TapFrame, UNCHANGED <<recordActive, drain, recorder>>
    PROVE  TapInv'
<1>1. /\ tap.pc = "copy" /\ tap.left > 0
      /\ UNCHANGED <<recordWrite, recordActive, drain, recorder>>
      /\ recorded' = [recorded EXCEPT ![Cell(tap.write)] = tap.write]
      /\ tap' = [tap EXCEPT !.write = Next1(@), !.left = @ - 1, !.read = IF RingFull THEN Next1(@) ELSE @]
    BY DEF TapFrame
<1>2. /\ TapTyped /\ tap.write \in TapIndex /\ tap.read \in TapIndex /\ tap.left \in Nat
      /\ recordRead \in TapIndex /\ recordWrite \in TapIndex
      /\ recordDropped \in TapIndex /\ tapHistory.expected \in TapIndex
    BY DEF TapInv, TapTyped, TapState, HistoryState
<1>3. Next1(tap.write) \in TapIndex /\ Next1(tap.read) \in TapIndex
      /\ Next1(recordRead) \in TapIndex /\ Next1(recordDropped) \in TapIndex
    BY <1>2, NextIs
<1>4. /\ tap' \in TapState /\ tap'.pc = "copy" /\ tap'.write = Next1(tap.write) /\ tap'.left = tap.left - 1
      /\ tap'.read = IF RingFull THEN Next1(tap.read) ELSE tap.read
    <2> DEFINE r == IF RingFull THEN Next1(tap.read) ELSE tap.read
    <2>1. r \in TapIndex /\ tap.left - 1 \in Nat
        BY <1>1, <1>2, <1>3
    <2>2. tap' = [tap EXCEPT !.write = Next1(tap.write), !.left = tap.left - 1, !.read = r]
        BY <1>1, <1>2 DEF TapTyped, TapState
    <2> HIDE DEF r
    <2>3. /\ tap' \in TapState /\ tap'.pc = "copy" /\ tap'.write = Next1(tap.write) /\ tap'.left = tap.left - 1
          /\ tap'.read = r
        BY <1>1, <1>2, <1>3, <2>1, <2>2 DEF TapTyped, TapState
    <2> QED BY <2>3 DEF r
<1>5. /\ recordRead' = IF RingFull THEN Next1(recordRead) ELSE recordRead
      /\ recordDropped' = IF RingFull THEN Next1(recordDropped) ELSE recordDropped
      /\ tapHistory' = IF RingFull /\ (HoldsIndex \/ tap.read # recordRead)
                       THEN [tapHistory EXCEPT !.raced = TRUE, !.expected = 0] ELSE tapHistory
    BY DEF TapFrame, DropOldest
<1>6. tapHistory' \in HistoryState /\ tapHistory'.misTaken = tapHistory.misTaken
    <2>1. 0 \in TapIndex
        BY Widths DEF TapIndex
    <2>2. tapHistory \in HistoryState
        BY <1>2 DEF TapTyped
    <2>3. tapHistory' = tapHistory \/ tapHistory' = [tapHistory EXCEPT !.raced = TRUE, !.expected = 0]
        BY <1>5
    <2> QED BY <2>1, <2>2, <2>3 DEF HistoryState
<1>7. recorded' \in [0..(RecordCapacity - 1) -> TapIndex \union {Unwritten}]
      /\ \A c \in 0..(RecordCapacity - 1) : recorded'[c] \in TapIndex => Cell(recorded'[c]) = c
    BY <1>1, <1>2, CellType DEF TapTyped
<1>8. TapTyped'
    BY <1>1, <1>2, <1>3, <1>4, <1>5, <1>6, <1>7 DEF TapTyped
<1>9. ASSUME ~tapHistory'.raced
      PROVE  TapOrdered' /\ TapHolds' /\ TapCounted'
    <2>1. tapHistory' = tapHistory /\ (RingFull => ~HoldsIndex /\ tap.read = recordRead)
        BY <1>2, <1>5, <1>9 DEF TapTyped, HistoryState
    <2>2. TapOrdered /\ TapHolds /\ TapCounted
        BY <1>9, <2>1 DEF TapInv
    <2>3. /\ Span(tap.read, recordRead) + Span(recordRead, recordWrite) + Span(recordWrite, tap.write)
                = Span(tap.read, tap.write)
          /\ Span(tap.read, tap.write) <= RecordCapacity
          /\ Span(recordWrite, tap.write) + tap.left <= RecordCapacity
        BY <1>1, <2>2 DEF TapOrdered
    <2>4. /\ Span(recordRead, tap.write) = Span(recordRead, recordWrite) + Span(recordWrite, tap.write)
          /\ Span(tap.read, recordRead) + Span(recordRead, tap.write) = Span(tap.read, tap.write)
        BY <1>1, <1>2, <2>2, TapBounds
    <2>5. /\ Span(recordRead, recordWrite) \in Nat /\ Span(recordWrite, tap.write) \in Nat
          /\ Span(tap.read, recordRead) \in Nat /\ Span(tap.read, tap.write) \in Nat
          /\ Span(recordRead, tap.write) \in Nat
        BY <1>2, SpanType
    <2>6. Span(recordWrite, Next1(tap.write)) = Span(recordWrite, tap.write) + 1
        <3>1. Span(recordWrite, tap.write) < IndexWrap - 1
            BY <1>1, <1>2, <2>3, <2>5, Widths
        <3> QED BY <1>2, <3>1, SpanGrows
    <2>7. \A i \in TapIndex : Span(recordRead, i) < Span(recordRead, tap.write) => recorded[Cell(i)] = i
        BY <1>1, <2>2 DEF TapHolds, WriteEnd
    <2>8. CASE RingFull
        <3>1. Span(tap.read, tap.write) = RecordCapacity /\ Span(tap.read, recordRead) = 0 /\ tap.read = recordRead
            BY <1>2, <2>1, <2>3, <2>5, <2>8, SpanType, Widths DEF RingFull
        <3>2. recordRead # recordWrite /\ recordRead # tap.write
            <4>1. Span(recordRead, recordWrite) # 0 /\ Span(recordRead, tap.write) # 0
                BY <1>1, <1>2, <2>3, <2>4, <2>5, <3>1, Widths
            <4> QED BY <1>2, <4>1, SpanType
        <3>3. /\ Span(Next1(recordRead), recordWrite) = Span(recordRead, recordWrite) - 1
              /\ Span(Next1(recordRead), tap.write) = Span(recordRead, tap.write) - 1
              /\ Span(Next1(recordRead), Next1(tap.write)) = Span(recordRead, tap.write)
              /\ Span(Next1(recordRead), Next1(recordRead)) = 0
            BY <1>2, <1>3, <3>2, SpanShrinks, SpanMoves, SpanType
        <3>4. recordRead' = Next1(recordRead) /\ tap'.read = Next1(recordRead) /\ recordDropped' = Next1(recordDropped)
            BY <1>4, <1>5, <2>8, <3>1
        <3>5. TapOrdered'
            <4>1. drain.pc \notin {"loadWrite", "copy", "reset"}
                BY <2>1, <2>8 DEF HoldsIndex
            <4> QED BY <1>1, <1>2, <1>4, <2>3, <2>4, <2>5, <2>6, <3>1, <3>3, <3>4, <4>1, Widths DEF TapOrdered
        <3>6. TapHolds'
            <4>1. ASSUME NEW i \in TapIndex, Span(Next1(recordRead), i) < Span(Next1(recordRead), tap.write)
                  PROVE  recorded[Cell(i)] = i
                <5>1. CASE i = recordRead
                    <6>1. Span(recordRead, i) = 0
                        BY <1>2, <5>1, SpanType
                    <6> QED BY <2>4, <2>5, <2>7, <3>1, <6>1, Widths
                <5>2. CASE i # recordRead
                    <6>1. Span(Next1(recordRead), i) = Span(recordRead, i) - 1 /\ Span(recordRead, i) \in Nat
                        BY <1>2, <5>2, SpanShrinks, SpanType
                    <6> QED BY <2>5, <2>7, <3>3, <4>1, <6>1
                <5> QED BY <5>1, <5>2
            <4>2. Span(Next1(recordRead), tap.write) < RecordCapacity
                BY <2>4, <2>5, <3>1, <3>3, Widths
            <4>3. \A i \in TapIndex : Span(Next1(recordRead), i) < Span(Next1(recordRead), Next1(tap.write))
                                        => [recorded EXCEPT ![Cell(tap.write)] = tap.write][Cell(i)] = i
                BY <1>2, <1>3, <4>1, <4>2, FrameStored DEF TapTyped
            <4> QED BY <1>1, <1>4, <3>4, <4>3 DEF TapHolds, WriteEnd
        <3>7. TapCounted'
            <4>1. drain.pc \in {"idle", "again", "activate", "deactivate"}
                BY <1>2, <2>1, <2>8 DEF HoldsIndex, TapTyped, DrainState
            <4>2. Span(tapHistory.expected, Next1(recordRead)) = Next1(Span(tapHistory.expected, recordRead))
                BY <1>2, SpanGrows
            <4> QED BY <1>1, <2>1, <2>2, <3>4, <4>1, <4>2 DEF TapCounted
        <3> QED BY <3>5, <3>6, <3>7
    <2>9. CASE ~RingFull
        <3>1. recordRead' = recordRead /\ recordDropped' = recordDropped /\ tap'.read = tap.read
            BY <1>4, <1>5, <2>9
        <3>2. Span(tap.read, tap.write) < RecordCapacity
            BY <2>5, <2>9, Widths DEF RingFull
        <3>3. Span(tap.read, Next1(tap.write)) = Span(tap.read, tap.write) + 1
            BY <1>2, <2>5, <3>2, SpanGrows, Widths
        <3>4. TapOrdered'
            <4>1. UNCHANGED <<recordRead, recordWrite, drain>>
                BY <1>1, <3>1
            <4>2. /\ Span(tap'.read, recordRead') + Span(recordRead', recordWrite') + Span(recordWrite', tap'.write)
                       = Span(tap'.read, tap'.write)
                  /\ Span(tap'.read, tap'.write) <= RecordCapacity
                  /\ Span(recordWrite', tap'.write) + tap'.left <= RecordCapacity
                BY <1>2, <1>4, <2>3, <2>5, <2>6, <3>1, <3>2, <3>3, <4>1, Widths
            <4> QED BY <1>4, <2>2, <4>1, <4>2 DEF TapOrdered
        <3>5. TapHolds'
            <4>1. Span(recordRead, tap.write) < RecordCapacity
                BY <2>4, <2>5, <3>2, Widths
            <4>2. \A i \in TapIndex : Span(recordRead, i) < Span(recordRead, Next1(tap.write))
                                        => [recorded EXCEPT ![Cell(tap.write)] = tap.write][Cell(i)] = i
                BY <1>2, <2>7, <4>1, FrameStored DEF TapTyped
            <4> QED BY <1>1, <1>4, <3>1, <4>2 DEF TapHolds, WriteEnd
        <3>6. TapCounted'
            BY <1>1, <2>1, <2>2, <3>1 DEF TapCounted
        <3> QED BY <3>4, <3>5, <3>6
    <2> QED BY <2>8, <2>9
<1> QED BY <1>6, <1>8, <1>9 DEF TapInv

\* A call of the recorder, up to its first step.
LEMMA RecordCallKeeps ==
    ASSUME TapInv, RecordCall
    PROVE  TapInv'
<1>1. UNCHANGED <<recordWrite, recordRead, recordDropped, recordActive, recorded, tap, tapHistory>>
    BY DEF RecordCall, HostTap, drainRecordTap, startRecording, stopRecording
<1>2. TapTyped /\ drain.pc = "idle" /\ recordRead \in TapIndex /\ recordWrite \in TapIndex
    BY DEF TapInv, TapTyped, RecordCall, drainRecordTap, startRecording, stopRecording
<1>3. 0 \in TapIndex /\ 0 \in 0..ScratchFrames
    BY TapAssumption, Widths DEF TapIndex
<1>4. \/ /\ drain' \in DrainState /\ drain'.pc = "loadWrite" /\ drain'.read = recordRead
         /\ recorder' = recorder
      \/ /\ drain' \in DrainState /\ drain'.pc = "reset" /\ drain'.write = recordWrite
         /\ recorder' = TRUE
    <2>1. CASE drainRecordTap \/ stopRecording
        BY <1>2, <1>3, <2>1 DEF drainRecordTap, stopRecording, DrainFrom, DrainState
    <2>2. CASE startRecording
        BY <1>2, <1>3, <2>2 DEF startRecording, NotDraining, DrainState
    <2> QED BY <2>1, <2>2 DEF RecordCall
<1>5. TapTyped'
    BY <1>1, <1>2, <1>4 DEF TapTyped
<1>6. ASSUME ~tapHistory.raced
      PROVE  TapOrdered' /\ TapHolds' /\ TapCounted'
    <2>1. TapOrdered /\ TapHolds /\ TapCounted
        BY <1>6 DEF TapInv
    <2>2. Span(recordWrite, recordWrite) = 0 /\ Span(recordRead, recordWrite) \in Nat
        BY <1>2, SpanType
    <2>3. TapOrdered'
        BY <1>1, <1>4, <2>1, <2>2 DEF TapOrdered
    <2>4. TapHolds' /\ TapCounted'
        BY <1>1, <1>2, <1>4, <2>1 DEF TapHolds, TapCounted, WriteEnd
    <2> QED BY <2>3, <2>4
<1> QED BY <1>1, <1>5, <1>6 DEF TapInv

\* The reader's index moves on to one between it and the writer's.
LEMMA ReaderMoves ==
    ASSUME TapTyped, TapOrdered, TapHolds, NEW r \in TapIndex,
           Span(recordRead, r) + Span(r, recordWrite) = Span(recordRead, recordWrite),
           recordRead' = r, UNCHANGED <<recordWrite, recorded, tap>>,
           drain'.pc \notin {"loadWrite", "copy", "reset"}
    PROVE  TapOrdered' /\ TapHolds'
<1>1. /\ recordRead \in TapIndex /\ recordWrite \in TapIndex /\ tap.read \in TapIndex /\ tap.write \in TapIndex
      /\ tap.pc \in {"off", "copy"} /\ WriteEnd \in TapIndex /\ WriteEnd' = WriteEnd
    BY DEF TapTyped, TapState, WriteEnd
<1>2. /\ Span(recordRead, r) \in Nat /\ Span(r, recordWrite) \in Nat
      /\ Span(recordRead, recordWrite) \in Nat /\ Span(tap.read, recordRead) \in Nat
      /\ Span(recordWrite, tap.write) \in Nat /\ Span(recordRead, WriteEnd) \in Nat
      /\ Span(r, WriteEnd) \in Nat
    BY <1>1, SpanType
<1>3. /\ Span(recordRead, recordWrite) <= Span(recordRead, WriteEnd)
      /\ Span(recordRead, WriteEnd) <= RecordCapacity
    BY TapBounds
<1>4. TapOrdered'
    <2>1. CASE tap.pc = "copy"
        <3>1. /\ Span(tap.read, recordRead) + Span(recordRead, recordWrite) + Span(recordWrite, tap.write)
                    = Span(tap.read, tap.write)
              /\ Span(tap.read, tap.write) <= RecordCapacity
              /\ Span(recordWrite, tap.write) + tap.left <= RecordCapacity
            BY <2>1 DEF TapOrdered
        <3>2. Span(tap.read, recordRead) + Span(recordRead, r) < IndexWrap
            BY <1>2, <3>1, Widths
        <3>3. Span(tap.read, r) = Span(tap.read, recordRead) + Span(recordRead, r)
            BY <1>1, <3>2, SpanAdds
        <3>4. Span(tap.read, r) + Span(r, recordWrite) + Span(recordWrite, tap.write) = Span(tap.read, tap.write)
            BY <1>2, <3>1, <3>3
        <3> QED BY <2>1, <3>1, <3>4 DEF TapOrdered
    <2>2. CASE tap.pc = "off"
        <3>1. Span(r, recordWrite) <= RecordCapacity
            BY <1>2, <1>3, Widths
        <3> QED BY <2>2, <3>1 DEF TapOrdered
    <2> QED BY <1>1, <2>1, <2>2
<1>5. ASSUME NEW i \in TapIndex, Span(r, i) < Span(r, WriteEnd)
      PROVE  recorded[Cell(i)] = i
    <2>1. Span(recordRead, r) <= Span(recordRead, WriteEnd)
        BY <1>2, <1>3
    <2>2. Span(recordRead, WriteEnd) = Span(recordRead, r) + Span(r, WriteEnd)
        BY <1>1, <2>1, SpanAdds
    <2>3. Span(r, i) \in Nat
        BY SpanType
    <2>4. Span(recordRead, r) + Span(r, i) < IndexWrap
        BY <1>2, <1>3, <1>5, <2>2, <2>3, Widths
    <2>5. Span(recordRead, i) = Span(recordRead, r) + Span(r, i)
        BY <1>1, <2>4, SpanAdds
    <2>6. Span(recordRead, i) < Span(recordRead, WriteEnd)
        BY <1>2, <1>5, <2>2, <2>3, <2>5
    <2> QED BY <2>6 DEF TapHolds
<1>6. TapHolds'
    BY <1>1, <1>5 DEF TapHolds
<1> QED BY <1>4, <1>6

\* drainRecordTap.
LEMMA DrainKeeps ==
    ASSUME TapInv, HostTap, DrainLoadWrite \/ DrainCopy \/ DrainStore \/ DrainAgain
    PROVE  TapInv'
<1>1. UNCHANGED <<recordWrite, recordDropped, recordActive, recorded, tap, recorder>>
    BY DEF HostTap, DrainLoadWrite, DrainCopy, DrainStore, DrainAgain
<1>2. /\ TapTyped /\ recordRead \in TapIndex /\ recordWrite \in TapIndex
      /\ drain \in DrainState /\ drain.read \in TapIndex /\ drain.write \in TapIndex
      /\ drain.count \in 0..ScratchFrames /\ drain.then \in {"idle", "deactivate"}
      /\ tapHistory \in HistoryState /\ tapHistory.expected \in TapIndex
    BY DEF TapInv, TapTyped, DrainState, HistoryState
<1>3. 0 \in TapIndex /\ 0 \in 0..ScratchFrames /\ ScratchFrames \in Nat
    BY TapAssumption, Widths DEF TapIndex
<1>4. /\ Span(recordRead, recordRead) = 0 /\ Span(recordWrite, recordWrite) = 0
      /\ Span(recordRead, recordWrite) \in Nat /\ Span(recordRead, drain.read) \in Nat
      /\ Span(drain.read, drain.write) \in Nat /\ Span(drain.write, recordWrite) \in Nat
    BY <1>2, SpanType
<1>5. CASE DrainLoadWrite
    <2>1. /\ drain.pc = "loadWrite" /\ drain' = [drain EXCEPT !.pc = "copy", !.write = recordWrite]
          /\ UNCHANGED <<recordRead, tapHistory>>
        BY <1>5 DEF DrainLoadWrite
    <2>2. /\ drain' \in DrainState /\ drain'.pc = "copy" /\ drain'.write = recordWrite /\ drain'.read = drain.read
        BY <1>2, <2>1 DEF DrainState
    <2>3. TapTyped'
        BY <1>1, <1>2, <2>1, <2>2 DEF TapTyped
    <2>4. ASSUME ~tapHistory.raced PROVE TapOrdered' /\ TapHolds' /\ TapCounted'
        <3>1. TapOrdered /\ TapHolds /\ TapCounted /\ drain.read = recordRead
            BY <2>1, <2>4 DEF TapInv, TapOrdered
        <3>2. Span(recordRead, drain.read) + Span(drain.read, recordWrite) + Span(recordWrite, recordWrite)
                = Span(recordRead, recordWrite)
            BY <1>4, <3>1
        <3>3. TapOrdered'
            BY <1>1, <2>1, <2>2, <3>1, <3>2 DEF TapOrdered
        <3>4. TapHolds' /\ TapCounted'
            BY <1>1, <2>1, <2>2, <3>1 DEF TapHolds, TapCounted, WriteEnd
        <3> QED BY <3>3, <3>4
    <2> QED BY <2>1, <2>3, <2>4 DEF TapInv
<1>6. CASE DrainCopy
    <2>1. /\ drain.pc = "copy" /\ drain.read # drain.write /\ drain.count < ScratchFrames
          /\ drain' = [drain EXCEPT !.read = Next1(drain.read), !.count = drain.count + 1]
          /\ tapHistory' = [tapHistory EXCEPT
                  !.expected = IF tapHistory.raced THEN 0 ELSE Next1(tapHistory.expected),
                  !.misTaken = tapHistory.misTaken
                               \/ (~tapHistory.raced /\ recorded[Cell(drain.read)] # drain.read)]
          /\ recordRead' = recordRead
        BY <1>2, <1>6 DEF DrainCopy, HistoryState, DrainState
    <2>2. Next1(drain.read) \in TapIndex /\ Next1(tapHistory.expected) \in TapIndex
        BY <1>2, NextIs
    <2>3. /\ drain' \in DrainState /\ drain'.pc = "copy" /\ drain'.write = drain.write
          /\ drain'.read = Next1(drain.read)
        <3>1. drain.count + 1 \in 0..ScratchFrames
            BY <1>2, <1>3, <2>1
        <3> QED BY <1>2, <2>1, <2>2, <3>1 DEF DrainState
    <2>4. ASSUME ~tapHistory.raced PROVE recorded[Cell(drain.read)] = drain.read
        <3>1. TapOrdered /\ TapHolds
            BY <2>4 DEF TapInv
        <3>2. Span(recordRead, drain.read) + Span(drain.read, drain.write) + Span(drain.write, recordWrite)
                = Span(recordRead, recordWrite)
            BY <2>1, <3>1 DEF TapOrdered
        <3>3. Span(drain.read, drain.write) # 0
            BY <1>2, <2>1, SpanType
        <3>4. Span(recordRead, recordWrite) <= Span(recordRead, WriteEnd) /\ Span(recordRead, WriteEnd) \in Nat
            <4>1. WriteEnd \in TapIndex
                BY <1>2 DEF TapTyped, TapState, WriteEnd
            <4> QED BY <1>2, <3>1, <4>1, TapBounds, SpanType
        <3>5. Span(recordRead, drain.read) < Span(recordRead, WriteEnd)
            BY <1>4, <3>2, <3>3, <3>4
        <3> QED BY <1>2, <3>1, <3>5 DEF TapHolds
    <2>5. /\ tapHistory' \in HistoryState /\ tapHistory'.raced = tapHistory.raced /\ ~tapHistory'.misTaken
          /\ ~tapHistory.raced => tapHistory'.expected = Next1(tapHistory.expected)
        <3>1. ~tapHistory.misTaken
            BY DEF TapInv
        <3>2. CASE tapHistory.raced
            <4>1. tapHistory' = [tapHistory EXCEPT !.expected = 0, !.misTaken = FALSE]
                BY <2>1, <3>1, <3>2
            <4> QED BY <1>2, <1>3, <3>2, <4>1 DEF HistoryState
        <3>3. CASE ~tapHistory.raced
            <4>1. tapHistory' = [tapHistory EXCEPT !.expected = Next1(tapHistory.expected), !.misTaken = FALSE]
                BY <2>1, <2>4, <3>1, <3>3
            <4> QED BY <1>2, <2>2, <3>3, <4>1 DEF HistoryState
        <3> QED BY <3>2, <3>3
    <2>6. TapTyped'
        BY <1>1, <1>2, <2>1, <2>3, <2>5 DEF TapTyped
    <2>7. ASSUME ~tapHistory.raced PROVE TapOrdered' /\ TapHolds' /\ TapCounted'
        <3>1. TapOrdered /\ TapHolds /\ TapCounted
            BY <2>7 DEF TapInv
        <3>2. Span(recordRead, drain.read) + Span(drain.read, drain.write) + Span(drain.write, recordWrite)
                = Span(recordRead, recordWrite)
            BY <2>1, <3>1 DEF TapOrdered
        <3>3. Span(recordRead, recordWrite) <= RecordCapacity
            <4>1. Span(recordRead, recordWrite) <= Span(recordRead, WriteEnd)
                  /\ Span(recordRead, WriteEnd) <= RecordCapacity
                BY <1>2, <3>1, TapBounds
            <4>2. WriteEnd \in TapIndex
                BY <1>2 DEF TapTyped, TapState, WriteEnd
            <4>3. Span(recordRead, WriteEnd) \in Nat
                BY <1>2, <4>2, SpanType
            <4> QED BY <1>4, <4>1, <4>3, Widths
        <3>4. Span(recordRead, Next1(drain.read)) = Span(recordRead, drain.read) + 1
            BY <1>2, <1>4, <3>2, <3>3, SpanGrows, Widths
        <3>5. Span(Next1(drain.read), drain.write) = Span(drain.read, drain.write) - 1
            BY <1>2, <2>1, SpanShrinks
        <3>6. Span(recordRead, Next1(drain.read)) + Span(Next1(drain.read), drain.write)
                + Span(drain.write, recordWrite) = Span(recordRead, recordWrite)
            BY <1>4, <3>2, <3>4, <3>5
        <3>7. TapOrdered'
            BY <1>1, <2>1, <2>3, <3>1, <3>6 DEF TapOrdered
        <3>8. TapHolds'
            BY <1>1, <2>1, <3>1 DEF TapHolds, WriteEnd
        <3>9. TapCounted'
            <4>1. Span(Next1(tapHistory.expected), Next1(drain.read)) = Span(tapHistory.expected, drain.read)
                BY <1>2, SpanMoves
            <4> QED BY <1>1, <2>1, <2>3, <2>5, <2>7, <3>1, <4>1 DEF TapCounted
        <3> QED BY <3>7, <3>8, <3>9
    <2> QED BY <2>5, <2>6, <2>7 DEF TapInv
<1>7. CASE DrainStore
    <2>1. /\ drain.pc = "copy" /\ recordRead' = drain.read /\ tapHistory' = tapHistory
          /\ drain' = [NotDraining EXCEPT !.pc = IF drain.count = ScratchFrames THEN "again" ELSE drain.then,
                                          !.then = drain.then]
        BY <1>7 DEF DrainStore
    <2>2. drain' \in DrainState /\ drain'.pc \in {"again", "idle", "deactivate"}
        BY <1>2, <1>3, <2>1 DEF NotDraining, DrainState
    <2>3. TapTyped'
        BY <1>1, <1>2, <2>1, <2>2 DEF TapTyped
    <2>4. ASSUME ~tapHistory.raced PROVE TapOrdered' /\ TapHolds' /\ TapCounted'
        <3>1. TapOrdered /\ TapHolds /\ TapCounted
            BY <2>4 DEF TapInv
        <3>2. Span(recordRead, drain.read) + Span(drain.read, drain.write) + Span(drain.write, recordWrite)
                = Span(recordRead, recordWrite)
            BY <2>1, <3>1 DEF TapOrdered
        <3>3. Span(drain.read, drain.write) + Span(drain.write, recordWrite) < IndexWrap
            <4>1. Span(recordRead, recordWrite) < IndexWrap
                BY <1>2, SpanType
            <4> QED BY <1>4, <3>2, <4>1, Widths
        <3>4. Span(drain.read, recordWrite) = Span(drain.read, drain.write) + Span(drain.write, recordWrite)
            BY <1>2, <3>3, SpanAdds
        <3>5. Span(recordRead, drain.read) + Span(drain.read, recordWrite) = Span(recordRead, recordWrite)
            BY <1>4, <3>2, <3>4
        <3>6. TapOrdered' /\ TapHolds'
            BY <1>1, <1>2, <2>1, <2>2, <3>1, <3>5, ReaderMoves
        <3>7. TapCounted'
            BY <1>1, <2>1, <2>2, <3>1 DEF TapCounted
        <3> QED BY <3>6, <3>7
    <2> QED BY <2>1, <2>3, <2>4 DEF TapInv
<1>8. CASE DrainAgain
    <2>1. /\ drain.pc = "again" /\ drain' = DrainFrom(drain.then) /\ UNCHANGED <<recordRead, tapHistory>>
        BY <1>8 DEF DrainAgain
    <2>2. drain' \in DrainState /\ drain'.pc = "loadWrite" /\ drain'.read = recordRead
        BY <1>2, <1>3, <2>1 DEF DrainFrom, DrainState
    <2>3. TapTyped'
        BY <1>1, <1>2, <2>1, <2>2 DEF TapTyped
    <2>4. ASSUME ~tapHistory.raced PROVE TapOrdered' /\ TapHolds' /\ TapCounted'
        <3>1. TapOrdered'
            BY <1>1, <2>1, <2>2, <2>4 DEF TapInv, TapOrdered
        <3>2. TapHolds' /\ TapCounted'
            BY <1>1, <2>1, <2>2, <2>4 DEF TapInv, TapHolds, TapCounted, WriteEnd
        <3> QED BY <3>1, <3>2
    <2> QED BY <2>1, <2>3, <2>4 DEF TapInv
<1> QED BY <1>5, <1>6, <1>7, <1>8

\* pe_record_reset, and the flag of a recording.
LEMMA ResetKeeps ==
    ASSUME TapInv, HostTap, ResetRead \/ ResetDropped \/ Activate \/ Deactivate
    PROVE  TapInv'
<1>1. UNCHANGED <<recordWrite, recorded, tap>>
    BY DEF HostTap
<1>2. /\ TapTyped /\ recordRead \in TapIndex /\ recordWrite \in TapIndex /\ drain.write \in TapIndex
      /\ tapHistory \in HistoryState /\ tapHistory.expected \in TapIndex
    BY DEF TapInv, TapTyped, DrainState, HistoryState
<1>3. 0 \in TapIndex /\ 0 \in 0..ScratchFrames
    BY TapAssumption, Widths DEF TapIndex
<1>4. /\ NotDraining \in DrainState /\ NotDraining.pc = "idle"
      /\ [NotDraining EXCEPT !.pc = "forget"] \in DrainState
      /\ [NotDraining EXCEPT !.pc = "activate"] \in DrainState
    BY <1>3 DEF NotDraining, DrainState
<1>5. CASE ResetRead
    <2>1. /\ drain.pc = "reset" /\ recordRead' = drain.write /\ drain' = [NotDraining EXCEPT !.pc = "forget"]
          /\ UNCHANGED <<recordDropped, recordActive, recorder>>
          /\ \/ tapHistory.raced /\ tapHistory' = tapHistory
             \/ /\ tapHistory' = [tapHistory EXCEPT !.expected = drain.write, !.raced = FALSE]
                /\ tapHistory.raced => tap.pc = "off" /\ recordWrite = drain.write
        BY <1>5 DEF ResetRead
    <2>2. drain' \in DrainState /\ drain'.pc = "forget"
        BY <1>4, <2>1 DEF NotDraining
    <2>3. /\ tapHistory' \in HistoryState /\ tapHistory'.misTaken = tapHistory.misTaken
          /\ ~tapHistory'.raced => tapHistory'.expected = drain.write
          /\ ~tapHistory'.raced /\ tapHistory.raced => tap.pc = "off" /\ recordWrite = drain.write
        BY <1>2, <2>1 DEF HistoryState
    <2>4. TapTyped'
        BY <1>1, <1>2, <2>1, <2>2, <2>3 DEF TapTyped
    <2>5. ASSUME ~tapHistory'.raced PROVE TapOrdered' /\ TapHolds' /\ TapCounted'
        <3>1. TapCounted'
            <4>1. tapHistory'.expected = drain.write
                BY <2>3, <2>5, Zenon
            <4> QED BY <2>1, <2>2, <4>1 DEF TapCounted
        <3>2. CASE tapHistory.raced
            <4>1. tap.pc = "off" /\ recordWrite = drain.write
                BY <2>3, <2>5, <3>2, Zenon
            <4>2. Span(recordWrite, recordWrite) = 0
                BY <1>2, SpanType
            <4>3. TapOrdered'
                BY <1>1, <2>1, <2>2, <4>1, <4>2, Widths DEF TapOrdered
            <4>4. TapHolds'
                <5>1. \A i \in TapIndex : ~(Span(recordWrite, i) < 0)
                    BY <1>2, SpanType
                <5> QED BY <1>1, <2>1, <4>1, <4>2, <5>1 DEF TapHolds, WriteEnd
            <4> QED BY <3>1, <4>3, <4>4
        <3>3. CASE ~tapHistory.raced
            <4>1. TapOrdered /\ TapHolds
                BY <3>3 DEF TapInv
            <4>2. Span(recordRead, drain.write) + Span(drain.write, recordWrite) = Span(recordRead, recordWrite)
                BY <2>1, <4>1 DEF TapOrdered
            <4>3. TapOrdered' /\ TapHolds'
                BY <1>1, <1>2, <2>1, <2>2, <4>1, <4>2, ReaderMoves
            <4> QED BY <3>1, <4>3
        <3> QED BY <3>2, <3>3
    <2> QED BY <2>3, <2>4, <2>5 DEF TapInv
<1>6. CASE ResetDropped
    <2>1. /\ drain.pc = "forget" /\ recordDropped' = 0 /\ drain' = [NotDraining EXCEPT !.pc = "activate"]
          /\ UNCHANGED <<recordRead, recordActive, recorder, tapHistory>>
        BY <1>6 DEF ResetDropped
    <2>2. drain' \in DrainState /\ drain'.pc = "activate"
        BY <1>4, <2>1 DEF NotDraining
    <2>3. TapTyped'
        BY <1>1, <1>2, <1>3, <2>1, <2>2 DEF TapTyped
    <2>4. ASSUME ~tapHistory.raced PROVE TapOrdered' /\ TapHolds' /\ TapCounted'
        <3>1. TapOrdered' /\ TapHolds'
            BY <1>1, <2>1, <2>2, <2>4 DEF TapInv, TapOrdered, TapHolds, WriteEnd
        <3>2. tapHistory.expected = recordRead
            BY <2>1, <2>4 DEF TapInv, TapCounted
        <3>3. Span(recordRead, recordRead) = 0
            BY <1>2, SpanType
        <3> QED BY <2>1, <2>2, <3>1, <3>2, <3>3 DEF TapCounted
    <2> QED BY <2>1, <2>3, <2>4 DEF TapInv
<1>7. CASE Activate \/ Deactivate
    <2>1. /\ drain.pc \in {"activate", "deactivate"} /\ drain' = NotDraining
          /\ recordActive' \in {TRUE, FALSE} /\ recorder' \in {recorder, FALSE}
          /\ UNCHANGED <<recordRead, recordDropped, tapHistory>>
        BY <1>7 DEF Activate, Deactivate
    <2>2. drain' \in DrainState /\ drain'.pc = "idle"
        BY <1>4, <2>1
    <2>3. recordActive' \in BOOLEAN /\ recorder' \in BOOLEAN
        BY <1>2, <2>1, Zenon DEF TapTyped
    <2>4. TapTyped'
        BY <1>1, <1>2, <2>1, <2>2, <2>3 DEF TapTyped
    <2>5. ASSUME ~tapHistory.raced PROVE TapOrdered' /\ TapHolds' /\ TapCounted'
        <3>1. TapOrdered' /\ TapHolds'
            BY <1>1, <2>1, <2>2, <2>5 DEF TapInv, TapOrdered, TapHolds, WriteEnd
        <3>2. TapCounted'
            BY <2>1, <2>2, <2>5 DEF TapInv, TapCounted
        <3> QED BY <3>1, <3>2
    <2> QED BY <2>1, <2>4, <2>5 DEF TapInv
<1> QED BY <1>5, <1>6, <1>7

\* The other seams leave the tap alone.
LEMMA TapFramed ==
    ASSUME TapInv, UNCHANGED tapVars
    PROVE  TapInv'
BY DEF tapVars, TapInv, TapTyped, TapOrdered, TapHolds, TapCounted, WriteEnd

\* Every step of the engine, for the tap.
LEMMA TapKeeps == Staged /\ TapInv /\ [Next]_vars => TapInv'
<1> SUFFICES ASSUME Staged, TapInv, [Next]_vars PROVE TapInv'
    OBVIOUS
<1>1. CASE UNCHANGED vars
    BY <1>1, TapFramed DEF vars
<1>2. CASE Render
    <2>1. CASE RenderTap
        <3>1. frames \in Blocks
            BY <2>1 DEF RenderTap, Staged
        <3> QED BY <2>1, <3>1, TapBeginKeeps, TapFrameKeeps, TapPublishKeeps DEF RenderTap, RecordTapStep
    <2>2. CASE RenderCommands \/ RenderTransition \/ RenderDecks \/ RenderBuses \/ EndBlock
        BY <2>2, TapFramed DEF RenderCommands, RenderTransition, RenderDecks, RenderBuses, EndBlock
    <2> QED BY <1>2, <2>1, <2>2 DEF Render
<1>3. CASE Control
    <2>1. CASE CallTap
        BY <2>1, RecordCallKeeps DEF CallTap
    <2>2. CASE CallInsertSeam \/ CallTransition \/ CallDeck \/ CallPlay \/ Tick
        BY <2>2, TapFramed DEF CallInsertSeam, CallTransition, CallDeck, CallPlay, Tick
    <2>3. CASE InCall
        <3>1. CASE RecordStep
            BY <3>1, DrainKeeps, ResetKeeps DEF RecordStep
        <3>2. CASE UNCHANGED tapVars
            BY <3>2, TapFramed
        <3> QED BY <2>3, <3>1, <3>2 DEF InCall
    <2> QED BY <1>3, <2>1, <2>2, <2>3 DEF Control
<1> QED BY <1>1, <1>2, <1>3 DEF Next

LEMMA TapAlways == Spec => [](Staged /\ TapInv)
<1>1. Init => Staged /\ TapInv
    BY StagedStarts, TapStarts
<1>2. Staged /\ TapInv /\ [Next]_vars => (Staged /\ TapInv)'
    BY StagedKeeps, TapKeeps
<1> QED BY <1>1, <1>2, PTL DEF Spec

\* In a recording without a race the reader's index stays behind the published
\* one and within the ring, whatever both threads have written to it.
THEOREM CursorsBounded == Spec => []TapCursors
<1>1. TapInv => TapCursors
    <2> SUFFICES ASSUME TapInv, ~tapHistory.raced PROVE Span(recordRead, recordWrite) <= RecordCapacity
        BY DEF TapCursors, Raced
    <2>1. TapTyped /\ TapOrdered
        BY DEF TapInv
    <2>2. WriteEnd \in TapIndex /\ recordRead \in TapIndex /\ recordWrite \in TapIndex
        BY <2>1 DEF TapTyped, TapState, WriteEnd
    <2>3. Span(recordRead, recordWrite) \in Nat /\ Span(recordRead, WriteEnd) \in Nat
        BY <2>2, SpanType
    <2> QED BY <2>1, <2>3, TapBounds, Widths
<1> QED BY <1>1, TapAlways, PTL

\* Every frame since the reset that has left the ring went to the recorder or
\* into the count, modulo the width of both.
THEOREM FramesAccounted == Spec => []TapAccounts
<1>1. TapInv => TapAccounts
    BY DEF TapInv, TapCounted, TapAccounts, Raced
<1> QED BY <1>1, TapAlways, PTL

\* The recorder gets the frames its indices stand for, in order: none is
\* overwritten under the drain.
THEOREM FramesInOrder == Spec => []TapInOrder
<1>1. TapInv => TapInOrder
    BY DEF TapInv, TapInOrder
<1> QED BY <1>1, TapAlways, PTL

-----------------------------------------------------------------------------
(* Types *)

\* What is left of a block to a deck.
ReaderWithin == reader.left <= frames

\* A deck renders the frames of the block, one by one.
LEMMA WithinKeeps == Staged /\ PcmInv /\ ReaderWithin /\ [Next]_vars => ReaderWithin'
<1> SUFFICES ASSUME Staged, PcmInv, ReaderWithin, [Next]_vars PROVE ReaderWithin'
    OBVIOUS
<1>1. /\ reader.left \in Nat /\ (reader.pc = "off" <=> reader.left = 0) /\ frames \in Nat
    BY TapAssumption DEF PcmInv, PcmTyped, Staged
<1>2. CASE UNCHANGED <<reader, frames>>
    BY <1>2 DEF ReaderWithin
<1>3. CASE UNCHANGED vars
    BY <1>2, <1>3 DEF vars, pcmVars
<1>4. CASE Control
    <2>1. UNCHANGED reader
        BY <1>4 DEF Control, CallInsertSeam, CallTap, CallTransition, CallDeck, CallPlay, Tick, InCall, pcmVars,
                    LoadCall, StemCall, Load, ArmStem, DropStem, DisarmStems, Stores, play, pause, Post, PcmStep
    <2> QED BY <1>2, <1>4, <2>1 DEF Control
<1>5. CASE Render
    <2>1. CASE RenderCommands
        <3>1. reader' = reader /\ reader.left = 0 /\ frames' \in Nat
            BY <1>1, <2>1, TapAssumption DEF RenderCommands, DrainCommands, Staged
        <3> QED BY <3>1 DEF ReaderWithin
    <2>2. CASE RenderTransition \/ RenderBuses \/ RenderTap
        BY <1>2, <2>2 DEF RenderTransition, RenderBuses, RenderTap, pcmVars
    <2>3. CASE EndBlock
        <3>1. reader' = reader /\ reader.left = 0 /\ frames' = 0
            BY <1>1, <2>3 DEF EndBlock, Staged, pcmVars
        <3> QED BY <3>1 DEF ReaderWithin
    <2>4. CASE RenderDecks
        <3>1. RenderDeck(frames) /\ frames' = frames
            BY <2>4 DEF RenderDecks
        <3>2. \/ reader'.left = frames
              \/ reader'.left = reader.left
              \/ reader' = Leave(reader) /\ reader.left # 0
            <4>1. CASE PcmBegin(frames)
                BY <4>1 DEF PcmBegin, PcmInv, PcmTyped
            <4>2. CASE Decide
                BY <1>1, <4>2 DEF Decide, PcmInv, PcmTyped
            <4>3. CASE Place \/ Take
                <5>1. reader'.left = reader.left
                    BY <4>3 DEF Place, Take, PcmInv, PcmTyped
                <5> QED BY <5>1
            <4>4. CASE Advance
                BY <1>1, <4>4 DEF Advance
            <4> QED BY <3>1, <4>1, <4>2, <4>3, <4>4 DEF RenderDeck
        <3>3. ASSUME reader' = Leave(reader), reader.left # 0
              PROVE  reader'.left \in Nat /\ reader'.left <= reader.left
            BY <1>1, <3>3 DEF Leave, NotReading
        <3> QED BY <1>1, <3>1, <3>2, <3>3 DEF ReaderWithin
    <2> QED BY <1>5, <2>1, <2>2, <2>3, <2>4 DEF Render
<1> QED BY <1>3, <1>4, <1>5 DEF Next

\* Every variable of the running engine keeps its type: no index leaves its
\* width, no frame is in another frame's cell, no curve leaves its range.
THEOREM LiveTyped == Spec => []TypeOK
<1>1. ASSUME Staged, InsertInv, PcmInv, TransitionInv, TapInv, ReaderWithin
      PROVE  TypeOK
    <2>1. /\ insertFn \in Inserts \union {Null} /\ insertCtx \in Inserts \union {Null}
          /\ inserts \in Inserts \union {Null}
        BY <1>1 DEF InsertInv, InsertTyped
    <2>2. /\ recordWrite \in TapIndex /\ recordRead \in TapIndex /\ recordDropped \in TapIndex
          /\ recordActive \in BOOLEAN /\ recorder \in BOOLEAN
          /\ \A c \in DOMAIN recorded : recorded[c] \in TapIndex \union {Unwritten}
                                        /\ (recorded[c] \in TapIndex => Cell(recorded[c]) = c)
          /\ drain.count \in 0..ScratchFrames
        BY <1>1 DEF TapInv, TapTyped, DrainState
    <2>3. /\ transitionActive \in BOOLEAN /\ beatFXOn \in BOOLEAN
          /\ crossfader \in -2..2 /\ control.crossfader \in -2..2
          /\ eqLow \in [Decks -> {"flat", "cut"}]
          /\ masterFrame \in 0..MaxFrame /\ sf.last \in 0..MaxFrame
        BY <1>1 DEF TransitionInv, TransitionTyped, ControlState, FaderState, EqState
    <2>4. /\ {buffer, stemBuffer, deck.channels, deck.stemChannels} \subseteq Pcms \union {NoPcm}
          /\ deck.position \in Nat /\ deck.motor \in {0, 1}
        BY <1>1 DEF PcmInv, PcmTyped
    <2>5. reader.left \in 0..frames
        BY <1>1, TapAssumption DEF PcmInv, PcmTyped, ReaderWithin, Staged
    <2>6. /\ stage \in {"commands", "transition", "decks", "buses", "tap", "clock"}
          /\ frames \in Blocks \union {0}
        BY <1>1 DEF Staged
    <2> QED BY <2>1, <2>2, <2>3, <2>4, <2>5, <2>6 DEF TypeOK
<1>2. Init => Staged /\ InsertInv /\ PcmInv /\ ReaderWithin
    <2>1. Init => ReaderWithin
        BY DEF Init, PcmInit, NotReading, ReaderWithin
    <2> QED BY <2>1, StagedStarts, InsertStarts, PcmStarts
<1>3. Staged /\ InsertInv /\ PcmInv /\ ReaderWithin /\ [Next]_vars
      => (Staged /\ InsertInv /\ PcmInv /\ ReaderWithin)'
    BY StagedKeeps, InsertKeeps, PcmKeeps, WithinKeeps
<1> QED BY <1>1, <1>2, <1>3, TransitionAlways, TapAlways, PTL DEF Spec
=============================================================================
