------------------------ MODULE ScheduledTransition -------------------------
(***************************************************************************)
(* An assisted transition is driven twice.  The render thread moves        *)
(* crossfader, low EQs and Beat FX along the sample clock from a plan of   *)
(* separate atomics (applyScheduledTransition); the host's SmartFader      *)
(* moves the same controls along its own clock, in its control structure,  *)
(* and publishes the whole structure at every change (pe_set_control).     *)
(*                                                                         *)
(* Progress is counted in quarters: the thresholds 0.35, 0.60 and 0.70 of  *)
(* the code lie at 2, 3 and 3 of them.  The crossfader is -2..2, a low EQ  *)
(* is cut or flat.                                                         *)
(***************************************************************************)
EXTENDS Integers, FiniteSetsExt

CONSTANTS
    Decks,      \* 0, 1, ...
    Plans,      \* [outgoing, incoming, quick, tail, frames]: what the app may arm
    MaxFrame    \* bound on masterFrame

ASSUME TransitionAssumption ==
    /\ Decks \subseteq Nat /\ MaxFrame \in Nat
    /\ \A q \in Plans : /\ q.outgoing \in Decks /\ q.incoming \in Decks \ {q.outgoing}
                        /\ q.quick \in BOOLEAN /\ q.tail \in BOOLEAN
                        /\ q.frames \in 1..MaxFrame

VARIABLES
    transitionActive, plan,             \* the plan's atomics
    crossfader, eqLow, beatFXOn,        \* engine->control
    masterFrame,
    apply,      \* the render thread's locals
    control,    \* the host's control structure: [crossfader, eqLow, beatFXOn]
    sf,         \* SmartFader: [state, plan, tailEngaged, last]
    armer,      \* where arm, tick or cancel is: [pc, p]
    fate        \* history: [plans, overlapped, mixed, orphaned]

transitionVars == <<transitionActive, plan, crossfader, eqLow, beatFXOn, masterFrame,
                    apply, control, sf, armer, fate>>

NoPlan == [outgoing |-> 0, incoming |-> 0, quick |-> FALSE, tail |-> FALSE, start |-> 0, end |-> 0]
NotApplying == [pc |-> "off", plan |-> NoPlan, frame |-> 0]
NotArming == [pc |-> "idle", p |-> 0]

Flat == [d \in Decks |-> "flat"]

TransitionInit ==
    /\ transitionActive = FALSE /\ plan = NoPlan
    /\ crossfader = 0 /\ eqLow = Flat /\ beatFXOn = FALSE /\ masterFrame = 0
    /\ apply = NotApplying
    /\ control = [crossfader |-> 0, eqLow |-> Flat, beatFXOn |-> FALSE]
    /\ sf = [state |-> "idle", plan |-> NoPlan, tailEngaged |-> FALSE, last |-> 0]
    /\ armer = NotArming
    /\ fate = [plans |-> {}, overlapped |-> FALSE, mixed |-> FALSE, orphaned |-> FALSE]

-----------------------------------------------------------------------------
(* The curve, the same on both sides *)

Progress(q, frame) ==
    LET gone == (4 * (frame - q.start)) \div (q.end - q.start)
    IN  Min({gone, 4})

CrossfaderAt(q, p) == IF q.outgoing <= q.incoming THEN p - 2 ELSE 2 - p
IncomingAt(q, p) == IF p >= (IF q.quick THEN 2 ELSE 3) THEN "flat" ELSE "cut"
OutgoingAt(p) == IF p >= 3 THEN "cut" ELSE "flat"
TailAt(q, p) == q.tail /\ p >= 3

-----------------------------------------------------------------------------
(* applyScheduledTransition: loads one by one, then stores one by one *)

Engaged == sf.state \in {"armed", "running", "tail"}

P == Progress(apply.plan, apply.frame)

Goto(pc) == apply' = [apply EXCEPT !.pc = pc]
EngineControls == <<crossfader, eqLow, beatFXOn>>

LoadActive ==
    /\ apply.pc = "off"
    /\ IF transitionActive THEN Goto("start") ELSE UNCHANGED apply
    /\ UNCHANGED <<transitionActive, EngineControls, fate>>

LoadStart ==
    /\ apply.pc = "start"
    /\ apply' = [apply EXCEPT !.pc = "end", !.plan.start = plan.start]
    /\ UNCHANGED <<transitionActive, EngineControls, fate>>

\* The end, the clock, and the return of a plan that is not due.
LoadEnd ==
    /\ apply.pc = "end"
    /\ apply' = IF plan.end <= apply.plan.start \/ masterFrame < apply.plan.start THEN NotApplying
                ELSE [apply EXCEPT !.pc = "decks", !.plan.end = plan.end, !.frame = masterFrame]
    /\ UNCHANGED <<transitionActive, EngineControls, fate>>

LoadOutgoing ==
    /\ apply.pc = "decks"
    /\ apply' = [apply EXCEPT !.pc = "incoming", !.plan.outgoing = plan.outgoing]
    /\ UNCHANGED <<transitionActive, EngineControls, fate>>

\* A torn plan from a deck to itself is dropped.
LoadIncoming ==
    /\ apply.pc = "incoming"
    /\ IF plan.incoming = apply.plan.outgoing
       THEN transitionActive' = FALSE /\ apply' = NotApplying
       ELSE /\ apply' = [apply EXCEPT !.pc = "crossfader", !.plan.incoming = plan.incoming]
            /\ UNCHANGED transitionActive
    /\ UNCHANGED <<EngineControls, fate>>

StoreCrossfader ==
    /\ apply.pc = "crossfader"
    /\ crossfader' = CrossfaderAt(apply.plan, P)
    /\ apply' = [apply EXCEPT !.pc = "eqIn", !.plan.quick = plan.quick]
    /\ UNCHANGED <<transitionActive, eqLow, beatFXOn, fate>>

StoreIncoming ==
    /\ apply.pc = "eqIn"
    /\ eqLow' = [eqLow EXCEPT ![apply.plan.incoming] = IncomingAt(apply.plan, P)]
    /\ Goto("eqOut")
    /\ UNCHANGED <<transitionActive, crossfader, beatFXOn, fate>>

StoreOutgoing ==
    /\ apply.pc = "eqOut"
    /\ eqLow' = [eqLow EXCEPT ![apply.plan.outgoing] = OutgoingAt(P)]
    /\ Goto("tail")
    /\ UNCHANGED <<transitionActive, crossfader, beatFXOn, fate>>

EndReached == P >= 3

AtEnd == P = 4

\* fate: whether the plan applied was ever scheduled, and whether Beat FX goes
\* on when the host is no longer there to let it go.
StoreTail ==
    LET q  == [apply.plan EXCEPT !.tail = plan.tail]
        on == TailAt(q, P)
    IN  /\ apply.pc = "tail"
        /\ beatFXOn' = (beatFXOn \/ on)
        /\ apply' = IF AtEnd THEN [apply EXCEPT !.pc = "flatten", !.plan = q] ELSE NotApplying
        /\ fate' = [fate EXCEPT !.mixed = @ \/ (~fate.overlapped /\ q \notin fate.plans),
                                !.orphaned = @ \/ (on /\ ~Engaged)]
        /\ UNCHANGED <<transitionActive, crossfader, eqLow>>

FlattenIncoming ==
    /\ apply.pc = "flatten" /\ Goto("clear")
    /\ eqLow' = [eqLow EXCEPT ![apply.plan.incoming] = "flat"]
    /\ UNCHANGED <<transitionActive, crossfader, beatFXOn, fate>>

Flatten ==
    /\ apply.pc = "flatten" /\ Goto("clear")
    /\ eqLow' = [eqLow EXCEPT ![apply.plan.incoming] = "flat", ![apply.plan.outgoing] = "flat"]
    /\ UNCHANGED <<transitionActive, crossfader, beatFXOn, fate>>

ClearActive ==
    /\ apply.pc = "clear"
    /\ transitionActive' = FALSE /\ apply' = NotApplying
    /\ UNCHANGED <<EngineControls, fate>>

ApplyTransition ==
    /\ \/ LoadActive \/ LoadStart \/ LoadEnd \/ LoadOutgoing \/ LoadIncoming \/ StoreCrossfader
       \/ StoreIncoming \/ StoreOutgoing \/ StoreTail \/ Flatten \/ ClearActive
    /\ UNCHANGED <<plan, masterFrame, control, sf, armer>>

\* masterFrame.fetch_add at the end of render, up to the bound.  Frames are
\* counted from the first arm: plans are relative to the clock.
AdvanceClockWhileIdle(frames) ==
    /\ masterFrame' = IF transitionActive \/ fate.plans = {} THEN masterFrame
                      ELSE Min({masterFrame + frames, MaxFrame})
    /\ UNCHANGED <<transitionActive, plan, EngineControls, apply, control, sf, armer, fate>>

AdvanceClock(frames) ==
    /\ masterFrame' = IF fate.plans = {} THEN 0 ELSE Min({masterFrame + frames, MaxFrame})
    /\ UNCHANGED <<transitionActive, plan, EngineControls, apply, control, sf, armer, fate>>

-----------------------------------------------------------------------------
(* SmartFader on the main actor *)

\* pe_set_control with the host's structure.
Publish(c) ==
    /\ control' = c
    /\ crossfader' = c.crossfader /\ eqLow' = c.eqLow /\ beatFXOn' = c.beatFXOn

Kept == UNCHANGED <<control, EngineControls>>
At(pc) == armer' = [armer EXCEPT !.pc = pc]

\* arm accepts a new plan whatever became of the one before.
arm ==
    /\ armer.pc = "idle"
    /\ \E q \in Plans, start \in masterFrame..(masterFrame + 1) :
          /\ start + q.frames <= MaxFrame
          /\ LET new == [outgoing |-> q.outgoing, incoming |-> q.incoming, quick |-> q.quick,
                         tail |-> q.tail, start |-> start, end |-> start + q.frames]
             IN  /\ sf' = [state |-> "armed", plan |-> new, tailEngaged |-> FALSE, last |-> start]
                 /\ Publish([control EXCEPT !.crossfader = CrossfaderAt(new, 0)])
                 /\ fate' = [plans |-> fate.plans \union {new}, mixed |-> fate.mixed, orphaned |-> control.beatFXOn,
                             overlapped |-> transitionActive \/ apply.pc # "off"]
    /\ At("armEqs")
    /\ UNCHANGED <<transitionActive, plan>>

ArmEqs == /\ armer.pc = "armEqs" /\ At("outgoing")
          /\ Publish([control EXCEPT !.eqLow[sf.plan.incoming] = "cut", !.eqLow[sf.plan.outgoing] = "flat"])
          /\ UNCHANGED <<transitionActive, plan, sf, fate>>

\* pe_schedule_transition, store by store.
ScheduleActiveFirst ==
    /\ \/ armer.pc = "outgoing" /\ At("incoming")
          /\ plan' = [plan EXCEPT !.outgoing = sf.plan.outgoing] /\ transitionActive' = TRUE
       \/ armer.pc = "incoming" /\ At("recipe")
          /\ plan' = [plan EXCEPT !.incoming = sf.plan.incoming] /\ UNCHANGED transitionActive
       \/ armer.pc = "recipe" /\ At("start")
          /\ plan' = [plan EXCEPT !.quick = sf.plan.quick, !.tail = sf.plan.tail] /\ UNCHANGED transitionActive
       \/ armer.pc = "start" /\ At("end")
          /\ plan' = [plan EXCEPT !.start = sf.plan.start] /\ UNCHANGED transitionActive
       \/ armer.pc = "end" /\ armer' = NotArming
          /\ plan' = [plan EXCEPT !.end = sf.plan.end] /\ UNCHANGED transitionActive
    /\ Kept /\ UNCHANGED <<sf, fate>>

Schedule ==
    /\ \/ armer.pc = "outgoing" /\ At("incoming")
          /\ plan' = [plan EXCEPT !.outgoing = sf.plan.outgoing] /\ UNCHANGED transitionActive
       \/ armer.pc = "incoming" /\ At("recipe")
          /\ plan' = [plan EXCEPT !.incoming = sf.plan.incoming] /\ UNCHANGED transitionActive
       \/ armer.pc = "recipe" /\ At("start")
          /\ plan' = [plan EXCEPT !.quick = sf.plan.quick, !.tail = sf.plan.tail] /\ UNCHANGED transitionActive
       \/ armer.pc = "start" /\ At("end")
          /\ plan' = [plan EXCEPT !.start = sf.plan.start] /\ UNCHANGED transitionActive
       \/ armer.pc = "end" /\ At("active")
          /\ plan' = [plan EXCEPT !.end = sf.plan.end] /\ UNCHANGED transitionActive
       \/ armer.pc = "active" /\ armer' = NotArming
          /\ transitionActive' = TRUE /\ UNCHANGED plan
    /\ Kept /\ UNCHANGED <<sf, fate>>

\* tickLegacy and tick: the host's clock is the time since arm, by any amount,
\* counted from the start of the plan and cut off at its end.
tick ==
    /\ armer.pc = "idle" /\ Engaged
    /\ \E last \in (sf.last + 1)..sf.plan.end :
          LET p == Progress(sf.plan, last)
          IN  /\ sf' = [sf EXCEPT !.last = last, !.state = IF @ = "armed" THEN "running" ELSE @]
              /\ Publish([control EXCEPT !.crossfader = CrossfaderAt(sf.plan, p)])
              /\ armer' = [pc |-> "tickEqs", p |-> p]
    /\ UNCHANGED <<transitionActive, plan, fate>>

TickEqs == /\ armer.pc = "tickEqs" /\ At("tickTail")
           /\ Publish([control EXCEPT !.eqLow[sf.plan.incoming] = IncomingAt(sf.plan, armer.p),
                                      !.eqLow[sf.plan.outgoing] = OutgoingAt(armer.p)])
           /\ UNCHANGED sf

TickTail ==
    /\ armer.pc = "tickTail"
    /\ armer' = IF armer.p = 4 THEN [armer EXCEPT !.pc = "tickEnd"] ELSE NotArming
    /\ IF ~sf.tailEngaged /\ TailAt(sf.plan, armer.p)
       THEN /\ sf' = [sf EXCEPT !.tailEngaged = TRUE, !.state = "tail"]
            /\ Publish([control EXCEPT !.beatFXOn = TRUE])
       ELSE Kept /\ UNCHANGED sf

TickEnd == /\ armer.pc = "tickEnd" /\ At("tickDone")
           /\ Publish([control EXCEPT !.eqLow[sf.plan.incoming] = "flat",
                                      !.eqLow[sf.plan.outgoing] = "flat"])
           /\ UNCHANGED sf

TickDoneKeepingTail ==
    /\ armer.pc = "tickDone" /\ armer' = NotArming
    /\ sf' = [sf EXCEPT !.state = "completed"] /\ Kept

TickDone ==
    /\ armer.pc = "tickDone" /\ armer' = NotArming
    /\ sf' = [sf EXCEPT !.state = "completed"]
    /\ IF sf.tailEngaged THEN Publish([control EXCEPT !.beatFXOn = FALSE]) ELSE Kept

TickStep == /\ TickEqs \/ TickTail \/ TickEnd \/ TickDone
            /\ UNCHANGED <<transitionActive, plan, fate>>

\* cancel: Beat FX off if the host knows of the tail, then the flag.
cancel ==
    /\ armer.pc = "idle" /\ Engaged
    /\ sf' = [sf EXCEPT !.state = "cancelled"]
    /\ IF sf.tailEngaged THEN Publish([control EXCEPT !.beatFXOn = FALSE]) ELSE Kept
    /\ At("cancel")
    /\ UNCHANGED <<transitionActive, plan, fate>>

CancelActive == /\ armer.pc = "cancel" /\ armer' = NotArming
                /\ transitionActive' = FALSE
                /\ Kept /\ UNCHANGED <<plan, sf, fate>>

HostTransition == UNCHANGED <<masterFrame, apply>>

TransitionCall == HostTransition /\ (arm \/ cancel)
TransitionTick == HostTransition /\ tick
TransitionStep == HostTransition /\ (ArmEqs \/ Schedule \/ TickStep \/ CancelActive)

-----------------------------------------------------------------------------
(***************************************************************************)
(* Properties.  overlapped: the last plan was armed while the render       *)
(* thread was still at one before it; nothing is promised then.            *)
(***************************************************************************)
\* The render thread applies one scheduled plan, not parts of two, although a
\* plan is seven stores and six loads.
TransitionWhole == ~fate.mixed

\* The render thread ends a transition at the end of the plan that is scheduled
\* then, and at no other moment.
TransitionKept ==
    [][ (transitionActive /\ ~transitionActive' /\ apply.pc # "off" /\ apply' # apply)
        => fate.overlapped \/ masterFrame >= plan.end ]_transitionVars

BothDone == /\ sf.state = "completed" /\ armer.pc = "idle"
            /\ ~transitionActive /\ apply.pc = "off" /\ ~fate.overlapped

\* When the engine and the host are both through with a plan, each on its own
\* clock, the mixer stands at the incoming deck with both low EQs flat, whichever
\* of them was last.
DriversMeet == BothDone => /\ crossfader = CrossfaderAt(sf.plan, 4)
                           /\ eqLow[sf.plan.incoming] = "flat" /\ eqLow[sf.plan.outgoing] = "flat"

\* Beat FX of the tail is off then, unless nobody is left to let it go: the
\* engine came to its tail after the host was through, or the plan was armed
\* while the host was still in the tail of the one before.
TailReleased == BothDone /\ beatFXOn => fate.orphaned

\* A transition comes to its end by the render thread alone.
TransitionEnds == transitionActive ~> ~transitionActive
=============================================================================
