----------------------------- MODULE InsertSeam -----------------------------
(***************************************************************************)
(* An insert of the engine: an effect the app hangs into a bus while the   *)
(* render thread may be calling the one before it.  Function and context   *)
(* are two atomics; the host keeps the object alive that the context       *)
(* points to.  One insert point: points share nothing.                     *)
(***************************************************************************)
EXTENDS Integers

CONSTANTS Inserts,  \* effects; as a function and as a context each stands for itself
          Null

ASSUME InsertAssumption == Null \notin Inserts

VARIABLES
    insertFn, insertCtx,    \* the two atomics
    inserts,                \* the host's strong reference, or Null
    setter,                 \* [pc, new]: where setInsert is
    caller,                 \* [pc, fn, ctx]: where applyInsert is
    changed,                \* history: a live insert is being taken away
    misCalled               \* history: a call that was not of a whole, living insert

insertVars == <<insertFn, insertCtx, inserts, setter, caller, changed, misCalled>>

NotSetting == [pc |-> "idle", new |-> Null]
NotCalling == [pc |-> "off", fn |-> Null, ctx |-> Null]

InsertInit ==
    /\ insertFn = Null /\ insertCtx = Null /\ inserts = Null
    /\ setter = NotSetting /\ caller = NotCalling
    /\ changed = FALSE /\ misCalled = FALSE

-----------------------------------------------------------------------------
(* Mixer.setInsert and pe_set_insert *)

\* The dictionary lets go of the insert before the engine hears of it.
SetInsert(o) ==
    /\ setter.pc = "idle" /\ o # inserts
    /\ inserts' = o
    /\ setter' = [pc |-> IF o = Null THEN "clearFn" ELSE "ctx", new |-> o]
    /\ changed' = (changed \/ insertFn # Null)
    /\ UNCHANGED <<insertFn, insertCtx, caller, misCalled>>

Settled == setter' = NotSetting /\ changed' = (changed /\ caller.pc # "off")

ClearFn == /\ setter.pc = "clearFn" /\ insertFn' = Null
           /\ setter' = [setter EXCEPT !.pc = "clearCtx"]
           /\ UNCHANGED <<insertCtx, changed>>

ClearCtx == /\ setter.pc = "clearCtx" /\ insertCtx' = Null /\ Settled
            /\ UNCHANGED insertFn

StoreFnFirst ==
    \/ /\ setter.pc = "ctx" /\ insertFn' = setter.new
       /\ setter' = [setter EXCEPT !.pc = "fn"] /\ UNCHANGED <<insertCtx, changed>>
    \/ /\ setter.pc = "fn" /\ insertCtx' = setter.new /\ Settled
       /\ UNCHANGED insertFn

StoreCtxFirst ==
    \/ /\ setter.pc = "ctx" /\ insertCtx' = setter.new
       /\ setter' = [setter EXCEPT !.pc = "fn"] /\ UNCHANGED <<insertFn, changed>>
    \/ /\ setter.pc = "fn" /\ insertFn' = setter.new /\ Settled
       /\ UNCHANGED insertCtx

SetInsertStep == /\ ClearFn \/ ClearCtx \/ StoreCtxFirst
                 /\ UNCHANGED <<inserts, caller, misCalled>>

-----------------------------------------------------------------------------
(* applyInsert *)

LoadFn == /\ caller.pc = "off"
          /\ caller' = IF insertFn = Null THEN caller ELSE [caller EXCEPT !.pc = "ctx", !.fn = insertFn]
          /\ UNCHANGED <<changed, misCalled>>

LoadCtx == /\ caller.pc = "ctx"
           /\ caller' = [caller EXCEPT !.pc = "call", !.ctx = insertCtx]
           /\ UNCHANGED <<changed, misCalled>>

CallInsert ==
    /\ caller.pc = "call" /\ caller' = NotCalling
    /\ misCalled' = (misCalled \/ (~changed /\ ~(caller.fn = caller.ctx /\ caller.fn = inserts)))
    /\ changed' = (changed /\ setter.pc # "idle")

ApplyInsert == /\ LoadFn \/ LoadCtx \/ CallInsert
               /\ UNCHANGED <<insertFn, insertCtx, inserts, setter>>

-----------------------------------------------------------------------------
(***************************************************************************)
(* "fn is loaded before ctx and cleared first by pe_set_insert, so a live  *)
(* fn never sees a stale ctx": what the render thread calls is one insert, *)
(* function and context, and the host keeps it alive -- as long as no live *)
(* insert was being replaced or removed during the call.  An insert put    *)
(* into an empty point is safe at any moment.                              *)
(***************************************************************************)
InsertWhole == ~misCalled
=============================================================================
