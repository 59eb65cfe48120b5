------------------------------ MODULE MixHost ------------------------------
(***************************************************************************)
(* The Swift owner of a mix engine (Sources/ParsoMixEngine/MixEngine.swift)*)
(* composed with the C core.  The core only borrows the PCM of a deck; the *)
(* owner keeps it alive in `loaded', which it fills after a successful     *)
(* prepare and empties after a successful reset.                           *)
(***************************************************************************)
EXTENDS MixEngine

VARIABLE loaded     \* loaded[d]: the PCM kept alive for deck d

hostVars == <<vars, loaded>>

HostInit == Init /\ loaded = [d \in Deck |-> NoTrack]

(* prepare: the buffer is the caller's until pm_deck_prepare has returned. *)
HostPrepared ==
    /\ PrepareHandBack
    /\ loaded' = [loaded EXCEPT ![call.deck] = deck[call.deck].track]

(* reset: "a finished deck back to idle; drops its PCM".                   *)
HostReset(d) == Reset(d) /\ loaded' = [loaded EXCEPT ![d] = NoTrack]

HostNext ==
    \/ HostPrepared
    \/ \E d \in Deck : HostReset(d)
    \/ /\ \/ \E d \in Deck, t \in Tracks, p \in Froms, k \in Tempos : Prepare(d, t, p, k)
          \/ \E d \in Deck, f \in Starts : Start(d, f)
          \/ \E d \in Deck : Stop(d)
          \/ \E r \in Recipes \cup {NoRecipe} : Schedule(r)
          \/ PrepareFields \/ StartArm \/ ScheduleClock \/ ScheduleVersion
          \/ Render
       /\ UNCHANGED loaded

HostSpec == HostInit /\ [][HostNext]_hostVars

-----------------------------------------------------------------------------
(* The PCM a deck is armed with or plays is the PCM its owner keeps alive  *)
(* (MixEngine.swift:64, "PCM each deck plays; kept alive here because the  *)
(* C core borrows it").                                                    *)
BorrowedAlive ==
    \A d \in Deck : state[d] \in {"ARMED", "PLAYING"} => loaded[d] = deck[d].track
=============================================================================
