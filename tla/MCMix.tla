------------------------------- MODULE MCMix -------------------------------
(***************************************************************************)
(* Values for checking MixEngine: two decks, one short track, blocks of up *)
(* to two frames, so that a start frame, the end of a track and the end of *)
(* a recipe can each fall inside a block or on its edge.  One start frame  *)
(* lies beyond the timeline: only a stop ends that wait.                   *)
(***************************************************************************)
EXTENDS MixEngine, TLC

CONSTANT t1

MCLength == t1 :> 1

MCFroms == {0}

MCTempos == {2}

MCStarts == {1, 99}

BassSwap == [route |-> [kind |-> "bassSwap", outgoing |-> 0, incoming |-> 1], clock |-> 2]

Cut == [route |-> [kind |-> "cut", outgoing |-> 1, incoming |-> 0], clock |-> 2]

MCRecipes == {BassSwap}

MCTwoRecipes == {BassSwap, Cut}
=============================================================================
