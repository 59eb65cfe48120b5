----------------------------- MODULE MCMixHost -----------------------------
(* The values of MCMix for the composition with the Swift owner.           *)
EXTENDS MixHost, TLC

CONSTANT t1

MCLength == t1 :> 1

MCFroms == {0}

MCTempos == {2}

MCStarts == {0, 1}

MCRecipes == {}
=============================================================================
