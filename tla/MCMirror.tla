------------------------------ MODULE MCMirror ------------------------------
(***************************************************************************)
(* Values for checking DeckMirror: rings of two, so that either overflows  *)
(* in a few steps, and a track of one frame, so that its end is always     *)
(* near.  A session plays, pauses and loads once; what more it does is in  *)
(* the sets below.                                                         *)
(***************************************************************************)
EXTENDS DeckMirror

MCPlaces == {0}

MCLoops == {<<0, 1>>}

MCHostSessions == {{"pause", "jog"}, {"pause", "reverse"}, {"reload", "pause", "fader"},
                   {"pause", "seek"}, {"loop"}, {"loop in"}}

MCLoopSessions == {{"loop", "loop in"}}
=============================================================================
