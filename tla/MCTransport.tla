---------------------------- MODULE MCTransport ----------------------------
(***************************************************************************)
(* Values for checking DeckTransport: a track of two frames, four units, a *)
(* platter that may turn at half speed, and points before, in and past the *)
(* track, among which lie a loop shorter than a frame, one that ends with  *)
(* the track, and the whole track.  The sessions put together the controls *)
(* that act on the same part of a deck.                                    *)
(***************************************************************************)
EXTENDS DeckTransport

MCPlaces == {-1, 1, 9}

MCSessions == {{"jog", "speed"}, {"jog", "slip", "jump"}, {"jump", "slip", "reverse"},
               {"loop", "reverse", "seek"}, {"loop", "slip"}, {"edit", "fader"}}
=============================================================================
