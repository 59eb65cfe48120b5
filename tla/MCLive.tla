------------------------------- MODULE MCLive -------------------------------
(* Two decks, an echo transition one way and a quick cut the other. *)
EXTENDS LiveEngine

MCPlans == {[outgoing |-> 0, incoming |-> 1, quick |-> FALSE, tail |-> TRUE, frames |-> 4],
            [outgoing |-> 1, incoming |-> 0, quick |-> TRUE, tail |-> FALSE, frames |-> 1]}

\* The seams share no state but the clock, so a behaviour that uses one of
\* them much is worth more than one that uses all of them a little.
MCBudget(i, t, x, l, s) == [insert |-> i, tap |-> t, transition |-> x, load |-> l, stem |-> s]
MCPcms == {[name |-> "short", frames |-> 1], [name |-> "long", frames |-> 2]}
MCBudgets == {MCBudget(4, 0, 0, 0, 0), MCBudget(0, 3, 0, 0, 0), MCBudget(0, 0, 2, 0, 0),
              MCBudget(0, 0, 0, 1, 2), MCBudget(0, 0, 0, 2, 0)}
=============================================================================
