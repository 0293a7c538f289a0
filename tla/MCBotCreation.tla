--------------------------- MODULE MCBotCreation ---------------------------
(***************************************************************************)
(* BotCreation for TLC: requests that repeat and contradict each other,    *)
(* with and without a key.                                                 *)
(***************************************************************************)
EXTENDS BotCreation, TLC

CONSTANTS k1, b1, b2, m1, m2

\* A meeting under a key; the same request a minute later, when the meeting has
\* another hash; a bad request under the same key; the meeting without a key; a
\* scheduled bot for it.
MCRequests ==
    {[key |-> k1, body |-> b1, meeting |-> m1, scheduled |-> FALSE, valid |-> TRUE],
     [key |-> k1, body |-> b1, meeting |-> m2, scheduled |-> FALSE, valid |-> TRUE],
     [key |-> k1, body |-> b2, meeting |-> NoMeeting, scheduled |-> FALSE, valid |-> FALSE],
     [key |-> NoKey, body |-> b1, meeting |-> m1, scheduled |-> FALSE, valid |-> TRUE],
     [key |-> NoKey, body |-> b2, meeting |-> m1, scheduled |-> TRUE, valid |-> TRUE]}

\* The calls are interchangeable; used by the safety run only.
CallSymmetry == Permutations(Calls)

=============================================================================
