---------------------------- MODULE SetupContract ----------------------------
(***************************************************************************)
(* What the rest of a session may rely on from its first two states: a     *)
(* browser is opened before a page, a page before the waiting room, only   *)
(* the cleanup closes them, and no session gets through its cleanup        *)
(* without having tried to, though what it tried may fail. MeetingSetup    *)
(* and BotMachine both implement it, each at the level of detail of its    *)
(* part of the code.                                                       *)
(***************************************************************************)

VARIABLES
    stage,      \* initialization, waitingRoom, inCall (all that follows it), ...
    browser,    \* none, open, closed; leaked if it could not be closed
    page,       \* none, open
    cancelled   \* the worker was told to shut down

vars == <<stage, browser, page, cancelled>>

Init ==
    /\ stage = "initialization"
    /\ browser = "none"
    /\ page = "none"
    /\ cancelled = FALSE

Successors ==
    [initialization |-> {"waitingRoom", "error"},
     waitingRoom    |-> {"inCall", "error", "cleanup"},
     inCall         |-> {"error", "cleanup"},
     error          |-> {"cleanup"},
     cleanup        |-> {"terminated"},
     terminated     |-> {}]

OpenBrowser ==
    /\ stage = "initialization"
    /\ browser = "none"
    /\ browser' = "open"
    /\ UNCHANGED <<stage, page, cancelled>>

OpenPage ==
    /\ stage = "initialization"
    /\ browser = "open"
    /\ page = "none"
    /\ page' = "open"
    /\ UNCHANGED <<stage, browser, cancelled>>

Move ==
    /\ stage' \in Successors[stage]
    /\ stage' = "waitingRoom" => page = "open"
    /\ stage' = "terminated" => browser # "open"
    /\ UNCHANGED <<browser, page, cancelled>>

CloseBrowser ==
    /\ stage = "cleanup"
    /\ browser = "open"
    /\ browser' \in {"closed", "leaked"}
    /\ UNCHANGED <<stage, page, cancelled>>

Cancel ==
    /\ ~cancelled
    /\ cancelled' = TRUE
    /\ UNCHANGED <<stage, browser, page>>

\* A cancelled session gives up between two states, with whatever it has open.
GiveUp ==
    /\ cancelled
    /\ stage # "terminated"
    /\ stage' = "terminated"
    /\ UNCHANGED <<browser, page, cancelled>>

Next == OpenBrowser \/ OpenPage \/ Move \/ CloseBrowser \/ Cancel \/ GiveUp

Spec == Init /\ [][Next]_vars

=============================================================================
