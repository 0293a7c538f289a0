---------------------------- MODULE BotLifecycle ----------------------------
(***************************************************************************)
(* What one meeting session promises to those who watch its state: the     *)
(* order of the nine states, what the capture of the meeting may do in     *)
(* each of them, and that only a cancelled session skips the cleanup.      *)
(* BotMachine implements it.                                               *)
(***************************************************************************)

VARIABLES
    state,      \* the state of the session
    capture,    \* the recording: idle, live, held (paused) or over
    cancelled   \* the worker was told to shut down

vars == <<state, capture, cancelled>>

Init ==
    /\ state = "initialization"
    /\ capture = "idle"
    /\ cancelled = FALSE

\* The transitions a session takes by itself.
Successors ==
    [initialization |-> {"waitingRoom", "error"},
     waitingRoom    |-> {"inCall", "error", "cleanup"},
     inCall         |-> {"recording", "error", "cleanup"},
     recording      |-> {"paused", "cleanup"},
     paused         |-> {"resuming", "cleanup"},
     resuming       |-> {"recording", "error"},
     error          |-> {"cleanup"},
     cleanup        |-> {"terminated"},
     terminated     |-> {}]

\* The recording state is entered with a capture that is not held, and a session
\* that gets to its end has none going on any more.
Move ==
    /\ state' \in Successors[state]
    /\ state' = "recording" => capture \in {"live", "over"}
    /\ state' = "terminated" => capture \in {"idle", "over"}
    /\ UNCHANGED <<capture, cancelled>>

\* A cancelled session may give up anywhere, whatever its capture does.
GiveUp ==
    /\ cancelled
    /\ state # "terminated"
    /\ state' = "terminated"
    /\ UNCHANGED <<capture, cancelled>>

Cancel ==
    /\ ~cancelled
    /\ cancelled' = TRUE
    /\ UNCHANGED <<state, capture>>

\* The capture starts once, before recording is announced.
Begin ==
    /\ state = "inCall"
    /\ capture = "idle"
    /\ capture' = "live"
    /\ UNCHANGED <<state, cancelled>>

\* It is held while paused and released while resuming, never elsewhere.
Hold ==
    /\ state = "paused"
    /\ capture = "live"
    /\ capture' = "held"
    /\ UNCHANGED <<state, cancelled>>

Release ==
    /\ state = "resuming"
    /\ capture = "held"
    /\ capture' = "live"
    /\ UNCHANGED <<state, cancelled>>

\* A live capture may end at any time; one that is held ends in the cleanup, or
\* with a cancelled session.
Finish ==
    /\ \/ capture = "live"
       \/ capture = "held" /\ (cancelled \/ state = "cleanup")
    /\ capture' = "over"
    /\ UNCHANGED <<state, cancelled>>

Next == Move \/ GiveUp \/ Cancel \/ Begin \/ Hold \/ Release \/ Finish

Spec == Init /\ [][Next]_vars

=============================================================================
