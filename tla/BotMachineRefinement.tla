------------------------ MODULE BotMachineRefinement ------------------------
(***************************************************************************)
(* BotMachine implements BotLifecycle: Machine.current is the state of the *)
(* session and the ffmpeg process is its capture. It also implements the   *)
(* contract of the first two states, as their full model MeetingSetup      *)
(* does: the one step BotMachine takes for a launch or for a join stands   *)
(* for the many of MeetingSetup.                                           *)
(***************************************************************************)
EXTENDS BotMachine

Capture ==
    CASE ffmpeg = "none"      -> "idle"
      [] ffmpeg = "running"   -> "live"
      [] ffmpeg = "suspended" -> "held"
      [] OTHER                -> "over"

Lifecycle == INSTANCE BotLifecycle
                 WITH state <- current, capture <- Capture, cancelled <- ctxDone

\* Every step of the worker is a step of the session or leaves it unchanged:
\* no interleaving of requests, signals and ffmpeg's own exit makes the states
\* of machine.go follow one another in another order, resume a capture outside
\* the resuming state or terminate an uncancelled session that still captures.
ImplementsLifecycle == Lifecycle!Spec

\* Everything after the admission is one stage of the contract.
Stage == IF current \in {"recording", "paused", "resuming"} THEN "inCall" ELSE current

Setup == INSTANCE SetupContract
             WITH stage <- Stage, page <- IF page = "none" THEN "none" ELSE "open",
                  cancelled <- ctxDone

\* The states of the whole session keep the contract of its setup: only the
\* cleanup touches the browser again, once, and it tries to close it on every
\* path of a session that was not cancelled, even out of a launch half made.
ImplementsSetup == Setup!Spec

=============================================================================
