---------------------------- MODULE MCBotMachine ----------------------------
(***************************************************************************)
(* BotMachine for TLC: two HTTP handlers in flight are enough for every    *)
(* pair of requests to race, and each one serves any number of requests.   *)
(***************************************************************************)
EXTENDS BotMachineRefinement, TLC

\* The handlers are interchangeable; used by the safety runs only.
HandlerSymmetry == Permutations(Handlers)

=============================================================================
