----------------------------- MODULE MCJobQueue -----------------------------
(***************************************************************************)
(* JobQueue for TLC: more messages than slots.                             *)
(***************************************************************************)
EXTENDS JobQueue

ASSUME SlotsRunOut == Cardinality(Jobs) > MaxParallel

=============================================================================
