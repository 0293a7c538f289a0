-------------------------- MODULE MCRecordingTimers --------------------------
(***************************************************************************)
(* RecordingTimers for TLC. One unit is one poll; the limits are a few     *)
(* polls, in the order of the real ones.                                   *)
(***************************************************************************)
EXTENDS RecordingTimers

ASSUME RealOrder ==
    /\ 0 < GracePeriod
    /\ GracePeriod < SilenceTimeout
    /\ SilenceTimeout < MaxDuration

=============================================================================
