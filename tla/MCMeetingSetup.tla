--------------------------- MODULE MCMeetingSetup ---------------------------
(***************************************************************************)
(* MeetingSetup for TLC: every link, in every spelling, and pages that     *)
(* show nothing, the lobby, the waiting text, the call or a refusal.       *)
(***************************************************************************)
EXTENDS MeetingSetup

MCGiven == Links

MCViews == {{}, {"askButton", "askText"}, {"letYouInText"}, {"leaveButton"},
            {"leaveButton", "endedText"}, {"removedText"}}

=============================================================================
