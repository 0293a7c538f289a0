------------------------ MODULE RecordingTimersProofs ------------------------
(***************************************************************************)
(* What holds of RecordingTimers for any people and any limits, proved.    *)
(***************************************************************************)
EXTENDS RecordingTimers, FiniteSetTheorems, TLAPS

-----------------------------------------------------------------------------
(* The inductive invariant, in named parts *)

\* A session that has not ended has no reason to, one that has not begun has no
\* silence, and only a poll of a recording waits for the page.
PhaseInv ==
    /\ phase # "ended" => endReason = "unset"
    /\ phase = "joining" => silence = Off /\ stretch = 0 /\ at = "poll"
    /\ phase \in {"recording", "paused"} => firstUserJoined
    /\ waited # 0 => phase = "recording" /\ at = "await"

\* The silence timer, when it runs, is no older than the silence.
NotTooOld == silence # Off => heard >= silence

\* It is no younger either, as far as this stretch goes, by more than the poll that
\* noticed the silence and that poll's wait; and a poll that ended nothing has found
\* it within its limit.
NotTooYoung ==
    phase = "recording" =>
        /\ silence = Off =>
               /\ at = "await" => heard <= waited
               /\ at = "asleep" => heard <= MaxAwait
               /\ at = "poll" => heard <= MaxAwait + 1 \/ stretch = 0
        /\ silence # Off => heard <= silence + MaxAwait + 1 \/ stretch <= silence
        /\ at = "asleep" /\ SilenceTimeout > 0 =>
               silence = Off \/ silence < SilenceTimeout \/ stretch < GracePeriod

\* Admit has set firstUserJoined before the first poll, so checkNoOneJoined is
\* never asked with it off.
SomebodyJoined == endReason # "noAttendees"

\* A stretch that is recorded is below its maximum when a poll begins to wait for
\* the page, and passes it by that wait at most.
WithinLimit ==
    phase = "recording" =>
        /\ stretch <= MaxDuration + MaxAwait
        /\ at = "await" => stretch < MaxDuration + waited
        /\ at = "asleep" => stretch < MaxDuration + MaxAwait

\* What the polls have counted has been reported; a poll that counted nobody found
\* nobody reported, and no poll before it did.
CountedInv ==
    /\ counted \subseteq allNames
    /\ phase = "recording" /\ at = "await" /\ attendeesCount = 0 => counted = {}

TInv ==
    /\ TypeOK
    /\ PhaseInv
    /\ NotTooOld
    /\ NotTooYoung
    /\ WithinLimit
    /\ SilenceIsHeard
    /\ GraceIsGiven
    /\ SomebodyJoined
    /\ CountedInv
    /\ OnlyUnseenIsAlone

\* The limits are numbers.
LEMMA Limits ==
    /\ MaxDuration \in Nat /\ MaxAwait \in Nat /\ Horizon \in Nat
    /\ MaxDuration + MaxAwait < Horizon
    /\ SilenceTimeout \in 0 .. MaxDuration
    /\ NooneJoinedTimeout \in 0 .. MaxDuration
    /\ GracePeriod \in 0 .. MaxDuration
    /\ DefaultAlone \in 0 .. MaxDuration
    /\ Off \notin Age
BY TimersAssumption DEF Horizon, Off, Age

\* A time stamp grows by one unit, or stays at the horizon.
LEMMA OlderAge ==
    ASSUME NEW age \in Age
    PROVE  Older(age) \in Age /\ age <= Older(age) /\ Older(age) <= age + 1
               /\ (age < Horizon => Older(age) = age + 1)
BY Limits DEF Older, Age, Off

\* No name is counted only when none was seen.
LEMMA NobodyCounted ==
    ASSUME allNames \subseteq People, AttendeesCount = 0
    PROVE  allNames = {}
BY TimersAssumption, FS_Subset, FS_EmptySet DEF AttendeesCount

\* The number of the names seen is a number.
LEMMA CountType ==
    ASSUME allNames \subseteq People
    PROVE  AttendeesCount \in Nat
BY TimersAssumption, FS_Subset, FS_CardinalityType DEF AttendeesCount

LEMMA OlderOff == Older(Off) = Off
BY DEF Older

-----------------------------------------------------------------------------

LEMMA InitTInv == Init => TInv
<1> SUFFICES ASSUME Init PROVE TInv
    OBVIOUS
<1>1. 0 \in Age /\ 0 \in 0 .. MaxAwait /\ 0 \in Nat
    BY Limits DEF Age
<1>2. TypeOK
    BY <1>1 DEF Init, TypeOK, EndReasons
<1>3. PhaseInv /\ NotTooOld /\ NotTooYoung
    BY DEF Init, PhaseInv, NotTooOld, NotTooYoung
<1>4. SilenceIsHeard /\ GraceIsGiven
    BY DEF Init, SilenceIsHeard, GraceIsGiven
<1>5. SomebodyJoined /\ OnlyUnseenIsAlone /\ CountedInv
    BY DEF Init, SomebodyJoined, OnlyUnseenIsAlone, CountedInv
<1>6. WithinLimit
    BY Limits DEF Init, WithinLimit
<1> QED BY <1>2, <1>3, <1>4, <1>5, <1>6 DEF TInv

\* updateAttendees, and the call of FindEndMeeting.
LEMMA UpdateAttendeesTInv == TInv /\ UpdateAttendees => TInv'
<1> SUFFICES ASSUME TInv, UpdateAttendees PROVE TInv'
    OBVIOUS
<1> USE Limits DEF TInv
<1>1. /\ phase = "recording" /\ at = "poll" /\ at' = "await"
      /\ waited = 0 /\ waited' = 0 /\ endReason = "unset"
      /\ firstUserJoined /\ FirstUserJoined /\ firstUserJoined' = TRUE
      /\ heard \in Age /\ stretch \in Age /\ silence \in Age \cup {Off}
      /\ stretch < MaxDuration
      /\ UNCHANGED <<phase, isPaused, endReason, stretch, activeNames, allNames, present, speaking,
                     observing>>
    <2>1. heard \in Age /\ stretch \in Age /\ silence \in Age \cup {Off}
        BY DEF TypeOK
    <2>2. ~DurationExceeded
        BY DEF UpdateAttendees
    <2>3. stretch < MaxDuration
        BY <2>1, <2>2 DEF DurationExceeded, Age
    <2>4. phase = "recording" /\ at = "poll" /\ at' = "await" /\ waited' = waited
          /\ firstUserJoined' = FirstUserJoined
          /\ UNCHANGED <<phase, isPaused, endReason, stretch, activeNames, allNames, present,
                         speaking, observing>>
        BY DEF UpdateAttendees, Polling, managerVars, meetingVars
    <2>5. waited = 0 /\ endReason = "unset" /\ firstUserJoined
        BY <2>4 DEF PhaseInv
    <2>6. firstUserJoined' = TRUE
        BY <2>4, <2>5 DEF FirstUserJoined
    <2> QED BY <2>1, <2>3, <2>4, <2>5, <2>6 DEF FirstUserJoined
<1>2. /\ activeNames # {} => silence' = Off /\ heard' = 0
      /\ activeNames = {} /\ silence = Off => silence' = 0 /\ heard' = heard
      /\ activeNames = {} /\ silence # Off => silence' = silence /\ heard' = heard
    BY <1>1 DEF UpdateAttendees, NoSpeakerDetected
<1>3. heard' \in Age /\ silence' \in Age \cup {Off}
    BY <1>1, <1>2 DEF Age
<1>4. attendeesCount' = AttendeesCount /\ attendeesCount' \in Nat
    BY CountType DEF UpdateAttendees, TypeOK
<1>5. counted' = counted \cup allNames
    BY DEF UpdateAttendees
<1>6. TypeOK'
    BY <1>1, <1>3, <1>4, <1>5 DEF TypeOK
<1>7. PhaseInv'
    BY <1>1 DEF PhaseInv
<1>8. NotTooOld'
    BY <1>1, <1>2 DEF NotTooOld, Age, Off
<1>9. NotTooYoung'
    <2>1. silence' = Off => heard' <= waited'
        BY <1>1, <1>2 DEF Age, Off
    <2>2. CASE silence = Off
        BY <1>1, <1>2, <2>1, <2>2 DEF NotTooYoung, Age, Off
    <2>3. CASE silence # Off
        BY <1>1, <1>2, <2>1, <2>3 DEF NotTooYoung, Age, Off
    <2> QED BY <2>2, <2>3
<1>10. WithinLimit'
    BY <1>1 DEF WithinLimit, Age
<1>11. CountedInv'
    BY <1>1, <1>4, <1>5, NobodyCounted DEF CountedInv, TypeOK
<1>12. SilenceIsHeard' /\ GraceIsGiven' /\ SomebodyJoined' /\ OnlyUnseenIsAlone'
    BY <1>1 DEF SilenceIsHeard, GraceIsGiven, SomebodyJoined, OnlyUnseenIsAlone
<1> QED BY <1>6, <1>7, <1>8, <1>9, <1>10, <1>11, <1>12

\* The answer of FindEndMeeting and the three checks.
LEMMA PollChecksTInv == TInv /\ PollChecks => TInv'
<1> SUFFICES ASSUME TInv, PollChecks PROVE TInv'
    OBVIOUS
<1> USE Limits DEF TInv
<1>1. /\ phase = "recording" /\ at = "await" /\ waited' = 0
      /\ firstUserJoined /\ endReason = "unset"
      /\ heard \in Age /\ stretch \in Age /\ silence \in Age \cup {Off} /\ waited \in 0 .. MaxAwait
      /\ UNCHANGED <<isPaused, stretch, firstUserJoined, attendeesCount, silence, activeNames,
                     allNames, present, speaking, observing, heard, counted>>
    BY DEF PollChecks, End, PhaseInv, TypeOK, pollVars, managerVars, meetingVars, history
<1>2. \/ /\ phase' = "recording" /\ at' = "asleep" /\ endReason' = endReason
         /\ ~checkNoSpeaker
      \/ /\ phase' = "ended" /\ at' = at
         /\ \/ endReason' = "botRemoved"
            \/ endReason' = "noSpeaker" /\ checkNoSpeaker
            \/ endReason' = "allParticipantsLeft" /\ checkAloneInMeeting
    BY <1>1 DEF PollChecks, End, checkNoOneJoined
<1>3. TypeOK'
    BY <1>1, <1>2 DEF TypeOK, EndReasons
<1>4. PhaseInv' /\ NotTooOld'
    BY <1>1, <1>2 DEF PhaseInv, NotTooOld
<1>5. SilenceIsHeard' /\ GraceIsGiven'
    BY <1>1, <1>2 DEF SilenceIsHeard, GraceIsGiven, NotTooOld, checkNoSpeaker,
        checkAloneInMeeting, Age, Off
<1>6. NotTooYoung'
    <2>1. ~checkNoSpeaker /\ SilenceTimeout > 0 =>
              silence = Off \/ silence < SilenceTimeout \/ stretch < GracePeriod
        BY <1>1 DEF checkNoSpeaker, Age, Off
    <2>2. silence = Off => heard <= MaxAwait
        BY <1>1 DEF NotTooYoung, Age, Off
    <2> QED BY <1>1, <1>2, <2>1, <2>2 DEF NotTooYoung
<1>7. SomebodyJoined'
    BY <1>1, <1>2 DEF SomebodyJoined
<1>8. OnlyUnseenIsAlone' /\ CountedInv'
    BY <1>1, <1>2 DEF OnlyUnseenIsAlone, CountedInv, checkAloneInMeeting
<1>9. WithinLimit'
    BY <1>1, <1>2 DEF WithinLimit, Age
<1> QED BY <1>3, <1>4, <1>5, <1>6, <1>7, <1>8, <1>9

\* A unit of time, in a recording or in a pause.
LEMMA TickTInv == TInv /\ Tick => TInv'
<1> SUFFICES ASSUME TInv, Tick PROVE TInv'
    OBVIOUS
<1> USE Limits DEF TInv
<1>1. /\ \/ phase = "recording" /\ at = "asleep" /\ at' = "poll" /\ waited' = waited
         \/ phase = "recording" /\ at = "await" /\ at' = at /\ waited < MaxAwait
            /\ waited' = waited + 1
         \/ phase = "paused" /\ at' = at /\ waited' = waited
      /\ UNCHANGED <<phase, isPaused, endReason, firstUserJoined, attendeesCount, present,
                     speaking, observing, counted>>
      /\ endReason = "unset"
    BY DEF Tick, meetingVars, PhaseInv
<1>2. /\ heard \in Age /\ stretch \in Age /\ silence \in Age \cup {Off}
      /\ waited \in 0 .. MaxAwait /\ waited' \in 0 .. MaxAwait
    BY <1>1 DEF TypeOK
<1>3. heard' = Older(heard) /\ stretch' = Older(stretch) /\ silence' = Older(silence)
    BY DEF Tick
<1>4. /\ heard' \in Age /\ heard <= heard' /\ heard' <= heard + 1
      /\ heard < Horizon => heard' = heard + 1
    BY <1>2, <1>3, OlderAge
<1>5. stretch' \in Age /\ stretch' <= stretch + 1
    BY <1>2, <1>3, OlderAge
<1>6. /\ silence = Off => silence' = Off
      /\ silence # Off => /\ silence \in Age /\ silence' \in Age /\ silence <= silence'
                          /\ silence' <= silence + 1
                          /\ silence < Horizon => silence' = silence + 1
    BY <1>2, <1>3, OlderAge, OlderOff
<1>7. activeNames' \subseteq People /\ allNames' \subseteq People /\ allNames \subseteq allNames'
    BY DEF Tick, Report, managerVars, TypeOK
<1>8. TypeOK'
    BY <1>1, <1>2, <1>4, <1>5, <1>6, <1>7 DEF TypeOK
<1>9. PhaseInv'
    BY <1>1, <1>2 DEF PhaseInv
<1>10. NotTooOld'
    BY <1>2, <1>4, <1>6 DEF NotTooOld, Age, Off
<1>11. SilenceIsHeard' /\ GraceIsGiven' /\ SomebodyJoined' /\ OnlyUnseenIsAlone' /\ CountedInv'
    BY <1>1, <1>7 DEF SilenceIsHeard, GraceIsGiven, SomebodyJoined, OnlyUnseenIsAlone, CountedInv
<1>12. NotTooYoung'
    <2> SUFFICES ASSUME phase' = "recording" PROVE NotTooYoung'
        BY DEF NotTooYoung
    <2>1. silence' = Off => /\ at' = "await" => heard' <= waited'
                            /\ at' = "asleep" => heard' <= MaxAwait
                            /\ at' = "poll" => heard' <= MaxAwait + 1
        <3> SUFFICES ASSUME silence' = Off
                     PROVE  /\ at' = "await" => heard' <= waited'
                            /\ at' = "asleep" => heard' <= MaxAwait
                            /\ at' = "poll" => heard' <= MaxAwait + 1
            OBVIOUS
        <3>1. silence = Off
            BY <1>6 DEF Age, Off
        <3>2. CASE at = "await"
            BY <1>1, <1>2, <1>4, <3>1, <3>2 DEF NotTooYoung, Age
        <3>3. CASE at = "asleep"
            BY <1>1, <1>2, <1>4, <3>1, <3>3 DEF NotTooYoung, Age
        <3> QED BY <1>1, <3>2, <3>3
    <2>2. silence' # Off => heard' <= silence' + MaxAwait + 1 \/ stretch' <= silence'
        BY <1>1, <1>2, <1>4, <1>5, <1>6 DEF NotTooYoung, Age, Off
    <2>3. at' # "asleep"
        BY <1>1
    <2> QED BY <2>1, <2>2, <2>3 DEF NotTooYoung
<1>13. WithinLimit'
    <2>1. CASE phase = "recording" /\ at = "asleep"
        BY <1>1, <1>2, <1>5, <2>1 DEF WithinLimit, Age
    <2>2. CASE phase = "recording" /\ at = "await"
        <3>1. /\ phase' = "recording" /\ at' = "await" /\ waited' = waited + 1
              /\ stretch < MaxDuration + waited /\ stretch' <= stretch + 1
              /\ stretch \in Nat /\ stretch' \in Nat /\ waited \in Nat /\ waited' <= MaxAwait
            BY <1>1, <1>2, <1>5, <2>2 DEF WithinLimit, Age
        <3> QED BY <3>1 DEF WithinLimit
    <2>3. CASE phase = "paused"
        BY <1>1, <2>3 DEF WithinLimit
    <2> QED BY <1>1, <2>1, <2>2, <2>3
<1> QED BY <1>8, <1>9, <1>10, <1>11, <1>12, <1>13

LEMMA NextTInv == TInv /\ [Next]_vars => TInv'
<1> SUFFICES ASSUME TInv, [Next]_vars PROVE TInv'
    OBVIOUS
<1>1. CASE Admit
    <2>1. 0 \in Age
        BY Limits DEF Age
    <2>2. TypeOK'
        BY <1>1, <2>1 DEF TInv, Admit, TypeOK, managerVars, meetingVars
    <2>3. NotTooYoung' /\ WithinLimit'
        BY <1>1, Limits DEF TInv, Admit, PhaseInv, NotTooYoung, WithinLimit
    <2> QED BY <1>1, <2>2, <2>3 DEF TInv, Admit, PhaseInv, NotTooOld, SilenceIsHeard,
        GraceIsGiven, SomebodyJoined, OnlyUnseenIsAlone, CountedInv, managerVars
<1>2. CASE PollPause
    BY <1>2 DEF TInv, PollPause, Polling, TypeOK, PhaseInv, NotTooOld, NotTooYoung,
        SilenceIsHeard, GraceIsGiven, SomebodyJoined, OnlyUnseenIsAlone, CountedInv,
        WithinLimit, pollVars, history, managerVars, meetingVars
<1>3. CASE PollDuration \/ PollStop
    <2>1. /\ phase' = "ended" /\ endReason' \in {"recordingTimeout", "apiRequest"}
          /\ UNCHANGED <<at, waited, isPaused, stretch, pollVars, managerVars, meetingVars, history>>
          /\ phase = "paused" \/ (phase = "recording" /\ at = "poll")
        BY <1>3 DEF PollDuration, PollStop, End, Polling
    <2>2. TypeOK'
        BY <2>1 DEF TInv, TypeOK, EndReasons, pollVars, managerVars, meetingVars, history
    <2> QED BY <2>1, <2>2 DEF TInv, PhaseInv, NotTooOld, NotTooYoung, SilenceIsHeard, GraceIsGiven,
        SomebodyJoined, OnlyUnseenIsAlone, CountedInv, WithinLimit, pollVars, history, managerVars
<1>4. CASE UpdateAttendees \/ PollChecks
    BY <1>4, UpdateAttendeesTInv, PollChecksTInv
<1>5. CASE Resume
    <2>1. 0 \in Age
        BY Limits DEF Age
    <2>2. TypeOK'
        BY <1>5, <2>1 DEF TInv, Resume, TypeOK, pollVars, history, managerVars, meetingVars
    <2>3. PhaseInv' /\ NotTooOld' /\ SilenceIsHeard' /\ GraceIsGiven' /\ SomebodyJoined'
          /\ OnlyUnseenIsAlone' /\ CountedInv'
        BY <1>5 DEF TInv, Resume, PhaseInv, NotTooOld, SilenceIsHeard, GraceIsGiven,
            SomebodyJoined, OnlyUnseenIsAlone, CountedInv, pollVars, history, managerVars
    <2>4. NotTooYoung' /\ WithinLimit'
        <3>1. phase' = "recording" /\ at' = "poll" /\ stretch' = 0 /\ silence' = silence
              /\ heard' = heard /\ silence \in Age \cup {Off}
            BY <1>5 DEF TInv, Resume, TypeOK, pollVars, history
        <3>2. silence # Off => 0 <= silence
            BY <3>1, Limits DEF Age
        <3> QED BY <3>1, <3>2, Limits DEF NotTooYoung, WithinLimit
    <2> QED BY <2>2, <2>3, <2>4 DEF TInv
<1>6. CASE RequestPause
    <2>1. TypeOK'
        BY <1>6 DEF TInv, RequestPause, TypeOK, pollVars, history, managerVars, meetingVars
    <2> QED BY <1>6, <2>1 DEF TInv, RequestPause, PhaseInv, NotTooOld, NotTooYoung,
        SilenceIsHeard, GraceIsGiven, SomebodyJoined, OnlyUnseenIsAlone, CountedInv, WithinLimit,
        pollVars, history, managerVars
<1>7. CASE MeetingChanges
    <2>1. present' \subseteq People /\ speaking' \subseteq present'
        BY <1>7 DEF TInv, MeetingChanges, TypeOK
    <2> QED BY <1>7, <2>1 DEF TInv, MeetingChanges, TypeOK, PhaseInv, NotTooOld, NotTooYoung,
        SilenceIsHeard, GraceIsGiven, SomebodyJoined, OnlyUnseenIsAlone, CountedInv,
        WithinLimit, history, loopVars, pollVars, managerVars
<1>8. ASSUME NEW p \in People, Push(p) PROVE TInv'
    BY <1>8 DEF TInv, Push, Report, TypeOK, PhaseInv, NotTooOld, NotTooYoung,
        SilenceIsHeard, GraceIsGiven, SomebodyJoined, OnlyUnseenIsAlone, CountedInv,
        WithinLimit, history, loopVars, pollVars, meetingVars
<1>9. CASE Tick
    BY <1>9, TickTInv
<1>10. CASE UNCHANGED vars
    BY <1>10 DEF TInv, vars, TypeOK, PhaseInv, NotTooOld, NotTooYoung, SilenceIsHeard,
        GraceIsGiven, SomebodyJoined, OnlyUnseenIsAlone, CountedInv,
        WithinLimit, loopVars, pollVars, history, managerVars, meetingVars
<1> QED BY <1>1, <1>2, <1>3, <1>4, <1>5, <1>6, <1>7, <1>8, <1>9, <1>10 DEF Next, Loop, Done

\* The invariant holds of every state the timers reach.
THEOREM TimersInvariance == Spec => []TInv
BY InitTInv, NextTInv, PTL DEF Spec

-----------------------------------------------------------------------------

\* For any people and any limits every variable keeps its type: no age leaves the
\* range it is compared in.
THEOREM TimersTypeCorrect == Spec => []TypeOK
BY TimersInvariance, PTL DEF TInv

\* checkNoSpeaker never ends a session that was heard within SilenceTimeout.
THEOREM SilenceHeard == Spec => []SilenceIsHeard
BY TimersInvariance, PTL DEF TInv

\* checkNoSpeaker and checkAloneInMeeting end no stretch within its grace period.
THEOREM GraceGiven == Spec => []GraceIsGiven
BY TimersInvariance, PTL DEF TInv

\* No stretch is recorded for longer than maxRecordingDuration and one wait for the
\* page, whatever the observer reports and however often the session was paused.
THEOREM StretchesAreBounded ==
    Spec => [](phase = "recording" => stretch <= MaxDuration + MaxAwait)
<1>1. TInv => (phase = "recording" => stretch <= MaxDuration + MaxAwait)
    BY DEF TInv, WithinLimit
<1> QED BY <1>1, TimersInvariance, PTL

\* Once a poll has found a name reported, checkAloneInMeeting ends nothing, whatever
\* was reported while a poll waited for the page.
THEOREM UnseenIsAlone == Spec => []OnlyUnseenIsAlone
BY TimersInvariance, PTL DEF TInv

\* checkNoOneJoined never ends a recording, for any people and any limits: it is
\* dead code behind the FirstUserJoined that OnJoinSuccess sets.
THEOREM NooneJoinedNeverFires == Spec => [](endReason # "noAttendees")
<1>1. TInv => endReason # "noAttendees"
    BY DEF TInv, SomebodyJoined
<1> QED BY <1>1, TimersInvariance, PTL

\* A stretch past its grace period outlives SilenceTimeout of silence by one wait for
\* the page at most.
THEOREM SilenceEnds == Spec => []SilenceEndsStretch
<1>1. TInv => SilenceEndsStretch
    BY Limits DEF TInv, TypeOK, NotTooYoung, SilenceEndsStretch, Age, Off
<1> QED BY <1>1, TimersInvariance, PTL

=============================================================================
