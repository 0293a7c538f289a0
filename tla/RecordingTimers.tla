--------------------------- MODULE RecordingTimers ---------------------------
(***************************************************************************)
(* When RecordingState ends a session by itself: the silence, no-one-      *)
(* joined, alone-in-meeting and maximum-duration checks of recording.go,   *)
(* over the names the in-page observer pushes to the speaker manager, with *)
(* pauses. BotMachine models the same loop with these answers as inputs.   *)
(*                                                                         *)
(* A poll takes what the observer has reported, waits for the page to say  *)
(* whether the bot was removed, and only then compares what it took with   *)
(* the limits: names reported in between are not seen before the next one. *)
(*                                                                         *)
(* Time is counted in polls of the loop. A time stamp t of the code is the *)
(* age now - t here, so the clock needs no bound; an age stops growing at  *)
(* Horizon, above every limit it is compared with.                         *)
(***************************************************************************)
EXTENDS Integers, FiniteSets

CONSTANTS
    People,             \* names of the participants other than the bot
    SilenceTimeout,     \* AutomaticLeave.SilenceTimeout, 0 switches it off
    NooneJoinedTimeout, \* AutomaticLeave.NooneJoinedTimeout, likewise
    GracePeriod,        \* firstUserGracePeriod
    DefaultAlone,       \* the 60 seconds of checkAloneInMeeting
    MaxDuration,        \* maxRecordingDuration
    MaxAwait            \* bound: the units that FindEndMeeting may wait for the page; the
                        \* code has none, the timeout of Detect is not given to IsVisible

ASSUME TimersAssumption ==
    /\ IsFiniteSet(People)
    /\ {SilenceTimeout, NooneJoinedTimeout, GracePeriod, DefaultAlone, MaxDuration,
         MaxAwait} \subseteq Nat
    /\ {SilenceTimeout, NooneJoinedTimeout, GracePeriod, DefaultAlone} \subseteq 0..MaxDuration

VARIABLES
    phase,           \* joining, recording, paused or ended
    at,              \* where the loop is: at the top of a poll, in its await of
                     \* FindEndMeeting or asleep until the next one
    waited,          \* units that this await has lasted
    isPaused,        \* MeetingContext.IsPaused
    endReason,       \* MeetingContext.EndReason
    firstUserJoined, \* MeetingContext.FirstUserJoined
    attendeesCount,  \* MeetingContext.AttendeesCount
    stretch,         \* age of recordStart
    silence,         \* age of NoSpeakerDetectedTime, or Off
    activeNames,     \* speaker.Manager: names flagged active
    allNames,        \* speaker.Manager: every name ever seen
    present,         \* who is in the meeting
    speaking,        \* who of them the page shows as speaking
    observing,       \* does the script of the speakers observer run? Attach adds it as an
                     \* init script to a page that is open already
    heard,           \* history: age of the last poll that saw an active name
    counted          \* history: the names that had been reported when a poll took them

managerVars == <<activeNames, allNames>>
meetingVars == <<present, speaking, observing>>
pollVars    == <<firstUserJoined, attendeesCount, silence>>
loopVars    == <<phase, at, waited, isPaused, endReason, stretch, pollVars>>
history     == <<heard, counted>>
vars        == <<loopVars, managerVars, meetingVars, history>>

Off     == -1    \* the zero time.Time
Horizon == MaxDuration + MaxAwait + 2
Age     == 0..Horizon

Older(age) == IF age = Off \/ age = Horizon THEN age ELSE age + 1

EndReasons == {"unset", "apiRequest", "recordingTimeout", "botRemoved", "noSpeaker",
               "noAttendees", "allParticipantsLeft"}

TypeOK ==
    /\ phase \in {"joining", "recording", "paused", "ended"}
    /\ at \in {"poll", "await", "asleep"}
    /\ waited \in 0..MaxAwait
    /\ isPaused \in BOOLEAN
    /\ endReason \in EndReasons
    /\ firstUserJoined \in BOOLEAN
    /\ attendeesCount \in Nat
    /\ stretch \in Age
    /\ silence \in Age \cup {Off}
    /\ activeNames \subseteq People
    /\ allNames \subseteq People
    /\ present \subseteq People
    /\ speaking \subseteq present
    /\ observing \in BOOLEAN
    /\ heard \in Age
    /\ counted \subseteq People

Init ==
    /\ phase = "joining"
    /\ at = "poll"
    /\ waited = 0
    /\ isPaused = FALSE
    /\ endReason = "unset"
    /\ firstUserJoined = FALSE
    /\ attendeesCount = 0
    /\ stretch = 0
    /\ silence = Off
    /\ activeNames = {}
    /\ allNames = {}
    /\ present \in SUBSET People
    /\ speaking = {}
    /\ observing \in BOOLEAN
    /\ heard = 0
    /\ counted = {}

-----------------------------------------------------------------------------
(* updateAttendees, and plausible bugs used to show that the properties       *)
(* notice, which are not in Spec.                                             *)

\* Only the names flagged active counted.
AttendeesCountActive == Cardinality(activeNames)

AttendeesCount == Cardinality(allNames)

FirstUserJoined == firstUserJoined \/ AttendeesCount > 0

\* The silence timer left running while somebody speaks.
NoSpeakerDetectedKeeps ==
    IF silence = Off /\ FirstUserJoined THEN 0 ELSE silence

\* The silence timer started again at every silent poll.
NoSpeakerDetectedRestarts ==
    IF activeNames # {} THEN Off ELSE IF FirstUserJoined THEN 0 ELSE silence

\* The loop without its maximum duration.
DurationExceededNever == FALSE

-----------------------------------------------------------------------------
(* The three checks, over what updateAttendees left in the MeetingContext.    *)

checkNoSpeaker ==
    /\ SilenceTimeout > 0
    /\ firstUserJoined
    /\ silence # Off
    /\ silence >= SilenceTimeout
    /\ stretch >= GracePeriod

checkNoOneJoined ==
    /\ NooneJoinedTimeout > 0
    /\ ~firstUserJoined
    /\ stretch >= NooneJoinedTimeout

AloneTimeout == IF NooneJoinedTimeout > 0 THEN NooneJoinedTimeout ELSE DefaultAlone

checkAloneInMeeting ==
    /\ firstUserJoined
    /\ attendeesCount = 0
    /\ stretch >= GracePeriod
    /\ silence # Off
    /\ silence >= AloneTimeout

\* What updateAttendees makes of NoSpeakerDetectedTime.
NoSpeakerDetected ==
    IF activeNames # {} THEN Off
    ELSE IF silence = Off /\ FirstUserJoined THEN 0
    ELSE silence

DurationExceeded == stretch >= MaxDuration

-----------------------------------------------------------------------------
(* The loop of RecordingState.Execute *)

\* The bot is admitted: OnJoinSuccess, then InCallState attaches the observer
\* and recording starts.
Admit ==
    /\ phase = "joining"
    /\ phase' = "recording"
    /\ firstUserJoined' = TRUE
    /\ heard' = 0
    /\ UNCHANGED <<at, waited, isPaused, endReason, stretch, attendeesCount, silence, counted,
                   managerVars, meetingVars>>

End(reason) ==
    /\ phase' = "ended"
    /\ endReason' = reason
    /\ UNCHANGED <<at, isPaused, stretch>>

Polling == phase = "recording" /\ at = "poll"

\* A stop request or a cancelled context, seen by either loop.
PollStop ==
    /\ Polling \/ phase = "paused"
    /\ End("apiRequest")
    /\ UNCHANGED <<waited, pollVars, managerVars, meetingVars, history>>

PollPause ==
    /\ Polling
    /\ isPaused
    /\ phase' = "paused"
    /\ UNCHANGED <<at, waited, isPaused, endReason, stretch, pollVars, managerVars, meetingVars,
                   history>>

PollDuration ==
    /\ Polling
    /\ ~isPaused
    /\ DurationExceeded
    /\ End("recordingTimeout")
    /\ UNCHANGED <<waited, pollVars, managerVars, meetingVars, history>>

\* What the observer has reported so far, and the call of FindEndMeeting.
UpdateAttendees ==
    /\ Polling
    /\ ~isPaused
    /\ ~DurationExceeded
    /\ at' = "await"
    /\ attendeesCount' = AttendeesCount
    /\ firstUserJoined' = FirstUserJoined
    /\ silence' = NoSpeakerDetected
    /\ heard' = IF activeNames # {} THEN 0 ELSE heard
    /\ counted' = counted \cup allNames
    /\ UNCHANGED <<phase, waited, isPaused, endReason, stretch, managerVars, meetingVars>>

\* FindEndMeeting answers, or fails; then the three checks, in their order.
PollChecks ==
    /\ phase = "recording"
    /\ at = "await"
    /\ waited' = 0
    /\ LET silent == checkNoSpeaker
           noone  == checkNoOneJoined
           left   == checkAloneInMeeting
       IN  \/ End("botRemoved")
           \/ silent /\ End("noSpeaker")
           \/ ~silent /\ noone /\ End("noAttendees")
           \/ ~silent /\ ~noone /\ left /\ End("allParticipantsLeft")
           \/ /\ ~silent /\ ~noone /\ ~left
              /\ at' = "asleep"
              /\ UNCHANGED <<phase, isPaused, endReason, stretch>>
    /\ UNCHANGED <<pollVars, managerVars, meetingVars, history>>

\* PausedState sees the resume; RecordingState starts over with a new recordStart.
Resume ==
    /\ phase = "paused"
    /\ ~isPaused
    /\ phase' = "recording"
    /\ at' = "poll"
    /\ stretch' = 0
    /\ UNCHANGED <<waited, isPaused, endReason, pollVars, managerVars, meetingVars, history>>

\* A pause or resume request, over HTTP or Redis.
RequestPause ==
    /\ phase # "ended"
    /\ isPaused' = ~isPaused
    /\ UNCHANGED <<phase, at, waited, endReason, stretch, pollVars, managerVars, meetingVars,
                   history>>

-----------------------------------------------------------------------------
(* The meeting and its observer *)

\* People come, go, start and stop speaking.
MeetingChanges ==
    /\ phase # "ended"
    /\ \E p \in People :
          \/ /\ p \notin present
             /\ present' = present \cup {p}
             /\ UNCHANGED speaking
          \/ /\ p \in present
             /\ present' = present \ {p}
             /\ speaking' = speaking \ {p}
          \/ /\ p \in present
             /\ speaking' = IF p \in speaking THEN speaking \ {p} ELSE speaking \cup {p}
             /\ UNCHANGED present
    /\ UNCHANGED <<loopVars, managerVars, observing, history>>

\* Manager.Push of each of the tiles the page shows: nobody is ever reported as
\* gone.
Report(tiles) ==
    /\ allNames' = allNames \cup tiles
    /\ activeNames' = (activeNames \ tiles) \cup (tiles \cap speaking)

\* One tile's event, handled when its change is seen.
Push(p) ==
    /\ observing
    /\ phase \in {"recording", "paused"}
    /\ p \in present
    /\ Report({p})
    /\ UNCHANGED <<loopVars, meetingVars, history>>

\* The loop sleeps or waits for the page, or a pause goes on. The page reports all
\* its tiles every 5 seconds whether or not they change, so each unit of time ends
\* with a report.
Tick ==
    /\ \/ /\ phase = "recording" /\ at = "asleep"
          /\ at' = "poll"
          /\ UNCHANGED waited
       \/ /\ phase = "recording" /\ at = "await"
          /\ waited < MaxAwait
          /\ waited' = waited + 1
          /\ UNCHANGED at
       \/ /\ phase = "paused"
          /\ UNCHANGED <<at, waited>>
    /\ IF observing THEN Report(present) ELSE UNCHANGED managerVars
    /\ stretch' = Older(stretch)
    /\ silence' = Older(silence)
    /\ heard' = Older(heard)
    /\ UNCHANGED <<phase, isPaused, endReason, firstUserJoined, attendeesCount, meetingVars,
                   counted>>

Loop == PollPause \/ PollDuration \/ UpdateAttendees \/ PollChecks \/ Resume

Done == phase = "ended" /\ UNCHANGED vars

Next ==
    \/ Admit
    \/ Loop \/ PollStop \/ RequestPause
    \/ MeetingChanges
    \/ \E p \in People : Push(p)
    \/ Tick
    \/ Done

Spec == Init /\ [][Next]_vars

\* Both loops go on polling, IsVisible returns and time passes. No fairness for the people in the
\* meeting, for requests or for their effect.
Fairness ==
    /\ WF_vars(Loop)
    /\ WF_vars(Tick)

FairSpec == Spec /\ Fairness

-----------------------------------------------------------------------------
(* Properties that hold *)

\* noSpeaker is never the answer unless no poll has seen an active speaker for
\* SilenceTimeout, pauses counted (updateAttendees, checkNoSpeaker).
SilenceIsHeard == endReason = "noSpeaker" => heard >= SilenceTimeout

\* Once a stretch is out of its grace period, it does not go on when no poll has
\* seen an active speaker for longer than SilenceTimeout, the wait for the page of
\* the poll before that silence apart.
SilenceEndsStretch ==
    phase = "recording" /\ at = "asleep" /\ SilenceTimeout > 0 /\ stretch >= GracePeriod =>
        heard <= SilenceTimeout + MaxAwait \/ stretch <= SilenceTimeout

\* checkAloneInMeeting never ends a session of which any poll, this one or one
\* before it or before a pause, has found a name reported, although its comment
\* says it fires when everybody who joined has left (recording.go:195-198):
\* AttendeesCount is the number of names ever seen, which never falls, so the
\* departure of everybody is left to the silence timer. A first name reported while
\* that poll waits for the page does not save the session: the count is stale.
OnlyUnseenIsAlone == endReason = "allParticipantsLeft" => counted = {}

\* No timer over the attendees ends a stretch within its grace period: a resumed
\* session is not ended by what happened during its pause before people are back.
GraceIsGiven ==
    endReason \in {"noSpeaker", "allParticipantsLeft"} => stretch >= GracePeriod

\* A session that is not paused for ever or again and again ends by itself,
\* whatever the observer reports.
SessionEnds == <>(phase = "ended") \/ <>[](phase = "joining") \/ []<>(phase = "paused")

=============================================================================
