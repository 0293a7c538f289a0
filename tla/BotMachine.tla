----------------------------- MODULE BotMachine -----------------------------
(***************************************************************************)
(* One bot-worker process: the goroutine of Machine.Run driving the nine   *)
(* states of internal/usecase/bot/states, the HTTP handlers of             *)
(* /stop_record, /pause and /resume, the Redis command subscriber, SIGTERM *)
(* and the ffmpeg child process.                                           *)
(*                                                                         *)
(* Every read or write that is atomic in the code (one mutex section of    *)
(* MeetingContext, one unsynchronised read of Machine.current) is a step   *)
(* of its own, so the goroutines interleave here where they do there.      *)
(***************************************************************************)

CONSTANTS
    Handlers,   \* the HTTP handler goroutines alive at the same time
    TornReads   \* may an unsynchronised read of the two-word string
                \* Machine.current mix the old word with the new one?

ASSUME TornReadsAssumption == TornReads \in BOOLEAN

VARIABLES
    current,    \* Machine.current
    pc,         \* where the goroutine of Machine.Run is
    next,       \* the Transition.Next it is about to store in current
    endReason,  \* MeetingContext.EndReason ("unset" while it is empty)
    hasError,   \* MeetingContext.HasError
    isPaused,   \* MeetingContext.IsPaused
    pending,    \* the MeetingContext call each handler has decided on
    torn,       \* history: a stop was taken for a late one, before recording,
                \* on a torn read of Machine.current
    ctxDone,    \* the context of main was cancelled (SIGINT, SIGTERM)
    expired,    \* the time limit of the state being executed has passed
    browser,    \* MeetingContext.BrowserDriver: none, then open, then closed or,
                \* when its Close failed, leaked
    page,       \* MeetingContext.Page: none, then open (in the meeting), then
                \* left (the call was left, the page shows so) or closed
    ffmpeg,     \* the recorder's child process
    sigint,     \* SIGINT was sent to it
    running,    \* ScreenRecorder.running
    delivered   \* the webhook events the receiver got

ctxVars == <<endReason, hasError, isPaused>>
recVars == <<ffmpeg, sigint, running>>
ownVars == <<browser, page, delivered>>
vars == <<current, pc, next, ctxVars, pending, torn, ctxDone, expired, ownVars, recVars>>

-----------------------------------------------------------------------------
(* The values of types.go *)

StateType == {"initialization", "waitingRoom", "inCall", "recording", "paused",
              "resuming", "cleanup", "error", "terminated"}

PreRecording == {"initialization", "waitingRoom", "inCall"}

NormalEndReasons == {"botRemoved", "noAttendees", "noSpeaker",
                     "allParticipantsLeft", "recordingTimeout", "apiRequest"}

\* Only the error reasons some line of the worker sets.
ErrorEndReasons == {"exitingMeetingBeforeRecord", "botNotAccepted",
                    "cannotJoinMeeting", "timeoutWaitingToStart",
                    "invalidMeetingUrl", "internalError"}

EndReasons == {"unset"} \cup NormalEndReasons \cup ErrorEndReasons

\* Where Execute of each state starts.
Entry == [initialization |-> "launch",    waitingRoom |-> "join",
          inCall         |-> "checkStop", recording   |-> "recordStop",
          paused         |-> "suspend",   resuming    |-> "resume",
          error          |-> "sendError", cleanup     |-> "stopRecorder"]

Location == {"loop", "assign", "exited",
             "launch", "open",
             "join", "joinFailed", "joinClassify",
             "checkStop", "startRecorder",
             "recordStop", "recordPause", "recordEnd",
             "suspend", "pausedStop", "pausedPoll",
             "resume",
             "sendError",
             "stopRecorder", "waitRecorder", "closeMeeting", "upload",
             "sendComplete", "closeBrowser"}

\* What a handler has decided to do to the MeetingContext.
Calls == {"none", "exitBeforeRecord", "apiRequest", "pause", "resume"}

FfmpegStates == {"none", "running", "suspended", "finalised", "lost"}

TypeOK ==
    /\ current \in StateType
    /\ pc \in Location
    /\ next \in StateType
    /\ endReason \in EndReasons
    /\ hasError \in BOOLEAN
    /\ isPaused \in BOOLEAN
    /\ pending \in [Handlers -> Calls]
    /\ torn \in BOOLEAN
    /\ ctxDone \in BOOLEAN
    /\ expired \in BOOLEAN
    /\ browser \in {"none", "open", "closed", "leaked"}
    /\ page \in {"none", "open", "left", "closed"}
    /\ ffmpeg \in FfmpegStates
    /\ sigint \in BOOLEAN
    /\ running \in BOOLEAN
    /\ delivered \subseteq {"failed", "complete"}

Init ==
    /\ current = "initialization"
    /\ pc = "loop"
    /\ next = "initialization"
    /\ endReason = "unset"
    /\ hasError = FALSE
    /\ isPaused = FALSE
    /\ pending = [h \in Handlers |-> "none"]
    /\ torn = FALSE
    /\ ctxDone = FALSE
    /\ expired = FALSE
    /\ browser = "none"
    /\ page = "none"
    /\ ffmpeg = "none"
    /\ sigint = FALSE
    /\ running = FALSE
    /\ delivered = {}

-----------------------------------------------------------------------------
(* The setters of MeetingContext, each one mutex section *)

ShouldStop == endReason # "unset"

SetEndReason(reason) ==
    /\ endReason' = reason
    /\ UNCHANGED <<hasError, isPaused>>

SetError(reason) ==
    /\ endReason' = reason
    /\ hasError' = TRUE
    /\ UNCHANGED isPaused

SetPaused(paused) ==
    /\ isPaused' = paused
    /\ UNCHANGED <<endReason, hasError>>

WasRecordingSuccessful == ~hasError /\ endReason \in NormalEndReasons

-----------------------------------------------------------------------------
(* The goroutine of Machine.Run *)

\* Execute goes on from one of its points to another.
Goto(from, to) ==
    /\ pc = from
    /\ pc' = to
    /\ UNCHANGED <<current, next, pending, torn, ctxDone, expired>>

\* Execute returns Transition{Next: s}.
Return(from, s) ==
    /\ pc = from
    /\ pc' = "assign"
    /\ next' = s
    /\ UNCHANGED <<current, pending, torn, ctxDone, expired>>

-----------------------------------------------------------------------------
(* Plausible bugs: each replaces the definition it is named after, to show   *)
(* that the properties notice. None is part of Spec.                         *)

\* The driver is not recorded before the page opens, so no cleanup is due.
OpenMeetingPageNoCleanup ==
    /\ \/ /\ Return("open", "terminated")
          /\ SetError("cannotJoinMeeting")
          /\ UNCHANGED page
       \/ /\ Return("open", "waitingRoom")
          /\ page' = "open"
          /\ UNCHANGED ctxVars
    /\ UNCHANGED <<browser, delivered, recVars>>

\* The join loop without its timeout.
JoinAbortedNoTimeout ==
    /\ ctxDone \/ ShouldStop
    /\ Goto("join", "joinFailed")
    /\ UNCHANGED <<ctxVars, ownVars, recVars>>

\* The error state is entered without SetError.
JoinClassifyNoError ==
    /\ Return("joinClassify", "error")
    /\ UNCHANGED <<ctxVars, ownVars, recVars>>

\* A resume failure that is only logged, as a pause failure is.
ResumeRecorderLogsError ==
    /\ Return("resume", "recording")
    /\ \/ running /\ ffmpeg = "suspended" /\ ffmpeg' = "running"
       \/ UNCHANGED ffmpeg
    /\ UNCHANGED <<ctxVars, ownVars, sigint, running>>

\* The paused loop without its resume check.
PausedPollNoResume ==
    /\ Goto("pausedPoll", "pausedStop")
    /\ UNCHANGED <<ctxVars, ownVars, recVars>>

\* Stop that does not wait for the process to exit.
StopRecorderNoWait ==
    /\ Goto("stopRecorder", "closeMeeting")
    /\ sigint' = TRUE
    /\ UNCHANGED <<ctxVars, ownVars, ffmpeg, running>>

\* Stop that waits for the output file to be complete.
WaitRecorderFinalised ==
    /\ ffmpeg = "finalised"
    /\ Goto("waitRecorder", "closeMeeting")
    /\ running' = FALSE
    /\ UNCHANGED <<ctxVars, ownVars, ffmpeg, sigint>>

\* RequestStop that forgets the waiting room among the pre-recording states.
HttpStopCallWaitingRoom(seen) ==
    IF seen \in {"initialization", "inCall"} THEN "exitBeforeRecord" ELSE "apiRequest"

\* exec.Command in place of exec.CommandContext.
ContextKillsFfmpegNever == FALSE

-----------------------------------------------------------------------------
(* The loop of Machine.Run *)

\* The top of the loop: stop at terminated, give up at once on a cancelled
\* context, else execute the current state, whose time limit starts now.
\* (No state's Execute returns an error, and every state has a handler.)
Loop ==
    /\ pc = "loop"
    /\ \/ /\ current = "terminated"
          /\ pc' = "exited"
          /\ UNCHANGED <<next, expired>>
       \/ /\ current # "terminated"
          /\ ctxDone
          /\ pc' = "assign"
          /\ next' = "terminated"
          /\ UNCHANGED expired
       \/ /\ current # "terminated"
          /\ ~ctxDone
          /\ pc' = Entry[current]
          /\ expired' = FALSE
          /\ UNCHANGED next
    /\ UNCHANGED <<current, ctxVars, pending, torn, ctxDone, ownVars, recVars>>

\* m.current = transition.Next: two machine words, written without a lock.
Assign ==
    /\ pc = "assign"
    /\ pc' = "loop"
    /\ current' = next
    /\ UNCHANGED <<next, ctxVars, pending, torn, ctxDone, expired, ownVars, recVars>>

-----------------------------------------------------------------------------
(* InitializationState *)

Launch ==
    /\ \/ /\ Return("launch", "error")
          /\ \E reason \in {"invalidMeetingUrl", "cannotJoinMeeting"} : SetError(reason)
          /\ UNCHANGED browser
       \/ /\ Goto("launch", "open")
          /\ browser' = "open"
          /\ UNCHANGED ctxVars
    /\ UNCHANGED <<page, delivered, recVars>>

OpenMeetingPage ==
    /\ \/ /\ Return("open", "error")
          /\ SetError("cannotJoinMeeting")
          /\ UNCHANGED page
       \/ /\ Return("open", "waitingRoom")
          /\ page' = "open"
          /\ UNCHANGED ctxVars
    /\ UNCHANGED <<browser, delivered, recVars>>

-----------------------------------------------------------------------------
(* WaitingRoomState: JoinMeeting polls the context, CancelCheck and the page *)

JoinDone == expired \/ ctxDone    \* joinCtx.Err() != nil

JoinAborted ==
    /\ JoinDone \/ ShouldStop
    /\ Goto("join", "joinFailed")
    /\ UNCHANGED <<ctxVars, ownVars, recVars>>

JoinAnswered ==
    /\ ~JoinDone
    /\ ~ShouldStop
    /\ \/ Return("join", "inCall")         \* admitted
       \/ Goto("join", "joinFailed")       \* denied, removed, login required
    /\ UNCHANGED <<ctxVars, ownVars, recVars>>

\* JoinMeeting failed: was it a stop request?
JoinFailed ==
    /\ \/ ShouldStop /\ Return("joinFailed", "cleanup")
       \/ ~ShouldStop /\ Goto("joinFailed", "joinClassify")
    /\ UNCHANGED <<ctxVars, ownVars, recVars>>

JoinClassify ==
    /\ Return("joinClassify", "error")
    /\ SetError(IF JoinDone THEN "timeoutWaitingToStart" ELSE "botNotAccepted")
    /\ UNCHANGED <<ownVars, recVars>>

-----------------------------------------------------------------------------
(* InCallState *)

InCallCheckStop ==
    /\ \/ /\ ShouldStop
          /\ Return("checkStop", "cleanup")
          /\ SetError("exitingMeetingBeforeRecord")
       \/ /\ ~ShouldStop
          /\ Goto("checkStop", "startRecorder")
          /\ UNCHANGED ctxVars
    /\ UNCHANGED <<ownVars, recVars>>

\* The page hooks, whose failures are only logged, then Recorder.Start; os/exec
\* starts nothing under a cancelled context.
StartRecorder ==
    /\ \/ /\ ~running
          /\ ~ctxDone
          /\ Return("startRecorder", "recording")
          /\ ffmpeg' = "running"
          /\ running' = TRUE
          /\ UNCHANGED <<ctxVars, sigint>>
       \/ /\ Return("startRecorder", "error")
          /\ SetError("internalError")
          /\ UNCHANGED recVars
    /\ UNCHANGED ownVars

-----------------------------------------------------------------------------
(* RecordingState, one iteration of its polling loop *)

\* ctx.Err() and ShouldStop.
RecordingStop ==
    /\ \/ /\ ctxDone
          /\ Return("recordStop", "cleanup")
          /\ SetEndReason("apiRequest")
       \/ /\ ~ctxDone
          /\ ShouldStop
          /\ Return("recordStop", "cleanup")
          /\ UNCHANGED ctxVars
       \/ /\ ~ctxDone
          /\ ~ShouldStop
          /\ Goto("recordStop", "recordPause")
          /\ UNCHANGED ctxVars
    /\ UNCHANGED <<ownVars, recVars>>

RecordingPause ==
    /\ \/ isPaused /\ Return("recordPause", "paused")
       \/ ~isPaused /\ Goto("recordPause", "recordEnd")
    /\ UNCHANGED <<ctxVars, ownVars, recVars>>

\* The duration limit first, then FindEndMeeting and the three timers over the
\* attendees, whose answers are inputs of this module.
RecordingEnd ==
    /\ \/ /\ expired
          /\ Return("recordEnd", "cleanup")
          /\ SetEndReason("recordingTimeout")
       \/ /\ ~expired
          /\ Return("recordEnd", "cleanup")
          /\ \E reason \in {"botRemoved", "noSpeaker", "noAttendees", "allParticipantsLeft"} :
                SetEndReason(reason)
       \/ /\ ~expired
          /\ Goto("recordEnd", "recordStop")
          /\ UNCHANGED ctxVars
    /\ UNCHANGED <<ownVars, recVars>>

-----------------------------------------------------------------------------
(* PausedState and ResumingState. Process.Signal may be refused: it always  *)
(* is by the Windows build, whose three signals are all os.Interrupt.       *)

SuspendRecorder ==
    /\ Goto("suspend", "pausedStop")
    /\ \/ running /\ ffmpeg = "running" /\ ffmpeg' = "suspended"
       \/ UNCHANGED ffmpeg    \* nothing runs, it is dead, or the signal failed
    /\ UNCHANGED <<ctxVars, ownVars, sigint, running>>

PausedStop ==
    /\ \/ /\ ctxDone
          /\ Return("pausedStop", "cleanup")
          /\ SetEndReason("apiRequest")
       \/ /\ ~ctxDone
          /\ ShouldStop
          /\ Return("pausedStop", "cleanup")
          /\ UNCHANGED ctxVars
       \/ /\ ~ctxDone
          /\ ~ShouldStop
          /\ Goto("pausedStop", "pausedPoll")
          /\ UNCHANGED ctxVars
    /\ UNCHANGED <<ownVars, recVars>>

PausedPoll ==
    /\ \/ ~isPaused /\ Return("pausedPoll", "resuming")
       \/ isPaused /\ Goto("pausedPoll", "pausedStop")
    /\ UNCHANGED <<ctxVars, ownVars, recVars>>

ResumeRecorder ==
    /\ \/ /\ Return("resume", "recording")
          /\ ffmpeg' = IF running /\ ffmpeg = "suspended" THEN "running" ELSE ffmpeg
          /\ UNCHANGED ctxVars
       \/ /\ running
          /\ Return("resume", "error")
          /\ SetError("internalError")
          /\ UNCHANGED ffmpeg
    /\ UNCHANGED <<ownVars, sigint, running>>

-----------------------------------------------------------------------------
(* ErrorState, CleanupState *)

\* One webhook attempt: the receiver gets the event or not (no URL configured,
\* retries exhausted, circuit open); a cancelled context sends nothing. The
\* caller goes on in every case.
SendWebhook(event) ==
    /\ \/ ~ctxDone /\ delivered' = delivered \cup {event}
       \/ UNCHANGED delivered
    /\ UNCHANGED <<ctxVars, browser, page, recVars>>

SendError ==
    /\ Return("sendError", "cleanup")
    /\ SendWebhook("failed")

\* ScreenRecorder.Stop up to cmd.Wait: SIGINT, or a kill if that is refused.
StopRecorder ==
    /\ \/ /\ ~running
          /\ Goto("stopRecorder", "closeMeeting")
          /\ UNCHANGED <<ffmpeg, sigint>>
       \/ /\ running
          /\ Goto("stopRecorder", "waitRecorder")
          /\ sigint' = TRUE
          /\ UNCHANGED ffmpeg
       \/ /\ running
          /\ Goto("stopRecorder", "waitRecorder")
          /\ ffmpeg' = "lost"
          /\ UNCHANGED sigint
    /\ UNCHANGED <<ctxVars, ownVars, running>>

\* cmd.Wait returns once the process is gone, however it went.
WaitRecorder ==
    /\ ffmpeg \in {"finalised", "lost"}
    /\ Goto("waitRecorder", "closeMeeting")
    /\ running' = FALSE
    /\ UNCHANGED <<ctxVars, ownVars, ffmpeg, sigint>>

\* A click on the leave button, if it is visible; one that is not, or a click
\* that fails, is only logged, and the page stays open in every case.
CloseMeeting ==
    /\ Goto("closeMeeting", "upload")
    /\ page' \in (IF page = "open" THEN {"open", "left"} ELSE {page})
    /\ UNCHANGED <<ctxVars, browser, delivered, recVars>>

Upload ==
    /\ Goto("upload", "sendComplete")
    /\ UNCHANGED <<ctxVars, ownVars, recVars>>

SendComplete ==
    /\ Goto("sendComplete", "closeBrowser")
    /\ SendWebhook("complete")

\* BrowserDriver.Close, whose two steps may each fail: an error of the first may
\* leave the page where it is, and either is only logged.
CloseBrowser ==
    /\ Return("closeBrowser", "terminated")
    /\ \/ /\ browser # "open"
          /\ UNCHANGED <<browser, page>>
       \/ /\ browser = "open"
          /\ browser' \in {"closed", "leaked"}
          /\ page' = IF page = "none" THEN "none" ELSE "closed"
       \/ /\ browser = "open"
          /\ browser' = "leaked"
          /\ UNCHANGED page
    /\ UNCHANGED <<ctxVars, delivered, recVars>>

\* Everything the goroutine does by itself; the host's answer is not.
Run ==
    \/ Loop \/ Assign
    \/ Launch \/ OpenMeetingPage
    \/ JoinAborted \/ JoinFailed \/ JoinClassify
    \/ InCallCheckStop \/ StartRecorder
    \/ RecordingStop \/ RecordingPause \/ RecordingEnd
    \/ SuspendRecorder \/ PausedStop \/ PausedPoll \/ ResumeRecorder
    \/ SendError
    \/ StopRecorder \/ WaitRecorder \/ CloseMeeting \/ Upload \/ SendComplete \/ CloseBrowser

-----------------------------------------------------------------------------
(* The HTTP handlers: read Machine.current, then call the MeetingContext *)

\* What an unsynchronised read returns: while Assign is storing the string, a
\* length paired with the other string's bytes equals no state.
\* (RequestStop compares Machine.current three times, in the order the states
\* follow one another, which answers as one read at the last comparison does.)
Readable == {current} \cup (IF TornReads /\ pc = "assign" THEN {"torn"} ELSE {})

HttpStopCall(seen) ==
    IF seen \in PreRecording THEN "exitBeforeRecord" ELSE "apiRequest"

HttpPauseCall(seen, call) ==
    IF seen \in {"recording", "paused"} THEN call ELSE "none"

\* History only: a torn read hides from RequestStop that nothing is recorded.
TakenForLate(seen, call) ==
    seen = "torn" /\ call = "apiRequest" /\ current \in PreRecording

HttpRead(h) ==
    /\ pc # "exited"
    /\ pending[h] = "none"
    /\ \E seen \in Readable :
          \E call \in {HttpStopCall(seen), HttpPauseCall(seen, "pause"),
                       HttpPauseCall(seen, "resume")} :
             /\ pending' = [pending EXCEPT ![h] = call]
             /\ torn' = (torn \/ TakenForLate(seen, call))
    /\ UNCHANGED <<current, pc, next, ctxVars, ctxDone, expired, ownVars, recVars>>

HttpApply(h) ==
    /\ pc # "exited"
    /\ \/ /\ pending[h] = "exitBeforeRecord"
          /\ SetError("exitingMeetingBeforeRecord")
       \/ /\ pending[h] = "apiRequest"
          /\ SetEndReason("apiRequest")
       \/ /\ pending[h] = "pause"
          /\ SetPaused(TRUE)
       \/ /\ pending[h] = "resume"
          /\ SetPaused(FALSE)
    /\ pending' = [pending EXCEPT ![h] = "none"]
    /\ UNCHANGED <<current, pc, next, torn, ctxDone, expired, ownVars, recVars>>

\* subscribeBotCommands: "pause" and "resume" are applied in any state.
RedisCommand ==
    /\ pc # "exited"
    /\ \E paused \in BOOLEAN : SetPaused(paused)
    /\ UNCHANGED <<current, pc, next, pending, torn, ctxDone, expired, ownVars, recVars>>

-----------------------------------------------------------------------------
(* Signals, time and the child process *)

Sigterm ==
    /\ pc # "exited"
    /\ ~ctxDone
    /\ ctxDone' = TRUE
    /\ UNCHANGED <<current, pc, next, ctxVars, pending, torn, expired, ownVars, recVars>>

\* The waiting-room timeout or the four hours of one recording stretch run out.
Expire ==
    /\ current \in {"waitingRoom", "recording"}
    /\ pc \notin {"loop", "assign"}
    /\ ~expired
    /\ expired' = TRUE
    /\ UNCHANGED <<current, pc, next, ctxVars, pending, torn, ctxDone, ownVars, recVars>>

ProcessVars == <<current, pc, next, ctxVars, pending, torn, ctxDone, expired, ownVars, sigint, running>>

\* ffmpeg handles SIGINT and closes its file; a stopped process handles nothing.
FfmpegFinalises ==
    /\ ffmpeg = "running"
    /\ sigint
    /\ ffmpeg' = "finalised"
    /\ UNCHANGED ProcessVars

\* ffmpeg fails by itself (display gone, disk full); nobody is told.
FfmpegCrashes ==
    /\ ffmpeg = "running"
    /\ ffmpeg' = "lost"
    /\ UNCHANGED ProcessVars

\* exec.CommandContext kills the child, stopped or not, once ctx is done, as
\* long as the worker lives.
ContextKillsFfmpeg ==
    /\ ctxDone
    /\ pc # "exited"
    /\ ffmpeg \in {"running", "suspended"}
    /\ ffmpeg' = "lost"
    /\ UNCHANGED ProcessVars

Done == pc = "exited" /\ UNCHANGED vars

Next ==
    \/ Run
    \/ JoinAnswered
    \/ \E h \in Handlers : HttpRead(h) \/ HttpApply(h)
    \/ RedisCommand
    \/ Sigterm
    \/ Expire
    \/ FfmpegFinalises \/ FfmpegCrashes \/ ContextKillsFfmpeg
    \/ Done

Spec == Init /\ [][Next]_vars

\* The goroutine keeps running (the browser, S3 and webhook calls it makes
\* return), time passes, ffmpeg obeys SIGINT and os/exec kills on cancel. No
\* fairness for requests, signals, the host's answer or a crash.
Fairness ==
    /\ WF_vars(Run)
    /\ WF_vars(Expire)
    /\ WF_vars(FfmpegFinalises)
    /\ WF_vars(ContextKillsFfmpeg)

FairSpec == Spec /\ Fairness

-----------------------------------------------------------------------------
(* Safety *)

\* A session that was not cancelled never ends with something left behind that
\* its cleanup did not try to take down, whatever failed on the way and whichever
\* path led to it: the recorder is gone or never started, a browser is open only
\* if its own Close failed, and the bot is still in the meeting only if both the
\* leave button and that Close did (states/cleanup.go, close.go).
NothingLeftBehind ==
    pc = "exited" /\ ~ctxDone =>
        /\ ffmpeg \in {"none", "finalised", "lost"}
        /\ browser # "open"
        /\ page \in {"open", "left"} => browser = "leaked"

\* While the machine polls for end conditions in the recording state, ffmpeg is
\* not suspended: no order of pause, resume and stop requests leaves a session
\* that looks live and captures nothing (paused.go, recording.go).
RecordingIsLive ==
    current = "recording" /\ pc \in {"loop", "recordStop", "recordPause", "recordEnd"} =>
        ffmpeg \in {"running", "finalised", "lost"}

\* The "complete" event is sent only once ffmpeg is gone, so a receiver that
\* fetches the recording never reads a file still written; the page may still
\* show the meeting (cleanup.go leaves it before, and closes it after, the event).
CompleteAfterRecording ==
    "complete" \in delivered => ffmpeg \in {"none", "finalised", "lost"}

\* A receiver that was told "failed" was told so of a session that has an error:
\* no path enters the error state without SetError (error.go logs that case).
FailedMeansError == "failed" \in delivered => hasError

\* Machine.WasRecordingSuccessful is true of a finished session only if it
\* recorded: a stop before the recorder starts never counts as a success, in any
\* order of handlers and states, unless the handler read Machine.current while
\* its two words were being stored and so saw no state at all (machine.go:91-95
\* calls that read thread-safe; RequestStop makes it without a lock).
SuccessMeansRecorded ==
    pc = "exited" /\ ~ctxDone /\ WasRecordingSuccessful => ffmpeg # "none" \/ torn

-----------------------------------------------------------------------------
(* Liveness, under Fairness *)

\* Once something ended the session (a stop request, an end condition, an
\* error), the worker exits, unless its recorder is suspended.
StopIsHonoured == ShouldStop ~> (pc = "exited" \/ ffmpeg = "suspended")

\* After SIGTERM the worker exits, even out of a wait for a suspended ffmpeg.
CancelIsHonoured == ctxDone ~> pc = "exited"

\* A resume is not missed by the paused loop unless a new pause follows it.
ResumeIsHonoured ==
    (current = "paused" /\ ~isPaused) ~> (current # "paused" \/ isPaused)

\* A session that is not paused again and again, and whose ffmpeg does not stay
\* suspended, ends by itself: the waiting room and each stretch of recording
\* have a time limit (waiting_room.go, recording.go).
SessionEnds == <>(pc = "exited") \/ []<>isPaused \/ <>[](ffmpeg = "suspended")

-----------------------------------------------------------------------------
(* What the code's comments and tests say and its interleavings do not keep *)

\* machine.go: "context cancelled, forcing cleanup".
CancelRunsCleanup ==
    pc = "exited" =>
        /\ ffmpeg \in {"none", "finalised", "lost"}
        /\ browser # "open"

\* stop_record.go: "the state machine transitions to Cleanup and the recorder
\* finalises in the background".
StopFinalises == ShouldStop ~> pc = "exited"

=============================================================================
