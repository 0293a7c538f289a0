-------------------------- MODULE BotMachineProofs --------------------------
(***************************************************************************)
(* What holds of BotMachine for every set of HTTP handlers, proved: its    *)
(* invariants from one inductive invariant, then that it implements        *)
(* BotLifecycle and SetupContract, one lemma per visible step and one for  *)
(* all the invisible ones.                                                 *)
(***************************************************************************)
EXTENDS BotMachineRefinement, Integers, TLAPS

-----------------------------------------------------------------------------
(* The inductive invariant, in named parts *)

\* Every point of the code belongs to one state, and only the loop is left when
\* the state is terminated.
ControlInv ==
    /\ pc \in {"launch", "open"} => current = "initialization"
    /\ pc \in {"join", "joinFailed", "joinClassify"} => current = "waitingRoom"
    /\ pc \in {"checkStop", "startRecorder"} => current = "inCall"
    /\ pc \in {"recordStop", "recordPause", "recordEnd"} => current = "recording"
    /\ pc \in {"suspend", "pausedStop", "pausedPoll"} => current = "paused"
    /\ pc = "resume" => current = "resuming"
    /\ pc = "sendError" => current = "error"
    /\ pc \in {"stopRecorder", "waitRecorder", "closeMeeting", "upload",
               "sendComplete", "closeBrowser"} => current = "cleanup"
    /\ pc = "exited" => current = "terminated"
    /\ current = "terminated" => pc \in {"loop", "exited"}

\* The transition being stored is one the states return, or the loop's own.
AssignInv ==
    pc = "assign" =>
        \/ next = "terminated" /\ ctxDone
        \/ current = "initialization" /\ next \in {"waitingRoom", "error"}
        \/ current = "waitingRoom" /\ next \in {"inCall", "error", "cleanup"}
        \/ current = "inCall" /\ next \in {"recording", "error", "cleanup"}
        \/ current = "recording" /\ next \in {"paused", "cleanup"}
        \/ current = "paused" /\ next \in {"resuming", "cleanup"}
        \/ current = "resuming" /\ next \in {"recording", "error"}
        \/ current = "error" /\ next = "cleanup"
        \/ current = "cleanup" /\ next = "terminated"

Gone == {"none", "finalised", "lost"}

\* Recorder.Start runs in inCall only, and ScreenRecorder.running is false only
\* while no ffmpeg is alive.
RecorderInv ==
    /\ ~running => ffmpeg \in Gone
    /\ running => ffmpeg # "none"
    /\ current \in {"initialization", "waitingRoom"} => ~running /\ ffmpeg = "none"
    /\ current = "inCall" /\ ~(pc = "assign" /\ next = "recording") =>
           ~running /\ ffmpeg = "none"
    /\ pc = "assign" /\ next = "recording" => running /\ ffmpeg # "suspended"
    /\ current = "recording" => running /\ ffmpeg # "suspended"
    /\ current \in {"paused", "resuming"} => running

\* What no Close failed to take down is gone.
TakenDown ==
    /\ browser # "open"
    /\ page \in {"open", "left"} => browser = "leaked"

\* What the cleanup has done at each of its points.
CleanupInv ==
    /\ pc \in {"closeMeeting", "upload", "sendComplete", "closeBrowser"} => ~running
    /\ pc = "assign" /\ current = "cleanup" /\ ~ctxDone => ~running /\ TakenDown
    /\ current = "terminated" /\ ~ctxDone => ~running /\ TakenDown
    /\ "complete" \in delivered =>
           /\ \/ current = "cleanup" /\ pc \in {"closeBrowser", "assign"}
              \/ current = "terminated"
           /\ ~running

\* Nothing is opened but in a browser, until it is closed or could not be.
PageInv ==
    /\ pc = "open" => browser = "open"
    /\ page \in {"open", "left"} => browser \in {"open", "leaked"}

\* The error state always has an error to report.
ErrorInv ==
    /\ current = "error" => hasError
    /\ pc = "assign" /\ next = "error" => hasError
    /\ "failed" \in delivered => hasError

IInv ==
    /\ TypeOK
    /\ ControlInv
    /\ AssignInv
    /\ RecorderInv
    /\ CleanupInv
    /\ PageInv
    /\ ErrorInv

-----------------------------------------------------------------------------
(* The invariant is inductive *)

\* Each variable stays within its type.
LEMMA TypeOKStep == TypeOK /\ [Next]_vars => TypeOK'
<1> SUFFICES ASSUME TypeOK, [Next]_vars PROVE TypeOK'
  OBVIOUS
<1> USE DEF TypeOK, StateType, Location, EndReasons, NormalEndReasons, ErrorEndReasons,
            Calls, FfmpegStates, ctxVars, recVars, ownVars
<1>1. CASE Loop
  <2>1. expired' \in BOOLEAN
    BY <1>1, Zenon DEF Loop
  <2>2. QED
    BY <1>1, <2>1 DEF Loop, Entry
<1>2. CASE Assign
  BY <1>2 DEF Assign
<1>3. CASE Launch
  <2>1. hasError' \in BOOLEAN
    BY <1>3, Zenon DEF Launch, Goto, Return, SetError
  <2>2. QED
    BY <1>3, <2>1 DEF Launch, Goto, Return, SetError
<1>4. CASE OpenMeetingPage
  <2>1. hasError' \in BOOLEAN
    BY <1>4, Zenon DEF OpenMeetingPage, Return, SetError
  <2>2. QED
    BY <1>4, <2>1 DEF OpenMeetingPage, Return, SetError
<1>5. CASE JoinAborted
  BY <1>5 DEF JoinAborted, Goto
<1>6. CASE JoinAnswered
  BY <1>6 DEF JoinAnswered, Goto, Return
<1>7. CASE JoinFailed
  BY <1>7 DEF JoinFailed, Goto, Return
<1>8. CASE JoinClassify
  BY <1>8 DEF JoinClassify, Return, SetError
<1>9. CASE InCallCheckStop
  <2>1. hasError' \in BOOLEAN
    BY <1>9, Zenon DEF InCallCheckStop, Goto, Return, SetError
  <2>2. QED
    BY <1>9, <2>1 DEF InCallCheckStop, Goto, Return, SetError
<1>10. CASE StartRecorder
  <2>1. hasError' \in BOOLEAN /\ running' \in BOOLEAN
    BY <1>10, Zenon DEF StartRecorder, Return, SetError
  <2>2. QED
    BY <1>10, <2>1 DEF StartRecorder, Return, SetError
<1>11. CASE RecordingStop
  BY <1>11 DEF RecordingStop, Goto, Return, SetEndReason
<1>12. CASE RecordingPause
  BY <1>12 DEF RecordingPause, Goto, Return
<1>13. CASE RecordingEnd
  BY <1>13 DEF RecordingEnd, Goto, Return, SetEndReason
<1>14. CASE SuspendRecorder
  BY <1>14 DEF SuspendRecorder, Goto
<1>15. CASE PausedStop
  BY <1>15 DEF PausedStop, Goto, Return, SetEndReason
<1>16. CASE PausedPoll
  BY <1>16 DEF PausedPoll, Goto, Return
<1>17. CASE ResumeRecorder
  <2>1. hasError' \in BOOLEAN
    BY <1>17, Zenon DEF ResumeRecorder, Return, SetError
  <2>2. QED
    BY <1>17, <2>1 DEF ResumeRecorder, Return, SetError
<1>18. CASE SendError
  <2>1. delivered' \subseteq {"failed", "complete"}
    BY <1>18 DEF SendError, SendWebhook
  <2>2. QED
    BY <1>18, <2>1 DEF SendError, Return, SendWebhook
<1>19. CASE StopRecorder
  <2>1. sigint' \in BOOLEAN
    BY <1>19, Zenon DEF StopRecorder, Goto
  <2>2. QED
    BY <1>19, <2>1 DEF StopRecorder, Goto
<1>20. CASE WaitRecorder
  <2>1. running' \in BOOLEAN
    BY <1>20, Zenon DEF WaitRecorder, Goto
  <2>2. QED
    BY <1>20, <2>1 DEF WaitRecorder, Goto
<1>21. CASE CloseMeeting
  BY <1>21 DEF CloseMeeting, Goto
<1>22. CASE Upload
  BY <1>22 DEF Upload, Goto
<1>23. CASE SendComplete
  <2>1. delivered' \subseteq {"failed", "complete"}
    BY <1>23 DEF SendComplete, SendWebhook
  <2>2. QED
    BY <1>23, <2>1 DEF SendComplete, Goto, SendWebhook
<1>24. CASE CloseBrowser
  BY <1>24 DEF CloseBrowser, Return
<1>25. CASE RedisCommand
  BY <1>25 DEF RedisCommand, SetPaused
<1>26. CASE Sigterm
  BY <1>26 DEF Sigterm
<1>27. CASE Expire
  BY <1>27 DEF Expire
<1>28. CASE FfmpegFinalises
  BY <1>28 DEF FfmpegFinalises, ProcessVars
<1>29. CASE FfmpegCrashes
  BY <1>29 DEF FfmpegCrashes, ProcessVars
<1>30. CASE ContextKillsFfmpeg
  BY <1>30 DEF ContextKillsFfmpeg, ProcessVars
<1>31. CASE Done
  BY <1>31 DEF Done, vars
<1>32. CASE \E h \in Handlers : HttpRead(h)
  <2>1. torn' \in BOOLEAN
    BY <1>32, Zenon DEF HttpRead
  <2>2. QED
    BY <1>32, <2>1 DEF HttpRead, HttpStopCall, HttpPauseCall, Calls
<1>33. CASE \E h \in Handlers : HttpApply(h)
  <2>1. PICK h \in Handlers : HttpApply(h)
    BY <1>33
  <2>2. hasError' \in BOOLEAN /\ isPaused' \in BOOLEAN
    BY <2>1, Zenon DEF HttpApply, SetError, SetEndReason, SetPaused
  <2>3. endReason' \in EndReasons
    BY <2>1 DEF HttpApply, SetError, SetEndReason, SetPaused
  <2>4. pending' \in [Handlers -> Calls]
    BY <2>1 DEF HttpApply, Calls
  <2>5. QED
    BY <2>1, <2>2, <2>3, <2>4 DEF HttpApply
<1>34. CASE UNCHANGED vars
  BY <1>34 DEF vars
<1> HIDE DEF TypeOK
<1>35. QED
  BY <1>1, <1>2, <1>3, <1>4, <1>5, <1>6, <1>7, <1>8, <1>9, <1>10, <1>11, <1>12,
     <1>13, <1>14, <1>15, <1>16, <1>17, <1>18, <1>19, <1>20, <1>21, <1>22, <1>23, <1>24,
     <1>25, <1>26, <1>27, <1>28, <1>29, <1>30, <1>31, <1>32, <1>33, <1>34
  DEF Next, Run

-----------------------------------------------------------------------------
(* The steps of each state, and those that are not the goroutine's *)

InitializationStep == Launch \/ OpenMeetingPage
WaitingRoomStep == JoinAborted \/ JoinAnswered \/ JoinFailed \/ JoinClassify
InCallStep == InCallCheckStop \/ StartRecorder
RecordingStep == RecordingStop \/ RecordingPause \/ RecordingEnd
PausedStep == SuspendRecorder \/ PausedStop \/ PausedPoll \/ ResumeRecorder
CleanupStep == StopRecorder \/ WaitRecorder \/ CloseMeeting \/ Upload
    \/ SendComplete \/ CloseBrowser
RequestStep == RedisCommand \/ \E h \in Handlers : HttpRead(h) \/ HttpApply(h)
ProcessStep == FfmpegFinalises \/ FfmpegCrashes \/ ContextKillsFfmpeg
StutterStep == Done \/ UNCHANGED vars

\* Every step is one of these.
LEMMA StepCases ==
    ASSUME [Next]_vars
    PROVE  \/ Loop \/ Assign \/ InitializationStep \/ WaitingRoomStep \/ InCallStep
           \/ RecordingStep \/ PausedStep \/ SendError \/ CleanupStep
           \/ RequestStep \/ Sigterm \/ Expire \/ ProcessStep \/ StutterStep
BY DEF Next, Run, InitializationStep, WaitingRoomStep, InCallStep, RecordingStep,
       PausedStep, CleanupStep, RequestStep, ProcessStep, StutterStep

\* A request changes nothing but the MeetingContext.
LEMMA RequestFrame ==
    RequestStep => UNCHANGED <<current, pc, next, ctxDone, ownVars, recVars>>
BY DEF RequestStep, RedisCommand, HttpRead, HttpApply

\* Where Loop sends the goroutine.
LEMMA EntryPoint ==
    /\ Entry["initialization"] = "launch" /\ Entry["waitingRoom"] = "join"
    /\ Entry["inCall"] = "checkStop" /\ Entry["recording"] = "recordStop"
    /\ Entry["paused"] = "suspend" /\ Entry["resuming"] = "resume"
    /\ Entry["error"] = "sendError" /\ Entry["cleanup"] = "stopRecorder"
BY DEF Entry

\* The goroutine follows the control flow.
LEMMA ControlStep == IInv /\ [Next]_vars => ControlInv' /\ AssignInv'
<1> SUFFICES ASSUME IInv, [Next]_vars PROVE ControlInv' /\ AssignInv'
  OBVIOUS
<1> USE DEF IInv, TypeOK, StateType, ControlInv, AssignInv, ctxVars, recVars, ownVars,
            Goto, Return
<1>1. CASE Loop
  BY <1>1, EntryPoint DEF Loop
<1>2. CASE Assign
  BY <1>2 DEF Assign
<1>3. CASE InitializationStep
  BY <1>3 DEF InitializationStep, Launch, OpenMeetingPage
<1>4. CASE WaitingRoomStep
  BY <1>4 DEF WaitingRoomStep, JoinAborted, JoinAnswered, JoinFailed, JoinClassify
<1>5. CASE InCallStep
  BY <1>5 DEF InCallStep, InCallCheckStop, StartRecorder
<1>6. CASE RecordingStep
  BY <1>6 DEF RecordingStep, RecordingStop, RecordingPause, RecordingEnd
<1>7. CASE PausedStep
  BY <1>7 DEF PausedStep, SuspendRecorder, PausedStop, PausedPoll, ResumeRecorder
<1>8. CASE SendError
  BY <1>8 DEF SendError, SendWebhook
<1>9. CASE CleanupStep
  BY <1>9 DEF CleanupStep, StopRecorder, WaitRecorder, CloseMeeting, Upload,
     SendComplete,
             CloseBrowser, SendWebhook
<1>10. CASE RequestStep
  BY <1>10 DEF RequestStep, RedisCommand, HttpRead, HttpApply
<1>11. CASE Sigterm
  BY <1>11 DEF Sigterm
<1>12. CASE Expire
  BY <1>12 DEF Expire
<1>13. CASE ProcessStep
  BY <1>13 DEF ProcessStep, FfmpegFinalises, FfmpegCrashes, ContextKillsFfmpeg,
     ProcessVars
<1>14. CASE StutterStep
  BY <1>14 DEF StutterStep, Done, vars
<1>15. QED
  BY StepCases, <1>1, <1>2, <1>3, <1>4, <1>5, <1>6, <1>7, <1>8, <1>9, <1>10, <1>11,
     <1>12, <1>13, <1>14

\* The recorder runs in the states that need it.
LEMMA RecorderStep == IInv /\ [Next]_vars => RecorderInv'
<1> SUFFICES ASSUME IInv, [Next]_vars PROVE RecorderInv'
  OBVIOUS
<1> USE DEF IInv, TypeOK, StateType, ControlInv, AssignInv, RecorderInv, Gone,
            FfmpegStates, ctxVars, recVars, ownVars, Goto, Return
<1>1. CASE Loop
  BY <1>1, EntryPoint DEF Loop
<1>2. CASE Assign
  BY <1>2 DEF Assign
<1>3. CASE InitializationStep
  BY <1>3 DEF InitializationStep, Launch, OpenMeetingPage
<1>4. CASE WaitingRoomStep
  BY <1>4 DEF WaitingRoomStep, JoinAborted, JoinAnswered, JoinFailed, JoinClassify
<1>5. CASE InCallStep
  BY <1>5 DEF InCallStep, InCallCheckStop, StartRecorder
<1>6. CASE RecordingStep
  BY <1>6 DEF RecordingStep, RecordingStop, RecordingPause, RecordingEnd
<1>7. CASE PausedStep
  BY <1>7 DEF PausedStep, SuspendRecorder, PausedStop, PausedPoll, ResumeRecorder
<1>8. CASE SendError
  BY <1>8 DEF SendError, SendWebhook
<1>9. CASE CleanupStep
  BY <1>9 DEF CleanupStep, StopRecorder, WaitRecorder, CloseMeeting, Upload,
     SendComplete,
             CloseBrowser, SendWebhook
<1>10. CASE RequestStep
  BY <1>10, RequestFrame
<1>11. CASE Sigterm
  BY <1>11 DEF Sigterm
<1>12. CASE Expire
  BY <1>12 DEF Expire
<1>13. CASE ProcessStep
  BY <1>13 DEF ProcessStep, FfmpegFinalises, FfmpegCrashes, ContextKillsFfmpeg,
     ProcessVars
<1>14. CASE StutterStep
  BY <1>14 DEF StutterStep, Done, vars
<1>15. QED
  BY StepCases, <1>1, <1>2, <1>3, <1>4, <1>5, <1>6, <1>7, <1>8, <1>9, <1>10, <1>11,
     <1>12, <1>13, <1>14

\* The cleanup does what it has to, in order.
LEMMA CleanupInvStep == IInv /\ [Next]_vars => CleanupInv'
<1> SUFFICES ASSUME IInv, [Next]_vars PROVE CleanupInv'
  OBVIOUS
<1> USE DEF IInv, TypeOK, StateType, ControlInv, AssignInv, CleanupInv, RecorderInv,
            TakenDown, PageInv, ctxVars, recVars, ownVars, Goto, Return
<1>1. CASE Loop
  BY <1>1, EntryPoint DEF Loop
<1>2. CASE Assign
  BY <1>2 DEF Assign
<1>3. CASE InitializationStep
  BY <1>3 DEF InitializationStep, Launch, OpenMeetingPage
<1>4. CASE WaitingRoomStep
  BY <1>4 DEF WaitingRoomStep, JoinAborted, JoinAnswered, JoinFailed, JoinClassify
<1>5. CASE InCallStep
  BY <1>5 DEF InCallStep, InCallCheckStop, StartRecorder
<1>6. CASE RecordingStep
  BY <1>6 DEF RecordingStep, RecordingStop, RecordingPause, RecordingEnd
<1>7. CASE PausedStep
  BY <1>7 DEF PausedStep, SuspendRecorder, PausedStop, PausedPoll, ResumeRecorder
<1>8. CASE SendError
  BY <1>8 DEF SendError, SendWebhook
<1>9. CASE CleanupStep
  BY <1>9 DEF CleanupStep, StopRecorder, WaitRecorder, CloseMeeting, Upload,
     SendComplete,
             CloseBrowser, SendWebhook
<1>10. CASE RequestStep
  BY <1>10, RequestFrame
<1>11. CASE Sigterm
  BY <1>11 DEF Sigterm
<1>12. CASE Expire
  BY <1>12 DEF Expire
<1>13. CASE ProcessStep
  BY <1>13 DEF ProcessStep, FfmpegFinalises, FfmpegCrashes, ContextKillsFfmpeg,
     ProcessVars
<1>14. CASE StutterStep
  BY <1>14 DEF StutterStep, Done, vars
<1>15. QED
  BY StepCases, <1>1, <1>2, <1>3, <1>4, <1>5, <1>6, <1>7, <1>8, <1>9, <1>10, <1>11,
     <1>12, <1>13, <1>14

\* The page is opened in a browser, and the browser closed with it or not at all.
LEMMA PageStep == IInv /\ [Next]_vars => PageInv'
<1> SUFFICES ASSUME IInv, [Next]_vars PROVE PageInv'
  OBVIOUS
<1> USE DEF IInv, TypeOK, PageInv, ctxVars, recVars, ownVars, Goto, Return
<1>1. CASE Loop
  BY <1>1, EntryPoint DEF Loop, StateType
<1>2. CASE Assign
  BY <1>2 DEF Assign
<1>3. CASE InitializationStep
  BY <1>3 DEF InitializationStep, Launch, OpenMeetingPage
<1>4. CASE WaitingRoomStep \/ InCallStep
  BY <1>4 DEF WaitingRoomStep, JoinAborted, JoinAnswered, JoinFailed, JoinClassify,
      InCallStep, InCallCheckStop, StartRecorder
<1>5. CASE RecordingStep \/ PausedStep
  BY <1>5 DEF RecordingStep, RecordingStop, RecordingPause, RecordingEnd, PausedStep,
      SuspendRecorder, PausedStop, PausedPoll, ResumeRecorder
<1>6. CASE SendError \/ CleanupStep
  BY <1>6 DEF SendError, SendWebhook, CleanupStep, StopRecorder, WaitRecorder, CloseMeeting,
      Upload, SendComplete, CloseBrowser
<1>7. CASE RequestStep
  BY <1>7, RequestFrame
<1>8. CASE Sigterm \/ Expire \/ ProcessStep \/ StutterStep
  BY <1>8 DEF Sigterm, Expire, ProcessStep, FfmpegFinalises, FfmpegCrashes,
      ContextKillsFfmpeg, ProcessVars, StutterStep, Done, vars
<1>9. QED
  BY StepCases, <1>1, <1>2, <1>3, <1>4, <1>5, <1>6, <1>7, <1>8

\* An error is never reported without one.
LEMMA ErrorStep == IInv /\ [Next]_vars => ErrorInv'
<1> SUFFICES ASSUME IInv, [Next]_vars PROVE ErrorInv'
  OBVIOUS
<1> USE DEF IInv, TypeOK, StateType, ControlInv, AssignInv, ErrorInv, SetError,
            SetEndReason, SetPaused, ctxVars, recVars, ownVars, Goto, Return
<1>1. CASE Loop
  BY <1>1, EntryPoint DEF Loop
<1>2. CASE Assign
  BY <1>2 DEF Assign
<1>3. CASE InitializationStep
  BY <1>3 DEF InitializationStep, Launch, OpenMeetingPage
<1>4. CASE WaitingRoomStep
  BY <1>4 DEF WaitingRoomStep, JoinAborted, JoinAnswered, JoinFailed, JoinClassify
<1>5. CASE InCallStep
  BY <1>5 DEF InCallStep, InCallCheckStop, StartRecorder
<1>6. CASE RecordingStep
  BY <1>6 DEF RecordingStep, RecordingStop, RecordingPause, RecordingEnd
<1>7. CASE PausedStep
  BY <1>7 DEF PausedStep, SuspendRecorder, PausedStop, PausedPoll, ResumeRecorder
<1>8. CASE SendError
  BY <1>8 DEF SendError, SendWebhook
<1>9. CASE CleanupStep
  BY <1>9 DEF CleanupStep, StopRecorder, WaitRecorder, CloseMeeting, Upload,
     SendComplete,
             CloseBrowser, SendWebhook
<1>10. CASE RequestStep
  BY <1>10 DEF RequestStep, RedisCommand, HttpRead, HttpApply
<1>11. CASE Sigterm
  BY <1>11 DEF Sigterm
<1>12. CASE Expire
  BY <1>12 DEF Expire
<1>13. CASE ProcessStep
  BY <1>13 DEF ProcessStep, FfmpegFinalises, FfmpegCrashes, ContextKillsFfmpeg,
     ProcessVars
<1>14. CASE StutterStep
  BY <1>14 DEF StutterStep, Done, vars
<1>15. QED
  BY StepCases, <1>1, <1>2, <1>3, <1>4, <1>5, <1>6, <1>7, <1>8, <1>9, <1>10, <1>11,
     <1>12, <1>13, <1>14

-----------------------------------------------------------------------------
(* The theorems *)

\* A worker starts with nothing launched, nothing requested and nothing sent.
LEMMA IInvInit == Init => IInv
BY DEF Init, IInv, TypeOK, StateType, Location, EndReasons, Calls, FfmpegStates,
       ControlInv, AssignInv, RecorderInv, Gone, CleanupInv, TakenDown, PageInv, ErrorInv

\* No step of the goroutine, of a request or of ffmpeg breaks the invariant.
LEMMA IInvStep == IInv /\ [Next]_vars => IInv'
BY TypeOKStep, ControlStep, RecorderStep, CleanupInvStep, PageStep, ErrorStep DEF IInv

\* What the invariant is for.
LEMMA IInvImplies ==
    IInv => /\ NothingLeftBehind
            /\ RecordingIsLive
            /\ CompleteAfterRecording
            /\ FailedMeansError
BY DEF IInv, TypeOK, FfmpegStates, ControlInv, AssignInv, RecorderInv, Gone, CleanupInv,
       TakenDown, ErrorInv, NothingLeftBehind, RecordingIsLive, CompleteAfterRecording, FailedMeansError

\* The invariant holds of every session, whatever requests, signals and
\* failures it meets.
THEOREM Invariance == Spec => []IInv
<1>1. QED
  BY IInvInit, IInvStep, PTL DEF Spec

\* Every variable keeps its type: no error code outside types.go is ever stored
\* and no state without a handler is ever entered.
THEOREM TypeCorrect == Spec => []TypeOK
BY Invariance, IInvImplies, PTL DEF IInv

\* A session that was not cancelled exits with its recorder gone and a close of
\* its browser tried, and stays in the meeting or in its browser only if that
\* close failed, for any number of concurrent requests.
THEOREM CleanupComplete == Spec => []NothingLeftBehind
BY Invariance, IInvImplies, PTL

\* The recording state never polls with a suspended ffmpeg.
THEOREM LiveRecording == Spec => []RecordingIsLive
BY Invariance, IInvImplies, PTL

\* "complete" is never sent while ffmpeg lives.
THEOREM CompleteIsLate == Spec => []CompleteAfterRecording
BY Invariance, IInvImplies, PTL

\* "failed" is never sent of a session without an error.
THEOREM FailureHasError == Spec => []FailedMeansError
BY Invariance, IInvImplies, PTL

-----------------------------------------------------------------------------
(* Success means recorded, unless a torn read hid that nothing was *)

\* As long as no torn read hid a state before recording, a request that will
\* store the normal reason apiRequest was decided after the recorder started, and
\* a session on its way out that never recorded has an error, unless its context
\* was cancelled.
RecordedInv ==
    ~torn =>
        /\ \A h \in Handlers : pending[h] = "apiRequest" => current \notin PreRecording
        /\ ~ctxDone /\ ffmpeg = "none" =>
               /\ ShouldStop => hasError
               /\ current \in {"error", "cleanup", "terminated"} => hasError
               /\ pc = "assign" /\ next \in {"error", "cleanup", "terminated"} => hasError

\* A torn read is not forgotten.
LEMMA TornStays == TypeOK /\ [Next]_vars /\ ~torn' => ~torn
<1> SUFFICES ASSUME TypeOK, [Next]_vars, torn PROVE torn'
  OBVIOUS
<1>1. CASE \E h \in Handlers : HttpRead(h)
  BY <1>1 DEF HttpRead
<1>2. CASE UNCHANGED torn
  BY <1>2
<1>3. QED
  BY <1>1, <1>2, StepCases
  DEF Loop, Assign, InitializationStep, Launch, OpenMeetingPage, WaitingRoomStep,
      JoinAborted, JoinAnswered, JoinFailed, JoinClassify, InCallStep, InCallCheckStop,
      StartRecorder, RecordingStep, RecordingStop, RecordingPause, RecordingEnd, PausedStep,
      SuspendRecorder, PausedStop, PausedPoll, ResumeRecorder, SendError, CleanupStep,
      StopRecorder, WaitRecorder, CloseMeeting, Upload, SendComplete, CloseBrowser,
      RequestStep, RedisCommand, HttpApply, Sigterm, Expire, ProcessStep, FfmpegFinalises,
      FfmpegCrashes, ContextKillsFfmpeg, ProcessVars, StutterStep, Done, vars, Goto, Return

\* No handler decides on apiRequest before the recorder started, and no state
\* before recording is entered again.
LEMMA RecordedStep == IInv /\ RecordedInv /\ [Next]_vars => RecordedInv'
<1> SUFFICES ASSUME IInv, RecordedInv, [Next]_vars, ~torn' PROVE RecordedInv'
  BY DEF RecordedInv
<1>0. ~torn
  BY TornStays DEF IInv
<1> USE <1>0 DEF ctxVars, recVars, ownVars, Goto, Return, ShouldStop
<1>1. (\A h \in Handlers : pending[h] = "apiRequest" => current \notin PreRecording)'
  <2>1. CASE Assign
    BY <2>1 DEF Assign, IInv, AssignInv, RecordedInv, PreRecording
  <2>2. CASE \E h \in Handlers : HttpRead(h)
    <3>1. PICK h \in Handlers : HttpRead(h)
      BY <2>2
    <3>2. pending' = [pending EXCEPT ![h] = pending'[h]] /\ UNCHANGED current
      BY <3>1 DEF HttpRead, IInv, TypeOK
    <3>3. pending'[h] = "apiRequest" => current \notin PreRecording
      <4>1. PICK seen \in Readable :
                \E call \in {HttpStopCall(seen), HttpPauseCall(seen, "pause"),
                             HttpPauseCall(seen, "resume")} :
                   /\ pending' = [pending EXCEPT ![h] = call]
                   /\ torn' = (torn \/ TakenForLate(seen, call))
        BY <3>1 DEF HttpRead
      <4>2. pending'[h] = "apiRequest" => pending'[h] = HttpStopCall(seen)
        BY <4>1 DEF HttpStopCall, HttpPauseCall, IInv, TypeOK
      <4>3. CASE seen = current
        BY <3>2, <4>2, <4>3 DEF HttpStopCall
      <4>4. CASE seen = "torn"
        <5>1. pending'[h] = "apiRequest" => TakenForLate(seen, pending'[h]) \/ current \notin PreRecording
          BY <4>4 DEF TakenForLate
        <5>2. torn' = (torn \/ TakenForLate(seen, pending'[h]))
          BY <4>1 DEF IInv, TypeOK
        <5>3. QED
          BY <3>2, <5>1, <5>2
      <4>5. QED
        BY <4>1, <4>3, <4>4 DEF Readable
    <3>4. QED
      BY <3>2, <3>3 DEF RecordedInv, IInv, TypeOK
  <2>3. CASE \E h \in Handlers : HttpApply(h)
    BY <2>3 DEF HttpApply, RecordedInv, IInv, TypeOK
  <2>4. CASE UNCHANGED <<current, pending>>
    BY <2>4 DEF RecordedInv
  <2>5. QED
    BY <2>1, <2>2, <2>3, <2>4, StepCases
    DEF Loop, InitializationStep, Launch, OpenMeetingPage, WaitingRoomStep, JoinAborted,
        JoinAnswered, JoinFailed, JoinClassify, InCallStep, InCallCheckStop, StartRecorder,
        RecordingStep, RecordingStop, RecordingPause, RecordingEnd, PausedStep,
        SuspendRecorder, PausedStop, PausedPoll, ResumeRecorder, SendError, CleanupStep,
        StopRecorder, WaitRecorder, CloseMeeting, Upload, SendComplete, CloseBrowser,
        RequestStep, RedisCommand, Sigterm, Expire, ProcessStep, FfmpegFinalises,
        FfmpegCrashes, ContextKillsFfmpeg, ProcessVars, StutterStep, Done, vars
<1>2. (~ctxDone /\ ffmpeg = "none" =>
         /\ ShouldStop => hasError
         /\ current \in {"error", "cleanup", "terminated"} => hasError
         /\ pc = "assign" /\ next \in {"error", "cleanup", "terminated"} => hasError)'
  <2> USE DEF IInv, TypeOK, StateType, FfmpegStates, ControlInv, AssignInv, RecorderInv,
              RecordedInv, SetError, SetEndReason, SetPaused
  <2>1. CASE Loop
    BY <2>1, EntryPoint DEF Loop
  <2>2. CASE Assign
    BY <2>2 DEF Assign
  <2>3. CASE InitializationStep
    BY <2>3 DEF InitializationStep, Launch, OpenMeetingPage
  <2>4. CASE WaitingRoomStep
    BY <2>4 DEF WaitingRoomStep, JoinAborted, JoinAnswered, JoinFailed, JoinClassify
  <2>5. CASE InCallStep
    BY <2>5 DEF InCallStep, InCallCheckStop, StartRecorder
  <2>6. CASE RecordingStep
    BY <2>6 DEF RecordingStep, RecordingStop, RecordingPause, RecordingEnd
  <2>7. CASE PausedStep
    BY <2>7 DEF PausedStep, SuspendRecorder, PausedStop, PausedPoll, ResumeRecorder
  <2>8. CASE SendError
    BY <2>8 DEF SendError, SendWebhook
  <2>9. CASE CleanupStep
    BY <2>9 DEF CleanupStep, StopRecorder, WaitRecorder, CloseMeeting, Upload,
           SendComplete, CloseBrowser, SendWebhook
  <2>10. CASE RequestStep
    BY <2>10 DEF RequestStep, RedisCommand, HttpRead, HttpApply, PreRecording
  <2>11. CASE Sigterm
    BY <2>11 DEF Sigterm
  <2>12. CASE Expire
    BY <2>12 DEF Expire
  <2>13. CASE ProcessStep
    BY <2>13 DEF ProcessStep, FfmpegFinalises, FfmpegCrashes, ContextKillsFfmpeg,
           ProcessVars
  <2>14. CASE StutterStep
    BY <2>14 DEF StutterStep, Done, vars
  <2>15. QED
    BY StepCases, <2>1, <2>2, <2>3, <2>4, <2>5, <2>6, <2>7, <2>8, <2>9, <2>10, <2>11,
       <2>12, <2>13, <2>14
<1>3. QED
  BY <1>1, <1>2 DEF RecordedInv

\* WasRecordingSuccessful is true of a finished session only if it recorded, for
\* any number of handlers, unless one of them met a torn read before that.
THEOREM SuccessIsRecorded == Spec => []SuccessMeansRecorded
<1>1. Init => RecordedInv
  BY DEF Init, RecordedInv, ShouldStop
<1>2. IInv /\ RecordedInv => SuccessMeansRecorded
  BY DEF IInv, ControlInv, RecordedInv, SuccessMeansRecorded, WasRecordingSuccessful
<1>3. QED
  BY <1>1, <1>2, RecordedStep, Invariance, PTL DEF Spec

-----------------------------------------------------------------------------
(* The worker implements the life of a session *)

\* The transitions BotLifecycle allows, one state at a time.
LEMMA SuccessorsOf ==
    /\ Lifecycle!Successors["initialization"] = {"waitingRoom", "error"}
    /\ Lifecycle!Successors["waitingRoom"] = {"inCall", "error", "cleanup"}
    /\ Lifecycle!Successors["inCall"] = {"recording", "error", "cleanup"}
    /\ Lifecycle!Successors["recording"] = {"paused", "cleanup"}
    /\ Lifecycle!Successors["paused"] = {"resuming", "cleanup"}
    /\ Lifecycle!Successors["resuming"] = {"recording", "error"}
    /\ Lifecycle!Successors["error"] = {"cleanup"}
    /\ Lifecycle!Successors["cleanup"] = {"terminated"}
BY DEF Lifecycle!Successors

\* The mapped capture, value by value.
LEMMA CaptureOf ==
    ASSUME ffmpeg \in FfmpegStates
    PROVE  /\ Capture \in {"idle", "live", "held", "over"}
           /\ Capture = "idle" <=> ffmpeg = "none"
           /\ Capture = "live" <=> ffmpeg = "running"
           /\ Capture = "held" <=> ffmpeg = "suspended"
           /\ Capture = "over" <=> ffmpeg \in {"finalised", "lost"}
BY DEF Capture, FfmpegStates

\* Only a step of ffmpeg changes the capture.
LEMMA CaptureFrame == UNCHANGED ffmpeg => UNCHANGED Capture
BY DEF Capture

\* Machine.current moves as the session does, or gives up once cancelled.
LEMMA AssignMoves == IInv /\ Assign => Lifecycle!Move \/ Lifecycle!GiveUp
<1> SUFFICES ASSUME IInv, Assign PROVE Lifecycle!Move \/ Lifecycle!GiveUp
  OBVIOUS
<1>1. UNCHANGED Capture /\ UNCHANGED ctxDone /\ current' = next /\ pc = "assign"
  BY CaptureFrame DEF Assign, recVars
<1>2. CASE next = "terminated" /\ ctxDone
  BY <1>1, <1>2 DEF IInv, ControlInv, Lifecycle!GiveUp
<1>3. CASE ~(next = "terminated" /\ ctxDone)
  <2>1. next \in Lifecycle!Successors[current]
    BY <1>1, <1>3, SuccessorsOf DEF IInv, AssignInv
  <2>2. next = "recording" => Capture \in {"live", "over"}
    BY <1>1, CaptureOf DEF IInv, TypeOK, RecorderInv, FfmpegStates
  <2>3. next = "terminated" => Capture \in {"idle", "over"}
    BY <1>1, <1>3, CaptureOf DEF IInv, TypeOK, AssignInv, CleanupInv, RecorderInv, Gone
  <2>4. QED
    BY <1>1, <2>1, <2>2, <2>3 DEF Lifecycle!Move
<1>4. QED
  BY <1>2, <1>3

\* The recorder starts once, in the inCall state.
LEMMA StartBegins ==
    IInv /\ StartRecorder => Lifecycle!Begin \/ UNCHANGED <<current, Capture, ctxDone>>
<1> SUFFICES ASSUME IInv, StartRecorder
             PROVE  Lifecycle!Begin \/ UNCHANGED <<current, Capture, ctxDone>>
  OBVIOUS
<1>1. UNCHANGED <<current, ctxDone>> /\ current = "inCall" /\ pc # "assign"
  BY DEF StartRecorder, Return, IInv, ControlInv
<1>2. CASE ffmpeg' = "running"
  <2>1. Capture = "idle" /\ Capture' = "live"
    BY <1>1, <1>2 DEF IInv, RecorderInv, Capture
  <2>2. QED
    BY <1>1, <2>1 DEF Lifecycle!Begin
<1>3. CASE UNCHANGED ffmpeg
  BY <1>1, <1>3, CaptureFrame
<1>4. QED
  BY <1>2, <1>3 DEF StartRecorder, recVars

\* ffmpeg is suspended in the paused state only.
LEMMA SuspendHolds ==
    IInv /\ SuspendRecorder => Lifecycle!Hold \/ UNCHANGED <<current, Capture, ctxDone>>
<1> SUFFICES ASSUME IInv, SuspendRecorder
             PROVE  Lifecycle!Hold \/ UNCHANGED <<current, Capture, ctxDone>>
  OBVIOUS
<1>1. UNCHANGED <<current, ctxDone>> /\ current = "paused"
  BY DEF SuspendRecorder, Goto, IInv, ControlInv
<1>2. CASE ffmpeg = "running" /\ ffmpeg' = "suspended"
  BY <1>1, <1>2 DEF Lifecycle!Hold, Capture
<1>3. CASE UNCHANGED ffmpeg
  BY <1>1, <1>3, CaptureFrame
<1>4. QED
  BY <1>2, <1>3 DEF SuspendRecorder

\* ffmpeg is resumed in the resuming state only.
LEMMA ResumeReleases ==
    IInv /\ ResumeRecorder => Lifecycle!Release \/ UNCHANGED <<current, Capture, ctxDone>>
<1> SUFFICES ASSUME IInv, ResumeRecorder
             PROVE  Lifecycle!Release \/ UNCHANGED <<current, Capture, ctxDone>>
  OBVIOUS
<1>1. UNCHANGED <<current, ctxDone>> /\ current = "resuming"
  BY DEF ResumeRecorder, Return, IInv, ControlInv
<1>2. CASE ffmpeg = "suspended" /\ ffmpeg' = "running"
  BY <1>1, <1>2 DEF Lifecycle!Release, Capture
<1>3. CASE UNCHANGED ffmpeg
  BY <1>1, <1>3, CaptureFrame
<1>4. QED
  BY <1>2, <1>3 DEF ResumeRecorder

\* ffmpeg ends by itself, by the kill of Stop during the cleanup, or by the
\* kill that follows a cancelled context.
LEMMA EndFinishes ==
    IInv /\ (StopRecorder \/ ProcessStep)
        => Lifecycle!Finish \/ UNCHANGED <<current, Capture, ctxDone>>
<1> SUFFICES ASSUME IInv, StopRecorder \/ ProcessStep
             PROVE  Lifecycle!Finish \/ UNCHANGED <<current, Capture, ctxDone>>
  OBVIOUS
<1>1. UNCHANGED <<current, ctxDone>>
  BY DEF StopRecorder, Goto, ProcessStep, FfmpegFinalises, FfmpegCrashes,
         ContextKillsFfmpeg, ProcessVars
<1>2. ffmpeg' # ffmpeg => ffmpeg' \in {"finalised", "lost"}
  BY DEF StopRecorder, ProcessStep, FfmpegFinalises, FfmpegCrashes, ContextKillsFfmpeg
<1>3. ffmpeg = "suspended" /\ ffmpeg' # ffmpeg => ctxDone \/ current = "cleanup"
  BY DEF StopRecorder, Goto, IInv, ControlInv, ProcessStep, FfmpegFinalises,
     FfmpegCrashes,
         ContextKillsFfmpeg
<1>4. ffmpeg' # ffmpeg => ffmpeg # "none"
  BY DEF StopRecorder, IInv, RecorderInv, ProcessStep, FfmpegFinalises, FfmpegCrashes,
         ContextKillsFfmpeg
<1>5. CASE ffmpeg \in {"running", "suspended"} /\ ffmpeg' # ffmpeg
  <2>1. Capture' = "over"
    BY <1>2, <1>5 DEF Capture
  <2>2. QED
    BY <1>1, <1>3, <1>5, <2>1 DEF Lifecycle!Finish, Capture
<1>6. CASE ffmpeg \in {"finalised", "lost"} /\ ffmpeg' # ffmpeg
  BY <1>1, <1>2, <1>6 DEF Capture
<1>7. CASE UNCHANGED ffmpeg
  BY <1>1, <1>7, CaptureFrame
<1>8. QED
  BY <1>4, <1>5, <1>6, <1>7 DEF IInv, TypeOK, FfmpegStates

\* All the other steps are invisible.
LEMMA OtherStutters ==
    ASSUME \/ Loop \/ InitializationStep \/ WaitingRoomStep \/ InCallCheckStop
           \/ RecordingStep \/ PausedStop \/ PausedPoll \/ SendError
           \/ WaitRecorder \/ CloseMeeting \/ Upload \/ SendComplete \/ CloseBrowser
           \/ RequestStep \/ Expire \/ StutterStep
    PROVE  UNCHANGED <<current, Capture, ctxDone>>
<1>1. UNCHANGED <<current, ffmpeg, ctxDone>>
  BY RequestFrame
  DEF Loop, InitializationStep, Launch, OpenMeetingPage, WaitingRoomStep, JoinAborted,
      JoinAnswered, JoinFailed, JoinClassify, InCallCheckStop, RecordingStep,
      RecordingStop, RecordingPause, RecordingEnd, PausedStop, PausedPoll, SendError,
      WaitRecorder, CloseMeeting, Upload, SendComplete, CloseBrowser, SendWebhook, Expire,
      StutterStep, Done, vars, recVars, Goto, Return
<1>2. QED
  BY <1>1, CaptureFrame

\* A new worker is a new session.
LEMMA InitRefines == Init => Lifecycle!Init
BY DEF Init, Lifecycle!Init, Capture

\* Every step of the worker is a step of the session or leaves it unchanged.
LEMMA StepRefines == IInv /\ [Next]_vars => [Lifecycle!Next]_Lifecycle!vars
<1> SUFFICES ASSUME IInv, [Next]_vars PROVE [Lifecycle!Next]_Lifecycle!vars
  OBVIOUS
<1> USE DEF Lifecycle!Next, Lifecycle!vars
<1>1. CASE Assign
  BY <1>1, AssignMoves
<1>2. CASE InCallStep
  BY <1>2, StartBegins, OtherStutters DEF InCallStep
<1>3. CASE PausedStep
  BY <1>3, SuspendHolds, ResumeReleases, OtherStutters DEF PausedStep
<1>4. CASE CleanupStep
  BY <1>4, EndFinishes, OtherStutters DEF CleanupStep
<1>5. CASE ProcessStep
  BY <1>5, EndFinishes
<1>6. CASE Sigterm
  BY <1>6, CaptureFrame DEF Sigterm, recVars, Lifecycle!Cancel
<1>7. QED
  BY StepCases, <1>1, <1>2, <1>3, <1>4, <1>5, <1>6, OtherStutters

\* The worker implements the life of a session, for every set of handlers.
THEOREM Refinement == Spec => ImplementsLifecycle
<1>1. QED
  BY InitRefines, StepRefines, Invariance, PTL
  DEF Spec, ImplementsLifecycle, Lifecycle!Spec

-----------------------------------------------------------------------------
(* The contract of the first two states *)

\* What the initialization has opened at each of its points.
SetupInv ==
    /\ pc = "launch" \/ (pc = "loop" /\ current = "initialization") =>
           browser = "none" /\ page = "none"
    /\ pc = "open" => browser = "open" /\ page = "none"
    /\ pc = "assign" /\ next = "waitingRoom" => page = "open"

setupView == <<current, browser, page, ctxDone>>

\* The initialization's two steps are all that opens something.
LEMMA SetupStep == IInv /\ SetupInv /\ [Next]_vars => SetupInv'
<1> SUFFICES ASSUME IInv, SetupInv, [Next]_vars PROVE SetupInv'
  OBVIOUS
<1> USE DEF SetupInv, ControlInv, AssignInv, ctxVars, recVars, ownVars, Goto, Return
<1>0. ControlInv /\ AssignInv
  BY DEF IInv
<1>1. CASE Loop
  <2>1. /\ pc' = "launch" => current = "initialization"
        /\ pc' \notin {"loop", "open"}
        /\ pc' = "assign" => next' = "terminated"
    BY <1>0, <1>1, EntryPoint DEF Loop, IInv, TypeOK, StateType
  <2>2. QED
    BY <1>0, <1>1, <2>1 DEF Loop
<1>2. CASE Assign
  BY <1>0, <1>2 DEF Assign
<1>3. CASE InitializationStep
  BY <1>0, <1>3 DEF InitializationStep, Launch, OpenMeetingPage
<1>4. CASE WaitingRoomStep
  BY <1>0, <1>4 DEF WaitingRoomStep, JoinAborted, JoinAnswered, JoinFailed, JoinClassify
<1>5. CASE InCallStep
  BY <1>0, <1>5 DEF InCallStep, InCallCheckStop, StartRecorder
<1>6. CASE RecordingStep
  BY <1>0, <1>6 DEF RecordingStep, RecordingStop, RecordingPause, RecordingEnd
<1>7. CASE PausedStep
  BY <1>0, <1>7 DEF PausedStep, SuspendRecorder, PausedStop, PausedPoll, ResumeRecorder
<1>8. CASE SendError
  BY <1>0, <1>8 DEF SendError, SendWebhook
<1>9. CASE CleanupStep
  BY <1>0, <1>9 DEF CleanupStep, StopRecorder, WaitRecorder, CloseMeeting, Upload,
     SendComplete, CloseBrowser, SendWebhook
<1>10. CASE RequestStep
  BY <1>10, RequestFrame
<1>11. CASE Sigterm
  BY <1>11 DEF Sigterm
<1>12. CASE Expire
  BY <1>12 DEF Expire
<1>13. CASE ProcessStep
  BY <1>13 DEF ProcessStep, FfmpegFinalises, FfmpegCrashes, ContextKillsFfmpeg,
     ProcessVars
<1>14. CASE StutterStep
  BY <1>14 DEF StutterStep, Done, vars
<1>15. QED
  BY StepCases, <1>1, <1>2, <1>3, <1>4, <1>5, <1>6, <1>7, <1>8, <1>9, <1>10, <1>11,
     <1>12, <1>13, <1>14

\* The stages the contract allows, one at a time.
LEMMA StagesOf ==
    /\ Setup!Successors["initialization"] = {"waitingRoom", "error"}
    /\ Setup!Successors["waitingRoom"] = {"inCall", "error", "cleanup"}
    /\ Setup!Successors["inCall"] = {"error", "cleanup"}
    /\ Setup!Successors["error"] = {"cleanup"}
    /\ Setup!Successors["cleanup"] = {"terminated"}
BY DEF Setup!Successors

SetupPage == IF page = "none" THEN "none" ELSE "open"

\* Machine.current moves as the contract says, within the call, or gives up.
LEMMA AssignStages ==
    IInv /\ SetupInv /\ Assign
        => \/ Setup!Move \/ Setup!GiveUp
           \/ UNCHANGED <<Stage, browser, SetupPage, ctxDone>>
<1> SUFFICES ASSUME IInv, SetupInv, Assign
             PROVE  \/ Setup!Move \/ Setup!GiveUp
                    \/ UNCHANGED <<Stage, browser, SetupPage, ctxDone>>
  OBVIOUS
<1>1. current' = next /\ UNCHANGED <<browser, page, ctxDone>> /\ pc = "assign"
  BY DEF Assign, ownVars
<1>2. current # "terminated" /\ AssignInv
  BY <1>1 DEF IInv, ControlInv
<1>3. CASE next = "terminated" /\ ctxDone
  <2>1. Stage' = "terminated" /\ Stage # "terminated"
    BY <1>1, <1>2, <1>3 DEF Stage
  <2>2. QED
    BY <1>1, <1>3, <2>1 DEF Setup!GiveUp
<1>4. CASE ~(next = "terminated" /\ ctxDone)
  <2>1. Stage' = Stage \/ Stage' \in Setup!Successors[Stage]
    BY <1>1, <1>2, <1>4, StagesOf DEF AssignInv, Stage
  <2>2. Stage' = "waitingRoom" => page = "open"
    BY <1>1 DEF SetupInv, Stage
  <2>3. Stage' = "terminated" => browser # "open"
    BY <1>1, <1>2, <1>4 DEF IInv, CleanupInv, TakenDown, AssignInv, Stage
  <2>4. QED
    BY <1>1, <2>1, <2>2, <2>3 DEF Setup!Move, SetupPage
<1>5. QED
  BY <1>3, <1>4

\* Only these steps open or close anything.
LEMMA SetupFrame ==
    ASSUME [Next]_vars,
           ~Assign, ~Launch, ~OpenMeetingPage, ~CloseBrowser, ~Sigterm
    PROVE  /\ UNCHANGED <<current, browser, ctxDone>>
           /\ page' = page \/ (page = "open" /\ page' \in {"open", "left"})
BY RequestFrame, StepCases
DEF Loop, InitializationStep, WaitingRoomStep, JoinAborted, JoinAnswered, JoinFailed,
    JoinClassify, InCallStep, InCallCheckStop, StartRecorder, RecordingStep, RecordingStop,
    RecordingPause, RecordingEnd, PausedStep, SuspendRecorder, PausedStop, PausedPoll,
    ResumeRecorder, SendError, SendWebhook, CleanupStep, StopRecorder, WaitRecorder,
    CloseMeeting, Upload, SendComplete, Expire, ProcessStep, FfmpegFinalises,
    FfmpegCrashes, ContextKillsFfmpeg, ProcessVars, StutterStep, Done, vars, recVars,
    ownVars, Goto, Return

\* Every step of the worker is a step of the contract or leaves it unchanged.
LEMMA StepKeepsContract ==
    IInv /\ SetupInv /\ [Next]_vars => [Setup!Next]_Setup!vars
<1> SUFFICES ASSUME IInv, SetupInv, [Next]_vars PROVE [Setup!Next]_Setup!vars
  OBVIOUS
<1> USE DEF Setup!Next, Setup!vars
<1>0. ControlInv
  BY DEF IInv
<1>1. CASE Assign
  BY <1>1, AssignStages DEF SetupPage
<1>2. CASE Launch
  <2>1. UNCHANGED <<current, page, ctxDone>> /\ current = "initialization"
    BY <1>0, <1>2 DEF Launch, Goto, Return, ControlInv
  <2>2. browser = "none" /\ browser' \in {"none", "open"}
    BY <1>2 DEF Launch, Goto, Return, SetupInv
  <2>3. QED
    BY <2>1, <2>2 DEF Setup!OpenBrowser, Stage
<1>3. CASE OpenMeetingPage
  <2>1. UNCHANGED <<current, browser, ctxDone>> /\ current = "initialization"
    BY <1>0, <1>3 DEF OpenMeetingPage, Goto, Return, ControlInv
  <2>2. browser = "open" /\ page = "none" /\ page' \in {"none", "open"}
    BY <1>3 DEF OpenMeetingPage, Goto, Return, SetupInv
  <2>3. QED
    BY <2>1, <2>2 DEF Setup!OpenPage, Stage
<1>4. CASE CloseBrowser
  <2>1. UNCHANGED <<current, SetupPage, ctxDone>> /\ current = "cleanup"
    BY <1>0, <1>4 DEF CloseBrowser, Return, ControlInv, SetupPage
  <2>2. browser' = browser \/ (browser = "open" /\ browser' \in {"closed", "leaked"})
    BY <1>4 DEF CloseBrowser
  <2>3. QED
    BY <2>1, <2>2 DEF Setup!CloseBrowser, Stage, SetupPage
<1>5. CASE Sigterm
  BY <1>5 DEF Sigterm, ownVars, Setup!Cancel, Stage
<1>6. CASE ~Assign /\ ~Launch /\ ~OpenMeetingPage /\ ~CloseBrowser /\ ~Sigterm
  <2>1. UNCHANGED <<Stage, browser, SetupPage, ctxDone>>
    BY <1>6, SetupFrame DEF Stage, SetupPage
  <2>2. QED
    BY <2>1 DEF SetupPage
<1>7. QED
  BY <1>1, <1>2, <1>3, <1>4, <1>5, <1>6

\* For every set of handlers the states of the whole session keep the contract
\* of its setup, which MeetingSetup implements as well: no path of a session that
\* was not cancelled misses the close of its browser, or makes it twice.
THEOREM SetupIsKept == Spec => ImplementsSetup
<1>1. Init => SetupInv /\ Setup!Init
  BY DEF Init, SetupInv, Setup!Init, Stage
<1>2. QED
  BY <1>1, SetupStep, StepKeepsContract, Invariance, PTL
  DEF Spec, ImplementsSetup, Setup!Spec

-----------------------------------------------------------------------------
(* A stop or a cancel leaves a session few steps *)

Stopping == ShouldStop \/ ctxDone

\* How many steps a session that is to stop has left at the top of the loop, and
\* at each place of the states.
LoopSteps ==
    [initialization |-> 21, waitingRoom |-> 17, inCall  |-> 16, recording |-> 12,
     paused         |-> 13, resuming    |-> 15, error   |-> 12, cleanup   |-> 9,
     terminated     |-> 1]

PlaceSteps ==
    [launch       |-> 20, open         |-> 19, join       |-> 16, joinFailed   |-> 15,
     joinClassify |-> 14, checkStop    |-> 15, startRecorder |-> 14,
     recordPause  |-> 15, recordEnd    |-> 12, recordStop |-> 11, suspend      |-> 12,
     pausedPoll   |-> 17, pausedStop   |-> 11, resume     |-> 14, sendError    |-> 11,
     stopRecorder |-> 8,  waitRecorder |-> 7,  closeMeeting |-> 6, upload      |-> 5,
     sendComplete |-> 4,  closeBrowser |-> 3,  exited     |-> 0]

StepsLeft ==
    CASE pc = "loop"   -> LoopSteps[current]
      [] pc = "assign" -> 1 + LoopSteps[next]
      [] OTHER         -> PlaceSteps[pc]

\* Neither is ever taken back, every step that the goroutine then takes brings it
\* nearer to its exit, and nothing else moves it: no order of pauses, resumes and
\* failures sends a session that is to stop round its states once more.
StopRunsOut ==
    [][Stopping => /\ Stopping'
                   /\ pc' # pc => StepsLeft' < StepsLeft
                   /\ pc' = pc => StepsLeft' = StepsLeft]_vars

\* No more than 21 are ever left.
LEMMA StepsBound == IInv => StepsLeft \in 0 .. 21
<1> SUFFICES ASSUME IInv PROVE StepsLeft \in 0 .. 21
  OBVIOUS
<1>1. /\ \A s \in StateType : LoopSteps[s] \in 1 .. 21
      /\ \A s \in StateType \ {"initialization"} : LoopSteps[s] \in 1 .. 20
  BY DEF StateType, LoopSteps
<1>2. \A p \in Location \ {"loop", "assign"} : PlaceSteps[p] \in 0 .. 20
  BY DEF Location, PlaceSteps
<1>3. CASE pc = "loop"
  BY <1>1, <1>3 DEF IInv, TypeOK, StepsLeft
<1>4. CASE pc = "assign"
  <2>1. next \in StateType \ {"initialization"}
    BY <1>4 DEF IInv, TypeOK, AssignInv
  <2>2. StepsLeft = 1 + LoopSteps[next]
    BY <1>4 DEF StepsLeft
  <2>3. QED
    BY <1>1, <2>1, <2>2
<1>5. CASE pc \notin {"loop", "assign"}
  <2>1. StepsLeft = PlaceSteps[pc]
    BY <1>5 DEF StepsLeft
  <2>2. QED
    BY <1>2, <1>5, <2>1 DEF IInv, TypeOK
<1>6. QED
  BY <1>3, <1>4, <1>5

\* An end reason is never cleared, nor is a cancel.
LEMMA StoppingStays == Stopping /\ [Next]_vars => Stopping'
<1> SUFFICES ASSUME Stopping, [Next]_vars PROVE Stopping'
  OBVIOUS
<1> USE DEF Stopping, ShouldStop, ctxVars, Goto, Return, SetError, SetEndReason, SetPaused
<1>1. CASE Loop \/ Assign
  BY <1>1 DEF Loop, Assign
<1>2. CASE InitializationStep \/ WaitingRoomStep \/ InCallStep
  BY <1>2 DEF InitializationStep, Launch, OpenMeetingPage, WaitingRoomStep, JoinAborted,
      JoinAnswered, JoinFailed, JoinClassify, InCallStep, InCallCheckStop, StartRecorder
<1>3. CASE RecordingStep \/ PausedStep
  BY <1>3 DEF RecordingStep, RecordingStop, RecordingPause, RecordingEnd, PausedStep,
      SuspendRecorder, PausedStop, PausedPoll, ResumeRecorder
<1>4. CASE SendError \/ CleanupStep
  BY <1>4 DEF SendError, SendWebhook, CleanupStep, StopRecorder, WaitRecorder, CloseMeeting,
      Upload, SendComplete, CloseBrowser
<1>5. CASE RequestStep
  BY <1>5 DEF RequestStep, RedisCommand, HttpRead, HttpApply
<1>6. CASE Sigterm \/ Expire \/ ProcessStep \/ StutterStep
  BY <1>6 DEF Sigterm, Expire, ProcessStep, FfmpegFinalises, FfmpegCrashes,
      ContextKillsFfmpeg, ProcessVars, StutterStep, Done, vars
<1>7. QED
  BY StepCases, <1>1, <1>2, <1>3, <1>4, <1>5, <1>6

\* Where a session that is to stop goes from each place of its states.
LEMMA StopEdges ==
    ASSUME Stopping,
           \/ InitializationStep \/ WaitingRoomStep \/ InCallStep
           \/ RecordingStep \/ PausedStep \/ SendError \/ CleanupStep
    PROVE  \/ pc = "launch" /\ pc' = "open"
           \/ pc = "join" /\ pc' = "joinFailed"
           \/ pc = "joinFailed" /\ pc' = "joinClassify"
           \/ pc = "checkStop" /\ pc' = "startRecorder"
           \/ pc = "recordPause" /\ pc' = "recordEnd"
           \/ pc = "recordEnd" /\ pc' = "recordStop"
           \/ pc = "suspend" /\ pc' = "pausedStop"
           \/ pc = "pausedPoll" /\ pc' = "pausedStop"
           \/ pc = "stopRecorder" /\ pc' \in {"waitRecorder", "closeMeeting"}
           \/ pc = "waitRecorder" /\ pc' = "closeMeeting"
           \/ pc = "closeMeeting" /\ pc' = "upload"
           \/ pc = "upload" /\ pc' = "sendComplete"
           \/ pc = "sendComplete" /\ pc' = "closeBrowser"
           \/ /\ pc' = "assign"
              /\ \/ pc \in {"launch", "open", "joinClassify", "startRecorder", "resume"}
                       /\ next' = "error"
                 \/ pc = "open" /\ next' = "waitingRoom"
                 \/ pc \in {"joinFailed", "checkStop", "recordStop", "recordEnd",
                            "pausedStop", "sendError"} /\ next' = "cleanup"
                 \/ pc = "recordPause" /\ next' = "paused"
                 \/ pc = "pausedPoll" /\ next' = "resuming"
                 \/ pc \in {"startRecorder", "resume"} /\ next' = "recording"
                 \/ pc = "closeBrowser" /\ next' = "terminated"
<1> USE DEF Goto, Return
<1>1. CASE InitializationStep
  BY <1>1 DEF InitializationStep, Launch, OpenMeetingPage
<1>2. CASE WaitingRoomStep
  BY <1>2 DEF WaitingRoomStep, JoinAborted, JoinAnswered, JoinFailed, JoinClassify, JoinDone,
      Stopping
<1>3. CASE InCallStep
  BY <1>3 DEF InCallStep, InCallCheckStop, StartRecorder
<1>4. CASE RecordingStep
  BY <1>4 DEF RecordingStep, RecordingStop, RecordingPause, RecordingEnd, Stopping
<1>5. CASE PausedStep
  BY <1>5 DEF PausedStep, SuspendRecorder, PausedStop, PausedPoll, ResumeRecorder, Stopping
<1>6. CASE SendError
  BY <1>6 DEF SendError
<1>7. CASE CleanupStep
  BY <1>7 DEF CleanupStep, StopRecorder, WaitRecorder, CloseMeeting, Upload, SendComplete,
      CloseBrowser
<1>8. QED
  BY <1>1, <1>2, <1>3, <1>4, <1>5, <1>6, <1>7

\* Each of them is a step nearer to the exit.
LEMMA StopStep ==
    ASSUME IInv, Stopping, [Next]_vars
    PROVE  /\ pc' # pc => StepsLeft' < StepsLeft
           /\ pc' = pc => StepsLeft' = StepsLeft
<1>1. CASE Loop
  <2>1. pc = "loop" /\ current' = current /\ StepsLeft = LoopSteps[current]
    BY <1>1 DEF Loop, StepsLeft
  <2>2. CASE current = "terminated"
    <3>1. pc' = "exited"
      BY <1>1, <2>2 DEF Loop
    <3>2. QED
      BY <2>1, <2>2, <3>1 DEF StepsLeft, LoopSteps, PlaceSteps
  <2>3. CASE current # "terminated" /\ ctxDone
    <3>1. pc' = "assign" /\ next' = "terminated"
      BY <1>1, <2>3 DEF Loop
    <3>2. StepsLeft' = 2
      BY <3>1 DEF StepsLeft, LoopSteps
    <3>3. LoopSteps[current] > 2
      BY <2>3 DEF IInv, TypeOK, StateType, LoopSteps
    <3>4. QED
      BY <2>1, <3>1, <3>2, <3>3
  <2>4. CASE current # "terminated" /\ ~ctxDone
    <3>1. pc' = Entry[current]
      BY <1>1, <2>4 DEF Loop
    <3>2. current \in StateType \ {"terminated"}
      BY <2>4 DEF IInv, TypeOK
    <3>3. /\ Entry[current] \notin {"loop", "assign"}
          /\ PlaceSteps[Entry[current]] < LoopSteps[current]
      BY <3>2, EntryPoint DEF StateType, PlaceSteps, LoopSteps
    <3>4. StepsLeft' = PlaceSteps[Entry[current]]
      BY <3>1, <3>3 DEF StepsLeft
    <3>5. QED
      BY <2>1, <3>1, <3>3, <3>4
  <2>5. QED
    BY <2>2, <2>3, <2>4
<1>2. CASE Assign
  <2>1. pc = "assign" /\ pc' = "loop" /\ current' = next
    BY <1>2 DEF Assign
  <2>2. StepsLeft = 1 + LoopSteps[next] /\ StepsLeft' = LoopSteps[next]
    BY <2>1 DEF StepsLeft
  <2>3. LoopSteps[next] \in Nat
    BY DEF IInv, TypeOK, StateType, LoopSteps
  <2>4. QED
    BY <2>1, <2>2, <2>3
<1>3. CASE \/ InitializationStep \/ WaitingRoomStep \/ InCallStep
           \/ RecordingStep \/ PausedStep \/ SendError \/ CleanupStep
  <2>1. /\ pc \notin {"loop", "assign"} => StepsLeft = PlaceSteps[pc]
        /\ pc' \notin {"loop", "assign"} => StepsLeft' = PlaceSteps[pc']
        /\ pc' = "assign" => StepsLeft' = 1 + LoopSteps[next']
    BY DEF StepsLeft
  <2>2. CASE pc' = "assign"
    BY <1>3, <2>1, <2>2, StopEdges DEF PlaceSteps, LoopSteps
  <2>3. CASE pc' # "assign"
    BY <1>3, <2>1, <2>3, StopEdges DEF PlaceSteps
  <2>4. QED
    BY <2>2, <2>3
<1>4. CASE RequestStep \/ Sigterm \/ Expire \/ ProcessStep \/ StutterStep
  <2>1. UNCHANGED <<pc, next, current>>
    BY <1>4, RequestFrame DEF Sigterm, Expire, ProcessStep, FfmpegFinalises, FfmpegCrashes,
        ContextKillsFfmpeg, ProcessVars, StutterStep, Done, vars
  <2>2. QED
    BY <2>1 DEF StepsLeft
<1>5. QED
  BY StepCases, <1>1, <1>2, <1>3, <1>4

\* The one place where they may have to wait is the end of a recorder that was
\* told to end.
ToldToEnd == pc = "waitRecorder" => sigint \/ ffmpeg = "lost"

\* SIGINT is not unsent, and what is lost stays so.
LEMMA ToldStep == IInv /\ ToldToEnd /\ [Next]_vars => ToldToEnd'
<1> SUFFICES ASSUME IInv, ToldToEnd, [Next]_vars PROVE ToldToEnd'
  OBVIOUS
<1> USE DEF ToldToEnd, Goto, Return, recVars
<1>1. CASE Loop \/ Assign
  BY <1>1, EntryPoint DEF Loop, Assign, IInv, TypeOK, StateType
<1>2. CASE InitializationStep \/ WaitingRoomStep \/ InCallStep
  BY <1>2 DEF InitializationStep, Launch, OpenMeetingPage, WaitingRoomStep, JoinAborted,
      JoinAnswered, JoinFailed, JoinClassify, InCallStep, InCallCheckStop, StartRecorder
<1>3. CASE RecordingStep \/ PausedStep
  BY <1>3 DEF RecordingStep, RecordingStop, RecordingPause, RecordingEnd, PausedStep,
      SuspendRecorder, PausedStop, PausedPoll, ResumeRecorder
<1>4. CASE SendError \/ CleanupStep
  BY <1>4 DEF SendError, SendWebhook, CleanupStep, StopRecorder, WaitRecorder, CloseMeeting,
      Upload, SendComplete, CloseBrowser
<1>5. CASE RequestStep
  BY <1>5, RequestFrame
<1>6. CASE Sigterm \/ Expire \/ ProcessStep \/ StutterStep
  BY <1>6 DEF Sigterm, Expire, ProcessStep, FfmpegFinalises, FfmpegCrashes,
      ContextKillsFfmpeg, ProcessVars, StutterStep, Done, vars
<1>7. QED
  BY StepCases, <1>1, <1>2, <1>3, <1>4, <1>5, <1>6

\* Once a session is to stop, by a request, an end condition, an error or a
\* signal, its goroutine takes at most 21 steps more, for every set of handlers,
\* and waits for nothing but a recorder that was told to end.
THEOREM StopsAreShort ==
    Spec => [](StepsLeft \in 0 .. 21) /\ StopRunsOut /\ []ToldToEnd
<1>1. ASSUME IInv, [Next]_vars
      PROVE  [Stopping => /\ Stopping'
                          /\ pc' # pc => StepsLeft' < StepsLeft
                          /\ pc' = pc => StepsLeft' = StepsLeft]_vars
  BY <1>1, StoppingStays, StopStep
<1>2. Init => ToldToEnd
  BY DEF Init, ToldToEnd
<1>3. QED
  BY <1>1, <1>2, ToldStep, Invariance, StepsBound, PTL DEF Spec, StopRunsOut

=============================================================================
