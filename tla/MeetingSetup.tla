---------------------------- MODULE MeetingSetup ----------------------------
(***************************************************************************)
(* The first two states of a session in full, which BotMachine takes as    *)
(* one step each: launching the browser with retries, opening the page of  *)
(* the meeting with its freeze detection, typing the name, and the join    *)
(* loop with the detector that looks at one selector of the page after     *)
(* another while the page changes. The call itself is one step; its end is *)
(* followed by the cleanup, which closes the browser.                      *)
(***************************************************************************)
EXTENDS MeetingUrls, Sequences

CONSTANTS
    Given,     \* the meeting links of the configurations
    Views      \* what the page may show: sets of elements, see Selectors

ASSUME GivenAssumption == Given \subseteq Links

VARIABLES
    current,   \* Machine.current
    pc,        \* where its goroutine is
    url,       \* mc.Config.MeetingURL
    info,      \* the meeting information that ParseURL returned
    attempt,   \* of the retry in progress
    runtimes,  \* Playwright driver processes running
    context,   \* playwrightDriver.context
    tabs,      \* pages open in the context
    driver,    \* mc.BrowserDriver is set
    page,      \* mc.Page: the address it was opened at
    view,      \* the elements that the page shows to Detect
    index,     \* the selector that Detect looks at next
    state,     \* what Detect returned
    ctxDone,   \* the context of main is cancelled
    expired,   \* the waiting room's time limit is over
    endReason, \* MeetingContext.EndReason
    hasError,  \* MeetingContext.HasError
    lost,      \* history: an ignored error of a Close or Stop left something open
    steady     \* history: nothing changed and failed since Detect began

setupVars == <<current, pc, url, info, attempt, runtimes, context, tabs, driver,
               page, view, index, state, ctxDone, expired, endReason, hasError, lost,
               steady>>

resources == <<runtimes, context, tabs, driver, page, lost>>
detection == <<view, index, state, steady>>
signals == <<url, ctxDone, expired>>
outcome == <<endReason, hasError>>

MaxAttempts == 3
MaxOpenPageAttempts == 3
NameTypeMaxAttempts == 10

\* MeetStateConfig: the states in order, one entry per selector.
Selectors == <<[name |-> "removed",        element |-> "removedText"],
               [name |-> "removed",        element |-> "endedText"],
               [name |-> "login_required", element |-> "loginText"],
               [name |-> "lobby_denied",   element |-> "letYouInText"],
               [name |-> "in_call",        element |-> "leaveButton"],
               [name |-> "lobby_open",     element |-> "askButton"],
               [name |-> "lobby_open",     element |-> "askText"],
               [name |-> "lobby_open",     element |-> "joinNowButton"]>>

States == {Selectors[i].name : i \in DOMAIN Selectors} \union {""}
Refusals == {"removed", "lobby_denied", "login_required"}
Stages == {"initialization", "waitingRoom", "inCall", "error", "cleanup", "terminated"}
JoinLoop == {"poll", "detect", "answer"}
\* The name of a stage is the place before its Execute, where Machine.Run
\* stores it and looks at the context.
Locations == Stages \union JoinLoop \union
             {"parse", "launch", "backoff", "newPage", "goto", "freeze",
              "typeName", "cancelCheck", "joinFailed", "joinClassify",
              "call", "sendError", "closeBrowser", "exited"}

Entry == [initialization |-> "parse",    waitingRoom |-> "typeName",
          inCall         |-> "call",     error       |-> "sendError",
          cleanup        |-> "closeBrowser", terminated |-> "exited"]

\* What a request to stop leaves in the context; "callEnded" stands for all the
\* reasons that end a call by themselves.
StopReasons == {"exitingMeetingBeforeRecord", "apiRequest"}
Reasons == {"none", "invalidMeetingUrl", "cannotJoinMeeting", "timeoutWaitingToStart",
            "botNotAccepted", "internalError", "callEnded"} \union StopReasons

SetupTypeOK ==
    /\ current \in Stages
    /\ pc \in Locations
    /\ url \in Given
    /\ info \in {Invalid} \union [link : Links, password : {None}]
    /\ attempt \in 1..NameTypeMaxAttempts
    /\ runtimes \in Nat
    /\ context \in {"none", "open"}
    /\ tabs \in Nat
    /\ driver \in BOOLEAN
    /\ page \in Links \union {None}
    /\ view \in Views \union {{}}
    /\ index \in DOMAIN Selectors
    /\ state \in States
    /\ ctxDone \in BOOLEAN
    /\ expired \in BOOLEAN
    /\ lost \in BOOLEAN
    /\ steady \in BOOLEAN
    /\ endReason \in Reasons
    /\ hasError \in BOOLEAN

SetupInit ==
    /\ current = "initialization"
    /\ pc = "initialization"
    /\ url \in Given
    /\ info = Invalid
    /\ attempt = 1
    /\ runtimes = 0
    /\ context = "none"
    /\ tabs = 0
    /\ driver = FALSE
    /\ page = None
    /\ view = {}
    /\ index = 1
    /\ state = ""
    /\ ctxDone = FALSE
    /\ expired = FALSE
    /\ endReason = "none"
    /\ hasError = FALSE
    /\ lost = FALSE
    /\ steady = TRUE

-----------------------------------------------------------------------------
(* What several actions do *)

Goto(from, to) == pc = from /\ pc' = to

\* mc.SetError(reason)
SetError(reason) ==
    /\ endReason' = reason
    /\ hasError' = TRUE

\* The same, and the transition to the error state.
Fail(reason) ==
    /\ pc' = "error"
    /\ SetError(reason)

ShouldStop == endReason # "none"

\* An attempt of retry.Do with the defaults failed.
LaunchFailed ==
    \/ /\ attempt = MaxAttempts
       /\ Fail("cannotJoinMeeting")
    \/ /\ attempt < MaxAttempts
       /\ pc' = "backoff"
       /\ UNCHANGED outcome

\* _ = page.Close()
ClosePage ==
    /\ \/ tabs' = tabs - 1 /\ UNCHANGED lost
       \/ lost' = TRUE /\ UNCHANGED tabs
    /\ UNCHANGED <<runtimes, context, driver, page>>

JoinDone == expired \/ ctxDone

-----------------------------------------------------------------------------
(* Plausible bugs: each replaces the definition it is named after, to show   *)
(* that the properties notice. None is part of SetupSpec.                    *)

\* A frozen page is not closed before the next attempt.
FrozenKeepsTab ==
    /\ Goto("freeze", "newPage")
    /\ attempt < MaxOpenPageAttempts
    /\ attempt' = attempt + 1
    /\ UNCHANGED <<current, info, resources, detection, signals, outcome>>

\* The join loop without its look at the context.
PollStopOnly ==
    /\ pc = "poll"
    /\ \/ /\ ShouldStop
          /\ pc' = "joinFailed"
          /\ UNCHANGED view
       \/ /\ ~ShouldStop
          /\ pc' = "detect"
          /\ view' \in Views
    /\ UNCHANGED <<current, info, attempt, resources, index, state, steady, signals, outcome>>

\* The error is classified before the stop is asked for.
JoinFailedTimeoutFirst ==
    /\ pc = "joinFailed"
    /\ pc' = IF ShouldStop /\ ~JoinDone THEN "cleanup" ELSE "joinClassify"
    /\ UNCHANGED <<current, info, attempt, resources, detection, signals, outcome>>

\* Close returns the error of the context before it forgets the context.
CloseBrowserEarlyReturn ==
    /\ Goto("closeBrowser", "terminated")
    /\ IF driver /\ context = "open"
       THEN \/ context' = "none" /\ tabs' = 0 /\ runtimes' = runtimes - 1 /\ UNCHANGED lost
            \/ lost' = TRUE /\ UNCHANGED <<context, tabs, runtimes>>
       ELSE UNCHANGED <<context, tabs, runtimes, lost>>
    /\ UNCHANGED <<current, info, attempt, driver, page, detection, signals, outcome>>

-----------------------------------------------------------------------------
(* Machine.Run between two states *)

Enter ==
    /\ pc \in Stages
    /\ \/ /\ ctxDone
          /\ current' = "terminated"
          /\ pc' = "exited"
       \/ /\ ~ctxDone
          /\ current' = pc
          /\ pc' = Entry[pc]
    /\ attempt' = 1
    /\ expired' = FALSE
    /\ UNCHANGED <<info, resources, detection, url, ctxDone, outcome>>

-----------------------------------------------------------------------------
(* InitializationState *)

Parse ==
    /\ pc = "parse"
    /\ LET parsed == ParseURL(url)
       IN  \/ /\ parsed.err
              /\ Fail("invalidMeetingUrl")
              /\ UNCHANGED info
           \/ /\ ~parsed.err
              /\ pc' = "launch"
              /\ info' = parsed.info
              /\ UNCHANGED outcome
    /\ UNCHANGED <<current, attempt, resources, detection, signals>>

\* playwrightDriver.Launch pays no attention to its context. What it started it
\* stops when it fails, and ignores the error of doing so.
RuntimeFailed ==                       \* already launched, or playwright.Run fails
    /\ pc = "launch"
    /\ LaunchFailed
    /\ UNCHANGED <<current, info, attempt, resources, detection, signals>>

ContextFailed ==                       \* LaunchPersistentContext, then pw.Stop
    /\ pc = "launch"
    /\ context = "none"
    /\ LaunchFailed
    /\ \/ UNCHANGED <<runtimes, lost>>
       \/ runtimes' = runtimes + 1 /\ lost' = TRUE
    /\ UNCHANGED <<current, info, attempt, context, tabs, driver, page, detection, signals>>

Launched ==
    /\ pc = "launch"
    /\ context = "none"
    /\ pc' = "newPage"
    /\ attempt' = 1
    /\ runtimes' = runtimes + 1
    /\ context' = "open"
    /\ driver' = TRUE
    /\ UNCHANGED <<current, info, tabs, page, lost, detection, signals, outcome>>

\* sleep.For: the timer or the context, whichever is seen first.
Backoff ==
    /\ pc = "backoff"
    /\ \/ /\ pc' = "launch"
          /\ attempt' = attempt + 1
          /\ UNCHANGED outcome
       \/ /\ ctxDone
          /\ Fail("cannotJoinMeeting")
          /\ UNCHANGED attempt
    /\ UNCHANGED <<current, info, resources, detection, signals>>

-----------------------------------------------------------------------------
(* Provider.OpenMeetingPage *)

NewPage ==
    /\ pc = "newPage"
    /\ \/ /\ Fail("cannotJoinMeeting")
          /\ UNCHANGED tabs
       \/ /\ pc' = "goto"
          /\ tabs' = tabs + 1
          /\ UNCHANGED outcome
    /\ UNCHANGED <<current, info, attempt, runtimes, context, driver, page, lost,
                   detection, signals>>

\* page.Goto fails, or answers with an error of the server's; it always fails
\* for the empty address of a provider without a parser.
GotoPage ==
    /\ pc = "goto"
    /\ \/ /\ Fail("cannotJoinMeeting")
          /\ ClosePage
       \/ /\ info # Invalid
          /\ pc' = "freeze"
          /\ UNCHANGED <<resources, outcome>>
    /\ UNCHANGED <<current, info, attempt, detection, signals>>

\* A frozen page is closed and opened again, however the sleep between ends;
\* the last one is taken as it is.
Frozen ==
    /\ Goto("freeze", "newPage")
    /\ attempt < MaxOpenPageAttempts
    /\ attempt' = attempt + 1
    /\ ClosePage
    /\ UNCHANGED <<current, info, detection, signals, outcome>>

Opened ==
    /\ Goto("freeze", "waitingRoom")
    /\ page' = info.link
    /\ UNCHANGED <<current, info, attempt, runtimes, context, tabs, driver, lost,
                   detection, signals, outcome>>

-----------------------------------------------------------------------------
(* WaitingRoomState and Provider.JoinMeeting *)

\* typeBotNameWithRetry: after the last failure the bot goes on without a name.
TypeName ==
    /\ pc = "typeName"
    /\ \/ /\ pc' = "cancelCheck"
          /\ UNCHANGED attempt
       \/ /\ attempt < NameTypeMaxAttempts
          /\ attempt' = attempt + 1
          /\ UNCHANGED pc
    /\ UNCHANGED <<current, info, resources, detection, signals, outcome>>

\* The check before the irreversible click of the join button.
CancelCheck ==
    /\ pc = "cancelCheck"
    /\ pc' = IF ShouldStop THEN "joinFailed" ELSE "poll"
    /\ UNCHANGED <<current, info, attempt, resources, detection, signals, outcome>>

Poll ==
    /\ pc = "poll"
    /\ \/ /\ JoinDone \/ ShouldStop
          /\ pc' = "joinFailed"
          /\ UNCHANGED view
       \/ /\ ~JoinDone /\ ~ShouldStop
          /\ pc' = "detect"
          /\ view' \in Views
    /\ UNCHANGED <<current, info, attempt, resources, index, state, steady, signals, outcome>>

\* One selector of Detect. Its context is cancelled as soon as the answer is
\* there and looked at only then: an element that is not visible ends the scan.
Returns(name) ==
    /\ pc' = "answer"
    /\ state' = name

Detect ==
    /\ pc = "detect"
    /\ \/ /\ Selectors[index].element \in view
          /\ Returns(Selectors[index].name)
          /\ UNCHANGED <<index, steady>>
       \/ /\ Selectors[index].element \notin view
          /\ Returns("")
          /\ UNCHANGED <<index, steady>>
       \/ /\ steady' = FALSE                              \* the look failed
          /\ IF index = Len(Selectors)
             THEN Returns("") /\ UNCHANGED index
             ELSE index' = index + 1 /\ UNCHANGED <<pc, state>>
    /\ UNCHANGED <<current, info, attempt, resources, view, signals, outcome>>

\* The switch on the state; else the join button is clicked once more.
Answer ==
    /\ pc = "answer"
    /\ pc' = CASE state = "in_call" -> "inCall"
               [] state \in Refusals -> "joinFailed"
               [] OTHER -> "poll"
    /\ view' = {}
    /\ index' = 1
    /\ state' = ""
    /\ steady' = TRUE
    /\ UNCHANGED <<current, info, attempt, resources, signals, outcome>>

JoinFailed ==
    /\ pc = "joinFailed"
    /\ pc' = IF ShouldStop THEN "cleanup" ELSE "joinClassify"
    /\ UNCHANGED <<current, info, attempt, resources, detection, signals, outcome>>

JoinClassify ==
    /\ pc = "joinClassify"
    /\ Fail(IF JoinDone THEN "timeoutWaitingToStart" ELSE "botNotAccepted")
    /\ UNCHANGED <<current, info, attempt, resources, detection, signals>>

-----------------------------------------------------------------------------
(* What follows: the call, the error state, the last step of the cleanup *)

\* The call fails, finds a stop or ends by itself, as BotMachine tells.
EndOfCall ==
    /\ pc = "call"
    /\ \/ Fail("internalError")
       \/ /\ pc' = "cleanup"
          /\ ShouldStop
          /\ UNCHANGED outcome \/ SetError("exitingMeetingBeforeRecord")
       \/ /\ pc' = "cleanup"
          /\ endReason' = "callEnded"
          /\ UNCHANGED hasError
    /\ UNCHANGED <<current, info, attempt, resources, detection, signals>>

SendError ==
    /\ Goto("sendError", "cleanup")
    /\ UNCHANGED <<current, info, attempt, resources, detection, signals, outcome>>

\* playwrightDriver.Close, if the context was given a driver: both steps are
\* tried, and their errors only logged.
CloseBrowser ==
    /\ Goto("closeBrowser", "terminated")
    /\ IF driver /\ context = "open"
       THEN /\ context' = "none"
            /\ \/ tabs' = 0 /\ runtimes' = runtimes - 1 /\ UNCHANGED lost
               \/ /\ lost' = TRUE
                  /\ tabs' \in {0, tabs}
                  /\ runtimes' \in {runtimes - 1, runtimes}
       ELSE UNCHANGED <<context, tabs, runtimes, lost>>
    /\ UNCHANGED <<current, info, attempt, driver, page, detection, signals, outcome>>

\* What the goroutine does by itself.
Session ==
    \/ Enter \/ Parse
    \/ RuntimeFailed \/ ContextFailed \/ Launched \/ Backoff
    \/ NewPage \/ GotoPage \/ Frozen \/ Opened
    \/ TypeName \/ CancelCheck \/ Poll \/ Detect \/ Answer
    \/ JoinFailed \/ JoinClassify
    \/ EndOfCall \/ SendError \/ CloseBrowser

-----------------------------------------------------------------------------
(* The page, the clock, and those who stop a session *)

PageChanges ==
    /\ pc = "detect"
    /\ view' \in Views \ {view}
    /\ steady' = FALSE
    /\ UNCHANGED <<current, pc, info, attempt, resources, index, state, signals, outcome>>

TimePasses ==
    /\ current = "waitingRoom"
    /\ pc # "exited"
    /\ ~expired
    /\ expired' = TRUE
    /\ UNCHANGED <<current, pc, url, info, attempt, resources, detection, ctxDone,
                   outcome>>

\* Machine.RequestStop: an error of its own for a session that it takes to be
\* before its recording, else the reason apiRequest alone. What the handler made
\* of Machine.current may be old when it is applied; and between two states, while
\* current is stored, the handler may read neither the one nor the other.
StopRequested ==
    /\ pc # "exited"
    /\ \/ SetError("exitingMeetingBeforeRecord")
       \/ /\ current \notin {"initialization", "waitingRoom"} \/ pc \in Stages \ {current}
          /\ endReason' = "apiRequest"
          /\ UNCHANGED hasError
    /\ UNCHANGED <<current, pc, info, attempt, resources, detection, signals>>

Sigterm ==
    /\ pc # "exited"
    /\ ~ctxDone
    /\ ctxDone' = TRUE
    /\ UNCHANGED <<current, pc, url, info, attempt, resources, detection, expired,
                   outcome>>

SetupNext == Session \/ PageChanges \/ TimePasses \/ StopRequested \/ Sigterm

SetupSpec == SetupInit /\ [][SetupNext]_setupVars

\* The calls to Playwright have time limits of their own; the call is BotMachine's.
Progress == Session /\ pc # "call"

SetupFairSpec == SetupSpec /\ WF_setupVars(Progress) /\ WF_setupVars(TimePasses)

-----------------------------------------------------------------------------
(* Properties *)

\* After a cleanup no Playwright process, browser or tab of the session is left,
\* whatever attempt of the launch or of the page failed; and the retries of
\* OpenMeetingPage never have two tabs of the meeting open, which would be two
\* participants in its lobby. Unless one of the errors that the code ignores was
\* that of closing something.
NothingLeftOpen ==
    ~lost =>
        /\ tabs <= 1
        /\ pc = "terminated" => runtimes = 0 /\ context = "none" /\ tabs = 0

\* A stop that arrives before the join loop is left ends the waiting room as a
\* stop, even when its time limit passes or the meeting turns the bot away as well:
\* the session reports the reason of the request and no other, it does not pass
\* through the error state, and one stopped before it recorded is no success.
StopBeatsTimeout ==
    (ShouldStop /\ pc \in JoinLoop \union {"cancelCheck"})
        ~> /\ pc \in {"cleanup", "inCall", "exited"}
           /\ endReason \in StopReasons
           /\ endReason = "exitingMeetingBeforeRecord" => hasError

\* The two states end, however often launching, opening and typing are retried
\* and whatever the page shows.
SetupEnds == <>(current \notin {"initialization", "waitingRoom"})

\* Detect "returns the first matching state, or empty string if none match": of
\* a page that did not change while the detector looked at it.
FirstMatch ==
    LET matching == {i \in DOMAIN Selectors : Selectors[i].element \in view}
    IN  IF matching = {} THEN ""
        ELSE Selectors[CHOOSE i \in matching : \A j \in matching : i <= j].name

DetectsFirstMatch == pc = "answer" /\ steady => state = FirstMatch

\* A parser accepts the address it returned and returns it unchanged, so that
\* parsing a stored address once more changes neither address nor password.
Stable(r, again) == r # Invalid => again = r

\* The address names the meeting of the link, by the code of the link or the code
\* or thread wrapped inside it; and the password given out apart is the one in it.
NamesMeeting(r) ==
    r # Invalid =>
        /\ r.link.code = (IF url.inner = None THEN url.code ELSE url.inner.code)
        /\ r.password = r.link.p \/ r.link.host # "teamsLive"

\* However a link was spelled or wrapped, its meeting survives the parser, and the
\* parser's own output does.
LinkSurvivesParsing ==
    LET meet  == MeetParseURL(url)
        teams == TeamsParseURL(url)
    IN  /\ NamesMeeting(meet)
        /\ NamesMeeting(teams)
        /\ Stable(meet, MeetParseURL(meet.link))
        /\ Stable(teams, TeamsParseURL(teams.link))

-----------------------------------------------------------------------------
(* The contract that BotMachine's view of these two states also implements *)

Contract == INSTANCE SetupContract
                WITH stage     <- current,
                     browser   <- IF context = "open" THEN "open"
                                  ELSE IF ~driver THEN "none"
                                  ELSE IF runtimes + tabs > 0 THEN "leaked" ELSE "closed",
                     page      <- IF page = None THEN "none" ELSE "open",
                     cancelled <- ctxDone

\* Launch, retries, page and join loop in full implement the contract: whatever
\* fails and in whatever order stop, cancel and timeout arrive, a page is opened
\* in an open browser, waited at, and none but the cleanup takes them down, or
\* fails to.
ImplementsContract == Contract!Spec

=============================================================================
