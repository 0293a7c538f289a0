# Meeting-BaaS in TLA+

A verification development of the Go code of this repository: TLA+ modules translated
from the source, TLC configurations that check them on small instances, and theorems about
them that TLAPS proves for every value of the constants. Paths below are relative to `src/`.

## 1. Inventory

Three programs. The **api-server** takes `POST /v2/bots`, writes the bot to Postgres and
adds a job to a Redis stream. The **controller** reads the stream and starts one
**bot-worker** process per job. The worker joins the meeting with a browser, records it with
ffmpeg, and takes stop, pause and resume requests over HTTP and Redis.

| Part | State it keeps | Operations | Talks to |
|---|---|---|---|
| Session state machine (`internal/usecase/bot`) | `Machine.current`, `MeetingContext` (end reason, error flag, pause flag, times, drivers) | `Run` and the `Execute` of nine states | every other part of the worker, through interfaces and shared flags |
| Meeting setup (`states/initialization.go`, `waiting_room.go`, `meeting/meet/open_page.go`, `join.go`, `meeting/state_detector.go`, `browser/playwright_driver.go`) | Playwright process, context, tabs, what the page shows | launch with retries, open the page, type the name, poll until admitted | the browser, the flags of `MeetingContext` |
| Meeting links (`meeting/detect_provider.go`, `url_parser.go`, `meet/url_parser.go`, `teams/url_parser.go`) | none | DetectProvider, ParseURL | called by the initialization |
| Worker wiring, HTTP control plane (`internal/app/botworker.go`, `internal/api/http`) | the object graph | `/stop_record`, `/pause`, `/resume`, `/status`, SIGTERM | reads `Machine.current`, sets flags of `MeetingContext` |
| Screen recorder (`internal/infra/recorder`) | the ffmpeg process, `running` | Start, Pause, Resume, Stop | ffmpeg by signals |
| End conditions (`states/recording.go`) | `FirstUserJoined`, `AttendeesCount`, `NoSpeakerDetectedTime` | the poll of the recording state | the speaker manager |
| Speaker manager and observer (`internal/infra/speaker`, `meeting/meet/speakers_observer.go`) | names active, names ever seen, subscribers | Push, Subscribe, cancel, Snapshot | callbacks of the page |
| Dialog observer (`internal/infra/dialog`) | page, pause flag, loop | Attach, Stop, Pause, Resume | the page |
| Webhook sender (`internal/infra/webhook`) | failure counter, circuit breaker | send with retries | the customer's endpoint |
| Commands to bots (`v2/bots.go`, `app/apiserver.go`, `app/botworker.go`, `storage/redis/client.go`) | Pub/Sub channels `bot:cmd:<name>`, `bot:stop:<name>`, the subscription of a worker | pause, resume, chat, leave, stop of v1 | api-server to worker, over Redis |
| Job queue (`internal/infra/queue`) | stream, group, pending entries (Redis) | Enqueue, ReadOne, Ack | api-server to controller |
| Controller (`internal/app/controller.go`) | slots, running workers | Run, handleJob | queue, worker processes |
| Bot creation (`internal/api/http/v2`, `middleware/idempotency.go`, `storage/postgres`) | bots, idempotency keys, outbox | create, schedule | Postgres, Redis |
| Authentication, rate limit (`middleware/auth.go`, `rate_limit.go`, `postgres/api_key_repo.go`, `APIServer.Run`) | five-minute key cache, counters of a window, the calls in progress | issue, revoke, look up, count, shut down | Postgres, Redis |
| Helpers (`internal/pkg`) | none | retry, race, poll, sleep | |

The behaviours that are hard to test, each with its line, are the `hazards` of
`PROJECT.json`. In short:

- *Concurrency*: HTTP goroutines read `Machine.current` without a lock and act on what they
  read later; flags of `MeetingContext` are set by four actors; loops of the dialog observer
  overlap; calls share a quota and a cache with each other and with a revoke.
- *Failure*: any step of a session may fail and the cleanup must still run; ffmpeg may die or
  be suspended when it is told to stop; the controller may stop or crash between the delivery
  of a job and its acknowledgement; the api-server may crash between its four writes; a launch
  or a page may fail after each resource it took.
- *Ordering*: which end reason is stored last, the order of the webhook events, a stop that
  overtakes the transition it was decided on; commands that are lost or heard by nobody.
- *Time*: waiting room, silence, no-one-joined, alone and maximum duration, over clocks that
  start again after a pause; back-offs, a breaker's reset, windows of a quota, lives of cached keys.

What makes each part correct: a session always ends and has tried to take down all it set up; its
outcome and its events agree with what happened; a stop or resume is acted upon; the timers fire when
they should and not before; every job is run at most once and no slot is lost; a bot is
created once per key; a revoked key stops working and no window exceeds its quota; a bot obeys the
last command it heard; the setup leaves nothing open; a dialog that stays is tried again and again.

## 2. Plan

| | Module | Proofs |
|---|---|---|
| 1 | `BotMachine`, the abstract `BotLifecycle`, `BotMachineRefinement` | `BotMachineProofs` |
| 2 | `RecordingTimers` | `RecordingTimersProofs` |
| 3 | `JobQueue` and the abstract `JobDelivery` | `JobQueueProofs` |
| 4 | `BotCreation` and the abstract `CreationContract` | `BotCreationProofs` |
| 5 | `MeetingUrls`, `MeetingSetup` and the abstract `SetupContract`, which `BotMachine` implements too | `MeetingSetupProofs`, `BotMachineProofs` |
| 6 | `ApiAccess`: keys, cache, quota, shutdown | `ApiAccessProofs` |
| 7 | `BotCommands`: from the api-server to a worker and its subscription | `BotCommandsProofs` |
| 8 | `WebhookSender`, `DialogObserver` | `WorkerServicesProofs` |

All of it is done. What could still be added: the fan-out of the speaker manager to subscribers,
which nothing in the worker subscribes to, and the audio offset of `recorder/offset.go`, which
nothing calls.

How the modules compose: `MeetingSetup` is the detail of the two steps of `BotMachine` that open a
session, `RecordingTimers` of its recording state, and both keep to what `BotMachine` assumes of
them: `SetupContract` is implemented on both sides. `BotCreation` fills the stream that `JobQueue`
reads: `CreationContract` says what gets into it, `JobDelivery` what comes out. `BotCommands` begins
with the rows and jobs of the bots, and ends at the flag `IsPaused` whose effect is `BotMachine`'s.
`ApiAccess` is what every call of `BotCreation` and `BotCommands` has passed.

## 3. Modules

### BotMachine

One worker process. Every read or write that is atomic in the code is one step, so
goroutines interleave here where they do there.

| Variable | Code |
|---|---|
| `current`, `pc`, `next` | `Machine.current`; where the goroutine of `Machine.Run` is; the `Transition.Next` it is about to store |
| `endReason`, `hasError`, `isPaused` | the fields of `MeetingContext`, each set under its mutex |
| `pending` | what each HTTP handler has decided after reading `current` and not yet done |
| `ctxDone`, `expired` | the context of `main`; the time limit of the state being executed |
| `browser`, `page` | `BrowserDriver` and `Page` of the context: a browser whose `Close` failed is `leaked`; a page is in the meeting (`open`), shows that it was left (`left`) or is `closed` |
| `torn` | history: a stop before the recording took it for begun, on a torn read of `current` |
| `ffmpeg`, `sigint`, `running` | the child process; SIGINT sent to it; `ScreenRecorder.running` |
| `delivered` | the events the webhook's receiver got |

`Loop` and `Assign` are the two halves of an iteration of `Run`; each state's `Execute` is one
action per point at which it looks at shared state (`RecordingStop`, `RecordingPause` and
`RecordingEnd` are the three looks of one poll). `HttpRead` is the read of `current` in
`handleStopRecord`/`handlePause`/`handleResume`, `HttpApply` the call it decided on. With
`TornReads` an unsynchronised read during the two-word write of `current` may return a value
that equals no state, as Go's memory model allows. `FfmpegFinalises`, `FfmpegCrashes` and
`ContextKillsFfmpeg` are the process and `os/exec`.

Nothing that takes a session down is certain. `CloseMeeting` leaves the meeting only if the leave
button is visible and its click works, and keeps the page open in every case; `CloseBrowser` may
fail in either of its steps; `StopRecorder` may find its signal refused. The code logs each of these
and goes on, and "complete" is sent with the page still open.

No `Execute` of the repository returns an error, so the branch of `Run` that handles one
(`machine.go:64-80`) is unreachable and not modelled. A signal may always be refused: the
Windows build maps all three to `os.Interrupt`, which `Process.Signal` refuses there.

### BotLifecycle, BotMachineRefinement

What an observer of a session may rely on: the order of its states, when its capture is idle,
live, held or over, and that only a cancelled session skips the cleanup. The refinement maps
`state <- current`, `cancelled <- ctxDone` and `capture` to the state of ffmpeg.

### RecordingTimers

The end conditions of the recording state, which `BotMachine` takes as an input, over time counted
in polls. A time stamp `t` is kept as its age `now - t`, so no clock grows; an age saturates at
`Horizon`, above every limit. `FirstUserJoined`, `NoSpeakerDetected`, `AttendeesCount` are the three
parts of `updateAttendees`; the checks keep their names. One poll is three steps with the page in
between: `UpdateAttendees` takes what was reported, `FindEndMeeting` waits for the page (`at =
"await"`, `waited`), and `PollChecks` compares what was taken with the limits. Names that are
reported during the wait are not seen by that poll's checks. The wait has no limit in the code,
since the timeout of `Detect` is not given to `IsVisible`; `MaxAwait` bounds it. `MeetingChanges` is
the meeting, `Push` and `Tick` what the page reports of it: the tiles it shows, never who has gone.
`heard`, the age of the last poll that saw somebody active, and `counted`, the names that had been
reported when a poll took them, are history variables. `observing` says whether the observer's
script runs in the page at all: it is registered with `AddInitScript` on a page that is open
already, and either is possible.

### JobQueue

The stream `bots:jobs` and the controllers. `stream`, `cursor` and `pending` are Redis';
`loop`, `slots`, `ctxDone` and `handler` are a controller's goroutine of `Run`, its channel
`parallel`, its context and its goroutines of `handleJob`; `worker` is the process of a job.
A controller that stops or crashes loses its goroutines and not its workers, and may start
again under the same name. A read may fail before or after Redis delivered a message.
`Claim` is an operator's `XCLAIM`, which nothing in the repository performs and a comment of
`handleJob` relies on.

### JobDelivery

What the api-server may rely on once a job is queued. The state is the stream, how far it was given
out (`position <- cursor`), the jobs given out (`given <- Given`), what became of each job
(`work <- worker`) and the jobs that count as done (`acked`). Jobs are given out in the order of the
stream and never twice; only the first reader passes over what was queued before it came; a job
runs at most once and only if it was given out; and done is only what has succeeded, or cannot be
decoded. Slots, handlers, claims, crashes and starts of controllers are hidden, so the refinement
says that none of them reorders, repeats or skips a job.

### BotCreation

`POST /v2/bots` and `POST /v2/bots/scheduled` on any number of api-servers, for one tenant. A
call is one HTTP request; `pc` is where its goroutine is in the middleware (`begin`, `lookup`,
`complete`) or in `handleCreate` (`check`, `insert`, `outbox`, `enqueue`, `lock`), and each
statement sent to Postgres or Redis is one step, since none of them shares a transaction.
`requestHash` and `response` are the rows of `idempotency_keys`, `bots` and `outbox` those of
their tables, `jobs` the stream that `JobQueue` delivers, `dedup` the keys `dedup:<hash>`.
`Unique` is the two partial unique indexes of migration 008.

A call may lose its client (`HangUp` cancels its context: every later statement fails) or its
server (`Crash`). A statement may fail, and the two inserts whose error matters may also
succeed and lose their reply. A read of Redis that fails is a miss. `ran` is a history
variable: the calls that reached the handler.

### CreationContract

What clients and workers may rely on, over five of the variables of `BotCreation` and none of its
steps through middleware and tables: `request`, `ran`, `bots`, `jobs`, `answer`. Of the calls with
one key one is handled, and the others are told its answer, that it is in flight, that theirs is
another body, or that they failed. A bot is stored by a handled, valid request, once for its meeting,
and announced only when it is stored; a handler answers with its own bot if it stored one (or that it
failed, if the insert lost its reply) and else with a failure or with a bot of the same meeting.

### MeetingUrls

`DetectProvider`, `ParseURL` and the parsers of Google Meet and Teams as operators. A link is a
record of what the code tells apart: how it was pasted (`spelling`), the kind of host and path, and
the parts a parser takes; the characters are abstracted. An address that a parser returns is a
link again, so that parsing can be compared with what was meant. The worker registers the parser
of Google Meet only; `TeamsParseURL` is called by its own tests alone, and is checked all the same.

### MeetingSetup, SetupContract

`InitializationState.Execute` and `WaitingRoomState.Execute` with all they call. `pc` is where the
goroutine is: parsing the link, launching with `retry.Do` and its back-off, opening a tab,
navigating, waiting for a frozen page (which closes its tab and tries another), typing the name,
then the loop of `JoinMeeting`, whose call of `Detect` looks at one selector of `MeetStateConfig`
per step while the page changes (`view`). An API stop before the call stores
`exitingMeetingBeforeRecord` with the error flag (`machine.go:113-120`), one that comes later
`apiRequest` without it; both are end reasons that the join loop sees. `runtimes`, `context` and
`tabs` are what Playwright has open; `driver` and `page` what the session knows of it. Stops, the
cancelled context and the waiting room's limit come at any step. The rest of the session is one step
(`call`), since `BotMachine` has it, and the cleanup closes the browser. Errors of `Close` and
`Stop`, which the code ignores, may leave something open: `lost` remembers it. `steady` is a history
variable too.

`SetupContract` is what the rest may rely on: a browser before a page, a page before the waiting
room, only the cleanup closes them, and a session that gets through its cleanup has tried to close
its browser, which is `leaked` if that failed.

### ApiAccess

A call is one HTTP request; `call[c].pc` is where it is in the two middlewares, and each command
sent to Redis or Postgres is a step that may fail. `cache` is `apikey:cache:<hash>`, `counter` and
`counterUntil` are `rate:<key>:<window>` with its expiry, `issued`, `rate` and `revokedAt` the
columns of `api_keys`. The clock is explicit and bounded. An INCR may take effect and lose its
reply. `server` is `APIServer.Run`: serving, draining for ten seconds, closed, or failed.
`admitted` and `unpinned` (counters whose EXPIRE was not made) are history variables.

A call is *in the gate* until the middleware calls the handler. `MaxGate` bounds its time there: the
rate limiter gives its commands 200 ms (`rate_limit.go:36`), the authentication has no limit of its
own but the client's patience, so for it the bound is an assumption. A handler may take any time,
since the `http.Server` sets no timeout for it (`apiserver.go:124-128`), and a call may still come in
on an accepted connection while the server drains.

### BotCommands

A v1 bot is created with the `bot_uuid` of its request, a v2 bot under the id of its row:
`JobName` is what its worker calls itself, and `CmdChannel`, `StopChannel` what each endpoint
publishes on. `worker` is the subscription: starting, listening, cut (the connection is being
rebuilt and messages are lost), deaf (the first subscribe failed: the function returns), ended.
`inbox` is go-redis' channel, `typing` the goroutines that type chat messages. `stopClient`,
`signals` and `reason` are `SubscribeStopSignal`, which no worker calls. A command is known by the
moment of its PUBLISH and `published` keeps whom it was meant for and what became of it.

### WebhookSender

`Send` for one caller after the other, as the worker uses it: attempts, the back-off sleep that
ignores the context, the answers 2xx, 4xx, 5xx and none, and the breaker's fields under their
mutex. Time is in seconds. `streak` and `failedAt` are history variables: what failed since the last
success.

### DialogObserver

`Attach`, `Stop`, `Pause`, `Resume`, `Subscribe` and any number of loops, since a cancelled loop
goes on until it waits for its tick again. A loop reads pause and page under the lock (`Tick`), then
looks at one pattern after the other (`Look`) and presses (`Press`), each a step, while the callers
and the page go on. Nothing is assumed of the page: a look may miss a dialog that is there (an error
of `IsVisible`), and a press may close the dialog, another one, several or none, since a button may
be missing, its click fail, or succeed without effect. Only with no button and no Escape to press
(`CanPress`) does nothing close. `late` and `astray` count presses that a caller would not expect.

### MC modules

They say what TLC needs of an instance: enumerations and symmetry. `MCApiServer` and
`MCWorkerServices` each check two parts that share no state: a variable `focus`, chosen in the
first state, says which of the two moves, so the states are those of the two modules one after
the other, and each property is checked in the behaviours of its own part.

## 4. Runs

The bounds are in the `.cfg` files. Types are proved and not part of a run; so are `GraceIsGiven` and
`BothEventsAreAttempted`.

| Run | Shows |
|---|---|
| `bot_safety` | Two HTTP handlers, Redis commands, SIGTERM, time limits, torn reads and ffmpeg in every order: an uncancelled session ends with its recorder gone, its browser open only if its `Close` failed, and the bot in the meeting only if leaving and that `Close` both failed (`NothingLeftBehind`); a session that polls as recording has no suspended ffmpeg (`RecordingIsLive`); "complete" is only sent once ffmpeg is gone (`CompleteAfterRecording`); "failed" is only sent of an error (`FailedMeansError`); a success has recorded, unless a stop met a torn read before that (`SuccessMeansRecorded`); `BotMachine` implements `BotLifecycle` (`ImplementsLifecycle`) and `SetupContract` (`ImplementsSetup`) |
| `bot_liveness` | Stops, cancels and resumes are acted upon and a session ends, unless ffmpeg stays suspended or pauses go on |
| `timers` | Two participants and every order of speech, coming, going and pauses, with a script that reports and one that does not: silence is what the polls heard (`SilenceIsHeard`), ends the stretch at most one wait for the page after it is due (`SilenceEndsStretch`), alone-in-meeting ends nothing once a poll has found a name reported, though a name reported during the wait of the poll that ends it comes too late (`OnlyUnseenIsAlone`), and the session ends (`SessionEnds`) |
| `job_queue` | A controller that stops, crashes, restarts and loses replies: no worker starts twice (`NeverStartedTwice`), nothing is acknowledged before a clean exit (`AckedMeansDone`), every slot is held by exactly one job or read (`SlotsAreHeld`), a controller that keeps running reads every message unless workers that never exit hold all its slots (`JobsGetRead`), and `JobQueue` implements `JobDelivery` (`ImplementsDelivery`) |
| `bot_creation` | Three requests race, repeat each other, lose clients, servers, writes and replies: at most one request of a key reaches the handler (`HandlerRunsOncePerKey`); a client is only told what a handler answered to the same key and body (`ReplayIsOriginal`); jobs, events, deduplication keys and answers name stored bots (`BotsAreStored`); two handlers that answer for one meeting name one bot, Redis or no Redis (`SameMeetingSameBot`); `BotCreation` implements `CreationContract` (`ImplementsCreation`) |
| `setup` | Every outcome of launch, page, name and join, with a page that changes under the detector: never two tabs of the meeting, and nothing left open after the cleanup (`NothingLeftOpen`); the meeting of a link survives its parsing, over all links of the instance (`LinkSurvivesParsing`); a stop ends the waiting room under the reason of the request, with its error flag when nothing was recorded, and past the error state, even if the time limit passes or the meeting turns the bot away as well (`StopBeatsTimeout`); the setup ends (`SetupEnds`); `MeetingSetup` implements `SetupContract` (`ImplementsContract`) |
| `api_server` | Three calls race a revoke, the cache, failing stores and the end of the server: a revoked key is refused once a cached answer and one call have run out (`RevokedIsRefused`); no window lets more calls through than the quota (`WindowAllowance`); counters go away (`CountersGoAway`); a call that began before the server was told to stop loses Redis and Postgres only if it has run for the whole drain (`NoCallLosesItsStores`), with handlers of any length and calls that come during the drain. Two bots under commands: the last pause or resume heard is obeyed (`PausedAsTold`) |
| `worker_services` | Four sends through retries, back-offs, breaker and cancel: an event is given up unattempted only while the receiver really fails (`SkippedMeansFailing`), and a cancelled caller waits for one back-off at most (`CancelledSendEnds`). The observer: every loop but the last is cancelled (`OnlyCurrentIsLive`), a loop presses at most once on a stale page or pause (`OneStalePress`), and a dialog that stays is pressed for again and again, or for one that hides it, unless the very looks for it go on failing (`DialogsAreTried`) |

Runs that are expected to be violated, each a finding of `PROJECT.json` with the line of the
code and the text it contradicts:

| Run | What the code does |
|---|---|
| `bot_cancel_skips_cleanup` | a SIGTERM noticed between two states skips the cleanup |
| `bot_stop_while_paused` | stopping a paused session waits for ever on a suspended ffmpeg |
| `setup_detect` | `Detect` tests the error of a context it has just cancelled, and ends its scan at the first selector that is not visible: an admitted bot is only noticed if every look before the call's failed |
| `leave_unheard` | leave-bot publishes on a channel that no worker subscribes to |

Other divergences from what the docs, comments and names of the code say, met while modelling.

*Session.* `CleanupState` sends "complete" after the error state sent "failed"
(`states/cleanup.go:57`). A stop request replaces the reason of an error and leaves its flag
(`usecase/bot/types.go:167`). A stop that races with the start of the recorder is reported as
before recording (`machine.go:113`). Nothing watches ffmpeg, so one that died still makes a success
(`recorder/recorder.go:98`). A torn read of the two-word `current` matches no early state and
turns a stop before recording into a success, which is why `SuccessMeansRecorded` has the escape
`torn`; `machine.go:91-95` calls the read thread-safe.

*Timers.* The bot's own admission sets `FirstUserJoined`, so `checkNoOneJoined` cannot fire
(`states/waiting_room.go:50`). `AttendeesCount` is the number of names ever seen, so
alone-in-meeting cannot fire once a poll has seen anybody (`states/recording.go:128`), though the
comment of `checkAloneInMeeting` says it fires when all have left (`recording.go:195-198`); a first
name that is reported while that poll waits for the page does not stop it, the count being stale.
Who leaves while speaking stays active and holds the silence timer (`recording.go:141`); speech
between two polls or in a pause does not reset it. Each resume starts the maximum duration again
(`recording.go:40`). The observer's script is added as an init script to a page already open, and
then reports nothing (`speakers_observer.go:77`): the silence timer ends a full meeting.
`FindEndMeeting`, by the scan of `Detect` above, never gets as far as the text of an ended meeting.

*Setup.* A page found frozen at the third attempt is returned as opened (`open_page.go:95`).
`DetectProvider` wants a host, so the spellings that the Meet parser can repair (no scheme,
quotes, text in front) never reach it (`detect_provider.go:28`); the API's own check accepts any
text that contains a host (`v2/bots.go:453`). Links of Teams and Zoom get empty information and fail
at the navigation instead of as `invalidMeetingUrl`. A login page is reported as `botNotAccepted`
(`waiting_room.go:66`). `toggleButton` clicks whatever the state of the camera (`join.go:192`).

*Queue and creation.* A job left unacknowledged is not run again, claimed or not, since reads ask
for new messages only (`redis_stream.go:146`; `controller.go:174` speaks of a replay). The event
is not written in the transaction of its bot, as `docs/api-server.md` says, but after it and with
its error ignored (`v2/bots.go:195`); so is the job, and the client gets 201 for a bot that never
runs (`v2/bots.go:217`); a scheduled bot is never enqueued (`v2/bots.go:199`). A second request
between the insert and the SET of the deduplication key meets the unique index and gets 500, not
the bot (`v2/bots.go:184`); a 500 is kept for the key and replayed (`idempotency.go:85`); the hash
covers the body alone, so one key and body sent to another endpoint replays the first one's
answer (`idempotency.go:50`). A key whose handler was lost stays in flight: nothing calls
`SweepExpired` (`idempotency_repo.go:109`; `docs/api-server.md:58` speaks of a cron).
`docs/database-design.md:382` declares an index that is not unique where migration 008 has one.

*Access.* A handler that outlasts the ten seconds of the drain, and a call that comes during it, lose
Redis and Postgres under their feet (`apiserver.go:143`). A counter whose first INCR lost its reply,
or whose EXPIRE failed, stays for ever (`rate_limit.go`).

*Commands.* Commands of v2 to a v1 bot, and a v1 stop of a v2 bot, go to a channel nobody listens
on. `subscribeBotCommands` returns when its first subscribe fails, though its comment says it
keeps trying (`botworker.go:261`). Pause over HTTP asks for the state, over Redis it does not. Two
chat messages may be typed out of order. The status endpoint reads `bot:state:<id>`, which nobody
writes (`v2/bots.go:270`).

*Services.* `SenderOptions.MaxRetries` is ignored (`sender.go:84`). The dialog observer presses
buttons whatever the handlers answer, while `dialog/types.go:37` says false leaves the page
untouched.

**Bounds.** Two handlers: the worker has three kinds of request, each handler serves any number of
them, and a race needs two. The liveness runs use one, for the same reason, and no symmetry. Two
participants: one who speaks while the other leaves. The timers' limits are one to five polls in the
order of the real ones (grace < silence < maximum), and a poll waits for the page for one at most
(`MaxAwait`), which lets names come and limits pass in the wait; pauses are not counted, so any
number of stretches occurs. Three jobs over two slots, one of them undecodable, one controller that
starts again any number of times, and one claimed message (`MaxClaims`). Three creations of
`MCRequests`' five kinds, which share a key with the same and with another body, share a meeting,
carry neither, are scheduled or are invalid. One meeting code and two passwords in all spellings,
hosts and paths; pages that show nothing, the lobby, the waiting text, the call, an ended call or a
refusal, and change at any step; the retries of the code, unreduced. Three calls with one key for a
quota of two, over windows of one tick, counters, cache entries and a drain of two, a gate of one
(`MaxGate`) and a clock of three (`MaxTime`): a call of one window counts in the next, entries and
counters expire and come again, and handlers outlast the drain. A bot of each version and two
commands: `PausedAsTold` needs two to be out of order. Four sends of three attempts against a
breaker of five failures, so that it opens, resets and opens again within `LastSecond`. Two pages,
two loops (one cancelled late, one current) and two dialogs of three patterns: one with Escape only,
one with buttons only, one with both. Symmetry is used for handlers and calls, in runs without
liveness. The proofs cover every value of the constants.

**Fairness.** `BotMachine`: the goroutine of `Run` takes its steps (the calls it makes to the
browser, S3 and webhooks have time limits of their own), time passes, ffmpeg obeys SIGINT
unless stopped, `os/exec` kills on cancel. Nothing is assumed of requests, of the host who
admits the bot, of SIGTERM, of a crash. `RecordingTimers`: both loops poll, the wait for the page ends
and time passes. `JobQueue`: the goroutines run and Redis answers again and again (strong fairness
of a successful read, since an unreachable Redis disables none of the loop's other steps); nothing
is assumed of starts, stops and crashes, nor that a worker process ever exits: `bot_stop_while_paused`
shows one that does not, and the controller sets it no limit. `MeetingSetup`: the goroutine takes
its steps, each with a time limit of its own, and the waiting room's limit passes; nothing is
assumed of the page. `DialogObserver`: each loop takes its steps; nothing is assumed of the callers
and of what the page does with looks and presses. The other modules claim no liveness.

## 5. Proofs

Eight modules, one argument each: an inductive invariant made of named parts, one step per action,
and the properties of the runs as its consequences, for every value of the constants. The
properties alone are seldom inductive: they speak of an end and rest on every step before it.

`BotMachineProofs`: for every set of handlers, with and without torn reads, `IInv` is inductive
and implies the invariants of `bot_safety`. `IInv` adds to `TypeOK`: every point of the code
belongs to one state (`ControlInv`); a stored transition is one the states return (`AssignInv`);
`running` is false only while no ffmpeg is alive, and the recording state never has a suspended
one (`RecorderInv`); what the cleanup has done at each of its points (`CleanupInv`); nothing is open
but in a browser, until that is closed or could not be (`PageInv`); an error state has an error
(`ErrorInv`). `CleanupComplete` holds with every step of the cleanup failing or not, and so says what
was tried. `SuccessIsRecorded` adds that a decision pending in a handler agrees with the progress of the
recorder as long as no torn read hid it (`RecordedInv`, `TornStays`); it assumes nothing of the
reads. `Refinement` proves that `BotMachine` implements `BotLifecycle`, one lemma per visible
step and one for all the invisible ones; `SetupIsKept` that it keeps `SetupContract`, from what
the initialization has opened at each of its points (`SetupInv`). `CompleteIsLate` says that
"complete" follows the end of ffmpeg; it says nothing of the page, which is still open then.

`StopsAreShort` is what safety can say of `StopIsHonoured` and `CancelIsHonoured`. `StepsLeft` gives
every point of `Run` and of the states the number of steps to the exit once a stop or a cancel is
there, 21 at most. Such a session stays so, each step of its goroutine lowers the measure, and
requests, signals, ffmpeg and time do not touch it: no order of pauses, resumes, failures
and torn reads sends it round its states again. `ToldToEnd` adds that where the goroutine waits
without a time limit, for ffmpeg, SIGINT has been sent or ffmpeg is gone.

`RecordingTimersProofs`: `TInv` adds that a running silence timer is no older than the silence
(`NotTooOld`), from which nobody is ended who was heard, and younger by no more than the poll that
noticed it and that poll's wait (`NotTooYoung`), from which the timer does fire. `WithinLimit`
bounds a stretch by its maximum duration and one wait (`StretchesAreBounded`), the safety half of
`SessionEnds`: once recording, only pauses can keep a session going. Two theorems are of checks that
do less than they say: `NooneJoinedNeverFires` for every choice of limits, and `UnseenIsAlone`,
which rests on `CountedInv`: a poll that counted nobody found nobody reported, and no poll before it
did. `GraceGiven` says that no timer over the attendees ends a stretch within its grace period.

`JobQueueProofs`: no worker is started twice, acknowledged means done and every slot is held, for
every number of jobs, controllers and slots, from an invariant that adds: positions of the stream
hold distinct jobs; a running controller has its group; a job not delivered yet has left no trace;
at most one controller handles a job, and the state of its handler agrees with that of its
worker. From slot accounting follows that no controller handles more jobs than `MaxParallel`.
`DeliveryImplemented` is the refinement of `JobDelivery`. It needs `WorkInv` on top: only a job that was
given out and decodes has a handler, and a job without a start has no worker, since the
abstract job begins once by its own state and not by a counter.

`BotCreationProofs`: the invariants of `bot_creation` for every number of calls, keys, bodies and
meetings. `CInv` adds: who is past the middleware has run the handler and owns the row of its key
(`RanInv`); every stored bot is past its insert and alone for its meeting, and a deduplication key
names a bot of its own meeting (`RowInv`); what a handler answers names a row of its meeting
(`AnswerInv`); a kept response is the answer of the key's handler (`ResponseInv`). `Kept`, which says
that answers, rows and keys in use never change, carries each part over a step. A corollary,
`KeyIndexNeverMet`: the unique index on idempotency keys is never met. `CreationImplemented` is the
refinement of `CreationContract`, one lemma per kind of step. It needs `ContractInv` on top: a call
is idle until it arrives, only a valid request gets to the insert, and the row of a key, by
which the middleware refuses, is that of a call with the same key and body which is past it.

`MeetingSetupProofs`: `SInv` adds which state reaches each point (`FlowInv`), what is open there
(`OpenInv`) and how many, unless the code ignored an error (`CountInv`). `ContractIsKept` is the
refinement. `LinksKeepTheirMeeting` is a case analysis over all links. `RetriesRunOut` is the safety
half of `SetupEnds`: by one measure for the retries of the launch, of the page and of the name
(`Fuel`, 45 at most, with `AttemptInv` on the attempts left) every step but another look at the lobby
brings the two states nearer to their end, and that look is over with the time limit or a stop.
`StopsStayStops` is that of `StopBeatsTimeout`: while the bot joins, only a request to stop has set an
end reason, with the error flag where the code sets it (`OnlyStops`), and no step replaces it.

`ApiAccessProofs`: two invariants. `AInv`: how old a call may be (`CallInv`), when a key may be
revoked (`KeyInv`), that what a call looked up was valid after it began, and what the cache keeps was
looked up by such a call (`CacheInv`), that the server was not told to stop later than now
(`DrainInv`). `StoresStay` follows with no assumption on how long a call takes. `QInv`, on
top of it: all know the right quota (`LimitInv`), a counter outlives its window and not for ever
(`UntilInv`), and counts every call let through and the pending one (`CountInv`). It rests on the
assumption that the 65 seconds of a counter exceed the window by no less than a call is in the gate.

`BotCommandsProofs`: an inbox holds the commands of its bot in the order of their publication and
everything after one that waits (`InboxInv`); the last one heard decided (`HeardInv`).
`StopsNeedAClient` is the finding `leave_unheard` for every instance: a stop reaches only a bot for
which `SubscribeStopSignal` runs, and no worker runs it.

`WorkerServicesProofs`: of the sender, `WInv` ties the breaker's counter to the failures in a row
and to how many attempts were made (`BreakerInv`, `SendInv`). Of the observer, `OInv` says that a
loop in a cycle has not pressed late or astray yet (`LateInv`, `AstrayInv`).

All theorems assume only the named assumptions on the constants. Liveness (`StopIsHonoured`,
`CancelIsHonoured`, `ResumeIsHonoured`, both `SessionEnds`, `SetupEnds`, `StopBeatsTimeout`,
`JobsGetRead`, `DialogsAreTried`) is out of TLAPS's reach, which has neither ENABLED nor an
induction over a measure: it stays with TLC. For the measures above, what is left to TLC is that a
step with work to do is enabled and, by fairness, taken. The other findings are
violations of one instance and stay with TLC as well.

## 6. Not modelled

The retries that go-redis makes by itself when a reply is lost: of XADD (a job may be in the stream
twice), of INCR (a call counts twice, which refuses some early, and when the first is lost no EXPIRE
is made, which is `unpinned`) and of XREADGROUP. Page scripts and the text of selectors (text for a
browser); building the ffmpeg command lines and computing an audio offset (not called by the
worker); configuration, logging and snapshots (read once, or output only); the read-only status and
list endpoints; `last_used_at`, which nothing reads; marking a bot's data as deleted, which no
worker acts upon; the subscribers of the speaker manager, of which the worker has none; `race.go`
and the unused part of `sleep.go`. Repositories with one SQL statement per method have no protocol
of their own: those with one around them are modelled with it. `components` in `PROJECT.json` lists
each part with its status.
