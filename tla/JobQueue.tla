------------------------------ MODULE JobQueue ------------------------------
(***************************************************************************)
(* The way of a job from the api-server to a bot-worker process: the Redis *)
(* stream bots:jobs with its consumer group (queue/redis_stream.go) and    *)
(* the controllers that read it, spawn one worker per job and acknowledge  *)
(* it (app/controller.go), with controllers that stop, crash and restart.  *)
(*                                                                         *)
(* A job is its message: the api-server adds one for each bot it creates.  *)
(***************************************************************************)
EXTENDS Integers, Sequences, FiniteSets

CONSTANTS
    Jobs,           \* the messages
    Malformed,      \* those whose payload does not decode
    Controllers,    \* consumer names, one controller process each
    MaxParallel,    \* capacity of the channel Controller.parallel
    MaxClaims,      \* bound: how many messages operators ever claim
    NoOne           \* the owner of a message that is not pending

ASSUME QueueAssumption ==
    /\ IsFiniteSet(Jobs)
    /\ Malformed \subseteq Jobs
    /\ MaxParallel \in Nat \ {0}
    /\ MaxClaims \in Nat
    /\ NoOne \notin Controllers

VARIABLES
    stream,     \* the messages added, oldest first
    cursor,     \* the group's last delivered position, NoGroup before XGROUP CREATE
    pending,    \* the group's pending entries: who owns each message
    acked,      \* the messages acknowledged
    claimed,    \* the messages an operator has claimed for replay
    loop,       \* where the goroutine of Controller.Run is
    slots,      \* the length of the channel Controller.parallel
    ctxDone,    \* the context of the controller's main was cancelled
    handler,    \* where the goroutine of handleJob is, per controller and job
    worker,     \* the job's bot-worker process
    starts      \* history: how often a worker was started for the job

redisVars      == <<stream, cursor, pending, acked, claimed>>
controllerVars == <<loop, slots, ctxDone, handler>>
workerVars     == <<worker, starts>>
vars           == <<redisVars, controllerVars, workerVars>>

NoGroup == -1

HandlerStates == {"none", "spawn", "wait", "ack", "release"}

TypeOK ==
    /\ stream \in Seq(Jobs)
    /\ cursor \in NoGroup..Len(stream)
    /\ pending \in [Jobs -> Controllers \cup {NoOne}]
    /\ acked \subseteq Jobs
    /\ claimed \subseteq Jobs
    /\ loop \in [Controllers -> {"down", "check", "acquire", "read", "backoff"}]
    /\ slots \in [Controllers -> 0..MaxParallel]
    /\ ctxDone \in [Controllers -> BOOLEAN]
    /\ handler \in [Controllers -> [Jobs -> HandlerStates]]
    /\ worker \in [Jobs -> {"none", "running", "succeeded", "failed"}]
    /\ starts \in [Jobs -> Nat]

Init ==
    /\ stream = <<>>
    /\ cursor = NoGroup
    /\ pending = [j \in Jobs |-> NoOne]
    /\ acked = {}
    /\ claimed = {}
    /\ loop = [c \in Controllers |-> "down"]
    /\ slots = [c \in Controllers |-> 0]
    /\ ctxDone = [c \in Controllers |-> FALSE]
    /\ handler = [c \in Controllers |-> [j \in Jobs |-> "none"]]
    /\ worker = [j \in Jobs |-> "none"]
    /\ starts = [j \in Jobs |-> 0]

-----------------------------------------------------------------------------
(* Producer.Enqueue, and the Redis side of the group *)

\* Messages are distinct; a failed XADD adds nothing.
Enqueue(j) ==
    /\ \A i \in 1..Len(stream) : stream[i] # j
    /\ stream' = Append(stream, j)
    /\ UNCHANGED <<cursor, pending, acked, claimed, controllerVars, workerVars>>

\* XACK, or an XACK that fails.
XAck(j) ==
    /\ pending' = [pending EXCEPT ![j] = NoOne]
    /\ acked' = acked \cup {j}

\* An operator's XCLAIM for the controller c.
Claim(j, c) ==
    /\ pending[j] # NoOne
    /\ Cardinality(claimed \cup {j}) <= MaxClaims
    /\ pending' = [pending EXCEPT ![j] = c]
    /\ claimed' = claimed \cup {j}
    /\ UNCHANGED <<stream, cursor, acked, controllerVars, workerVars>>

-----------------------------------------------------------------------------
(* Steps that Run and its handlers share *)

GoLoop(c, from, to) ==
    /\ loop[c] = from
    /\ loop' = [loop EXCEPT ![c] = to]
    /\ UNCHANGED ctxDone

\* <-c.parallel
ReleaseSlot(c) == slots' = [slots EXCEPT ![c] = @ - 1]

GoHandler(c, j, from, to) ==
    /\ handler[c][j] = from
    /\ handler' = [handler EXCEPT ![c][j] = to]
    /\ UNCHANGED <<loop, ctxDone>>

-----------------------------------------------------------------------------
(* Plausible bugs, used to show that the properties notice; not in Spec.     *)

\* A read of the pending entries first, as after a restart with id 0.
ReadMessagePendingToo(c) ==
    /\ loop[c] = "read"
    /\ \E j \in Jobs :
          /\ \/ /\ cursor < Len(stream)
                /\ j = stream[cursor + 1]
                /\ cursor' = cursor + 1
             \/ /\ pending[j] = c
                /\ handler[c][j] = "none"
                /\ UNCHANGED cursor
          /\ pending' = [pending EXCEPT ![j] = c]
          /\ loop' = [loop EXCEPT ![c] = "check"]
          /\ handler' = [handler EXCEPT ![c][j] = "spawn"]
    /\ UNCHANGED <<stream, acked, claimed, slots, ctxDone, workerVars>>

\* The empty read's `continue` without the release above it.
ReadNothingKeepsSlot(c) ==
    /\ cursor = Len(stream)
    /\ GoLoop(c, "read", "check")
    /\ UNCHANGED <<slots, handler, redisVars, workerVars>>

\* An acknowledgement that does not look at waitErr.
WaitWorkerIgnoresError(c, j) ==
    /\ worker[j] # "running"
    /\ GoHandler(c, j, "wait", "ack")
    /\ UNCHANGED <<slots, redisVars, workerVars>>

\* A release both deferred and at the end of handleJob.
AckReleasesToo(c, j) ==
    /\ GoHandler(c, j, "ack", "release")
    /\ slots' = [slots EXCEPT ![c] = IF @ > 0 THEN @ - 1 ELSE 0]
    /\ XAck(j)
    /\ UNCHANGED <<stream, cursor, claimed, workerVars>>

\* A controller that meets BUSYGROUP and makes the group anew.
StartRecreatesGroup(c) ==
    /\ GoLoop(c, "down", "check")
    /\ cursor' = Len(stream)
    /\ UNCHANGED <<stream, pending, acked, claimed, slots, handler, workerVars>>

-----------------------------------------------------------------------------
(* Controller.Run *)

\* NewController: XGROUP CREATE at $, or BUSYGROUP.
Start(c) ==
    /\ GoLoop(c, "down", "check")
    /\ cursor' = IF cursor = NoGroup THEN Len(stream) ELSE cursor
    /\ UNCHANGED <<stream, pending, acked, claimed, slots, handler, workerVars>>

\* The controller process ends, with its goroutines. Its workers do not, except
\* those KillWorker or WorkerExits has ended before.
Exit(c) ==
    /\ loop' = [loop EXCEPT ![c] = "down"]
    /\ slots' = [slots EXCEPT ![c] = 0]
    /\ ctxDone' = [ctxDone EXCEPT ![c] = FALSE]
    /\ handler' = [handler EXCEPT ![c] = [j \in Jobs |-> "none"]]
    /\ UNCHANGED <<redisVars, workerVars>>

\* Run returns, from any of the places that look at the context (a read returns
\* context.Canceled), and main with it.
Stop(c) ==
    /\ ctxDone[c]
    /\ loop[c] # "down"
    /\ Exit(c)

\* A crash under a cancelled context is a Stop.
Crash(c) ==
    /\ ~ctxDone[c]
    /\ loop[c] # "down"
    /\ Exit(c)

CheckContext(c) ==
    /\ ~ctxDone[c]
    /\ GoLoop(c, "check", "acquire")
    /\ UNCHANGED <<slots, handler, redisVars, workerVars>>

\* c.parallel <- struct{}{}
AcquireSlot(c) ==
    /\ slots[c] < MaxParallel
    /\ GoLoop(c, "acquire", "read")
    /\ slots' = [slots EXCEPT ![c] = @ + 1]
    /\ UNCHANGED <<handler, redisVars, workerVars>>

\* XREADGROUP > returns the next message. A cancelled context does not keep a
\* message from being read.
ReadMessage(c) ==
    /\ GoLoop(c, "read", "check")
    /\ cursor < Len(stream)
    /\ cursor' = cursor + 1
    /\ LET j == stream[cursor + 1]
       IN  /\ j \notin Malformed
           /\ pending' = [pending EXCEPT ![j] = c]
           /\ handler' = [handler EXCEPT ![c][j] = "spawn"]
    /\ UNCHANGED <<stream, acked, claimed, slots, workerVars>>

\* A payload that does not decode is acknowledged, if that works, and dropped.
ReadMalformed(c) ==
    /\ GoLoop(c, "read", "backoff")
    /\ cursor < Len(stream)
    /\ cursor' = cursor + 1
    /\ LET j == stream[cursor + 1]
       IN  /\ j \in Malformed
           /\ \/ XAck(j)
              \/ pending' = [pending EXCEPT ![j] = c] /\ UNCHANGED acked
    /\ ReleaseSlot(c)
    /\ UNCHANGED <<stream, claimed, handler, workerVars>>

\* Five seconds without a message.
ReadNothing(c) ==
    /\ cursor = Len(stream)
    /\ GoLoop(c, "read", "check")
    /\ ReleaseSlot(c)
    /\ UNCHANGED <<handler, redisVars, workerVars>>

\* Redis cannot be reached, or its reply is lost after the message was delivered.
ReadError(c) ==
    /\ GoLoop(c, "read", "backoff")
    /\ ReleaseSlot(c)
    /\ \/ UNCHANGED <<cursor, pending>>
       \/ /\ cursor < Len(stream)
          /\ cursor' = cursor + 1
          /\ pending' = [pending EXCEPT ![stream[cursor + 1]] = c]
    /\ UNCHANGED <<stream, acked, claimed, handler, workerVars>>

BackOff(c) ==
    /\ GoLoop(c, "backoff", "check")
    /\ UNCHANGED <<slots, handler, redisVars, workerVars>>

Sigterm(c) ==
    /\ loop[c] # "down"
    /\ ~ctxDone[c]
    /\ ctxDone' = [ctxDone EXCEPT ![c] = TRUE]
    /\ UNCHANGED <<loop, slots, handler, redisVars, workerVars>>

-----------------------------------------------------------------------------
(* Controller.handleJob *)

\* The log file or the process cannot be made: os/exec starts nothing under a
\* cancelled context.
SpawnFails(c, j) ==
    /\ GoHandler(c, j, "spawn", "release")
    /\ UNCHANGED <<slots, redisVars, workerVars>>

Spawn(c, j) ==
    /\ ~ctxDone[c]
    /\ GoHandler(c, j, "spawn", "wait")
    /\ worker' = [worker EXCEPT ![j] = "running"]
    /\ starts' = [starts EXCEPT ![j] = @ + 1]
    /\ UNCHANGED <<slots, redisVars>>

\* cmd.Wait: only a zero exit status goes on to the acknowledgement.
WaitWorker(c, j) ==
    /\ \/ worker[j] = "succeeded" /\ GoHandler(c, j, "wait", "ack")
       \/ worker[j] = "failed" /\ GoHandler(c, j, "wait", "release")
    /\ UNCHANGED <<slots, redisVars, workerVars>>

\* An acknowledgement under a cancelled context fails; any may.
Ack(c, j) ==
    /\ GoHandler(c, j, "ack", "release")
    /\ \/ ~ctxDone[c] /\ XAck(j)
       \/ UNCHANGED <<pending, acked>>
    /\ UNCHANGED <<stream, cursor, claimed, slots, workerVars>>

\* The deferred release.
Release(c, j) ==
    /\ GoHandler(c, j, "release", "none")
    /\ ReleaseSlot(c)
    /\ UNCHANGED <<redisVars, workerVars>>

-----------------------------------------------------------------------------
(* The worker processes *)

\* By itself: status 0 when its machine terminated, whatever became of the
\* session; anything else for a bad configuration or a killed process.
WorkerExits(j) ==
    /\ worker[j] = "running"
    /\ \E status \in {"succeeded", "failed"} : worker' = [worker EXCEPT ![j] = status]
    /\ UNCHANGED <<starts, redisVars, controllerVars>>

\* exec.CommandContext, as long as the controller lives.
KillWorker(c, j) ==
    /\ ctxDone[c]
    /\ handler[c][j] = "wait"
    /\ worker[j] = "running"
    /\ worker' = [worker EXCEPT ![j] = "failed"]
    /\ UNCHANGED <<starts, redisVars, controllerVars>>

-----------------------------------------------------------------------------

Run(c) ==
    \/ Stop(c) \/ CheckContext(c) \/ AcquireSlot(c)
    \/ ReadMessage(c) \/ ReadMalformed(c) \/ ReadNothing(c) \/ ReadError(c)
    \/ BackOff(c)

HandleJob(c, j) ==
    SpawnFails(c, j) \/ Spawn(c, j) \/ WaitWorker(c, j) \/ Ack(c, j) \/ Release(c, j)

Next ==
    \/ \E j \in Jobs : Enqueue(j) \/ WorkerExits(j)
    \/ \E c \in Controllers : Start(c) \/ Run(c) \/ Crash(c) \/ Sigterm(c)
    \/ \E c \in Controllers, j \in Jobs : HandleJob(c, j) \/ KillWorker(c, j) \/ Claim(j, c)

Spec == Init /\ [][Next]_vars

\* The goroutines run and Redis answers again and again. No fairness for starts, stops
\* and crashes of controllers, and none for the exit of a worker: cmd.Wait has no time
\* limit, and a worker may wait for a suspended ffmpeg for ever (StopFinalises).
Fairness ==
    /\ \A c \in Controllers :
          /\ WF_vars(Run(c))
          /\ SF_vars(ReadMessage(c) \/ ReadMalformed(c))
    /\ \A c \in Controllers, j \in Jobs : WF_vars(HandleJob(c, j))

FairSpec == Spec /\ Fairness

-----------------------------------------------------------------------------
(* Safety *)

\* No meeting gets two bots for one job: a worker is started at most once for a
\* message, whatever crashes, restarts, lost replies and claims there are, since
\* every read asks for new messages only (redis_stream.go, ReadOne).
NeverStartedTwice == \A j \in Jobs : starts[j] <= 1

\* A message is acknowledged only after its worker exited cleanly, or because it
\* cannot be decoded (controller.go, handleJob).
AckedMeansDone == \A j \in acked : j \in Malformed \/ worker[j] = "succeeded"

Handling(c) == {j \in Jobs : handler[c][j] # "none"}

\* Every slot taken is held by a job in hand or by the read in progress, and
\* every one of these holds a slot: none leaks and none is given back twice.
SlotsAreHeld ==
    \A c \in Controllers :
        slots[c] = Cardinality(Handling(c)) + (IF loop[c] = "read" THEN 1 ELSE 0)

\* A message some controller got is pending or acknowledged.
Given == {j \in Jobs : pending[j] # NoOne \/ j \in acked}

Delivery == INSTANCE JobDelivery WITH position <- cursor, given <- Given, work <- worker

\* However many controllers read the group, stop, crash and lose replies, and
\* whatever is claimed, together they give out every message at most once and in
\* order, pass over none after the group was made, and run only what was given out.
ImplementsDelivery == Delivery!Spec

-----------------------------------------------------------------------------
(* Liveness, under Fairness *)

Serving(c) == loop[c] # "down" /\ ~ctxDone[c]
Waiting(j) == \E i \in 1..Len(stream) : i > cursor /\ stream[i] = j

\* All the slots of the controller are of jobs whose workers still run.
Occupied(c) ==
    Cardinality({j \in Jobs : handler[c][j] = "wait" /\ worker[j] = "running"}) = MaxParallel

\* As long as one controller keeps running, every message that waits in the group is
\* delivered, unless MaxParallel of its workers never exit: nothing else, no failed
\* read, failed worker, failed acknowledgement or empty read, takes a slot away for
\* good. One worker that hangs does not stop a controller that has another slot.
JobsGetRead ==
    \A c \in Controllers, j \in Jobs :
        <>[]Serving(c) =>
            \/ (cursor # NoGroup /\ Waiting(j)) ~> ~Waiting(j)
            \/ <>[]Occupied(c)

=============================================================================
