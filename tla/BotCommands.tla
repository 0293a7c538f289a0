----------------------------- MODULE BotCommands -----------------------------
(***************************************************************************)
(* Commands to running bots: the endpoints of the api-server that create   *)
(* v1 bots, stop, pause, resume and write into the chat (app/apiserver.go, *)
(* v2/bots.go), the Pub/Sub channels they publish on, the subscription of  *)
(* the worker (app/botworker.go) and the client that waits for a stop      *)
(* signal (storage/redis/client.go). What a paused flag does to a session  *)
(* is BotMachine's; how v2 bots are created is BotCreation's.              *)
(*                                                                         *)
(* Two names tell a bot apart: the id of its row and its bot_uuid. A       *)
(* published command is known by the moment of its PUBLISH.                *)
(***************************************************************************)
EXTENDS Naturals, Sequences

CONSTANTS
    Bots,
    V1Bots,       \* those created by POST /v1/bots
    StopClients,  \* those somebody runs SubscribeStopSignal for; no worker of the
                  \* repository does
    MaxCommands   \* bound: how many commands are published

ASSUME CommandsAssumption ==
    /\ V1Bots \subseteq Bots
    /\ StopClients \subseteq Bots
    /\ MaxCommands \in Nat

VARIABLES
    rows,       \* the rows of the table bots
    jobs,       \* the bots with a message in the stream bots:jobs
    creation,   \* how far the request that creates each bot is
    worker,     \* the subscription of each bot's worker to bot:cmd
    page,       \* the bots whose MeetingContext has a Page
    paused,     \* the bots whose MeetingContext.IsPaused is set
    inbox,      \* the channel between the subscription and its loop
    typing,     \* the chat messages whose goroutines have not returned
    stopClient, \* SubscribeStopSignal of each bot
    signals,    \* the channel between its subscription and its loop
    reason,     \* the channel it returns
    published   \* history: every command, whom it was meant for and what became of it

creationVars == <<rows, jobs, creation>>
workerVars   == <<worker, page, paused, inbox, typing>>
stopVars     == <<stopClient, signals, reason>>
commandVars  == <<creationVars, workerVars, stopVars, published>>

RowId(b) == <<"id", b>>
Uuid(b)  == <<"uuid", b>>

\* BotUUID of the job, and so of the worker's configuration.
JobName(b) == IF b \in V1Bots THEN Uuid(b) ELSE RowId(b)

\* A v2 row gets a random bot_uuid, which its job does not know.
CmdChannel(name)  == <<"bot:cmd", name>>
StopChannel(name) == <<"bot:stop", name>>

Toggles == {"pause", "resume"}

Moments == 1 .. MaxCommands

Commands == [channel : {CmdChannel(RowId(b)) : b \in Bots}
                         \cup {StopChannel(RowId(b)) : b \in Bots}
                         \cup {StopChannel(Uuid(b)) : b \in Bots},
             action : Toggles \cup {"chat", "stop"},
             bot : Bots,
             fate : {"reached", "overlooked", "missed"}]

CommandsTypeOK ==
    /\ rows \subseteq Bots
    /\ jobs \subseteq rows
    /\ creation \in [Bots -> {"none", "inserted", "accepted", "failed"}]
    /\ worker \in [Bots -> {"none", "starting", "listening", "cut", "deaf", "ended"}]
    /\ page \subseteq Bots
    /\ paused \subseteq Bots
    /\ inbox \in [Bots -> Seq(Moments)]
    /\ typing \subseteq Moments
    /\ stopClient \in [Bots -> {"none", "on", "off"}]
    /\ signals \in [Bots -> Seq(Moments)]
    /\ reason \in [Bots -> Seq(Moments)]
    /\ published \in Seq(Commands)
    /\ Len(published) <= MaxCommands

CommandsInit ==
    /\ rows = {}
    /\ jobs = {}
    /\ creation = [b \in Bots |-> "none"]
    /\ worker = [b \in Bots |-> "none"]
    /\ page = {}
    /\ paused = {}
    /\ inbox = [b \in Bots |-> <<>>]
    /\ typing = {}
    /\ stopClient = [b \in Bots |-> "none"]
    /\ signals = [b \in Bots |-> <<>>]
    /\ reason = [b \in Bots |-> <<>>]
    /\ published = <<>>

-----------------------------------------------------------------------------
(* Plausible bugs, used to show that the properties notice; not in the       *)
(* specification.                                                            *)

\* A worker that hands every command to a goroutine of its own.
HearConcurrently(b) ==
    \E i \in DOMAIN inbox[b] :
        LET n == inbox[b][i]
            action == published[n].action
        IN  /\ worker[b] \in {"listening", "cut"}
            /\ inbox' = [inbox EXCEPT ![b] = SubSeq(@, 1, i - 1) \o SubSeq(@, i + 1, Len(@))]
            /\ paused' = CASE action = "pause"  -> paused \cup {b}
                           [] action = "resume" -> paused \ {b}
                           [] OTHER             -> paused
            /\ UNCHANGED <<creationVars, worker, page, typing, stopVars, published>>

-----------------------------------------------------------------------------
(* Creation *)

\* handleV1CreateBot inserts the row; or a v2 creation has stored it. An error of
\* the insert may hide a row that was made.
InsertBot(b) ==
    /\ creation[b] = "none"
    /\ \/ rows' = rows \cup {b} /\ creation' = [creation EXCEPT ![b] = "inserted"]
       \/ /\ rows' = rows \cup {b} \/ UNCHANGED rows
          /\ creation' = [creation EXCEPT ![b] = "failed"]
    /\ UNCHANGED <<jobs, workerVars, stopVars, published>>

\* handleV1CreateBot queues the job; an error, which may hide a job that was
\* queued, is answered and the row stays.
EnqueueV1(b) ==
    /\ creation[b] = "inserted"
    /\ b \in V1Bots
    /\ \/ jobs' = jobs \cup {b} /\ creation' = [creation EXCEPT ![b] = "accepted"]
       \/ /\ jobs' = jobs \cup {b} \/ UNCHANGED jobs
          /\ creation' = [creation EXCEPT ![b] = "failed"]
    /\ UNCHANGED <<rows, workerVars, stopVars, published>>

\* handleCreate of v2 does not look at the error.
EnqueueV2(b) ==
    /\ creation[b] = "inserted"
    /\ b \notin V1Bots
    /\ creation' = [creation EXCEPT ![b] = "accepted"]
    /\ jobs' = jobs \cup {b} \/ UNCHANGED jobs
    /\ UNCHANGED <<rows, workerVars, stopVars, published>>

-----------------------------------------------------------------------------
(* Requests to a bot, and Redis *)

\* PUBLISH of a command that its client means for bot b: a copy for everyone who
\* is subscribed at this moment. Redis keeps none. A command is overlooked when
\* the bot's worker listens and it is published elsewhere. The answer is 202
\* unless Redis gives an error, whoever was reached.
Publish(b, channel, action) ==
    LET n == Len(published) + 1
        hears(d)  == worker[d] = "listening" /\ channel = CmdChannel(JobName(d))
        waits(d)  == stopClient[d] = "on" /\ channel = StopChannel(JobName(d))
        fate == IF hears(b) \/ waits(b) THEN "reached"
                ELSE IF worker[b] = "listening" THEN "overlooked"
                ELSE "missed"
    IN  /\ n \in Moments
        /\ published' = Append(published, [channel |-> channel, action |-> action,
                                           bot |-> b, fate |-> fate])
        /\ inbox' = [d \in Bots |-> IF hears(d) THEN Append(inbox[d], n) ELSE inbox[d]]
        /\ signals' = [d \in Bots |-> IF waits(d) THEN Append(signals[d], n) ELSE signals[d]]
        /\ UNCHANGED <<creationVars, worker, page, paused, typing, stopClient, reason>>

\* botCmdHandler behind pause-recording, resume-recording and chat-messages: the
\* bot of the path need not exist.
SendCommand(b, action) == Publish(b, CmdChannel(RowId(b)), action)

\* HandleLeaveBot.
LeaveBot(b) == Publish(b, StopChannel(RowId(b)), "stop")

\* handleV1StopBot, which reads the row for its bot_uuid.
StopV1(b) == b \in rows /\ Publish(b, StopChannel(Uuid(b)), "stop")

-----------------------------------------------------------------------------
(* The worker *)

\* A controller has taken the job.
StartWorker(b) ==
    /\ b \in jobs
    /\ worker[b] = "none"
    /\ worker' = [worker EXCEPT ![b] = "starting"]
    /\ UNCHANGED <<creationVars, page, paused, inbox, typing, stopVars, published>>

\* subscribeBotCommands subscribes; or fails, and is over.
Subscribe(b) ==
    /\ worker[b] = "starting"
    /\ \E s \in {"listening", "deaf"} : worker' = [worker EXCEPT ![b] = s]
    /\ UNCHANGED <<creationVars, page, paused, inbox, typing, stopVars, published>>

\* go-redis loses its connection, and subscribes again.
Connection(b) ==
    /\ \/ worker[b] = "listening" /\ worker' = [worker EXCEPT ![b] = "cut"]
       \/ worker[b] = "cut" /\ worker' = [worker EXCEPT ![b] = "listening"]
    /\ UNCHANGED <<creationVars, page, paused, inbox, typing, stopVars, published>>

\* The initialization state opens the page.
OpenPage(b) ==
    /\ worker[b] \notin {"none", "ended"}
    /\ b \notin page
    /\ page' = page \cup {b}
    /\ UNCHANGED <<creationVars, worker, paused, inbox, typing, stopVars, published>>

\* One command of the loop of subscribeBotCommands: a chat message goes to a
\* goroutine, or nowhere without a page.
Hear(b) ==
    /\ worker[b] \in {"listening", "cut"}
    /\ inbox[b] # <<>>
    /\ inbox' = [inbox EXCEPT ![b] = Tail(@)]
    /\ LET n == Head(inbox[b])
           action == published[n].action
       IN  /\ paused' = CASE action = "pause"  -> paused \cup {b}
                          [] action = "resume" -> paused \ {b}
                          [] OTHER             -> paused
           /\ typing' = IF action = "chat" /\ b \in page THEN typing \cup {n} ELSE typing
    /\ UNCHANGED <<creationVars, worker, page, stopVars, published>>

\* SendEntryMessage has typed its message, or failed; its context is not the
\* worker's.
Typed(n) ==
    /\ n \in typing
    /\ typing' = typing \ {n}
    /\ UNCHANGED <<creationVars, worker, page, paused, inbox, stopVars, published>>

\* Machine.Run has returned: the loop ends with what is left in its inbox.
EndWorker(b) ==
    /\ worker[b] \in {"starting", "listening", "cut", "deaf"}
    /\ worker' = [worker EXCEPT ![b] = "ended"]
    /\ inbox' = [inbox EXCEPT ![b] = <<>>]
    /\ UNCHANGED <<creationVars, page, paused, typing, stopVars, published>>

-----------------------------------------------------------------------------
(* SubscribeStopSignal *)

WaitForStop(b) ==
    /\ b \in StopClients
    /\ worker[b] = "starting"
    /\ stopClient[b] = "none"
    /\ \E s \in {"on", "off"} : stopClient' = [stopClient EXCEPT ![b] = s]
    /\ UNCHANGED <<creationVars, workerVars, signals, reason, published>>

\* The first signal is passed on and the channel closed.
ReadSignal(b) ==
    /\ stopClient[b] = "on"
    /\ signals[b] # <<>>
    /\ stopClient' = [stopClient EXCEPT ![b] = "off"]
    /\ signals' = [signals EXCEPT ![b] = <<>>]
    /\ reason' = [reason EXCEPT ![b] = Append(@, Head(signals[b]))]
    /\ UNCHANGED <<creationVars, workerVars, published>>

\* Its context is done, which wins over a signal that waits, or does not.
StopWaiting(b) ==
    /\ stopClient[b] = "on"
    /\ stopClient' = [stopClient EXCEPT ![b] = "off"]
    /\ signals' = [signals EXCEPT ![b] = <<>>]
    /\ UNCHANGED <<creationVars, workerVars, reason, published>>

-----------------------------------------------------------------------------

CommandsNext ==
    \/ \E b \in Bots :
           \/ InsertBot(b) \/ EnqueueV1(b) \/ EnqueueV2(b)
           \/ \E a \in Toggles \cup {"chat"} : SendCommand(b, a)
           \/ LeaveBot(b) \/ StopV1(b)
           \/ StartWorker(b) \/ Subscribe(b) \/ Connection(b) \/ OpenPage(b)
           \/ Hear(b) \/ EndWorker(b)
           \/ WaitForStop(b) \/ ReadSignal(b) \/ StopWaiting(b)
    \/ \E n \in typing : Typed(n)

CommandsSpec == CommandsInit /\ [][CommandsNext]_commandVars

-----------------------------------------------------------------------------
(* Properties *)

Told(b) == {n \in DOMAIN published : published[n].bot = b /\ published[n].action \in Toggles}

Unheard(b) == {n \in Told(b) : \E i \in DOMAIN inbox[b] : inbox[b][i] = n}

\* The last word counts: a worker whose subscription got the last pause or resume
\* published for it, and which has no other in its inbox, is paused if that one
\* was a pause, whatever was lost, answered with an error or interleaved before.
PausedAsTold ==
    \A b \in Bots : \A n \in Told(b) :
        /\ \A m \in Told(b) : m <= n
        /\ published[n].fate = "reached"
        /\ Unheard(b) = {}
        /\ worker[b] # "ended"
        => (b \in paused <=> published[n].action = "pause")

-----------------------------------------------------------------------------
(* What the docs say and the code does not do *)

\* "The running bot-worker subscribes and transitions to Cleanup. Response 202."
\* (docs/api-server.md, leave-bot): a stop published while the bot's worker listened
\* to commands reached it.
LeaveIsHeard ==
    \A n \in DOMAIN published : published[n].action = "stop" => published[n].fate # "overlooked"

=============================================================================
