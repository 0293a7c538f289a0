-------------------------- MODULE BotCommandsProofs --------------------------
(***************************************************************************)
(* What holds of BotCommands for every set of bots and any number of       *)
(* commands, proved: the last pause or resume that was heard decides, and  *)
(* the API that created a bot publishes where its worker listens.          *)
(***************************************************************************)
EXTENDS BotCommands, TLAPS

USE CommandsAssumption

-----------------------------------------------------------------------------
(* The inductive invariant, in named parts *)

\* The pauses and resumes for a bot that its worker's subscription got, and the
\* commands that its loop has not looked at.
Reached(b) == {n \in Told(b) : published[n].fate = "reached"}
Waiting(b) == {inbox[b][i] : i \in 1 .. Len(inbox[b])}

\* An inbox is a queue of published commands for its bot: in the order of their
\* publication, and what was published after one that waits, waits as well.
InboxInv ==
    \A b \in Bots :
        /\ \A i \in 1 .. Len(inbox[b]) : inbox[b][i] \in 1 .. Len(published)
        /\ \A i, j \in 1 .. Len(inbox[b]) : i < j => inbox[b][i] < inbox[b][j]
        /\ \A n \in Waiting(b), m \in Reached(b) : n < m => m \in Waiting(b)
        /\ \A n \in Waiting(b) : published[n].action \in Toggles => n \in Reached(b)

\* The last one that was heard decided.
HeardInv ==
    \A b \in Bots : \A n \in Reached(b) :
        /\ worker[b] # "ended"
        /\ n \notin Waiting(b)
        /\ \A m \in Reached(b) : n < m => m \in Waiting(b)
        => (b \in paused <=> published[n].action = "pause")

\* A request that goes on to queue its job has stored its row.
CreationInv == \A b \in Bots : creation[b] = "inserted" => b \in rows

MInv == CommandsTypeOK /\ CreationInv /\ InboxInv /\ HeardInv

-----------------------------------------------------------------------------
(* Types *)

\* A command of one of the endpoints.
IsCommand(b, channel, action) ==
    \/ channel = CmdChannel(RowId(b)) /\ action \in Toggles \cup {"chat"}
    \/ channel = StopChannel(RowId(b)) /\ action = "stop"
    \/ channel = StopChannel(Uuid(b)) /\ action = "stop"

\* The steps that publish a command, and those that do not.
PublishStep == \E b \in Bots : \E channel, action :
                   IsCommand(b, channel, action) /\ Publish(b, channel, action)
CreationStep == \E b \in Bots : InsertBot(b) \/ EnqueueV1(b) \/ EnqueueV2(b)
ProcessStep == \E b \in Bots : StartWorker(b) \/ Subscribe(b) \/ Connection(b)
StopStep == \E b \in Bots : WaitForStop(b) \/ ReadSignal(b) \/ StopWaiting(b)

LEMMA CommandCases ==
    ASSUME [CommandsNext]_commandVars
    PROVE  \/ PublishStep \/ CreationStep \/ ProcessStep \/ StopStep
           \/ \E b \in Bots : OpenPage(b) \/ Hear(b) \/ EndWorker(b)
           \/ \E n \in typing : Typed(n)
           \/ UNCHANGED commandVars
BY DEF CommandsNext, PublishStep, IsCommand, CreationStep, ProcessStep, StopStep,
       SendCommand, LeaveBot, StopV1

LEMMA CommandsInitInv == CommandsInit => MInv
BY DEF CommandsInit, MInv, CommandsTypeOK, CreationInv, InboxInv, HeardInv, Reached,
       Told, Waiting

\* What PUBLISH records and hands out.
LEMMA PublishEffect ==
    ASSUME CommandsTypeOK, NEW b \in Bots, NEW channel, NEW action,
           IsCommand(b, channel, action), Publish(b, channel, action)
    PROVE  LET n == Len(published) + 1
           IN  /\ n \in Moments
               /\ published' \in Seq(Commands)
               /\ Len(published') = n
               /\ \A m \in 1 .. Len(published) : published'[m] = published[m]
               /\ published'[n].bot = b /\ published'[n].action = action
               /\ published'[n].channel = channel
               /\ inbox' \in [Bots -> Seq(Moments)]
               /\ signals' \in [Bots -> Seq(Moments)]
               /\ \A d \in Bots : \/ inbox'[d] = inbox[d]
                                  \/ /\ inbox'[d] = Append(inbox[d], n)
                                     /\ d = b /\ published'[n].fate = "reached"
               /\ action # "stop" /\ published'[n].fate = "reached" =>
                      inbox'[b] = Append(inbox[b], n)
<1> DEFINE n == Len(published) + 1
           hears(d) == worker[d] = "listening" /\ channel = CmdChannel(JobName(d))
           waits(d) == stopClient[d] = "on" /\ channel = StopChannel(JobName(d))
           fate == IF hears(b) \/ waits(b) THEN "reached"
                   ELSE IF worker[b] = "listening" THEN "overlooked"
                   ELSE "missed"
           new == [channel |-> channel, action |-> action, bot |-> b, fate |-> fate]
<1>1. /\ n \in Moments
      /\ published' = Append(published, new)
      /\ inbox' = [d \in Bots |-> IF hears(d) THEN Append(inbox[d], n) ELSE inbox[d]]
      /\ signals' = [d \in Bots |-> IF waits(d) THEN Append(signals[d], n) ELSE signals[d]]
  BY DEF Publish
<1>2. new \in Commands
  <2>1. fate \in {"reached", "overlooked", "missed"}
    OBVIOUS
  <2>2. action \in Toggles \cup {"chat", "stop"}
    BY DEF IsCommand
  <2>3. channel \in {CmdChannel(RowId(d)) : d \in Bots}
                      \cup {StopChannel(RowId(d)) : d \in Bots}
                      \cup {StopChannel(Uuid(d)) : d \in Bots}
    BY DEF IsCommand
  <2> HIDE DEF fate
  <2>4. QED
    BY <2>1, <2>2, <2>3 DEF Commands
<1>3. action # "stop" => channel = CmdChannel(RowId(b)) /\ ~waits(b)
  BY DEF IsCommand, CmdChannel, StopChannel, Toggles
<1>4. action # "stop" /\ fate = "reached" => hears(b)
  BY <1>3
<1>5. /\ published \in Seq(Commands) /\ inbox \in [Bots -> Seq(Moments)]
      /\ signals \in [Bots -> Seq(Moments)]
  BY DEF CommandsTypeOK
<1> HIDE DEF hears, waits, fate
<1>6. new.bot = b /\ new.action = action /\ new.channel = channel /\ new.fate = fate
  OBVIOUS
<1> HIDE DEF new
<1>7. /\ published' \in Seq(Commands)
      /\ Len(published') = n
      /\ \A m \in 1 .. Len(published) : published'[m] = published[m]
      /\ published'[n] = new
  BY <1>1, <1>2, <1>5
<1>8. inbox' \in [Bots -> Seq(Moments)] /\ signals' \in [Bots -> Seq(Moments)]
  <2>1. \A d \in Bots : /\ Append(inbox[d], n) \in Seq(Moments)
                        /\ Append(signals[d], n) \in Seq(Moments)
    BY <1>1, <1>5
  <2>2. QED
    BY <1>1, <1>5, <2>1
<1>9. \A d \in Bots : hears(d) => d = b /\ fate = "reached"
  BY DEF hears, fate, IsCommand, CmdChannel, StopChannel, JobName, RowId, Uuid
<1>10. /\ \A d \in Bots : inbox'[d] = inbox[d]
                          \/ (inbox'[d] = Append(inbox[d], n) /\ hears(d))
       /\ hears(b) => inbox'[b] = Append(inbox[b], n)
  BY <1>1
<1>11. QED
  BY <1>1, <1>4, <1>6, <1>7, <1>8, <1>9, <1>10

\* Each variable stays within its type.
LEMMA CommandsTypeStep ==
    CommandsTypeOK /\ CreationInv /\ [CommandsNext]_commandVars => CommandsTypeOK'
<1> SUFFICES ASSUME CommandsTypeOK, CreationInv, [CommandsNext]_commandVars
             PROVE  CommandsTypeOK'
  OBVIOUS
<1> USE DEF CommandsTypeOK, creationVars, workerVars, stopVars
<1>1. CASE PublishStep
  <2>1. PICK b \in Bots : \E channel, action :
            IsCommand(b, channel, action) /\ Publish(b, channel, action)
    BY <1>1 DEF PublishStep
  <2>2. PICK channel, action : IsCommand(b, channel, action) /\ Publish(b, channel, action)
    BY <2>1
  <2>3. UNCHANGED <<creationVars, worker, page, paused, typing, stopClient, reason>>
    BY <2>2 DEF Publish
  <2>4. /\ published' \in Seq(Commands) /\ Len(published') \in Moments
        /\ inbox' \in [Bots -> Seq(Moments)] /\ signals' \in [Bots -> Seq(Moments)]
    BY <2>2, PublishEffect
  <2>5. QED
    BY <2>3, <2>4 DEF Moments
<1>2. CASE CreationStep
  <2>1. PICK b \in Bots : InsertBot(b) \/ EnqueueV1(b) \/ EnqueueV2(b)
    BY <1>2 DEF CreationStep
  <2>2. rows' \subseteq Bots /\ jobs' \subseteq rows'
    BY <2>1 DEF InsertBot, EnqueueV1, EnqueueV2, CreationInv
  <2>3. creation' \in [Bots -> {"none", "inserted", "accepted", "failed"}]
    BY <2>1 DEF InsertBot, EnqueueV1, EnqueueV2
  <2>4. UNCHANGED <<workerVars, stopVars, published>>
    BY <2>1 DEF InsertBot, EnqueueV1, EnqueueV2
  <2>5. QED
    BY <2>2, <2>3, <2>4
<1>3. CASE ProcessStep
  <2>1. PICK b \in Bots : StartWorker(b) \/ Subscribe(b) \/ Connection(b)
    BY <1>3 DEF ProcessStep
  <2>2. worker' \in [Bots -> {"none", "starting", "listening", "cut", "deaf", "ended"}]
    BY <2>1 DEF StartWorker, Subscribe, Connection
  <2>3. UNCHANGED <<creationVars, page, paused, inbox, typing, stopVars, published>>
    BY <2>1 DEF StartWorker, Subscribe, Connection
  <2>4. QED
    BY <2>2, <2>3
<1>4. CASE StopStep
  <2>1. PICK b \in Bots : WaitForStop(b) \/ ReadSignal(b) \/ StopWaiting(b)
    BY <1>4 DEF StopStep
  <2>2. CASE WaitForStop(b)
    BY <2>2 DEF WaitForStop
  <2>3. CASE ReadSignal(b)
    <3>1. Head(signals[b]) \in Moments
      BY <2>3 DEF ReadSignal
    <3>2. Append(reason[b], Head(signals[b])) \in Seq(Moments)
      BY <3>1
    <3>3. QED
      BY <2>3, <3>2 DEF ReadSignal
  <2>4. CASE StopWaiting(b)
    BY <2>4 DEF StopWaiting
  <2>5. QED
    BY <2>1, <2>2, <2>3, <2>4
<1>5. ASSUME NEW b \in Bots, OpenPage(b) \/ EndWorker(b)
      PROVE  CommandsTypeOK'
  <2>1. CASE OpenPage(b)
    BY <2>1 DEF OpenPage
  <2>2. CASE EndWorker(b)
    <3>1. inbox' \in [Bots -> Seq(Moments)]
      BY <2>2 DEF EndWorker
    <3>2. worker' \in [Bots -> {"none", "starting", "listening", "cut", "deaf", "ended"}]
      BY <2>2 DEF EndWorker
    <3>3. QED
      BY <2>2, <3>1, <3>2 DEF EndWorker
  <2>3. QED
    BY <1>5, <2>1, <2>2
<1>6. ASSUME NEW b \in Bots, Hear(b)
      PROVE  CommandsTypeOK'
  <2>1. Tail(inbox[b]) \in Seq(Moments) /\ Head(inbox[b]) \in Moments
    BY <1>6 DEF Hear
  <2>2. inbox' \in [Bots -> Seq(Moments)]
    BY <1>6, <2>1 DEF Hear
  <2>3. paused' \subseteq Bots
    BY <1>6 DEF Hear
  <2>4. typing' \subseteq Moments
    BY <1>6, <2>1 DEF Hear
  <2>5. QED
    BY <1>6, <2>2, <2>3, <2>4 DEF Hear
<1>7. CASE \E n \in typing : Typed(n)
  BY <1>7 DEF Typed
<1>8. CASE UNCHANGED commandVars
  BY <1>8 DEF commandVars
<1>9. QED
  BY CommandCases, <1>1, <1>2, <1>3, <1>4, <1>5, <1>6, <1>7, <1>8

-----------------------------------------------------------------------------
(* Inboxes, and what was heard *)

\* A published command changes what was published for its bot, and may wait there.
LEMMA PublishSets ==
    ASSUME CommandsTypeOK, NEW b \in Bots, NEW channel, NEW action,
           IsCommand(b, channel, action), Publish(b, channel, action), NEW d \in Bots
    PROVE  LET n == Len(published) + 1
           IN  /\ Reached(d) \subseteq 1 .. Len(published)
               /\ \A m \in Reached(d) : m \in Reached(d)' /\ published'[m] = published[m]
               /\ Reached(d)' \subseteq Reached(d) \cup {n}
               /\ \/ inbox'[d] = inbox[d] /\ n \notin Reached(d)'
                  \/ /\ inbox'[d] = Append(inbox[d], n)
                     /\ published'[n].action \in Toggles => n \in Reached(d)'
<1> DEFINE n == Len(published) + 1
<1>1. /\ Len(published') = n
      /\ \A m \in 1 .. Len(published) : published'[m] = published[m]
      /\ published'[n].bot = b /\ published'[n].action = action
      /\ published' \in Seq(Commands)
      /\ \A c \in Bots : \/ inbox'[c] = inbox[c]
                         \/ /\ inbox'[c] = Append(inbox[c], n)
                            /\ c = b /\ published'[n].fate = "reached"
      /\ action # "stop" /\ published'[n].fate = "reached" => inbox'[b] = Append(inbox[b], n)
  BY PublishEffect
<1>2. /\ DOMAIN published = 1 .. Len(published)
      /\ DOMAIN published' = 1 .. Len(published) \cup {n}
  BY <1>1 DEF CommandsTypeOK
<1>3. /\ Reached(d) \subseteq 1 .. Len(published)
      /\ \A m \in Reached(d) : m \in Reached(d)' /\ published'[m] = published[m]
      /\ Reached(d)' \subseteq Reached(d) \cup {n}
  BY <1>1, <1>2 DEF Reached, Told
<1>4. /\ n \in Reached(d)' => d = b /\ action # "stop" /\ published'[n].fate = "reached"
      /\ d = b /\ action \in Toggles /\ published'[n].fate = "reached" => n \in Reached(d)'
  BY <1>1, <1>2 DEF Reached, Told, Toggles
<1>5. QED
  BY <1>1, <1>3, <1>4

\* The commands that wait, after one more or without the first.
LEMMA WaitingOf ==
    ASSUME inbox \in [Bots -> Seq(Moments)], NEW b \in Bots
    PROVE  /\ \A n : inbox'[b] = Append(inbox[b], n) => Waiting(b)' = Waiting(b) \cup {n}
           /\ inbox[b] # <<>> /\ inbox'[b] = Tail(inbox[b]) =>
                  Waiting(b) = Waiting(b)' \cup {Head(inbox[b])}
           /\ inbox'[b] = inbox[b] => Waiting(b)' = Waiting(b)
           /\ inbox'[b] = <<>> => Waiting(b)' = {}
<1>1. ASSUME NEW n, inbox'[b] = Append(inbox[b], n)
      PROVE  Waiting(b)' = Waiting(b) \cup {n}
  <2>1. /\ Len(inbox'[b]) = Len(inbox[b]) + 1
        /\ \A i \in 1 .. Len(inbox[b]) : inbox'[b][i] = inbox[b][i]
        /\ inbox'[b][Len(inbox[b]) + 1] = n
        /\ Len(inbox[b]) \in Nat
    BY <1>1
  <2>2. 1 .. Len(inbox'[b]) = 1 .. Len(inbox[b]) \cup {Len(inbox[b]) + 1}
    BY <2>1
  <2>3. QED
    BY <2>1, <2>2 DEF Waiting
<1>2. ASSUME inbox[b] # <<>>, inbox'[b] = Tail(inbox[b])
      PROVE  Waiting(b) = Waiting(b)' \cup {Head(inbox[b])}
  <2>1. /\ Len(inbox[b]) \in Nat \ {0}
        /\ Len(inbox'[b]) = Len(inbox[b]) - 1
        /\ \A i \in 1 .. Len(inbox[b]) - 1 : inbox'[b][i] = inbox[b][i + 1]
        /\ Head(inbox[b]) = inbox[b][1]
    BY <1>2
  <2>2. \A i \in 1 .. Len(inbox[b]) : i = 1 \/ i - 1 \in 1 .. Len(inbox[b]) - 1
    BY <2>1
  <2>3. Waiting(b) \subseteq Waiting(b)' \cup {Head(inbox[b])}
    <3>1. SUFFICES ASSUME NEW i \in 1 .. Len(inbox[b]), i # 1
                   PROVE  inbox[b][i] \in Waiting(b)'
      BY <2>1 DEF Waiting
    <3>2. inbox[b][i] = inbox'[b][i - 1] /\ i - 1 \in 1 .. Len(inbox'[b])
      BY <2>1, <2>2, <3>1
    <3>3. QED
      BY <3>2 DEF Waiting
  <2>4. 1 \in 1 .. Len(inbox[b])
    BY <2>1
  <2>5. Head(inbox[b]) \in Waiting(b)
    BY <2>1, <2>4 DEF Waiting
  <2>6. Waiting(b)' \subseteq Waiting(b)
    <3>1. SUFFICES ASSUME NEW i \in 1 .. Len(inbox'[b])
                   PROVE  inbox'[b][i] \in Waiting(b)
      BY DEF Waiting
    <3>2. inbox'[b][i] = inbox[b][i + 1] /\ i + 1 \in 1 .. Len(inbox[b])
      BY <2>1
    <3>3. QED
      BY <3>2 DEF Waiting
  <2>7. QED
    BY <2>3, <2>5, <2>6
<1>3. inbox'[b] = inbox[b] => Waiting(b)' = Waiting(b)
  BY DEF Waiting
<1>4. inbox'[b] = <<>> => Waiting(b)' = {}
  BY DEF Waiting
<1>5. QED
  BY <1>1, <1>2, <1>3, <1>4

\* Steps that leave the commands, the inboxes and the pause flags alone, and start
\* no worker that has ended.
Quiet ==
    /\ UNCHANGED <<inbox, paused, published>>
    /\ \A b \in Bots : worker[b] = "ended" => worker'[b] = "ended"

LEMMA QuietSteps ==
    ASSUME CommandsTypeOK,
           \/ CreationStep \/ ProcessStep \/ StopStep
           \/ \E b \in Bots : OpenPage(b)
           \/ \E n \in typing : Typed(n)
           \/ UNCHANGED commandVars
    PROVE  Quiet
<1> USE DEF Quiet, workerVars
<1>1. CASE CreationStep
  BY <1>1 DEF CreationStep, InsertBot, EnqueueV1, EnqueueV2
<1>2. CASE ProcessStep
  <2>1. PICK b \in Bots : StartWorker(b) \/ Subscribe(b) \/ Connection(b)
    BY <1>2 DEF ProcessStep
  <2>2. worker[b] # "ended" /\ \A d \in Bots \ {b} : worker'[d] = worker[d]
    BY <2>1 DEF StartWorker, Subscribe, Connection, CommandsTypeOK
  <2>3. UNCHANGED <<inbox, paused, published>>
    BY <2>1 DEF StartWorker, Subscribe, Connection
  <2>4. QED
    BY <2>2, <2>3
<1>3. CASE StopStep
  BY <1>3 DEF StopStep, WaitForStop, ReadSignal, StopWaiting
<1>4. CASE \E b \in Bots : OpenPage(b)
  BY <1>4 DEF OpenPage
<1>5. CASE \E n \in typing : Typed(n)
  BY <1>5 DEF Typed
<1>6. CASE UNCHANGED commandVars
  BY <1>6 DEF commandVars
<1>7. QED
  BY <1>1, <1>2, <1>3, <1>4, <1>5, <1>6

\* A row is stored before its request goes on, and none is deleted.
LEMMA CreationInvStep ==
    CommandsTypeOK /\ CreationInv /\ [CommandsNext]_commandVars => CreationInv'
<1> SUFFICES ASSUME CommandsTypeOK, CreationInv, [CommandsNext]_commandVars
             PROVE  CreationInv'
  OBVIOUS
<1>1. CASE CreationStep
  BY <1>1 DEF CreationStep, InsertBot, EnqueueV1, EnqueueV2, CommandsTypeOK, CreationInv
<1>2. CASE UNCHANGED creationVars
  BY <1>2 DEF creationVars, CreationInv
<1>3. QED
  BY CommandCases, <1>1, <1>2
  DEF PublishStep, Publish, ProcessStep, StartWorker, Subscribe, Connection, StopStep,
      WaitForStop, ReadSignal, StopWaiting, OpenPage, Hear, EndWorker, Typed, commandVars

\* The inbox of one bot.
Queue(b) ==
    /\ \A i \in 1 .. Len(inbox[b]) : inbox[b][i] \in 1 .. Len(published)
    /\ \A i, j \in 1 .. Len(inbox[b]) : i < j => inbox[b][i] < inbox[b][j]
    /\ \A n \in Waiting(b), m \in Reached(b) : n < m => m \in Waiting(b)
    /\ \A n \in Waiting(b) : published[n].action \in Toggles => n \in Reached(b)

\* What was heard by one bot.
Heard(b) ==
    \A n \in Reached(b) :
        /\ worker[b] # "ended"
        /\ n \notin Waiting(b)
        /\ \A m \in Reached(b) : n < m => m \in Waiting(b)
        => (b \in paused <=> published[n].action = "pause")

\* A new command is the last, and waits if it was got.
LEMMA PublishQueues ==
    ASSUME CommandsTypeOK, NEW b \in Bots, NEW channel, NEW action,
           IsCommand(b, channel, action), Publish(b, channel, action),
           NEW d \in Bots, Queue(d), Heard(d)
    PROVE  Queue(d)' /\ Heard(d)'
<1> DEFINE n == Len(published) + 1
<1>1. /\ Reached(d) \subseteq 1 .. Len(published)
      /\ \A m \in Reached(d) : m \in Reached(d)' /\ published'[m] = published[m]
      /\ Reached(d)' \subseteq Reached(d) \cup {n}
      /\ \/ inbox'[d] = inbox[d] /\ n \notin Reached(d)'
         \/ /\ inbox'[d] = Append(inbox[d], n)
            /\ published'[n].action \in Toggles => n \in Reached(d)'
  BY PublishSets
<1>2. Len(published') = n /\ Len(published) \in Nat
  BY PublishEffect DEF CommandsTypeOK
<1>3. UNCHANGED <<worker, paused>>
  BY DEF Publish
<1>4. inbox \in [Bots -> Seq(Moments)]
  BY DEF CommandsTypeOK
<1>5. \A m \in Waiting(d) : m \in 1 .. Len(published)
  BY DEF Queue, Waiting
<1>6. CASE inbox'[d] = inbox[d] /\ n \notin Reached(d)'
  <2>1. Waiting(d)' = Waiting(d) /\ Reached(d)' = Reached(d)
    BY <1>1, <1>4, <1>6, WaitingOf
  <2>2. Queue(d)'
    <3>1. \A m \in Waiting(d) : published'[m] = published[m]
      BY <1>1, <1>5, PublishEffect
    <3>2. QED
      BY <1>2, <1>6, <2>1, <3>1 DEF Queue
  <2>3. Heard(d)'
    BY <1>1, <1>3, <2>1 DEF Heard
  <2>4. QED
    BY <2>2, <2>3
<1>7. CASE /\ inbox'[d] = Append(inbox[d], n)
           /\ published'[n].action \in Toggles => n \in Reached(d)'
  <2>1. Waiting(d)' = Waiting(d) \cup {n}
    BY <1>4, <1>7, WaitingOf
  <2>2. /\ Len(inbox'[d]) = Len(inbox[d]) + 1 /\ Len(inbox[d]) \in Nat
        /\ \A i \in 1 .. Len(inbox[d]) : inbox'[d][i] = inbox[d][i]
        /\ inbox'[d][Len(inbox[d]) + 1] = n
    BY <1>4, <1>7
  <2>3. \A i \in 1 .. Len(inbox'[d]) : inbox'[d][i] \in 1 .. Len(published')
    <3>1. SUFFICES ASSUME NEW i \in 1 .. Len(inbox'[d])
                   PROVE  inbox'[d][i] \in 1 .. Len(published')
      OBVIOUS
    <3>2. CASE i \in 1 .. Len(inbox[d])
      <4>1. inbox[d][i] \in 1 .. Len(published)
        BY <3>2 DEF Queue
      <4>2. inbox'[d][i] = inbox[d][i]
        BY <2>2, <3>2
      <4>3. QED
        BY <1>2, <4>1, <4>2
    <3>3. CASE i = Len(inbox[d]) + 1
      BY <1>2, <2>2, <3>3
    <3>4. QED
      BY <2>2, <3>2, <3>3
  <2>4. \A i, j \in 1 .. Len(inbox'[d]) : i < j => inbox'[d][i] < inbox'[d][j]
    <3>1. SUFFICES ASSUME NEW i \in 1 .. Len(inbox'[d]), NEW j \in 1 .. Len(inbox'[d]), i < j
                   PROVE  inbox'[d][i] < inbox'[d][j]
      OBVIOUS
    <3>2. i \in 1 .. Len(inbox[d]) /\ inbox'[d][i] = inbox[d][i]
      BY <2>2, <3>1
    <3>3. inbox[d][i] \in 1 .. Len(published)
      BY <3>2 DEF Queue
    <3>4. CASE j \in 1 .. Len(inbox[d])
      BY <2>2, <3>1, <3>2, <3>4 DEF Queue
    <3>5. CASE j = Len(inbox[d]) + 1
      BY <1>2, <2>2, <3>2, <3>3, <3>5
    <3>6. QED
      BY <2>2, <3>1, <3>4, <3>5
  <2>5. ASSUME NEW k \in Waiting(d)', NEW m \in Reached(d)', k < m
        PROVE  m \in Waiting(d)'
    BY <1>1, <1>2, <1>5, <2>1, <2>5 DEF Queue
  <2>6. ASSUME NEW k \in Reached(d)', worker'[d] # "ended", k \notin Waiting(d)',
               \A m \in Reached(d)' : k < m => m \in Waiting(d)'
        PROVE  d \in paused' <=> published'[k].action = "pause"
    <3>1. k \in Reached(d) /\ k \notin Waiting(d)
      BY <1>1, <2>1, <2>6
    <3>2. \A m \in Reached(d) : k < m => m \in Waiting(d)
      BY <1>1, <1>2, <2>1, <2>6
    <3>3. QED
      BY <1>1, <1>3, <2>6, <3>1, <3>2 DEF Heard
  <2>7. ASSUME NEW k \in Waiting(d)', published'[k].action \in Toggles
        PROVE  k \in Reached(d)'
    <3>1. CASE k = n
      BY <1>7, <2>7, <3>1
    <3>2. CASE k \in Waiting(d)
      <4>1. published'[k] = published[k]
        BY <1>5, <3>2, PublishEffect
      <4>2. k \in Reached(d)
        BY <2>7, <3>2, <4>1 DEF Queue
      <4>3. QED
        BY <1>1, <4>2
    <3>3. QED
      BY <2>1, <3>1, <3>2
  <2>8. QED
    BY <2>3, <2>4, <2>5, <2>6, <2>7 DEF Queue, Heard
<1>8. QED
  BY <1>1, <1>6, <1>7

\* The loop takes the first command that waits, and does what it says.
LEMMA HearQueues ==
    ASSUME CommandsTypeOK, NEW b \in Bots, Hear(b), NEW d \in Bots, Queue(d), Heard(d)
    PROVE  Queue(d)' /\ Heard(d)'
<1>1. inbox \in [Bots -> Seq(Moments)] /\ inbox[b] # <<>>
  BY DEF Hear, CommandsTypeOK
<1>t. Len(published) \in Nat
  BY DEF CommandsTypeOK
<1>2. UNCHANGED <<worker, published>> /\ Reached(d)' = Reached(d)
  BY DEF Hear, Reached, Told
<1>3. CASE d # b
  <2>1. inbox'[d] = inbox[d] /\ (d \in paused' <=> d \in paused)
    BY <1>1, <1>3 DEF Hear
  <2>2. Waiting(d)' = Waiting(d)
    BY <1>1, <2>1, WaitingOf
  <2>3. QED
    BY <1>2, <2>1, <2>2 DEF Queue, Heard
<1>4. CASE d = b
  <2> DEFINE h == Head(inbox[b])
  <2>1. inbox'[b] = Tail(inbox[b])
    BY <1>1 DEF Hear
  <2>2. Waiting(b) = Waiting(b)' \cup {h}
    BY <1>1, <2>1, WaitingOf
  <2>3. /\ Len(inbox[b]) \in Nat \ {0} /\ Len(inbox'[b]) = Len(inbox[b]) - 1
        /\ \A i \in 1 .. Len(inbox'[b]) : inbox'[b][i] = inbox[b][i + 1]
        /\ h = inbox[b][1]
    BY <1>1, <2>1
  <2>4. \A i \in 1 .. Len(inbox'[b]) : h < inbox'[b][i]
    <3>1. \A i \in 1 .. Len(inbox'[b]) : i + 1 \in 1 .. Len(inbox[b]) /\ 1 < i + 1
      BY <2>3
    <3>2. 1 \in 1 .. Len(inbox[b])
      BY <2>3
    <3>3. QED
      BY <1>4, <2>3, <3>1, <3>2 DEF Queue
  <2>5. h \in 1 .. Len(published) /\ \A m \in Waiting(b)' : h < m /\ m \in Nat
    <3>1. h \in 1 .. Len(published)
      BY <1>4, <2>3 DEF Queue
    <3>2. \A i \in 1 .. Len(inbox'[b]) : inbox'[b][i] \in Nat
      <4>1. \A i \in 1 .. Len(inbox[b]) : inbox[b][i] \in Nat
        BY <1>4, <1>t DEF Queue
      <4>2. \A i \in 1 .. Len(inbox'[b]) : i + 1 \in 1 .. Len(inbox[b])
        BY <2>3
      <4>3. QED
        BY <2>3, <4>1, <4>2
    <3>3. QED
      BY <2>4, <3>1, <3>2 DEF Waiting
  <2> HIDE DEF h
  <2>6. \A m \in Reached(b) : m \in Nat
    BY DEF Reached, Told, CommandsTypeOK
  <2>7. Queue(b)'
    <3>1. \A i \in 1 .. Len(inbox'[b]) : inbox'[b][i] \in 1 .. Len(published')
      BY <1>2, <1>4, <2>3 DEF Queue
    <3>2. \A i, j \in 1 .. Len(inbox'[b]) : i < j => inbox'[b][i] < inbox'[b][j]
      <4>1. SUFFICES ASSUME NEW i \in 1 .. Len(inbox'[b]), NEW j \in 1 .. Len(inbox'[b]),
                            i < j
                     PROVE  inbox'[b][i] < inbox'[b][j]
        OBVIOUS
      <4>2. /\ i + 1 \in 1 .. Len(inbox[b]) /\ inbox'[b][i] = inbox[b][i + 1]
            /\ j + 1 \in 1 .. Len(inbox[b]) /\ inbox'[b][j] = inbox[b][j + 1]
            /\ i + 1 < j + 1
        BY <2>3, <4>1
      <4>3. QED
        BY <1>4, <4>2 DEF Queue
    <3>3. ASSUME NEW k \in Waiting(b)', NEW m \in Reached(b)', k < m
          PROVE  m \in Waiting(b)'
      <4>1. m \in Waiting(b) /\ h < k
        BY <1>2, <1>4, <2>2, <2>5, <3>3 DEF Queue
      <4>2. m # h
        BY <1>2, <1>4, <2>5, <2>6, <3>3, <4>1
      <4>3. QED
        BY <2>2, <4>1, <4>2
    <3>4. \A k \in Waiting(b)' : published'[k].action \in Toggles => k \in Reached(b)'
      BY <1>2, <1>4, <2>2 DEF Queue
    <3>5. QED
      BY <3>1, <3>2, <3>3, <3>4 DEF Queue
  <2>8. ASSUME NEW k \in Reached(b)', worker'[b] # "ended", k \notin Waiting(b)',
               \A m \in Reached(b)' : k < m => m \in Waiting(b)'
        PROVE  b \in paused' <=> published'[k].action = "pause"
    <3>1. k \in Reached(b) /\ k \in Nat
      BY <1>2, <1>4, <2>6, <2>8
    <3>2. CASE k = h
      <4>1. published[h].action \in Toggles
        BY <3>1, <3>2 DEF Reached, Told
      <4>2. paused' = CASE published[h].action = "pause"  -> paused \cup {b}
                        [] published[h].action = "resume" -> paused \ {b}
                        [] OTHER                          -> paused
        BY DEF Hear, h
      <4>3. QED
        BY <1>2, <3>2, <4>1, <4>2 DEF Toggles
    <3>3. CASE k # h
      <4>1. k \notin Waiting(b)
        BY <2>2, <2>8, <3>3
      <4>2. \A m \in Reached(b) : k < m => m \in Waiting(b)
        BY <1>2, <1>4, <2>2, <2>8
      <4>3. h \notin Reached(b)
        <5>1. h < k => k \in Waiting(b)
          BY <1>4, <2>2, <3>1 DEF Queue
        <5>2. ASSUME h \in Reached(b), k < h
              PROVE  FALSE
          BY <1>2, <1>4, <2>5, <2>6, <2>8, <5>2
        <5>3. QED
          BY <2>5, <3>1, <3>3, <4>1, <5>1, <5>2
      <4>4. b \in paused' <=> b \in paused
        <5>1. published[h].action \notin Toggles
          BY <1>4, <2>2, <4>3 DEF Queue
        <5>2. paused' = paused
          BY <5>1 DEF Hear, h, Toggles
        <5>3. QED
          BY <5>2
      <4>5. QED
        BY <1>2, <1>4, <2>8, <3>1, <4>1, <4>2, <4>4 DEF Heard
    <3>4. QED
      BY <3>2, <3>3
  <2>9. QED
    BY <1>4, <2>7, <2>8 DEF Heard
<1>5. QED
  BY <1>3, <1>4

\* The invariant is inductive.
LEMMA CommandsStep == MInv /\ [CommandsNext]_commandVars => MInv'
<1> SUFFICES ASSUME MInv, [CommandsNext]_commandVars PROVE MInv'
  OBVIOUS
<1>1. CommandsTypeOK /\ CreationInv
  BY DEF MInv
<1>2. \A d \in Bots : Queue(d) /\ Heard(d)
  BY DEF MInv, InboxInv, HeardInv, Queue, Heard
<1>3. CommandsTypeOK' /\ CreationInv'
  BY <1>1, CommandsTypeStep, CreationInvStep
<1>4. ASSUME NEW d \in Bots PROVE Queue(d)' /\ Heard(d)'
  <2>1. CASE PublishStep
    BY <1>1, <1>2, <2>1, PublishQueues DEF PublishStep
  <2>2. ASSUME NEW b \in Bots, Hear(b) PROVE Queue(d)' /\ Heard(d)'
    BY <1>1, <1>2, <2>2, HearQueues
  <2>3. ASSUME NEW b \in Bots, EndWorker(b) PROVE Queue(d)' /\ Heard(d)'
    <3>1. inbox \in [Bots -> Seq(Moments)] /\ DOMAIN worker = Bots
      BY <1>1 DEF CommandsTypeOK
    <3>2. UNCHANGED <<paused, published>> /\ Reached(d)' = Reached(d)
      BY <2>3 DEF EndWorker, Reached, Told
    <3>3. CASE d = b
      <4>1. inbox'[d] = <<>> /\ worker'[d] = "ended"
        BY <2>3, <3>1, <3>3 DEF EndWorker
      <4>2. Waiting(d)' = {}
        BY <3>1, <4>1, WaitingOf
      <4>3. QED
        BY <4>1, <4>2 DEF Queue, Heard
    <3>4. CASE d # b
      <4>1. inbox'[d] = inbox[d] /\ worker'[d] = worker[d]
        BY <2>3, <3>1, <3>4 DEF EndWorker
      <4>2. Waiting(d)' = Waiting(d)
        BY <3>1, <4>1, WaitingOf
      <4>3. QED
        BY <1>2, <3>2, <4>1, <4>2 DEF Queue, Heard
    <3>5. QED
      BY <3>3, <3>4
  <2>4. CASE Quiet
    <3>1. /\ inbox'[d] = inbox[d] /\ Waiting(d)' = Waiting(d) /\ Reached(d)' = Reached(d)
          /\ worker'[d] # "ended" => worker[d] # "ended"
          /\ UNCHANGED <<paused, published>>
      BY <2>4 DEF Quiet, Waiting, Reached, Told
    <3>2. QED
      BY <1>2, <3>1 DEF Queue, Heard
  <2>5. QED
    BY <1>1, CommandCases, QuietSteps, <2>1, <2>2, <2>3, <2>4
<1>5. QED
  BY <1>3, <1>4 DEF MInv, InboxInv, HeardInv, Queue, Heard

THEOREM CommandsInvariance == CommandsSpec => []MInv
BY CommandsInitInv, CommandsStep, PTL DEF CommandsSpec

-----------------------------------------------------------------------------
(* The theorems *)

\* Every variable of BotCommands keeps its type.
THEOREM CommandsTypeCorrect == CommandsSpec => []CommandsTypeOK
<1>1. MInv => CommandsTypeOK
  BY DEF MInv
<1>2. QED
  BY <1>1, CommandsInvariance, PTL

\* For any number of bots and commands, the last pause or resume that was heard
\* is the one the session obeys.
THEOREM LastWordCounts == CommandsSpec => []PausedAsTold
<1>1. MInv => PausedAsTold
  <2> SUFFICES ASSUME MInv, NEW b \in Bots, NEW n \in Told(b),
                      \A m \in Told(b) : m <= n, published[n].fate = "reached",
                      Unheard(b) = {}, worker[b] # "ended"
               PROVE  b \in paused <=> published[n].action = "pause"
    BY DEF PausedAsTold
  <2>1. n \in Reached(b) /\ \A m \in Reached(b) : m \in Nat /\ m <= n
    BY DEF Reached, Told, MInv, CommandsTypeOK
  <2>2. n \notin Waiting(b)
    <3>1. DOMAIN inbox[b] = 1 .. Len(inbox[b])
      BY DEF MInv, CommandsTypeOK
    <3>2. QED
      BY <3>1 DEF Unheard, Waiting
  <2>3. \A m \in Reached(b) : ~(n < m)
    BY <2>1
  <2>4. QED
    BY <2>1, <2>2, <2>3 DEF MInv, HeardInv
<1>2. QED
  BY <1>1, CommandsInvariance, PTL

-----------------------------------------------------------------------------
(* Whom a stop reaches *)

\* Somebody waits for the stop of a bot only if SubscribeStopSignal is run for it,
\* and only then does one that was published get there.
StopInv ==
    /\ \A b \in Bots : stopClient[b] = "on" => b \in StopClients
    /\ \A n \in DOMAIN published :
           published[n].action = "stop" /\ published[n].fate = "reached" =>
               published[n].bot \in StopClients

LEMMA StopInvStep == CommandsTypeOK /\ StopInv /\ [CommandsNext]_commandVars => StopInv'
<1> SUFFICES ASSUME CommandsTypeOK, StopInv, [CommandsNext]_commandVars
             PROVE  StopInv'
  OBVIOUS
<1>1. CASE PublishStep
  <2>1. PICK b \in Bots : \E channel, action :
            IsCommand(b, channel, action) /\ Publish(b, channel, action)
    BY <1>1 DEF PublishStep
  <2>2. PICK channel, action : IsCommand(b, channel, action) /\ Publish(b, channel, action)
    BY <2>1
  <2> DEFINE n == Len(published) + 1
  <2>3. /\ published' \in Seq(Commands) /\ Len(published') = n
        /\ \A m \in 1 .. Len(published) : published'[m] = published[m]
        /\ published'[n].bot = b /\ published'[n].action = action
    BY <2>2, PublishEffect
  <2>4. /\ DOMAIN published = 1 .. Len(published)
        /\ DOMAIN published' = 1 .. Len(published) \cup {n}
    BY <2>3 DEF CommandsTypeOK
  <2>5. action = "stop" => \A d \in Bots : channel # CmdChannel(JobName(d))
    BY <2>2 DEF IsCommand, CmdChannel, StopChannel, Toggles
  <2>6. action = "stop" /\ published'[n].fate = "reached" => b \in StopClients
    <3>1. published'[n].fate =
              IF \/ worker[b] = "listening" /\ channel = CmdChannel(JobName(b))
                 \/ stopClient[b] = "on" /\ channel = StopChannel(JobName(b))
              THEN "reached"
              ELSE IF worker[b] = "listening" THEN "overlooked" ELSE "missed"
      BY <2>2 DEF Publish, CommandsTypeOK
    <3>2. QED
      BY <2>5, <3>1 DEF StopInv
  <2>7. UNCHANGED stopClient
    BY <2>2 DEF Publish
  <2>8. QED
    BY <2>3, <2>4, <2>6, <2>7 DEF StopInv
<1>2. CASE StopStep
  <2>1. UNCHANGED published
    BY <1>2 DEF StopStep, WaitForStop, ReadSignal, StopWaiting, workerVars
  <2>2. \A b \in Bots : stopClient'[b] = "on" => b \in StopClients
    BY <1>2 DEF StopStep, WaitForStop, ReadSignal, StopWaiting, CommandsTypeOK, StopInv
  <2>3. QED
    BY <2>1, <2>2 DEF StopInv
<1>3. CASE UNCHANGED <<stopClient, published>>
  BY <1>3 DEF StopInv
<1>4. QED
  BY CommandCases, <1>1, <1>2, <1>3
  DEF CreationStep, InsertBot, EnqueueV1, EnqueueV2, ProcessStep, StartWorker, Subscribe,
      Connection, OpenPage, Hear, EndWorker, Typed, stopVars, commandVars

\* A stop published by leave-bot or by v1's stop endpoint reaches only those bots
\* that SubscribeStopSignal is run for; no worker of the repository runs it, so
\* whatever the bots and the order of requests none is stopped this way.
THEOREM StopsNeedAClient ==
    CommandsSpec => [](\A n \in DOMAIN published :
                          published[n].action = "stop" /\ published[n].fate = "reached" =>
                              published[n].bot \in StopClients)
<1>1. CommandsInit => StopInv
  BY DEF CommandsInit, StopInv
<1>2. MInv => CommandsTypeOK
  BY DEF MInv
<1>3. StopInv => \A n \in DOMAIN published :
                     published[n].action = "stop" /\ published[n].fate = "reached" =>
                         published[n].bot \in StopClients
  BY DEF StopInv
<1>4. QED
  BY <1>1, <1>2, <1>3, StopInvStep, CommandsInvariance, PTL DEF CommandsSpec

=============================================================================
