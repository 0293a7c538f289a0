--------------------------- MODULE JobQueueProofs ---------------------------
(***************************************************************************)
(* What holds of JobQueue for every number of jobs, controllers and slots, *)
(* proved.                                                                 *)
(***************************************************************************)
EXTENDS JobQueue, FiniteSetTheorems, TLAPS

-----------------------------------------------------------------------------
(* The inductive invariant, in named parts *)

\* Messages are distinct, and a controller that runs has its group.
StreamInv ==
    /\ \A i, k \in 1..Len(stream) : stream[i] = stream[k] => i = k
    /\ \A c \in Controllers : loop[c] # "down" => cursor # NoGroup

Delivered(j) == \E i \in 1..Len(stream) : i <= cursor /\ stream[i] = j

\* A message not delivered yet has left no trace.
FreshInv ==
    \A j \in Jobs : ~Delivered(j) =>
        /\ starts[j] = 0
        /\ j \notin acked
        /\ \A c \in Controllers : handler[c][j] = "none"

\* One controller at most handles a job, and it is where the worker lets it be.
HandlerInv ==
    \A c \in Controllers, j \in Jobs :
        /\ handler[c][j] = "spawn" => starts[j] = 0 /\ j \notin acked
        /\ handler[c][j] = "ack" => worker[j] = "succeeded"
        /\ \A d \in Controllers :
              handler[c][j] # "none" /\ handler[d][j] # "none" => c = d

QInv ==
    /\ TypeOK
    /\ StreamInv
    /\ FreshInv
    /\ HandlerInv
    /\ NeverStartedTwice
    /\ AckedMeansDone
    /\ SlotsAreHeld

-----------------------------------------------------------------------------
(* Slots *)

\* The jobs in hand are finitely many.
LEMMA HandlingFinite ==
    ASSUME NEW c \in Controllers
    PROVE  IsFiniteSet(Handling(c)) /\ Cardinality(Handling(c)) \in Nat
<1>1. Handling(c) \in SUBSET Jobs
  BY DEF Handling
<1>2. IsFiniteSet(Handling(c))
  BY <1>1, QueueAssumption, FS_Subset
<1>3. QED
  BY <1>2, FS_CardinalityType

\* A read or a handler in hand holds a slot.
LEMMA SlotHeld ==
    ASSUME TypeOK, SlotsAreHeld, NEW c \in Controllers,
           loop[c] = "read" \/ \E j \in Jobs : handler[c][j] # "none"
    PROVE  slots[c] \in 1..MaxParallel
<1>1. Cardinality(Handling(c)) \in Nat
  BY HandlingFinite
<1>2. slots[c] \in 0..MaxParallel
  BY DEF TypeOK
<1>3. CASE loop[c] = "read"
  BY <1>1, <1>2, <1>3, QueueAssumption DEF SlotsAreHeld
<1>4. CASE \E j \in Jobs : handler[c][j] # "none"
  <2>1. Handling(c) # {}
    BY <1>4 DEF Handling
  <2>2. Cardinality(Handling(c)) # 0
    BY <2>1, HandlingFinite, FS_EmptySet
  <2>3. QED
    BY <1>1, <1>2, <2>2, QueueAssumption DEF SlotsAreHeld
<1>5. QED
  BY <1>3, <1>4

-----------------------------------------------------------------------------
(* Each part is preserved by every step *)

\* Every variable stays within its type; a release finds its slot.
LEMMA TypeStep == QInv /\ [Next]_vars => TypeOK'
<1> SUFFICES ASSUME QInv, [Next]_vars PROVE TypeOK'
  OBVIOUS
<1> USE QueueAssumption DEF QInv, TypeOK, NoGroup, HandlerStates, redisVars, controllerVars,
            workerVars
<1>1. ASSUME NEW j \in Jobs, Enqueue(j) PROVE TypeOK'
  <2>1. stream' \in Seq(Jobs) /\ Len(stream') = Len(stream) + 1
    BY <1>1 DEF Enqueue
  <2>2. QED
    BY <1>1, <2>1 DEF Enqueue
<1>2. ASSUME NEW j \in Jobs, NEW c \in Controllers, Claim(j, c) PROVE TypeOK'
  BY <1>2 DEF Claim
<1>3. ASSUME NEW c \in Controllers, Start(c) PROVE TypeOK'
  BY <1>3 DEF Start, GoLoop
<1>4. ASSUME NEW c \in Controllers, Stop(c) \/ Crash(c) PROVE TypeOK'
  <2>1. Exit(c)
    BY <1>4 DEF Stop, Crash
  <2>2. ctxDone' \in [Controllers -> BOOLEAN]
    BY <2>1, Zenon DEF Exit
  <2>3. handler' \in [Controllers -> [Jobs -> HandlerStates]]
    BY <2>1 DEF Exit
  <2>4. QED
    BY <2>1, <2>2, <2>3 DEF Exit
<1>5. ASSUME NEW c \in Controllers, CheckContext(c) \/ BackOff(c) PROVE TypeOK'
  BY <1>5 DEF CheckContext, BackOff, GoLoop
<1>6. ASSUME NEW c \in Controllers, AcquireSlot(c) PROVE TypeOK'
  BY <1>6 DEF AcquireSlot, GoLoop
<1>7. ASSUME NEW c \in Controllers, ReadMessage(c) PROVE TypeOK'
  <2>1. cursor + 1 \in 1..Len(stream)
    BY <1>7 DEF ReadMessage, GoLoop, StreamInv
  <2>2. stream[cursor + 1] \in Jobs
    BY <2>1
  <2>3. QED
    BY <1>7, <2>1, <2>2 DEF ReadMessage, GoLoop
<1>8. ASSUME NEW c \in Controllers, ReadMalformed(c) PROVE TypeOK'
  <2>1. cursor + 1 \in 1..Len(stream)
    BY <1>8 DEF ReadMalformed, GoLoop, StreamInv
  <2>2. stream[cursor + 1] \in Jobs
    BY <2>1
  <2>3. slots[c] \in 1..MaxParallel
    BY <1>8, SlotHeld DEF ReadMalformed, GoLoop
  <2>4. pending' \in [Jobs -> Controllers \cup {NoOne}]
    BY <1>8, <2>2 DEF ReadMalformed, XAck
  <2>5. acked' \subseteq Jobs
    BY <1>8, <2>2 DEF ReadMalformed, XAck
  <2>6. slots' \in [Controllers -> 0..MaxParallel]
    BY <1>8, <2>3 DEF ReadMalformed, ReleaseSlot
  <2>7. cursor' \in NoGroup..Len(stream)
    BY <1>8, <2>1 DEF ReadMalformed
  <2>8. loop' = [loop EXCEPT ![c] = "backoff"]
    BY <1>8 DEF ReadMalformed, GoLoop
  <2>9. UNCHANGED <<stream, claimed, ctxDone, handler, worker, starts>>
    BY <1>8 DEF ReadMalformed, GoLoop
  <2>10. QED
    BY <2>4, <2>5, <2>6, <2>7, <2>8, <2>9
<1>9. ASSUME NEW c \in Controllers, ReadNothing(c) PROVE TypeOK'
  <2>1. slots[c] \in 1..MaxParallel
    BY <1>9, SlotHeld DEF ReadNothing, GoLoop
  <2>2. QED
    BY <1>9, <2>1 DEF ReadNothing, GoLoop, ReleaseSlot
<1>10. ASSUME NEW c \in Controllers, ReadError(c) PROVE TypeOK'
  <2>1. slots[c] \in 1..MaxParallel
    BY <1>10, SlotHeld DEF ReadError, GoLoop
  <2>2. CASE UNCHANGED <<cursor, pending>>
    BY <1>10, <2>1, <2>2 DEF ReadError, GoLoop, ReleaseSlot
  <2>3. CASE /\ cursor < Len(stream)
             /\ cursor' = cursor + 1
             /\ pending' = [pending EXCEPT ![stream[cursor + 1]] = c]
    <3>1. cursor + 1 \in 1..Len(stream)
      BY <1>10, <2>3 DEF ReadError, GoLoop, StreamInv
    <3>2. stream[cursor + 1] \in Jobs
      BY <3>1
    <3>3. QED
      BY <1>10, <2>1, <2>3, <3>1, <3>2 DEF ReadError, GoLoop, ReleaseSlot
  <2>4. QED
    BY <1>10, <2>2, <2>3 DEF ReadError
<1>11. ASSUME NEW c \in Controllers, Sigterm(c) PROVE TypeOK'
  BY <1>11 DEF Sigterm
<1>12. ASSUME NEW c \in Controllers, NEW j \in Jobs, SpawnFails(c, j) \/ WaitWorker(c, j)
       PROVE  TypeOK'
  <2>1. CASE SpawnFails(c, j)
    BY <2>1 DEF SpawnFails, GoHandler
  <2>2. CASE WaitWorker(c, j)
    <3>1. \E to \in {"ack", "release"} : handler' = [handler EXCEPT ![c][j] = to]
      BY <2>2 DEF WaitWorker, GoHandler
    <3>2. UNCHANGED <<stream, cursor, pending, acked, claimed, loop, slots, ctxDone, worker, starts>>
      BY <2>2 DEF WaitWorker, GoHandler
    <3>3. handler' \in [Controllers -> [Jobs -> HandlerStates]]
      BY <3>1
    <3>4. QED
      BY <3>2, <3>3
  <2>3. QED
    BY <1>12, <2>1, <2>2
<1>13. ASSUME NEW c \in Controllers, NEW j \in Jobs, Spawn(c, j) PROVE TypeOK'
  BY <1>13 DEF Spawn, GoHandler
<1>14. ASSUME NEW c \in Controllers, NEW j \in Jobs, Ack(c, j) PROVE TypeOK'
  BY <1>14 DEF Ack, GoHandler, XAck
<1>15. ASSUME NEW c \in Controllers, NEW j \in Jobs, Release(c, j) PROVE TypeOK'
  <2>1. slots[c] \in 1..MaxParallel
    BY <1>15, SlotHeld DEF Release, GoHandler
  <2>2. QED
    BY <1>15, <2>1 DEF Release, GoHandler, ReleaseSlot
<1>16. ASSUME NEW j \in Jobs, WorkerExits(j) PROVE TypeOK'
  BY <1>16 DEF WorkerExits
<1>17. ASSUME NEW c \in Controllers, NEW j \in Jobs, KillWorker(c, j) PROVE TypeOK'
  BY <1>17 DEF KillWorker
<1>18. CASE UNCHANGED vars
  BY <1>18 DEF vars
<1>19. QED
  BY <1>1, <1>2, <1>3, <1>4, <1>5, <1>6, <1>7, <1>8, <1>9, <1>10, <1>11, <1>12, <1>13, <1>14,
     <1>15, <1>16, <1>17, <1>18 DEF Next, Run, HandleJob

\* The messages stay distinct, and a running controller has its group.
LEMMA StreamStep == QInv /\ [Next]_vars => StreamInv'
<1> SUFFICES ASSUME QInv, [Next]_vars PROVE StreamInv'
  OBVIOUS
<1> USE DEF QInv, StreamInv, NoGroup, redisVars, controllerVars, workerVars
<1>1. ASSUME NEW j \in Jobs, Enqueue(j) PROVE StreamInv'
  <2>1. /\ Len(stream') = Len(stream) + 1
        /\ \A i \in 1..Len(stream) : stream'[i] = stream[i]
        /\ stream'[Len(stream) + 1] = j
        /\ Len(stream) \in Nat
    BY <1>1 DEF Enqueue, TypeOK
  <2>2. \A i, k \in 1..Len(stream') : stream'[i] = stream'[k] => i = k
    BY <1>1, <2>1 DEF Enqueue
  <2>3. QED
    BY <1>1, <2>2 DEF Enqueue
<1>2. ASSUME NEW c \in Controllers, Start(c) PROVE StreamInv'
  <2>1. cursor' # NoGroup /\ stream' = stream
    BY <1>2 DEF Start, TypeOK
  <2>2. QED
    BY <2>1
<1>3. ASSUME stream' = stream,
             cursor' = cursor \/ cursor' = cursor + 1,
             \A c \in Controllers : loop'[c] # "down" => loop[c] # "down"
      PROVE  StreamInv'
  <2>1. cursor # NoGroup => cursor' # NoGroup
    BY <1>3 DEF TypeOK
  <2>2. QED
    BY <1>3, <2>1
<1>4. ASSUME NEW c \in Controllers, Run(c) \/ Crash(c) \/ Sigterm(c) PROVE StreamInv'
  <2>1. stream' = stream
    BY <1>4 DEF Run, Crash, Stop, Exit, CheckContext, AcquireSlot, ReadMessage, ReadMalformed,
                ReadNothing, ReadError, BackOff, Sigterm
  <2>2. cursor' = cursor \/ cursor' = cursor + 1
    BY <1>4 DEF Run, Crash, Stop, Exit, CheckContext, AcquireSlot, ReadMessage, ReadMalformed,
                ReadNothing, ReadError, BackOff, Sigterm
  <2>3. \A d \in Controllers : loop'[d] # "down" => loop[d] # "down"
    BY <1>4 DEF Run, Crash, Stop, Exit, CheckContext, AcquireSlot, ReadMessage, ReadMalformed,
                ReadNothing, ReadError, BackOff, Sigterm, GoLoop, TypeOK
  <2>4. QED
    BY <1>3, <2>1, <2>2, <2>3
<1>5. ASSUME NEW c \in Controllers, NEW j \in Jobs,
             HandleJob(c, j) \/ KillWorker(c, j) \/ Claim(j, c)
      PROVE  StreamInv'
  BY <1>3, <1>5 DEF HandleJob, SpawnFails, Spawn, WaitWorker, Ack, Release, GoHandler,
                    KillWorker, Claim
<1>6. ASSUME NEW j \in Jobs, WorkerExits(j) PROVE StreamInv'
  BY <1>3, <1>6 DEF WorkerExits
<1>7. CASE UNCHANGED vars
  BY <1>3, <1>7 DEF vars
<1>8. QED
  BY <1>1, <1>2, <1>4, <1>5, <1>6, <1>7 DEF Next

\* A delivered message stays delivered.
LEMMA DeliveredStays ==
    ASSUME TypeOK, TypeOK', [Next]_vars, NEW j \in Jobs, Delivered(j)
    PROVE  Delivered(j)'
<1> USE DEF Delivered, redisVars, controllerVars, workerVars
<1>1. CASE \E k \in Jobs : Enqueue(k)
  <2>1. PICK k \in Jobs : Enqueue(k)
    BY <1>1
  <2>2. PICK i \in 1..Len(stream) : i <= cursor /\ stream[i] = j
    OBVIOUS
  <2>3. i \in 1..Len(stream') /\ stream'[i] = stream[i] /\ cursor' = cursor
    BY <2>1 DEF Enqueue, TypeOK
  <2>4. QED
    BY <2>2, <2>3
<1>2. CASE stream' = stream /\ cursor' >= cursor
  <2>1. PICK i \in 1..Len(stream) : i <= cursor /\ stream[i] = j
    OBVIOUS
  <2>2. cursor \in Int /\ cursor' \in Int /\ i <= cursor'
    BY <1>2, <2>1 DEF TypeOK, NoGroup
  <2>3. QED
    BY <1>2, <2>1, <2>2
<1>3. ASSUME NEW c \in Controllers, Start(c) \/ Run(c) \/ Crash(c) \/ Sigterm(c)
      PROVE  stream' = stream /\ cursor' >= cursor
  BY <1>3 DEF Start, Run, Crash, Stop, Exit, CheckContext, AcquireSlot, ReadMessage,
              ReadMalformed, ReadNothing, ReadError, BackOff, Sigterm, TypeOK, NoGroup
<1>4. ASSUME NEW c \in Controllers, NEW k \in Jobs,
             HandleJob(c, k) \/ KillWorker(c, k) \/ Claim(k, c)
      PROVE  stream' = stream /\ cursor' >= cursor
  BY <1>4 DEF HandleJob, SpawnFails, Spawn, WaitWorker, Ack, Release, KillWorker, Claim, TypeOK,
              NoGroup
<1>5. ASSUME NEW k \in Jobs, WorkerExits(k) PROVE stream' = stream /\ cursor' >= cursor
  BY <1>5 DEF WorkerExits, TypeOK, NoGroup
<1>6. CASE UNCHANGED vars
  <2>1. stream' = stream /\ cursor' = cursor
    BY <1>6 DEF vars
  <2>2. QED
    BY <2>1
<1>7. QED
  BY <1>1, <1>2, <1>3, <1>4, <1>5, <1>6 DEF Next

\* What a read delivers is a message that was not delivered before.
LEMMA ReadIsNew ==
    ASSUME TypeOK, StreamInv, NEW c \in Controllers, loop[c] = "read", cursor < Len(stream)
    PROVE  /\ stream[cursor + 1] \in Jobs
           /\ ~Delivered(stream[cursor + 1])
<1>1. cursor + 1 \in 1..Len(stream)
  BY DEF TypeOK, StreamInv, NoGroup
<1>2. stream[cursor + 1] \in Jobs
  BY <1>1 DEF TypeOK
<1>3. \A i \in 1..Len(stream) : i <= cursor => stream[i] # stream[cursor + 1]
  BY <1>1 DEF TypeOK, StreamInv, NoGroup
<1>4. QED
  BY <1>2, <1>3 DEF Delivered

\* A message not delivered yet is left alone.
LEMMA FreshStep == QInv /\ [Next]_vars => FreshInv'
<1> DEFINE Untouched(j) == /\ starts[j] = 0
                           /\ j \notin acked
                           /\ \A c \in Controllers : handler[c][j] = "none"
<1> SUFFICES ASSUME QInv, [Next]_vars, NEW j \in Jobs, ~Delivered(j)' PROVE Untouched(j)'
  BY DEF FreshInv
<1>1. ~Delivered(j)
  BY TypeStep, DeliveredStays DEF QInv
<1>2. Untouched(j)
  BY <1>1 DEF QInv, FreshInv
<1> USE DEF redisVars, controllerVars, workerVars
<1>3. CASE \E k \in Jobs : Enqueue(k) \/ WorkerExits(k)
  BY <1>2, <1>3 DEF Enqueue, WorkerExits
<1>4. ASSUME NEW c \in Controllers, Stop(c) \/ Crash(c) PROVE Untouched(j)'
  <2>1. handler' = [handler EXCEPT ![c] = [k \in Jobs |-> "none"]]
    BY <1>4 DEF Stop, Crash, Exit
  <2>2. \A d \in Controllers : handler'[d][j] \in {handler[d][j], "none"}
    BY <2>1 DEF QInv, TypeOK
  <2>3. UNCHANGED <<starts, acked>>
    BY <1>4 DEF Stop, Crash, Exit
  <2>4. QED
    BY <1>2, <2>2, <2>3
<1>5. ASSUME NEW c \in Controllers,
             \/ Start(c) \/ CheckContext(c) \/ AcquireSlot(c) \/ ReadNothing(c) \/ ReadError(c)
             \/ BackOff(c) \/ Sigterm(c)
      PROVE  Untouched(j)'
  BY <1>2, <1>5 DEF Start, CheckContext, AcquireSlot, ReadNothing, ReadError, BackOff, Sigterm
<1>6. ASSUME NEW c \in Controllers, ReadMessage(c) \/ ReadMalformed(c) PROVE Untouched(j)'
  <2>1. loop[c] = "read" /\ cursor < Len(stream) /\ cursor' = cursor + 1 /\ stream' = stream
    BY <1>6 DEF ReadMessage, ReadMalformed, GoLoop
  <2>2. stream[cursor + 1] # j
    BY <2>1 DEF Delivered, QInv, StreamInv, TypeOK, NoGroup
  <2>3. starts' = starts
    BY <1>6 DEF ReadMessage, ReadMalformed
  <2>4. j \notin acked'
    BY <1>2, <1>6, <2>2 DEF ReadMessage, ReadMalformed, XAck
  <2>5. \A d \in Controllers : handler'[d][j] = handler[d][j]
    <3>1. CASE ReadMessage(c)
      <4>1. handler' = [handler EXCEPT ![c][stream[cursor + 1]] = "spawn"]
        BY <3>1 DEF ReadMessage
      <4>2. QED
        BY <2>2, <4>1 DEF QInv, TypeOK
    <3>2. CASE ReadMalformed(c)
      BY <3>2 DEF ReadMalformed
    <3>3. QED
      BY <1>6, <3>1, <3>2
  <2>6. QED
    BY <1>2, <2>3, <2>4, <2>5
<1>7. ASSUME NEW c \in Controllers, NEW k \in Jobs, HandleJob(c, k) PROVE Untouched(j)'
  <2>1. handler[c][k] # "none"
    BY <1>7 DEF HandleJob, SpawnFails, Spawn, WaitWorker, Ack, Release, GoHandler
  <2>2. k # j
    BY <1>2, <2>1
  <2>3. starts'[j] = starts[j] /\ (j \in acked' => j \in acked)
    <3>1. CASE Spawn(c, k)
      BY <2>2, <3>1 DEF Spawn, QInv, TypeOK
    <3>2. CASE Ack(c, k)
      BY <2>2, <3>2 DEF Ack, XAck
    <3>3. CASE SpawnFails(c, k) \/ WaitWorker(c, k) \/ Release(c, k)
      BY <3>3 DEF SpawnFails, WaitWorker, Release
    <3>4. QED
      BY <1>7, <3>1, <3>2, <3>3 DEF HandleJob
  <2>4. \A d \in Controllers : handler'[d][j] = handler[d][j]
    <3>1. PICK to : handler' = [handler EXCEPT ![c][k] = to]
      BY <1>7 DEF HandleJob, SpawnFails, Spawn, WaitWorker, Ack, Release, GoHandler
    <3>2. QED
      BY <2>2, <3>1 DEF QInv, TypeOK
  <2>5. QED
    BY <1>2, <2>3, <2>4
<1>8. ASSUME NEW c \in Controllers, NEW k \in Jobs, KillWorker(c, k) \/ Claim(k, c)
      PROVE  Untouched(j)'
  BY <1>2, <1>8 DEF KillWorker, Claim
<1>9. CASE UNCHANGED vars
  BY <1>2, <1>9 DEF vars
<1>10. QED
  BY <1>3, <1>4, <1>5, <1>6, <1>7, <1>8, <1>9 DEF Next, Run

\* A worker is started only for a message never handled before: no second start.
LEMMA OnceStep == QInv /\ [Next]_vars => NeverStartedTwice'
<1> SUFFICES ASSUME QInv, [Next]_vars PROVE NeverStartedTwice'
  OBVIOUS
<1> USE DEF QInv, NeverStartedTwice, redisVars, controllerVars, workerVars
<1>1. ASSUME NEW c \in Controllers, NEW j \in Jobs, Spawn(c, j) PROVE NeverStartedTwice'
  <2>1. starts[j] = 0 /\ starts' = [starts EXCEPT ![j] = @ + 1]
    BY <1>1 DEF Spawn, GoHandler, HandlerInv
  <2>2. QED
    BY <2>1 DEF TypeOK
<1>2. ASSUME NEW c \in Controllers,
             Start(c) \/ Run(c) \/ Crash(c) \/ Sigterm(c)
      PROVE  starts' = starts
  BY <1>2 DEF Start, Run, Crash, Stop, Exit, CheckContext, AcquireSlot, ReadMessage,
              ReadMalformed, ReadNothing, ReadError, BackOff, Sigterm
<1>3. ASSUME NEW c \in Controllers, NEW j \in Jobs,
             \/ SpawnFails(c, j) \/ WaitWorker(c, j) \/ Ack(c, j) \/ Release(c, j)
             \/ KillWorker(c, j) \/ Claim(j, c)
      PROVE  starts' = starts
  BY <1>3 DEF SpawnFails, WaitWorker, Ack, Release, KillWorker, Claim
<1>4. ASSUME NEW j \in Jobs, Enqueue(j) \/ WorkerExits(j) PROVE starts' = starts
  BY <1>4 DEF Enqueue, WorkerExits
<1>5. CASE UNCHANGED vars
  BY <1>5 DEF vars
<1>6. CASE starts' = starts
  BY <1>6
<1>7. QED
  BY <1>1, <1>2, <1>3, <1>4, <1>5, <1>6 DEF Next, HandleJob

\* One controller at most handles a message, and its handler is where the worker
\* lets it be.
LEMMA HandlerStep == QInv /\ [Next]_vars => HandlerInv'
<1> SUFFICES ASSUME QInv, [Next]_vars PROVE HandlerInv'
  OBVIOUS
<1> USE DEF QInv, HandlerInv, redisVars, controllerVars, workerVars
<1>1. ASSUME \A c \in Controllers, j \in Jobs : handler'[c][j] \in {handler[c][j], "none"},
             UNCHANGED <<starts, acked, worker>>
      PROVE  HandlerInv'
  BY <1>1
<1>2. ASSUME NEW j \in Jobs, Enqueue(j) PROVE HandlerInv'
  BY <1>1, <1>2 DEF Enqueue
<1>3. ASSUME NEW j \in Jobs, WorkerExits(j) PROVE HandlerInv'
  <2>1. worker[j] = "running" /\ UNCHANGED <<starts, acked, handler>>
    BY <1>3 DEF WorkerExits
  <2>2. \A k \in Jobs : k # j => worker'[k] = worker[k]
    BY <1>3 DEF WorkerExits, TypeOK
  <2>3. QED
    BY <2>1, <2>2
<1>4. ASSUME NEW c \in Controllers, Stop(c) \/ Crash(c) PROVE HandlerInv'
  <2>1. handler' = [handler EXCEPT ![c] = [j \in Jobs |-> "none"]]
    BY <1>4 DEF Stop, Crash, Exit
  <2>2. \A d \in Controllers, j \in Jobs : handler'[d][j] \in {handler[d][j], "none"}
    BY <2>1 DEF TypeOK
  <2>3. UNCHANGED <<starts, acked, worker>>
    BY <1>4 DEF Stop, Crash, Exit
  <2>4. QED
    BY <1>1, <2>2, <2>3
<1>5. ASSUME NEW c \in Controllers,
             \/ Start(c) \/ CheckContext(c) \/ AcquireSlot(c) \/ ReadNothing(c) \/ ReadError(c)
             \/ BackOff(c) \/ Sigterm(c)
      PROVE  HandlerInv'
  BY <1>1, <1>5 DEF Start, CheckContext, AcquireSlot, ReadNothing, ReadError, BackOff, Sigterm
<1>6. ASSUME NEW c \in Controllers, ReadMessage(c) PROVE HandlerInv'
  <2> DEFINE m == stream[cursor + 1]
  <2>1. m \in Jobs /\ ~Delivered(m)
    BY <1>6, ReadIsNew DEF ReadMessage, GoLoop
  <2>2. starts[m] = 0 /\ m \notin acked /\ \A d \in Controllers : handler[d][m] = "none"
    BY <2>1 DEF FreshInv
  <2>3. handler' = [handler EXCEPT ![c][m] = "spawn"] /\ UNCHANGED <<starts, acked, worker>>
    BY <1>6 DEF ReadMessage
  <2> HIDE DEF m
  <2>4. \A d \in Controllers, j \in Jobs : j # m => handler'[d][j] = handler[d][j]
    BY <2>3 DEF TypeOK
  <2>5. \A d \in Controllers : handler'[d][m] = IF d = c THEN "spawn" ELSE "none"
    BY <2>1, <2>2, <2>3 DEF TypeOK
  <2>6. QED
    BY <2>1, <2>2, <2>3, <2>4, <2>5
<1>7. ASSUME NEW c \in Controllers, ReadMalformed(c) PROVE HandlerInv'
  <2> DEFINE m == stream[cursor + 1]
  <2>1. m \in Jobs /\ ~Delivered(m)
    BY <1>7, ReadIsNew DEF ReadMalformed, GoLoop
  <2>2. \A d \in Controllers : handler[d][m] = "none"
    BY <2>1 DEF FreshInv
  <2>3. acked' \subseteq acked \cup {m} /\ UNCHANGED <<starts, handler, worker>>
    BY <1>7 DEF ReadMalformed, XAck
  <2> HIDE DEF m
  <2>4. QED
    BY <2>1, <2>2, <2>3
<1>8. ASSUME NEW c \in Controllers, NEW j \in Jobs, NEW to \in {"wait", "ack", "release", "none"},
             handler[c][j] # "none",
             handler' = [handler EXCEPT ![c][j] = to],
             to = "ack" => worker'[j] = "succeeded",
             \A k \in Jobs : k # j => /\ starts'[k] = starts[k] /\ worker'[k] = worker[k]
                                      /\ k \in acked' => k \in acked
      PROVE  HandlerInv'
  <2>1. \A d \in Controllers, k \in Jobs :
            (d # c \/ k # j) => handler'[d][k] = handler[d][k]
    BY <1>8 DEF TypeOK
  <2>2. handler'[c][j] = to
    BY <1>8 DEF TypeOK
  <2>3. \A d \in Controllers : d # c => handler'[d][j] = "none"
    BY <1>8, <2>1 DEF TypeOK, HandlerStates
  <2>4. QED
    BY <1>8, <2>1, <2>2, <2>3
<1>9. ASSUME NEW c \in Controllers, NEW j \in Jobs, HandleJob(c, j) PROVE HandlerInv'
  <2>1. CASE SpawnFails(c, j)
    BY <1>8, <2>1 DEF SpawnFails, GoHandler
  <2>2. CASE Spawn(c, j)
    <3>1. \A k \in Jobs : k # j => starts'[k] = starts[k] /\ worker'[k] = worker[k]
      BY <2>2 DEF Spawn, TypeOK
    <3>2. acked' = acked /\ handler[c][j] = "spawn"
      BY <2>2 DEF Spawn, GoHandler
    <3>3. /\ handler'[c][j] = "wait"
          /\ \A d \in Controllers, k \in Jobs :
                (d # c \/ k # j) => handler'[d][k] = handler[d][k]
      BY <2>2 DEF Spawn, GoHandler, TypeOK
    <3>4. \A d \in Controllers : d # c => handler'[d][j] = "none"
      BY <3>2, <3>3 DEF TypeOK, HandlerStates
    <3>5. QED
      BY <3>1, <3>2, <3>3, <3>4
  <2>3. CASE WaitWorker(c, j)
    BY <1>8, <2>3 DEF WaitWorker, GoHandler
  <2>4. CASE Ack(c, j)
    BY <1>8, <2>4 DEF Ack, GoHandler, XAck
  <2>5. CASE Release(c, j)
    BY <1>8, <2>5 DEF Release, GoHandler
  <2>6. QED
    BY <1>9, <2>1, <2>2, <2>3, <2>4, <2>5 DEF HandleJob
<1>10. ASSUME NEW c \in Controllers, NEW j \in Jobs, KillWorker(c, j) PROVE HandlerInv'
  <2>1. worker[j] = "running" /\ UNCHANGED <<starts, acked, handler>>
    BY <1>10 DEF KillWorker
  <2>2. \A k \in Jobs : k # j => worker'[k] = worker[k]
    BY <1>10 DEF KillWorker, TypeOK
  <2>3. QED
    BY <2>1, <2>2
<1>11. ASSUME NEW c \in Controllers, NEW j \in Jobs, Claim(j, c) PROVE HandlerInv'
  BY <1>1, <1>11 DEF Claim
<1>12. CASE UNCHANGED vars
  BY <1>1, <1>12 DEF vars
<1>13. QED
  BY <1>2, <1>3, <1>4, <1>5, <1>6, <1>7, <1>9, <1>10, <1>11, <1>12 DEF Next, Run

\* An acknowledged message's worker had exited, and is never started again.
LEMMA AckedStep == QInv /\ [Next]_vars => AckedMeansDone'
<1> SUFFICES ASSUME QInv, [Next]_vars PROVE AckedMeansDone'
  OBVIOUS
<1> USE DEF QInv, AckedMeansDone, redisVars, controllerVars, workerVars
<1>1. CASE UNCHANGED <<acked, worker>>
  BY <1>1
<1>2. ASSUME NEW j \in Jobs, Enqueue(j) PROVE AckedMeansDone'
  BY <1>1, <1>2 DEF Enqueue
<1>3. ASSUME NEW j \in Jobs, worker[j] = "running", acked' = acked,
             \A k \in Jobs : k # j => worker'[k] = worker[k]
      PROVE  AckedMeansDone'
  BY <1>3 DEF TypeOK
<1>4. ASSUME NEW j \in Jobs, WorkerExits(j) PROVE AckedMeansDone'
  BY <1>3, <1>4 DEF WorkerExits, TypeOK
<1>5. ASSUME NEW c \in Controllers,
             \/ Start(c) \/ Stop(c) \/ Crash(c) \/ CheckContext(c) \/ AcquireSlot(c)
             \/ ReadMessage(c) \/ ReadNothing(c) \/ ReadError(c) \/ BackOff(c) \/ Sigterm(c)
      PROVE  AckedMeansDone'
  BY <1>1, <1>5 DEF Start, Stop, Crash, Exit, CheckContext, AcquireSlot, ReadMessage,
                    ReadNothing, ReadError, BackOff, Sigterm
<1>6. ASSUME NEW c \in Controllers, ReadMalformed(c) PROVE AckedMeansDone'
  <2>1. \E m \in Malformed : acked' \subseteq acked \cup {m}
    BY <1>6 DEF ReadMalformed, XAck
  <2>2. worker' = worker
    BY <1>6 DEF ReadMalformed
  <2>3. QED
    BY <2>1, <2>2
<1>7. ASSUME NEW c \in Controllers, NEW j \in Jobs, Spawn(c, j) PROVE AckedMeansDone'
  <2>1. j \notin acked /\ acked' = acked
    BY <1>7 DEF Spawn, GoHandler, HandlerInv
  <2>2. \A k \in Jobs : k # j => worker'[k] = worker[k]
    BY <1>7 DEF Spawn, TypeOK
  <2>3. QED
    BY <2>1, <2>2 DEF TypeOK
<1>8. ASSUME NEW c \in Controllers, NEW j \in Jobs, Ack(c, j) PROVE AckedMeansDone'
  <2>1. worker[j] = "succeeded" /\ worker' = worker
    BY <1>8 DEF Ack, GoHandler, HandlerInv
  <2>2. acked' \subseteq acked \cup {j}
    BY <1>8 DEF Ack, XAck
  <2>3. QED
    BY <2>1, <2>2
<1>9. ASSUME NEW c \in Controllers, NEW j \in Jobs,
             SpawnFails(c, j) \/ WaitWorker(c, j) \/ Release(c, j) \/ Claim(j, c)
      PROVE  AckedMeansDone'
  BY <1>1, <1>9 DEF SpawnFails, WaitWorker, Release, Claim
<1>10. ASSUME NEW c \in Controllers, NEW j \in Jobs, KillWorker(c, j) PROVE AckedMeansDone'
  BY <1>3, <1>10 DEF KillWorker, TypeOK
<1>11. CASE UNCHANGED vars
  BY <1>1, <1>11 DEF vars
<1>12. QED
  BY <1>2, <1>4, <1>5, <1>6, <1>7, <1>8, <1>9, <1>10, <1>11 DEF Next, Run, HandleJob

\* A slot is taken and given back with the read or the handler it is held by.
LEMMA SlotsStep == QInv /\ [Next]_vars => SlotsAreHeld'
<1> DEFINE Reading(d) == IF loop[d] = "read" THEN 1 ELSE 0
<1> DEFINE Held(d) == slots[d] = Cardinality(Handling(d)) + Reading(d)
<1> SUFFICES ASSUME QInv, [Next]_vars, NEW d \in Controllers PROVE Held(d)'
  BY DEF SlotsAreHeld
<1>1. /\ Held(d)
      /\ slots[d] \in Nat
      /\ IsFiniteSet(Handling(d))
      /\ Cardinality(Handling(d)) \in Nat
  BY HandlingFinite, QueueAssumption DEF QInv, SlotsAreHeld, TypeOK
<1> USE DEF redisVars, controllerVars, workerVars
<1>2. CASE /\ slots'[d] = slots[d]
           /\ loop'[d] = loop[d]
           /\ \A j \in Jobs : handler'[d][j] = handler[d][j]
  <2>1. Handling(d)' = Handling(d)
    BY <1>2 DEF Handling
  <2>2. QED
    BY <1>1, <1>2, <2>1
<1>3. ASSUME NEW j \in Jobs, Enqueue(j) \/ WorkerExits(j) PROVE Held(d)'
  BY <1>2, <1>3 DEF Enqueue, WorkerExits
<1>4. ASSUME NEW c \in Controllers, Stop(c) \/ Crash(c) PROVE Held(d)'
  <2>1. Exit(c)
    BY <1>4 DEF Stop, Crash
  <2>2. CASE c = d
    <3>1. slots'[d] = 0 /\ loop'[d] = "down"
      BY <2>1, <2>2 DEF Exit, QInv, TypeOK
    <3>2. handler'[d] = [j \in Jobs |-> "none"]
      BY <2>1, <2>2 DEF Exit, QInv, TypeOK
    <3>3. Handling(d)' = {}
      BY <3>2 DEF Handling
    <3>4. QED
      BY <3>1, <3>3, FS_EmptySet
  <2>3. CASE c # d
    <3>1. slots'[d] = slots[d] /\ loop'[d] = loop[d]
      BY <2>1, <2>3 DEF Exit, QInv, TypeOK
    <3>2. handler'[d] = handler[d]
      BY <2>1, <2>3 DEF Exit, QInv, TypeOK
    <3>3. QED
      BY <1>2, <3>1, <3>2
  <2>4. QED
    BY <2>2, <2>3
<1>5. ASSUME NEW c \in Controllers, NEW from, NEW to, from # "read", to # "read",
             loop[c] = from, loop' = [loop EXCEPT ![c] = to], UNCHANGED <<slots, handler>>
      PROVE  Held(d)'
  <2>1. Handling(d)' = Handling(d)
    BY <1>5 DEF Handling
  <2>2. Reading(d)' = Reading(d)
    BY <1>5 DEF QInv, TypeOK
  <2>3. QED
    BY <1>1, <1>5, <2>1, <2>2
<1>6. ASSUME NEW c \in Controllers, Start(c) \/ CheckContext(c) \/ BackOff(c) PROVE Held(d)'
  BY <1>5, <1>6 DEF Start, CheckContext, BackOff, GoLoop
<1>7. ASSUME NEW c \in Controllers, Sigterm(c) PROVE Held(d)'
  BY <1>2, <1>7 DEF Sigterm
<1>8. ASSUME NEW c \in Controllers, AcquireSlot(c) PROVE Held(d)'
  <2>1. /\ loop[c] = "acquire"
        /\ loop' = [loop EXCEPT ![c] = "read"]
        /\ slots' = [slots EXCEPT ![c] = @ + 1]
        /\ handler' = handler
    BY <1>8 DEF AcquireSlot, GoLoop
  <2>2. Handling(d)' = Handling(d)
    BY <2>1 DEF Handling
  <2>3. CASE c = d
    BY <1>1, <2>1, <2>2, <2>3 DEF QInv, TypeOK
  <2>4. CASE c # d
    BY <1>1, <2>1, <2>2, <2>4 DEF QInv, TypeOK
  <2>5. QED
    BY <2>3, <2>4
<1>9. ASSUME NEW c \in Controllers, ReadMessage(c) PROVE Held(d)'
  <2> DEFINE m == stream[cursor + 1]
  <2>1. m \in Jobs /\ ~Delivered(m)
    BY <1>9, ReadIsNew DEF ReadMessage, GoLoop, QInv
  <2>2. handler[c][m] = "none"
    BY <2>1 DEF QInv, FreshInv
  <2>3. /\ loop[c] = "read"
        /\ loop' = [loop EXCEPT ![c] = "check"]
        /\ slots' = slots
        /\ handler' = [handler EXCEPT ![c][m] = "spawn"]
    BY <1>9 DEF ReadMessage, GoLoop
  <2> HIDE DEF m
  <2>4. CASE c = d
    <3>1. Handling(d)' = Handling(d) \cup {m} /\ m \notin Handling(d)
      BY <2>1, <2>2, <2>3, <2>4 DEF Handling, QInv, TypeOK
    <3>2. Cardinality(Handling(d)') = Cardinality(Handling(d)) + 1
      BY <1>1, <3>1, FS_AddElement
    <3>3. loop'[d] = "check" /\ loop[d] = "read"
      BY <2>3, <2>4 DEF QInv, TypeOK
    <3>4. QED
      BY <1>1, <2>3, <3>2, <3>3
  <2>5. CASE c # d
    <3>1. handler'[d] = handler[d] /\ loop'[d] = loop[d]
      BY <2>3, <2>5 DEF QInv, TypeOK
    <3>2. QED
      BY <1>2, <2>3, <3>1
  <2>6. QED
    BY <2>4, <2>5
<1>10. ASSUME NEW c \in Controllers, ReadMalformed(c) \/ ReadNothing(c) \/ ReadError(c)
       PROVE  Held(d)'
  <2>1. PICK to : /\ to # "read"
                  /\ loop[c] = "read"
                  /\ loop' = [loop EXCEPT ![c] = to]
    BY <1>10 DEF ReadMalformed, ReadNothing, ReadError, GoLoop
  <2>2. slots' = [slots EXCEPT ![c] = @ - 1] /\ handler' = handler
    BY <1>10 DEF ReadMalformed, ReadNothing, ReadError, ReleaseSlot
  <2>3. Handling(d)' = Handling(d)
    BY <2>2 DEF Handling
  <2>4. CASE c = d
    BY <1>1, <2>1, <2>2, <2>3, <2>4 DEF QInv, TypeOK
  <2>5. CASE c # d
    BY <1>1, <2>1, <2>2, <2>3, <2>5 DEF QInv, TypeOK
  <2>6. QED
    BY <2>4, <2>5
<1>11. ASSUME NEW c \in Controllers, NEW j \in Jobs,
              SpawnFails(c, j) \/ Spawn(c, j) \/ WaitWorker(c, j) \/ Ack(c, j)
       PROVE  Held(d)'
  <2>1. UNCHANGED <<slots, loop>>
    BY <1>11 DEF SpawnFails, Spawn, WaitWorker, Ack, GoHandler
  <2>2. PICK to : /\ to # "none"
                  /\ handler[c][j] # "none"
                  /\ handler' = [handler EXCEPT ![c][j] = to]
    BY <1>11 DEF SpawnFails, Spawn, WaitWorker, Ack, GoHandler
  <2>3. Handling(d)' = Handling(d)
    BY <2>2 DEF Handling, QInv, TypeOK
  <2>4. QED
    BY <1>1, <2>1, <2>3
<1>12. ASSUME NEW c \in Controllers, NEW j \in Jobs, Release(c, j) PROVE Held(d)'
  <2>1. /\ handler[c][j] = "release"
        /\ handler' = [handler EXCEPT ![c][j] = "none"]
        /\ slots' = [slots EXCEPT ![c] = @ - 1]
        /\ loop' = loop
    BY <1>12 DEF Release, GoHandler, ReleaseSlot
  <2>2. CASE c = d
    <3>1. Handling(d)' = Handling(d) \ {j} /\ j \in Handling(d)
      BY <2>1, <2>2 DEF Handling, QInv, TypeOK
    <3>2. Cardinality(Handling(d)') = Cardinality(Handling(d)) - 1
      BY <1>1, <3>1, FS_RemoveElement
    <3>3. slots'[d] = slots[d] - 1
      BY <2>1, <2>2 DEF QInv, TypeOK
    <3>4. QED
      BY <1>1, <2>1, <3>2, <3>3
  <2>3. CASE c # d
    <3>1. handler'[d] = handler[d] /\ slots'[d] = slots[d]
      BY <2>1, <2>3 DEF QInv, TypeOK
    <3>2. QED
      BY <1>2, <2>1, <3>1
  <2>4. QED
    BY <2>2, <2>3
<1>13. ASSUME NEW c \in Controllers, NEW j \in Jobs, KillWorker(c, j) \/ Claim(j, c)
       PROVE  Held(d)'
  BY <1>2, <1>13 DEF KillWorker, Claim
<1>14. CASE UNCHANGED vars
  BY <1>2, <1>14 DEF vars
<1>15. QED
  BY <1>3, <1>4, <1>6, <1>7, <1>8, <1>9, <1>10, <1>11, <1>12, <1>13, <1>14
     DEF Next, Run, HandleJob

-----------------------------------------------------------------------------
(* The theorems *)

LEMMA QInvInit == Init => QInv
<1> SUFFICES ASSUME Init PROVE QInv
  OBVIOUS
<1>1. \A c \in Controllers : Cardinality(Handling(c)) = 0
  <2> SUFFICES ASSUME NEW c \in Controllers PROVE Cardinality(Handling(c)) = 0
    OBVIOUS
  <2>1. Handling(c) = {}
    BY DEF Init, Handling
  <2>2. QED
    BY <2>1, FS_EmptySet
<1>2. SlotsAreHeld
  BY <1>1 DEF Init, SlotsAreHeld
<1>3. TypeOK
  BY QueueAssumption DEF Init, TypeOK, NoGroup, HandlerStates
<1>4. QED
  BY <1>2, <1>3 DEF Init, QInv, StreamInv, FreshInv, HandlerInv, NeverStartedTwice,
                    AckedMeansDone

\* Init, enqueues, controllers that start, read, handle, stop and crash, operators
\* and workers: QInv holds at every moment.
THEOREM QueueInvariance == Spec => []QInv
<1>1. QInv /\ [Next]_vars => QInv'
  BY TypeStep, StreamStep, FreshStep, HandlerStep, OnceStep, AckedStep, SlotsStep DEF QInv
<1>2. QED
  BY QInvInit, <1>1, PTL DEF Spec

\* Every variable has its type: no release of a slot blocks (controller.go, the
\* receives from Controller.parallel).
THEOREM QueueTypeCorrect == Spec => []TypeOK
<1>1. QInv => TypeOK
  BY DEF QInv
<1>2. QED
  BY QueueInvariance, <1>1, PTL

\* For any number of controllers and jobs, no job's worker is started twice.
THEOREM StartedOnce == Spec => []NeverStartedTwice
<1>1. QInv => NeverStartedTwice
  BY DEF QInv
<1>2. QED
  BY QueueInvariance, <1>1, PTL

\* Only a job whose worker exited cleanly, or one that cannot be decoded, is
\* acknowledged.
THEOREM AckedIsDone == Spec => []AckedMeansDone
<1>1. QInv => AckedMeansDone
  BY DEF QInv
<1>2. QED
  BY QueueInvariance, <1>1, PTL

\* The parallelism channel counts exactly the jobs in hand and the read in progress.
THEOREM SlotsHeld == Spec => []SlotsAreHeld
<1>1. QInv => SlotsAreHeld
  BY DEF QInv
<1>2. QED
  BY QueueInvariance, <1>1, PTL

\* A controller never has more than MaxParallel jobs in hand (controller.go, the
\* option MaxParallel).
THEOREM ParallelismBounded ==
    Spec => [](\A c \in Controllers : Cardinality(Handling(c)) <= MaxParallel)
<1>1. QInv => \A c \in Controllers : Cardinality(Handling(c)) <= MaxParallel
  <2> SUFFICES ASSUME QInv, NEW c \in Controllers
               PROVE  Cardinality(Handling(c)) <= MaxParallel
    OBVIOUS
  <2>1. slots[c] \in 0..MaxParallel /\ Cardinality(Handling(c)) \in Nat
    BY HandlingFinite DEF QInv, TypeOK
  <2>2. QED
    BY <2>1, QueueAssumption DEF QInv, SlotsAreHeld
<1>2. QED
  BY QueueInvariance, <1>1, PTL

-----------------------------------------------------------------------------
(* JobQueue implements JobDelivery *)

\* A job not started has no worker, and only a job some controller got, and that
\* decodes, is in hand.
WorkInv ==
    /\ \A j \in Jobs : starts[j] = 0 => worker[j] = "none"
    /\ \A c \in Controllers, j \in Jobs : handler[c][j] # "none" => j \in Given \ Malformed

DInv == QInv /\ WorkInv

\* A read gives the next message to its controller.
LEMMA ReadGives ==
    ASSUME QInv, NEW c \in Controllers,
           \/ ReadMessage(c)
           \/ ReadMalformed(c)
           \/ ReadError(c) /\ cursor' # cursor
    PROVE  /\ cursor \in 0..(Len(stream) - 1)
           /\ cursor' = cursor + 1
           /\ stream[cursor + 1] \in Jobs
           /\ Given' = Given \cup {stream[cursor + 1]}
           /\ UNCHANGED <<stream, worker, starts>>
<1> DEFINE m == stream[cursor + 1]
<1>1. /\ loop[c] = "read"
      /\ cursor < Len(stream)
      /\ cursor' = cursor + 1
      /\ UNCHANGED <<stream, worker, starts>>
  BY DEF ReadMessage, ReadMalformed, ReadError, GoLoop, workerVars
<1>2. cursor \in 0..(Len(stream) - 1)
  BY <1>1 DEF QInv, TypeOK, StreamInv, NoGroup
<1>3. m \in Jobs
  BY <1>1, ReadIsNew DEF QInv
<1>4. \/ pending' = [pending EXCEPT ![m] = c] /\ acked' = acked
      \/ pending' = [pending EXCEPT ![m] = NoOne] /\ acked' = acked \cup {m}
  BY <1>1 DEF ReadMessage, ReadMalformed, ReadError, XAck
<1> HIDE DEF m
<1>5. Given' = Given \cup {m}
  BY <1>3, <1>4, QueueAssumption DEF Given, QInv, TypeOK
<1>6. QED
  BY <1>1, <1>2, <1>3, <1>5 DEF m

\* Every other step leaves the set of messages given out alone.
LEMMA GivenFrame ==
    ASSUME DInv, [Next]_vars,
           ~ \E c \in Controllers :
                \/ ReadMessage(c)
                \/ ReadMalformed(c)
                \/ ReadError(c) /\ cursor' # cursor
    PROVE  Given' = Given
<1> USE DEF redisVars, controllerVars, workerVars
<1>1. CASE UNCHANGED <<pending, acked>>
  BY <1>1 DEF Given
<1>2. ASSUME NEW j \in Jobs, Enqueue(j) \/ WorkerExits(j) PROVE UNCHANGED <<pending, acked>>
  BY <1>2 DEF Enqueue, WorkerExits
<1>3. ASSUME NEW c \in Controllers,
             \/ Start(c) \/ Stop(c) \/ Crash(c) \/ CheckContext(c) \/ AcquireSlot(c)
             \/ ReadNothing(c) \/ BackOff(c) \/ Sigterm(c)
      PROVE  UNCHANGED <<pending, acked>>
  BY <1>3 DEF Start, Stop, Crash, Exit, CheckContext, AcquireSlot, ReadNothing, BackOff, Sigterm
<1>4. ASSUME NEW c \in Controllers, ReadError(c), cursor' = cursor
      PROVE  UNCHANGED <<pending, acked>>
  BY <1>4 DEF ReadError, DInv, QInv, TypeOK, NoGroup
<1>5. ASSUME NEW c \in Controllers, NEW j \in Jobs,
             \/ SpawnFails(c, j) \/ Spawn(c, j) \/ WaitWorker(c, j) \/ Release(c, j)
             \/ KillWorker(c, j)
      PROVE  UNCHANGED <<pending, acked>>
  BY <1>5 DEF SpawnFails, Spawn, WaitWorker, Release, KillWorker
<1>6. ASSUME NEW c \in Controllers, NEW j \in Jobs, Ack(c, j) PROVE Given' = Given
  <2>1. j \in Given
    BY <1>6 DEF Ack, GoHandler, DInv, WorkInv
  <2>2. \/ UNCHANGED <<pending, acked>>
        \/ pending' = [pending EXCEPT ![j] = NoOne] /\ acked' = acked \cup {j}
    BY <1>6 DEF Ack, XAck
  <2>3. QED
    BY <2>1, <2>2 DEF Given, DInv, QInv, TypeOK
<1>7. ASSUME NEW c \in Controllers, NEW j \in Jobs, Claim(j, c) PROVE Given' = Given
  BY <1>7, QueueAssumption DEF Claim, Given, DInv, QInv, TypeOK
<1>8. CASE UNCHANGED vars
  BY <1>1, <1>8 DEF vars
<1>9. QED
  BY <1>1, <1>2, <1>3, <1>4, <1>5, <1>6, <1>7, <1>8 DEF Next, Run, HandleJob

\* A message given out stays given out.
LEMMA GivenStays ==
    ASSUME DInv, [Next]_vars
    PROVE  Given \subseteq Given'
<1>1. CASE \E c \in Controllers :
              \/ ReadMessage(c)
              \/ ReadMalformed(c)
              \/ ReadError(c) /\ cursor' # cursor
  BY <1>1, ReadGives DEF DInv
<1>2. QED
  BY <1>1, GivenFrame

\* No step leaves a worker unaccounted for, nor takes in hand what was not given.
LEMMA WorkStep == DInv /\ [Next]_vars => WorkInv'
<1> SUFFICES ASSUME DInv, [Next]_vars PROVE WorkInv'
  OBVIOUS
<1> USE DEF redisVars, controllerVars, workerVars
<1>1. Given \subseteq Given' /\ QInv /\ TypeOK
  BY GivenStays DEF DInv, QInv
<1>2. CASE /\ UNCHANGED <<worker, starts>>
           /\ \A c \in Controllers, j \in Jobs : handler'[c][j] # "none" => handler[c][j] # "none"
  BY <1>1, <1>2 DEF DInv, WorkInv
<1>3. ASSUME NEW j \in Jobs, Enqueue(j) PROVE WorkInv'
  BY <1>2, <1>3 DEF Enqueue
<1>4. ASSUME NEW c \in Controllers,
             \/ Start(c) \/ CheckContext(c) \/ AcquireSlot(c) \/ ReadMalformed(c)
             \/ ReadNothing(c) \/ ReadError(c) \/ BackOff(c) \/ Sigterm(c)
      PROVE  WorkInv'
  BY <1>2, <1>4 DEF Start, CheckContext, AcquireSlot, ReadMalformed, ReadNothing, ReadError,
                    BackOff, Sigterm
<1>5. ASSUME NEW c \in Controllers, Stop(c) \/ Crash(c) PROVE WorkInv'
  <2>1. /\ handler' = [handler EXCEPT ![c] = [j \in Jobs |-> "none"]]
        /\ UNCHANGED <<worker, starts>>
    BY <1>5 DEF Stop, Crash, Exit
  <2>2. \A d \in Controllers, j \in Jobs : handler'[d][j] # "none" => handler[d][j] # "none"
    BY <1>1, <2>1 DEF TypeOK
  <2>3. QED
    BY <1>2, <2>1, <2>2
<1>6. ASSUME NEW c \in Controllers, ReadMessage(c) PROVE WorkInv'
  <2> DEFINE m == stream[cursor + 1]
  <2>1. /\ m \in Jobs \ Malformed
        /\ m \in Given'
        /\ UNCHANGED <<worker, starts>>
    BY <1>1, <1>6, ReadGives DEF ReadMessage
  <2>2. handler' = [handler EXCEPT ![c][m] = "spawn"]
    BY <1>6 DEF ReadMessage
  <2> HIDE DEF m
  <2>3. \A d \in Controllers, j \in Jobs :
            handler'[d][j] # "none" => j = m \/ handler[d][j] # "none"
    BY <1>1, <2>1, <2>2 DEF TypeOK
  <2>4. QED
    BY <1>1, <2>1, <2>3 DEF DInv, WorkInv
<1>7. ASSUME NEW c \in Controllers, NEW j \in Jobs, HandleJob(c, j) PROVE WorkInv'
  <2>1. handler[c][j] # "none" /\ \E to : handler' = [handler EXCEPT ![c][j] = to]
    BY <1>7 DEF HandleJob, SpawnFails, Spawn, WaitWorker, Ack, Release, GoHandler
  <2>2. \A d \in Controllers, k \in Jobs : handler'[d][k] # "none" => handler[d][k] # "none"
    BY <1>1, <2>1 DEF TypeOK
  <2>3. CASE Spawn(c, j)
    <3>1. \A k \in Jobs : starts'[k] = 0 => worker'[k] = "none"
      BY <1>1, <2>3 DEF Spawn, TypeOK, DInv, WorkInv
    <3>2. QED
      BY <1>1, <2>2, <3>1 DEF DInv, WorkInv
  <2>4. CASE UNCHANGED <<worker, starts>>
    BY <1>2, <2>2, <2>4
  <2>5. QED
    BY <1>7, <2>3, <2>4 DEF HandleJob, SpawnFails, WaitWorker, Ack, Release
<1>8. ASSUME NEW j \in Jobs, WorkerExits(j) \/ \E c \in Controllers : KillWorker(c, j)
      PROVE  WorkInv'
  <2>1. worker[j] = "running" /\ UNCHANGED <<starts, handler>>
    BY <1>8 DEF WorkerExits, KillWorker
  <2>2. \A k \in Jobs : k # j => worker'[k] = worker[k]
    BY <1>1, <1>8 DEF WorkerExits, KillWorker, TypeOK
  <2>3. QED
    BY <1>1, <2>1, <2>2 DEF DInv, WorkInv
<1>9. ASSUME NEW c \in Controllers, NEW j \in Jobs, Claim(j, c) PROVE WorkInv'
  BY <1>2, <1>9 DEF Claim
<1>10. CASE UNCHANGED vars
  BY <1>2, <1>10 DEF vars
<1>11. QED
  BY <1>3, <1>4, <1>5, <1>6, <1>7, <1>8, <1>9, <1>10 DEF Next, Run

\* A worker's step is one of its job's work, every other leaves the work alone.
LEMMA WorkRefines ==
    ASSUME DInv, NEW j \in Jobs,
           \/ WorkerExits(j)
           \/ \E c \in Controllers : Spawn(c, j) \/ KillWorker(c, j) \/ Ack(c, j),
           Given' = Given
    PROVE  [Delivery!Next]_Delivery!vars
<1> USE DEF Delivery!Next, Delivery!vars, redisVars, controllerVars, workerVars
<1>1. CASE WorkerExits(j) \/ \E c \in Controllers : KillWorker(c, j)
  <2>1. Delivery!End(j)
    BY <1>1 DEF WorkerExits, KillWorker, Delivery!End
  <2>2. QED
    BY <2>1
<1>2. ASSUME NEW c \in Controllers, Spawn(c, j) PROVE Delivery!Begin(j)
  <2>1. j \in Given \ Malformed /\ starts[j] = 0 /\ worker[j] = "none"
    BY <1>2 DEF Spawn, GoHandler, DInv, WorkInv, QInv, HandlerInv
  <2>2. QED
    BY <1>2, <2>1 DEF Spawn, Delivery!Begin
<1>3. ASSUME NEW c \in Controllers, Ack(c, j) PROVE Delivery!Ack(j) \/ UNCHANGED Delivery!vars
  <2>1. worker[j] = "succeeded"
    BY <1>3 DEF Ack, GoHandler, DInv, QInv, HandlerInv
  <2>2. UNCHANGED <<stream, cursor, worker>> /\ (acked' = acked \cup {j} \/ acked' = acked)
    BY <1>3 DEF Ack, XAck
  <2>3. QED
    BY <2>1, <2>2 DEF Delivery!Ack
<1>4. QED
  BY <1>1, <1>2, <1>3

\* What no step of the specification above does changes nothing it speaks of.
LEMMA DeliveryFrame ==
    ASSUME DInv, NEW c \in Controllers, NEW j \in Jobs,
           \/ Stop(c) \/ Crash(c) \/ CheckContext(c) \/ AcquireSlot(c) \/ ReadNothing(c)
           \/ ReadError(c) /\ cursor' = cursor
           \/ BackOff(c) \/ Sigterm(c) \/ SpawnFails(c, j) \/ WaitWorker(c, j) \/ Release(c, j)
           \/ Claim(j, c)
    PROVE  UNCHANGED <<stream, cursor, worker, acked>>
BY DEF Stop, Crash, Exit, CheckContext, AcquireSlot, ReadNothing, ReadError, BackOff, Sigterm,
       SpawnFails, WaitWorker, Release, Claim, GoLoop, GoHandler, redisVars, controllerVars,
       workerVars

\* Every step maps to a step of the delivery or leaves it unchanged.
LEMMA DeliveryStep == DInv /\ [Next]_vars => [Delivery!Next]_Delivery!vars
<1> SUFFICES ASSUME DInv, [Next]_vars PROVE [Delivery!Next]_Delivery!vars
  OBVIOUS
<1> USE DEF Delivery!Next, Delivery!vars
<1>1. ASSUME NEW c \in Controllers,
             \/ ReadMessage(c)
             \/ ReadMalformed(c)
             \/ ReadError(c) /\ cursor' # cursor
      PROVE  Delivery!Give
  <2> DEFINE m == stream[cursor + 1]
  <2>1. /\ cursor \in 0..(Len(stream) - 1)
        /\ cursor' = cursor + 1
        /\ Given' = Given \cup {m}
        /\ UNCHANGED <<stream, worker>>
    BY <1>1, ReadGives DEF DInv
  <2>2. acked' = acked \/ (m \in Malformed /\ acked' = acked \cup {m})
    BY <1>1 DEF ReadMessage, ReadMalformed, ReadError, XAck
  <2>3. QED
    BY <2>1, <2>2 DEF Delivery!Give
<1>2. CASE \E c \in Controllers :
                \/ ReadMessage(c)
                \/ ReadMalformed(c)
                \/ ReadError(c) /\ cursor' # cursor
  BY <1>1, <1>2
<1>3. CASE ~ \E c \in Controllers :
                \/ ReadMessage(c)
                \/ ReadMalformed(c)
                \/ ReadError(c) /\ cursor' # cursor
  <2>1. Given' = Given
    BY <1>3, GivenFrame
  <2>2. ASSUME NEW j \in Jobs, Enqueue(j) PROVE Delivery!Queue(j)
    BY <2>1, <2>2 DEF Enqueue, Delivery!Queue, workerVars
  <2>3. ASSUME NEW c \in Controllers, Start(c) PROVE [Delivery!Next]_Delivery!vars
    <3>1. UNCHANGED <<stream, worker, acked>>
      BY <2>3 DEF Start, workerVars
    <3>2. CASE cursor = NoGroup
      BY <2>1, <2>3, <3>1, <3>2 DEF Start, NoGroup, Delivery!Open, Delivery!Closed
    <3>3. CASE cursor # NoGroup
      BY <2>1, <2>3, <3>1, <3>3 DEF Start
    <3>4. QED
      BY <3>2, <3>3
  <2>4. ASSUME NEW j \in Jobs,
               \/ WorkerExits(j)
               \/ \E c \in Controllers : Spawn(c, j) \/ KillWorker(c, j) \/ Ack(c, j)
        PROVE  [Delivery!Next]_Delivery!vars
    BY <2>1, <2>4, WorkRefines
  <2>5. CASE UNCHANGED <<stream, cursor, worker, acked>>
    BY <2>1, <2>5
  <2>6. CASE UNCHANGED vars
    BY <2>5, <2>6 DEF vars, redisVars, workerVars
  <2>7. ASSUME NEW c \in Controllers,
               \/ Stop(c) \/ Crash(c) \/ CheckContext(c) \/ AcquireSlot(c) \/ ReadNothing(c)
               \/ ReadError(c) \/ BackOff(c) \/ Sigterm(c)
        PROVE  UNCHANGED <<stream, cursor, worker, acked>>
    <3>1. ~(ReadError(c) /\ cursor' # cursor)
      BY <1>3
    <3>2. QED
      BY <2>7, <3>1, DeliveryFrame DEF Stop, Crash, Exit, CheckContext, AcquireSlot,
         ReadNothing, ReadError, BackOff, Sigterm, GoLoop, redisVars, workerVars, DInv, QInv, TypeOK, NoGroup
  <2>8. ASSUME NEW c \in Controllers, NEW j \in Jobs,
               SpawnFails(c, j) \/ WaitWorker(c, j) \/ Release(c, j) \/ Claim(j, c)
        PROVE  UNCHANGED <<stream, cursor, worker, acked>>
    BY <2>8, DeliveryFrame
  <2>9. QED
    BY <1>3, <2>2, <2>3, <2>4, <2>5, <2>6, <2>7, <2>8 DEF Next, Run, HandleJob
<1>4. QED
  BY <1>2, <1>3

\* For every number of controllers, jobs and slots, the queue gives each message
\* out at most once and in order, and runs only what it gave out.
THEOREM DeliveryImplemented == Spec => ImplementsDelivery
<1>1. Init => DInv
  BY QInvInit DEF Init, DInv, WorkInv
<1>2. DInv /\ [Next]_vars => DInv'
  BY TypeStep, StreamStep, FreshStep, HandlerStep, OnceStep, AckedStep, SlotsStep, WorkStep
  DEF DInv, QInv
<1>3. Init => Delivery!Init
  BY DEF Init, Delivery!Init, Delivery!Closed, NoGroup, Given
<1>4. QED
  BY <1>1, <1>2, <1>3, DeliveryStep, PTL DEF Spec, ImplementsDelivery, Delivery!Spec

=============================================================================
