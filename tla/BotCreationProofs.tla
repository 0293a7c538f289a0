-------------------------- MODULE BotCreationProofs --------------------------
(***************************************************************************)
(* What holds of BotCreation for any number of calls, keys, bodies and     *)
(* meetings, proved.                                                       *)
(***************************************************************************)
EXTENDS BotCreation, TLAPS

-----------------------------------------------------------------------------
(* The inductive invariant, in named parts *)

BeforeHandler == {"idle", "begin", "lookup"}
InHandler     == {"check", "insert", "outbox", "enqueue", "lock", "complete"}

\* Exactly the calls past the middleware have run the handler, and each of them
\* holds the row of its key.
RanInv ==
    /\ \A c \in Calls : pc[c] \in InHandler => c \in ran
    /\ \A c \in ran : /\ pc[c] \notin BeforeHandler
                      /\ request[c].key # NoKey => requestHash[request[c].key] = request[c].body

\* A row was inserted by a handler, after its insert, alone for its meeting.
RowInv ==
    /\ \A b \in bots : b \in ran /\ pc[b] \notin {"check", "insert"}
    /\ \A b, d \in bots :
          request[b].meeting = request[d].meeting /\ request[b].meeting # NoMeeting => b = d
    /\ \A c \in Calls : pc[c] \in {"outbox", "enqueue", "lock"} => c \in bots
    /\ \A c \in Calls : pc[c] = "enqueue" => ~request[c].scheduled
    /\ \A b \in jobs \cup outbox : b \in bots
    /\ \A b \in jobs : ~request[b].scheduled
    /\ \A m \in Meetings : dedup[m] # NoBot =>
          dedup[m] \in bots /\ request[dedup[m]].meeting = m

\* What a handler answers names the row of its own meeting.
AnswerInv ==
    /\ \A c \in Calls : pc[c] \notin {"complete", "answered", "lost"} => answer[c] = NoAnswer
    /\ \A c \in Calls : pc[c] = "lost" /\ c \notin ran => answer[c] = NoAnswer
    /\ \A c \in ran : answer[c] # NoAnswer /\ answer[c].bot # NoBot =>
          /\ answer[c].bot \in bots
          /\ request[answer[c].bot].meeting = request[c].meeting

\* The response kept for a key is the one its handler gave.
ResponseInv ==
    \A k \in Keys : response[k] # NoAnswer =>
        \E d \in ran : /\ request[d].key = k
                       /\ request[d].body = requestHash[k]
                       /\ answer[d] = response[k]

CInv ==
    /\ TypeOK
    /\ RanInv
    /\ RowInv
    /\ AnswerInv
    /\ ResponseInv
    /\ HandlerRunsOncePerKey
    /\ ReplayIsOriginal

-----------------------------------------------------------------------------
(* Facts about answers and requests *)

LEMMA AnswerFacts ==
    /\ \A b \in Calls : Created(b) \in Answers /\ Existing(b) \in Answers
    /\ Invalid \in Answers /\ Failed \in Answers /\ Mismatch \in Answers /\ InFlight \in Answers
    /\ \A b \in Calls : Created(b).bot = b /\ Existing(b).bot = b
    /\ Invalid.bot = NoBot /\ Failed.bot = NoBot /\ Mismatch.bot = NoBot /\ InFlight.bot = NoBot
    /\ {Failed.status, Mismatch.status, InFlight.status}
          \cap {"created", "existing", "invalid"} = {}
    /\ \A a \in Answers : a # NoAnswer /\ a.bot \in Calls \cup {NoBot}
    /\ \A a \in Answers : a.bot # NoBot => a.status \in {"created", "existing"}
<1>1. \A a \in Answers : a.bot \in Calls \cup {NoBot}
  BY DEF Answers, Created, Existing, Invalid, Failed, Mismatch, InFlight
<1>2. ASSUME NEW a \in Answers, a.bot # NoBot PROVE a.status \in {"created", "existing"}
  <2>1. CASE \E b \in Calls : a = Created(b) \/ a = Existing(b)
    BY <2>1 DEF Created, Existing
  <2>2. CASE a \in {Invalid, Failed, Mismatch, InFlight}
    BY <1>2, <2>2 DEF Invalid, Failed, Mismatch, InFlight
  <2>3. QED
    BY <2>1, <2>2 DEF Answers
<1>3. QED
  BY <1>1, <1>2, AnswerAssumption DEF Answers, Created, Existing, Invalid, Failed, Mismatch, InFlight

LEMMA RequestFacts ==
    ASSUME NEW r \in Requests
    PROVE  /\ r.key \in Keys \cup {NoKey}
           /\ r.body \in Bodies /\ r.body # NoBody
           /\ r.meeting \in Meetings \cup {NoMeeting}
           /\ r.scheduled \in BOOLEAN
           /\ r.valid \in BOOLEAN
BY RequestAssumption

-----------------------------------------------------------------------------
(* Each part is preserved by every step *)

\* Every variable stays within its type, and no call ends without an answer.
LEMMA TypeStep == TypeOK /\ [Next]_vars => TypeOK'
<1> SUFFICES ASSUME TypeOK, [Next]_vars PROVE TypeOK'
  OBVIOUS
<1> USE AnswerFacts DEF TypeOK, tables, redis, callVars, Points
<1>1. ASSUME NEW c \in Calls, Arrive(c) PROVE TypeOK'
  BY <1>1 DEF Arrive
<1>2. ASSUME NEW c \in Calls, PassThrough(c) PROVE TypeOK'
  BY <1>2 DEF PassThrough, Goto
<1>3. ASSUME NEW c \in Calls, BeginRequest(c) PROVE TypeOK'
  <2>1. /\ request[c] \in Requests /\ request[c].key \in Keys
        /\ UNCHANGED <<request, gone, response, bots, outbox, jobs, dedup>>
    BY <1>3 DEF BeginRequest, Goto
  <2>2. requestHash' \in [Keys -> Bodies \cup {NoBody}] /\ ran' \subseteq Calls
    BY <1>3, <2>1, RequestFacts DEF BeginRequest
  <2>3. \/ pc' = [pc EXCEPT ![c] = "answered"] /\ answer' = [answer EXCEPT ![c] = Failed]
        \/ pc' = [pc EXCEPT ![c] = "check"] /\ answer' = answer
        \/ pc' = [pc EXCEPT ![c] = "lookup"] /\ answer' = answer
    BY <1>3 DEF BeginRequest, Goto, Answer
  <2>4. QED
    BY <2>1, <2>2, <2>3
<1>4. ASSUME NEW c \in Calls, Lookup(c) PROVE TypeOK'
  <2>1. /\ pc' = [pc EXCEPT ![c] = "answered"]
        /\ UNCHANGED <<request, gone, ran, requestHash, response, bots, outbox, jobs, dedup>>
    BY <1>4 DEF Lookup, Goto
  <2>2. response[request[c].key] \in Answers \cup {NoAnswer}
    BY <1>4 DEF Lookup, Goto
  <2>3. PICK a \in Answers : answer' = [answer EXCEPT ![c] = a]
    BY <1>4, <2>2 DEF Lookup, Answer
  <2>4. answer' \in [Calls -> Answers \cup {NoAnswer}]
    BY <2>3
  <2>5. answer'[c] \in Answers /\ \A d \in Calls : d # c => answer'[d] = answer[d]
    BY <2>3
  <2>6. /\ pc' \in [Calls -> Points]
        /\ pc'[c] = "answered" /\ \A d \in Calls : d # c => pc'[d] = pc[d]
        /\ request[c] \in Requests
    BY <1>4, <2>1 DEF Lookup, Goto
  <2>7. QED
    BY <2>1, <2>4, <2>5, <2>6
<1>5. ASSUME NEW c \in Calls, CompleteRequest(c) PROVE TypeOK'
  BY <1>5 DEF CompleteRequest, Goto
<1>6. ASSUME NEW c \in Calls, ValidateFails(c) PROVE TypeOK'
  BY <1>6 DEF ValidateFails, Goto, Answer
<1>7. ASSUME NEW c \in Calls, CheckDedup(c) PROVE TypeOK'
  BY <1>7 DEF CheckDedup, Goto, Answer
<1>8. ASSUME NEW c \in Calls, InsertV2(c) PROVE TypeOK'
  BY <1>8 DEF InsertV2, Goto, Answer
<1>9. ASSUME NEW c \in Calls, AppendEvent(c) PROVE TypeOK'
  BY <1>9 DEF AppendEvent, Goto, MaybeAdd
<1>10. ASSUME NEW c \in Calls, Enqueue(c) PROVE TypeOK'
  BY <1>10 DEF Enqueue, Goto, MaybeAdd
<1>11. ASSUME NEW c \in Calls, LockDedup(c) PROVE TypeOK'
  BY <1>11 DEF LockDedup, Goto, Answer
<1>12. ASSUME NEW c \in Calls, HangUp(c) PROVE TypeOK'
  BY <1>12 DEF HangUp
<1>13. ASSUME NEW c \in Calls, Crash(c) PROVE TypeOK'
  BY <1>13 DEF Crash, InProgress
<1>14. ASSUME NEW m \in Meetings, ExpireDedup(m) PROVE TypeOK'
  BY <1>14 DEF ExpireDedup
<1>15. CASE UNCHANGED vars
  BY <1>15 DEF vars
<1>16. QED
  BY <1>1, <1>2, <1>3, <1>4, <1>5, <1>6, <1>7, <1>8, <1>9, <1>10, <1>11, <1>12, <1>13, <1>14,
     <1>15 DEF Next, Serve

\* A handler is started for a key without a row only, and rows stay.
LEMMA RanStep == CInv /\ [Next]_vars => RanInv' /\ HandlerRunsOncePerKey'
<1> SUFFICES ASSUME CInv, [Next]_vars PROVE RanInv' /\ HandlerRunsOncePerKey'
  OBVIOUS
<1> USE DEF CInv, RanInv, HandlerRunsOncePerKey, TypeOK, tables, redis, callVars, BeforeHandler,
            InHandler
<1> DEFINE Goal == RanInv' /\ HandlerRunsOncePerKey'
<1>1. ASSUME NEW c \in Calls, Arrive(c) PROVE Goal
  <2>1. pc[c] = "idle" /\ c \notin ran /\ UNCHANGED <<ran, requestHash>>
    BY <1>1 DEF Arrive
  <2>2. pc'[c] = "begin" /\ \A d \in Calls : d # c => pc'[d] = pc[d] /\ request'[d] = request[d]
    BY <1>1 DEF Arrive
  <2>3. QED
    BY <2>1, <2>2
<1>2. ASSUME NEW c \in Calls, PassThrough(c) PROVE Goal
  <2>1. /\ pc' = [pc EXCEPT ![c] = "check"] /\ ran' = ran \cup {c}
        /\ request[c].key = NoKey /\ UNCHANGED <<request, requestHash>>
    BY <1>2 DEF PassThrough, Goto
  <2>2. QED
    BY <2>1
<1>3. ASSUME NEW c \in Calls, BeginRequest(c) PROVE Goal
  <2>1. CASE /\ requestHash[request[c].key] = NoBody
             /\ requestHash' = [requestHash EXCEPT ![request[c].key] = request[c].body]
    <3>1. /\ pc[c] = "begin" /\ request[c] \in Requests /\ request[c].key \in Keys
          /\ UNCHANGED request
      BY <1>3 DEF BeginRequest, Goto
    <3>2. \A d \in ran : request[d].key # request[c].key
      BY <2>1, <3>1, RequestFacts, RequestAssumption
    <3>3. \/ pc' = [pc EXCEPT ![c] = "check"] /\ ran' = ran \cup {c}
          \/ pc' = [pc EXCEPT ![c] = "answered"] /\ ran' = ran
      BY <1>3, <2>1, <3>1, RequestFacts, RequestAssumption DEF BeginRequest, Goto
    <3>4. \A d \in ran : request[d].key # NoKey =>
              requestHash'[request[d].key] = requestHash[request[d].key]
      BY <2>1, <3>2, RequestFacts
    <3>5. requestHash'[request[c].key] = request[c].body
      BY <2>1, <3>1
    <3>6. QED
      BY <3>1, <3>2, <3>3, <3>4, <3>5
  <2>2. CASE UNCHANGED <<requestHash, ran>>
    <3>1. pc[c] = "begin" /\ UNCHANGED request
      BY <1>3 DEF BeginRequest, Goto
    <3>2. \/ pc' = [pc EXCEPT ![c] = "lookup"]
          \/ pc' = [pc EXCEPT ![c] = "answered"]
      BY <1>3, <2>2, RequestFacts, RequestAssumption DEF BeginRequest, Goto
    <3>3. QED
      BY <2>2, <3>1, <3>2
  <2>3. QED
    BY <1>3, <2>1, <2>2 DEF BeginRequest
<1>4. ASSUME NEW c \in Calls, NEW to, to \notin BeforeHandler,
             to \in InHandler => c \in ran,
             pc' = [pc EXCEPT ![c] = to],
             UNCHANGED <<request, requestHash, ran>>
      PROVE  Goal
  BY <1>4
<1>5. ASSUME NEW c \in Calls,
             \/ Lookup(c) \/ CompleteRequest(c) \/ ValidateFails(c) \/ CheckDedup(c)
             \/ AppendEvent(c) \/ Enqueue(c) \/ LockDedup(c)
      PROVE  Goal
  BY <1>4, <1>5 DEF Lookup, CompleteRequest, ValidateFails, CheckDedup, AppendEvent, Enqueue,
                    LockDedup, Goto
<1>6. ASSUME NEW c \in Calls, InsertV2(c) PROVE Goal
  BY <1>4, <1>6 DEF InsertV2, Goto
<1>7. ASSUME NEW c \in Calls, Crash(c) PROVE Goal
  BY <1>4, <1>7 DEF Crash
<1>8. ASSUME NEW c \in Calls, HangUp(c) PROVE Goal
  BY <1>8 DEF HangUp
<1>9. ASSUME NEW m \in Meetings, ExpireDedup(m) PROVE Goal
  BY <1>9 DEF ExpireDedup
<1>10. CASE UNCHANGED vars
  BY <1>10 DEF vars
<1>11. QED
  BY <1>1, <1>2, <1>3, <1>5, <1>6, <1>7, <1>8, <1>9, <1>10 DEF Next, Serve

\* Rows come from inserts that met no other row of their meeting.
LEMMA RowStep == CInv /\ [Next]_vars => RowInv'
<1> SUFFICES ASSUME CInv, [Next]_vars PROVE RowInv'
  OBVIOUS
<1> USE DEF CInv, RowInv, RanInv, TypeOK, tables, redis, callVars, BeforeHandler, InHandler
<1>1. ASSUME NEW c \in Calls, Arrive(c) PROVE RowInv'
  <2>1. c \notin ran /\ c \notin bots
    BY <1>1 DEF Arrive
  <2>2. /\ pc'[c] = "begin"
        /\ \A d \in Calls : d # c => pc'[d] = pc[d] /\ request'[d] = request[d]
        /\ UNCHANGED <<ran, bots, jobs, outbox, dedup>>
    BY <1>1 DEF Arrive
  <2>3. QED
    BY <2>1, <2>2
<1>2. ASSUME NEW c \in Calls, NEW to, to \notin {"insert", "outbox", "enqueue", "lock"},
             c \notin bots \/ to # "check",
             pc' = [pc EXCEPT ![c] = to],
             ran \subseteq ran',
             UNCHANGED <<request, bots, jobs, outbox, dedup>>
      PROVE  RowInv'
  BY <1>2
<1>3. ASSUME NEW c \in Calls, PassThrough(c) PROVE RowInv'
  <2>1. c \notin bots
    BY <1>3 DEF PassThrough, Goto
  <2>2. QED
    BY <1>2, <1>3, <2>1 DEF PassThrough, Goto
<1>4. ASSUME NEW c \in Calls, BeginRequest(c) PROVE RowInv'
  <2>1. c \notin bots
    BY <1>4 DEF BeginRequest
  <2>2. \E to \in {"check", "answered", "lookup"} : pc' = [pc EXCEPT ![c] = to]
    BY <1>4 DEF BeginRequest, Goto
  <2>3. ran \subseteq ran' /\ UNCHANGED <<request, bots, jobs, outbox, dedup>>
    BY <1>4 DEF BeginRequest, Goto
  <2>4. QED
    BY <1>2, <2>1, <2>2, <2>3
<1>5. ASSUME NEW c \in Calls, Lookup(c) \/ CompleteRequest(c) \/ ValidateFails(c)
      PROVE  RowInv'
  BY <1>2, <1>5 DEF Lookup, CompleteRequest, ValidateFails, Goto
<1>6. ASSUME NEW c \in Calls, CheckDedup(c) PROVE RowInv'
  <2>1. c \notin bots
    BY <1>6 DEF CheckDedup
  <2>2. \E to \in {"complete", "insert"} : pc' = [pc EXCEPT ![c] = to]
    BY <1>6 DEF CheckDedup, Goto
  <2>3. UNCHANGED <<request, ran, bots, jobs, outbox, dedup>>
    BY <1>6 DEF CheckDedup, Goto
  <2>4. QED
    BY <2>1, <2>2, <2>3
<1>7. ASSUME NEW c \in Calls, InsertV2(c) PROVE RowInv'
  <2>1. CASE UNCHANGED bots /\ pc' = [pc EXCEPT ![c] = "complete"]
    BY <1>2, <1>7, <2>1 DEF InsertV2, Goto
  <2>2. CASE /\ Unique(c)
             /\ bots' = bots \cup {c}
    <3>1. c \in ran /\ UNCHANGED <<request, ran, jobs, outbox, dedup>>
      BY <1>7 DEF InsertV2, Goto
    <3>2. PICK to \in {"outbox", "complete"} : pc' = [pc EXCEPT ![c] = to]
      BY <1>7 DEF InsertV2, Goto
    <3>3. \A b \in bots : request[b].meeting = request[c].meeting => request[c].meeting = NoMeeting
      BY <2>2 DEF Unique
    <3>4. QED
      BY <2>2, <3>1, <3>2, <3>3
  <2>3. QED
    BY <1>7, <2>1, <2>2 DEF InsertV2, Goto
<1>8. ASSUME NEW c \in Calls, AppendEvent(c) PROVE RowInv'
  <2>1. c \in bots /\ outbox' \subseteq outbox \cup {c}
    BY <1>8 DEF AppendEvent, MaybeAdd
  <2>2. \/ pc' = [pc EXCEPT ![c] = "lock"]
        \/ pc' = [pc EXCEPT ![c] = "enqueue"] /\ ~request[c].scheduled
    BY <1>8 DEF AppendEvent, Goto
  <2>3. UNCHANGED <<request, ran, bots, jobs, dedup>>
    BY <1>8 DEF AppendEvent, Goto
  <2>4. QED
    BY <2>1, <2>2, <2>3
<1>9. ASSUME NEW c \in Calls, Enqueue(c) PROVE RowInv'
  <2>1. c \in bots /\ ~request[c].scheduled /\ jobs' \subseteq jobs \cup {c}
    BY <1>9 DEF Enqueue, Goto, MaybeAdd
  <2>2. pc' = [pc EXCEPT ![c] = "lock"] /\ UNCHANGED <<request, ran, bots, outbox, dedup>>
    BY <1>9 DEF Enqueue, Goto
  <2>3. QED
    BY <2>1, <2>2
<1>10. ASSUME NEW c \in Calls, LockDedup(c) PROVE RowInv'
  <2>1. c \in bots /\ pc' = [pc EXCEPT ![c] = "complete"]
    BY <1>10 DEF LockDedup, Goto
  <2>2. \A m \in Meetings : \/ dedup'[m] = dedup[m]
                            \/ dedup'[m] = c /\ request[c].meeting = m
    BY <1>10 DEF LockDedup
  <2>3. UNCHANGED <<request, ran, bots, jobs, outbox>>
    BY <1>10 DEF LockDedup, Goto
  <2>4. QED
    BY <2>1, <2>2, <2>3
<1>11. ASSUME NEW c \in Calls, HangUp(c) PROVE RowInv'
  BY <1>11 DEF HangUp
<1>12. ASSUME NEW c \in Calls, Crash(c) PROVE RowInv'
  BY <1>2, <1>12 DEF Crash
<1>13. ASSUME NEW m \in Meetings, ExpireDedup(m) PROVE RowInv'
  BY <1>13 DEF ExpireDedup
<1>14. CASE UNCHANGED vars
  BY <1>14 DEF vars
<1>15. QED
  BY <1>1, <1>3, <1>4, <1>5, <1>6, <1>7, <1>8, <1>9, <1>10, <1>11, <1>12, <1>13, <1>14
     DEF Next, Serve

\* What was answered, sent and stored stays: answers of handlers, the requests of
\* calls under way, rows and the keys in use.
LEMMA Kept ==
    ASSUME CInv, [Next]_vars
    PROVE  /\ ran \subseteq ran' /\ bots \subseteq bots'
           /\ \A d \in Calls : pc[d] # "idle" => request'[d] = request[d] /\ pc'[d] # "idle"
           /\ \A d \in ran : answer[d] # NoAnswer => answer'[d] = answer[d]
           /\ \A k \in Keys : requestHash[k] # NoBody => requestHash'[k] = requestHash[k]
<1> DEFINE Goal == /\ ran \subseteq ran' /\ bots \subseteq bots'
                   /\ \A d \in Calls : pc[d] # "idle" => request'[d] = request[d] /\ pc'[d] # "idle"
                   /\ \A d \in ran : answer[d] # NoAnswer => answer'[d] = answer[d]
                   /\ \A k \in Keys : requestHash[k] # NoBody => requestHash'[k] = requestHash[k]
<1> USE DEF CInv, RanInv, AnswerInv, TypeOK, tables, redis, callVars, BeforeHandler
<1>1. ASSUME NEW c \in Calls, Arrive(c) PROVE Goal
  BY <1>1 DEF Arrive
<1>2. ASSUME NEW c \in Calls, PassThrough(c) \/ CompleteRequest(c) \/ AppendEvent(c) \/ Enqueue(c)
      PROVE  Goal
  BY <1>2 DEF PassThrough, CompleteRequest, AppendEvent, Enqueue, Goto
<1>3. ASSUME NEW c \in Calls, BeginRequest(c) PROVE Goal
  <2>1. c \notin ran /\ UNCHANGED <<request, bots>> /\ ran \subseteq ran'
    BY <1>3 DEF BeginRequest, Goto
  <2>2. \E to \in Points \ {"idle"} : pc' = [pc EXCEPT ![c] = to]
    BY <1>3 DEF BeginRequest, Goto, Points
  <2>3. \A d \in Calls : d # c => answer'[d] = answer[d]
    BY <1>3 DEF BeginRequest, Answer
  <2>4. \A k \in Keys : requestHash[k] # NoBody => requestHash'[k] = requestHash[k]
    BY <1>3 DEF BeginRequest
  <2>5. QED
    BY <2>1, <2>2, <2>3, <2>4
<1>4. ASSUME NEW c \in Calls, Lookup(c) PROVE Goal
  <2>1. /\ c \notin ran /\ UNCHANGED <<request, bots, ran, requestHash>>
        /\ pc' = [pc EXCEPT ![c] = "answered"]
    BY <1>4 DEF Lookup, Goto
  <2>2. \A d \in Calls : d # c => answer'[d] = answer[d]
    BY <1>4 DEF Lookup, Answer
  <2>3. QED
    BY <2>1, <2>2
<1>5. ASSUME NEW c \in Calls,
             ValidateFails(c) \/ CheckDedup(c) \/ InsertV2(c) \/ LockDedup(c)
      PROVE  Goal
  <2>1. answer[c] = NoAnswer /\ UNCHANGED <<request, ran, requestHash>>
    BY <1>5 DEF ValidateFails, CheckDedup, InsertV2, LockDedup, Goto
  <2>2. \E to \in Points \ {"idle"} : pc' = [pc EXCEPT ![c] = to]
    BY <1>5 DEF ValidateFails, CheckDedup, InsertV2, LockDedup, Goto, Points
  <2>3. \A d \in Calls : d # c => answer'[d] = answer[d]
    BY <1>5 DEF ValidateFails, CheckDedup, InsertV2, LockDedup, Answer
  <2>4. bots \subseteq bots'
    BY <1>5 DEF ValidateFails, CheckDedup, InsertV2, LockDedup
  <2>5. QED
    BY <2>1, <2>2, <2>3, <2>4
<1>6. ASSUME NEW c \in Calls, HangUp(c) \/ Crash(c) PROVE Goal
  BY <1>6 DEF HangUp, Crash
<1>7. ASSUME NEW m \in Meetings, ExpireDedup(m) PROVE Goal
  BY <1>7 DEF ExpireDedup
<1>8. CASE UNCHANGED vars
  BY <1>8 DEF vars
<1>9. QED
  BY <1>1, <1>2, <1>3, <1>4, <1>5, <1>6, <1>7, <1>8 DEF Next, Serve

\* A handler answers before it completes, and only with its meeting's row.
LEMMA AnswerStep == CInv /\ [Next]_vars => AnswerInv'
<1> SUFFICES ASSUME CInv, [Next]_vars PROVE AnswerInv'
  OBVIOUS
<1> DEFINE Fits(c) == answer[c] # NoAnswer /\ answer[c].bot # NoBot =>
                          /\ answer[c].bot \in bots
                          /\ request[answer[c].bot].meeting = request[c].meeting
<1> USE DEF CInv, RanInv, AnswerInv, TypeOK, tables, redis, callVars, BeforeHandler
<1>1. \A d \in ran : answer[d] # NoAnswer => Fits(d)'
  <2> SUFFICES ASSUME NEW d \in ran, answer[d] # NoAnswer PROVE Fits(d)'
    OBVIOUS
  <2>1. answer'[d] = answer[d] /\ request'[d] = request[d]
    BY Kept
  <2>2. ASSUME answer[d].bot # NoBot
        PROVE  /\ answer[d].bot \in bots'
               /\ request'[answer[d].bot].meeting = request'[d].meeting
    <3>1. answer[d].bot \in bots /\ request[answer[d].bot].meeting = request[d].meeting
      BY <2>2
    <3>2. pc[answer[d].bot] # "idle" /\ answer[d].bot \in Calls
      BY <3>1 DEF RowInv
    <3>3. QED
      BY <2>1, <3>1, <3>2, Kept
  <2>3. QED
    BY <2>1, <2>2
<1>2. ASSUME NEW c \in Calls,
             \A d \in Calls : d # c => answer'[d] = answer[d] /\ pc'[d] = pc[d],
             pc'[c] \notin {"complete", "answered", "lost"} => answer'[c] = NoAnswer,
             pc'[c] = "lost" /\ c \notin ran' => answer'[c] = NoAnswer,
             \A d \in ran' : d # c => d \in ran,
             c \in ran' => Fits(c)'
      PROVE  AnswerInv'
  <2>1. \A d \in ran' : answer'[d] # NoAnswer => Fits(d)'
    BY <1>1, <1>2
  <2>2. ran \subseteq ran'
    BY Kept
  <2>3. QED
    BY <1>2, <2>1, <2>2
<1>3. ASSUME NEW c \in Calls, Arrive(c) PROVE AnswerInv'
  BY <1>2, <1>3 DEF Arrive
<1>4. ASSUME NEW c \in Calls, PassThrough(c) PROVE AnswerInv'
  BY <1>2, <1>4 DEF PassThrough, Goto
<1>5. ASSUME NEW c \in Calls, BeginRequest(c) PROVE AnswerInv'
  <2>1. \/ pc' = [pc EXCEPT ![c] = "check"] /\ answer' = answer /\ ran' = ran \cup {c}
        \/ pc' = [pc EXCEPT ![c] = "lookup"] /\ answer' = answer /\ ran' = ran
        \/ pc' = [pc EXCEPT ![c] = "answered"] /\ ran' = ran
              /\ answer' = [answer EXCEPT ![c] = Failed]
    BY <1>5 DEF BeginRequest, Goto, Answer
  <2>2. answer[c] = NoAnswer /\ c \notin ran
    BY <1>5 DEF BeginRequest
  <2>3. QED
    BY <1>2, <2>1, <2>2
<1>6. ASSUME NEW c \in Calls, Lookup(c) PROVE AnswerInv'
  <2>1. pc' = [pc EXCEPT ![c] = "answered"] /\ ran' = ran /\ c \notin ran
    BY <1>6 DEF Lookup, Goto
  <2>2. \A d \in Calls : d # c => answer'[d] = answer[d]
    BY <1>6 DEF Lookup, Answer
  <2>3. QED
    BY <1>2, <2>1, <2>2
<1>7. ASSUME NEW c \in Calls, CompleteRequest(c) PROVE AnswerInv'
  <2>1. pc' = [pc EXCEPT ![c] = "answered"] /\ UNCHANGED <<answer, ran, bots, request>>
    BY <1>7 DEF CompleteRequest, Goto
  <2>2. QED
    BY <1>2, <2>1
<1>8. ASSUME NEW c \in Calls, NEW a \in {Invalid, Failed},
             pc' = [pc EXCEPT ![c] = "complete"], answer' = [answer EXCEPT ![c] = a], ran' = ran
      PROVE  AnswerInv'
  <2>1. a.bot = NoBot
    BY AnswerFacts
  <2>2. answer'[c] = a /\ pc'[c] = "complete"
    BY <1>8
  <2>3. QED
    BY <1>2, <1>8, <2>1, <2>2
<1>9. ASSUME NEW c \in Calls, ValidateFails(c) PROVE AnswerInv'
  BY <1>8, <1>9 DEF ValidateFails, Goto, Answer
<1>10. ASSUME NEW c \in Calls, CheckDedup(c) PROVE AnswerInv'
  <2>1. pc[c] = "check" /\ answer[c] = NoAnswer /\ UNCHANGED <<ran, bots, request>>
    BY <1>10 DEF CheckDedup, Goto
  <2>2. CASE pc' = [pc EXCEPT ![c] = "insert"] /\ UNCHANGED answer
    BY <1>2, <2>1, <2>2
  <2>3. CASE /\ request[c].meeting \in Meetings
             /\ dedup[request[c].meeting] # NoBot
             /\ pc' = [pc EXCEPT ![c] = "complete"]
             /\ answer' = [answer EXCEPT ![c] = Existing(dedup[request[c].meeting])]
    <3> DEFINE b == dedup[request[c].meeting]
    <3>1. b \in bots /\ b \in Calls /\ request[b].meeting = request[c].meeting
      BY <2>3 DEF RowInv
    <3>2. answer'[c] = Existing(b) /\ Existing(b).bot = b /\ pc'[c] = "complete"
      BY <2>3, <3>1, AnswerFacts
    <3> HIDE DEF b
    <3>3. Fits(c)'
      BY <2>1, <3>1, <3>2
    <3>4. \A d \in Calls : d # c => answer'[d] = answer[d] /\ pc'[d] = pc[d]
      BY <2>3
    <3>5. QED
      BY <1>2, <2>1, <3>2, <3>3, <3>4
  <2>4. QED
    BY <1>10, <2>2, <2>3 DEF CheckDedup, Goto, Answer
<1>11. ASSUME NEW c \in Calls, InsertV2(c) PROVE AnswerInv'
  <2>1. CASE pc' = [pc EXCEPT ![c] = "outbox"] /\ UNCHANGED answer
    <3>1. pc[c] = "insert" /\ ran' = ran
      BY <1>11 DEF InsertV2, Goto
    <3>2. QED
      BY <1>2, <2>1, <3>1
  <2>2. CASE pc' = [pc EXCEPT ![c] = "complete"] /\ answer' = [answer EXCEPT ![c] = Failed]
    BY <1>8, <1>11, <2>2 DEF InsertV2
  <2>3. QED
    BY <1>11, <2>1, <2>2 DEF InsertV2, Goto, Answer
<1>12. ASSUME NEW c \in Calls, AppendEvent(c) PROVE AnswerInv'
  BY <1>2, <1>12 DEF AppendEvent, Goto
<1>13. ASSUME NEW c \in Calls, Enqueue(c) PROVE AnswerInv'
  BY <1>2, <1>13 DEF Enqueue, Goto
<1>14. ASSUME NEW c \in Calls, LockDedup(c) PROVE AnswerInv'
  <2>1. c \in bots /\ UNCHANGED <<ran, bots, request>>
    BY <1>14 DEF LockDedup, Goto, RowInv
  <2>2. pc' = [pc EXCEPT ![c] = "complete"] /\ answer' = [answer EXCEPT ![c] = Created(c)]
    BY <1>14 DEF LockDedup, Goto, Answer
  <2>3. answer'[c] = Created(c) /\ Created(c).bot = c /\ pc'[c] = "complete"
    BY <2>2, AnswerFacts
  <2>4. Fits(c)'
    BY <2>1, <2>3
  <2>5. \A d \in Calls : d # c => answer'[d] = answer[d] /\ pc'[d] = pc[d]
    BY <2>2
  <2>6. QED
    BY <1>2, <2>1, <2>3, <2>4, <2>5
<1>15. ASSUME NEW c \in Calls, Crash(c) PROVE AnswerInv'
  <2>1. /\ UNCHANGED <<answer, ran, bots, request>>
        /\ pc' = [pc EXCEPT ![c] = "lost"]
        /\ pc[c] \notin {"answered", "lost"}
    BY <1>15 DEF Crash, InProgress
  <2>2. c \notin ran => answer[c] = NoAnswer
    BY <2>1 DEF InHandler, Points
  <2>3. QED
    BY <1>2, <2>1, <2>2
<1>16. CASE UNCHANGED <<pc, request, answer, ran, bots>>
  BY <1>16
<1>17. ASSUME NEW c \in Calls, HangUp(c) PROVE AnswerInv'
  BY <1>16, <1>17 DEF HangUp
<1>18. ASSUME NEW m \in Meetings, ExpireDedup(m) PROVE AnswerInv'
  BY <1>16, <1>18 DEF ExpireDedup
<1>19. CASE UNCHANGED vars
  BY <1>16, <1>19 DEF vars
<1>20. QED
  BY <1>3, <1>4, <1>5, <1>6, <1>7, <1>9, <1>10, <1>11, <1>12, <1>13, <1>14, <1>15, <1>17, <1>18,
     <1>19 DEF Next, Serve

\* A kept response has the answer of the key's handler.
LEMMA ResponseStep == CInv /\ [Next]_vars => ResponseInv'
<1> SUFFICES ASSUME CInv, [Next]_vars, NEW k \in Keys, response'[k] # NoAnswer
             PROVE  \E d \in ran' : /\ request'[d].key = k
                                    /\ request'[d].body = requestHash'[k]
                                    /\ answer'[d] = response'[k]
  BY DEF ResponseInv
<1> USE DEF CInv, RanInv, TypeOK, tables, redis, callVars, BeforeHandler
<1>1. CASE response'[k] = response[k]
  <2>1. PICK d \in ran : /\ request[d].key = k
                         /\ request[d].body = requestHash[k]
                         /\ answer[d] = response[k]
    BY <1>1 DEF ResponseInv
  <2>2. request[d] \in Requests /\ pc[d] # "idle"
    BY <2>1
  <2>3. requestHash[k] # NoBody
    BY <2>1, <2>2, RequestFacts
  <2>4. QED
    BY <1>1, <2>1, <2>2, <2>3, Kept
<1>2. ASSUME NEW c \in Calls, CompleteRequest(c), response'[k] # response[k]
      PROVE  \E d \in ran' : /\ request'[d].key = k
                             /\ request'[d].body = requestHash'[k]
                             /\ answer'[d] = response'[k]
  <2>1. request[c].key = k /\ response'[k] = answer[c] /\ k # NoKey
    BY <1>2, RequestAssumption DEF CompleteRequest
  <2>2. c \in ran /\ requestHash[k] = request[c].body
    BY <1>2, <2>1 DEF CompleteRequest, Goto, InHandler
  <2>3. UNCHANGED <<request, requestHash, answer, ran>>
    BY <1>2 DEF CompleteRequest, Goto
  <2>4. QED
    BY <2>1, <2>2, <2>3
<1>3. ASSUME NEW c \in Calls,
             \/ Arrive(c) \/ PassThrough(c) \/ BeginRequest(c) \/ Lookup(c) \/ ValidateFails(c)
             \/ CheckDedup(c) \/ InsertV2(c) \/ AppendEvent(c) \/ Enqueue(c) \/ LockDedup(c)
             \/ HangUp(c) \/ Crash(c)
      PROVE  response' = response
  BY <1>3 DEF Arrive, PassThrough, BeginRequest, Lookup, ValidateFails, CheckDedup, InsertV2,
              AppendEvent, Enqueue, LockDedup, HangUp, Crash
<1>4. ASSUME NEW m \in Meetings, ExpireDedup(m) PROVE response' = response
  BY <1>4 DEF ExpireDedup
<1>5. CASE UNCHANGED vars
  BY <1>1, <1>5 DEF vars
<1>6. QED
  BY <1>1, <1>2, <1>3, <1>4, <1>5 DEF Next, Serve

\* An answer given is a handler's, and that handler answered the same request.
LEMMA ReplayStep == CInv /\ [Next]_vars => ReplayIsOriginal'
<1> DEFINE Original(c) == \E d \in ran : /\ answer[d] = answer[c]
                                         /\ request[d].key = request[c].key
                                         /\ request[d].body = request[c].body
<1> SUFFICES ASSUME CInv, [Next]_vars, NEW c \in Calls, pc'[c] = "answered",
                    answer'[c].status \in {"created", "existing", "invalid"}
             PROVE  Original(c)'
  BY DEF ReplayIsOriginal
<1> USE DEF CInv, TypeOK, tables, redis, callVars
<1>1. CASE pc[c] = "answered" /\ answer'[c] = answer[c]
  <2>1. PICK d \in ran : /\ answer[d] = answer[c]
                         /\ request[d].key = request[c].key
                         /\ request[d].body = request[c].body
    BY <1>1 DEF ReplayIsOriginal
  <2>2. answer[d] # NoAnswer /\ pc[d] # "idle"
    BY <1>1, <2>1, AnswerFacts DEF RanInv, BeforeHandler
  <2>3. QED
    BY <1>1, <2>1, <2>2, Kept
<1>2. CASE Lookup(c)
  <2>1. /\ UNCHANGED <<request, ran>>
        /\ \A d \in Calls : d # c => answer'[d] = answer[d]
        /\ c \notin ran
    BY <1>2 DEF Lookup, Goto, Answer, RanInv, BeforeHandler
  <2>2. answer'[c] \notin {Failed, Mismatch, InFlight}
    BY AnswerFacts
  <2>3. /\ answer'[c] = response[request[c].key]
        /\ response[request[c].key] # NoAnswer
        /\ requestHash[request[c].key] = request[c].body
        /\ request[c].key \in Keys
    BY <1>2, <2>2 DEF Lookup, Goto, Answer
  <2>4. PICK d \in ran : /\ request[d].key = request[c].key
                         /\ request[d].body = request[c].body
                         /\ answer[d] = answer'[c]
    BY <2>3 DEF ResponseInv
  <2>5. QED
    BY <2>1, <2>4
<1>3. CASE CompleteRequest(c)
  <2>1. c \in ran /\ UNCHANGED ran
    BY <1>3 DEF CompleteRequest, Goto, RanInv, InHandler
  <2>2. QED
    BY <2>1
<1>4. CASE BeginRequest(c)
  <2>1. answer' = [answer EXCEPT ![c] = Failed]
    BY <1>4 DEF BeginRequest, Goto, Answer
  <2>2. answer'[c] = Failed
    BY <2>1
  <2>3. QED
    BY <2>2, AnswerFacts
<1>5. CASE \/ Arrive(c) \/ PassThrough(c) \/ ValidateFails(c) \/ CheckDedup(c) \/ InsertV2(c)
           \/ AppendEvent(c) \/ Enqueue(c) \/ LockDedup(c) \/ Crash(c)
  <2>1. pc'[c] # "answered"
    BY <1>5 DEF Arrive, PassThrough, ValidateFails, CheckDedup, InsertV2, AppendEvent, Enqueue,
                LockDedup, Crash, Goto
  <2>2. QED
    BY <2>1
<1>6. ASSUME NEW e \in Calls, e # c,
             Arrive(e) \/ Serve(e) \/ Crash(e)
      PROVE  pc'[c] = pc[c] /\ answer'[c] = answer[c]
  BY <1>6 DEF Serve, Arrive, PassThrough, BeginRequest, Lookup, CompleteRequest, ValidateFails,
              CheckDedup, InsertV2, AppendEvent, Enqueue, LockDedup, Crash, Goto, Answer
<1>7. ASSUME NEW e \in Calls, HangUp(e) PROVE pc' = pc /\ answer' = answer
  BY <1>7 DEF HangUp
<1>8. ASSUME NEW m \in Meetings, ExpireDedup(m) PROVE pc' = pc /\ answer' = answer
  BY <1>8 DEF ExpireDedup
<1>9. CASE UNCHANGED vars
  BY <1>1, <1>9 DEF vars
<1>10. QED
  BY <1>1, <1>2, <1>3, <1>4, <1>5, <1>6, <1>7, <1>8, <1>9 DEF Next, Serve

-----------------------------------------------------------------------------
(* The theorems *)

LEMMA CInvInit == Init => CInv
<1> SUFFICES ASSUME Init PROVE CInv
  OBVIOUS
<1>1. TypeOK
  BY DEF Init, TypeOK, Points
<1>2. QED
  BY <1>1 DEF Init, CInv, RanInv, RowInv, AnswerInv, ResponseInv, HandlerRunsOncePerKey,
              ReplayIsOriginal, InHandler

\* CInv holds whatever requests race, are repeated or lost, and whatever writes fail.
THEOREM CreationInvariance == Spec => []CInv
<1>1. CInv /\ [Next]_vars => CInv'
  BY TypeStep, RanStep, RowStep, AnswerStep, ResponseStep, ReplayStep DEF CInv
<1>2. QED
  BY CInvInit, <1>1, PTL DEF Spec

\* Every variable has its type, and no call ends without an answer.
THEOREM CreationTypeCorrect == Spec => []TypeOK
<1>1. CInv => TypeOK
  BY DEF CInv
<1>2. QED
  BY CreationInvariance, <1>1, PTL

\* At most one request of a key reaches the handler (idempotency.go, "the handler
\* never runs twice").
THEOREM HandlerOnce == Spec => []HandlerRunsOncePerKey
<1>1. CInv => HandlerRunsOncePerKey
  BY DEF CInv
<1>2. QED
  BY CreationInvariance, <1>1, PTL

\* A client is only told what a handler answered to the same key and body.
THEOREM ReplaysAreOriginal == Spec => []ReplayIsOriginal
<1>1. CInv => ReplayIsOriginal
  BY DEF CInv
<1>2. QED
  BY CreationInvariance, <1>1, PTL

\* Whatever names a bot names one in the table.
THEOREM NamedBotsAreStored == Spec => []BotsAreStored
<1>1. ASSUME CInv PROVE BotsAreStored
  <2>1. \A c \in ran : answer[c] # NoAnswer /\ answer[c].bot # NoBot => answer[c].bot \in bots
    BY <1>1 DEF CInv, AnswerInv
  <2>2. \A k \in Keys : response[k] # NoAnswer /\ response[k].bot # NoBot
                           => response[k].bot \in bots
    BY <1>1, <2>1 DEF CInv, ResponseInv
  <2>3. ASSUME NEW c \in Calls, answer[c] # NoAnswer, answer[c].bot # NoBot
        PROVE  answer[c].bot \in bots
    <3>1. CASE c \in ran
      BY <2>1, <2>3, <3>1
    <3>2. CASE c \notin ran
      <4>1. pc[c] = "answered"
        BY <1>1, <2>3, <3>2 DEF CInv, AnswerInv, RanInv, TypeOK, Points, InHandler
      <4>2. answer[c] \in Answers /\ answer[c].status \in {"created", "existing"}
        BY <1>1, <2>3, AnswerFacts DEF CInv, TypeOK
      <4>3. PICK d \in ran : answer[d] = answer[c]
        BY <1>1, <4>1, <4>2 DEF CInv, ReplayIsOriginal
      <4>4. QED
        BY <2>1, <2>3, <4>3
    <3>3. QED
      BY <3>1, <3>2
  <2>4. QED
    BY <1>1, <2>2, <2>3 DEF CInv, RowInv, BotsAreStored
<1>2. QED
  BY CreationInvariance, <1>1, PTL

\* Handlers that answer for one meeting and minute name the same bot.
THEOREM OneBotPerMeeting == Spec => []SameMeetingSameBot
<1>1. CInv => SameMeetingSameBot
  <2> SUFFICES ASSUME CInv, NEW c \in ran, NEW d \in ran,
                      request[c].meeting = request[d].meeting,
                      request[c].meeting # NoMeeting,
                      answer[c] # NoAnswer, answer[c].bot # NoBot,
                      answer[d] # NoAnswer, answer[d].bot # NoBot
               PROVE  answer[c].bot = answer[d].bot
    BY DEF SameMeetingSameBot
  <2>1. /\ answer[c].bot \in bots /\ request[answer[c].bot].meeting = request[c].meeting
        /\ answer[d].bot \in bots /\ request[answer[d].bot].meeting = request[d].meeting
    BY DEF CInv, AnswerInv
  <2>2. QED
    BY <2>1 DEF CInv, RowInv
<1>2. QED
  BY CreationInvariance, <1>1, PTL

\* The unique index on (tenant_id, idempotency_key) is never met: "the api-server
\* idempotency layer should already have prevented" it (bot_repo_v2.go).
THEOREM KeyIndexNeverMet ==
    Spec => [](\A c \in Calls, b \in bots :
                   pc[c] = "insert" /\ request[b].key = request[c].key => request[c].key = NoKey)
<1>1. CInv => \A c \in Calls, b \in bots :
                  pc[c] = "insert" /\ request[b].key = request[c].key => request[c].key = NoKey
  BY DEF CInv, RanInv, RowInv, HandlerRunsOncePerKey, InHandler
<1>2. QED
  BY CreationInvariance, <1>1, PTL

-----------------------------------------------------------------------------
(* BotCreation implements CreationContract *)

\* Only a valid request gets to the insert, and a row in idempotency_keys is that
\* of a call that got past it.
ContractInv ==
    /\ \A c \in Calls : pc[c] = "idle" => request[c] = NoRequest
    /\ \A c \in Calls : pc[c] \in {"insert", "outbox", "enqueue", "lock"} => request[c].valid
    /\ \A c \in Calls : pc[c] = "lookup" => requestHash[request[c].key] # NoBody
    /\ \A k \in Keys : requestHash[k] # NoBody =>
          \E d \in Calls : /\ pc[d] \notin BeforeHandler
                           /\ request[d].key = k
                           /\ request[d].body = requestHash[k]

\* Every step keeps rows, their callers and the validity of what is inserted.
LEMMA ContractInvStep == CInv /\ ContractInv /\ [Next]_vars => ContractInv'
<1> SUFFICES ASSUME CInv, ContractInv, [Next]_vars PROVE ContractInv'
  OBVIOUS
<1> USE DEF ContractInv, BeforeHandler, tables, redis, callVars
<1>0. TypeOK
  BY DEF CInv
<1>1. ASSUME NEW c \in Calls, NEW to, to \notin BeforeHandler,
             pc' = [pc EXCEPT ![c] = to],
             to \in {"insert", "outbox", "enqueue", "lock"} => request[c].valid,
             UNCHANGED <<request, requestHash>>
      PROVE  ContractInv'
  BY <1>0, <1>1 DEF TypeOK
<1>2. ASSUME NEW c \in Calls, Arrive(c) PROVE ContractInv'
  <2>1. /\ pc[c] = "idle"
        /\ pc'[c] = "begin"
        /\ \A d \in Calls : d # c => pc'[d] = pc[d] /\ request'[d] = request[d]
        /\ UNCHANGED requestHash
    BY <1>0, <1>2 DEF Arrive, TypeOK
  <2>2. QED
    BY <2>1
<1>3. ASSUME NEW c \in Calls, BeginRequest(c) PROVE ContractInv'
  <2> DEFINE k == request[c].key
  <2>1. k \in Keys /\ request[c] \in Requests /\ pc[c] = "begin" /\ UNCHANGED request
    BY <1>0, <1>3 DEF BeginRequest, Goto, TypeOK
  <2>2. CASE /\ requestHash[k] = NoBody
             /\ requestHash' = [requestHash EXCEPT ![k] = request[c].body]
    <3>1. PICK to \in {"check", "answered"} : pc' = [pc EXCEPT ![c] = to]
      BY <1>3, <2>1, <2>2, RequestFacts, RequestAssumption DEF BeginRequest, Goto
    <3>2. requestHash'[k] = request[c].body /\ request[c].body # NoBody
      BY <1>0, <2>1, <2>2, RequestFacts DEF TypeOK
    <3>3. \A l \in Keys : l # k => requestHash'[l] = requestHash[l]
      BY <1>0, <2>2 DEF TypeOK
    <3>4. pc'[c] = to /\ \A d \in Calls : d # c => pc'[d] = pc[d]
      BY <1>0, <3>1 DEF TypeOK
    <3>5. \A d \in Calls : pc[d] = "lookup" => request[d].key \in Keys
      BY <1>0 DEF TypeOK
    <3>6. QED
      BY <2>1, <3>2, <3>3, <3>4, <3>5
  <2>3. CASE UNCHANGED requestHash
    <3>1. \/ pc' = [pc EXCEPT ![c] = "lookup"] /\ requestHash[k] # NoBody
          \/ pc' = [pc EXCEPT ![c] = "answered"]
      BY <1>0, <1>3, <2>1, <2>3, RequestFacts DEF BeginRequest, Goto, TypeOK
    <3>2. QED
      BY <1>0, <2>1, <2>3, <3>1 DEF TypeOK
  <2>4. QED
    BY <1>3, <2>2, <2>3 DEF BeginRequest
<1>4. ASSUME NEW c \in Calls,
             \/ PassThrough(c) \/ Lookup(c) \/ CompleteRequest(c) \/ ValidateFails(c)
             \/ AppendEvent(c) \/ Enqueue(c) \/ LockDedup(c) \/ Crash(c)
      PROVE  ContractInv'
  <2>1. UNCHANGED <<request, requestHash>>
    BY <1>4 DEF PassThrough, Lookup, CompleteRequest, ValidateFails, AppendEvent, Enqueue,
                LockDedup, Crash, Goto
  <2>2. \/ \E to \in {"check", "answered", "complete", "lost"} : pc' = [pc EXCEPT ![c] = to]
        \/ /\ pc[c] \in {"outbox", "enqueue"}
           /\ \E to \in {"enqueue", "lock"} : pc' = [pc EXCEPT ![c] = to]
    BY <1>4 DEF PassThrough, Lookup, CompleteRequest, ValidateFails, AppendEvent, Enqueue,
                LockDedup, Crash, Goto
  <2>3. pc[c] \in {"outbox", "enqueue"} => request[c].valid
    OBVIOUS
  <2>4. PICK to : /\ pc' = [pc EXCEPT ![c] = to]
                  /\ to \in {"check", "answered", "complete", "lost", "enqueue", "lock"}
                  /\ to \in {"enqueue", "lock"} => request[c].valid
    BY <2>2, <2>3
  <2>5. to \notin BeforeHandler /\ (to \in {"insert", "outbox", "enqueue", "lock"} => request[c].valid)
    BY <2>4
  <2>6. QED
    BY <1>1, <2>1, <2>4, <2>5
<1>5. ASSUME NEW c \in Calls, CheckDedup(c) \/ InsertV2(c) PROVE ContractInv'
  <2>1. request[c].valid /\ UNCHANGED <<request, requestHash>>
    BY <1>5 DEF CheckDedup, InsertV2, Goto
  <2>2. \E to \in {"complete", "insert", "outbox"} : pc' = [pc EXCEPT ![c] = to]
    BY <1>5 DEF CheckDedup, InsertV2, Goto
  <2>3. QED
    BY <1>1, <2>1, <2>2
<1>6. CASE UNCHANGED <<pc, request, requestHash>>
  BY <1>6
<1>7. ASSUME NEW c \in Calls, HangUp(c) PROVE ContractInv'
  BY <1>6, <1>7 DEF HangUp
<1>8. ASSUME NEW m \in Meetings, ExpireDedup(m) PROVE ContractInv'
  BY <1>6, <1>8 DEF ExpireDedup
<1>9. CASE UNCHANGED vars
  BY <1>6, <1>9 DEF vars
<1>10. QED
  BY <1>2, <1>3, <1>4, <1>5, <1>7, <1>8, <1>9 DEF Next, Serve

\* The answers of the code are those of the contract.
LEMMA SameAnswers ==
    /\ \A b \in Calls : Creation!Created(b) = Created(b) /\ Creation!Existing(b) = Existing(b)
    /\ Creation!Without("failed") = Failed
    /\ Creation!Without("invalid") = Invalid
    /\ Creation!Without("mismatch") = Mismatch
    /\ Creation!Without("inFlight") = InFlight
BY DEF Creation!Created, Creation!Existing, Creation!Without, Created, Existing, Failed, Invalid,
       Mismatch, InFlight

\* A call on its way through the middleware or the handler can still be told
\* anything, and one that is past the middleware has a handler of its own.
LEMMA OpenCall ==
    ASSUME CInv, NEW c \in Calls, pc[c] \in {"begin", "lookup", "check", "insert", "outbox", "enqueue", "lock"}
    PROVE  /\ Creation!Open(c)
           /\ request[c] \in Requests
           /\ c \in ran <=> pc[c] \notin BeforeHandler
<1>1. answer[c] = NoAnswer /\ request[c] \in Requests
  BY DEF CInv, TypeOK, AnswerInv
<1>2. c \in ran <=> pc[c] \notin BeforeHandler
  BY DEF CInv, RanInv, BeforeHandler, InHandler
<1>3. QED
  BY <1>1, <1>2, RequestAssumption DEF Creation!Open

\* The middleware's part of the contract: a request of a new key is handled, any
\* other told what became of its key.
LEMMA MiddlewareRefines ==
    ASSUME CInv, ContractInv, NEW c \in Calls, PassThrough(c) \/ BeginRequest(c) \/ Lookup(c)
    PROVE  Creation!Handle(c) \/ Creation!Tell(c) \/ UNCHANGED Creation!vars
<1> USE DEF Creation!vars, tables, redis, callVars
<1>1. /\ Creation!Open(c) /\ c \notin ran /\ request[c] \in Requests
      /\ UNCHANGED <<request, bots, jobs>>
  BY OpenCall DEF PassThrough, BeginRequest, Lookup, Goto, BeforeHandler
<1>2. CASE PassThrough(c)
  BY <1>1, <1>2 DEF PassThrough, Creation!Handle, Creation!SameKey
<1>3. CASE BeginRequest(c)
  <2>1. request[c].key \in Keys /\ request[c].key # NoKey
    BY <1>3, RequestAssumption DEF BeginRequest
  <2>2. CASE ran' = ran \cup {c} /\ requestHash[request[c].key] = NoBody /\ UNCHANGED answer
    <3>1. \A d \in ran : ~Creation!SameKey(c, d)
      <4>1. ASSUME NEW d \in ran, request[d].key = request[c].key PROVE FALSE
        <5>1. requestHash[request[d].key] = request[d].body
          BY <2>1, <4>1 DEF CInv, RanInv
        <5>2. request[d] \in Requests
          BY <4>1 DEF CInv, TypeOK, RanInv, BeforeHandler
        <5>3. QED
          BY <2>2, <4>1, <5>1, <5>2, RequestFacts
      <4>2. QED
        BY <4>1 DEF Creation!SameKey
    <3>2. QED
      BY <1>1, <2>2, <3>1 DEF Creation!Handle
  <2>3. CASE Answer(c, Failed) /\ UNCHANGED ran
    BY <1>1, <2>1, <2>3, SameAnswers DEF Answer, Creation!Tell, Creation!Replies
  <2>4. CASE UNCHANGED <<ran, answer>>
    BY <1>1, <2>4
  <2>5. QED
    BY <1>3, <2>2, <2>3, <2>4 DEF BeginRequest
<1>4. CASE Lookup(c)
  <2> DEFINE k == request[c].key
  <2>1. k \in Keys /\ k # NoKey /\ requestHash[k] # NoBody /\ UNCHANGED ran
    BY <1>4, RequestAssumption DEF Lookup, Goto, CInv, TypeOK, ContractInv
  <2>2. PICK d \in Calls : /\ pc[d] \notin BeforeHandler
                           /\ request[d].key = k
                           /\ request[d].body = requestHash[k]
    BY <2>1 DEF ContractInv
  <2>3. d # c /\ request[d] # NoRequest /\ Creation!SameKey(c, d)
    BY <1>4, <2>1, <2>2, RequestAssumption
    DEF Lookup, Goto, BeforeHandler, CInv, TypeOK, Creation!SameKey
  <2>4. PICK a : answer' = [answer EXCEPT ![c] = a] /\
                 \/ a = Failed
                 \/ a = Mismatch /\ requestHash[k] # request[c].body
                 \/ a = InFlight /\ requestHash[k] = request[c].body
                 \/ a = response[k] /\ response[k] # NoAnswer /\ requestHash[k] = request[c].body
    BY <1>4 DEF Lookup, Answer
  <2>5. a \in Creation!Replies(c)
    <3>1. CASE a = Failed
      BY <3>1, SameAnswers DEF Creation!Replies
    <3>2. CASE a = Mismatch /\ requestHash[k] # request[c].body
      BY <2>2, <2>3, <3>2, SameAnswers DEF Creation!Replies
    <3>3. CASE a = InFlight /\ requestHash[k] = request[c].body
      BY <2>2, <2>3, <3>3, SameAnswers DEF Creation!Replies
    <3>4. CASE a = response[k] /\ response[k] # NoAnswer /\ requestHash[k] = request[c].body
      <4>1. PICK e \in ran : /\ request[e].key = k
                             /\ request[e].body = request[c].body
                             /\ answer[e] = a
        BY <2>1, <3>4 DEF CInv, ResponseInv
      <4>2. e \in Calls \ {c} /\ request[e] # NoRequest
        BY <1>1, RequestAssumption DEF CInv, TypeOK, RanInv, BeforeHandler
      <4>3. Creation!SameKey(c, e) /\ answer[e] # NoAnswer
        BY <2>1, <3>4, <4>1 DEF Creation!SameKey
      <4>4. QED
        BY <4>1, <4>2, <4>3 DEF Creation!Replies
    <3>5. QED
      BY <2>4, <3>1, <3>2, <3>3, <3>4
  <2>6. QED
    BY <1>1, <2>1, <2>4, <2>5 DEF Creation!Tell
<1>5. QED
  BY <1>2, <1>3, <1>4

\* The handler's part: it answers once, names a bot of its own meeting, and
\* announces what it has stored.
LEMMA HandlerRefines ==
    ASSUME CInv, ContractInv, NEW c \in Calls,
           ValidateFails(c) \/ CheckDedup(c) \/ InsertV2(c) \/ Enqueue(c) \/ LockDedup(c)
    PROVE  \/ Creation!Decide(c) \/ Creation!Store(c) \/ Creation!Announce(c)
           \/ UNCHANGED Creation!vars
<1> USE DEF Creation!vars, tables, redis, callVars
<1>1. Creation!Open(c) /\ c \in ran /\ UNCHANGED <<request, ran>>
  BY OpenCall DEF ValidateFails, CheckDedup, InsertV2, Enqueue, LockDedup, Goto, BeforeHandler
<1>2. CASE ValidateFails(c)
  BY <1>1, <1>2, SameAnswers
  DEF ValidateFails, Answer, Creation!Decide, Creation!Verdicts
<1>3. CASE CheckDedup(c)
  <2>1. /\ request[c].valid /\ c \notin bots
        /\ UNCHANGED <<bots, jobs>>
    BY <1>3 DEF CheckDedup, CInv, RowInv
  <2>2. CASE /\ request[c].meeting \in Meetings
             /\ dedup[request[c].meeting] # NoBot
             /\ Answer(c, Existing(dedup[request[c].meeting]))
    <3> DEFINE b == dedup[request[c].meeting]
    <3>1. b \in bots /\ b \in Calls /\ Creation!SameMeeting(c, b)
      BY <2>2, RequestAssumption DEF CInv, RowInv, TypeOK, Creation!SameMeeting
    <3>2. Existing(b) \in Creation!Verdicts(c)
      BY <2>1, <3>1, SameAnswers DEF Creation!Verdicts
    <3>3. QED
      BY <1>1, <2>1, <2>2, <3>2 DEF Answer, Creation!Decide
  <2>3. CASE UNCHANGED answer
    BY <1>1, <2>1, <2>3
  <2>4. QED
    BY <1>3, <2>2, <2>3 DEF CheckDedup
<1>4. CASE InsertV2(c)
  <2>1. pc[c] = "insert" /\ c \notin bots /\ request[c].valid /\ UNCHANGED jobs
    BY <1>4 DEF InsertV2, Goto, CInv, RowInv, ContractInv
  <2>2. CASE /\ Unique(c)
             /\ bots' = bots \cup {c}
             /\ UNCHANGED answer \/ Answer(c, Failed)
    <3>1. \A b \in bots : ~Creation!SameMeeting(c, b)
      BY <2>2 DEF Unique, Creation!SameMeeting
    <3>2. QED
      BY <1>1, <2>1, <2>2, <3>1, SameAnswers DEF Answer, Creation!Store
  <2>3. CASE Answer(c, Failed) /\ UNCHANGED bots
    <3>1. Failed \in Creation!Verdicts(c)
      BY <2>1, SameAnswers DEF Creation!Verdicts
    <3>2. QED
      BY <1>1, <2>1, <2>3, <3>1 DEF Answer, Creation!Decide
  <2>4. QED
    BY <1>4, <2>2, <2>3 DEF InsertV2
<1>5. CASE Enqueue(c)
  <2>1. c \in bots /\ ~request[c].scheduled /\ UNCHANGED <<bots, answer>>
    BY <1>5 DEF Enqueue, Goto, CInv, RowInv
  <2>2. QED
    BY <1>1, <1>5, <2>1 DEF Enqueue, MaybeAdd, Creation!Announce
<1>6. CASE LockDedup(c)
  <2>1. /\ c \in bots /\ request[c].valid
        /\ Answer(c, Created(c))
        /\ UNCHANGED <<bots, jobs>>
    BY <1>6 DEF LockDedup, Goto, CInv, RowInv, ContractInv
  <2>2. Created(c) \in Creation!Verdicts(c)
    BY <2>1, SameAnswers DEF Creation!Verdicts
  <2>3. QED
    BY <1>1, <2>1, <2>2 DEF Answer, Creation!Decide
<1>7. QED
  BY <1>2, <1>3, <1>4, <1>5, <1>6

\* Every step maps to a step of the contract or leaves it unchanged.
LEMMA CreationStep == CInv /\ ContractInv /\ [Next]_vars => [Creation!Next]_Creation!vars
<1> SUFFICES ASSUME CInv, ContractInv, [Next]_vars PROVE [Creation!Next]_Creation!vars
  OBVIOUS
<1> USE DEF Creation!Next
<1>1. ASSUME NEW c \in Calls, Arrive(c) PROVE Creation!Arrive(c)
  BY <1>1 DEF Arrive, Creation!Arrive, ContractInv, tables, redis
<1>2. ASSUME NEW c \in Calls, PassThrough(c) \/ BeginRequest(c) \/ Lookup(c)
      PROVE  [Creation!Next]_Creation!vars
  BY <1>2, MiddlewareRefines
<1>3. ASSUME NEW c \in Calls,
             ValidateFails(c) \/ CheckDedup(c) \/ InsertV2(c) \/ Enqueue(c) \/ LockDedup(c)
      PROVE  [Creation!Next]_Creation!vars
  BY <1>3, HandlerRefines
<1>4. CASE UNCHANGED <<request, ran, bots, jobs, answer>>
  BY <1>4 DEF Creation!vars
<1>5. ASSUME NEW c \in Calls, CompleteRequest(c) \/ AppendEvent(c) \/ HangUp(c) \/ Crash(c)
      PROVE  UNCHANGED <<request, ran, bots, jobs, answer>>
  BY <1>5 DEF CompleteRequest, AppendEvent, HangUp, Crash, Goto, tables, redis
<1>6. ASSUME NEW m \in Meetings, ExpireDedup(m)
      PROVE  UNCHANGED <<request, ran, bots, jobs, answer>>
  BY <1>6 DEF ExpireDedup, tables, callVars
<1>7. CASE UNCHANGED vars
  BY <1>4, <1>7 DEF vars, tables, redis, callVars
<1>8. QED
  BY <1>1, <1>2, <1>3, <1>4, <1>5, <1>6, <1>7 DEF Next, Serve

\* For any number of calls, keys, bodies and meetings the api-servers keep the
\* contract of the creation, whatever races, is repeated, lost or fails.
THEOREM CreationImplemented == Spec => ImplementsCreation
<1>1. Init => ContractInv /\ Creation!Init
  BY DEF Init, ContractInv, Creation!Init
<1>2. QED
  BY <1>1, CreationInvariance, ContractInvStep, CreationStep, PTL
  DEF Spec, ImplementsCreation, Creation!Spec

=============================================================================
