----------------------------- MODULE BotCreation -----------------------------
(***************************************************************************)
(* The creation of bots by the api-servers: the idempotency middleware     *)
(* (middleware/idempotency.go), the handler of POST /v2/bots and           *)
(* POST /v2/bots/scheduled (v2/bots.go), the tables and indexes they write *)
(* (migrations 007, 008 and 010) and the deduplication keys in Redis, with *)
(* requests that race, repeat each other, lose their client or their       *)
(* server, and writes that fail or whose reply is lost.                    *)
(*                                                                         *)
(* A call is one HTTP request on its way; the bot it may insert has its    *)
(* name. Everything here belongs to one tenant: every key, row and index   *)
(* of the code is led by the tenant's id.                                  *)
(***************************************************************************)
EXTENDS Naturals

CONSTANTS
    Calls,
    Requests,   \* what clients send
    Keys,       \* values of the header Idempotency-Key
    Bodies,     \* hashes of request bodies
    Meetings,   \* deduplication hashes: a meeting and a minute
    NoKey,      \* no Idempotency-Key header
    NoMeeting,  \* allow_multiple_bots: no deduplication hash
    NoBody, NoBot, NoRequest, NoAnswer

\* The hash of a meeting depends on the clock: one body may come with several.
ASSUME RequestAssumption ==
    /\ Requests \subseteq [key       : Keys \cup {NoKey},
                           body      : Bodies,
                           meeting   : Meetings \cup {NoMeeting},
                           scheduled : BOOLEAN,
                           valid     : BOOLEAN]
    /\ NoKey \notin Keys
    /\ NoMeeting \notin Meetings
    /\ NoBody \notin Bodies
    /\ NoBot \notin Calls
    /\ NoRequest \notin Requests

VARIABLES
    requestHash,    \* idempotency_keys.request_hash, NoBody without a row
    response,       \* idempotency_keys.response_status and response_body
    bots,           \* the rows of the table bots
    outbox,         \* the bots with an event in webhook_event_outbox
    jobs,           \* the bots with a message in the stream bots:jobs
    dedup,          \* the Redis keys dedup:<tenant>:<hash>
    pc,             \* where the goroutine of each call is
    request,
    answer,         \* what the call has written to its ResponseWriter
    gone,           \* the client hung up: the call's context is cancelled
    ran             \* history: the calls whose handler ran

tables   == <<requestHash, response, bots, outbox>>
redis    == <<jobs, dedup>>
callVars == <<pc, request, answer, gone, ran>>
vars     == <<tables, redis, callVars>>

Created(b)  == [status |-> "created", bot |-> b]
Existing(b) == [status |-> "existing", bot |-> b]
Invalid     == [status |-> "invalid", bot |-> NoBot]
Failed      == [status |-> "failed", bot |-> NoBot]
Mismatch    == [status |-> "mismatch", bot |-> NoBot]
InFlight    == [status |-> "inFlight", bot |-> NoBot]

Answers == {Created(b) : b \in Calls} \cup {Existing(b) : b \in Calls}
               \cup {Invalid, Failed, Mismatch, InFlight}

ASSUME AnswerAssumption == NoAnswer \notin Answers

Points == {"idle", "begin", "lookup", "check", "insert", "outbox", "enqueue", "lock",
           "complete", "answered", "lost"}

TypeOK ==
    /\ requestHash \in [Keys -> Bodies \cup {NoBody}]
    /\ response \in [Keys -> Answers \cup {NoAnswer}]
    /\ bots \subseteq Calls
    /\ outbox \subseteq Calls
    /\ jobs \subseteq Calls
    /\ dedup \in [Meetings -> Calls \cup {NoBot}]
    /\ pc \in [Calls -> Points]
    /\ request \in [Calls -> Requests \cup {NoRequest}]
    /\ answer \in [Calls -> Answers \cup {NoAnswer}]
    /\ gone \in [Calls -> BOOLEAN]
    /\ ran \subseteq Calls
    /\ \A c \in Calls : /\ pc[c] # "idle" => request[c] \in Requests
                        /\ pc[c] = "lookup" => request[c].key \in Keys
                        /\ pc[c] \in {"complete", "answered"} => answer[c] \in Answers

Init ==
    /\ requestHash = [k \in Keys |-> NoBody]
    /\ response = [k \in Keys |-> NoAnswer]
    /\ bots = {}
    /\ outbox = {}
    /\ jobs = {}
    /\ dedup = [m \in Meetings |-> NoBot]
    /\ pc = [c \in Calls |-> "idle"]
    /\ request = [c \in Calls |-> NoRequest]
    /\ answer = [c \in Calls |-> NoAnswer]
    /\ gone = [c \in Calls |-> FALSE]
    /\ ran = {}

-----------------------------------------------------------------------------
(* Steps of a call *)

Goto(c, from, to) ==
    /\ pc[c] = from
    /\ pc' = [pc EXCEPT ![c] = to]
    /\ UNCHANGED <<request, gone>>

Answer(c, a) == answer' = [answer EXCEPT ![c] = a]

\* A write under a live context is made or not made; under a cancelled one it is
\* not made. When its error is ignored the code goes on either way.
MaybeAdd(c, table) == (~gone[c] /\ table' = table \cup {c}) \/ table' = table

-----------------------------------------------------------------------------
(* Plausible bugs, used to show that the properties notice; not in Spec.     *)

\* A request that finds its key in flight runs the handler itself.
LookupTakesOver(c) ==
    /\ Goto(c, "lookup", "check")
    /\ ~gone[c]
    /\ response[request[c].key] = NoAnswer
    /\ requestHash[request[c].key] = request[c].body
    /\ ran' = ran \cup {c}
    /\ UNCHANGED <<answer, tables, redis>>

\* A replay that does not look at HashMatch.
LookupAnyBody(c) ==
    LET k == request[c].key
    IN  /\ Goto(c, "lookup", "answered")
        /\ Answer(c, IF response[k] = NoAnswer THEN InFlight ELSE response[k])
        /\ UNCHANGED <<ran, tables, redis>>

\* A replay that looks for the response before it compares the bodies.
LookupResponseFirst(c) ==
    LET k == request[c].key
    IN  /\ Goto(c, "lookup", "answered")
        /\ Answer(c, IF response[k] = NoAnswer THEN InFlight
                     ELSE IF requestHash[k] # request[c].body THEN Mismatch
                     ELSE response[k])
        /\ UNCHANGED <<ran, tables, redis>>

\* An insert whose error is logged only.
InsertErrorIgnored(c) ==
    /\ Goto(c, "insert", "outbox")
    /\ MaybeAdd(c, bots)
    /\ UNCHANGED <<requestHash, response, outbox, answer, ran, redis>>

\* An index on (tenant_id, deduplication_hash) that is not UNIQUE, as in
\* docs/database-design.md.
InsertNoDedupIndex(c) ==
    /\ \/ ~gone[c] /\ Goto(c, "insert", "outbox") /\ bots' = bots \cup {c} /\ UNCHANGED answer
       \/ Goto(c, "insert", "complete") /\ UNCHANGED bots /\ Answer(c, Failed)
    /\ UNCHANGED <<requestHash, response, outbox, ran, redis>>

-----------------------------------------------------------------------------
(* The idempotency middleware *)

Arrive(c) ==
    /\ pc[c] = "idle"
    /\ pc' = [pc EXCEPT ![c] = "begin"]
    /\ \E r \in Requests : request' = [request EXCEPT ![c] = r]
    /\ UNCHANGED <<answer, gone, ran, tables, redis>>

\* The header is missing.
PassThrough(c) ==
    /\ Goto(c, "begin", "check")
    /\ request[c].key = NoKey
    /\ ran' = ran \cup {c}
    /\ UNCHANGED <<answer, tables, redis>>

\* BeginRequest, the INSERT ... ON CONFLICT DO NOTHING: a new row, which starts
\* the handler unless the reply is lost; no row; or an error.
BeginRequest(c) ==
    LET k == request[c].key
    IN  /\ pc[c] = "begin"
        /\ k \in Keys
        /\ \/ /\ ~gone[c]
              /\ requestHash[k] = NoBody
              /\ requestHash' = [requestHash EXCEPT ![k] = request[c].body]
              /\ \/ Goto(c, "begin", "check") /\ ran' = ran \cup {c} /\ UNCHANGED answer
                 \/ Goto(c, "begin", "answered") /\ Answer(c, Failed) /\ UNCHANGED ran
           \/ /\ ~gone[c]
              /\ requestHash[k] # NoBody
              /\ Goto(c, "begin", "lookup")
              /\ UNCHANGED <<requestHash, answer, ran>>
           \/ /\ Goto(c, "begin", "answered")
              /\ Answer(c, Failed)
              /\ UNCHANGED <<requestHash, ran>>
    /\ UNCHANGED <<response, bots, outbox, redis>>

\* BeginRequest, the SELECT of an existing row, and what the middleware answers.
Lookup(c) ==
    LET k == request[c].key
    IN  /\ Goto(c, "lookup", "answered")
        /\ \/ /\ ~gone[c]
              /\ Answer(c, IF requestHash[k] # request[c].body THEN Mismatch
                           ELSE IF response[k] = NoAnswer THEN InFlight
                           ELSE response[k])
           \/ Answer(c, Failed)
        /\ UNCHANGED <<ran, tables, redis>>

\* CompleteRequest, if there is a key, and the return of the handler chain, which
\* flushes the answer to the client.
CompleteRequest(c) ==
    /\ Goto(c, "complete", "answered")
    /\ \/ /\ request[c].key \in Keys
          /\ ~gone[c]
          /\ response' = [response EXCEPT ![request[c].key] = answer[c]]
       \/ UNCHANGED response
    /\ UNCHANGED <<requestHash, bots, outbox, answer, ran, redis>>

-----------------------------------------------------------------------------
(* handleCreate *)

ValidateFails(c) ==
    /\ Goto(c, "check", "complete")
    /\ ~request[c].valid
    /\ Answer(c, Invalid)
    /\ UNCHANGED <<ran, tables, redis>>

\* checkDedup: a GET that fails is a miss.
CheckDedup(c) ==
    LET m == request[c].meeting
    IN  /\ pc[c] = "check"
        /\ request[c].valid
        /\ \/ /\ m \in Meetings
              /\ ~gone[c]
              /\ dedup[m] # NoBot
              /\ Goto(c, "check", "complete")
              /\ Answer(c, Existing(dedup[m]))
           \/ Goto(c, "check", "insert") /\ UNCHANGED answer
        /\ UNCHANGED <<ran, tables, redis>>

\* uq_bots_tenant_idempotency and uq_bots_tenant_dedup.
Unique(c) ==
    \A b \in bots :
        /\ request[b].key = request[c].key => request[c].key = NoKey
        /\ request[b].meeting = request[c].meeting => request[c].meeting = NoMeeting

\* InsertV2, whose error may also be a reply lost after the row was made.
InsertV2(c) ==
    /\ \/ /\ pc[c] = "insert"
          /\ ~gone[c]
          /\ Unique(c)
          /\ bots' = bots \cup {c}
          /\ \/ Goto(c, "insert", "outbox") /\ UNCHANGED answer
             \/ Goto(c, "insert", "complete") /\ Answer(c, Failed)
       \/ /\ Goto(c, "insert", "complete")
          /\ Answer(c, Failed)
          /\ UNCHANGED bots
    /\ UNCHANGED <<requestHash, response, outbox, ran, redis>>

\* Outbox.Append; its error is ignored.
AppendEvent(c) ==
    /\ pc[c] = "outbox"
    /\ Goto(c, "outbox", IF request[c].scheduled THEN "lock" ELSE "enqueue")
    /\ MaybeAdd(c, outbox)
    /\ UNCHANGED <<requestHash, response, bots, answer, ran, redis>>

\* Producer.Enqueue; its error is ignored.
Enqueue(c) ==
    /\ Goto(c, "enqueue", "lock")
    /\ MaybeAdd(c, jobs)
    /\ UNCHANGED <<dedup, answer, ran, tables>>

\* The SET of the deduplication key, whose error is ignored, and the answer.
LockDedup(c) ==
    /\ Goto(c, "lock", "complete")
    /\ Answer(c, Created(c))
    /\ \/ /\ request[c].meeting \in Meetings
          /\ ~gone[c]
          /\ dedup' = [dedup EXCEPT ![request[c].meeting] = c]
       \/ UNCHANGED dedup
    /\ UNCHANGED <<jobs, ran, tables>>

-----------------------------------------------------------------------------
(* What happens around the calls *)

InProgress(c) == pc[c] \notin {"idle", "answered", "lost"}

\* The client hangs up and net/http cancels the request's context.
HangUp(c) ==
    /\ InProgress(c)
    /\ ~gone[c]
    /\ gone' = [gone EXCEPT ![c] = TRUE]
    /\ UNCHANGED <<pc, request, answer, ran, tables, redis>>

\* The api-server that serves the call dies, or the handler panics.
Crash(c) ==
    /\ InProgress(c)
    /\ pc' = [pc EXCEPT ![c] = "lost"]
    /\ UNCHANGED <<request, answer, gone, ran, tables, redis>>

\* One hour after its SET.
ExpireDedup(m) ==
    /\ dedup[m] # NoBot
    /\ dedup' = [dedup EXCEPT ![m] = NoBot]
    /\ UNCHANGED <<jobs, tables, callVars>>

-----------------------------------------------------------------------------

Serve(c) ==
    \/ PassThrough(c) \/ BeginRequest(c) \/ Lookup(c) \/ CompleteRequest(c)
    \/ ValidateFails(c) \/ CheckDedup(c) \/ InsertV2(c)
    \/ AppendEvent(c) \/ Enqueue(c) \/ LockDedup(c)

Next ==
    \/ \E c \in Calls : Arrive(c) \/ Serve(c) \/ HangUp(c) \/ Crash(c)
    \/ \E m \in Meetings : ExpireDedup(m)

Spec == Init /\ [][Next]_vars

-----------------------------------------------------------------------------
(* Safety *)

\* "so the handler never runs twice" (idempotency.go): of all the requests with
\* one key, at most one reaches the handler, whatever races, crashes and lost
\* replies there are.
HandlerRunsOncePerKey ==
    \A c, d \in ran : request[c].key = request[d].key /\ request[c].key # NoKey => c = d

\* A client is only told what a handler answered to the same key and body
\* ("return the original response on replay", migration 007); errors and
\* conflicts tell it to try again.
ReplayIsOriginal ==
    \A c \in Calls :
        pc[c] = "answered" /\ answer[c].status \in {"created", "existing", "invalid"} =>
            \E d \in ran :
                /\ answer[d] = answer[c]
                /\ request[d].key = request[c].key
                /\ request[d].body = request[c].body

\* Whatever names a bot (a job, an event, a deduplication key, an answer kept or
\* given) names one in the table, and a job names one that is not scheduled.
BotsAreStored ==
    /\ jobs \subseteq bots
    /\ outbox \subseteq bots
    /\ \A b \in jobs : ~request[b].scheduled
    /\ \A m \in Meetings : dedup[m] # NoBot => dedup[m] \in bots
    /\ \A k \in Keys : response[k] # NoAnswer /\ response[k].bot # NoBot
                          => response[k].bot \in bots
    /\ \A c \in Calls : answer[c] # NoAnswer /\ answer[c].bot # NoBot => answer[c].bot \in bots

\* Two handlers that answer for one meeting and minute name the same bot, with
\* Redis expired or out of reach as well (bots.go, "partial UNIQUE index as a
\* backstop").
SameMeetingSameBot ==
    \A c, d \in ran :
        /\ request[c].meeting = request[d].meeting
        /\ request[c].meeting # NoMeeting
        /\ answer[c] # NoAnswer /\ answer[c].bot # NoBot
        /\ answer[d] # NoAnswer /\ answer[d].bot # NoBot
        => answer[c].bot = answer[d].bot

-----------------------------------------------------------------------------
(* The contract *)

Creation == INSTANCE CreationContract

\* Whatever races, expires, crashes and fails, the calls together keep the
\* contract: of those with one key one is handled, and the others are told its
\* answer, that it is in flight or that it was another request; a stored bot is
\* answered as created, unless the reply of its insert was lost, and queued
\* before that.
ImplementsCreation == Creation!Spec

=============================================================================
