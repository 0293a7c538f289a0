-------------------------- MODULE CreationContract --------------------------
(***************************************************************************)
(* What the creation of bots promises to its clients and to the rest of    *)
(* the system: of the calls with one key one is handled, the others are    *)
(* told its answer or to come back; a bot is stored once for a meeting,    *)
(* before anyone hears of it, and announced to the workers before its      *)
(* creation is answered. Calls fail at any point. BotCreation implements   *)
(* it.                                                                     *)
(***************************************************************************)

CONSTANTS
    Calls, Requests,
    NoKey, NoMeeting,               \* a request without them
    NoBot, NoRequest, NoAnswer

VARIABLES
    request,    \* what each call asks for
    ran,        \* the calls that are handled
    bots,       \* the bots stored, each named like the call that made it
    jobs,       \* the bots announced to the workers
    answer      \* what each call is told

vars == <<request, ran, bots, jobs, answer>>

Created(b)  == [status |-> "created", bot |-> b]
Existing(b) == [status |-> "existing", bot |-> b]
Without(s)  == [status |-> s, bot |-> NoBot]

Init ==
    /\ request = [c \in Calls |-> NoRequest]
    /\ ran = {}
    /\ bots = {}
    /\ jobs = {}
    /\ answer = [c \in Calls |-> NoAnswer]

SameKey(c, d)     == request[c].key = request[d].key /\ request[c].key # NoKey
SameMeeting(c, d) == request[c].meeting = request[d].meeting /\ request[c].meeting # NoMeeting

Open(c) == request[c] # NoRequest /\ answer[c] = NoAnswer

Arrive(c) ==
    /\ request[c] = NoRequest
    /\ \E r \in Requests : request' = [request EXCEPT ![c] = r]
    /\ UNCHANGED <<ran, bots, jobs, answer>>

Handle(c) ==
    /\ Open(c)
    /\ c \notin ran
    /\ \A d \in ran : ~SameKey(c, d)
    /\ ran' = ran \cup {c}
    /\ UNCHANGED <<request, bots, jobs, answer>>

\* The caller may be told that it failed although it did not.
Store(c) ==
    /\ Open(c)
    /\ c \in ran \ bots
    /\ request[c].valid
    /\ \A b \in bots : ~SameMeeting(c, b)
    /\ bots' = bots \cup {c}
    /\ answer' \in {answer, [answer EXCEPT ![c] = Without("failed")]}
    /\ UNCHANGED <<request, ran, jobs>>

Announce(c) ==
    /\ Open(c)
    /\ c \in bots
    /\ ~request[c].scheduled
    /\ jobs' = jobs \cup {c}
    /\ UNCHANGED <<request, ran, bots, answer>>

\* What the handler of c may answer.
Verdicts(c) ==
    IF ~request[c].valid THEN {Without("invalid")}
    ELSE IF c \in bots THEN {Created(c)}
    ELSE {Without("failed")} \cup {Existing(b) : b \in {d \in bots : SameMeeting(c, d)}}

Decide(c) ==
    /\ Open(c)
    /\ c \in ran
    /\ \E a \in Verdicts(c) : answer' = [answer EXCEPT ![c] = a]
    /\ UNCHANGED <<request, ran, bots, jobs>>

\* What c may be told in place of an answer of its own.
Replies(c) ==
    LET Others == {d \in Calls \ {c} : request[d] # NoRequest /\ SameKey(c, d)}
        Like   == {d \in Others : request[d].body = request[c].body}
    IN  {Without("failed")}
          \cup {Without("mismatch") : d \in Others \ Like}
          \cup {Without("inFlight") : d \in Like}
          \cup {answer[d] : d \in {e \in Like \cap ran : answer[e] # NoAnswer}}

Tell(c) ==
    /\ Open(c)
    /\ c \notin ran
    /\ request[c].key # NoKey
    /\ \E a \in Replies(c) : answer' = [answer EXCEPT ![c] = a]
    /\ UNCHANGED <<request, ran, bots, jobs>>

Next ==
    \E c \in Calls :
        Arrive(c) \/ Handle(c) \/ Store(c) \/ Announce(c) \/ Decide(c) \/ Tell(c)

Spec == Init /\ [][Next]_vars

=============================================================================
