---------------------------- MODULE WebhookSender ----------------------------
(***************************************************************************)
(* webhook.Sender: attempts with a back-off, and the circuit breaker, as   *)
(* one caller uses it, one send after the other. The worker makes two at   *)
(* most, of "failed" in the error state and of "complete" in the cleanup   *)
(* (webhook/types.go). Time is counted in seconds.                         *)
(***************************************************************************)
EXTENDS Naturals

CONSTANTS
    Attempts,     \* 3, whatever SenderOptions.MaxRetries says
    MaxFailures,  \* of SenderOptions
    ResetTimeout, \* of SenderOptions
    Timeout,      \* of the http.Client
    MaxSends,     \* bound: how many sends are made
    LastSecond    \* bound of the clock

ASSUME WebhookAssumption ==
    /\ Attempts \in Nat \ {0}
    /\ MaxFailures \in Nat \ {0}
    /\ ResetTimeout \in Nat \ {0}
    /\ Timeout \in Nat \ {0}
    /\ MaxSends \in Nat
    /\ LastSecond \in Nat

VARIABLES
    clock,
    failures, lastFailure, circuitOpen, \* of the Sender
    send,        \* where Send is, with its loop variable and its next deadline
    sends,       \* how many sends there were
    cancelled,   \* when the context of the caller was done, or Uncancelled
    result,      \* what the last send returned
    streak,      \* history: failed attempts since the last success
    failedAt     \* history: when the last one failed

webhookVars == <<clock, failures, lastFailure, circuitOpen, send, sends, cancelled, result,
                 streak, failedAt>>

Uncancelled == LastSecond + 1

SendRecords == [pc : {"idle", "attempt", "request", "asleep"}, attempt : 0 .. Attempts,
                until : 0 .. LastSecond + Timeout + Attempts]

WebhookTypeOK ==
    /\ clock \in 0 .. LastSecond
    /\ failures \in 0 .. Attempts * MaxSends
    /\ lastFailure \in 0 .. LastSecond
    /\ circuitOpen \in BOOLEAN
    /\ send \in SendRecords
    /\ sends \in 0 .. MaxSends
    /\ cancelled \in 0 .. Uncancelled
    /\ result \in {"none", "delivered", "refused", "exhausted", "cancelled", "skipped"}
    /\ streak \in 0 .. Attempts * MaxSends
    /\ failedAt \in 0 .. LastSecond

Idle == [pc |-> "idle", attempt |-> 0, until |-> 0]

WebhookInit ==
    /\ clock = 0
    /\ failures = 0
    /\ lastFailure = 0
    /\ circuitOpen = FALSE
    /\ send = Idle
    /\ sends = 0
    /\ cancelled = Uncancelled
    /\ result = "none"
    /\ streak = 0
    /\ failedAt = 0

breaker == <<failures, lastFailure, circuitOpen>>
history == <<streak, failedAt>>

Return(r) ==
    /\ send' = Idle
    /\ result' = r

-----------------------------------------------------------------------------
(* Plausible bugs, used to show that the properties notice; not in the       *)
(* specification.                                                            *)

\* A skip that counts as a failure and so puts the reset off.
SkipCounts ==
    /\ send.pc = "idle"
    /\ sends < MaxSends
    /\ circuitOpen
    /\ clock < lastFailure + ResetTimeout
    /\ sends' = sends + 1
    /\ lastFailure' = clock
    /\ result' = "skipped"
    /\ UNCHANGED <<clock, failures, circuitOpen, send, cancelled, streak, failedAt>>

\* A retry without the look at the context.
AttemptUnasked ==
    /\ send.pc = "attempt"
    /\ send' = [send EXCEPT !.pc = "request", !.until = clock + Timeout]
    /\ UNCHANGED <<clock, breaker, sends, cancelled, result, history>>

-----------------------------------------------------------------------------
(* The breaker *)

recordFailure ==
    /\ failures' = failures + 1
    /\ lastFailure' = clock
    /\ circuitOpen' = (circuitOpen \/ failures' >= MaxFailures)
    /\ streak' = streak + 1
    /\ failedAt' = clock

recordSuccess ==
    /\ failures' = 0
    /\ circuitOpen' = FALSE
    /\ streak' = 0
    /\ UNCHANGED <<lastFailure, failedAt>>

-----------------------------------------------------------------------------
(* Send *)

\* isCircuitOpen says so.
Skip ==
    /\ send.pc = "idle"
    /\ sends < MaxSends
    /\ circuitOpen
    /\ clock < lastFailure + ResetTimeout
    /\ sends' = sends + 1
    /\ result' = "skipped"
    /\ UNCHANGED <<clock, breaker, send, cancelled, streak, failedAt>>

\* It does not; a breaker whose time has come is closed.
Begin ==
    /\ send.pc = "idle"
    /\ sends < MaxSends
    /\ circuitOpen => clock >= lastFailure + ResetTimeout
    /\ sends' = sends + 1
    /\ send' = [pc |-> "attempt", attempt |-> 0, until |-> 0]
    /\ circuitOpen' = FALSE
    /\ failures' = IF circuitOpen THEN 0 ELSE failures
    /\ UNCHANGED <<clock, lastFailure, cancelled, result, streak, failedAt>>

Attempt ==
    /\ send.pc = "attempt"
    /\ IF cancelled # Uncancelled
       THEN Return("cancelled")
       ELSE /\ send' = [send EXCEPT !.pc = "request", !.until = clock + Timeout]
            /\ UNCHANGED result
    /\ UNCHANGED <<clock, breaker, sends, cancelled, history>>

\* 2xx.
Delivered ==
    /\ send.pc = "request"
    /\ Return("delivered")
    /\ recordSuccess
    /\ UNCHANGED <<clock, sends, cancelled>>

\* 4xx and 3xx are not retried.
Refused ==
    /\ send.pc = "request"
    /\ Return("refused")
    /\ UNCHANGED <<clock, breaker, sends, cancelled, history>>

\* 5xx, or no answer: the back-off, which the context does not shorten.
Failed ==
    /\ send.pc = "request"
    /\ recordFailure
    /\ send' = [send EXCEPT !.pc = "asleep", !.until = clock + send.attempt + 1]
    /\ UNCHANGED <<clock, sends, cancelled, result>>

Wake ==
    /\ send.pc = "asleep"
    /\ clock >= send.until
    /\ IF send.attempt + 1 < Attempts
       THEN send' = [pc |-> "attempt", attempt |-> send.attempt + 1, until |-> 0]
            /\ UNCHANGED result
       ELSE Return("exhausted")
    /\ UNCHANGED <<clock, breaker, sends, cancelled, history>>

-----------------------------------------------------------------------------
(* Around it *)

Cancel ==
    /\ cancelled = Uncancelled
    /\ cancelled' = clock
    /\ UNCHANGED <<clock, breaker, send, sends, result, history>>

\* Steps of the code take no time. A request ends by its timeout, or at once when
\* its context is done; a sleep ends when it is over.
ClockTick ==
    /\ clock < LastSecond
    /\ send.pc # "attempt"
    /\ send.pc \in {"request", "asleep"} => clock < send.until
    /\ send.pc = "request" => cancelled = Uncancelled
    /\ clock' = clock + 1
    /\ UNCHANGED <<breaker, send, sends, cancelled, result, history>>

WebhookNext ==
    \/ Skip \/ Begin \/ Attempt
    \/ Delivered \/ Refused \/ Failed
    \/ Wake
    \/ Cancel \/ ClockTick

WebhookSpec == WebhookInit /\ [][WebhookNext]_webhookVars

-----------------------------------------------------------------------------
(* Properties *)

\* The breaker never keeps back an event for nothing: a send ends as it begins only
\* when MaxFailures attempts have failed without a success between them, the last
\* of them less than ResetTimeout ago; skips do not put that off.
SkippedMeansFailing ==
    [][sends' = sends + 1 /\ send'.pc = "idle" =>
           streak >= MaxFailures /\ clock < failedAt + ResetTimeout]_webhookVars

\* The breaker is asked once a send, and a send adds Attempts failures at most: with
\* five and three the two events of a worker are both attempted, whatever the first
\* one met.
BothEventsAreAttempted == result = "skipped" => (sends - 1) * Attempts >= MaxFailures

\* A worker that is told to stop is held up by the longest back-off at most: no
\* second request is made and no second sleep begun.
CancelledSendEnds ==
    send.pc \in {"request", "asleep"} /\ cancelled # Uncancelled => clock <= cancelled + Attempts

=============================================================================
