------------------------- MODULE WorkerServicesProofs -------------------------
(***************************************************************************)
(* What holds of WebhookSender for any limits, and of DialogObserver for   *)
(* any pages, patterns and loops, proved.                                  *)
(***************************************************************************)
EXTENDS WebhookSender, DialogObserver, TLAPS

-----------------------------------------------------------------------------
(* The webhook sender: its invariant, in named parts *)

\* The attempts of n sends that were begun, the last up to where it is now.
Made(at, n) ==
    CASE at.pc = "idle"   -> Attempts * n
      [] at.pc = "asleep" -> Attempts * (n - 1) + at.attempt + 1
      [] OTHER            -> Attempts * (n - 1) + at.attempt

\* The breaker counts what has failed since the last success, or since it was last
\* closed, and is open only when that is too much.
BreakerInv ==
    /\ failures <= streak
    /\ streak <= Made(send, sends)
    /\ circuitOpen => failures >= MaxFailures
    /\ lastFailure = failedAt

SendInv ==
    /\ send.pc # "idle" => sends > 0 /\ send.attempt < Attempts
    /\ send.pc = "request" /\ cancelled # Uncancelled => clock = cancelled
    /\ send.pc = "asleep" =>
           /\ clock <= send.until
           /\ send.until <= clock + Attempts
           /\ cancelled # Uncancelled => send.until <= cancelled + Attempts
    /\ cancelled # Uncancelled => cancelled <= clock

WInv ==
    /\ WebhookTypeOK
    /\ BreakerInv
    /\ SendInv
    /\ BothEventsAreAttempted

\* The parts of the record send.
LEMMA SendRecord ==
    ASSUME WebhookTypeOK
    PROVE  /\ send.pc \in {"idle", "attempt", "request", "asleep"}
           /\ send.attempt \in 0 .. Attempts
           /\ send.until \in 0 .. LastSecond + Timeout + Attempts
           /\ clock \in 0 .. LastSecond /\ clock \in Nat
           /\ sends \in Nat /\ failures \in Nat /\ streak \in Nat /\ cancelled \in Nat
           /\ failedAt \in Nat /\ sends <= MaxSends
BY WebhookAssumption DEF WebhookTypeOK, SendRecords, Uncancelled

LEMMA MoreSends ==
    ASSUME NEW n \in Nat
    PROVE  /\ Attempts * n \in Nat
           /\ Attempts * (n + 1) = Attempts * n + Attempts
           /\ n <= MaxSends => Attempts * n <= Attempts * MaxSends
BY WebhookAssumption, SMTT(20)

LEMMA MadeBound ==
    ASSUME NEW at \in SendRecords, NEW n \in 0 .. MaxSends,
           at.pc # "idle" => n > 0 /\ at.attempt < Attempts
    PROVE  Made(at, n) \in Nat /\ Made(at, n) <= Attempts * MaxSends
<1>1. Attempts * n \in Nat /\ Attempts * n <= Attempts * MaxSends /\ Attempts * MaxSends \in Nat
    BY MoreSends, WebhookAssumption
<1>2. at.attempt \in Nat /\ at.pc \in {"idle", "attempt", "request", "asleep"}
    BY DEF SendRecords
<1>3. CASE at.pc = "idle"
    BY <1>1, <1>3 DEF Made
<1>4. CASE at.pc # "idle"
    <2>1. Attempts * n = Attempts * (n - 1) + Attempts /\ Attempts * (n - 1) \in Nat
        <3>1. n - 1 \in Nat /\ (n - 1) + 1 = n
            BY <1>4
        <3> QED BY <3>1, MoreSends
    <2>2. CASE at.pc = "asleep"
        BY <1>1, <1>2, <1>4, <2>1, <2>2, WebhookAssumption DEF Made
    <2>3. CASE at.pc # "asleep"
        BY <1>1, <1>2, <1>4, <2>1, <2>3, WebhookAssumption DEF Made
    <2> QED BY <2>2, <2>3
<1> QED BY <1>3, <1>4

LEMMA InitWInv == WebhookInit => WInv
<1> SUFFICES ASSUME WebhookInit PROVE WInv
    OBVIOUS
<1>1. Attempts * 0 = 0 /\ Attempts * MaxSends \in Nat
    BY WebhookAssumption
<1>2. WebhookTypeOK
    <2>1. send \in SendRecords
        BY WebhookAssumption DEF WebhookInit, Idle, SendRecords
    <2>2. 0 \in 0 .. Attempts * MaxSends
        BY <1>1
    <2>3. 0 \in 0 .. LastSecond /\ 0 \in 0 .. MaxSends /\ Uncancelled \in 0 .. Uncancelled
        BY WebhookAssumption DEF Uncancelled
    <2> QED BY <2>1, <2>2, <2>3 DEF WebhookInit, WebhookTypeOK
<1>3. BreakerInv
    <2>1. Made(Idle, 0) = Attempts * 0
        BY DEF Made, Idle
    <2>2. /\ failures = 0 /\ streak = 0 /\ ~circuitOpen /\ lastFailure = failedAt
          /\ Made(send, sends) = 0
        BY <1>1, <2>1 DEF WebhookInit
    <2> QED BY <2>2 DEF BreakerInv
<1>4. SendInv /\ BothEventsAreAttempted
    BY DEF WebhookInit, SendInv, Idle, BothEventsAreAttempted
<1> QED BY <1>2, <1>3, <1>4 DEF WInv

\* The types follow from the rest of the invariant and the types of the step's own
\* variables.
LEMMA WTypes ==
    ASSUME WInv, send' \in SendRecords, sends' \in 0 .. MaxSends, SendInv', BreakerInv',
           failures' \in Nat, streak' \in Nat, circuitOpen' \in BOOLEAN,
           clock' \in 0 .. LastSecond, lastFailure' \in 0 .. LastSecond,
           failedAt' \in 0 .. LastSecond, cancelled' \in 0 .. Uncancelled,
           result' \in {"none", "delivered", "refused", "exhausted", "cancelled", "skipped"}
    PROVE  WebhookTypeOK'
<1>1. Made(send', sends') \in Nat /\ Made(send', sends') <= Attempts * MaxSends
    BY MadeBound DEF SendInv
<1>2. Attempts * MaxSends \in Nat
    BY WebhookAssumption
<1>3. failures' \in 0 .. Attempts * MaxSends /\ streak' \in 0 .. Attempts * MaxSends
    BY <1>1, <1>2 DEF BreakerInv
<1> QED BY <1>3 DEF WebhookTypeOK, Uncancelled

\* What a step between sends, and what one within a send, knows of the attempts.
LEMMA MadeIdle ==
    ASSUME WInv, send.pc = "idle"
    PROVE  /\ Made(send, sends) = Attempts * sends
           /\ Attempts * sends \in Nat
           /\ Attempts * (sends + 1) = Attempts * sends + Attempts
           /\ sends > 0 => Attempts * sends = (sends - 1) * Attempts + Attempts
           /\ sends > 0 => (sends - 1) * Attempts \in Nat
<1>1. sends \in Nat
    BY SendRecord DEF WInv
<1>2. Made(send, sends) = Attempts * sends
    BY DEF Made
<1>3. ASSUME sends > 0
      PROVE  /\ Attempts * sends = (sends - 1) * Attempts + Attempts
             /\ (sends - 1) * Attempts \in Nat
    <2>1. sends - 1 \in Nat /\ (sends - 1) + 1 = sends
        BY <1>1, <1>3
    <2>2. Attempts * (sends - 1) = (sends - 1) * Attempts
        BY <2>1, WebhookAssumption
    <2> QED BY <2>1, <2>2, MoreSends
<1> QED BY <1>1, <1>2, <1>3, MoreSends

LEMMA MadeWithin ==
    ASSUME WInv, send.pc # "idle"
    PROVE  /\ Attempts * (sends - 1) \in Nat
           /\ Attempts * sends = Attempts * (sends - 1) + Attempts
           /\ send.pc = "asleep" => Made(send, sends) = Attempts * (sends - 1) + send.attempt + 1
           /\ send.pc # "asleep" => Made(send, sends) = Attempts * (sends - 1) + send.attempt
           /\ send.attempt + 1 <= Attempts
<1>1. sends - 1 \in Nat /\ (sends - 1) + 1 = sends /\ send.attempt < Attempts
    BY SendRecord DEF WInv, SendInv
<1>2. Attempts * (sends - 1) \in Nat /\ Attempts * sends = Attempts * (sends - 1) + Attempts
    BY <1>1, MoreSends
<1> QED BY <1>1, <1>2, SendRecord, WebhookAssumption DEF WInv, Made

LEMMA SkipWInv == WInv /\ Skip => WInv'
<1> SUFFICES ASSUME WInv, Skip PROVE WInv'
    OBVIOUS
<1>1. /\ UNCHANGED <<clock, failures, lastFailure, circuitOpen, send, cancelled, streak, failedAt>>
      /\ sends' = sends + 1 /\ sends' \in 0 .. MaxSends /\ send.pc = "idle" /\ circuitOpen
      /\ result' = "skipped"
    BY SendRecord, WebhookAssumption DEF Skip, breaker, WInv, WebhookTypeOK
<1>2. Made(send', sends') = Made(send, sends) + Attempts /\ Made(send, sends) = Attempts * sends
      /\ Attempts * sends \in Nat
    BY <1>1, MadeIdle DEF Made
<1>3. BreakerInv'
    BY <1>1, <1>2, SendRecord, WebhookAssumption DEF WInv, BreakerInv
<1>4. SendInv'
    BY <1>1 DEF WInv, SendInv, Uncancelled
<1>5. BothEventsAreAttempted'
    <2>1. Attempts * sends >= MaxFailures
        BY <1>1, <1>2, SendRecord, WebhookAssumption DEF WInv, BreakerInv
    <2>2. (sends' - 1) * Attempts = Attempts * sends
        BY <1>1, SendRecord, WebhookAssumption DEF WInv
    <2> QED BY <2>1, <2>2 DEF BothEventsAreAttempted
<1>6. WebhookTypeOK'
    BY <1>1, <1>3, <1>4, WTypes DEF WInv, WebhookTypeOK
<1> QED BY <1>3, <1>4, <1>5, <1>6 DEF WInv

LEMMA BeginWInv == WInv /\ Begin => WInv'
<1> SUFFICES ASSUME WInv, Begin PROVE WInv'
    OBVIOUS
<1>1. /\ UNCHANGED <<clock, lastFailure, cancelled, result, streak, failedAt>>
      /\ sends' = sends + 1 /\ sends' \in 0 .. MaxSends /\ send.pc = "idle"
      /\ circuitOpen' = FALSE
      /\ failures' = 0 \/ (~circuitOpen /\ failures' = failures)
      /\ send' = [pc |-> "attempt", attempt |-> 0, until |-> 0]
    BY SendRecord, WebhookAssumption DEF Begin, WInv, WebhookTypeOK
<1>2. Made(send', sends') = Made(send, sends)
    <2>1. (sends + 1) - 1 = sends
        BY SendRecord DEF WInv
    <2> QED BY <1>1, <2>1, MadeIdle DEF Made
<1>3. BreakerInv'
    BY <1>1, <1>2, SendRecord DEF WInv, BreakerInv
<1>4. SendInv'
    BY <1>1, SendRecord, WebhookAssumption DEF WInv, SendInv, Uncancelled
<1>5. BothEventsAreAttempted'
    <2>1. CASE result = "skipped"
        <3>1. (sends - 1) * Attempts >= MaxFailures
            BY <2>1 DEF WInv, BothEventsAreAttempted
        <3>2. sends > 0
            BY <3>1, SendRecord, WebhookAssumption, SMTT(20) DEF WInv
        <3>3. (sends' - 1) * Attempts = (sends - 1) * Attempts + Attempts
            BY <1>1, <3>2, SendRecord, MadeIdle, WebhookAssumption DEF WInv
        <3> QED BY <3>1, <3>2, <3>3, <1>1, MadeIdle, WebhookAssumption DEF BothEventsAreAttempted
    <2> QED BY <1>1, <2>1 DEF BothEventsAreAttempted
<1>6. WebhookTypeOK'
    <2>1. send' \in SendRecords
        BY <1>1, WebhookAssumption DEF SendRecords
    <2>2. failures' \in Nat /\ streak' \in Nat
        BY <1>1, SendRecord DEF WInv
    <2> QED BY <1>1, <1>3, <1>4, <2>1, <2>2, WTypes DEF WInv, WebhookTypeOK
<1> QED BY <1>3, <1>4, <1>5, <1>6 DEF WInv

LEMMA IdleRecord == Idle \in SendRecords
BY WebhookAssumption DEF Idle, SendRecords

\* A send that ends or goes on without a failure.
LEMMA QuietSendWInv ==
    ASSUME WInv, Attempt \/ Delivered \/ Refused \/ Wake
    PROVE  WInv'
<1>1. /\ send.pc # "idle"
      /\ UNCHANGED <<clock, sends, cancelled, lastFailure, failedAt>>
      /\ \/ UNCHANGED <<failures, circuitOpen, streak>>
         \/ failures' = 0 /\ streak' = 0 /\ circuitOpen' = FALSE
    BY DEF Attempt, Delivered, Refused, Wake, recordSuccess, breaker, history
<1>2. /\ clock \in 0 .. LastSecond /\ send.attempt \in 0 .. Attempts /\ sends \in Nat
      /\ failures \in Nat /\ streak \in Nat /\ cancelled \in Nat /\ sends > 0
      /\ send.attempt < Attempts /\ send \in SendRecords
    BY <1>1, SendRecord DEF WInv, SendInv, WebhookTypeOK
<1>3. \/ send' = Idle /\ result' \in {"delivered", "refused", "exhausted", "cancelled"}
      \/ /\ send.pc = "attempt" /\ cancelled = Uncancelled /\ result' = result
         /\ send' = [send EXCEPT !.pc = "request", !.until = clock + Timeout]
      \/ /\ send.pc = "asleep" /\ send.attempt + 1 < Attempts /\ result' = result
         /\ send' = [pc |-> "attempt", attempt |-> send.attempt + 1, until |-> 0]
    BY DEF Attempt, Delivered, Refused, Wake, Return
<1>4. send' \in SendRecords /\ SendInv' /\ streak <= Made(send', sends)
    <2>1. streak <= Made(send, sends)
        BY DEF WInv, BreakerInv
    <2>2. CASE send' = Idle
        <3>1. Made(send', sends) = Attempts * sends
            BY <2>2 DEF Made, Idle
        <3>2. Made(send, sends) <= Attempts * sends
            BY <1>1, <1>2, MadeWithin, WebhookAssumption
        <3>3. SendInv'
            BY <1>1, <2>2 DEF Idle, SendInv, WInv, Uncancelled
        <3>4. Made(send, sends) \in Nat /\ Attempts * sends \in Nat
            BY <1>1, <1>2, MadeWithin, WebhookAssumption
        <3> QED BY <1>2, <2>1, <2>2, <3>1, <3>2, <3>3, <3>4, IdleRecord
    <2>3. CASE /\ send.pc = "attempt" /\ cancelled = Uncancelled
               /\ send' = [send EXCEPT !.pc = "request", !.until = clock + Timeout]
        <3>1. clock + Timeout \in 0 .. LastSecond + Timeout + Attempts
            BY <1>2, WebhookAssumption
        <3>2. /\ send' \in SendRecords /\ send'.pc = "request" /\ send'.attempt = send.attempt
            BY <1>2, <2>3, <3>1 DEF SendRecords
        <3>3. Made(send', sends) = Made(send, sends)
            BY <2>3, <3>2 DEF Made
        <3>4. SendInv'
            BY <1>1, <1>2, <2>3, <3>2 DEF SendInv, Uncancelled
        <3> QED BY <2>1, <3>2, <3>3, <3>4
    <2>4. CASE /\ send.pc = "asleep" /\ send.attempt + 1 < Attempts
               /\ send' = [pc |-> "attempt", attempt |-> send.attempt + 1, until |-> 0]
        <3>1. send' \in SendRecords
            BY <1>2, <2>4, WebhookAssumption DEF SendRecords
        <3>2. Made(send', sends) = Attempts * (sends - 1) + (send.attempt + 1)
            BY <2>4 DEF Made
        <3>3. Made(send', sends) = Made(send, sends)
            BY <1>1, <1>2, <2>4, <3>2, MadeWithin
        <3>4. SendInv'
            BY <1>1, <1>2, <2>4 DEF SendInv, WInv, Uncancelled
        <3> QED BY <2>1, <3>1, <3>3, <3>4
    <2> QED BY <1>3, <2>2, <2>3, <2>4
<1>5. 0 <= Made(send', sends)
    BY <1>2, <1>4, MadeBound DEF WInv, WebhookTypeOK, SendInv
<1>6. BreakerInv'
    BY <1>1, <1>2, <1>4, <1>5, WebhookAssumption DEF WInv, BreakerInv
<1>7. BothEventsAreAttempted'
    BY <1>1, <1>3 DEF WInv, BothEventsAreAttempted
<1>8. WebhookTypeOK'
    <2>3. circuitOpen' \in BOOLEAN
        BY <1>1, Zenon DEF WInv, WebhookTypeOK
    <2>1. /\ failures' \in Nat /\ streak' \in Nat
          /\ lastFailure' \in 0 .. LastSecond /\ failedAt' \in 0 .. LastSecond
          /\ sends' \in 0 .. MaxSends /\ clock' \in 0 .. LastSecond
          /\ cancelled' \in 0 .. Uncancelled
        BY <1>1, <1>2 DEF WInv, WebhookTypeOK, Uncancelled
    <2>2. result' \in {"none", "delivered", "refused", "exhausted", "cancelled", "skipped"}
        BY <1>3 DEF WInv, WebhookTypeOK
    <2> QED BY <1>4, <1>6, <2>1, <2>2, <2>3, WTypes
<1> QED BY <1>4, <1>6, <1>7, <1>8 DEF WInv

LEMMA FailedWInv == WInv /\ Failed => WInv'
<1> SUFFICES ASSUME WInv, Failed PROVE WInv'
    OBVIOUS
<1>1. /\ send.pc = "request" /\ UNCHANGED <<clock, sends, cancelled, result>>
      /\ send' = [send EXCEPT !.pc = "asleep", !.until = clock + send.attempt + 1]
      /\ failures' = failures + 1 /\ streak' = streak + 1
      /\ lastFailure' = clock /\ failedAt' = clock
      /\ circuitOpen' = (circuitOpen \/ failures' >= MaxFailures)
    BY DEF Failed, recordFailure
<1>2. /\ clock \in 0 .. LastSecond /\ send.attempt \in 0 .. Attempts /\ sends \in Nat
      /\ failures \in Nat /\ streak \in Nat /\ cancelled \in Nat /\ sends > 0
      /\ send.attempt < Attempts /\ send \in SendRecords
    BY <1>1, SendRecord DEF WInv, SendInv, WebhookTypeOK
<1>3. clock + send.attempt + 1 \in 0 .. LastSecond + Timeout + Attempts
    BY <1>2, WebhookAssumption
<1>4. /\ send' \in SendRecords /\ send'.pc = "asleep" /\ send'.attempt = send.attempt
      /\ send'.until = clock + send.attempt + 1
    BY <1>1, <1>2, <1>3 DEF SendRecords
<1>5. Made(send', sends') = Made(send, sends) + 1 /\ Made(send, sends) \in Nat
    BY <1>1, <1>2, <1>4, MadeWithin DEF Made
<1>6. BreakerInv'
    <2>1. failures <= streak /\ streak <= Made(send, sends) /\ (circuitOpen => failures >= MaxFailures)
        BY DEF WInv, BreakerInv
    <2>2. circuitOpen' => circuitOpen \/ failures' >= MaxFailures
        BY <1>1
    <2>3. failures' <= streak' /\ streak' <= Made(send', sends')
        BY <1>1, <1>2, <1>5, <2>1
    <2>4. circuitOpen' => failures' >= MaxFailures
        BY <1>1, <1>2, <2>1, <2>2, WebhookAssumption
    <2> QED BY <1>1, <2>3, <2>4 DEF BreakerInv
<1>7. SendInv'
    <2>1. cancelled # Uncancelled => clock = cancelled
        BY <1>1 DEF WInv, SendInv
    <2> QED BY <1>1, <1>2, <1>4, <2>1, WebhookAssumption DEF SendInv, Uncancelled
<1>8. BothEventsAreAttempted'
    BY <1>1 DEF WInv, BothEventsAreAttempted
<1>9. WebhookTypeOK'
    <2>1. /\ failures' \in Nat /\ streak' \in Nat /\ circuitOpen' \in BOOLEAN
          /\ lastFailure' \in 0 .. LastSecond /\ failedAt' \in 0 .. LastSecond
        BY <1>1, <1>2 DEF WInv, WebhookTypeOK
    <2>2. /\ sends' \in 0 .. MaxSends /\ clock' \in 0 .. LastSecond
          /\ cancelled' \in 0 .. Uncancelled
          /\ result' \in {"none", "delivered", "refused", "exhausted", "cancelled", "skipped"}
        BY <1>1 DEF WInv, WebhookTypeOK
    <2> QED BY <1>4, <1>6, <1>7, <2>1, <2>2, WTypes
<1> QED BY <1>6, <1>7, <1>8, <1>9 DEF WInv

LEMMA AroundWInv ==
    ASSUME WInv, Cancel \/ ClockTick \/ UNCHANGED webhookVars
    PROVE  WInv'
<1>1. UNCHANGED <<failures, lastFailure, circuitOpen, send, sends, result, streak, failedAt>>
    BY DEF Cancel, ClockTick, webhookVars, breaker, history
<1>2. /\ clock \in Nat /\ cancelled \in Nat /\ send.until \in Nat
      /\ clock' \in 0 .. LastSecond /\ cancelled' \in 0 .. Uncancelled
    BY SendRecord, WebhookAssumption DEF WInv, WebhookTypeOK, Cancel, ClockTick, webhookVars,
        Uncancelled
<1>3. BreakerInv' /\ BothEventsAreAttempted'
    BY <1>1 DEF WInv, BreakerInv, BothEventsAreAttempted
<1>4. SendInv'
    <2>1. CASE Cancel
        BY <1>1, <1>2, <2>1, WebhookAssumption DEF Cancel, WInv, SendInv, Uncancelled
    <2>2. CASE ClockTick
        BY <1>1, <1>2, <2>2, WebhookAssumption DEF ClockTick, WInv, SendInv, Uncancelled
    <2>3. CASE UNCHANGED webhookVars
        BY <2>3 DEF webhookVars, WInv, SendInv, Uncancelled
    <2> QED BY <2>1, <2>2, <2>3
<1>5. WebhookTypeOK'
    BY <1>1, <1>2 DEF WInv, WebhookTypeOK, Uncancelled
<1> QED BY <1>3, <1>4, <1>5 DEF WInv

LEMMA NextWInv == WInv /\ [WebhookNext]_webhookVars => WInv'
BY SkipWInv, BeginWInv, QuietSendWInv, FailedWInv, AroundWInv DEF WebhookNext

THEOREM WebhookInvariance == WebhookSpec => []WInv
BY InitWInv, NextWInv, PTL DEF WebhookSpec

\* Every variable of the sender keeps its type: it never counts more failures than
\* it makes attempts.
THEOREM WebhookTypeCorrect == WebhookSpec => []WebhookTypeOK
BY WebhookInvariance, PTL DEF WInv

\* An event is given up unattempted only after as many sends as MaxFailures takes.
THEOREM EventsAttempted == WebhookSpec => []BothEventsAreAttempted
BY WebhookInvariance, PTL DEF WInv

\* A cancelled caller waits for one back-off at most.
THEOREM SendEnds == WebhookSpec => []CancelledSendEnds
<1>1. WInv => CancelledSendEnds
    <2> SUFFICES ASSUME WInv, send.pc \in {"request", "asleep"}, cancelled # Uncancelled
                 PROVE  clock <= cancelled + Attempts
        BY DEF CancelledSendEnds
    <2>1. clock \in Nat /\ cancelled \in Nat /\ send.until \in Nat
        BY SendRecord, WebhookAssumption DEF WInv
    <2> QED BY <2>1, WebhookAssumption DEF WInv, SendInv
<1> QED BY <1>1, WebhookInvariance, PTL

\* The breaker skips only while it is failing: MaxFailures in a row, the last of
\* them less than ResetTimeout ago.
THEOREM SkipsAreEarned == WebhookSpec => SkippedMeansFailing
<1>1. WInv /\ [WebhookNext]_webhookVars =>
          [sends' = sends + 1 /\ send'.pc = "idle" =>
               streak >= MaxFailures /\ clock < failedAt + ResetTimeout]_webhookVars
    <2> SUFFICES ASSUME WInv, WebhookNext, sends' = sends + 1, send'.pc = "idle"
                 PROVE  streak >= MaxFailures /\ clock < failedAt + ResetTimeout
        OBVIOUS
    <2>1. sends \in Nat /\ sends + 1 # sends
        BY SendRecord DEF WInv
    <2>2. Skip
        BY <2>1 DEF WebhookNext, Begin, Attempt, Delivered, Refused, Failed, Wake, Cancel,
            ClockTick
    <2> QED BY <2>2, SendRecord, WebhookAssumption DEF Skip, WInv, BreakerInv
<1> QED BY <1>1, WebhookInvariance, PTL DEF WebhookSpec, SkippedMeansFailing

-----------------------------------------------------------------------------
(* The dialog observer: its invariant, in named parts *)

InCycle(l) == loops[l].pc \in {"look", "press"}

\* A loop in a cycle has not pressed since the observer is paused, and none has while
\* it is not.
LateInv ==
    \A l \in Loops :
        /\ late[l] <= 1
        /\ ~observerPaused => late[l] = 0
        /\ InCycle(l) => late[l] = 0

\* A loop in a cycle on another page has not pressed there since the last Attach.
AstrayInv ==
    \A l \in Loops :
        /\ astray[l] <= 1
        /\ InCycle(l) /\ loops[l].page # page => astray[l] = 0
        /\ InCycle(l) => loops[l].page \in Pages

OInv ==
    /\ DialogTypeOK
    /\ OnlyCurrentIsLive
    /\ LateInv
    /\ AstrayInv

LEMMA LoopRecord ==
    ASSUME DialogTypeOK, NEW l \in Loops
    PROVE  /\ loops[l] \in LoopRecords
           /\ loops[l].pc \in {"none", "select", "look", "press", "ended"}
           /\ loops[l].live \in BOOLEAN
           /\ loops[l].page \in Pages \cup {NoPage}
           /\ loops[l].pat \in Patterns \cup {0}
           /\ late[l] \in Nat /\ astray[l] \in Nat
BY DEF DialogTypeOK, LoopRecords

\* The records of the loops after a step that changes one of them.
LEMMA LoopSet ==
    ASSUME DialogTypeOK, NEW l \in Loops, NEW r \in LoopRecords, loops' = [loops EXCEPT ![l] = r]
    PROVE  /\ loops' \in [Loops -> LoopRecords] /\ loops'[l] = r
           /\ \A m \in Loops \ {l} : loops'[m] = loops[m]
BY DEF DialogTypeOK

\* Cancelling changes nothing but live.
LEMMA CancelledLoops ==
    ASSUME DialogTypeOK, NEW c \in Loops \cup {NoLoop}
    PROVE  /\ Cancelled(loops, c) \in [Loops -> LoopRecords]
           /\ \A l \in Loops :
                  /\ Cancelled(loops, c)[l].pc = loops[l].pc
                  /\ Cancelled(loops, c)[l].page = loops[l].page
                  /\ Cancelled(loops, c)[l].live => loops[l].live /\ l # c
<1>1. NoLoop \notin Loops
    BY DEF NoLoop, Loops
<1>2. CASE c = NoLoop
    BY <1>1, <1>2 DEF Cancelled, DialogTypeOK
<1>3. CASE c # NoLoop
    <2> DEFINE r == [loops[c] EXCEPT !.live = FALSE]
    <2>1. c \in Loops /\ Cancelled(loops, c) = [loops EXCEPT ![c] = r]
        BY <1>3 DEF Cancelled
    <2>2. r \in LoopRecords /\ r.pc = loops[c].pc /\ r.page = loops[c].page /\ ~r.live
        BY <2>1, LoopRecord DEF LoopRecords
    <2> HIDE DEF r
    <2> QED BY <2>1, <2>2 DEF DialogTypeOK
<1> QED BY <1>2, <1>3

LEMMA InitOInv == DialogInit => OInv
<1> SUFFICES ASSUME DialogInit PROVE OInv
    OBVIOUS
<1>1. NotStarted \in LoopRecords
    BY DEF NotStarted, LoopRecords
<1>2. DialogTypeOK
    <2>1. loops \in [Loops -> LoopRecords]
        BY <1>1 DEF DialogInit
    <2>2. attached \in 0 .. MaxLoops /\ appeared \in 0 .. MaxDialogs
        BY DialogAssumption DEF DialogInit
    <2> QED BY <2>1, <2>2 DEF DialogInit, DialogTypeOK
<1>3. \A l \in Loops : loops[l] = NotStarted /\ late[l] = 0 /\ astray[l] = 0
    BY DEF DialogInit
<1> QED BY <1>2, <1>3 DEF OInv, OnlyCurrentIsLive, LateInv, AstrayInv, InCycle, NotStarted

\* The steps of the callers.
LEMMA CallersOInv == OInv /\ Callers => OInv'
<1> SUFFICES ASSUME OInv, Callers PROVE OInv'
    OBVIOUS
<1>1. DialogTypeOK /\ OnlyCurrentIsLive /\ LateInv /\ AstrayInv
    BY DEF OInv
<1>2. ASSUME NEW auto \in Answers, Subscribe(auto) PROVE OInv'
    <2>1. DialogTypeOK'
        BY <1>1, <1>2 DEF Subscribe, DialogTypeOK
    <2> QED BY <1>1, <1>2, <2>1 DEF Subscribe, OInv, OnlyCurrentIsLive, LateInv, AstrayInv, InCycle
<1>3. CASE Pause
    <2>1. late' = late \/ late' = Nowhere
        BY <1>3 DEF Pause
    <2>2. DialogTypeOK'
        BY <1>1, <1>3, <2>1 DEF Pause, DialogTypeOK, Nowhere
    <2>3. LateInv'
        BY <1>1, <1>3 DEF Pause, LateInv, InCycle, Nowhere
    <2> QED BY <1>1, <1>3, <2>2, <2>3 DEF Pause, OInv, OnlyCurrentIsLive, AstrayInv, InCycle
<1>4. CASE Resume
    <2>1. DialogTypeOK'
        BY <1>1, <1>4 DEF Resume, DialogTypeOK, Nowhere
    <2>2. LateInv'
        BY <1>1, <1>4 DEF Resume, LateInv, InCycle, Nowhere
    <2> QED BY <1>1, <1>4, <2>1, <2>2 DEF Resume, OInv, OnlyCurrentIsLive, AstrayInv, InCycle
<1>5. ASSUME NEW p \in Pages, Attach(p) PROVE OInv'
    <2> DEFINE fresh == [NotStarted EXCEPT !.pc = "select", !.live = TRUE]
               left == Cancelled(loops, cancel)
    <2>1. /\ attached' = attached + 1 /\ cancel' = attached' /\ page' = p
          /\ loops' = [left EXCEPT ![attached'] = fresh]
          /\ astray' = Nowhere
          /\ UNCHANGED <<handlers, observerPaused, dialogs, appeared, late>>
        BY <1>5 DEF Attach
    <2>2. attached' \in Loops /\ attached' \in 0 .. MaxLoops /\ cancel \in Loops \cup {NoLoop}
        BY <1>1, <1>5, DialogAssumption DEF Attach, DialogTypeOK, Loops
    <2>3. fresh \in LoopRecords /\ fresh.pc = "select"
        BY DEF NotStarted, LoopRecords
    <2>4. /\ left \in [Loops -> LoopRecords]
          /\ \A l \in Loops : left[l].pc = loops[l].pc /\ left[l].page = loops[l].page
                              /\ (left[l].live => loops[l].live /\ l # cancel)
        BY <1>1, <2>2, CancelledLoops
    <2> HIDE DEF fresh, left
    <2>5. /\ loops' \in [Loops -> LoopRecords] /\ loops'[attached'] = fresh
          /\ \A l \in Loops : l # attached' => loops'[l] = left[l]
        BY <2>1, <2>2, <2>3, <2>4
    <2>6. DialogTypeOK'
        BY <1>1, <2>1, <2>2, <2>5 DEF DialogTypeOK, Nowhere
    <2>7. OnlyCurrentIsLive'
        BY <1>1, <2>1, <2>4, <2>5 DEF OnlyCurrentIsLive
    <2>8. LateInv' /\ AstrayInv'
        BY <1>1, <2>1, <2>3, <2>4, <2>5 DEF LateInv, AstrayInv, InCycle, Nowhere
    <2> QED BY <2>6, <2>7, <2>8 DEF OInv
<1>6. CASE Stop
    <2>1. /\ loops' = Cancelled(loops, cancel) /\ cancel' = NoLoop
          /\ UNCHANGED <<handlers, observerPaused, page, attached, dialogs, appeared, late, astray>>
        BY <1>6 DEF Stop
    <2>2. /\ loops' \in [Loops -> LoopRecords]
          /\ \A l \in Loops : loops'[l].pc = loops[l].pc /\ loops'[l].page = loops[l].page
                              /\ (loops'[l].live => loops[l].live /\ l # cancel)
        BY <1>1, <2>1, CancelledLoops DEF DialogTypeOK
    <2>3. DialogTypeOK'
        BY <1>1, <2>1, <2>2 DEF DialogTypeOK
    <2> QED BY <1>1, <2>1, <2>2, <2>3 DEF OInv, OnlyCurrentIsLive, LateInv, AstrayInv, InCycle
<1>7. ASSUME NEW l \in Loops, CallerDone(l) PROVE OInv'
    <2> DEFINE r == [loops[l] EXCEPT !.live = FALSE]
    <2>1. loops' = [loops EXCEPT ![l] = r] /\ UNCHANGED <<observer, dialogs, appeared, late, astray>>
        BY <1>7 DEF CallerDone
    <2>2. r \in LoopRecords /\ r.pc = loops[l].pc /\ r.page = loops[l].page /\ ~r.live
        BY <1>1, LoopRecord DEF LoopRecords
    <2> HIDE DEF r
    <2>3. /\ loops' \in [Loops -> LoopRecords] /\ loops'[l] = r
          /\ \A m \in Loops \ {l} : loops'[m] = loops[m]
        BY <1>1, <2>1, <2>2, LoopSet
    <2>4. DialogTypeOK'
        BY <1>1, <2>1, <2>3 DEF DialogTypeOK, observer
    <2> QED BY <1>1, <2>1, <2>2, <2>3, <2>4 DEF OInv, OnlyCurrentIsLive, LateInv, AstrayInv, InCycle,
        observer
<1> QED BY <1>2, <1>3, <1>4, <1>5, <1>6, <1>7 DEF Callers

\* The steps of a loop: what each makes of the loop's record.
LEMMA LoopMoves ==
    ASSUME DialogTypeOK, NEW l \in Loops, LoopEnds(l) \/ Tick(l) \/ Look(l) \/ Press(l)
    PROVE  /\ loops' \in [Loops -> LoopRecords]
           /\ \A m \in Loops \ {l} : loops'[m] = loops[m]
           /\ loops'[l].live = loops[l].live
           /\ \/ loops'[l].pc \in {"select", "ended"}
              \/ Tick(l) /\ loops'[l].page = page /\ page # NoPage
              \/ InCycle(l) /\ Look(l) /\ loops'[l].page = loops[l].page
<1>1. loops \in [Loops -> LoopRecords] /\ loops[l] \in LoopRecords
    BY LoopRecord DEF DialogTypeOK
<1>2. CASE LoopEnds(l)
    <2>1. loops' = [loops EXCEPT ![l].pc = "ended"]
        BY <1>2 DEF LoopEnds
    <2> QED BY <1>1, <2>1 DEF LoopRecords
<1>3. CASE Tick(l)
    <2>1. loops' = [loops EXCEPT ![l].pc = "look", ![l].page = page, ![l].pat = 0]
          /\ page \in Pages \cup {NoPage} /\ page # NoPage
        BY <1>3 DEF Tick, DialogTypeOK
    <2> QED BY <1>1, <1>3, <2>1 DEF LoopRecords
<1>4. CASE Look(l)
    <2> DEFINE n == loops[l].pat + 1
    <2>1. /\ loops[l].pc = "look" /\ loops[l].pat < LastPattern
          /\ \E to \in {"press", "select", "look"} :
                 loops' = [loops EXCEPT ![l].pat = n, ![l].pc = to]
        BY <1>4 DEF Look
    <2>2. PICK to \in {"press", "select", "look"} :
              loops' = [loops EXCEPT ![l].pat = n, ![l].pc = to]
        BY <2>1
    <2>3. n \in Patterns
        BY <1>1, <2>1, DialogAssumption DEF LoopRecords, Patterns
    <2> HIDE DEF n
    <2> QED BY <1>1, <1>4, <2>1, <2>2, <2>3 DEF LoopRecords, InCycle
<1>5. CASE Press(l)
    <2>1. loops' = [loops EXCEPT ![l].pc = "select"]
        BY <1>5 DEF Press
    <2> QED BY <1>1, <2>1 DEF LoopRecords
<1> QED BY <1>2, <1>3, <1>4, <1>5

LEMMA LoopStepOInv ==
    ASSUME OInv, NEW l \in Loops, LoopEnds(l) \/ Tick(l) \/ Look(l) \/ Press(l)
    PROVE  OInv'
<1>1. DialogTypeOK /\ OnlyCurrentIsLive /\ LateInv /\ AstrayInv
    BY DEF OInv
<1>2. /\ loops' \in [Loops -> LoopRecords]
      /\ \A m \in Loops \ {l} : loops'[m] = loops[m]
      /\ loops'[l].live = loops[l].live
      /\ \/ loops'[l].pc \in {"select", "ended"}
         \/ Tick(l) /\ loops'[l].page = page /\ page # NoPage
         \/ InCycle(l) /\ Look(l) /\ loops'[l].page = loops[l].page
    BY <1>1, LoopMoves
<1>3. UNCHANGED <<observer, appeared>>
    BY DEF LoopEnds, Tick, Look, Press
<1>4. OnlyCurrentIsLive'
    BY <1>1, <1>2, <1>3 DEF OnlyCurrentIsLive, observer
<1>5. CASE ~Press(l)
    <2>1. UNCHANGED <<dialogs, late, astray>>
        BY <1>5 DEF LoopEnds, Tick, Look
    <2>2. DialogTypeOK'
        BY <1>1, <1>2, <1>3, <2>1 DEF DialogTypeOK, observer
    <2>3. LateInv'
        BY <1>1, <1>2, <1>3, <2>1 DEF LateInv, InCycle, observer, Tick
    <2>4. AstrayInv'
        <3>1. page \in Pages \cup {NoPage}
            BY <1>1 DEF DialogTypeOK
        <3> QED BY <1>1, <1>2, <1>3, <2>1, <3>1 DEF AstrayInv, InCycle, observer
    <2> QED BY <1>4, <2>2, <2>3, <2>4 DEF OInv
<1>6. CASE Press(l)
    <2>1. /\ loops[l].pc = "press" /\ InCycle(l) /\ ~InCycle(l)' /\ loops[l].page \in Pages
          /\ late[l] = 0 /\ (loops[l].page # page => astray[l] = 0)
        <3>1. loops[l].pc = "press" /\ loops'[l].pc = "select"
            BY <1>1, <1>6 DEF Press, DialogTypeOK
        <3> QED BY <1>1, <3>1 DEF InCycle, LateInv, AstrayInv
    <2>2. /\ late' = IF observerPaused THEN [late EXCEPT ![l] = @ + 1] ELSE late
          /\ astray' = IF loops[l].page # page THEN [astray EXCEPT ![l] = @ + 1] ELSE astray
        BY <1>6 DEF Press
    <2>3. late \in [Loops -> Nat] /\ astray \in [Loops -> Nat]
        BY <1>1 DEF DialogTypeOK
    <2>4. /\ late' \in [Loops -> Nat] /\ astray' \in [Loops -> Nat]
          /\ \A m \in Loops \ {l} : late'[m] = late[m] /\ astray'[m] = astray[m]
          /\ late'[l] <= 1 /\ (~observerPaused => late'[l] = 0)
          /\ astray'[l] <= 1
        BY <1>1, <2>1, <2>2, <2>3 DEF AstrayInv
    <2>5. dialogs' \in [Pages -> SUBSET Patterns]
        <3>1. dialogs \in [Pages -> SUBSET Patterns]
            BY <1>1 DEF DialogTypeOK
        <3>2. \E closed : dialogs' = [dialogs EXCEPT ![loops[l].page] = @ \ closed]
            BY <1>6 DEF Press
        <3> QED BY <2>1, <3>1, <3>2
    <2>6. DialogTypeOK'
        BY <1>1, <1>2, <1>3, <2>4, <2>5 DEF DialogTypeOK, observer
    <2>7. LateInv'
        BY <1>1, <1>2, <1>3, <2>1, <2>4 DEF LateInv, InCycle, observer
    <2>8. AstrayInv'
        BY <1>1, <1>2, <1>3, <2>1, <2>4 DEF AstrayInv, InCycle, observer
    <2> QED BY <1>4, <2>6, <2>7, <2>8 DEF OInv
<1> QED BY <1>5, <1>6

LEMMA PageOInv ==
    ASSUME OInv, \/ \E p \in Pages, pat \in Patterns : Appears(p, pat) \/ Disappears(p, pat)
                 \/ UNCHANGED dialogVars
    PROVE  OInv'
<1>1. UNCHANGED <<observer, loops, late, astray>>
    BY DEF Appears, Disappears, dialogVars
<1>2. dialogs \in [Pages -> SUBSET Patterns] /\ appeared \in 0 .. MaxDialogs
    BY DEF OInv, DialogTypeOK
<1>3. dialogs' \in [Pages -> SUBSET Patterns] /\ appeared' \in 0 .. MaxDialogs
    <2>1. ASSUME NEW p \in Pages, NEW pat \in Patterns, Appears(p, pat)
          PROVE  dialogs' \in [Pages -> SUBSET Patterns] /\ appeared' \in 0 .. MaxDialogs
        BY <1>2, <2>1, DialogAssumption DEF Appears
    <2>2. ASSUME NEW p \in Pages, NEW pat \in Patterns, Disappears(p, pat)
          PROVE  dialogs' \in [Pages -> SUBSET Patterns] /\ appeared' \in 0 .. MaxDialogs
        BY <1>2, <2>2 DEF Disappears
    <2> QED BY <1>2, <2>1, <2>2 DEF dialogVars
<1> QED BY <1>1, <1>3 DEF OInv, DialogTypeOK, OnlyCurrentIsLive, LateInv, AstrayInv, InCycle,
    observer

LEMMA NextOInv == OInv /\ [DialogNext]_dialogVars => OInv'
BY CallersOInv, LoopStepOInv, PageOInv DEF DialogNext

THEOREM DialogInvariance == DialogSpec => []OInv
BY InitOInv, NextOInv, PTL DEF DialogSpec

\* Every variable of the observer and its loops keeps its type.
THEOREM DialogTypeCorrect == DialogSpec => []DialogTypeOK
BY DialogInvariance, PTL DEF OInv

\* However often Attach is called, no loop is left that nobody can cancel.
THEOREM NoLoopIsLost == DialogSpec => []OnlyCurrentIsLive
BY DialogInvariance, PTL DEF OInv

\* Each loop presses at most once on a page it should not, or while paused.
THEOREM StaleOnce == DialogSpec => []OneStalePress
<1>1. OInv => OneStalePress
    BY DEF OInv, LateInv, AstrayInv, OneStalePress
<1> QED BY <1>1, DialogInvariance, PTL

=============================================================================
