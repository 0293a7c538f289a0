----------------------------- MODULE JobDelivery -----------------------------
(***************************************************************************)
(* What the queue and its controllers promise about a job, together: it is *)
(* given out at most once and in the order of the stream, it runs at most  *)
(* once and only when given out, and it counts as done when its run has    *)
(* succeeded. Nothing is promised to a message that no controller got.     *)
(* JobQueue implements it.                                                 *)
(***************************************************************************)
EXTENDS Integers, Sequences

CONSTANTS
    Jobs,
    Malformed   \* jobs whose payload does not decode

VARIABLES
    stream,     \* the jobs queued, oldest first
    position,   \* how many of them were given out or passed over; Closed before the first reader
    given,      \* the jobs given out
    work,       \* what became of each job: none, running, succeeded or failed
    acked       \* the jobs that count as done

vars == <<stream, position, given, work, acked>>

Closed == -1

Init ==
    /\ stream = <<>>
    /\ position = Closed
    /\ given = {}
    /\ work = [j \in Jobs |-> "none"]
    /\ acked = {}

Queue(j) ==
    /\ \A i \in 1..Len(stream) : stream[i] # j
    /\ stream' = Append(stream, j)
    /\ UNCHANGED <<position, given, work, acked>>

\* The first reader passes over what was queued before it came, no later one does.
Open ==
    /\ position = Closed
    /\ position' = Len(stream)
    /\ UNCHANGED <<stream, given, work, acked>>

\* The next job is given out. A malformed one may count as done at once.
Give ==
    /\ position \in 0..(Len(stream) - 1)
    /\ position' = position + 1
    /\ LET j == stream[position + 1]
       IN  /\ given' = given \cup {j}
           /\ acked' = acked \/ (j \in Malformed /\ acked' = acked \cup {j})
    /\ UNCHANGED <<stream, work>>

Begin(j) ==
    /\ j \in given \ Malformed
    /\ work[j] = "none"
    /\ work' = [work EXCEPT ![j] = "running"]
    /\ UNCHANGED <<stream, position, given, acked>>

End(j) ==
    /\ work[j] = "running"
    /\ \E result \in {"succeeded", "failed"} : work' = [work EXCEPT ![j] = result]
    /\ UNCHANGED <<stream, position, given, acked>>

Ack(j) ==
    /\ work[j] = "succeeded"
    /\ acked' = acked \cup {j}
    /\ UNCHANGED <<stream, position, given, work>>

Next ==
    \/ Open \/ Give
    \/ \E j \in Jobs : Queue(j) \/ Begin(j) \/ End(j) \/ Ack(j)

Spec == Init /\ [][Next]_vars

=============================================================================
