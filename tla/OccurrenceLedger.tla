-------------------------- MODULE OccurrenceLedger --------------------------
(***************************************************************************)
(* What the database promises about scheduled occurrences, with no session, *)
(* lock or transaction: a job has at most one open occurrence; a due one is *)
(* closed in one step, which moves the job to a later occurrence or to none *)
(* and records the closing; a closed occurrence never opens again.          *)
(***************************************************************************)
EXTENDS Integers

CONSTANTS Jobs, MaxTime, NoTime

VARIABLES
    now,      \* the clock
    enabled,  \* is_enabled of each job
    next,     \* open occurrence of each job, or NoTime
    closed    \* occurrences that were transitioned

vars == <<now, enabled, next, closed>>

Times == 0 .. MaxTime

Init ==
    /\ now = 0
    /\ enabled \in [Jobs -> BOOLEAN]
    /\ next \in [Jobs -> Times \cup {NoTime}]
    /\ closed = {}

Tick ==
    /\ now < MaxTime
    /\ now' = now + 1
    /\ UNCHANGED <<enabled, next, closed>>

\* A due occurrence of an enabled job is run, or fails closed.
CloseOccurrence(j, n) ==
    /\ enabled[j]
    /\ next[j] # NoTime
    /\ next[j] <= now
    /\ <<j, next[j]>> \notin closed
    /\ n # NoTime => n > next[j]
    /\ next' = [next EXCEPT ![j] = n]
    /\ closed' = closed \cup {<<j, next[j]>>}
    /\ UNCHANGED <<now, enabled>>

\* An edit may move the open occurrence, never to a closed one.
Edit(j, e, n) ==
    /\ n = next[j] \/ n \in Times
    /\ <<j, n>> \notin closed
    /\ enabled' = [enabled EXCEPT ![j] = e]
    /\ next' = [next EXCEPT ![j] = n]
    /\ UNCHANGED <<now, closed>>

Next ==
    \/ Tick
    \/ \E j \in Jobs, n \in Times \cup {NoTime} :
          \/ CloseOccurrence(j, n)
          \/ \E e \in BOOLEAN : Edit(j, e, n)

Spec == Init /\ [][Next]_vars
=============================================================================
