--------------------------- MODULE SchedulerLoop ---------------------------
(***************************************************************************)
(* The realtime scheduler process (PartitionScheduler): one event loop     *)
(* that refreshes an in-memory queue from PostgreSQL, spawns a task for    *)
(* every due occurrence, bounds the executions with a semaphore, and       *)
(* drains its tasks on shutdown; the threads that do the blocking database *)
(* calls; and crashes and restarts of the process.                         *)
(*                                                                         *)
(* The event loop is atomic from one await to the next.  Each action of    *)
(* the loop or of a task below is one such stretch.  A database thread     *)
(* runs between two of them, at any moment.                                *)
(*                                                                         *)
(* The database is the one JobTransactions establishes: an occurrence is   *)
(* transitioned in one atomic step, only while it is the open one of its   *)
(* job and due, and never opens again.  The n-th next_run_time of a job is *)
(* written n (its generation).  Clocks are countdowns, so that time never  *)
(* ends: Horizon bounds how far a next run lies ahead, and MaxGen how      *)
(* often a job is scheduled again.                                         *)
(***************************************************************************)
EXTENDS Integers, Sequences, FiniteSets

CONSTANTS
    Jobs,        \* job_id values
    MaxGen,      \* bound: generations of a job
    Horizon,     \* bound: ticks to the next run, all within the lookahead
    Reconcile,   \* reconcile_seconds, in ticks
    Slots,       \* max_concurrent_jobs
    MaxEntries   \* capacity of the rapid-loop breaker (512)

ASSUME LoopAssumption ==
    /\ MaxGen \in Nat
    /\ Horizon \in Nat \ {0}
    /\ Reconcile \in Nat \ {0}
    /\ Slots \in Nat \ {0}
    /\ MaxEntries \in Nat \ {0}

VARIABLES
    gen,           \* database: generation of each job's next_run_time
    open,          \* database: is_enabled and next_run_time not NULL
    dueIn,         \* database: ticks until next_run_time
    closed,        \* database: occurrences transitioned by a committed run
    loop,          \* where the scheduler coroutine is suspended
    snap,          \* rows the fetch in flight has read: occurrence -> delay
    queue,         \* ScheduleQueue: occurrence -> ticks until due
    reconcileIn,   \* next_reconcile
    refreshOk,     \* last_refresh_result does not start with "error:"
    refreshEvent,
    shutdownEvent,
    activeKeys,    \* _active_keys
    waiting,       \* tasks that wait for the semaphore
    running,       \* tasks that hold a slot and await their thread
    thread,        \* the thread of each running task
    cache,         \* _handled_occurrences, oldest first
    orphans,       \* calls whose process or task is gone
    known,         \* history: handled results this process has received
    unread         \* history: a refresh was asked for since the last read

database == <<gen, open, dueIn, closed>>

tasks == <<activeKeys, waiting, running, thread>>

vars == <<gen, open, dueIn, closed, loop, snap, queue, reconcileIn, refreshOk,
          refreshEvent, shutdownEvent, activeKeys, waiting, running, thread,
          cache, orphans, known, unread>>

Occurrences == Jobs \X (0 .. MaxGen)

\* The occurrence is the one its enabled row holds.
Current(o) == open[o[1]] /\ gen[o[1]] = o[2]

Due(o) == Current(o) /\ dueIn[o[1]] = 0

\* reading: the fetch thread has not run its query; read, readFailed: it has,
\* and the loop has not resumed; counting: the loop awaits count_failed_jobs.
LoopStates == {"down", "reading", "read", "readFailed", "counting", "waiting",
               "draining", "stopped"}

Dispatching == loop \notin {"down", "stopped", "draining"}

NoRows == <<>>

CacheKeys == {cache[i] : i \in DOMAIN cache}

\* A process that has just started: run() awaits its startup refresh.
FreshProcess ==
    /\ snap = NoRows
    /\ queue = NoRows
    /\ reconcileIn = Reconcile
    /\ refreshOk = TRUE
    /\ refreshEvent = FALSE
    /\ shutdownEvent = FALSE
    /\ activeKeys = {}
    /\ waiting = {}
    /\ running = {}
    /\ thread = [o \in Occurrences |-> "none"]
    /\ cache = << >>
    /\ known = {}
    /\ unread = FALSE

Init ==
    /\ gen = [j \in Jobs |-> 0]
    /\ open = [j \in Jobs |-> TRUE]
    /\ dueIn \in [Jobs -> 0 .. Horizon]
    /\ closed = {}
    /\ orphans = {}
    /\ loop = "down"
    /\ FreshProcess

-----------------------------------------------------------------------------
(***************************************************************************)
(* Clocks and the database.                                                *)
(***************************************************************************)
Down(n) == IF n = 0 THEN 0 ELSE n - 1

Tick ==
    /\ dueIn' = [j \in Jobs |-> Down(dueIn[j])]
    /\ queue' = [o \in DOMAIN queue |-> Down(queue[o])]
    /\ reconcileIn' = Down(reconcileIn)
    /\ UNCHANGED <<gen, open, closed, loop, snap, refreshOk, refreshEvent,
                   shutdownEvent, tasks, cache, orphans, known, unread>>

\* A committed edit: a new next_run_time in the future, a disabled job, or a
\* job enabled again whose recalculated time is the one it had.
EditJob(j) ==
    /\ \/ /\ gen[j] < MaxGen
          /\ gen' = [gen EXCEPT ![j] = @ + 1]
          /\ open' = [open EXCEPT ![j] = TRUE]
          /\ \E d \in 1 .. Horizon : dueIn' = [dueIn EXCEPT ![j] = d]
       \/ /\ open[j]
          /\ open' = [open EXCEPT ![j] = FALSE]
          /\ UNCHANGED <<gen, dueIn>>
       \/ /\ ~open[j] /\ dueIn[j] > 0 /\ <<j, gen[j]>> \notin closed
          /\ open' = [open EXCEPT ![j] = TRUE]
          /\ UNCHANGED <<gen, dueIn>>
    /\ UNCHANGED <<closed, loop, snap, queue, reconcileIn, refreshOk, refreshEvent,
                   shutdownEvent, tasks, cache, orphans, known, unread>>

\* A run commits the transition of a due occurrence: the job moves to a later
\* next_run_time, or to none when the schedule is invalid.
Transition(o) ==
    /\ Due(o)
    /\ closed' = closed \cup {o}
    /\ \/ /\ gen[o[1]] < MaxGen
          /\ gen' = [gen EXCEPT ![o[1]] = @ + 1]
          /\ \E d \in 1 .. Horizon : dueIn' = [dueIn EXCEPT ![o[1]] = d]
          /\ UNCHANGED open
       \/ /\ open' = [open EXCEPT ![o[1]] = FALSE]
          /\ UNCHANGED <<gen, dueIn>>

-----------------------------------------------------------------------------
(***************************************************************************)
(* refresh_queue                                                           *)
(***************************************************************************)
\* fetch_upcoming_jobs, in its thread.
FetchRead ==
    /\ loop = "reading"
    /\ loop' = "read"
    /\ snap' = [o \in {o \in Occurrences : Current(o)} |-> dueIn[o[1]]]
    /\ unread' = FALSE
    /\ UNCHANGED <<database, queue, reconcileIn, refreshOk, refreshEvent,
                   shutdownEvent, tasks, cache, orphans, known>>

FetchFail ==
    /\ loop = "reading"
    /\ loop' = "readFailed"
    /\ UNCHANGED <<database, snap, queue, reconcileIn, refreshOk, refreshEvent,
                   shutdownEvent, tasks, cache, orphans, known, unread>>

\* Mutation: occurrences in flight are not filtered out.
NotHandledHere(rows) == DOMAIN rows \ CacheKeys

\* Mutation: the rapid-loop breaker is not consulted.
NotActiveHere(rows) == DOMAIN rows \ activeKeys

\* What the refresh queues: neither in flight nor known to be transitioned,
\* both looked up after the await.
Filtered(rows) == DOMAIN rows \ (activeKeys \cup CacheKeys)

\* Mutation: the timer is set to fire a tick early.
EarlyDelay(d) == Down(d)

\* due_mono = now + delay_seconds, with now read after the fetch.
Delay(d) == d

\* Mutation: the refresh event is cleared after the fetch instead of before.
FetchReturnClearing ==
    /\ loop = "read"
    /\ queue' = [o \in Filtered(snap) |-> Delay(snap[o])]
    /\ refreshOk' = TRUE
    /\ refreshEvent' = FALSE
    /\ snap' = NoRows
    /\ loop' = "counting"
    /\ UNCHANGED <<database, reconcileIn, shutdownEvent, tasks, cache, orphans,
                   known, unread>>

\* The loop resumes with the rows and rebuilds the queue.
FetchReturn ==
    /\ loop = "read"
    /\ queue' = [o \in Filtered(snap) |-> Delay(snap[o])]
    /\ refreshOk' = TRUE
    /\ snap' = NoRows
    /\ loop' = "counting"
    /\ UNCHANGED <<database, reconcileIn, refreshEvent, shutdownEvent, tasks,
                   cache, orphans, known, unread>>

-----------------------------------------------------------------------------
(***************************************************************************)
(* run                                                                     *)
(***************************************************************************)
\* From the head of the while loop to its next await, with next_reconcile at
\* r: spawn what is due, then refresh or wait.  The event is cleared before
\* the refresh it asks for.
Iterate(r) ==
    LET due == {o \in DOMAIN queue : queue[o] = 0} IN
    /\ reconcileIn' = r
    /\ \/ /\ shutdownEvent
          /\ loop' = IF activeKeys = {} THEN "stopped" ELSE "draining"
          /\ UNCHANGED <<queue, activeKeys, waiting, refreshEvent>>
       \/ /\ ~shutdownEvent
          /\ queue' = [o \in DOMAIN queue \ due |-> queue[o]]
          /\ activeKeys' = activeKeys \cup due
          /\ waiting' = waiting \cup (due \ activeKeys)
          /\ loop' = IF refreshEvent \/ r = 0 THEN "reading" ELSE "waiting"
          /\ refreshEvent' = FALSE

\* The refresh failed: the queue stays, and the next attempt is the next
\* refresh request or reconcile.
FetchRaised ==
    /\ loop = "readFailed"
    /\ refreshOk' = FALSE
    /\ Iterate(Reconcile)
    /\ UNCHANGED <<database, snap, shutdownEvent, running, thread, cache,
                   orphans, known, unread>>

\* count_failed_jobs has returned or raised: refresh_queue returns.
CountReturn ==
    /\ loop = "counting"
    /\ Iterate(Reconcile)
    /\ UNCHANGED <<database, snap, refreshOk, shutdownEvent, running, thread,
                   cache, orphans, known, unread>>

\* wait_for ends: the event is set, a timer of the queue is due, or the
\* reconcile interval is over.  (A wake-up for the backoff of a failed refresh
\* finds nothing to do and waits again.)
Wake ==
    /\ loop = "waiting"
    /\ refreshEvent \/ reconcileIn = 0 \/ \E o \in DOMAIN queue : queue[o] = 0
    /\ Iterate(reconcileIn)
    /\ UNCHANGED <<database, snap, refreshOk, shutdownEvent, running, thread,
                   cache, orphans, known, unread>>

\* POST /internal/scheduler/refresh
RequestRefresh ==
    /\ loop # "down"
    /\ refreshEvent' = TRUE
    /\ unread' = TRUE
    /\ UNCHANGED <<database, loop, snap, queue, reconcileIn, refreshOk,
                   shutdownEvent, tasks, cache, orphans, known>>

\* SIGTERM or SIGINT
RequestShutdown ==
    /\ loop \notin {"down", "stopped"}
    /\ ~shutdownEvent
    /\ shutdownEvent' = TRUE
    /\ refreshEvent' = TRUE
    /\ UNCHANGED <<database, loop, snap, queue, reconcileIn, refreshOk, tasks,
                   cache, orphans, known, unread>>

-----------------------------------------------------------------------------
(***************************************************************************)
(* _run_job_with_slot and _execute_one                                     *)
(***************************************************************************)
\* Mutation: the key of an occurrence that was not transitioned is kept.
ForgetHandledOnly(o) == IF thread[o] = "handled" THEN activeKeys \ {o} ELSE activeKeys

\* finally: the key is discarded.
KeysWithout(o) == activeKeys \ {o}

\* The task ends: another refresh is requested.
EndTask(o) ==
    /\ activeKeys' = KeysWithout(o)
    /\ refreshEvent' = TRUE

\* Mutation: no limit on executions.
AnySlot == TRUE

FreeSlot == Cardinality(running) < Slots

\* Mutation: a task does not look at the shutdown event.
NeverRefused(o) == o \in CacheKeys

\* With the slot: after a shutdown, or for an occurrence this process knows to
\* be transitioned, no thread is started.
Refused(o) == shutdownEvent \/ o \in CacheKeys

\* A task gets a slot.
Acquire(o) ==
    /\ o \in waiting
    /\ FreeSlot
    /\ waiting' = waiting \ {o}
    /\ \/ /\ Refused(o)
          /\ EndTask(o)
          /\ UNCHANGED <<running, thread>>
       \/ /\ ~Refused(o)
          /\ running' = running \cup {o}
          /\ thread' = [thread EXCEPT ![o] = "calling"]
          /\ UNCHANGED <<activeKeys, refreshEvent>>
    /\ UNCHANGED <<database, loop, snap, queue, reconcileIn, refreshOk,
                   shutdownEvent, cache, orphans, known, unread>>

\* execute_scheduled_job transitions the occurrence; the acknowledgement may
\* get lost.
ThreadRuns(o) ==
    /\ thread[o] = "calling"
    /\ Transition(o)
    /\ \E result \in {"handled", "notHandled"} : thread' = [thread EXCEPT ![o] = result]
    /\ UNCHANGED <<loop, snap, queue, reconcileIn, refreshOk, refreshEvent,
                   shutdownEvent, activeKeys, waiting, running, cache, orphans,
                   known, unread>>

\* execute_scheduled_job returns a status that leaves the occurrence as it is
\* (SKIPPED_*, FAILED_DATABASE) or raises.
ThreadFails(o) ==
    /\ thread[o] = "calling"
    /\ thread' = [thread EXCEPT ![o] = "notHandled"]
    /\ UNCHANGED <<database, loop, snap, queue, reconcileIn, refreshOk,
                   refreshEvent, shutdownEvent, activeKeys, waiting, running,
                   cache, orphans, known, unread>>

\* Mutation: every result is remembered, whatever the database did.
CacheAnyResult(o) == TRUE

\* status in _HANDLED_OCCURRENCE_STATUSES
CacheResult(o) == thread[o] = "handled"

\* del self._items[key]: the entries but the one of this key.
Without(c, o) ==
    IF \E i \in DOMAIN c : c[i] = o
    THEN LET i == CHOOSE i \in DOMAIN c : c[i] = o IN
         SubSeq(c, 1, i - 1) \o SubSeq(c, i + 1, Len(c))
    ELSE c

\* Mutation: the capacity is not enforced.
AddUnbounded(c, o) == Append(Without(c, o), o)

\* RecentOccurrenceCache.add: the newest last, the oldest dropped.
Add(c, o) ==
    LET others == Without(c, o) IN
    IF Len(others) < MaxEntries THEN Append(others, o)
    ELSE Append(Tail(others), o)

\* The task resumes with the result of its thread and ends.
TaskResume(o) ==
    /\ o \in running
    /\ thread[o] \in {"handled", "notHandled"}
    /\ cache' = IF CacheResult(o) THEN Add(cache, o) ELSE cache
    /\ known' = IF thread[o] = "handled" THEN known \cup {o} ELSE known
    /\ running' = running \ {o}
    /\ thread' = [thread EXCEPT ![o] = "none"]
    /\ EndTask(o)
    /\ UNCHANGED <<database, loop, snap, queue, reconcileIn, refreshOk,
                   shutdownEvent, waiting, orphans, unread>>

\* prune: the oldest entry is older than the TTL.  A fetch is assumed to take
\* less than the TTL (300 s): an entry that was added before the fetch began
\* belongs to an occurrence the fetch cannot return, so its expiry may as well
\* wait for the fetch to end.
Expire ==
    /\ loop \notin {"reading", "read", "readFailed"}
    /\ cache # << >>
    /\ cache' = Tail(cache)
    /\ UNCHANGED <<database, loop, snap, queue, reconcileIn, refreshOk,
                   refreshEvent, shutdownEvent, tasks, orphans, known, unread>>

-----------------------------------------------------------------------------
(***************************************************************************)
(* Shutdown, exit, crash and restart.                                      *)
(***************************************************************************)
\* The calls that go on without a task to tell.
Calling == {o \in running : thread[o] = "calling"}

DrainDone ==
    /\ loop = "draining"
    /\ activeKeys = {}
    /\ loop' = "stopped"
    /\ UNCHANGED <<database, snap, queue, reconcileIn, refreshOk, refreshEvent,
                   shutdownEvent, tasks, cache, orphans, known, unread>>

\* Mutation: the drain waits for the executions, however long they take.
DrainNeverCancels == FALSE /\ UNCHANGED vars

\* _SHUTDOWN_DRAIN_SECONDS are over: the tasks are cancelled.  A cancelled
\* task stops waiting; its thread does not stop.
DrainTimeout ==
    /\ loop = "draining"
    /\ activeKeys # {}
    /\ loop' = "stopped"
    /\ orphans' = orphans \cup Calling
    /\ activeKeys' = {}
    /\ waiting' = {}
    /\ running' = {}
    /\ thread' = [o \in Occurrences |-> "none"]
    /\ refreshEvent' = TRUE
    /\ UNCHANGED <<database, snap, queue, reconcileIn, refreshOk, shutdownEvent,
                   cache, known, unread>>

ForgetProcess ==
    /\ snap' = NoRows
    /\ queue' = NoRows
    /\ reconcileIn' = Reconcile
    /\ refreshOk' = TRUE
    /\ refreshEvent' = FALSE
    /\ shutdownEvent' = FALSE
    /\ activeKeys' = {}
    /\ waiting' = {}
    /\ running' = {}
    /\ thread' = [o \in Occurrences |-> "none"]
    /\ cache' = << >>
    /\ known' = {}
    /\ unread' = FALSE

\* The process is gone, by exit or by a crash: its memory is lost, and a call
\* on its way may still reach the database.
ProcessEnds ==
    /\ loop # "down"
    /\ loop' = "down"
    /\ orphans' = orphans \cup Calling
    /\ ForgetProcess
    /\ UNCHANGED database

\* systemd starts the process again; run() begins with a refresh.
Start ==
    /\ loop = "down"
    /\ loop' = "reading"
    /\ UNCHANGED <<database, snap, queue, reconcileIn, refreshOk, refreshEvent,
                   shutdownEvent, tasks, cache, orphans, known, unread>>

OrphanRuns(o) ==
    /\ o \in orphans
    /\ Transition(o)
    /\ orphans' = orphans \ {o}
    /\ UNCHANGED <<loop, snap, queue, reconcileIn, refreshOk, refreshEvent,
                   shutdownEvent, tasks, cache, known, unread>>

OrphanFails(o) ==
    /\ o \in orphans
    /\ orphans' = orphans \ {o}
    /\ UNCHANGED <<database, loop, snap, queue, reconcileIn, refreshOk,
                   refreshEvent, shutdownEvent, tasks, cache, known, unread>>

-----------------------------------------------------------------------------
Next ==
    \/ Tick
    \/ \E j \in Jobs : EditJob(j)
    \/ FetchRead \/ FetchFail \/ FetchReturn \/ FetchRaised \/ CountReturn
    \/ Wake
    \/ RequestRefresh \/ RequestShutdown
    \/ \E o \in Occurrences :
          \/ Acquire(o) \/ ThreadRuns(o) \/ ThreadFails(o) \/ TaskResume(o)
          \/ OrphanRuns(o) \/ OrphanFails(o)
    \/ Expire
    \/ DrainDone \/ DrainTimeout \/ ProcessEnds \/ Start

Spec == Init /\ [][Next]_vars

-----------------------------------------------------------------------------
(***************************************************************************)
(* Properties.                                                             *)
(***************************************************************************)
TypeOK ==
    /\ gen \in [Jobs -> 0 .. MaxGen]
    /\ open \in [Jobs -> BOOLEAN]
    /\ dueIn \in [Jobs -> 0 .. Horizon]
    /\ closed \subseteq Occurrences
    /\ loop \in LoopStates
    /\ DOMAIN snap \subseteq Occurrences
    /\ \A o \in DOMAIN snap : snap[o] \in 0 .. Horizon
    /\ DOMAIN queue \subseteq Occurrences
    /\ \A o \in DOMAIN queue : queue[o] \in 0 .. Horizon
    /\ reconcileIn \in 0 .. Reconcile
    /\ refreshOk \in BOOLEAN
    /\ refreshEvent \in BOOLEAN
    /\ shutdownEvent \in BOOLEAN
    /\ activeKeys \subseteq Occurrences
    /\ waiting \subseteq Occurrences
    /\ running \subseteq Occurrences
    /\ thread \in [Occurrences -> {"none", "calling", "handled", "notHandled"}]
    /\ cache \in Seq(Occurrences) /\ Len(cache) <= MaxEntries
    /\ orphans \subseteq Occurrences
    /\ known \subseteq Occurrences
    /\ unread \in BOOLEAN

\* The executions this process has started and still awaits never outnumber
\* its slots, through spawns, failures, shutdown and drain.
SlotsRespected == Cardinality({o \in Occurrences : thread[o] # "none"}) <= Slots

\* An occurrence that has a task is not in the queue as well: a refresh whose
\* rows were read before the task started or ended cannot queue it again.
ActiveNotQueued == activeKeys \cap DOMAIN queue = {}

\* Each active key has exactly one task, which waits for a slot or holds one;
\* otherwise a key would block its occurrence for the life of the process.
KeysAreTasks ==
    /\ activeKeys = waiting \cup running
    /\ waiting \cap running = {}
    /\ \A o \in Occurrences : thread[o] # "none" <=> o \in running

\* Once the process has been told that an occurrence was transitioned it does
\* not queue or execute it again, not even from rows that were read before.
NoResubmission == known \cap (activeKeys \cup DOMAIN queue) = {}

\* The rapid-loop breaker never withholds an open occurrence.
BreakerHidesNothingOpen == \A o \in CacheKeys : o \in closed /\ ~Current(o)

\* No timer fires early: the queue's deadline of the open occurrence is never
\* before the one in the database, and a task for it exists only when it is due.
TimersNotEarly ==
    \A o \in Occurrences : Current(o) =>
        /\ o \in DOMAIN queue => queue[o] >= dueIn[o[1]]
        /\ o \in activeKeys => dueIn[o[1]] = 0

\* A refresh request that arrives while a refresh is in flight is not lost:
\* until the rows are read after it, the event is set, or a read is under way
\* or has failed.
NoLostWakeup ==
    unread /\ Dispatching =>
        \/ refreshEvent
        \/ loop \in {"reading", "readFailed"}
        \/ ~refreshOk

\* After the shutdown signal no execution starts.
NoStartAfterShutdown ==
    [][\A o \in Occurrences :
         shutdownEvent /\ thread[o] = "none" => thread'[o] = "none"]_vars

-----------------------------------------------------------------------------
(***************************************************************************)
(* Liveness.  Clocks, the loop and the tasks go on (WF).  The database     *)
(* answers each fetch (WF); when a read or an execution can succeed again  *)
(* and again, it does in the end (SF).  Nothing makes a long execution     *)
(* end, nor the process stop, crash or start.                              *)
(***************************************************************************)
LoopFairness ==
    /\ WF_vars(Tick)
    /\ WF_vars(FetchRead \/ FetchFail)
    /\ WF_vars(FetchReturn)
    /\ WF_vars(FetchRaised)
    /\ WF_vars(CountReturn)
    /\ WF_vars(Wake)
    /\ WF_vars(DrainDone)
    /\ WF_vars(DrainTimeout)
    /\ \A o \in Occurrences : WF_vars(TaskResume(o))

DatabaseFairness ==
    /\ SF_vars(FetchRead)
    /\ \A o \in Occurrences :
          /\ SF_vars(Acquire(o))
          /\ SF_vars(ThreadRuns(o))
          /\ WF_vars(ThreadRuns(o) \/ ThreadFails(o))

\* A shutdown ends, even when an execution never does.
ShutdownSpec == Spec /\ LoopFairness

ShutdownStops == shutdownEvent ~> loop \in {"stopped", "down"}

DispatchSpec == Spec /\ LoopFairness /\ DatabaseFairness

\* A due occurrence is transitioned, or an edit takes it away, however many
\* reads and executions fail on the way, unless the process stops.
DueIsHandled ==
    \A o \in Occurrences : Due(o) /\ Dispatching ~> ~Current(o) \/ ~Dispatching
=============================================================================
