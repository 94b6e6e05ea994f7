------------------------------ MODULE ApiJobs ------------------------------
(***************************************************************************)
(* The jobs API (api/routers/jobs.py): creating a job, editing it (PATCH)  *)
(* and running it by hand, as concurrent requests.  Each request is a      *)
(* worker thread that uses short connections: it reads the job, closes the *)
(* connection, decides from that copy whether a confirmation is needed,    *)
(* writes in a second connection, and tells the scheduler afterwards.      *)
(*                                                                         *)
(* Of a job only what the confirmations look at is kept, and a version     *)
(* that counts its committed writes.  Of the scheduler only what decides   *)
(* whether it notices a write: the refresh event, and which version it     *)
(* has read (SchedulerLoop has the rest).                                  *)
(***************************************************************************)
EXTENDS Integers

CONSTANTS
    Jobs,          \* job_id values
    Targets,       \* schema and table of a job
    Requests,      \* worker threads of the API
    MaxVersion     \* bound: committed writes of a job

ASSUME VersionAssumption == MaxVersion \in Nat \ {0}

VARIABLES
    table,       \* database: the row of each job, or NoRow
    pc,          \* where each request is
    request,     \* its body, and what has become of it
    existing,    \* the version of the job its decision was made from
    up,          \* a scheduler process is running
    event,       \* its refresh_event
    loop,        \* "waiting" for the event or a timeout, "reading", or has "read"
    readFailed,  \* its last refresh failed
    seen,        \* the version of each job it has last read
    announced    \* history: the newest version whose notification was accepted

scheduler == <<up, event, loop, readFailed, seen>>

vars == <<table, pc, request, existing, up, event, loop, readFailed, seen,
          announced>>

\* A NULL is_create can be in the table; the API never writes it.
Ops == {"create", "drop", "null"}

Rows == [op : Ops, target : Targets, version : 1 .. MaxVersion]

NoRow == [op |-> "none", target |-> "none", version |-> 0]

Version(j) == table[j].version

\* Bodies.  The job_id of a POST is chosen by the database.
Posts == [kind : {"post"}, op : {"create", "drop"}, target : Targets]

Patches == [kind : {"patch"}, job : Jobs, op : {"create", "drop"},
            target : Targets, confirm : BOOLEAN]

ManualRuns == [kind : {"run"}, job : Jobs, confirm : BOOLEAN]

Bodies == Posts \cup Patches \cup ManualRuns

\* A request whose change is committed, and one whose run is over.
Saved == [kind : {"saved"}, job : Jobs, version : 1 .. MaxVersion]

Ran == [kind : {"ran"}, op : {"create", "drop"}, confirm : BOOLEAN]

NoRequest == [kind |-> "none"]

TypeOK ==
    /\ table \in [Jobs -> Rows \cup {NoRow}]
    /\ pc \in [Requests -> {"idle", "read", "write", "notify", "answer"}]
    /\ request \in [Requests -> Bodies \cup Saved \cup Ran \cup {NoRequest}]
    /\ existing \in [Requests -> 0 .. MaxVersion]
    /\ up \in BOOLEAN
    /\ event \in BOOLEAN
    /\ loop \in {"waiting", "reading", "read"}
    /\ readFailed \in BOOLEAN
    /\ seen \in [Jobs -> 0 .. MaxVersion]
    /\ announced \in [Jobs -> 0 .. MaxVersion]
    /\ \A r \in Requests : pc[r] = "idle" <=> request[r] = NoRequest
    /\ \A r \in Requests :
         pc[r] = "write" /\ request[r].kind # "post" => existing[r] > 0

Init ==
    /\ table \in [Jobs -> [op : Ops, target : Targets, version : {1}] \cup {NoRow}]
    /\ pc = [r \in Requests |-> "idle"]
    /\ request = [r \in Requests |-> NoRequest]
    /\ existing = [r \in Requests |-> 0]
    /\ up = FALSE
    /\ event = FALSE
    /\ loop = "waiting"
    /\ readFailed = FALSE
    /\ seen = [j \in Jobs |-> 0]
    /\ announced = [j \in Jobs |-> 0]

-----------------------------------------------------------------------------
(***************************************************************************)
(* Requests.                                                               *)
(***************************************************************************)
Receive(r) ==
    /\ pc[r] = "idle"
    /\ \E q \in Bodies :
         /\ request' = [request EXCEPT ![r] = q]
         /\ pc' = [pc EXCEPT ![r] = IF q.kind = "post" THEN "write" ELSE "read"]
    /\ UNCHANGED <<table, existing, scheduler, announced>>

\* The request ends: with its answer, or with an error before or after a write.
Done(r) ==
    /\ pc' = [pc EXCEPT ![r] = "idle"]
    /\ request' = [request EXCEPT ![r] = NoRequest]
    /\ existing' = [existing EXCEPT ![r] = 0]

\* is_create is compared as a bool: a NULL counts as DROP.
IsCreate(op) == op = "create"

DangerousChange(old, new) ==
    IsCreate(old.op) # IsCreate(new.op) \/ old.target # new.target

\* Mutation: the operation is not compared.
ConfirmTargetOnly(q, row) ==
    IF q.kind = "run" THEN ~IsCreate(row.op) ELSE row.target # q.target

NeedsConfirmation(q, row) ==
    IF q.kind = "run" THEN ~IsCreate(row.op) ELSE DangerousChange(row, q)

\* Mutation: a job that was not found is not an error.
ReadJobUntested(r) ==
    /\ pc[r] = "read"
    /\ LET row == table[request[r].job] IN
       \/ /\ NeedsConfirmation(request[r], row) => request[r].confirm
          /\ existing' = [existing EXCEPT ![r] = row.version]
          /\ pc' = [pc EXCEPT ![r] = "write"]
          /\ UNCHANGED request
       \/ Done(r)
    /\ UNCHANGED <<table, scheduler, announced>>

\* get_partition_job and the decision, made from the copy alone: go on, or 404,
\* or 400 for the missing confirmation, or an error of the read (or, for a run,
\* of the readiness check before it).
ReadJob(r) ==
    /\ pc[r] = "read"
    /\ LET row == table[request[r].job] IN
       \/ /\ row # NoRow
          /\ NeedsConfirmation(request[r], row) => request[r].confirm
          /\ existing' = [existing EXCEPT ![r] = row.version]
          /\ pc' = [pc EXCEPT ![r] = "write"]
          /\ UNCHANGED request
       \/ Done(r)
    /\ UNCHANGED <<table, scheduler, announced>>

\* The row a create or an update commits.
Written(q, j) == [op |-> q.op, target |-> q.target, version |-> Version(j) + 1]

\* create_partition_job and update_partition_job: one transaction.  It commits
\* and the scheduler is told; or it commits and the answer is lost, which the
\* caller takes for an error; or it is rejected or rolled back.
SaveJob(r) ==
    /\ pc[r] = "write"
    /\ request[r].kind \in {"post", "patch"}
    /\ \/ \E j \in Jobs :
            /\ IF request[r].kind = "post" THEN table[j] = NoRow
                                           ELSE j = request[r].job
            /\ Version(j) < MaxVersion
            /\ table' = [table EXCEPT ![j] = Written(request[r], j)]
            /\ \/ /\ pc' = [pc EXCEPT ![r] = "notify"]
                  /\ existing' = [existing EXCEPT ![r] = 0]
                  /\ request' = [request EXCEPT ![r] =
                        [kind |-> "saved", job |-> j, version |-> Version(j) + 1]]
               \/ Done(r)
       \/ Done(r) /\ UNCHANGED table
    /\ UNCHANGED <<scheduler, announced>>

\* run_partition_job_manual reads the row again and executes what it says now;
\* a NULL operation and a worker that fails are errors that change nothing.
RunJob(r) ==
    /\ pc[r] = "write"
    /\ request[r].kind = "run"
    /\ LET op == table[request[r].job].op IN
       \/ /\ op # "null"
          /\ pc' = [pc EXCEPT ![r] = "answer"]
          /\ request' = [request EXCEPT ![r] =
                [kind |-> "ran", op |-> op, confirm |-> request[r].confirm]]
          /\ UNCHANGED existing
       \/ Done(r)
    /\ UNCHANGED <<table, scheduler, announced>>

Answer(r) ==
    /\ pc[r] = "answer"
    /\ Done(r)
    /\ UNCHANGED <<table, scheduler, announced>>

-----------------------------------------------------------------------------
(***************************************************************************)
(* Telling the scheduler, and what the scheduler does with it.             *)
(***************************************************************************)
Newest(m, n) == IF m < n THEN n ELSE m

\* notify_scheduler_refresh, then the answer.  The signal is accepted; or it
\* arrives but the caller has timed out; or nobody listens.
Notify(r) ==
    /\ pc[r] = "notify"
    /\ LET j == request[r].job IN
       \/ /\ up
          /\ event' = TRUE
          /\ announced' = [announced EXCEPT ![j] = Newest(@, request[r].version)]
       \/ up /\ event' = TRUE /\ UNCHANGED announced
       \/ UNCHANGED <<event, announced>>
    /\ Done(r)
    /\ UNCHANGED <<table, up, loop, readFailed, seen>>

\* A new process reads first.
StartScheduler ==
    /\ ~up
    /\ up' = TRUE
    /\ event' = FALSE
    /\ loop' = "reading"
    /\ readFailed' = FALSE
    /\ UNCHANGED <<table, pc, request, existing, seen, announced>>

StopScheduler ==
    /\ up
    /\ up' = FALSE
    /\ event' = FALSE
    /\ loop' = "waiting"
    /\ UNCHANGED <<table, pc, request, existing, readFailed, seen, announced>>

\* The loop finds the event set and clears it before it reads.
Wake ==
    /\ up
    /\ loop = "waiting"
    /\ event
    /\ event' = FALSE
    /\ loop' = "reading"
    /\ UNCHANGED <<table, pc, request, existing, up, readFailed, seen, announced>>

\* Mutation: reads are repeated only after a failed one.
ReconcileAfterFailure ==
    /\ up
    /\ loop = "waiting"
    /\ readFailed
    /\ loop' = "reading"
    /\ UNCHANGED <<table, pc, request, existing, up, event, readFailed, seen, announced>>

\* next_reconcile has passed.
ReconcileTimeout ==
    /\ up
    /\ loop = "waiting"
    /\ ~event
    /\ loop' = "reading"
    /\ UNCHANGED <<table, pc, request, existing, up, event, readFailed, seen,
                   announced>>

\* The thread of the fetch reads the rows.
ReadUpcoming ==
    /\ loop = "reading"
    /\ loop' = "read"
    /\ seen' = [j \in Jobs |-> Version(j)]
    /\ UNCHANGED <<table, pc, request, existing, up, event, readFailed, announced>>

\* Mutation: the event is cleared when the refresh is over.
ResumeAndClear ==
    /\ loop = "read"
    /\ loop' = "waiting"
    /\ readFailed' = FALSE
    /\ event' = FALSE
    /\ UNCHANGED <<table, pc, request, existing, up, seen, announced>>

\* The loop goes on with the rows.
Resume ==
    /\ loop = "read"
    /\ loop' = "waiting"
    /\ readFailed' = FALSE
    /\ UNCHANGED <<table, pc, request, existing, up, event, seen, announced>>

ReadRaises ==
    /\ loop = "reading"
    /\ loop' = "waiting"
    /\ readFailed' = TRUE
    /\ UNCHANGED <<table, pc, request, existing, up, event, seen, announced>>

RequestStep(r) ==
    \/ Receive(r)
    \/ ReadJob(r)
    \/ SaveJob(r)
    \/ RunJob(r)
    \/ Answer(r)
    \/ Notify(r)

SchedulerStep ==
    StartScheduler \/ StopScheduler \/ Wake \/ ReconcileTimeout
        \/ ReadUpcoming \/ Resume \/ ReadRaises

Next == SchedulerStep \/ \E r \in Requests : RequestStep(r)

Spec == Init /\ [][Next]_vars

\* A running scheduler goes on, and reads succeed in the end when they can
\* succeed again and again.  Nothing is assumed of requests, starts and stops.
FairSpec ==
    /\ Spec
    /\ WF_vars(Wake) /\ WF_vars(ReconcileTimeout) /\ WF_vars(Resume)
    /\ SF_vars(ReadUpcoming)

-----------------------------------------------------------------------------
(***************************************************************************)
(* Properties.                                                             *)
(***************************************************************************)
\* The step in which request r writes the table.
Saves(r) ==
    pc[r] = "write" /\ request[r].kind = "patch" /\ pc'[r] # "write" /\ table' # table

\* A confirmation is missing only where a concurrent write has overtaken the
\* request: an unconfirmed PATCH turns a job around or moves it to another table,
\* and an unconfirmed run drops partitions, only if the job was written after the
\* request had read it (_prepare_job_update, run_job).
UnconfirmedOnlyIfOvertaken ==
    [][\A r \in Requests :
         /\ Saves(r) /\ ~request[r].confirm =>
              LET j == request[r].job IN
              DangerousChange(table[j], table'[j]) => table[j].version # existing[r]
         /\ pc[r] = "write" /\ pc'[r] = "answer" /\ request'[r].op = "drop"
              /\ ~request[r].confirm
              => table[request[r].job].version # existing[r]]_vars

\* An accepted notification is not lost: until the scheduler has read the version
\* it was about, the event is set, or a read is about to begin, or the last read
\* has failed (update_job: notify after commit; run: clear before reading).
AnnouncedIsPending ==
    \A j \in Jobs : up /\ announced[j] > seen[j] =>
        event \/ loop = "reading" \/ readFailed

\* Every saved change is noticed by a scheduler that stays up, whether the
\* notification arrived, was lost, or was never sent because the answer to the
\* commit was lost (notify_scheduler_refresh: "periodic reconciliation will
\* discover it").
SavedIsNoticed ==
    <>[]up => \A j \in Jobs, v \in 1 .. MaxVersion :
                  (Version(j) >= v) ~> (seen[j] >= v)

\* The message of run_job says that DROP jobs require confirm_drop=true before
\* manual execution: what a run without it executes is never a DROP.
DropIsConfirmed ==
    \A r \in Requests : pc[r] = "answer" /\ request[r].op = "drop" => request[r].confirm
=============================================================================
