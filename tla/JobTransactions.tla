-------------------------- MODULE JobTransactions --------------------------
(***************************************************************************)
(* The database sessions of PartOps, statement by statement: scheduled     *)
(* runs (run_partition_job_scheduled under execute_scheduled_job), edits   *)
(* (update_data_to_partition_job_table) and manual runs                    *)
(* (run_partition_job_manual).  Each session is one short-lived connection *)
(* with one transaction.  Advisory locks and row locks are held until the  *)
(* transaction ends; what it writes becomes visible when it commits.       *)
(*                                                                         *)
(* Who opens the sessions is left open: any occurrence that discovery ever *)
(* returned may be executed again by any session at any time.  That covers *)
(* duplicate timers, retries, a restarted backend, a second backend and a  *)
(* thread that outlives its cancelled task.                                *)
(***************************************************************************)
EXTENDS JobTable

CONSTANTS
    Sessions,    \* database connections that may be open at once
    NoSession,   \* owner of a free lock
    NoRow,       \* "no row": nothing read, or nothing to write
    Edits,       \* the edits that are tried, a subset of EditParams
    InitialRows  \* rows the table may hold when the model starts

ASSUME SessionAssumption ==
    /\ NoSession \notin Sessions
    /\ NoRow \notin Row
    /\ Edits \subseteq EditParams
    /\ InitialRows \subseteq Row

VARIABLES
    now,         \* the database clock
    row,         \* committed rows of partitioning_job_table
    jobLock,     \* advisory namespace 87421031: key -> holder
    targetLock,  \* advisory namespace 87421032: key -> holder
    rowLock,     \* row locks (FOR UPDATE): job -> holder
    pc,          \* where each session is
    call,        \* the function call a session makes
    snap,        \* v_job: the row as the session read it
    vnow,        \* v_now of the session
    write,       \* the row the session has written and not yet committed
    status,      \* status the call returns
    found,       \* history: occurrences discovery has returned
    handled,     \* history: committed transitions of each occurrence
    enabledAt    \* history: v_now of the last edit that left the job enabled

locks == <<jobLock, targetLock, rowLock>>

vars == <<now, row, jobLock, targetLock, rowLock, pc, call, snap, vnow, write,
          status, found, handled, enabledAt>>

NoCall == [kind |-> "none"]

Calls ==
    [kind: {"scheduled"}, job: Jobs, expected: Times]
        \cup [kind: {"edit"}, job: Jobs, params: Edits]
        \cup [kind: {"manual"}, job: Jobs]

Statuses ==
    HandledStatuses \cup
    {"none", "SKIPPED_LOCKED", "SKIPPED_TARGET_LOCKED", "SKIPPED_DISABLED",
     "SKIPPED_RESCHEDULED", "SKIPPED_NOT_DUE", "FAILED_DATABASE",
     "UPDATED", "MANUAL_SUCCESS", "MANUAL_FAIL"}

PCs == {"idle", "lockRow", "validate", "plan", "work", "lockEdit",
        "manualWork", "commit", "reported"}

\* A transaction is open.
Open(s) == pc[s] \notin {"idle", "reported"}

Goto(s, label) == pc' = [pc EXCEPT ![s] = label]

Init ==
    /\ now = 0
    /\ row \in [Jobs -> InitialRows]
    /\ jobLock = [k \in LockKeys |-> NoSession]
    /\ targetLock = [k \in LockKeys |-> NoSession]
    /\ rowLock = [j \in Jobs |-> NoSession]
    /\ pc = [s \in Sessions |-> "idle"]
    /\ call = [s \in Sessions |-> NoCall]
    /\ snap = [s \in Sessions |-> NoRow]
    /\ vnow = [s \in Sessions |-> NoTime]
    /\ write = [s \in Sessions |-> NoRow]
    /\ status = [s \in Sessions |-> "none"]
    /\ found = {}
    /\ handled = [o \in Occurrences |-> 0]
    /\ enabledAt = [j \in Jobs |-> NoTime]

Tick ==
    /\ now < MaxTime
    /\ now' = now + 1
    /\ UNCHANGED <<row, locks, pc, call, snap, vnow, write, status, found,
                   handled, enabledAt>>

\* fetch_upcoming_jobs: one read-only query on the committed rows.
FetchUpcoming ==
    /\ found' = found \cup
          {o \in Occurrences : row[o[1]].next = o[2] /\ IsUpcoming(row[o[1]], now)}
    /\ UNCHANGED <<now, row, locks, pc, call, snap, vnow, write, status,
                   handled, enabledAt>>

-----------------------------------------------------------------------------
(***************************************************************************)
(* Ends of a transaction.                                                  *)
(***************************************************************************)
\* The function returns a status row; the client then sends COMMIT.
Return(s, st) ==
    /\ status' = [status EXCEPT ![s] = st]
    /\ Goto(s, "commit")

\* Mutation: session-level locks, which survive the transaction.
KeepsLocks(lock, s) == lock

FreeOf(lock, s) ==
    [k \in DOMAIN lock |-> IF lock[k] = s THEN NoSession ELSE lock[k]]

\* End of transaction: every lock of the session is released and the client is
\* told st.
Finish(s, st) ==
    /\ jobLock' = FreeOf(jobLock, s)
    /\ targetLock' = FreeOf(targetLock, s)
    /\ rowLock' = FreeOf(rowLock, s)
    /\ status' = [status EXCEPT ![s] = st]
    /\ Goto(s, "reported")
    /\ snap' = [snap EXCEPT ![s] = NoRow]
    /\ vnow' = [vnow EXCEPT ![s] = NoTime]
    /\ write' = [write EXCEPT ![s] = NoRow]

\* COMMIT.  The acknowledgement may be lost with the connection: the client
\* then reports FAILED_DATABASE for a transaction that is durable.
Commit(s) ==
    /\ pc[s] = "commit"
    /\ row' = IF write[s] = NoRow THEN row
              ELSE [row EXCEPT ![call[s].job] = write[s]]
    /\ handled' =
          IF status[s] \in HandledStatuses
          THEN [handled EXCEPT ![<<call[s].job, call[s].expected>>] = @ + 1]
          ELSE handled
    /\ enabledAt' =
          IF status[s] = "UPDATED" /\ write[s].enabled
          THEN [enabledAt EXCEPT ![call[s].job] = vnow[s]]
          ELSE enabledAt
    /\ \E st \in {status[s], "FAILED_DATABASE"} : Finish(s, st)
    /\ UNCHANGED <<now, call, found>>

\* Mutation: the status row is trusted although COMMIT was never processed.
AbortTrustingStatus(s) ==
    /\ Open(s)
    /\ Finish(s, IF pc[s] = "commit" THEN status[s] ELSE "FAILED_DATABASE")
    /\ UNCHANGED <<now, row, call, found, handled, enabledAt>>

\* ROLLBACK: a statement error that the function does not catch (an integer
\* overflow, a cancelled query), a broken connection, a server or client crash
\* before COMMIT is processed.
Abort(s) ==
    /\ Open(s)
    /\ Finish(s, "FAILED_DATABASE")
    /\ UNCHANGED <<now, row, call, found, handled, enabledAt>>

\* Mutation: the connection object is reused and keeps its last call.
CloseKeepingCall(s) ==
    /\ pc[s] = "reported"
    /\ Goto(s, "idle")
    /\ status' = [status EXCEPT ![s] = "none"]
    /\ UNCHANGED <<now, row, call, locks, snap, vnow, write, found, handled, enabledAt>>

\* The client has read the outcome and closed the connection.
Close(s) ==
    /\ pc[s] = "reported"
    /\ Goto(s, "idle")
    /\ call' = [call EXCEPT ![s] = NoCall]
    /\ status' = [status EXCEPT ![s] = "none"]
    /\ UNCHANGED <<now, row, locks, snap, vnow, write, found, handled, enabledAt>>
-----------------------------------------------------------------------------
(***************************************************************************)
(* run_partition_job_scheduled                                             *)
(***************************************************************************)
\* The connection is open and the function starts by trying the per-job
\* advisory lock.  abs(hashtext(..)) overflows for one hash value.
TryJobLock(s, o) ==
    LET k == JobKey(o[1]) IN
    /\ pc[s] = "idle"
    /\ o \in found
    /\ call' = [call EXCEPT ![s] = [kind |-> "scheduled", job |-> o[1], expected |-> o[2]]]
    /\ \/ /\ k = Overflow
          /\ status' = [status EXCEPT ![s] = "FAILED_DATABASE"]
          /\ Goto(s, "reported")
          /\ UNCHANGED jobLock
       \/ /\ k # Overflow /\ jobLock[k] # NoSession
          /\ Return(s, "SKIPPED_LOCKED")
          /\ UNCHANGED jobLock
       \/ /\ k # Overflow /\ jobLock[k] = NoSession
          /\ jobLock' = [jobLock EXCEPT ![k] = s]
          /\ Goto(s, "lockRow")
          /\ UNCHANGED status
    /\ UNCHANGED <<now, row, targetLock, rowLock, snap, vnow, write, found,
                   handled, enabledAt>>

\* Mutation: the row is read without FOR UPDATE.
ReadRowUnlocked(s) ==
    /\ pc[s] = "lockRow"
    /\ snap' = [snap EXCEPT ![s] = row[call[s].job]]
    /\ vnow' = [vnow EXCEPT ![s] = now]
    /\ Goto(s, "validate")
    /\ UNCHANGED <<now, row, locks, call, write, status, found, handled, enabledAt>>

\* SELECT ... FOR UPDATE waits for the row and returns its latest committed
\* version; the clock is read again afterwards.
LockRow(s) ==
    LET j == call[s].job IN
    /\ pc[s] = "lockRow"
    /\ rowLock[j] = NoSession
    /\ rowLock' = [rowLock EXCEPT ![j] = s]
    /\ snap' = [snap EXCEPT ![s] = row[j]]
    /\ vnow' = [vnow EXCEPT ![s] = now]
    /\ Goto(s, "validate")
    /\ UNCHANGED <<now, row, jobLock, targetLock, call, write, status, found,
                   handled, enabledAt>>

\* Fail closed: next_run_time becomes NULL and no worker runs.
ClearNext(s) ==
    /\ write' = [write EXCEPT ![s] = [snap[s] EXCEPT !.next = NoTime]]
    /\ Return(s, "FAILED_INVALID_SCHEDULE")

\* The checks on the locked row, then the target advisory lock.
Validate(s) ==
    LET verdict == RowVerdict(snap[s], call[s].expected, vnow[s])
        k == TargetKey(snap[s].target)
    IN
    /\ pc[s] = "validate"
    /\ \/ /\ verdict # "DUE"
          /\ Return(s, verdict)
          /\ UNCHANGED <<write, targetLock>>
       \/ /\ verdict = "DUE" /\ snap[s].op = "null"
          /\ ClearNext(s)
          /\ UNCHANGED targetLock
       \/ /\ verdict = "DUE" /\ snap[s].op # "null"
          /\ k # Overflow /\ targetLock[k] # NoSession
          /\ Return(s, "SKIPPED_TARGET_LOCKED")
          /\ UNCHANGED <<write, targetLock>>
       \/ /\ verdict = "DUE" /\ snap[s].op # "null"
          /\ k # Overflow /\ targetLock[k] = NoSession
          /\ targetLock' = [targetLock EXCEPT ![k] = s]
          /\ Goto(s, "plan")
          /\ UNCHANGED <<write, status>>
    /\ UNCHANGED <<now, row, jobLock, rowLock, call, snap, vnow, found, handled,
                   enabledAt>>

\* The next occurrence is calculated and validated before any worker runs.
PlanNext(s) ==
    /\ pc[s] = "plan"
    /\ \E n \in CronHelper(snap[s].sched) :
          \/ /\ InvalidNext(n, call[s].expected, vnow[s])
             /\ ClearNext(s)
          \/ /\ ~InvalidNext(n, call[s].expected, vnow[s])
             /\ write' = [write EXCEPT ![s] = [snap[s] EXCEPT !.next = n]]
             /\ Goto(s, "work")
             /\ UNCHANGED status
    /\ UNCHANGED <<now, row, locks, call, snap, vnow, found, handled, enabledAt>>

\* Mutation: the target is unlocked when the worker returns, before COMMIT.
RunWorkerThenUnlock(s) ==
    /\ pc[s] = "work"
    /\ \E st \in {"EXECUTED", "FAILED"} : Return(s, st)
    /\ targetLock' = FreeOf(targetLock, s)
    /\ UNCHANGED <<now, row, jobLock, rowLock, call, snap, vnow, write, found,
                   handled, enabledAt>>

\* db_config_para and the CREATE/DROP worker, in sub-blocks: an error rolls
\* the worker back and the occurrence still advances.
RunWorker(s) ==
    /\ pc[s] = "work"
    /\ \E st \in {"EXECUTED", "FAILED"} : Return(s, st)
    /\ UNCHANGED <<now, row, locks, call, snap, vnow, write, found, handled,
                   enabledAt>>

-----------------------------------------------------------------------------
(***************************************************************************)
(* update_data_to_partition_job_table                                      *)
(***************************************************************************)
BeginEdit(s, j, e) ==
    /\ pc[s] = "idle"
    /\ call' = [call EXCEPT ![s] = [kind |-> "edit", job |-> j, params |-> e]]
    /\ Goto(s, "lockEdit")
    /\ UNCHANGED <<now, row, locks, snap, vnow, write, status, found, handled,
                   enabledAt>>

\* FOR UPDATE, the clock, the next run time and the UPDATE.  A calculated time
\* that is not in the future raises: the edit is rolled back.
LockAndEdit(s) ==
    LET j == call[s].job
        e == call[s].params
        recalculate == NeedsRecalculation(row[j], e, now)
    IN
    /\ pc[s] = "lockEdit"
    /\ rowLock[j] = NoSession
    /\ \E n \in IF recalculate THEN CronHelper(e.sched) ELSE {KeptNext(row[j], e)} :
          \/ /\ recalculate /\ Stale(n, now)
             /\ Finish(s, "FAILED_DATABASE")
          \/ /\ recalculate => ~Stale(n, now)
             /\ rowLock' = [rowLock EXCEPT ![j] = s]
             /\ snap' = [snap EXCEPT ![s] = row[j]]
             /\ vnow' = [vnow EXCEPT ![s] = now]
             /\ write' = [write EXCEPT ![s] = EditedRow(e, n)]
             /\ Return(s, "UPDATED")
             /\ UNCHANGED <<jobLock, targetLock>>
    /\ UNCHANGED <<now, row, call, found, handled, enabledAt>>

-----------------------------------------------------------------------------
(***************************************************************************)
(* run_partition_job_manual: a plain SELECT, no FOR UPDATE, no advisory    *)
(* lock; neither next_run_time nor last_run_* changes.                     *)
(***************************************************************************)
BeginManual(s, j) ==
    /\ pc[s] = "idle"
    /\ call' = [call EXCEPT ![s] = [kind |-> "manual", job |-> j]]
    /\ snap' = [snap EXCEPT ![s] = row[j]]
    /\ Goto(s, "manualWork")
    /\ UNCHANGED <<now, row, locks, vnow, write, status, found, handled, enabledAt>>

\* A NULL is_create raises inside the block, which ends as MANUAL_FAIL.
ManualWork(s) ==
    /\ pc[s] = "manualWork"
    /\ \E st \in {"MANUAL_SUCCESS", "MANUAL_FAIL"} :
          /\ snap[s].op = "null" => st = "MANUAL_FAIL"
          /\ Return(s, st)
    /\ UNCHANGED <<now, row, locks, call, snap, vnow, write, found, handled,
                   enabledAt>>

-----------------------------------------------------------------------------
Step(s) ==
    \/ LockRow(s)
    \/ Validate(s)
    \/ PlanNext(s)
    \/ RunWorker(s)
    \/ LockAndEdit(s)
    \/ ManualWork(s)
    \/ Commit(s)
    \/ Abort(s)
    \/ Close(s)

Next ==
    \/ Tick
    \/ FetchUpcoming
    \/ \E s \in Sessions :
          \/ \E o \in Occurrences : TryJobLock(s, o)
          \/ \E j \in Jobs, e \in Edits : BeginEdit(s, j, e)
          \/ \E j \in Jobs : BeginManual(s, j)
          \/ Step(s)

Spec == Init /\ [][Next]_vars

-----------------------------------------------------------------------------
(***************************************************************************)
(* Properties.                                                             *)
(***************************************************************************)
\* Every variable has its type, and what a session holds fits where it is:
\* an idle session has no call, and only an open transaction keeps a row or a
\* clock value.
TypeOK ==
    /\ now \in Times
    /\ row \in [Jobs -> Row]
    /\ jobLock \in [LockKeys -> Sessions \cup {NoSession}]
    /\ targetLock \in [LockKeys -> Sessions \cup {NoSession}]
    /\ rowLock \in [Jobs -> Sessions \cup {NoSession}]
    /\ pc \in [Sessions -> PCs]
    /\ call \in [Sessions -> Calls \cup {NoCall}]
    /\ snap \in [Sessions -> Row \cup {NoRow}]
    /\ vnow \in [Sessions -> OptTimes]
    /\ write \in [Sessions -> Row \cup {NoRow}]
    /\ status \in [Sessions -> Statuses]
    /\ found \subseteq Occurrences
    /\ handled \in [Occurrences -> Nat]
    /\ enabledAt \in [Jobs -> OptTimes]
    /\ \A s \in Sessions :
          /\ pc[s] = "idle" <=> call[s] = NoCall
          /\ ~Open(s) => snap[s] = NoRow /\ write[s] = NoRow /\ vnow[s] = NoTime

\* Session s runs, or has run and not yet committed, the worker of a scheduled
\* occurrence (from the target lock to the end of the transaction).
Working(s) ==
    /\ call[s].kind = "scheduled"
    /\ \/ pc[s] \in {"plan", "work"}
       \/ pc[s] = "commit" /\ status[s] \in {"EXECUTED", "FAILED"}

\* An occurrence is transitioned (worker run, worker failed, or schedule
\* cleared) by at most one committed transaction, however many sessions try it.
AtMostOnce == \A o \in Occurrences : handled[o] <= 1

\* next_run_time never comes back to an occurrence that was transitioned,
\* whatever runs and edits follow: the scheduler's rapid-loop breaker, which
\* excludes such an occurrence, can never hide open work.
HandledStaysClosed ==
    \A o \in Occurrences : handled[o] > 0 => row[o[1]].next # o[2]

\* Two scheduled workers never operate on the same target at once: the lock is
\* held until the DDL is committed or rolled back.
TargetExclusive ==
    \A s, t \in Sessions :
        s # t /\ Working(s) /\ Working(t) => snap[s].target # snap[t].target

\* While a worker runs, and until its commit, the committed row is the one it
\* was started from, enabled and still at the expected occurrence: no edit,
\* disable or other run can slip between the checks and the commit.
WorkerSeesCurrentRow ==
    \A s \in Sessions : Working(s) =>
        /\ row[call[s].job] = snap[s]
        /\ snap[s].enabled
        /\ snap[s].next = call[s].expected

\* After an edit that leaves a job enabled, no occurrence from before the edit
\* runs: re-enabling an overdue job waits for a future occurrence.
ReenableSkipsOverdue ==
    \A s \in Sessions : Working(s) =>
        \/ enabledAt[call[s].job] = NoTime
        \/ call[s].expected > enabledAt[call[s].job]

\* A client that is told an occurrence was transitioned can rely on it: the
\* transition is committed.
ReportIsDurable ==
    \A s \in Sessions :
        pc[s] = "reported" /\ status[s] \in HandledStatuses =>
            handled[<<call[s].job, call[s].expected>>] > 0

\* The comment of execute_scheduled_job on FAILED_DATABASE, "transaction
\* aborted / rolled back -- occurrence NOT handled": the occurrence of a session
\* that reports it was not transitioned by that session.  Stated on the step
\* that reports.
FailedDatabaseNotHandled ==
    [][\A s \in Sessions :
         pc[s] # "reported" /\ pc'[s] = "reported" /\ status'[s] = "FAILED_DATABASE"
            => handled' = handled]_vars

(***************************************************************************)
(* Liveness.  A session keeps executing its statements (WF); a row lock is *)
(* granted in arrival order, so a waiter that keeps being overtaken gets   *)
(* it in the end (SF).  Aborts and new calls are never assumed.            *)
(***************************************************************************)
Fairness ==
    \A s \in Sessions :
        /\ SF_vars(LockRow(s))
        /\ SF_vars(LockAndEdit(s))
        /\ WF_vars(Validate(s))
        /\ WF_vars(PlanNext(s))
        /\ WF_vars(RunWorker(s))
        /\ WF_vars(ManualWork(s))
        /\ WF_vars(Commit(s))
        /\ WF_vars(Close(s))

FairSpec == Spec /\ Fairness

\* Every call ends: sessions that hold an advisory lock, wait for a row and
\* try the target lock never block each other for ever.
EveryCallEnds ==
    \A s \in Sessions : pc[s] \in {"lockRow", "lockEdit"} ~> pc[s] = "reported"

(***************************************************************************)
(* The inductive invariant behind the safety properties.  Its parts say     *)
(* what a session may rely on between two statements.                       *)
(***************************************************************************)
\* The session holds the lock of its job's row and may write it.
HoldsRow(s) ==
    \/ pc[s] \in {"validate", "plan", "work"}
    \/ pc[s] = "commit" /\ write[s] # NoRow

\* The row has passed every check: a worker may run, or the schedule has been
\* cleared.
Due(s) == pc[s] \in {"plan", "work"} \/ (pc[s] = "commit" /\ status[s] \in HandledStatuses)

\* Which call a session is in, and when it has something to commit.
CallInv(s) ==
    /\ pc[s] \in {"lockRow", "validate", "plan", "work"} => call[s].kind = "scheduled"
    /\ pc[s] = "lockEdit" => call[s].kind = "edit"
    /\ pc[s] = "work" => write[s] # NoRow
    /\ pc[s] \notin {"work", "commit"} => write[s] = NoRow
    /\ pc[s] = "commit" =>
          /\ status[s] \in HandledStatuses => call[s].kind = "scheduled" /\ write[s] # NoRow
          /\ status[s] = "UPDATED" => call[s].kind = "edit" /\ write[s] # NoRow
          /\ write[s] # NoRow => status[s] \in HandledStatuses \cup {"UPDATED"}
    /\ pc[s] = "reported" /\ status[s] \in HandledStatuses =>
          /\ call[s].kind = "scheduled"
          /\ handled[<<call[s].job, call[s].expected>>] > 0

\* What the row lock protects: the row the session read is the committed row,
\* and nothing happened to the job after the session's v_now.
HoldInv(s) ==
    LET j == call[s].job IN
    HoldsRow(s) =>
        /\ rowLock[j] = s
        /\ snap[s] = row[j]
        /\ vnow[s] \in 0 .. now
        /\ enabledAt[j] # NoTime => enabledAt[j] <= vnow[s]
        /\ \A t \in Times : handled[<<j, t>>] > 0 => t <= vnow[s]

DueInv(s) ==
    Due(s) =>
        /\ snap[s].enabled
        /\ snap[s].next = call[s].expected
        /\ call[s].expected <= vnow[s]

\* The next run time about to be committed is NULL (only a scheduled run
\* clears it), in the future of v_now, or (an edit that disables) unchanged;
\* a scheduled run does not enable or disable.
WriteInv(s) ==
    HoldsRow(s) /\ write[s] # NoRow =>
        /\ \/ write[s].next = NoTime /\ call[s].kind = "scheduled"
           \/ write[s].next \in vnow[s] + 1 .. MaxTime
           \/ write[s].next = snap[s].next /\ call[s].kind = "edit" /\ ~write[s].enabled
        /\ call[s].kind = "scheduled" => write[s].enabled = snap[s].enabled

TargetInv(s) ==
    Working(s) =>
        /\ TargetKey(snap[s].target) # Overflow
        /\ targetLock[TargetKey(snap[s].target)] = s

\* Closed occurrences lie in the past and before the open one; so does the
\* instant a job was last enabled.
PastInv ==
    \A j \in Jobs :
        /\ \A t \in Times : handled[<<j, t>>] > 0 =>
              t <= now /\ (row[j].next = NoTime \/ row[j].next > t)
        /\ enabledAt[j] # NoTime =>
              enabledAt[j] <= now /\ (row[j].next = NoTime \/ row[j].next > enabledAt[j])

IndInv ==
    /\ TypeOK
    /\ \A s \in Sessions :
          CallInv(s) /\ HoldInv(s) /\ DueInv(s) /\ WriteInv(s) /\ TargetInv(s)
    /\ PastInv
    /\ AtMostOnce

(***************************************************************************)
(* Refinement: each commit is one step of the ledger, everything else       *)
(* stutters.                                                               *)
(***************************************************************************)
Ledger == INSTANCE OccurrenceLedger WITH
              enabled <- [j \in Jobs |-> row[j].enabled],
              next    <- [j \in Jobs |-> row[j].next],
              closed  <- {o \in Occurrences : handled[o] > 0}

\* The sessions together implement the ledger: whatever they interleave, the
\* committed table moves only by closing a due open occurrence or by an edit
\* that does not reopen a closed one.
RefinesLedger == Ledger!Spec
=============================================================================
