------------------------------ MODULE JobTable ------------------------------
(***************************************************************************)
(* The rows of partitioning_job_table and the decisions the database       *)
(* functions take on one row: the advisory-lock key of a name, whether a   *)
(* row is upcoming, whether a scheduled occurrence may run, which next run *)
(* time is accepted, and what a configuration edit writes.  Every operator *)
(* is a pure function of its arguments; the modules that move (transaction *)
(* sessions, scheduler loop) share them.                                   *)
(*                                                                         *)
(* Time is counted in abstract instants 0..MaxTime.  A column that holds   *)
(* SQL NULL holds the model value NoTime; an is_create that is NULL is the *)
(* operation "null".                                                       *)
(***************************************************************************)
EXTENDS Integers

CONSTANTS
    Jobs,        \* job_id values of the table
    Targets,     \* (table_schema, table_name) pairs
    Schedules,   \* job_schedule texts
    MaxTime,     \* bound: last instant of the modelled clock
    Lookahead,   \* p_lookahead of get_upcoming_partition_jobs
    NoTime,      \* SQL NULL in a timestamp column
    JobHash,     \* hashtext('partition_job_scheduled:' || job_id)
    TargetHash,  \* hashtext('partition_job_target:' || schema || '.' || name)
    HashLimit    \* hashtext returns -HashLimit .. HashLimit - 1 (2^31 in PostgreSQL)

ASSUME TimeAssumption ==
    /\ MaxTime \in Nat
    /\ Lookahead \in Nat \ {0}
    /\ NoTime \notin Int

ASSUME HashAssumption ==
    /\ HashLimit \in Nat /\ HashLimit > 1
    /\ JobHash \in [Jobs -> -HashLimit .. HashLimit - 1]
    /\ TargetHash \in [Targets -> -HashLimit .. HashLimit - 1]

Times == 0 .. MaxTime

OptTimes == Times \cup {NoTime}

Operations == {"create", "drop", "null"}

\* The columns the schedule depends on.
Row == [enabled: BOOLEAN, next: OptTimes, op: Operations,
        target: Targets, sched: Schedules]

\* An occurrence is identified by its job and the next_run_time it was
\* discovered with.
Occurrences == Jobs \X Times

(***************************************************************************)
(* Advisory-lock keys.                                                     *)
(***************************************************************************)
Overflow == -1

LockKeys == 0 .. HashLimit - 2

\* (abs(hashtext(name)) % 2147483647)::integer.  abs of the smallest int4 has
\* no int4 value: PostgreSQL raises "integer out of range".
LockKey(h) ==
    IF h = -HashLimit THEN Overflow
    ELSE (IF h < 0 THEN -h ELSE h) % (HashLimit - 1)

JobKey(j) == LockKey(JobHash[j])

TargetKey(tg) == LockKey(TargetHash[tg])

(***************************************************************************)
(* cron_to_interval_or_next_run is external.  Whatever it returns (now plus *)
(* an interval, a timestamp, NULL) or raises is some instant or NoTime: the *)
(* callers may rely on nothing else.                                       *)
(***************************************************************************)
CronHelper(sched) == OptTimes

(***************************************************************************)
(* get_upcoming_partition_jobs                                             *)
(***************************************************************************)
IsUpcoming(r, v) ==
    /\ r.enabled
    /\ r.next # NoTime
    /\ r.next <= v + Lookahead

(***************************************************************************)
(* run_partition_job_scheduled: the checks made once the row is locked, in *)
(* the order the function makes them.                                      *)
(***************************************************************************)
\* Mutation: the stale-timer check is dropped.
RowVerdictIgnoringReschedule(r, expected, v) ==
    CASE ~r.enabled   -> "SKIPPED_DISABLED"
      [] r.enabled /\ expected > v -> "SKIPPED_NOT_DUE"
      [] OTHER        -> "DUE"

RowVerdict(r, expected, v) ==
    CASE ~r.enabled         -> "SKIPPED_DISABLED"
      [] r.enabled /\ r.next # expected -> "SKIPPED_RESCHEDULED"
      [] r.enabled /\ r.next = expected /\ expected > v -> "SKIPPED_NOT_DUE"
      [] OTHER              -> "DUE"

\* The instant n is NULL or not after v.
Stale(n, v) == n \notin v + 1 .. MaxTime

\* A calculated next run time that must not be written: NULL, not after the
\* occurrence, or not in the future.
\* Mutation: only NULL is refused.
NullNextOnly(n, expected, v) == n = NoTime

InvalidNext(n, expected, v) == Stale(n, expected) \/ Stale(n, v)

\* Statuses that the scheduler treats as a committed transition of the
\* occurrence (_HANDLED_OCCURRENCE_STATUSES).
HandledStatuses == {"EXECUTED", "FAILED", "FAILED_INVALID_SCHEDULE"}

(***************************************************************************)
(* update_data_to_partition_job_table                                      *)
(***************************************************************************)
\* The parameters of an edit; is_create may not be NULL (raises before the
\* row is read), next may.
EditParams == [enabled: BOOLEAN, next: OptTimes, op: {"create", "drop"},
               target: Targets, sched: Schedules]

\* Mutation: the next run time the client sends is trusted even when it has
\* passed, and re-enabling alone is no reason to recalculate.
TrustsClientNext(r, e, v) == e.sched # r.sched

NeedsRecalculation(r, e, v) ==
    IF e.enabled
    THEN \/ e.sched # r.sched
         \/ ~r.enabled
         \/ Stale(r.next, v)
         \/ Stale(e.next, v)
    ELSE e.sched # r.sched

\* next_run_time when no recalculation is needed.
KeptNext(r, e) == IF e.enabled THEN e.next ELSE r.next

EditedRow(e, n) ==
    [enabled |-> e.enabled, next |-> n, op |-> e.op,
     target |-> e.target, sched |-> e.sched]
=============================================================================
