----------------------- MODULE JobTransactions_proofs -----------------------
(***************************************************************************)
(* Proofs about JobTransactions, for any number of jobs, targets, sessions *)
(* and instants.                                                           *)
(***************************************************************************)
EXTENDS JobTransactions, TLAPS

-----------------------------------------------------------------------------
(***************************************************************************)
(* Lemmas about the operators of JobTable.                                 *)
(***************************************************************************)
\* Lock keys: every hash but the smallest yields a key of the lock table.
LEMMA LockKeyRange ==
    ASSUME NEW h \in -HashLimit .. HashLimit - 1, LockKey(h) # Overflow
    PROVE  LockKey(h) \in LockKeys
  <1> DEFINE a == IF h < 0 THEN -h ELSE h
  <1> DEFINE m == HashLimit - 1
  <1>1. h # -HashLimit /\ LockKey(h) = a % m
    BY DEF LockKey
  <1>2. a \in Nat /\ m \in Nat /\ m > 0
    BY HashAssumption
  <1>3. a % m \in 0 .. m - 1
    <2> HIDE DEF a, m
    <2> QED BY <1>2
  <1>4. QED BY <1>1, <1>3, HashAssumption DEF LockKeys

\* An instant that is not stale lies after the bound.
LEMMA NotStale ==
    ASSUME NEW n, NEW v \in Times, ~Stale(n, v)
    PROVE  n \in Times /\ n # NoTime /\ n > v
  BY TimeAssumption DEF Stale, Times

\* The target of a row has a key or an overflow.
LEMMA TargetKeyRange ==
    ASSUME NEW tg \in Targets, TargetKey(tg) # Overflow
    PROVE  TargetKey(tg) \in LockKeys
  BY LockKeyRange, HashAssumption DEF TargetKey

-----------------------------------------------------------------------------
(***************************************************************************)
(* Type correctness.                                                       *)
(***************************************************************************)
LEMMA InitType == Init => TypeOK
  BY TimeAssumption, SessionAssumption
  DEF Init, TypeOK, Times, OptTimes, Open, PCs, Statuses, NoCall

\* What the type of a call says, by its kind.
LEMMA CallType ==
    ASSUME TypeOK, NEW s \in Sessions, pc[s] # "idle"
    PROVE  /\ call[s] \in Calls
           /\ call[s].job \in Jobs
           /\ call[s].kind = "scheduled" =>
                 /\ call[s].expected \in Times
                 /\ <<call[s].job, call[s].expected>> \in Occurrences
           /\ call[s].kind = "edit" => call[s].params \in EditParams
  BY SessionAssumption DEF TypeOK, Calls, NoCall, Occurrences

\* The row a session holds is a row, and so is what it writes after a change
\* of its next run time.
LEMMA HeldRow ==
    ASSUME TypeOK, NEW s \in Sessions, HoldInv(s), HoldsRow(s)
    PROVE  /\ snap[s] \in Row
           /\ vnow[s] \in Times
           /\ \A n \in OptTimes : [snap[s] EXCEPT !.next = n] \in Row
  <1>1. call[s].job \in Jobs
    BY CallType DEF HoldsRow
  <1>2. snap[s] \in Row
    BY <1>1 DEF TypeOK, HoldInv
  <1>3. vnow[s] \in Times
    BY TimeAssumption DEF HoldInv, TypeOK, Times
  <1> QED BY <1>2, <1>3 DEF Row

LEMMA FinishType ==
    ASSUME TypeOK, NEW s \in Sessions, call[s] # NoCall, NEW st \in Statuses,
           Finish(s, st)
    PROVE  /\ jobLock' \in [LockKeys -> Sessions \cup {NoSession}]
           /\ targetLock' \in [LockKeys -> Sessions \cup {NoSession}]
           /\ rowLock' \in [Jobs -> Sessions \cup {NoSession}]
           /\ pc' \in [Sessions -> PCs]
           /\ snap' \in [Sessions -> Row \cup {NoRow}]
           /\ vnow' \in [Sessions -> OptTimes]
           /\ write' \in [Sessions -> Row \cup {NoRow}]
           /\ status' \in [Sessions -> Statuses]
           /\ pc' = [pc EXCEPT ![s] = "reported"]
           /\ snap'[s] = NoRow /\ write'[s] = NoRow /\ vnow'[s] = NoTime
           /\ \A t \in Sessions \ {s} :
                 snap'[t] = snap[t] /\ write'[t] = write[t] /\ vnow'[t] = vnow[t]
  BY DEF TypeOK, Finish, FreeOf, Goto, PCs, OptTimes

LEMMA NextType == IndInv /\ [Next]_vars => TypeOK'
  <1> SUFFICES ASSUME IndInv, [Next]_vars PROVE TypeOK'
    OBVIOUS
  <1>0. TypeOK /\ \A s \in Sessions : CallInv(s) /\ HoldInv(s)
    BY DEF IndInv
  <1> USE DEF Goto, Return, Open, PCs, locks
  <1>1. CASE Tick
    <2>1. now' \in Times
      BY <1>0, <1>1, TimeAssumption DEF Tick, TypeOK, Times
    <2> QED BY <1>0, <1>1, <2>1 DEF Tick, TypeOK
  <1>2. CASE FetchUpcoming
    BY <1>0, <1>2 DEF FetchUpcoming, TypeOK
  <1>3. ASSUME NEW s \in Sessions, NEW o \in Occurrences, TryJobLock(s, o)
        PROVE  TypeOK'
    <2> DEFINE c == [kind |-> "scheduled", job |-> o[1], expected |-> o[2]]
    <2>1. c \in Calls /\ c # NoCall
      BY DEF Calls, NoCall, Occurrences
    <2>2. call' = [call EXCEPT ![s] = c] /\ call' \in [Sessions -> Calls \cup {NoCall}]
      BY <1>0, <1>3, <2>1 DEF TryJobLock, TypeOK
    <2>3. jobLock' \in [LockKeys -> Sessions \cup {NoSession}]
      BY <1>0, <1>3 DEF TryJobLock, TypeOK
    <2>4. status' \in [Sessions -> Statuses]
      BY <1>0, <1>3 DEF TryJobLock, TypeOK, Statuses
    <2>5. \E label \in PCs \ {"idle"} : pc' = [pc EXCEPT ![s] = label]
      BY <1>3 DEF TryJobLock
    <2> QED BY <1>0, <1>3, <2>1, <2>2, <2>3, <2>4, <2>5 DEF TryJobLock, TypeOK
  <1>4. ASSUME NEW s \in Sessions, NEW j \in Jobs, NEW e \in Edits, BeginEdit(s, j, e)
        PROVE  TypeOK'
    <2>1. [kind |-> "edit", job |-> j, params |-> e] \in Calls \ {NoCall}
      BY DEF Calls, NoCall
    <2> QED BY <1>0, <1>4, <2>1 DEF BeginEdit, TypeOK
  <1>5. ASSUME NEW s \in Sessions, NEW j \in Jobs, BeginManual(s, j)
        PROVE  TypeOK'
    <2>1. [kind |-> "manual", job |-> j] \in Calls \ {NoCall}
      BY DEF Calls, NoCall
    <2> QED BY <1>0, <1>5, <2>1 DEF BeginManual, TypeOK
  <1>6. ASSUME NEW s \in Sessions, LockRow(s)
        PROVE  TypeOK'
    <2>1. call[s].job \in Jobs /\ now \in OptTimes
      BY <1>0, <1>6, CallType DEF LockRow, TypeOK, OptTimes
    <2>2. row[call[s].job] \in Row
      BY <1>0, <2>1 DEF TypeOK
    <2>3. /\ rowLock' \in [Jobs -> Sessions \cup {NoSession}]
          /\ snap' \in [Sessions -> Row \cup {NoRow}]
          /\ vnow' \in [Sessions -> OptTimes]
          /\ pc' \in [Sessions -> PCs]
      BY <1>0, <1>6, <2>1, <2>2 DEF LockRow, TypeOK
    <2>4. \A t \in Sessions \ {s} : snap'[t] = snap[t] /\ vnow'[t] = vnow[t] /\ pc'[t] = pc[t]
      BY <1>0, <1>6 DEF LockRow, TypeOK
    <2>5. pc'[s] = "validate" /\ pc[s] = "lockRow"
      BY <1>0, <1>6 DEF LockRow, TypeOK
    <2> QED BY <1>0, <1>6, <2>3, <2>4, <2>5 DEF LockRow, TypeOK
  <1>7. ASSUME NEW s \in Sessions, Validate(s)
        PROVE  TypeOK'
    <2>1. snap[s] \in Row /\ [snap[s] EXCEPT !.next = NoTime] \in Row
      BY <1>0, <1>7, HeldRow DEF Validate, HoldsRow, OptTimes
    <2>2. RowVerdict(snap[s], call[s].expected, vnow[s])
             \in {"SKIPPED_DISABLED", "SKIPPED_RESCHEDULED", "SKIPPED_NOT_DUE", "DUE"}
      BY DEF RowVerdict
    <2>3. write' \in [Sessions -> Row \cup {NoRow}]
      BY <1>0, <1>7, <2>1 DEF Validate, ClearNext, TypeOK
    <2>4. status' \in [Sessions -> Statuses]
      BY <1>0, <1>7, <2>2 DEF Validate, ClearNext, TypeOK, Statuses, HandledStatuses
    <2>5. targetLock' \in [LockKeys -> Sessions \cup {NoSession}]
      BY <1>0, <1>7 DEF Validate, ClearNext, TypeOK
    <2>6. \E label \in {"plan", "commit"} : pc' = [pc EXCEPT ![s] = label]
      BY <1>7 DEF Validate, ClearNext
    <2>7. \A t \in Sessions \ {s} : write'[t] = write[t]
      BY <1>0, <1>7 DEF Validate, ClearNext, TypeOK
    <2> QED BY <1>0, <1>7, <2>3, <2>4, <2>5, <2>6, <2>7 DEF Validate, TypeOK
  <1>8. ASSUME NEW s \in Sessions, PlanNext(s)
        PROVE  TypeOK'
    <2>1. \A n \in OptTimes : [snap[s] EXCEPT !.next = n] \in Row
      BY <1>0, <1>8, HeldRow DEF PlanNext, HoldsRow
    <2>2. write' \in [Sessions -> Row \cup {NoRow}]
      <3>1. PICK n \in OptTimes : write' = [write EXCEPT ![s] = [snap[s] EXCEPT !.next = n]]
        BY <1>8 DEF PlanNext, ClearNext, CronHelper, OptTimes
      <3> QED BY <1>0, <2>1, <3>1 DEF TypeOK
    <2>3. status' \in [Sessions -> Statuses]
      BY <1>0, <1>8 DEF PlanNext, ClearNext, TypeOK, Statuses, HandledStatuses
    <2>4. \E label \in {"work", "commit"} : pc' = [pc EXCEPT ![s] = label]
      BY <1>8 DEF PlanNext, ClearNext
    <2>5. \A t \in Sessions \ {s} : write'[t] = write[t]
      BY <1>0, <1>8 DEF PlanNext, ClearNext, TypeOK
    <2> QED BY <1>0, <1>8, <2>2, <2>3, <2>4, <2>5 DEF PlanNext, TypeOK
  <1>9. ASSUME NEW s \in Sessions, RunWorker(s)
        PROVE  TypeOK'
    <2>1. PICK st \in {"EXECUTED", "FAILED"} : Return(s, st)
      BY <1>9 DEF RunWorker
    <2>2. st \in Statuses
      BY DEF Statuses, HandledStatuses
    <2> QED BY <1>0, <1>9, <2>1, <2>2 DEF RunWorker, TypeOK
  <1>10. ASSUME NEW s \in Sessions, LockAndEdit(s)
        PROVE  TypeOK'
    <2> DEFINE j == call[s].job
               e == call[s].params
    <2>1. j \in Jobs /\ e \in EditParams
      BY <1>0, <1>10, CallType DEF LockAndEdit, CallInv
    <2>2. CASE Finish(s, "FAILED_DATABASE")
      BY <1>0, <1>10, <2>2, FinishType, CallType DEF LockAndEdit, TypeOK, Statuses
    <2>3. CASE ~Finish(s, "FAILED_DATABASE")
      <3>1. PICK n \in OptTimes :
               /\ rowLock' = [rowLock EXCEPT ![j] = s]
               /\ snap' = [snap EXCEPT ![s] = row[j]]
               /\ vnow' = [vnow EXCEPT ![s] = now]
               /\ write' = [write EXCEPT ![s] = EditedRow(e, n)]
               /\ Return(s, "UPDATED")
               /\ UNCHANGED <<jobLock, targetLock>>
        <4>1. CronHelper(e.sched) = OptTimes
          BY DEF CronHelper
        <4>2. KeptNext(row[j], e) \in OptTimes
          BY <1>0, <2>1 DEF KeptNext, TypeOK, Row, EditParams
        <4> QED BY <1>10, <2>3, <4>1, <4>2 DEF LockAndEdit
      <3>2. EditedRow(e, n) \in Row
        BY <2>1 DEF EditedRow, EditParams, Row, Operations
      <3>3. "UPDATED" \in Statuses
        BY DEF Statuses
      <3> QED BY <1>0, <1>10, <2>1, <3>1, <3>2, <3>3 DEF LockAndEdit, TypeOK, OptTimes
    <2> QED BY <2>2, <2>3
  <1>11. ASSUME NEW s \in Sessions, ManualWork(s)
        PROVE  TypeOK'
    <2>1. PICK st \in {"MANUAL_SUCCESS", "MANUAL_FAIL"} : Return(s, st)
      BY <1>11 DEF ManualWork
    <2>2. st \in Statuses
      BY DEF Statuses
    <2> QED BY <1>0, <1>11, <2>1, <2>2 DEF ManualWork, TypeOK
  <1>12. ASSUME NEW s \in Sessions, Commit(s)
        PROVE  TypeOK'
    <2>1. call[s] # NoCall /\ call[s].job \in Jobs
      BY <1>0, <1>12, CallType DEF Commit, TypeOK
    <2>2. PICK st \in {status[s], "FAILED_DATABASE"} : Finish(s, st)
      BY <1>12 DEF Commit
    <2>3. st \in Statuses
      BY <1>0 DEF TypeOK, Statuses
    <2>4. row' \in [Jobs -> Row]
      BY <1>0, <1>12, <2>1 DEF Commit, TypeOK
    <2>5. handled' \in [Occurrences -> Nat]
      <3>1. CASE status[s] \in HandledStatuses
        <4>1. <<call[s].job, call[s].expected>> \in Occurrences
          BY <1>0, <1>12, <3>1, CallType DEF Commit, CallInv
        <4> QED BY <1>0, <1>12, <3>1, <4>1 DEF Commit, TypeOK
      <3> QED BY <1>0, <1>12, <3>1 DEF Commit, TypeOK
    <2>6. enabledAt' \in [Jobs -> OptTimes]
      BY <1>0, <1>12, <2>1 DEF Commit, TypeOK
    <2> QED BY <1>0, <1>12, <2>1, <2>2, <2>3, <2>4, <2>5, <2>6, FinishType DEF Commit, TypeOK
  <1>13. ASSUME NEW s \in Sessions, Abort(s)
        PROVE  TypeOK'
    <2>1. "FAILED_DATABASE" \in Statuses /\ call[s] # NoCall
      BY <1>0, <1>13 DEF Abort, Statuses, TypeOK
    <2> QED BY <1>0, <1>13, <2>1, FinishType DEF Abort, TypeOK
  <1>14. ASSUME NEW s \in Sessions, Close(s)
        PROVE  TypeOK'
    BY <1>0, <1>14 DEF Close, TypeOK, Statuses
  <1>15. CASE UNCHANGED vars
    BY <1>0, <1>15 DEF vars, TypeOK
  <1> QED
    BY <1>1, <1>2, <1>3, <1>4, <1>5, <1>6, <1>7, <1>8, <1>9, <1>10, <1>11,
       <1>12, <1>13, <1>14, <1>15 DEF Next, Step

-----------------------------------------------------------------------------
(***************************************************************************)
(* The inductive invariant.  A step of one session is seen by another only *)
(* through the shared variables: the rows and the histories, which change  *)
(* for a job only while its row lock is held, and the locks, which no      *)
(* session takes from another.                                             *)
(***************************************************************************)
SessionInv(s) == CallInv(s) /\ HoldInv(s) /\ DueInv(s) /\ WriteInv(s) /\ TargetInv(s)

\* The step leaves session t where it is.
Undisturbed(t) ==
    /\ pc'[t] = pc[t]
    /\ call'[t] = call[t]
    /\ snap'[t] = snap[t]
    /\ vnow'[t] = vnow[t]
    /\ write'[t] = write[t]
    /\ status'[t] = status[t]

\* The step respects the locks of session t.
Respects(t) ==
    /\ now <= now'
    /\ \A k \in LockKeys : targetLock[k] = t => targetLock'[k] = t
    /\ \A j \in Jobs : rowLock[j] = t =>
          /\ rowLock'[j] = t
          /\ row'[j] = row[j]
          /\ enabledAt'[j] = enabledAt[j]
          /\ \A u \in Times : handled'[<<j, u>>] = handled[<<j, u>>]
    /\ \A o \in Occurrences : handled[o] > 0 => handled'[o] > 0

LEMMA OtherSession ==
    ASSUME IndInv, TypeOK', NEW t \in Sessions, Undisturbed(t), Respects(t)
    PROVE  SessionInv(t)'
  <1>0. TypeOK /\ SessionInv(t)
    BY DEF IndInv, SessionInv
  <1> USE DEF Undisturbed
  <1>1. HoldsRow(t)' = HoldsRow(t) /\ Due(t)' = Due(t) /\ Working(t)' = Working(t)
    BY DEF HoldsRow, Due, Working
  <1>2. CallInv(t)'
    <2>1. pc[t] = "reported" /\ status[t] \in HandledStatuses =>
             handled'[<<call[t].job, call[t].expected>>] > 0
      BY <1>0, CallType DEF SessionInv, CallInv, Respects
    <2> QED BY <1>0, <2>1 DEF SessionInv, CallInv
  <1>3. HoldInv(t)'
    <2> SUFFICES ASSUME HoldsRow(t) PROVE HoldInv(t)'
      BY <1>1 DEF HoldInv
    <2> DEFINE j == call[t].job
    <2>1. j \in Jobs
      BY <1>0, CallType DEF HoldsRow
    <2>2. /\ rowLock[j] = t /\ snap[t] = row[j] /\ vnow[t] \in 0 .. now
          /\ enabledAt[j] # NoTime => enabledAt[j] <= vnow[t]
          /\ \A u \in Times : handled[<<j, u>>] > 0 => u <= vnow[t]
      BY <1>0 DEF SessionInv, HoldInv
    <2>3. /\ rowLock'[j] = t /\ row'[j] = row[j] /\ enabledAt'[j] = enabledAt[j]
          /\ \A u \in Times : handled'[<<j, u>>] = handled[<<j, u>>]
      BY <2>1, <2>2 DEF Respects
    <2>4. vnow[t] \in 0 .. now'
      BY <1>0, <2>2 DEF Respects, TypeOK, Times
    <2> QED BY <2>2, <2>3, <2>4 DEF HoldInv
  <1>4. DueInv(t)' /\ WriteInv(t)'
    BY <1>0, <1>1 DEF SessionInv, DueInv, WriteInv
  <1>5. TargetInv(t)'
    <2> SUFFICES ASSUME Working(t) PROVE TargetInv(t)'
      BY <1>1 DEF TargetInv
    <2>1. TargetKey(snap[t].target) # Overflow /\ targetLock[TargetKey(snap[t].target)] = t
      BY <1>0 DEF SessionInv, TargetInv
    <2>2. HoldsRow(t)
      BY <1>0 DEF Working, HoldsRow, SessionInv, CallInv, HandledStatuses
    <2>3. snap[t].target \in Targets
      BY <1>0, <2>2, HeldRow DEF SessionInv, Row
    <2> QED BY <2>1, <2>3, TargetKeyRange DEF TargetInv, Respects
  <1> QED BY <1>2, <1>3, <1>4, <1>5 DEF SessionInv

\* A step that commits nothing keeps what is said of the committed rows.
LEMMA NothingCommitted ==
    ASSUME IndInv, TypeOK', now <= now', UNCHANGED <<row, handled, enabledAt>>
    PROVE  PastInv' /\ AtMostOnce'
  <1>1. now \in Int /\ now' \in Int
    BY DEF IndInv, TypeOK, Times
  <1>2. AtMostOnce'
    BY DEF IndInv, AtMostOnce
  <1>3. PastInv'
    <2>1. PastInv
      BY DEF IndInv
    <2>2. \A j \in Jobs : enabledAt[j] # NoTime => enabledAt[j] \in Int
      BY DEF IndInv, TypeOK, OptTimes, Times
    <2> QED BY <1>1, <2>1, <2>2 DEF PastInv, Times
  <1> QED BY <1>2, <1>3

\* A step of one session that commits nothing: the invariant follows from what
\* it says of the session itself.
LEMMA LocalStep ==
    ASSUME IndInv, TypeOK', NEW s \in Sessions,
           UNCHANGED <<now, row, handled, enabledAt>>,
           \A t \in Sessions \ {s} : Undisturbed(t) /\ Respects(t),
           SessionInv(s)'
    PROVE  IndInv'
  <1>1. \A t \in Sessions \ {s} : SessionInv(t)'
    BY OtherSession
  <1>2. PastInv' /\ AtMostOnce'
    <2>1. now <= now'
      BY DEF IndInv, TypeOK, Times
    <2> QED BY <2>1, NothingCommitted
  <1> QED BY <1>1, <1>2 DEF IndInv, SessionInv

LEMMA NextInv == IndInv /\ [Next]_vars => IndInv'
  <1> SUFFICES ASSUME IndInv, [Next]_vars PROVE IndInv'
    OBVIOUS
  <1>0. TypeOK /\ TypeOK' /\ (\A s \in Sessions : SessionInv(s)) /\ PastInv /\ AtMostOnce
    BY NextType DEF IndInv, SessionInv
  <1>a. now \in Int
    BY <1>0 DEF TypeOK, Times
  <1> USE DEF Goto, Return, locks
  <1>1. CASE Tick
    <2>1. \A t \in Sessions : Undisturbed(t) /\ Respects(t)
      BY <1>0, <1>1, <1>a DEF Tick, Undisturbed, Respects
    <2>2. PastInv' /\ AtMostOnce'
      BY <1>0, <1>1, <1>a, NothingCommitted DEF Tick
    <2> QED BY <1>0, <2>1, <2>2, OtherSession DEF IndInv, SessionInv
  <1>2. CASE FetchUpcoming \/ UNCHANGED vars
    <2>1. \A t \in Sessions : Undisturbed(t) /\ Respects(t)
      BY <1>0, <1>2, <1>a DEF FetchUpcoming, vars, Undisturbed, Respects
    <2>2. PastInv' /\ AtMostOnce'
      BY <1>0, <1>2, <1>a, NothingCommitted DEF FetchUpcoming, vars
    <2> QED BY <1>0, <2>1, <2>2, OtherSession DEF IndInv, SessionInv
  <1>3. ASSUME NEW s \in Sessions, NEW o \in Occurrences, TryJobLock(s, o)
        PROVE  IndInv'
    <2>1. \A t \in Sessions \ {s} : Undisturbed(t) /\ Respects(t)
      BY <1>0, <1>3, <1>a DEF TryJobLock, Undisturbed, Respects, TypeOK
    <2>2. /\ pc[s] = "idle" /\ write[s] = NoRow
          /\ \/ pc'[s] = "reported" /\ status'[s] = "FAILED_DATABASE"
             \/ pc'[s] = "commit" /\ status'[s] = "SKIPPED_LOCKED"
             \/ pc'[s] = "lockRow"
          /\ write'[s] = NoRow
          /\ call'[s].kind = "scheduled"
      BY <1>0, <1>3 DEF TryJobLock, TypeOK, Open
    <2>3. SessionInv(s)'
      BY <2>2 DEF SessionInv, CallInv, HoldInv, DueInv, WriteInv, TargetInv,
                  HoldsRow, Due, Working, HandledStatuses
    <2> QED BY <1>0, <1>3, <2>1, <2>3, LocalStep DEF TryJobLock
  <1>4. ASSUME NEW s \in Sessions, NEW j \in Jobs, NEW e \in Edits, BeginEdit(s, j, e)
        PROVE  IndInv'
    <2>1. \A t \in Sessions \ {s} : Undisturbed(t) /\ Respects(t)
      BY <1>0, <1>4, <1>a DEF BeginEdit, Undisturbed, Respects, TypeOK
    <2>2. pc'[s] = "lockEdit" /\ write'[s] = NoRow /\ call'[s].kind = "edit"
      BY <1>0, <1>4 DEF BeginEdit, TypeOK, Open
    <2>3. SessionInv(s)'
      BY <2>2 DEF SessionInv, CallInv, HoldInv, DueInv, WriteInv, TargetInv,
                  HoldsRow, Due, Working
    <2> QED BY <1>0, <1>4, <2>1, <2>3, LocalStep DEF BeginEdit
  <1>5. ASSUME NEW s \in Sessions, NEW j \in Jobs, BeginManual(s, j)
        PROVE  IndInv'
    <2>1. \A t \in Sessions \ {s} : Undisturbed(t) /\ Respects(t)
      BY <1>0, <1>5, <1>a DEF BeginManual, Undisturbed, Respects, TypeOK
    <2>2. pc'[s] = "manualWork" /\ write'[s] = NoRow
      BY <1>0, <1>5 DEF BeginManual, TypeOK, Open
    <2>3. SessionInv(s)'
      BY <2>2 DEF SessionInv, CallInv, HoldInv, DueInv, WriteInv, TargetInv,
                  HoldsRow, Due, Working
    <2> QED BY <1>0, <1>5, <2>1, <2>3, LocalStep DEF BeginManual
  <1>6. ASSUME NEW s \in Sessions, LockRow(s)
        PROVE  IndInv'
    <2>1. \A t \in Sessions \ {s} : Undisturbed(t) /\ Respects(t)
      BY <1>0, <1>6, <1>a, SessionAssumption DEF LockRow, Undisturbed, Respects, TypeOK
    <2>2. call[s].job \in Jobs /\ call[s].kind = "scheduled" /\ write[s] = NoRow
      BY <1>0, <1>6, CallType DEF LockRow, SessionInv, CallInv
    <2>3. /\ pc'[s] = "validate"
          /\ write'[s] = NoRow
          /\ call'[s] = call[s]
          /\ rowLock'[call[s].job] = s
          /\ snap'[s] = row[call[s].job]
          /\ vnow'[s] = now
      BY <1>0, <1>6, <2>2 DEF LockRow, TypeOK
    <2>4. HoldInv(s)'
      BY <1>0, <1>6, <1>a, <2>2, <2>3 DEF LockRow, HoldInv, PastInv, TypeOK, Times
    <2>5. CallInv(s)' /\ DueInv(s)' /\ WriteInv(s)' /\ TargetInv(s)'
      BY <2>2, <2>3 DEF CallInv, DueInv, WriteInv, TargetInv, Due, Working
    <2> QED BY <1>0, <1>6, <2>1, <2>4, <2>5, LocalStep DEF LockRow, SessionInv
  <1>7. ASSUME NEW s \in Sessions, Validate(s)
        PROVE  IndInv'
    <2> DEFINE k == TargetKey(snap[s].target)
    <2>1. \A t \in Sessions \ {s} : Undisturbed(t) /\ Respects(t)
      BY <1>0, <1>7, <1>a, SessionAssumption
      DEF Validate, ClearNext, Undisturbed, Respects, TypeOK
    <2>2. /\ pc[s] = "validate" /\ HoldsRow(s) /\ write[s] = NoRow
          /\ call[s].kind = "scheduled" /\ call[s].expected \in Times
          /\ UNCHANGED <<now, row, rowLock, call, snap, vnow, handled, enabledAt>>
      BY <1>0, <1>7, CallType DEF Validate, HoldsRow, SessionInv, CallInv
    <2>3. HoldInv(s)'
      BY <1>0, <2>2 DEF SessionInv, HoldInv
    <2>4. /\ snap[s] \in Row /\ vnow[s] \in Times
          /\ [snap[s] EXCEPT !.next = NoTime] \in Row
      BY <1>0, <2>2, HeldRow DEF SessionInv, OptTimes
    <2>5. ASSUME RowVerdict(snap[s], call[s].expected, vnow[s]) = "DUE"
          PROVE  snap[s].enabled /\ snap[s].next = call[s].expected /\ call[s].expected <= vnow[s]
      BY <2>2, <2>4, <2>5, TimeAssumption DEF RowVerdict, Times, Row
    <2>6. CASE /\ RowVerdict(snap[s], call[s].expected, vnow[s]) # "DUE"
               /\ Return(s, RowVerdict(snap[s], call[s].expected, vnow[s]))
               /\ UNCHANGED <<write, targetLock>>
      <3>1. /\ pc'[s] = "commit" /\ write'[s] = NoRow
            /\ status'[s] \in {"SKIPPED_DISABLED", "SKIPPED_RESCHEDULED", "SKIPPED_NOT_DUE"}
        BY <1>0, <2>2, <2>6 DEF RowVerdict, TypeOK
      <3> QED BY <2>3, <3>1, <1>0, <1>7, <2>1, LocalStep
              DEF Validate, SessionInv, CallInv, DueInv, WriteInv, TargetInv, HoldsRow, Due,
                  Working, HandledStatuses
    <2>7. CASE Return(s, "SKIPPED_TARGET_LOCKED") /\ UNCHANGED <<write, targetLock>>
      <3>1. /\ pc'[s] = "commit" /\ write'[s] = NoRow
            /\ status'[s] = "SKIPPED_TARGET_LOCKED"
        BY <1>0, <2>2, <2>7 DEF TypeOK
      <3> QED BY <2>3, <3>1, <1>0, <1>7, <2>1, LocalStep
              DEF Validate, SessionInv, CallInv, DueInv, WriteInv, TargetInv, HoldsRow, Due,
                  Working, HandledStatuses
    <2>8. CASE /\ RowVerdict(snap[s], call[s].expected, vnow[s]) = "DUE"
               /\ ClearNext(s)
               /\ UNCHANGED targetLock
      <3>1. /\ pc'[s] = "commit"
            /\ write'[s] # NoRow /\ write'[s].next = NoTime
            /\ write'[s].enabled = snap[s].enabled
            /\ status'[s] = "FAILED_INVALID_SCHEDULE"
        BY <1>0, <2>4, <2>8, SessionAssumption DEF ClearNext, TypeOK, Row
      <3>2. CallInv(s)'
        BY <2>2, <3>1 DEF CallInv, HandledStatuses
      <3>3. DueInv(s)' /\ WriteInv(s)' /\ TargetInv(s)'
        BY <2>2, <2>5, <2>8, <3>1 DEF DueInv, WriteInv, TargetInv, Working
      <3> QED BY <1>0, <1>7, <2>1, <2>3, <3>2, <3>3, LocalStep DEF Validate, SessionInv
    <2>9. CASE /\ RowVerdict(snap[s], call[s].expected, vnow[s]) = "DUE"
               /\ k # Overflow
               /\ targetLock' = [targetLock EXCEPT ![k] = s]
               /\ pc' = [pc EXCEPT ![s] = "plan"]
               /\ UNCHANGED <<write, status>>
      <3>1. k \in LockKeys
        BY <2>4, <2>9, TargetKeyRange DEF Row
      <3>2. pc'[s] = "plan" /\ write'[s] = NoRow /\ targetLock'[k] = s
        BY <1>0, <2>2, <2>9, <3>1 DEF TypeOK
      <3>3. CallInv(s)'
        BY <2>2, <3>2 DEF CallInv
      <3>4. DueInv(s)' /\ WriteInv(s)' /\ TargetInv(s)'
        BY <2>2, <2>5, <2>9, <3>2 DEF DueInv, WriteInv, TargetInv
      <3> QED BY <1>0, <1>7, <2>1, <2>3, <3>3, <3>4, LocalStep DEF Validate, SessionInv
    <2> QED BY <1>7, <2>6, <2>7, <2>8, <2>9 DEF Validate
  <1>8. ASSUME NEW s \in Sessions, PlanNext(s)
        PROVE  IndInv'
    <2>1. \A t \in Sessions \ {s} : Undisturbed(t) /\ Respects(t)
      BY <1>0, <1>8, <1>a DEF PlanNext, ClearNext, Undisturbed, Respects, TypeOK
    <2>2. /\ pc[s] = "plan" /\ HoldsRow(s) /\ Due(s) /\ Working(s)
          /\ call[s].kind = "scheduled" /\ call[s].expected \in Times
          /\ UNCHANGED <<now, row, rowLock, targetLock, call, snap, vnow, handled, enabledAt>>
      BY <1>0, <1>8, CallType DEF PlanNext, HoldsRow, Due, Working, SessionInv, CallInv
    <2>3. HoldInv(s)' /\ DueInv(s)' /\ TargetInv(s)'
      BY <1>0, <2>2 DEF SessionInv, HoldInv, DueInv, TargetInv
    <2>4. /\ snap[s] \in Row /\ vnow[s] \in Times
          /\ \A n \in OptTimes : [snap[s] EXCEPT !.next = n] \in Row
      BY <1>0, <2>2, HeldRow DEF SessionInv
    <2>5. CASE ClearNext(s)
      <3>1. /\ pc'[s] = "commit"
            /\ write'[s] # NoRow /\ write'[s].next = NoTime
            /\ write'[s].enabled = snap[s].enabled
            /\ status'[s] = "FAILED_INVALID_SCHEDULE"
        <4>1. [snap[s] EXCEPT !.next = NoTime] \in Row
          BY <2>4 DEF OptTimes
        <4> QED BY <1>0, <2>4, <2>5, <4>1, SessionAssumption DEF ClearNext, TypeOK, Row
      <3>2. CallInv(s)' /\ WriteInv(s)'
        BY <2>2, <3>1 DEF CallInv, WriteInv, HandledStatuses
      <3> QED BY <1>0, <1>8, <2>1, <2>3, <3>2, LocalStep DEF PlanNext, SessionInv
    <2>6. CASE \E n \in OptTimes :
                  /\ ~InvalidNext(n, call[s].expected, vnow[s])
                  /\ write' = [write EXCEPT ![s] = [snap[s] EXCEPT !.next = n]]
                  /\ pc' = [pc EXCEPT ![s] = "work"]
                  /\ UNCHANGED status
      <3>1. PICK n \in OptTimes :
                  /\ ~InvalidNext(n, call[s].expected, vnow[s])
                  /\ write' = [write EXCEPT ![s] = [snap[s] EXCEPT !.next = n]]
                  /\ pc' = [pc EXCEPT ![s] = "work"]
                  /\ UNCHANGED status
        BY <2>6
      <3>2. /\ pc'[s] = "work" /\ write'[s] # NoRow /\ write'[s].next = n
            /\ write'[s].enabled = snap[s].enabled
        BY <1>0, <2>4, <3>1, SessionAssumption DEF TypeOK, Row
      <3>3. n \in vnow[s] + 1 .. MaxTime
        BY <3>1 DEF InvalidNext, Stale
      <3>4. CallInv(s)' /\ WriteInv(s)'
        BY <2>2, <3>2, <3>3 DEF CallInv, WriteInv
      <3> QED BY <1>0, <1>8, <2>1, <2>3, <3>4, LocalStep DEF PlanNext, SessionInv
    <2>7. CronHelper(snap[s].sched) = OptTimes
      BY DEF CronHelper
    <2> QED BY <1>8, <2>5, <2>6, <2>7 DEF PlanNext
  <1>9. ASSUME NEW s \in Sessions, RunWorker(s)
        PROVE  IndInv'
    <2>1. \A t \in Sessions \ {s} : Undisturbed(t) /\ Respects(t)
      BY <1>0, <1>9, <1>a DEF RunWorker, Undisturbed, Respects, TypeOK
    <2>2. /\ pc[s] = "work" /\ pc'[s] = "commit"
          /\ status'[s] \in {"EXECUTED", "FAILED"}
          /\ write[s] # NoRow /\ call[s].kind = "scheduled"
      BY <1>0, <1>9 DEF RunWorker, TypeOK, SessionInv, CallInv
    <2>3. CallInv(s)'
      BY <1>9, <2>2 DEF RunWorker, CallInv, HandledStatuses
    <2>4. HoldInv(s)' /\ DueInv(s)' /\ WriteInv(s)' /\ TargetInv(s)'
      BY <1>0, <1>9, <2>2 DEF RunWorker, SessionInv, HoldInv, DueInv, WriteInv, TargetInv,
                              HoldsRow, Due, Working
    <2> QED BY <1>0, <1>9, <2>1, <2>3, <2>4, LocalStep DEF RunWorker, SessionInv
  <1>10. ASSUME NEW s \in Sessions, LockAndEdit(s)
        PROVE  IndInv'
    <2> DEFINE j == call[s].job
               e == call[s].params
               recalculate == NeedsRecalculation(row[j], e, now)
    <2>1. \A t \in Sessions \ {s} : Undisturbed(t) /\ Respects(t)
      BY <1>0, <1>10, <1>a, SessionAssumption
      DEF LockAndEdit, Finish, FreeOf, Undisturbed, Respects, TypeOK
    <2>2. /\ j \in Jobs /\ e \in EditParams /\ call[s].kind = "edit"
          /\ UNCHANGED <<now, row, call, handled, enabledAt>>
      BY <1>0, <1>10, CallType DEF LockAndEdit, SessionInv, CallInv
    <2>3. CASE Finish(s, "FAILED_DATABASE")
      <3>1. pc'[s] = "reported" /\ write'[s] = NoRow /\ status'[s] = "FAILED_DATABASE"
        BY <1>0, <2>3 DEF Finish, TypeOK
      <3>2. SessionInv(s)'
        BY <3>1 DEF SessionInv, CallInv, HoldInv, DueInv, WriteInv, TargetInv,
                    HoldsRow, Due, Working, HandledStatuses
      <3> QED BY <1>0, <2>1, <2>2, <3>2, LocalStep
    <2>4. CASE ~Finish(s, "FAILED_DATABASE")
      <3>1. PICK n \in IF recalculate THEN CronHelper(e.sched) ELSE {KeptNext(row[j], e)} :
               /\ recalculate => ~Stale(n, now)
               /\ rowLock' = [rowLock EXCEPT ![j] = s]
               /\ snap' = [snap EXCEPT ![s] = row[j]]
               /\ vnow' = [vnow EXCEPT ![s] = now]
               /\ write' = [write EXCEPT ![s] = EditedRow(e, n)]
               /\ Return(s, "UPDATED")
               /\ UNCHANGED <<jobLock, targetLock>>
        BY <1>10, <2>4 DEF LockAndEdit
      <3>2. /\ n \in OptTimes
            /\ \/ n \in now + 1 .. MaxTime
               \/ n = row[j].next /\ ~e.enabled
        <4>1. row[j] \in Row
          BY <1>0, <2>2 DEF TypeOK
        <4>2. CASE recalculate
          BY <3>1, <4>2 DEF CronHelper, Stale
        <4>3. CASE ~recalculate
          <5>1. n = KeptNext(row[j], e)
            BY <3>1, <4>3
          <5>2. CASE e.enabled
            BY <2>2, <4>3, <5>1, <5>2 DEF NeedsRecalculation, KeptNext, Stale, EditParams
          <5>3. CASE ~e.enabled
            BY <4>1, <5>1, <5>3 DEF KeptNext, Row
          <5> QED BY <5>2, <5>3
        <4> QED BY <4>2, <4>3
      <3>3. /\ pc'[s] = "commit" /\ status'[s] = "UPDATED"
            /\ rowLock'[j] = s /\ snap'[s] = row[j] /\ vnow'[s] = now
            /\ write'[s] = EditedRow(e, n)
        BY <1>0, <2>2, <3>1 DEF TypeOK
      <3>4. EditedRow(e, n) \in Row /\ EditedRow(e, n).next = n /\ EditedRow(e, n).enabled = e.enabled
        BY <2>2, <3>2 DEF EditedRow, EditParams, Row, Operations
      <3>5. HoldInv(s)'
        BY <1>0, <1>a, <2>2, <3>3 DEF HoldInv, PastInv, TypeOK, Times
      <3>6. CallInv(s)'
        BY <2>2, <3>3, <3>4, SessionAssumption DEF CallInv, HandledStatuses
      <3>7. DueInv(s)' /\ WriteInv(s)' /\ TargetInv(s)'
        BY <2>2, <3>2, <3>3, <3>4 DEF DueInv, WriteInv, TargetInv, Due, Working, HandledStatuses
      <3> QED BY <1>0, <2>1, <2>2, <3>5, <3>6, <3>7, LocalStep DEF SessionInv
    <2> QED BY <2>3, <2>4
  <1>11. ASSUME NEW s \in Sessions, ManualWork(s)
        PROVE  IndInv'
    <2>1. \A t \in Sessions \ {s} : Undisturbed(t) /\ Respects(t)
      BY <1>0, <1>11, <1>a DEF ManualWork, Undisturbed, Respects, TypeOK
    <2>2. /\ pc'[s] = "commit" /\ write'[s] = NoRow
          /\ status'[s] \in {"MANUAL_SUCCESS", "MANUAL_FAIL"}
      BY <1>0, <1>11 DEF ManualWork, TypeOK, SessionInv, CallInv
    <2>3. SessionInv(s)'
      BY <2>2 DEF SessionInv, CallInv, HoldInv, DueInv, WriteInv, TargetInv,
                  HoldsRow, Due, Working, HandledStatuses
    <2> QED BY <1>0, <1>11, <2>1, <2>3, LocalStep DEF ManualWork
  <1>12. ASSUME NEW s \in Sessions, Commit(s)
        PROVE  IndInv'
    <2> DEFINE j == call[s].job
               x == call[s].expected
    <2>1. /\ j \in Jobs /\ pc[s] = "commit" /\ now' = now
          /\ status[s] \in HandledStatuses => x \in Times /\ <<j, x>> \in Occurrences
      BY <1>0, <1>12, CallType DEF Commit, SessionInv, CallInv
    <2>2. PICK st \in {status[s], "FAILED_DATABASE"} : Finish(s, st)
      BY <1>12 DEF Commit
    <2>3. /\ pc'[s] = "reported" /\ write'[s] = NoRow
          /\ status'[s] \in {status[s], "FAILED_DATABASE"}
          /\ call' = call
      BY <1>0, <1>12, <2>2 DEF Finish, Commit, TypeOK
    <2>4. /\ \A i \in Jobs \ {j} : row'[i] = row[i] /\ enabledAt'[i] = enabledAt[i]
          /\ \A i \in Jobs \ {j}, u \in Times : handled'[<<i, u>>] = handled[<<i, u>>]
          /\ \A o \in Occurrences : handled[o] > 0 => handled'[o] > 0
      <3>1. \A i \in Jobs \ {j} : row'[i] = row[i] /\ enabledAt'[i] = enabledAt[i]
        BY <1>0, <1>12, <2>1 DEF Commit, TypeOK
      <3>2. \A o \in Occurrences : handled'[o] = IF status[s] \in HandledStatuses /\ o = <<j, x>>
                                                 THEN handled[o] + 1 ELSE handled[o]
        BY <1>0, <1>12, <2>1 DEF Commit, TypeOK
      <3>3. \A o \in Occurrences : handled[o] \in Nat
        BY <1>0 DEF TypeOK
      <3>4. \A i \in Jobs, u \in Times : <<i, u>> \in Occurrences
        BY DEF Occurrences
      <3> QED BY <3>1, <3>2, <3>3, <3>4
    <2>5. \A t \in Sessions \ {s} : Undisturbed(t)
      BY <1>0, <1>12, <2>2 DEF Commit, Finish, Undisturbed, TypeOK
    <2>6. CASE write[s] = NoRow
      <3>1. UNCHANGED <<row, handled, enabledAt>> /\ status[s] \notin HandledStatuses
        BY <1>0, <1>12, <2>1, <2>6 DEF Commit, SessionInv, CallInv
      <3>2. \A t \in Sessions \ {s} : Respects(t)
        BY <1>0, <1>a, <2>1, <2>2, <3>1 DEF Finish, FreeOf, Respects, TypeOK
      <3>3. SessionInv(s)'
        BY <2>3, <3>1 DEF SessionInv, CallInv, HoldInv, DueInv, WriteInv, TargetInv,
                          HoldsRow, Due, Working, HandledStatuses
      <3> QED BY <1>0, <2>1, <2>5, <3>1, <3>2, <3>3, LocalStep
    <2>7. CASE write[s] # NoRow
      <3>1. /\ rowLock[j] = s /\ snap[s] = row[j] /\ vnow[s] \in 0 .. now
            /\ enabledAt[j] # NoTime => enabledAt[j] <= vnow[s]
            /\ \A u \in Times : handled[<<j, u>>] > 0 => u <= vnow[s]
            /\ HoldsRow(s)
        BY <1>0, <2>1, <2>7 DEF SessionInv, HoldInv, HoldsRow
      <3>2. \A t \in Sessions \ {s} : Respects(t)
        <4> SUFFICES ASSUME NEW t \in Sessions \ {s} PROVE Respects(t)
          OBVIOUS
        <4>1. \A k \in LockKeys : targetLock[k] = t => targetLock'[k] = t
          BY <1>0, <2>2 DEF Finish, FreeOf, TypeOK
        <4>2. \A i \in Jobs : rowLock[i] = t => rowLock'[i] = t /\ i # j
          BY <1>0, <2>2, <3>1 DEF Finish, FreeOf, TypeOK
        <4> QED BY <1>a, <2>1, <2>4, <4>1, <4>2 DEF Respects
      <3>3. \A t \in Sessions \ {s} : SessionInv(t)'
        BY <1>0, <2>5, <3>2, OtherSession
      <3>4. row'[j] = write[s] /\ write[s] \in Row
        BY <1>0, <1>12, <2>1, <2>7 DEF Commit, TypeOK
      <3>5. /\ enabledAt[j] \in OptTimes /\ vnow[s] \in Times
            /\ \A u \in Times : <<j, u>> \in Occurrences /\ handled[<<j, u>>] \in Nat
        <4>1. vnow[s] \in Times
          BY <1>0, <1>a, <3>1, TimeAssumption DEF TypeOK, Times
        <4> QED BY <1>0, <2>1, <4>1 DEF TypeOK, Occurrences
      <3>6. \A i \in Jobs \ {j} :
               /\ \A u \in Times : handled'[<<i, u>>] > 0 =>
                     u <= now' /\ (row'[i].next = NoTime \/ row'[i].next > u)
               /\ enabledAt'[i] # NoTime =>
                     enabledAt'[i] <= now' /\ (row'[i].next = NoTime \/ row'[i].next > enabledAt'[i])
        BY <1>0, <2>1, <2>4 DEF PastInv
      <3>7. CASE status[s] \in HandledStatuses
        <4>1. /\ enabledAt'[j] = enabledAt[j]
              /\ handled' = [handled EXCEPT ![<<j, x>>] = @ + 1]
          BY <1>12, <3>7 DEF Commit, HandledStatuses
        <4>2. call[s].kind = "scheduled" /\ row[j].next = x /\ x <= vnow[s]
          BY <1>0, <2>1, <3>1, <3>7 DEF SessionInv, CallInv, DueInv, Due
        <4>3. row'[j].next = NoTime \/ row'[j].next \in vnow[s] + 1 .. MaxTime
          BY <1>0, <2>7, <3>1, <3>4, <4>2 DEF SessionInv, WriteInv
        <4>4. handled[<<j, x>>] = 0
          BY <1>0, <2>1, <3>5, <3>7, <4>2, TimeAssumption DEF PastInv, Times
        <4>5. /\ handled'[<<j, x>>] = 1
              /\ \A u \in Times : u # x => handled'[<<j, u>>] = handled[<<j, u>>]
          BY <1>0, <2>1, <3>5, <3>7, <4>1, <4>4 DEF TypeOK
        <4>6. \A u \in Times : handled'[<<j, u>>] > 0 => u <= vnow[s]
          BY <2>1, <3>1, <3>5, <3>7, <4>2, <4>5
        <4>7. PastInv'
          <5>1. \A u \in Times : handled'[<<j, u>>] > 0 =>
                     u <= now' /\ (row'[j].next = NoTime \/ row'[j].next > u)
            BY <1>a, <2>1, <3>5, <3>1, <4>3, <4>6, TimeAssumption DEF Times
          <5>2. enabledAt'[j] # NoTime =>
                     enabledAt'[j] <= now' /\ (row'[j].next = NoTime \/ row'[j].next > enabledAt'[j])
            BY <1>a, <2>1, <3>5, <3>1, <4>1, <4>3, TimeAssumption DEF Times, OptTimes
          <5> QED BY <3>6, <5>1, <5>2 DEF PastInv
        <4>8. AtMostOnce'
          <5>1. \A o \in Occurrences : o # <<j, x>> => handled'[o] = handled[o]
            BY <1>0, <4>1 DEF TypeOK
          <5> QED BY <1>0, <4>5, <5>1 DEF AtMostOnce
        <4>9. SessionInv(s)'
          BY <2>3, <4>2, <4>5 DEF SessionInv, CallInv, HoldInv, DueInv, WriteInv, TargetInv,
                                  HoldsRow, Due, Working
        <4> QED BY <1>0, <3>3, <4>7, <4>8, <4>9 DEF IndInv, SessionInv
      <3>8. CASE status[s] \notin HandledStatuses
        <4>1. status[s] = "UPDATED" /\ call[s].kind = "edit" /\ handled' = handled
          BY <1>0, <1>12, <2>1, <2>7, <3>8 DEF Commit, SessionInv, CallInv
        <4>2. \/ row'[j].next \in vnow[s] + 1 .. MaxTime
              \/ row'[j].next = row[j].next /\ ~write[s].enabled
          BY <1>0, <2>7, <3>1, <3>4, <4>1 DEF SessionInv, WriteInv
        <4>3. enabledAt'[j] = IF write[s].enabled THEN vnow[s] ELSE enabledAt[j]
          BY <1>0, <1>12, <2>1, <4>1 DEF Commit, TypeOK
        <4>4. PastInv'
          <5>1. \A u \in Times : handled'[<<j, u>>] > 0 =>
                     u <= now' /\ (row'[j].next = NoTime \/ row'[j].next > u)
            <6>1. CASE row'[j].next \in vnow[s] + 1 .. MaxTime
              BY <1>a, <2>1, <3>5, <3>1, <4>1, <6>1, TimeAssumption DEF Times
            <6>2. CASE row'[j].next = row[j].next
              BY <1>0, <2>1, <4>1, <6>2 DEF PastInv
            <6> QED BY <4>2, <6>1, <6>2
          <5>2. enabledAt'[j] # NoTime =>
                     enabledAt'[j] <= now' /\ (row'[j].next = NoTime \/ row'[j].next > enabledAt'[j])
            <6>1. CASE row'[j].next \in vnow[s] + 1 .. MaxTime
              BY <1>a, <2>1, <3>5, <3>1, <4>3, <6>1, TimeAssumption DEF Times, OptTimes
            <6>2. CASE row'[j].next = row[j].next /\ ~write[s].enabled
              BY <1>0, <2>1, <4>3, <6>2 DEF PastInv
            <6> QED BY <4>2, <6>1, <6>2
          <5> QED BY <3>6, <5>1, <5>2 DEF PastInv
        <4>5. AtMostOnce'
          BY <1>0, <4>1 DEF AtMostOnce
        <4>6. SessionInv(s)'
          BY <2>3, <4>1 DEF SessionInv, CallInv, HoldInv, DueInv, WriteInv, TargetInv,
                            HoldsRow, Due, Working, HandledStatuses
        <4> QED BY <1>0, <3>3, <4>4, <4>5, <4>6 DEF IndInv, SessionInv
      <3> QED BY <3>7, <3>8
    <2> QED BY <2>6, <2>7
  <1>13. ASSUME NEW s \in Sessions, Abort(s)
        PROVE  IndInv'
    <2>1. \A t \in Sessions \ {s} : Undisturbed(t) /\ Respects(t)
      BY <1>0, <1>13, <1>a DEF Abort, Finish, FreeOf, Undisturbed, Respects, TypeOK
    <2>2. pc'[s] = "reported" /\ write'[s] = NoRow /\ status'[s] = "FAILED_DATABASE"
      BY <1>0, <1>13 DEF Abort, Finish, TypeOK
    <2>3. SessionInv(s)'
      BY <2>2 DEF SessionInv, CallInv, HoldInv, DueInv, WriteInv, TargetInv,
                  HoldsRow, Due, Working, HandledStatuses
    <2> QED BY <1>0, <1>13, <2>1, <2>3, LocalStep DEF Abort
  <1>14. ASSUME NEW s \in Sessions, Close(s)
        PROVE  IndInv'
    <2>1. \A t \in Sessions \ {s} : Undisturbed(t) /\ Respects(t)
      BY <1>0, <1>14, <1>a DEF Close, Undisturbed, Respects, TypeOK
    <2>2. pc'[s] = "idle" /\ write'[s] = NoRow
      BY <1>0, <1>14 DEF Close, TypeOK, Open
    <2>3. SessionInv(s)'
      BY <2>2 DEF SessionInv, CallInv, HoldInv, DueInv, WriteInv, TargetInv,
                  HoldsRow, Due, Working
    <2> QED BY <1>0, <1>14, <2>1, <2>3, LocalStep DEF Close
  <1> QED
    BY <1>1, <1>2, <1>3, <1>4, <1>5, <1>6, <1>7, <1>8, <1>9, <1>10, <1>11,
       <1>12, <1>13, <1>14 DEF Next, Step

LEMMA InitInv == Init => IndInv
  <1> SUFFICES ASSUME Init PROVE IndInv
    OBVIOUS
  <1>1. TypeOK
    BY InitType
  <1>2. \A s \in Sessions : pc[s] = "idle" /\ write[s] = NoRow
    BY DEF Init
  <1>3. \A s \in Sessions :
           CallInv(s) /\ HoldInv(s) /\ DueInv(s) /\ WriteInv(s) /\ TargetInv(s)
    BY <1>2 DEF CallInv, HoldInv, DueInv, WriteInv, TargetInv, HoldsRow, Due, Working
  <1>4. \A o \in Occurrences : handled[o] = 0
    BY DEF Init
  <1>5. PastInv
    <2>1. \A j \in Jobs : enabledAt[j] = NoTime
      BY DEF Init
    <2>2. \A j \in Jobs, u \in Times : ~(handled[<<j, u>>] > 0)
      BY <1>4 DEF Occurrences
    <2> QED BY <2>1, <2>2 DEF PastInv
  <1>6. AtMostOnce
    BY <1>4 DEF AtMostOnce
  <1> QED BY <1>1, <1>3, <1>5, <1>6 DEF IndInv

-----------------------------------------------------------------------------
(***************************************************************************)
(* The theorems.                                                           *)
(***************************************************************************)
\* Between any two statements of any sessions, what each session relies on
\* holds: the lock it took, the row it read, the instant it read it at.
THEOREM IndInvariant == Spec => []IndInv
  BY InitInv, NextInv, PTL DEF Spec

\* Every variable of the sessions and of the table keeps its type.
THEOREM TypeCorrect == Spec => []TypeOK
  <1>1. IndInv => TypeOK
    BY DEF IndInv
  <1> QED BY <1>1, IndInvariant, PTL

\* At most one transaction that transitions an occurrence ever commits, however
\* many schedulers, retries and leftover threads execute it.
THEOREM OccurrenceHandledAtMostOnce == Spec => []AtMostOnce
  <1>1. IndInv => AtMostOnce
    BY DEF IndInv
  <1> QED BY <1>1, IndInvariant, PTL

\* No run and no edit brings next_run_time back to a transitioned occurrence.
THEOREM HandledNeverReopens == Spec => []HandledStaysClosed
  <1>1. IndInv => HandledStaysClosed
    BY TimeAssumption DEF IndInv, PastInv, HandledStaysClosed, Occurrences, Times
  <1> QED BY <1>1, IndInvariant, PTL

\* The checks on the row still hold when the worker commits.
THEOREM WorkerRowIsCurrent == Spec => []WorkerSeesCurrentRow
  <1>1. ASSUME IndInv PROVE WorkerSeesCurrentRow
    <2>1. \A s \in Sessions : Working(s) => HoldsRow(s) /\ Due(s)
      BY <1>1 DEF IndInv, CallInv, Working, HoldsRow, Due, HandledStatuses
    <2> QED BY <1>1, <2>1 DEF IndInv, HoldInv, DueInv, WorkerSeesCurrentRow
  <1> QED BY <1>1, IndInvariant, PTL

\* Scheduled workers on one target never overlap.
THEOREM TargetsExclusive == Spec => []TargetExclusive
  <1>1. ASSUME IndInv PROVE TargetExclusive
    BY <1>1 DEF IndInv, TargetInv, TargetExclusive
  <1> QED BY <1>1, IndInvariant, PTL

\* A job that was disabled and is enabled again never runs an occurrence from
\* before that edit.
THEOREM OverdueSkipped == Spec => []ReenableSkipsOverdue
  <1>1. ASSUME IndInv PROVE ReenableSkipsOverdue
    <2> SUFFICES ASSUME NEW s \in Sessions, Working(s), enabledAt[call[s].job] # NoTime
                 PROVE  call[s].expected > enabledAt[call[s].job]
      BY DEF ReenableSkipsOverdue
    <2>1. HoldsRow(s) /\ Due(s) /\ pc[s] # "idle"
      BY <1>1 DEF IndInv, CallInv, Working, HoldsRow, Due, HandledStatuses
    <2>2. call[s].job \in Jobs /\ call[s].expected \in Times
      BY <1>1, <2>1, CallType DEF IndInv, Working
    <2>3. row[call[s].job].next = call[s].expected
      BY <1>1, <2>1 DEF IndInv, HoldInv, DueInv
    <2> QED BY <1>1, <2>2, <2>3, TimeAssumption DEF IndInv, PastInv, Times
  <1> QED BY <1>1, IndInvariant, PTL

\* A reported transition is a committed one.
THEOREM ReportsAreDurable == Spec => []ReportIsDurable
  <1>1. IndInv => ReportIsDurable
    BY DEF IndInv, CallInv, ReportIsDurable
  <1> QED BY <1>1, IndInvariant, PTL

-----------------------------------------------------------------------------
(***************************************************************************)
(* Refinement of the ledger.                                               *)
(***************************************************************************)
LEMMA LedgerInit == Init => Ledger!Init
  <1> SUFFICES ASSUME Init PROVE Ledger!Init
    OBVIOUS
  <1>1. row \in [Jobs -> Row]
    BY SessionAssumption DEF Init
  <1>2. {o \in Occurrences : handled[o] > 0} = {}
    BY DEF Init
  <1> QED BY <1>1, <1>2 DEF Init, Ledger!Init, Ledger!Times, Row, OptTimes, Times

\* A commit of a transitioned occurrence is a closing step.
LEMMA LedgerClose ==
    ASSUME IndInv, IndInv', NEW s \in Sessions, Commit(s), status[s] \in HandledStatuses
    PROVE  Ledger!Next
  <1> DEFINE j == call[s].job
             x == call[s].expected
             n == write[s].next
  <1>1. /\ pc[s] = "commit" /\ j \in Jobs /\ x \in Times /\ <<j, x>> \in Occurrences
        /\ write[s] # NoRow /\ HoldsRow(s) /\ Due(s) /\ call[s].kind = "scheduled"
    BY CallType DEF IndInv, Commit, CallInv, HoldsRow, Due
  <1>2. /\ snap[s] = row[j] /\ vnow[s] \in 0 .. now /\ row[j].enabled /\ row[j].next = x
        /\ x <= vnow[s]
    BY <1>1 DEF IndInv, HoldInv, DueInv
  <1>3. /\ row' = [row EXCEPT ![j] = write[s]]
        /\ handled' = [handled EXCEPT ![<<j, x>>] = @ + 1]
        /\ now' = now
    BY <1>1 DEF Commit
  <1>4. now \in Int /\ x \in Int /\ x <= now /\ x # NoTime
    BY <1>1, <1>2, TimeAssumption DEF IndInv, TypeOK, Times
  <1>5. \A o \in Occurrences : handled[o] \in Nat
    BY DEF IndInv, TypeOK
  <1>6. ~(handled[<<j, x>>] > 0)
    BY <1>1, <1>2, <1>4 DEF IndInv, PastInv
  <1>7. n \in OptTimes /\ (n = NoTime \/ n > x)
    <2>1. n = NoTime \/ n \in vnow[s] + 1 .. MaxTime
      BY <1>1 DEF IndInv, WriteInv
    <2>2. n \in OptTimes
      BY <1>1 DEF IndInv, TypeOK, Row
    <2> QED BY <1>2, <1>4, <2>1, <2>2
  <1>8. {o \in Occurrences : handled'[o] > 0}
           = {o \in Occurrences : handled[o] > 0} \cup {<<j, x>>}
    <2>1. \A o \in Occurrences :
             handled'[o] = IF o = <<j, x>> THEN handled[o] + 1 ELSE handled[o]
      BY <1>1, <1>3 DEF IndInv, TypeOK
    <2> QED BY <1>1, <1>5, <2>1
  <1>9. write[s].enabled = row[j].enabled
    BY <1>1, <1>2 DEF IndInv, WriteInv
  <1>10. n \in Ledger!Times \cup {NoTime}
    BY <1>7 DEF Ledger!Times, OptTimes, Times
  <1>11. PICK i \in Jobs, m \in Ledger!Times \cup {NoTime} : i = j /\ m = n
    BY <1>1, <1>10
  <1>12. Ledger!CloseOccurrence(i, m)
    <2>1. \A h \in Jobs : row'[h] = IF h = j THEN write[s] ELSE row[h]
      BY <1>1, <1>3 DEF IndInv, TypeOK
    <2>2. [h \in Jobs |-> row'[h].next] = [[h \in Jobs |-> row[h].next] EXCEPT ![j] = n]
      BY <1>1, <2>1
    <2>3. [h \in Jobs |-> row'[h].enabled] = [h \in Jobs |-> row[h].enabled]
      BY <1>1, <1>9, <2>1
    <2> QED BY <1>1, <1>2, <1>3, <1>4, <1>6, <1>7, <1>8, <1>11, <2>2, <2>3
            DEF Ledger!CloseOccurrence
  <1> QED BY <1>12 DEF Ledger!Next

LEMMA LedgerEdit ==
    ASSUME IndInv, IndInv', NEW s \in Sessions, Commit(s), status[s] = "UPDATED"
    PROVE  Ledger!Next
  <1> DEFINE j == call[s].job
             n == write[s].next
             e == write[s].enabled
  <1>1. /\ pc[s] = "commit" /\ j \in Jobs /\ write[s] # NoRow /\ HoldsRow(s)
        /\ call[s].kind = "edit" /\ write[s] \in Row
    BY CallType DEF IndInv, TypeOK, Commit, CallInv, HoldsRow
  <1>2. /\ snap[s] = row[j] /\ vnow[s] \in 0 .. now
        /\ \A t \in Times : handled[<<j, t>>] > 0 => t <= vnow[s]
    BY <1>1 DEF IndInv, HoldInv
  <1>3. row' = [row EXCEPT ![j] = write[s]] /\ handled' = handled /\ now' = now
    BY <1>1 DEF Commit, HandledStatuses
  <1>4. n \in vnow[s] + 1 .. MaxTime \/ n = row[j].next
    BY <1>1, <1>2 DEF IndInv, WriteInv
  <1>5. n = row[j].next \/ n \in Times
    BY <1>1, <1>2, <1>4, TimeAssumption DEF Row, OptTimes, Times
  <1>6. <<j, n>> \notin {o \in Occurrences : handled[o] > 0}
    <2> SUFFICES ASSUME <<j, n>> \in Occurrences, handled[<<j, n>>] > 0 PROVE FALSE
      OBVIOUS
    <2>1. n \in Times /\ n # NoTime
      BY TimeAssumption DEF Occurrences, Times
    <2>2. n <= vnow[s] /\ (row[j].next = NoTime \/ row[j].next > n)
      BY <1>1, <1>2, <2>1 DEF IndInv, PastInv
    <2> QED BY <1>2, <1>4, <2>1, <2>2 DEF Times
  <1>7. n \in Ledger!Times \cup {NoTime} /\ e \in BOOLEAN
    BY <1>1 DEF Ledger!Times, Row, OptTimes, Times
  <1>8. PICK i \in Jobs, m \in Ledger!Times \cup {NoTime}, b \in BOOLEAN :
           i = j /\ m = n /\ b = e
    BY <1>1, <1>7
  <1>9. Ledger!Edit(i, b, m)
    <2>1. \A h \in Jobs : row'[h] = IF h = j THEN write[s] ELSE row[h]
      BY <1>1, <1>3 DEF IndInv, TypeOK
    <2>2. [h \in Jobs |-> row'[h].next] = [[h \in Jobs |-> row[h].next] EXCEPT ![j] = n]
      BY <1>1, <2>1
    <2>3. [h \in Jobs |-> row'[h].enabled] = [[h \in Jobs |-> row[h].enabled] EXCEPT ![j] = e]
      BY <1>1, <2>1
    <2> QED BY <1>1, <1>3, <1>5, <1>6, <1>8, <2>2, <2>3 DEF Ledger!Edit, Ledger!Times, Times
  <1> QED BY <1>9 DEF Ledger!Next

LEMMA LedgerStep == IndInv /\ IndInv' /\ [Next]_vars => [Ledger!Next]_(Ledger!vars)
  <1> SUFFICES ASSUME IndInv, IndInv', [Next]_vars
               PROVE  [Ledger!Next]_(Ledger!vars)
    OBVIOUS
  <1>1. CASE UNCHANGED <<now, row, handled>>
    BY <1>1 DEF Ledger!vars
  <1>2. CASE Tick
    BY <1>2 DEF Tick, Ledger!Next, Ledger!Tick
  <1>3. ASSUME NEW s \in Sessions, Commit(s), status[s] \in HandledStatuses
        PROVE  Ledger!Next
    BY <1>3, LedgerClose
  <1>4. ASSUME NEW s \in Sessions, Commit(s), status[s] = "UPDATED"
        PROVE  Ledger!Next
    BY <1>4, LedgerEdit
  <1>5. ASSUME NEW s \in Sessions, Commit(s), status[s] \notin HandledStatuses \cup {"UPDATED"}
        PROVE  UNCHANGED <<now, row, handled>>
    BY <1>5 DEF IndInv, CallInv, Commit
  <1>6. CASE Next /\ ~Tick /\ \A s \in Sessions : ~Commit(s)
    BY <1>1, <1>6
    DEF Next, Step, FetchUpcoming, TryJobLock, BeginEdit, BeginManual, LockRow, Validate,
        PlanNext, RunWorker, LockAndEdit, ManualWork, Abort, Close
  <1> QED BY <1>1, <1>2, <1>3, <1>4, <1>5, <1>6 DEF vars

\* The sessions implement the abstract ledger: seen from the committed table,
\* every step closes one due occurrence, edits one job without reopening an
\* occurrence, advances the clock, or changes nothing.
THEOREM SessionsImplementLedger == Spec => RefinesLedger
  BY LedgerInit, LedgerStep, IndInvariant, PTL DEF Spec, RefinesLedger, Ledger!Spec
=============================================================================
