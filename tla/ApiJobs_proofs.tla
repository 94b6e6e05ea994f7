--------------------------- MODULE ApiJobs_proofs ---------------------------
(***************************************************************************)
(* Proofs about ApiJobs, for any number of jobs, tables, requests and      *)
(* writes.                                                                 *)
(***************************************************************************)
EXTENDS ApiJobs, TLAPS

\* What a request is at each step.
StepOfRequest ==
    \A r \in Requests :
        /\ pc[r] = "read" => request[r] \in Patches \cup ManualRuns
        /\ pc[r] = "write" => request[r] \in Bodies
        /\ pc[r] = "notify" => request[r] \in Saved
        /\ pc[r] = "answer" => request[r] \in Ran
        /\ pc[r] = "idle" => request[r] = NoRequest

\* No version is known before it was written.
VersionsWritten ==
    /\ \A j \in Jobs : announced[j] <= Version(j)
    /\ \A r \in Requests : pc[r] = "notify" => request[r].version <= Version(request[r].job)
    /\ \A r \in Requests : pc[r] = "write" /\ request[r].kind # "post" =>
          existing[r] <= Version(request[r].job)

\* A decision without a confirmation is right for the row it was made from.
DecisionFitsCopy ==
    \A r \in Requests :
        /\ pc[r] = "write"
        /\ request[r].kind # "post"
        /\ ~request[r].confirm
        /\ existing[r] = Version(request[r].job)
        => ~NeedsConfirmation(request[r], table[request[r].job])

\* A notification that arrives after the read leaves the event set.
PendingAfterRead ==
    /\ AnnouncedIsPending
    /\ \A j \in Jobs : loop = "read" /\ announced[j] > seen[j] => event
    /\ loop # "waiting" => up

ApiInv ==
    /\ TypeOK
    /\ StepOfRequest
    /\ VersionsWritten
    /\ DecisionFitsCopy
    /\ PendingAfterRead

-----------------------------------------------------------------------------
\* The version of a row, or of no row.
LEMMA VersionType ==
    ASSUME TypeOK, NEW j \in Jobs
    PROVE  /\ Version(j) \in 0 .. MaxVersion
           /\ Version(j) = 0 <=> table[j] = NoRow
           /\ announced[j] \in Nat /\ seen[j] \in Nat
  BY VersionAssumption DEF TypeOK, Rows, NoRow, Version

\* The bodies of the requests, by kind.
LEMMA BodyKinds ==
    /\ \A q \in Posts : q.kind = "post" /\ q.op \in {"create", "drop"} /\ q.target \in Targets
    /\ \A q \in Patches : q.kind = "patch" /\ q.job \in Jobs /\ q.confirm \in BOOLEAN
                          /\ q.op \in {"create", "drop"} /\ q.target \in Targets
    /\ \A q \in ManualRuns : q.kind = "run" /\ q.job \in Jobs /\ q.confirm \in BOOLEAN
    /\ \A q \in Saved : q.kind = "saved" /\ q.job \in Jobs /\ q.version \in 1 .. MaxVersion
    /\ \A q \in Ran : q.kind = "ran"
    /\ NoRequest.kind = "none"
  BY DEF Posts, Patches, ManualRuns, Saved, Ran, NoRequest

LEMMA InitInv == Init => ApiInv
  <1> SUFFICES ASSUME Init PROVE ApiInv
    OBVIOUS
  <1> USE VersionAssumption DEF Init
  <1>1. table \in [Jobs -> Rows \cup {NoRow}]
    BY DEF Rows
  <1>2. TypeOK
    <2>1. /\ pc \in [Requests -> {"idle", "read", "write", "notify", "answer"}]
          /\ request \in [Requests -> Bodies \cup Saved \cup Ran \cup {NoRequest}]
          /\ existing \in [Requests -> 0 .. MaxVersion]
          /\ seen \in [Jobs -> 0 .. MaxVersion]
          /\ announced \in [Jobs -> 0 .. MaxVersion]
      OBVIOUS
    <2>2. \A r \in Requests : pc[r] = "idle" /\ request[r] = NoRequest
      OBVIOUS
    <2>3. up \in BOOLEAN /\ event \in BOOLEAN /\ readFailed \in BOOLEAN
          /\ loop \in {"waiting", "reading", "read"}
      OBVIOUS
    <2> HIDE DEF Init
    <2> QED BY <1>1, <2>1, <2>2, <2>3 DEF TypeOK
  <1>3. StepOfRequest /\ DecisionFitsCopy
    BY DEF StepOfRequest, DecisionFitsCopy
  <1>4. VersionsWritten /\ PendingAfterRead
    BY <1>2, VersionType DEF VersionsWritten, PendingAfterRead, AnnouncedIsPending
  <1> QED BY <1>2, <1>3, <1>4 DEF ApiInv

-----------------------------------------------------------------------------
(***************************************************************************)
(* A step of one request that writes nothing.                              *)
(***************************************************************************)
LEMMA DoneInv ==
    ASSUME ApiInv, NEW r \in Requests, Done(r), UNCHANGED <<table, scheduler, announced>>
    PROVE  ApiInv'
  <1> USE VersionAssumption DEF ApiInv, Done, scheduler
  <1>1. /\ pc' \in [Requests -> {"idle", "read", "write", "notify", "answer"}]
        /\ request' \in [Requests -> Bodies \cup Saved \cup Ran \cup {NoRequest}]
        /\ existing' \in [Requests -> 0 .. MaxVersion]
        /\ pc'[r] = "idle" /\ request'[r] = NoRequest /\ existing'[r] = 0
        /\ \A s \in Requests \ {r} : pc'[s] = pc[s] /\ request'[s] = request[s]
                                     /\ existing'[s] = existing[s]
    BY DEF TypeOK
  <1> HIDE DEF Done
  <1>2. TypeOK'
    <2>1. \A s \in Requests : pc'[s] = "idle" <=> request'[s] = NoRequest
      BY <1>1 DEF TypeOK
    <2>2. \A s \in Requests : pc'[s] = "write" /\ request'[s].kind # "post" => existing'[s] > 0
      BY <1>1 DEF TypeOK
    <2> QED BY <1>1, <2>1, <2>2 DEF TypeOK
  <1>3. StepOfRequest'
    BY <1>1 DEF StepOfRequest
  <1>4. VersionsWritten'
    BY <1>1 DEF VersionsWritten, Version
  <1>5. DecisionFitsCopy'
    BY <1>1 DEF DecisionFitsCopy, Version, NeedsConfirmation, DangerousChange, IsCreate
  <1>6. PendingAfterRead'
    BY DEF PendingAfterRead, AnnouncedIsPending
  <1> QED BY <1>2, <1>3, <1>4, <1>5, <1>6

LEMMA ReceiveInv ==
    ASSUME ApiInv, NEW r \in Requests, Receive(r)
    PROVE  ApiInv'
  <1> USE VersionAssumption DEF ApiInv, scheduler
  <1>1. PICK q \in Bodies : /\ request' = [request EXCEPT ![r] = q]
                            /\ pc' = [pc EXCEPT ![r] = IF q.kind = "post" THEN "write" ELSE "read"]
    BY DEF Receive
  <1>2. /\ pc' \in [Requests -> {"idle", "read", "write", "notify", "answer"}]
        /\ request' \in [Requests -> Bodies \cup Saved \cup Ran \cup {NoRequest}]
        /\ request'[r] = q
        /\ pc'[r] = IF q.kind = "post" THEN "write" ELSE "read"
        /\ \A s \in Requests \ {r} : pc'[s] = pc[s] /\ request'[s] = request[s]
    BY <1>1 DEF TypeOK
  <1>3. UNCHANGED <<table, existing, up, event, loop, readFailed, seen, announced>>
    BY DEF Receive
  <1>4. q # NoRequest
    BY BodyKinds DEF Bodies
  <1>5. q.kind # "post" => q \in Patches \cup ManualRuns
    BY BodyKinds DEF Bodies
  <1>6. TypeOK'
    <2>1. \A s \in Requests : pc'[s] = "idle" <=> request'[s] = NoRequest
      BY <1>2, <1>4 DEF TypeOK
    <2>2. \A s \in Requests : pc'[s] = "write" /\ request'[s].kind # "post" => existing'[s] > 0
      BY <1>2, <1>3 DEF TypeOK
    <2> QED BY <1>2, <1>3, <2>1, <2>2 DEF TypeOK
  <1>7. StepOfRequest'
    BY <1>2, <1>5 DEF StepOfRequest
  <1>8. VersionsWritten'
    BY <1>2, <1>3 DEF VersionsWritten, Version
  <1>9. DecisionFitsCopy'
    BY <1>2, <1>3 DEF DecisionFitsCopy, Version, NeedsConfirmation, DangerousChange, IsCreate
  <1>10. PendingAfterRead'
    BY <1>3 DEF PendingAfterRead, AnnouncedIsPending
  <1> QED BY <1>6, <1>7, <1>8, <1>9, <1>10

\* The decision is made from the row that is read.
LEMMA ReadJobInv ==
    ASSUME ApiInv, NEW r \in Requests, ReadJob(r)
    PROVE  ApiInv'
  <1> USE VersionAssumption DEF ApiInv
  <1> DEFINE j == request[r].job
             row == table[j]
  <1>1. /\ pc[r] = "read" /\ request[r] \in Patches \cup ManualRuns /\ j \in Jobs
        /\ request[r].confirm \in BOOLEAN
    BY BodyKinds DEF ReadJob, StepOfRequest
  <1>2. CASE Done(r)
    BY <1>2, DoneInv DEF ReadJob
  <1>3. CASE /\ row # NoRow
             /\ NeedsConfirmation(request[r], row) => request[r].confirm
             /\ existing' = [existing EXCEPT ![r] = row.version]
             /\ pc' = [pc EXCEPT ![r] = "write"]
             /\ UNCHANGED request
    <2>0. UNCHANGED <<table, request, up, event, loop, readFailed, seen, announced>>
      BY <1>3 DEF ReadJob, scheduler
    <2>1. Version(j) \in 1 .. MaxVersion
      BY <1>1, <1>3, VersionType
    <2>2. /\ pc' \in [Requests -> {"idle", "read", "write", "notify", "answer"}]
          /\ existing' \in [Requests -> 0 .. MaxVersion]
          /\ pc'[r] = "write" /\ existing'[r] = Version(j)
          /\ \A s \in Requests \ {r} : pc'[s] = pc[s] /\ existing'[s] = existing[s]
      BY <1>3, <2>1 DEF TypeOK, Version
    <2>3. request[r] \in Bodies /\ request[r] # NoRequest
      BY <1>1, BodyKinds DEF Bodies
    <2>4. TypeOK'
      <3>1. \A s \in Requests : pc'[s] = "idle" <=> request'[s] = NoRequest
        BY <2>0, <2>2, <2>3 DEF TypeOK
      <3>2. \A s \in Requests : pc'[s] = "write" /\ request'[s].kind # "post" => existing'[s] > 0
        BY <2>0, <2>1, <2>2 DEF TypeOK
      <3> QED BY <2>0, <2>2, <3>1, <3>2 DEF TypeOK
    <2>5. StepOfRequest'
      BY <2>0, <2>2, <2>3 DEF StepOfRequest
    <2>6. VersionsWritten'
      <3>1. \A s \in Requests : pc'[s] = "write" /\ request'[s].kind # "post" =>
                existing'[s] <= Version(request'[s].job)
        BY <2>0, <2>1, <2>2 DEF VersionsWritten
      <3> QED BY <2>0, <2>2, <3>1 DEF VersionsWritten, Version
    <2>7. DecisionFitsCopy'
      <3> SUFFICES ASSUME NEW s \in Requests, pc'[s] = "write", request[s].kind # "post",
                          ~request[s].confirm, existing'[s] = Version(request[s].job)
                   PROVE  ~NeedsConfirmation(request[s], table[request[s].job])
        BY <2>0 DEF DecisionFitsCopy, Version, NeedsConfirmation, DangerousChange, IsCreate
      <3>1. CASE s = r
        BY <3>1, <1>3
      <3>2. CASE s # r
        BY <3>2, <2>2 DEF DecisionFitsCopy
      <3> QED BY <3>1, <3>2
    <2>8. PendingAfterRead'
      BY <2>0 DEF PendingAfterRead, AnnouncedIsPending
    <2> QED BY <2>4, <2>5, <2>6, <2>7, <2>8
  <1> QED BY <1>2, <1>3 DEF ReadJob

LEMMA AnswerInv ==
    ASSUME ApiInv, NEW r \in Requests, Answer(r)
    PROVE  ApiInv'
  BY DoneInv DEF Answer

\* What a run executes is no longer a request to be decided.
LEMMA RunJobInv ==
    ASSUME ApiInv, NEW r \in Requests, RunJob(r)
    PROVE  ApiInv'
  <1> USE VersionAssumption DEF ApiInv
  <1> DEFINE j == request[r].job
             ran == [kind |-> "ran", op |-> table[j].op, confirm |-> request[r].confirm]
  <1>1. pc[r] = "write" /\ request[r] \in ManualRuns /\ j \in Jobs
        /\ request[r].confirm \in BOOLEAN
    BY BodyKinds DEF RunJob, StepOfRequest, Bodies
  <1>2. CASE Done(r)
    BY <1>2, DoneInv DEF RunJob
  <1>3. CASE /\ table[j].op # "null"
             /\ pc' = [pc EXCEPT ![r] = "answer"]
             /\ request' = [request EXCEPT ![r] = ran]
             /\ UNCHANGED existing
    <2>0. UNCHANGED <<table, existing, up, event, loop, readFailed, seen, announced>>
      BY <1>3 DEF RunJob, scheduler
    <2>1. table[j] # NoRow
      <3>1. existing[r] > 0 /\ existing[r] <= Version(j)
        BY <1>1, BodyKinds DEF TypeOK, VersionsWritten
      <3> QED BY <3>1, <1>1, VersionType DEF TypeOK
    <2>2. table[j].op \in {"create", "drop"}
      BY <1>1, <1>3, <2>1 DEF TypeOK, Rows, Ops
    <2>3. ran \in Ran
      BY <1>1, <2>2 DEF Ran
    <2> HIDE DEF ran
    <2>4. /\ pc' \in [Requests -> {"idle", "read", "write", "notify", "answer"}]
          /\ request' \in [Requests -> Bodies \cup Saved \cup Ran \cup {NoRequest}]
          /\ pc'[r] = "answer" /\ request'[r] = ran
          /\ \A s \in Requests \ {r} : pc'[s] = pc[s] /\ request'[s] = request[s]
      BY <1>3, <2>3 DEF TypeOK
    <2>5. ran # NoRequest
      BY <2>3, BodyKinds
    <2>6. TypeOK'
      <3>1. \A s \in Requests : pc'[s] = "idle" <=> request'[s] = NoRequest
        BY <2>4, <2>5 DEF TypeOK
      <3>2. \A s \in Requests : pc'[s] = "write" /\ request'[s].kind # "post" => existing'[s] > 0
        BY <2>0, <2>4 DEF TypeOK
      <3> QED BY <2>0, <2>4, <3>1, <3>2 DEF TypeOK
    <2>7. StepOfRequest'
      BY <2>3, <2>4 DEF StepOfRequest
    <2>8. VersionsWritten'
      BY <2>0, <2>4 DEF VersionsWritten, Version
    <2>9. DecisionFitsCopy'
      BY <2>0, <2>4 DEF DecisionFitsCopy, Version, NeedsConfirmation, DangerousChange, IsCreate
    <2>10. PendingAfterRead'
      BY <2>0 DEF PendingAfterRead, AnnouncedIsPending
    <2> QED BY <2>6, <2>7, <2>8, <2>9, <2>10
  <1> QED BY <1>2, <1>3 DEF RunJob

\* A write gives its row a version nobody has seen: every decision that waits
\* to be written was made from an older one.
LEMMA SaveJobInv ==
    ASSUME ApiInv, NEW r \in Requests, SaveJob(r)
    PROVE  ApiInv'
  <1> USE VersionAssumption DEF ApiInv
  <1>1. pc[r] = "write" /\ request[r] \in Posts \cup Patches
    BY BodyKinds DEF SaveJob, StepOfRequest, Bodies
  <1>2. CASE UNCHANGED table
    <2>1. Done(r)
      <3> SUFFICES ASSUME NEW j \in Jobs, table' = [table EXCEPT ![j] = Written(request[r], j)]
                   PROVE  FALSE
        BY <1>2 DEF SaveJob
      <3>1. Written(request[r], j).version = Version(j) + 1 /\ Version(j) \in Nat
        BY VersionType DEF Written
      <3>2. table'[j] = Written(request[r], j)
        BY DEF TypeOK
      <3> QED BY <1>2, <3>1, <3>2 DEF Version
    <2> QED BY <1>2, <2>1, DoneInv DEF SaveJob
  <1>3. CASE table' # table
    <2>1. PICK j \in Jobs :
            /\ IF request[r].kind = "post" THEN table[j] = NoRow ELSE j = request[r].job
            /\ Version(j) < MaxVersion
            /\ table' = [table EXCEPT ![j] = Written(request[r], j)]
            /\ \/ /\ pc' = [pc EXCEPT ![r] = "notify"]
                  /\ existing' = [existing EXCEPT ![r] = 0]
                  /\ request' = [request EXCEPT ![r] =
                        [kind |-> "saved", job |-> j, version |-> Version(j) + 1]]
               \/ Done(r)
      BY <1>3 DEF SaveJob
    <2> DEFINE new == Written(request[r], j)
               saved == [kind |-> "saved", job |-> j, version |-> Version(j) + 1]
    <2>0. UNCHANGED <<up, event, loop, readFailed, seen, announced>>
      BY DEF SaveJob, scheduler
    <2>2. Version(j) \in 0 .. MaxVersion /\ Version(j) + 1 \in 1 .. MaxVersion
      BY <2>1, VersionType
    <2>3. new \in Rows /\ new.version = Version(j) + 1
      BY <1>1, <2>2, BodyKinds DEF Written, Rows, Ops
    <2>4. saved \in Saved /\ saved.version = Version(j) + 1 /\ saved.job = j
      BY <2>2 DEF Saved
    <2> HIDE DEF new
    <2>5. /\ table' \in [Jobs -> Rows \cup {NoRow}]
          /\ table'[j] = new
          /\ \A k \in Jobs \ {j} : table'[k] = table[k]
      BY <2>1, <2>3 DEF TypeOK, new
    <2>6. \A k \in Jobs : Version(k) <= table'[k].version /\ Version(k) \in Nat /\ table'[k].version \in Nat
                          /\ (k = j => table'[k].version = Version(k) + 1)
      BY <2>2, <2>3, <2>5, VersionType DEF Version
    <2>7. ASSUME NEW req,
                 request' = [request EXCEPT ![r] = req],
                 req \in Saved \cup {NoRequest},
                 pc' = [pc EXCEPT ![r] = IF req = NoRequest THEN "idle" ELSE "notify"],
                 existing' = [existing EXCEPT ![r] = 0],
                 req # NoRequest => req.job = j /\ req.version = Version(j) + 1
          PROVE  ApiInv'
      <3>1. /\ pc' \in [Requests -> {"idle", "read", "write", "notify", "answer"}]
            /\ request' \in [Requests -> Bodies \cup Saved \cup Ran \cup {NoRequest}]
            /\ existing' \in [Requests -> 0 .. MaxVersion]
            /\ pc'[r] = IF req = NoRequest THEN "idle" ELSE "notify"
            /\ request'[r] = req
            /\ \A s \in Requests \ {r} : pc'[s] = pc[s] /\ request'[s] = request[s]
                                         /\ existing'[s] = existing[s]
        BY <2>7 DEF TypeOK
      <3>2. TypeOK'
        <4>1. \A s \in Requests : pc'[s] = "idle" <=> request'[s] = NoRequest
          BY <3>1 DEF TypeOK
        <4>2. \A s \in Requests : pc'[s] = "write" /\ request'[s].kind # "post" => existing'[s] > 0
          BY <3>1 DEF TypeOK
        <4> QED BY <2>0, <2>5, <3>1, <4>1, <4>2 DEF TypeOK
      <3>3. StepOfRequest'
        BY <2>7, <3>1 DEF StepOfRequest
      <3>4. ASSUME NEW s \in Requests, s # r, pc[s] = "write", request[s].kind # "post"
            PROVE  request[s].job \in Jobs
        BY <3>4, BodyKinds DEF StepOfRequest, Bodies
      <3>5. ASSUME NEW s \in Requests, s # r, pc[s] = "notify"
            PROVE  request[s].job \in Jobs /\ request[s].version \in Nat
        BY <3>5, BodyKinds DEF StepOfRequest
      <3>6. VersionsWritten'
        <4>1. \A k \in Jobs : announced'[k] <= table'[k].version
          BY <2>0, <2>6, VersionType DEF VersionsWritten
        <4>2. ASSUME NEW s \in Requests, pc'[s] = "notify"
              PROVE  request'[s].version <= table'[request'[s].job].version
          <5>1. CASE s = r
            <6>1. request'[s].job = j /\ request'[s].version = Version(j) + 1
              BY <2>7, <3>1, <4>2, <5>1
            <6> QED BY <6>1, <2>6
          <5>2. CASE s # r
            <6>1. request'[s] = request[s] /\ request[s].version <= Version(request[s].job)
              BY <3>1, <4>2, <5>2 DEF VersionsWritten
            <6>2. request[s].job \in Jobs /\ request[s].version \in Nat
              BY <3>1, <3>5, <4>2, <5>2
            <6>3. Version(request[s].job) <= table'[request[s].job].version
                  /\ Version(request[s].job) \in Nat /\ table'[request[s].job].version \in Nat
              BY <6>2, <2>6, <6>1 DEF Version
            <6> QED BY <6>1, <6>2, <6>3 DEF Version
          <5> QED BY <5>1, <5>2
        <4>3. ASSUME NEW s \in Requests, pc'[s] = "write", request'[s].kind # "post"
              PROVE  existing'[s] <= table'[request'[s].job].version
          <5>1. s # r /\ pc[s] = "write" /\ request'[s] = request[s] /\ existing'[s] = existing[s]
            BY <3>1, <4>3
          <5>2. request[s].job \in Jobs /\ existing[s] <= Version(request[s].job)
                /\ existing[s] \in Nat
            BY <3>4, <4>3, <5>1 DEF VersionsWritten, TypeOK
          <5> QED BY <2>6, <5>1, <5>2 DEF Version
        <4> QED BY <4>1, <4>2, <4>3 DEF VersionsWritten, Version
      <3>7. DecisionFitsCopy'
        <4> SUFFICES ASSUME NEW s \in Requests, pc'[s] = "write", request'[s].kind # "post",
                            ~request'[s].confirm,
                            existing'[s] = table'[request'[s].job].version
                     PROVE  ~NeedsConfirmation(request'[s], table'[request'[s].job])
          BY DEF DecisionFitsCopy, NeedsConfirmation, DangerousChange, IsCreate, Version
        <4>1. s # r /\ pc[s] = "write" /\ request'[s] = request[s] /\ existing'[s] = existing[s]
          BY <3>1
        <4>2. request[s].job \in Jobs /\ existing[s] <= Version(request[s].job)
              /\ existing[s] \in Nat
          BY <3>4, <4>1 DEF VersionsWritten, TypeOK
        <4>3. existing[s] = table'[request[s].job].version
          BY <4>1 DEF Version
        <4>4. request[s].job # j
          BY <2>6, <4>2, <4>3
        <4>5. table'[request[s].job] = table[request[s].job]
          BY <2>5, <4>2, <4>4
        <4> QED BY <4>1, <4>3, <4>5 DEF DecisionFitsCopy, Version
      <3>8. PendingAfterRead'
        BY <2>0 DEF PendingAfterRead, AnnouncedIsPending
      <3> QED BY <3>2, <3>3, <3>6, <3>7, <3>8
    <2>8. CASE Done(r)
      BY <2>8, <2>7 DEF Done
    <2>9. CASE /\ pc' = [pc EXCEPT ![r] = "notify"]
               /\ existing' = [existing EXCEPT ![r] = 0]
               /\ request' = [request EXCEPT ![r] = saved]
      <3>1. saved # NoRequest
        BY <2>4, BodyKinds
      <3> HIDE DEF saved
      <3> QED BY <2>4, <2>9, <2>7, <3>1
    <2> QED BY <2>1, <2>8, <2>9
  <1> QED BY <1>2, <1>3

-----------------------------------------------------------------------------
(***************************************************************************)
(* Telling the scheduler, and the scheduler.                               *)
(***************************************************************************)
LEMMA NotifyInv ==
    ASSUME ApiInv, NEW r \in Requests, Notify(r)
    PROVE  ApiInv'
  <1> USE VersionAssumption DEF ApiInv
  <1> DEFINE j == request[r].job
             v == request[r].version
  <1>1. j \in Jobs /\ v \in 1 .. MaxVersion /\ v <= Version(j)
    BY BodyKinds DEF Notify, StepOfRequest, VersionsWritten
  <1>2. /\ UNCHANGED <<table, up, loop, readFailed, seen>>
        /\ Done(r)
        /\ \/ event' = TRUE /\ announced' = [announced EXCEPT ![j] = Newest(@, v)]
           \/ event' = TRUE /\ UNCHANGED announced
           \/ UNCHANGED <<event, announced>>
    BY DEF Notify
  <1> HIDE DEF j, v
  <1>3. /\ announced' \in [Jobs -> 0 .. MaxVersion]
        /\ \A k \in Jobs : announced'[k] <= Version(k)
        /\ \A k \in Jobs : announced'[k] > announced[k] => event'
        /\ event' \in BOOLEAN
        /\ event => event'
    <2>1. CASE event' = TRUE /\ announced' = [announced EXCEPT ![j] = Newest(@, v)]
      <3>1. Newest(announced[j], v) \in 0 .. MaxVersion /\ Newest(announced[j], v) <= Version(j)
        BY <1>1, VersionType DEF Newest, TypeOK, VersionsWritten
      <3>2. announced' \in [Jobs -> 0 .. MaxVersion]
        BY <2>1, <3>1, <1>1 DEF TypeOK
      <3>3. \A k \in Jobs : announced'[k] <= Version(k)
        BY <2>1, <3>1, <1>1 DEF VersionsWritten, TypeOK
      <3> QED BY <2>1, <3>2, <3>3
    <2>2. CASE UNCHANGED announced /\ (event' = TRUE \/ UNCHANGED event)
      <3>1. event' \in BOOLEAN /\ (event => event')
        BY <2>2 DEF TypeOK
      <3>2. announced' = announced /\ announced \in [Jobs -> 0 .. MaxVersion]
        BY <2>2 DEF TypeOK
      <3>3. \A k \in Jobs : announced[k] <= Version(k) /\ ~(announced[k] > announced[k])
        BY VersionType DEF VersionsWritten
      <3> QED BY <3>1, <3>2, <3>3
    <2> QED BY <2>1, <2>2, <1>2
  <1>4. /\ pc' \in [Requests -> {"idle", "read", "write", "notify", "answer"}]
        /\ request' \in [Requests -> Bodies \cup Saved \cup Ran \cup {NoRequest}]
        /\ existing' \in [Requests -> 0 .. MaxVersion]
        /\ pc'[r] = "idle" /\ request'[r] = NoRequest /\ existing'[r] = 0
        /\ \A s \in Requests \ {r} : pc'[s] = pc[s] /\ request'[s] = request[s]
                                     /\ existing'[s] = existing[s]
    BY <1>2 DEF TypeOK, Done
  <1>5. TypeOK'
    <2>1. \A s \in Requests : pc'[s] = "idle" <=> request'[s] = NoRequest
      BY <1>4 DEF TypeOK
    <2>2. \A s \in Requests : pc'[s] = "write" /\ request'[s].kind # "post" => existing'[s] > 0
      BY <1>4 DEF TypeOK
    <2> QED BY <1>2, <1>3, <1>4, <2>1, <2>2 DEF TypeOK
  <1>6. StepOfRequest'
    BY <1>4 DEF StepOfRequest
  <1>7. VersionsWritten'
    BY <1>2, <1>3, <1>4 DEF VersionsWritten, Version
  <1>8. DecisionFitsCopy'
    BY <1>2, <1>4 DEF DecisionFitsCopy, Version, NeedsConfirmation, DangerousChange, IsCreate
  <1>9. PendingAfterRead'
    <2>1. ASSUME NEW k \in Jobs, announced'[k] > seen[k], ~event'
          PROVE  announced[k] > seen[k] /\ ~event
      BY <2>1, <1>3, VersionType DEF TypeOK
    <2> QED BY <1>2, <2>1 DEF PendingAfterRead, AnnouncedIsPending
  <1> QED BY <1>5, <1>6, <1>7, <1>8, <1>9

LEMMA SchedulerInv ==
    ASSUME ApiInv, SchedulerStep
    PROVE  ApiInv'
  <1> USE VersionAssumption DEF ApiInv
  <1>1. UNCHANGED <<table, pc, request, existing, announced>>
    BY DEF SchedulerStep, StartScheduler, StopScheduler, Wake, ReconcileTimeout,
           ReadUpcoming, Resume, ReadRaises
  <1>2. StepOfRequest' /\ VersionsWritten' /\ DecisionFitsCopy'
    BY <1>1 DEF StepOfRequest, VersionsWritten, DecisionFitsCopy, Version,
                NeedsConfirmation, DangerousChange, IsCreate
  <1>3. TypeOK'
    <2>1. seen' \in [Jobs -> 0 .. MaxVersion]
      BY VersionType DEF SchedulerStep, StartScheduler, StopScheduler, Wake,
           ReconcileTimeout, ReadUpcoming, Resume, ReadRaises, TypeOK
    <2>2. /\ up' \in BOOLEAN /\ event' \in BOOLEAN /\ readFailed' \in BOOLEAN
          /\ loop' \in {"waiting", "reading", "read"}
      BY DEF SchedulerStep, StartScheduler, StopScheduler, Wake, ReconcileTimeout,
             ReadUpcoming, Resume, ReadRaises, TypeOK
    <2> QED BY <1>1, <2>1, <2>2 DEF TypeOK
  <1>4. PendingAfterRead'
    <2> USE DEF PendingAfterRead, AnnouncedIsPending
    <2>1. CASE StartScheduler
      BY <2>1, <1>1 DEF StartScheduler
    <2>2. CASE StopScheduler
      BY <2>2, <1>1 DEF StopScheduler
    <2>3. CASE Wake
      BY <2>3, <1>1 DEF Wake
    <2>4. CASE ReconcileTimeout
      BY <2>4, <1>1 DEF ReconcileTimeout
    <2>5. CASE ReadUpcoming
      <3>1. \A j \in Jobs : ~(announced'[j] > seen'[j])
        BY <2>5, <1>1, VersionType DEF ReadUpcoming, VersionsWritten
      <3> QED BY <2>5, <3>1 DEF ReadUpcoming
    <2>6. CASE Resume
      BY <2>6, <1>1 DEF Resume
    <2>7. CASE ReadRaises
      BY <2>7, <1>1 DEF ReadRaises
    <2> QED BY <2>1, <2>2, <2>3, <2>4, <2>5, <2>6, <2>7 DEF SchedulerStep
  <1> QED BY <1>2, <1>3, <1>4

LEMMA StutterInv ==
    ASSUME ApiInv, UNCHANGED vars
    PROVE  ApiInv'
  BY DEF ApiInv, vars, TypeOK, StepOfRequest, VersionsWritten, DecisionFitsCopy, Version,
         NeedsConfirmation, DangerousChange, IsCreate, PendingAfterRead, AnnouncedIsPending

-----------------------------------------------------------------------------
\* The invariant holds in every reachable state.
THEOREM ApiInvariant == Spec => []ApiInv
<1>1. Init => ApiInv
  BY InitInv
<1>2. ApiInv /\ [Next]_vars => ApiInv'
  <2> SUFFICES ASSUME ApiInv, [Next]_vars
               PROVE  ApiInv'
    OBVIOUS
  <2>1. CASE SchedulerStep
    BY <2>1, SchedulerInv
  <2>2. ASSUME NEW r \in Requests, RequestStep(r) PROVE ApiInv'
    BY <2>2, ReceiveInv, ReadJobInv, SaveJobInv, RunJobInv, AnswerInv, NotifyInv
       DEF RequestStep
  <2>3. CASE UNCHANGED vars
    BY <2>3, StutterInv
  <2> QED BY <2>1, <2>2, <2>3 DEF Next
<1>3. QED
  BY <1>1, <1>2, PTL DEF Spec

\* Every variable keeps its type, and a request that is about to write has read
\* a job that was there.
THEOREM ApiTypeCorrect == Spec => []TypeOK
<1>1. ApiInv => TypeOK
  BY DEF ApiInv
<1>2. QED
  BY <1>1, ApiInvariant, PTL

\* An accepted notification stays pending until a read that follows it
\* (update_job: notify after commit; run: clear before reading), for any number
\* of requests and writes.
THEOREM NotificationsStayPending == Spec => []AnnouncedIsPending
<1>1. ApiInv => AnnouncedIsPending
  BY DEF ApiInv, PendingAfterRead
<1>2. QED
  BY <1>1, ApiInvariant, PTL

\* The step that property is about, for the requests of one step.
OvertakenStep ==
    \A r \in Requests :
        /\ Saves(r) /\ ~request[r].confirm =>
             LET j == request[r].job IN
             DangerousChange(table[j], table'[j]) => table[j].version # existing[r]
        /\ pc[r] = "write" /\ pc'[r] = "answer" /\ request'[r].op = "drop"
             /\ ~request[r].confirm
             => table[request[r].job].version # existing[r]

\* A request that writes or runs without a confirmation does what needs one only
\* when the job was written after the request had read it (_prepare_job_update,
\* run_job), however many requests run at once.
THEOREM MissingConfirmationIsARace == Spec => UnconfirmedOnlyIfOvertaken
<1>1. ApiInv /\ [Next]_vars => OvertakenStep
  <2> SUFFICES ASSUME ApiInv, [Next]_vars, NEW r \in Requests, ~request[r].confirm,
                      pc[r] = "write"
               PROVE  /\ Saves(r) =>
                           LET j == request[r].job IN
                           DangerousChange(table[j], table'[j])
                             => table[j].version # existing[r]
                      /\ pc'[r] = "answer" /\ request'[r].op = "drop"
                           => table[request[r].job].version # existing[r]
    BY DEF OvertakenStep, Saves
  <2> USE DEF ApiInv
  <2> DEFINE j == request[r].job
  <2>1. \/ UNCHANGED <<pc, request, table>>
        \/ \E s \in Requests : RequestStep(s)
    BY DEF Next, vars, SchedulerStep, StartScheduler, StopScheduler, Wake,
           ReconcileTimeout, ReadUpcoming, Resume, ReadRaises
  <2>2. CASE UNCHANGED <<pc, request, table>>
    BY <2>2 DEF Saves
  <2>3. ASSUME NEW s \in Requests, RequestStep(s), s # r
        PROVE  pc'[r] = pc[r]
    BY <2>3 DEF RequestStep, Receive, ReadJob, SaveJob, RunJob, Answer, Notify, Done, TypeOK
  <2>4. CASE SaveJob(r) /\ request[r].kind = "patch"
    <3>1. pc'[r] # "answer"
      BY <2>4 DEF SaveJob, Done, TypeOK
    <3>2. ASSUME table' # table, DangerousChange(table[j], table'[j])
          PROVE  table[j].version # existing[r]
      <4>1. j \in Jobs /\ table' = [table EXCEPT ![j] = Written(request[r], j)]
        BY <2>4, <3>2, BodyKinds DEF SaveJob, StepOfRequest, Bodies
      <4>2. table'[j] = Written(request[r], j)
        BY <4>1 DEF TypeOK
      <4>3. NeedsConfirmation(request[r], table[j])
        BY <2>4, <3>2, <4>2 DEF Written, NeedsConfirmation, DangerousChange, IsCreate
      <4> QED BY <2>4, <4>3 DEF DecisionFitsCopy, Version
    <3> QED BY <3>1, <3>2 DEF Saves
  <2>5. CASE RunJob(r) /\ request[r].kind = "run"
    <3>1. ASSUME pc'[r] = "answer", request'[r].op = "drop"
          PROVE  table[j].version # existing[r]
      <4>1. request'[r].op = table[j].op
        BY <2>5, <3>1 DEF RunJob, Done, TypeOK
      <4>2. NeedsConfirmation(request[r], table[j])
        BY <2>5, <3>1, <4>1 DEF NeedsConfirmation, IsCreate
      <4> QED BY <2>5, <4>2 DEF DecisionFitsCopy, Version
    <3>2. table' = table
      BY <2>5 DEF RunJob
    <3> QED BY <3>1, <3>2 DEF Saves
  <2>6. CASE SaveJob(r) /\ request[r].kind # "patch"
    BY <2>6 DEF SaveJob, Done, TypeOK, Saves
  <2>7. ~Receive(r) /\ ~ReadJob(r) /\ ~Answer(r) /\ ~Notify(r)
    BY DEF Receive, ReadJob, Answer, Notify
  <2>8. ASSUME NEW s \in Requests, RequestStep(s)
        PROVE  /\ Saves(r) =>
                    (DangerousChange(table[j], table'[j]) => table[j].version # existing[r])
               /\ pc'[r] = "answer" /\ request'[r].op = "drop"
                    => table[j].version # existing[r]
    <3>1. CASE s # r
      BY <2>3, <2>8, <3>1 DEF Saves
    <3>2. CASE s = r
      BY <2>4, <2>5, <2>6, <2>7, <2>8, <3>2 DEF RequestStep, RunJob
    <3> QED BY <3>1, <3>2
  <2> QED BY <2>1, <2>2, <2>8
<1>2. Spec => [][OvertakenStep]_vars
  BY <1>1, ApiInvariant, PTL DEF Spec
<1>3. QED
  BY <1>2 DEF OvertakenStep, UnconfirmedOnlyIfOvertaken
=============================================================================
