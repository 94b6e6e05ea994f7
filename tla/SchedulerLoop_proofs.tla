------------------------ MODULE SchedulerLoop_proofs ------------------------
(***************************************************************************)
(* Proofs about SchedulerLoop, for any number of jobs, slots, ticks and    *)
(* breaker entries.                                                        *)
(***************************************************************************)
EXTENDS SchedulerLoop, TLAPS, FiniteSetTheorems

-----------------------------------------------------------------------------
(***************************************************************************)
(* The inductive invariant.                                                *)
(***************************************************************************)
\* The slots, counted by the tasks that hold one.
SlotCount ==
    /\ IsFiniteSet(running)
    /\ Cardinality(running) <= Slots

\* Nothing the process holds is of a generation the database has not reached.
NoFutureGeneration ==
    \A o \in closed \cup activeKeys \cup DOMAIN queue \cup DOMAIN snap : o[2] <= gen[o[1]]

\* What was transitioned is not open again, and the breaker and the results on
\* their way name such occurrences only.
ClosedStaysClosed ==
    /\ \A o \in closed : ~Current(o)
    /\ \A o \in Occurrences : thread[o] = "handled" => o \in closed
    /\ CacheKeys \subseteq closed

\* TimersNotEarly of the last generation, whether its job is enabled or not,
\* and of the rows in flight.
TimersOfLastGeneration ==
    \A o \in Occurrences : gen[o[1]] = o[2] =>
        /\ o \in DOMAIN queue => queue[o] >= dueIn[o[1]]
        /\ o \in DOMAIN snap => snap[o] >= dueIn[o[1]]
        /\ o \in activeKeys => dueIn[o[1]] = 0

\* A request is pending until a read that follows it.
RequestPending ==
    /\ NoLostWakeup
    /\ loop = "read" /\ unread => refreshEvent
    /\ loop = "down" => ~unread

LoopInv ==
    /\ TypeOK
    /\ KeysAreTasks
    /\ SlotCount
    /\ ActiveNotQueued
    /\ NoFutureGeneration
    /\ ClosedStaysClosed
    /\ TimersOfLastGeneration
    /\ RequestPending

-----------------------------------------------------------------------------
(***************************************************************************)
(* Lemmas about the operators.                                             *)
(***************************************************************************)
\* Removing a key leaves entries of the breaker, in order.
LEMMA WithoutEntries ==
    ASSUME NEW c \in Seq(Occurrences), NEW o \in Occurrences
    PROVE  /\ Without(c, o) \in Seq(Occurrences)
           /\ Len(Without(c, o)) <= Len(c)
           /\ \A i \in DOMAIN Without(c, o) : \E k \in DOMAIN c : Without(c, o)[i] = c[k]
  <1>1. CASE ~\E i \in DOMAIN c : c[i] = o
    BY <1>1 DEF Without
  <1>2. CASE \E i \in DOMAIN c : c[i] = o
    <2> DEFINE n == CHOOSE i \in DOMAIN c : c[i] = o
               a == SubSeq(c, 1, n - 1)
               b == SubSeq(c, n + 1, Len(c))
    <2>0. n \in DOMAIN c
      BY <1>2
    <2>1. n \in 1 .. Len(c) /\ Without(c, o) = a \o b
      <3>1. n \in 1 .. Len(c)
        BY <2>0
      <3>2. Without(c, o) = a \o b
        BY <1>2, Zenon DEF Without
      <3> QED BY <3>1, <3>2
    <2> HIDE DEF n
    <2>2. a \in Seq(Occurrences) /\ Len(a) = n - 1 /\ \A i \in 1 .. n - 1 : a[i] = c[i]
      BY <2>1
    <2>3. b \in Seq(Occurrences) /\ Len(b) = Len(c) - n
          /\ \A i \in 1 .. Len(c) - n : b[i] = c[n + i]
      BY <2>1
    <2> HIDE DEF a, b
    <2>4. a \o b \in Seq(Occurrences) /\ Len(a \o b) = Len(c) - 1
      BY <2>1, <2>2, <2>3
    <2>5. ASSUME NEW i \in DOMAIN (a \o b)
          PROVE  \E k \in DOMAIN c : (a \o b)[i] = c[k]
      <3>1. i \in 1 .. Len(c) - 1
        BY <2>1, <2>4
      <3>2. CASE i < n
        <4>1. (a \o b)[i] = a[i]
          BY <3>1, <3>2, <2>1, <2>2, <2>3
        <4> QED BY <4>1, <3>1, <3>2, <2>1, <2>2
      <3>3. CASE i >= n
        <4>1. (a \o b)[i] = b[i - (n - 1)]
          BY <3>1, <3>3, <2>1, <2>2, <2>3
        <4>2. i - (n - 1) \in 1 .. Len(c) - n /\ n + (i - (n - 1)) = i + 1
              /\ i + 1 \in DOMAIN c
          BY <3>1, <3>3, <2>1
        <4> QED BY <4>1, <4>2, <2>3
      <3> QED BY <3>1, <3>2, <3>3, <2>1
    <2> QED BY <2>1, <2>4, <2>5
  <1> QED BY <1>1, <1>2

\* The breaker keeps its capacity and gains the new key only.
LEMMA AddEntries ==
    ASSUME NEW c \in Seq(Occurrences), Len(c) <= MaxEntries, NEW o \in Occurrences
    PROVE  /\ Add(c, o) \in Seq(Occurrences)
           /\ Len(Add(c, o)) <= MaxEntries
           /\ \A i \in DOMAIN Add(c, o) :
                 Add(c, o)[i] = o \/ \E k \in DOMAIN c : Add(c, o)[i] = c[k]
  <1> DEFINE w == Without(c, o)
  <1>1. /\ w \in Seq(Occurrences)
        /\ Len(w) <= Len(c)
        /\ \A i \in DOMAIN w : \E k \in DOMAIN c : w[i] = c[k]
    BY WithoutEntries
  <1> HIDE DEF w
  <1>2. CASE Len(w) < MaxEntries
    <2>1. Add(c, o) = Append(w, o)
      BY <1>2 DEF Add, w
    <2> QED BY <2>1, <1>1, <1>2, LoopAssumption
  <1>3. CASE Len(w) >= MaxEntries
    <2>1. Add(c, o) = Append(Tail(w), o)
      BY <1>1, <1>3, LoopAssumption DEF Add, w
    <2>2. w # << >> /\ Len(w) = MaxEntries /\ Tail(w) \in Seq(Occurrences)
          /\ Len(Tail(w)) = MaxEntries - 1
          /\ \A i \in 1 .. Len(w) - 1 : Tail(w)[i] = w[i + 1]
      BY <1>1, <1>3, LoopAssumption
    <2> DEFINE t == Tail(w)
    <2> HIDE DEF t
    <2>3. Append(t, o) \in Seq(Occurrences) /\ Len(Append(t, o)) = MaxEntries
      BY <2>2, LoopAssumption DEF t
    <2>4. ASSUME NEW i \in DOMAIN Append(t, o)
          PROVE  Append(t, o)[i] = o \/ \E k \in DOMAIN c : Append(t, o)[i] = c[k]
      <3>1. i \in 1 .. MaxEntries
        BY <2>3, LoopAssumption
      <3>2. CASE i = MaxEntries
        BY <3>2, <2>2 DEF t
      <3>3. CASE i < MaxEntries
        <4>1. Append(t, o)[i] = w[i + 1] /\ i + 1 \in DOMAIN w
          BY <3>1, <3>3, <2>2, <1>1, LoopAssumption DEF t
        <4> QED BY <4>1, <1>1
      <3> QED BY <3>1, <3>2, <3>3, LoopAssumption
    <2> QED BY <2>1, <2>3, <2>4 DEF t
  <1> QED BY <1>1, <1>2, <1>3, LoopAssumption

LEMMA OccurrenceType ==
    ASSUME NEW o \in Occurrences
    PROVE  o[1] \in Jobs /\ o[2] \in 0 .. MaxGen
  BY DEF Occurrences

\* Jobs keep their types when one of them changes.
LEMMA ChangeJobType ==
    ASSUME TypeOK, NEW j \in Jobs
    PROVE  /\ gen[j] < MaxGen => [gen EXCEPT ![j] = @ + 1] \in [Jobs -> 0 .. MaxGen]
           /\ gen \in [Jobs -> 0 .. MaxGen]
           /\ \A b \in BOOLEAN : [open EXCEPT ![j] = b] \in [Jobs -> BOOLEAN]
           /\ open \in [Jobs -> BOOLEAN]
           /\ \A d \in 1 .. Horizon : [dueIn EXCEPT ![j] = d] \in [Jobs -> 0 .. Horizon]
           /\ dueIn \in [Jobs -> 0 .. Horizon]
  BY LoopAssumption DEF TypeOK

-----------------------------------------------------------------------------
(***************************************************************************)
(* Every step keeps the invariant: one lemma for the actions of each part. *)
(***************************************************************************)
LEMMA InitInv == Init => LoopInv
  <1> SUFFICES ASSUME Init PROVE LoopInv
    OBVIOUS
  <1> USE LoopAssumption DEF Init, FreshProcess, NoRows
  <1>1. TypeOK
    <2>1. cache \in Seq(Occurrences) /\ Len(cache) <= MaxEntries
      OBVIOUS
    <2>2. DOMAIN snap = {} /\ DOMAIN queue = {}
      OBVIOUS
    <2>3. gen \in [Jobs -> 0 .. MaxGen] /\ open \in [Jobs -> BOOLEAN]
      OBVIOUS
    <2>4. thread \in [Occurrences -> {"none", "calling", "handled", "notHandled"}]
      OBVIOUS
    <2>5. dueIn \in [Jobs -> 0 .. Horizon] /\ reconcileIn \in 0 .. Reconcile
          /\ refreshOk \in BOOLEAN /\ loop \in LoopStates
      BY DEF LoopStates
    <2> HIDE DEF Init, FreshProcess
    <2>6. closed = {} /\ activeKeys = {} /\ waiting = {} /\ running = {} /\ orphans = {}
          /\ known = {} /\ refreshEvent = FALSE /\ shutdownEvent = FALSE /\ unread = FALSE
      BY DEF Init, FreshProcess
    <2> QED BY <2>1, <2>2, <2>3, <2>4, <2>5, <2>6 DEF TypeOK
  <1>2. KeysAreTasks /\ ActiveNotQueued
    BY DEF KeysAreTasks, ActiveNotQueued
  <1>3. SlotCount
    BY FS_EmptySet DEF SlotCount
  <1>4. NoFutureGeneration /\ ClosedStaysClosed /\ TimersOfLastGeneration
    BY DEF NoFutureGeneration, ClosedStaysClosed, TimersOfLastGeneration, CacheKeys
  <1>5. RequestPending
    BY DEF RequestPending, NoLostWakeup, Dispatching
  <1> QED BY <1>1, <1>2, <1>3, <1>4, <1>5 DEF LoopInv

LEMMA TickInv ==
    ASSUME LoopInv, Tick
    PROVE  LoopInv'
  <1> USE LoopAssumption DEF LoopInv, Tick, database, tasks
  <1>0. \A n \in Nat : Down(n) \in Nat /\ Down(n) <= n
    BY DEF Down
  <1>1. TypeOK'
    <2>4. \A n \in Nat : \A m \in 0 .. n : Down(m) \in 0 .. n
      BY DEF Down
    <2>5. \A j \in Jobs : dueIn[j] \in 0 .. Horizon
      BY DEF TypeOK
    <2>6. \A j \in Jobs : Down(dueIn[j]) \in 0 .. Horizon
      BY <2>4, <2>5
    <2>1. dueIn' \in [Jobs -> 0 .. Horizon] /\ reconcileIn' \in 0 .. Reconcile
      BY <2>4, <2>6 DEF TypeOK
    <2>3. DOMAIN queue' = DOMAIN queue
      OBVIOUS
    <2>2. ASSUME NEW o \in DOMAIN queue' PROVE queue'[o] \in 0 .. Horizon
      <3>1. queue'[o] = Down(queue[o]) /\ queue[o] \in 0 .. Horizon
        BY <2>3 DEF TypeOK
      <3> QED BY <3>1, <1>0
    <2> QED BY <2>1, <2>2, <2>3 DEF TypeOK
  <1>2. KeysAreTasks' /\ ActiveNotQueued' /\ SlotCount'
    BY DEF KeysAreTasks, ActiveNotQueued, SlotCount
  <1>3. NoFutureGeneration' /\ ClosedStaysClosed'
    BY DEF NoFutureGeneration, ClosedStaysClosed, CacheKeys, Current
  <1>4. TimersOfLastGeneration'
    <2> SUFFICES ASSUME NEW o \in Occurrences, gen[o[1]] = o[2]
                 PROVE  /\ o \in DOMAIN queue => Down(queue[o]) >= Down(dueIn[o[1]])
                        /\ o \in DOMAIN snap => snap[o] >= Down(dueIn[o[1]])
                        /\ o \in activeKeys => Down(dueIn[o[1]]) = 0
      BY OccurrenceType DEF TimersOfLastGeneration
    <2>1. dueIn[o[1]] \in 0 .. Horizon
      BY OccurrenceType DEF TypeOK
    <2>2. o \in DOMAIN queue => queue[o] \in Nat /\ queue[o] >= dueIn[o[1]]
      BY DEF TimersOfLastGeneration, TypeOK
    <2>3. o \in DOMAIN snap => snap[o] \in Nat /\ snap[o] >= dueIn[o[1]]
      BY DEF TimersOfLastGeneration, TypeOK
    <2>4. o \in activeKeys => dueIn[o[1]] = 0
      BY DEF TimersOfLastGeneration
    <2> QED BY <2>1, <2>2, <2>3, <2>4 DEF Down
  <1>5. RequestPending'
    BY DEF RequestPending, NoLostWakeup, Dispatching
  <1> QED BY <1>1, <1>2, <1>3, <1>4, <1>5

\* An edit schedules a generation nothing in the process is of, or opens an
\* occurrence that is not due and was not transitioned.
LEMMA EditInv ==
    ASSUME LoopInv, NEW j \in Jobs, EditJob(j)
    PROVE  LoopInv'
  <1> USE LoopAssumption DEF LoopInv, tasks
  <1>0. /\ UNCHANGED <<closed, loop, snap, queue, reconcileIn, refreshOk, refreshEvent,
                       shutdownEvent, activeKeys, waiting, running, thread, cache,
                       orphans, known, unread>>
    BY DEF EditJob
  <1>1. KeysAreTasks' /\ ActiveNotQueued' /\ SlotCount' /\ RequestPending'
    BY <1>0 DEF KeysAreTasks, ActiveNotQueued, SlotCount, RequestPending, NoLostWakeup,
              Dispatching
  <1>2. TypeOK'
    <2>1. gen' \in [Jobs -> 0 .. MaxGen] /\ open' \in [Jobs -> BOOLEAN]
          /\ dueIn' \in [Jobs -> 0 .. Horizon]
      <3>1. CASE gen[j] < MaxGen /\ gen' = [gen EXCEPT ![j] = @ + 1]
                 /\ open' = [open EXCEPT ![j] = TRUE]
                 /\ \E d \in 1 .. Horizon : dueIn' = [dueIn EXCEPT ![j] = d]
        BY <3>1, ChangeJobType
      <3>2. CASE UNCHANGED <<gen, dueIn>> /\ \E b \in BOOLEAN : open' = [open EXCEPT ![j] = b]
        BY <3>2, ChangeJobType
      <3> QED BY <3>1, <3>2 DEF EditJob
    <2> QED BY <1>0, <2>1 DEF TypeOK
  <1>3. \A k \in Jobs : gen'[k] \in Nat /\ gen'[k] >= gen[k]
    BY DEF EditJob, TypeOK
  <1>4. NoFutureGeneration'
    <2> SUFFICES ASSUME NEW o \in closed \cup activeKeys \cup DOMAIN queue \cup DOMAIN snap
                 PROVE  o[2] <= gen'[o[1]]
      BY <1>0 DEF NoFutureGeneration
    <2>1. o \in Occurrences
      BY DEF TypeOK
    <2>2. o[2] <= gen[o[1]]
      BY DEF NoFutureGeneration
    <2> QED BY <2>1, <2>2, <1>3, OccurrenceType DEF TypeOK
  <1>5. ASSUME NEW o \in Occurrences, gen'[o[1]] = o[2],
               o \in closed \cup activeKeys \cup DOMAIN queue \cup DOMAIN snap
        PROVE  /\ gen[o[1]] = o[2]
               /\ dueIn'[o[1]] = dueIn[o[1]]
               /\ o \in closed /\ ~open[o[1]] => ~open'[o[1]]
    <2>1. o[2] <= gen[o[1]] /\ o[1] \in Jobs /\ gen[o[1]] \in Nat /\ o[2] \in Nat
      BY <1>5, OccurrenceType DEF NoFutureGeneration, TypeOK
    <2>2. o = <<o[1], o[2]>>
      BY DEF Occurrences
    <2>3. CASE o[1] # j
      BY <2>1, <2>3, <1>5 DEF EditJob, TypeOK
    <2>4. CASE o[1] = j /\ gen'[j] = gen[j] + 1
      BY <2>1, <2>4, <1>5
    <2>5. CASE o[1] = j /\ UNCHANGED <<gen, dueIn>>
      <3>1. o = <<j, gen[j]>> /\ gen[o[1]] = o[2] /\ dueIn'[o[1]] = dueIn[o[1]]
        BY <2>2, <2>5, <1>5
      <3>2. \/ open'[j] = FALSE
            \/ <<j, gen[j]>> \notin closed
        BY <2>1, <2>5 DEF EditJob, TypeOK
      <3> QED BY <3>1, <3>2, <2>5
    <2>6. gen'[j] = gen[j] + 1 \/ UNCHANGED <<gen, dueIn>>
      BY DEF EditJob, TypeOK
    <2> QED BY <2>3, <2>4, <2>5, <2>6
  <1>6. ClosedStaysClosed'
    <2>1. ASSUME NEW o \in closed PROVE ~Current(o)'
      <3>1. o \in Occurrences /\ ~Current(o)
        BY DEF ClosedStaysClosed, TypeOK
      <3> QED BY <3>1, <1>5 DEF Current
    <2> QED BY <2>1, <1>0 DEF ClosedStaysClosed, CacheKeys
  <1>7. TimersOfLastGeneration'
    BY <1>0, <1>5 DEF TimersOfLastGeneration
  <1> QED BY <1>1, <1>2, <1>4, <1>6, <1>7

-----------------------------------------------------------------------------
(***************************************************************************)
(* A run that commits, whether its task still waits for it or not.         *)
(***************************************************************************)
LEMMA TransitionInv ==
    ASSUME LoopInv, NEW o \in Occurrences, Transition(o),
           UNCHANGED <<loop, snap, queue, reconcileIn, refreshOk, refreshEvent,
                       shutdownEvent, activeKeys, waiting, running, cache, known, unread>>
    PROVE  /\ gen' \in [Jobs -> 0 .. MaxGen]
           /\ open' \in [Jobs -> BOOLEAN]
           /\ dueIn' \in [Jobs -> 0 .. Horizon]
           /\ closed' \subseteq Occurrences
           /\ o \in closed'
           /\ \A k \in closed' : ~Current(k)'
           /\ CacheKeys' \subseteq closed'
           /\ NoFutureGeneration'
           /\ TimersOfLastGeneration'
  <1> USE LoopAssumption DEF LoopInv
  <1>1. o[1] \in Jobs /\ o[2] \in Nat /\ gen[o[1]] = o[2] /\ closed' = closed \cup {o}
    BY OccurrenceType DEF Transition, Due, Current
  <1>2. gen' \in [Jobs -> 0 .. MaxGen] /\ open' \in [Jobs -> BOOLEAN]
        /\ dueIn' \in [Jobs -> 0 .. Horizon]
    <2>1. CASE gen[o[1]] < MaxGen /\ gen' = [gen EXCEPT ![o[1]] = @ + 1] /\ UNCHANGED open
               /\ \E d \in 1 .. Horizon : dueIn' = [dueIn EXCEPT ![o[1]] = d]
      BY <2>1, <1>1, ChangeJobType
    <2>2. CASE UNCHANGED <<gen, dueIn>> /\ open' = [open EXCEPT ![o[1]] = FALSE]
      BY <2>2, <1>1, ChangeJobType
    <2> QED BY <2>1, <2>2 DEF Transition
  <1>3. closed' \subseteq Occurrences
    BY <1>1 DEF TypeOK
  <1>0. gen' = [gen EXCEPT ![o[1]] = @ + 1] \/ (UNCHANGED <<gen, dueIn>> /\ ~open'[o[1]])
    BY <1>1 DEF Transition, TypeOK
  <1>4. \A k \in Jobs : gen[k] \in Nat /\ gen'[k] \in Nat /\ gen'[k] >= gen[k]
    <2>1. CASE gen' = [gen EXCEPT ![o[1]] = @ + 1]
      BY <2>1, <1>1, <1>2 DEF TypeOK
    <2>2. CASE UNCHANGED gen
      BY <2>2 DEF TypeOK
    <2> QED BY <2>1, <2>2, <1>0
  <1>5. NoFutureGeneration'
    <2> SUFFICES ASSUME NEW k \in closed' \cup activeKeys \cup DOMAIN queue \cup DOMAIN snap
                 PROVE  k[2] <= gen'[k[1]]
      BY DEF NoFutureGeneration
    <2>1. k \in Occurrences
      BY <1>3 DEF TypeOK
    <2>2. k[2] <= gen[k[1]]
      BY <1>1, <1>4, OccurrenceType DEF NoFutureGeneration
    <2> QED BY <2>1, <2>2, <1>4, OccurrenceType
  <1>6. ASSUME NEW k \in Occurrences, gen'[k[1]] = k[2],
               k \in closed' \cup activeKeys \cup DOMAIN queue \cup DOMAIN snap
        PROVE  /\ gen[k[1]] = k[2]
               /\ dueIn'[k[1]] = dueIn[k[1]]
               /\ open'[k[1]] => open[k[1]] /\ k[1] # o[1]
    <2>1. k[2] <= gen[k[1]] /\ k[1] \in Jobs /\ k[2] \in Nat
      BY <1>6, <1>1, <1>4, OccurrenceType DEF NoFutureGeneration
    <2>2. CASE k[1] # o[1]
      BY <2>1, <2>2, <1>6 DEF Transition, TypeOK
    <2>3. CASE k[1] = o[1] /\ gen'[o[1]] = gen[o[1]] + 1
      BY <2>1, <2>3, <1>1, <1>4, <1>6
    <2>4. CASE k[1] = o[1] /\ UNCHANGED <<gen, dueIn>> /\ ~open'[o[1]]
      BY <2>1, <2>4, <1>6
    <2> QED BY <2>2, <2>3, <2>4, <1>0, <1>1 DEF TypeOK
  <1>7. ASSUME NEW k \in closed' PROVE ~Current(k)'
    <2>1. k \in Occurrences
      BY <1>3
    <2>2. CASE k = o
      BY <2>1, <2>2, <1>6 DEF Current
    <2>3. CASE k # o
      <3>1. ~Current(k)
        BY <2>3, <1>1 DEF ClosedStaysClosed
      <3> QED BY <3>1, <2>1, <1>6 DEF Current
    <2> QED BY <2>2, <2>3
  <1>8. TimersOfLastGeneration'
    BY <1>6 DEF TimersOfLastGeneration
  <1>9. CacheKeys' \subseteq closed'
    BY <1>1 DEF ClosedStaysClosed, CacheKeys
  <1> QED BY <1>1, <1>2, <1>3, <1>5, <1>7, <1>8, <1>9

LEMMA ThreadRunsInv ==
    ASSUME LoopInv, NEW o \in Occurrences, ThreadRuns(o)
    PROVE  LoopInv'
  <1> USE LoopAssumption
  <1>0. /\ UNCHANGED <<loop, snap, queue, reconcileIn, refreshOk, refreshEvent,
                       shutdownEvent, activeKeys, waiting, running, cache, orphans,
                       known, unread>>
        /\ thread[o] = "calling"
        /\ thread' \in {[thread EXCEPT ![o] = "handled"], [thread EXCEPT ![o] = "notHandled"]}
        /\ Transition(o)
    BY DEF ThreadRuns
  <1>1. /\ gen' \in [Jobs -> 0 .. MaxGen]
        /\ open' \in [Jobs -> BOOLEAN]
        /\ dueIn' \in [Jobs -> 0 .. Horizon]
        /\ closed' \subseteq Occurrences
        /\ o \in closed'
        /\ \A k \in closed' : ~Current(k)'
        /\ CacheKeys' \subseteq closed'
        /\ NoFutureGeneration'
        /\ TimersOfLastGeneration'
    BY <1>0, TransitionInv
  <1>2. thread' \in [Occurrences -> {"none", "calling", "handled", "notHandled"}]
    BY <1>0 DEF LoopInv, TypeOK
  <1>3. TypeOK'
    BY <1>0, <1>1, <1>2 DEF LoopInv, TypeOK
  <1>4. \A k \in Occurrences : /\ thread'[k] = "none" <=> thread[k] = "none"
                               /\ thread'[k] = "handled" => k = o \/ thread[k] = "handled"
    BY <1>0 DEF LoopInv, TypeOK
  <1>5. KeysAreTasks' /\ SlotCount' /\ ActiveNotQueued'
    BY <1>0, <1>4 DEF LoopInv, KeysAreTasks, SlotCount, ActiveNotQueued
  <1>6. closed \subseteq closed'
    BY <1>0 DEF Transition
  <1>7. ClosedStaysClosed'
    BY <1>1, <1>4, <1>6 DEF LoopInv, ClosedStaysClosed
  <1>8. RequestPending'
    BY <1>0 DEF LoopInv, RequestPending, NoLostWakeup, Dispatching
  <1> QED BY <1>1, <1>3, <1>5, <1>7, <1>8 DEF LoopInv

LEMMA OrphanRunsInv ==
    ASSUME LoopInv, NEW o \in Occurrences, OrphanRuns(o)
    PROVE  LoopInv'
  <1> USE LoopAssumption
  <1>0. /\ UNCHANGED <<loop, snap, queue, reconcileIn, refreshOk, refreshEvent,
                       shutdownEvent, activeKeys, waiting, running, thread, cache,
                       known, unread>>
        /\ Transition(o)
        /\ orphans' \subseteq orphans
    BY DEF OrphanRuns, tasks
  <1>1. /\ gen' \in [Jobs -> 0 .. MaxGen]
        /\ open' \in [Jobs -> BOOLEAN]
        /\ dueIn' \in [Jobs -> 0 .. Horizon]
        /\ closed' \subseteq Occurrences
        /\ o \in closed'
        /\ \A k \in closed' : ~Current(k)'
        /\ CacheKeys' \subseteq closed'
        /\ NoFutureGeneration'
        /\ TimersOfLastGeneration'
    BY <1>0, TransitionInv
  <1>3. TypeOK'
    BY <1>0, <1>1 DEF LoopInv, TypeOK
  <1>5. KeysAreTasks' /\ SlotCount' /\ ActiveNotQueued'
    BY <1>0 DEF LoopInv, KeysAreTasks, SlotCount, ActiveNotQueued
  <1>6. closed \subseteq closed'
    BY <1>0 DEF Transition
  <1>7. ClosedStaysClosed'
    BY <1>0, <1>1, <1>6 DEF LoopInv, ClosedStaysClosed
  <1>8. RequestPending'
    BY <1>0 DEF LoopInv, RequestPending, NoLostWakeup, Dispatching
  <1> QED BY <1>1, <1>3, <1>5, <1>7, <1>8 DEF LoopInv

-----------------------------------------------------------------------------
(***************************************************************************)
(* The refresh and the loop.                                               *)
(***************************************************************************)
LEMMA FetchInv ==
    ASSUME LoopInv, FetchRead \/ FetchFail \/ FetchReturn
    PROVE  LoopInv'
  <1> USE LoopAssumption DEF LoopInv, database, tasks, FetchRead, FetchFail, FetchReturn
  <1>1. KeysAreTasks' /\ SlotCount' /\ ClosedStaysClosed'
    BY DEF KeysAreTasks, SlotCount, ClosedStaysClosed, CacheKeys, Current
  <1>2. CASE FetchRead
    <2>1. /\ DOMAIN snap' \subseteq Occurrences
          /\ \A o \in DOMAIN snap' : Current(o) /\ snap'[o] = dueIn[o[1]]
      BY <1>2
    <2>2. \A o \in DOMAIN snap' : gen[o[1]] = o[2] /\ snap'[o] \in 0 .. Horizon
                                  /\ snap'[o] >= dueIn[o[1]]
      BY <2>1, OccurrenceType DEF Current, TypeOK
    <2>3. TypeOK' /\ ActiveNotQueued'
      BY <1>2, <2>1, <2>2 DEF TypeOK, LoopStates, ActiveNotQueued
    <2>4. NoFutureGeneration'
      BY <1>2, <2>1, <2>2, OccurrenceType DEF NoFutureGeneration, TypeOK
    <2>5. TimersOfLastGeneration'
      BY <1>2, <2>2 DEF TimersOfLastGeneration
    <2>6. RequestPending'
      BY <1>2 DEF RequestPending, NoLostWakeup, Dispatching
    <2> QED BY <1>1, <2>3, <2>4, <2>5, <2>6
  <1>3. CASE FetchFail
    <2>1. TypeOK' /\ ActiveNotQueued' /\ NoFutureGeneration' /\ TimersOfLastGeneration'
      BY <1>3 DEF TypeOK, LoopStates, ActiveNotQueued, NoFutureGeneration,
                  TimersOfLastGeneration
    <2>2. RequestPending'
      BY <1>3 DEF RequestPending, NoLostWakeup, Dispatching
    <2> QED BY <1>1, <2>1, <2>2
  <1>4. CASE FetchReturn
    <2>1. /\ DOMAIN queue' = Filtered(snap)
          /\ \A o \in DOMAIN queue' : o \in DOMAIN snap /\ queue'[o] = snap[o]
      BY <1>4 DEF Filtered, Delay
    <2>2. DOMAIN snap' = {}
      BY <1>4 DEF NoRows
    <2>3. TypeOK'
      BY <1>4, <2>1, <2>2 DEF TypeOK, LoopStates
    <2>4. ActiveNotQueued'
      BY <1>4, <2>1 DEF ActiveNotQueued, Filtered
    <2>5. NoFutureGeneration'
      BY <1>4, <2>1, <2>2 DEF NoFutureGeneration
    <2>6. TimersOfLastGeneration'
      BY <1>4, <2>1, <2>2 DEF TimersOfLastGeneration
    <2>7. RequestPending'
      BY <1>4 DEF RequestPending, NoLostWakeup, Dispatching
    <2> QED BY <1>1, <2>3, <2>4, <2>5, <2>6, <2>7
  <1> QED BY <1>2, <1>3, <1>4

\* One pass of the while loop: what is due moves from the queue to the tasks.
LEMMA IterateInv ==
    ASSUME LoopInv, NEW r \in 0 .. Reconcile, Iterate(r), loop # "down",
           loop = "readFailed" \/ refreshOk' = refreshOk,
           refreshOk' \in BOOLEAN,
           loop = "readFailed" => refreshOk' = FALSE,
           loop \in {"readFailed", "counting", "waiting"},
           UNCHANGED <<gen, open, dueIn, closed, snap, shutdownEvent, running, thread,
                       cache, orphans, known, unread>>
    PROVE  LoopInv'
  <1> USE LoopAssumption DEF LoopInv
  <1> DEFINE due == {o \in DOMAIN queue : queue[o] = 0}
  <1>1. SlotCount' /\ ClosedStaysClosed'
    BY DEF SlotCount, ClosedStaysClosed, CacheKeys, Current
  <1>2. CASE shutdownEvent
    <2>1. UNCHANGED <<queue, activeKeys, waiting, refreshEvent>>
          /\ loop' \in {"stopped", "draining"} /\ reconcileIn' = r
      BY <1>2 DEF Iterate
    <2>2. TypeOK' /\ KeysAreTasks' /\ ActiveNotQueued' /\ NoFutureGeneration'
          /\ TimersOfLastGeneration'
      BY <2>1 DEF TypeOK, LoopStates, KeysAreTasks, ActiveNotQueued, NoFutureGeneration,
                  TimersOfLastGeneration
    <2>3. RequestPending'
      BY <2>1 DEF RequestPending, NoLostWakeup, Dispatching
    <2> QED BY <1>1, <2>2, <2>3
  <1>3. CASE ~shutdownEvent
    <2>1. /\ queue' = [o \in DOMAIN queue \ due |-> queue[o]]
          /\ activeKeys' = activeKeys \cup due
          /\ waiting' = waiting \cup (due \ activeKeys)
          /\ loop' = IF refreshEvent \/ r = 0 THEN "reading" ELSE "waiting"
          /\ refreshEvent' = FALSE
          /\ reconcileIn' = r
      BY <1>3 DEF Iterate
    <2>2. due \subseteq DOMAIN queue /\ DOMAIN queue \subseteq Occurrences
      BY DEF TypeOK
    <2>3. due \cap activeKeys = {}
      BY DEF ActiveNotQueued
    <2>4. \A o \in due : queue[o] = 0
      OBVIOUS
    <2> HIDE DEF due
    <2>5. DOMAIN queue' = DOMAIN queue \ due /\ \A o \in DOMAIN queue' : queue'[o] = queue[o]
      BY <2>1
    <2>6. TypeOK'
      BY <2>1, <2>2, <2>5 DEF TypeOK, LoopStates
    <2>7. KeysAreTasks'
      BY <2>1, <2>2, <2>3 DEF KeysAreTasks
    <2>8. ActiveNotQueued'
      BY <2>1, <2>5 DEF ActiveNotQueued
    <2>9. NoFutureGeneration'
      BY <2>1, <2>2, <2>5 DEF NoFutureGeneration
    <2>10. TimersOfLastGeneration'
      <3> SUFFICES ASSUME NEW o \in Occurrences, gen[o[1]] = o[2]
                   PROVE  /\ o \in DOMAIN queue' => queue'[o] >= dueIn[o[1]]
                          /\ o \in DOMAIN snap => snap[o] >= dueIn[o[1]]
                          /\ o \in activeKeys' => dueIn[o[1]] = 0
        BY DEF TimersOfLastGeneration
      <3>1. o \in due => dueIn[o[1]] = 0
        BY <2>2, <2>4, OccurrenceType DEF TimersOfLastGeneration, TypeOK
      <3> QED BY <2>1, <2>5, <3>1 DEF TimersOfLastGeneration
    <2>11. RequestPending'
      BY <2>1 DEF RequestPending, NoLostWakeup, Dispatching
    <2> QED BY <1>1, <2>6, <2>7, <2>8, <2>9, <2>10, <2>11
  <1> QED BY <1>2, <1>3

LEMMA LoopStepInv ==
    ASSUME LoopInv, FetchRaised \/ CountReturn \/ Wake
    PROVE  LoopInv'
  <1> USE LoopAssumption DEF database
  <1>1. Reconcile \in 0 .. Reconcile /\ reconcileIn \in 0 .. Reconcile /\ refreshOk \in BOOLEAN
    BY DEF LoopInv, TypeOK
  <1>2. CASE FetchRaised
    BY <1>1, <1>2, IterateInv DEF FetchRaised
  <1>3. CASE CountReturn
    BY <1>1, <1>3, IterateInv DEF CountReturn
  <1>4. CASE Wake
    BY <1>1, <1>4, IterateInv DEF Wake
  <1> QED BY <1>2, <1>3, <1>4

LEMMA RequestInv ==
    ASSUME LoopInv, RequestRefresh \/ RequestShutdown
    PROVE  LoopInv'
  <1> USE DEF LoopInv, RequestRefresh, RequestShutdown, database, tasks
  <1>1. TypeOK'
    BY DEF TypeOK
  <1>2. KeysAreTasks' /\ SlotCount' /\ ActiveNotQueued'
    BY DEF KeysAreTasks, SlotCount, ActiveNotQueued
  <1>3. NoFutureGeneration' /\ ClosedStaysClosed' /\ TimersOfLastGeneration'
    BY DEF NoFutureGeneration, ClosedStaysClosed, TimersOfLastGeneration, CacheKeys, Current
  <1>4. RequestPending'
    BY DEF RequestPending, NoLostWakeup, Dispatching
  <1> QED BY <1>1, <1>2, <1>3, <1>4

-----------------------------------------------------------------------------
(***************************************************************************)
(* The tasks.                                                              *)
(***************************************************************************)
LEMMA AcquireInv ==
    ASSUME LoopInv, NEW o \in Occurrences, Acquire(o)
    PROVE  LoopInv'
  <1> USE LoopAssumption DEF LoopInv, database
  <1>0. o \in waiting /\ o \in activeKeys /\ o \notin running /\ thread[o] = "none"
    BY DEF Acquire, KeysAreTasks, TypeOK
  <1>1. /\ UNCHANGED <<gen, open, dueIn, closed, loop, snap, queue, reconcileIn, refreshOk,
                       shutdownEvent, cache, orphans, known, unread>>
        /\ FreeSlot
        /\ waiting' = waiting \ {o}
    BY DEF Acquire
  <1>2. CASE Refused(o)
    <2>1. activeKeys' = activeKeys \ {o} /\ refreshEvent' = TRUE /\ UNCHANGED <<running, thread>>
      BY <1>2 DEF Acquire, EndTask, KeysWithout
    <2>2. TypeOK' /\ KeysAreTasks' /\ SlotCount' /\ ActiveNotQueued'
      BY <1>0, <1>1, <2>1 DEF TypeOK, KeysAreTasks, SlotCount, ActiveNotQueued
    <2>3. NoFutureGeneration' /\ ClosedStaysClosed' /\ TimersOfLastGeneration'
      BY <1>1, <2>1 DEF NoFutureGeneration, ClosedStaysClosed, TimersOfLastGeneration,
                        CacheKeys, Current
    <2>4. RequestPending'
      BY <1>1, <2>1 DEF RequestPending, NoLostWakeup, Dispatching
    <2> QED BY <2>2, <2>3, <2>4
  <1>3. CASE ~Refused(o)
    <2>1. /\ running' = running \cup {o}
          /\ thread' = [thread EXCEPT ![o] = "calling"]
          /\ UNCHANGED <<activeKeys, refreshEvent>>
      BY <1>3 DEF Acquire
    <2>2. /\ thread' \in [Occurrences -> {"none", "calling", "handled", "notHandled"}]
          /\ thread'[o] = "calling"
          /\ \A k \in Occurrences \ {o} : thread'[k] = thread[k]
      BY <2>1 DEF TypeOK
    <2>3. TypeOK' /\ KeysAreTasks' /\ ActiveNotQueued'
      BY <1>0, <1>1, <2>1, <2>2 DEF TypeOK, KeysAreTasks, ActiveNotQueued
    <2>4. SlotCount'
      <3>1. IsFiniteSet(running') /\ Cardinality(running') = Cardinality(running) + 1
        BY <1>0, <2>1, FS_AddElement DEF SlotCount
      <3>2. Cardinality(running) \in Nat /\ Cardinality(running) < Slots
        BY <1>1, FS_CardinalityType DEF SlotCount, FreeSlot
      <3> QED BY <3>1, <3>2 DEF SlotCount
    <2>5. ClosedStaysClosed'
      BY <1>1, <2>2 DEF ClosedStaysClosed, CacheKeys, Current
    <2>6. NoFutureGeneration' /\ TimersOfLastGeneration'
      BY <1>1, <2>1 DEF NoFutureGeneration, TimersOfLastGeneration
    <2>7. RequestPending'
      BY <1>1, <2>1 DEF RequestPending, NoLostWakeup, Dispatching
    <2> QED BY <2>3, <2>4, <2>5, <2>6, <2>7
  <1> QED BY <1>2, <1>3

LEMMA ThreadFailsInv ==
    ASSUME LoopInv, NEW o \in Occurrences, ThreadFails(o)
    PROVE  LoopInv'
  <1> USE DEF LoopInv, ThreadFails, database
  <1>1. /\ thread' \in [Occurrences -> {"none", "calling", "handled", "notHandled"}]
        /\ \A k \in Occurrences : /\ thread'[k] = "none" <=> thread[k] = "none"
                                  /\ thread'[k] = "handled" => thread[k] = "handled"
    BY DEF TypeOK
  <1>2. TypeOK' /\ KeysAreTasks' /\ SlotCount' /\ ActiveNotQueued'
    BY <1>1 DEF TypeOK, KeysAreTasks, SlotCount, ActiveNotQueued
  <1>3. NoFutureGeneration' /\ ClosedStaysClosed' /\ TimersOfLastGeneration'
    BY <1>1 DEF NoFutureGeneration, ClosedStaysClosed, TimersOfLastGeneration, CacheKeys,
                Current
  <1>4. RequestPending'
    BY DEF RequestPending, NoLostWakeup, Dispatching
  <1> QED BY <1>2, <1>3, <1>4

\* The result of a thread: the breaker learns what was transitioned only.
LEMMA ResumeInv ==
    ASSUME LoopInv, NEW o \in Occurrences, TaskResume(o)
    PROVE  LoopInv'
  <1> USE LoopAssumption DEF LoopInv, database
  <1>1. /\ UNCHANGED <<gen, open, dueIn, closed, loop, snap, queue, reconcileIn, refreshOk,
                       shutdownEvent, waiting, orphans, unread>>
        /\ o \in running
        /\ running' = running \ {o}
        /\ thread' = [thread EXCEPT ![o] = "none"]
        /\ activeKeys' = activeKeys \ {o}
        /\ refreshEvent' = TRUE
        /\ cache' = IF thread[o] = "handled" THEN Add(cache, o) ELSE cache
        /\ known' \subseteq known \cup {o}
    BY DEF TaskResume, EndTask, KeysWithout, CacheResult
  <1>2. /\ thread' \in [Occurrences -> {"none", "calling", "handled", "notHandled"}]
        /\ thread'[o] = "none"
        /\ \A k \in Occurrences \ {o} : thread'[k] = thread[k]
    BY <1>1 DEF TypeOK
  <1>3. cache' \in Seq(Occurrences) /\ Len(cache') <= MaxEntries
    BY <1>1, AddEntries DEF TypeOK
  <1>4. ASSUME NEW i \in DOMAIN cache'
        PROVE  cache'[i] \in CacheKeys \/ (thread[o] = "handled" /\ cache'[i] = o)
    BY <1>1, AddEntries DEF TypeOK, CacheKeys
  <1>5. TypeOK'
    BY <1>1, <1>2, <1>3 DEF TypeOK
  <1>6. KeysAreTasks' /\ ActiveNotQueued'
    BY <1>1, <1>2 DEF KeysAreTasks, ActiveNotQueued
  <1>7. SlotCount'
    <2>1. IsFiniteSet(running') /\ Cardinality(running') = Cardinality(running) - 1
      BY <1>1, FS_RemoveElement DEF SlotCount
    <2>2. Cardinality(running) \in Nat /\ Cardinality(running) <= Slots
      BY FS_CardinalityType DEF SlotCount
    <2> QED BY <2>1, <2>2 DEF SlotCount
  <1>8. ClosedStaysClosed'
    <2>1. CacheKeys' \subseteq closed'
      BY <1>1, <1>4 DEF CacheKeys, ClosedStaysClosed
    <2> QED BY <1>1, <1>2, <2>1 DEF ClosedStaysClosed, Current
  <1>9. NoFutureGeneration' /\ TimersOfLastGeneration'
    BY <1>1 DEF NoFutureGeneration, TimersOfLastGeneration
  <1>10. RequestPending'
    BY <1>1 DEF RequestPending, NoLostWakeup, Dispatching
  <1> QED BY <1>5, <1>6, <1>7, <1>8, <1>9, <1>10

-----------------------------------------------------------------------------
(***************************************************************************)
(* Expiry, shutdown, exit and restart.                                     *)
(***************************************************************************)
LEMMA ExpireInv ==
    ASSUME LoopInv, Expire
    PROVE  LoopInv'
  <1> USE LoopAssumption DEF LoopInv, Expire, database, tasks
  <1>1. /\ cache' \in Seq(Occurrences) /\ Len(cache') <= MaxEntries
        /\ \A i \in DOMAIN cache' : i + 1 \in DOMAIN cache /\ cache'[i] = cache[i + 1]
    BY DEF TypeOK
  <1>2. CacheKeys' \subseteq CacheKeys
    BY <1>1 DEF CacheKeys
  <1>3. TypeOK' /\ KeysAreTasks' /\ SlotCount' /\ ActiveNotQueued'
    BY <1>1 DEF TypeOK, KeysAreTasks, SlotCount, ActiveNotQueued
  <1>4. NoFutureGeneration' /\ ClosedStaysClosed' /\ TimersOfLastGeneration'
    BY <1>2 DEF NoFutureGeneration, ClosedStaysClosed, TimersOfLastGeneration, Current
  <1>5. RequestPending'
    BY DEF RequestPending, NoLostWakeup, Dispatching
  <1> QED BY <1>3, <1>4, <1>5

LEMMA StartOrDrainInv ==
    ASSUME LoopInv, DrainDone \/ Start
    PROVE  LoopInv'
  <1> USE DEF LoopInv, DrainDone, Start, database, tasks
  <1>1. TypeOK' /\ KeysAreTasks' /\ SlotCount' /\ ActiveNotQueued'
    BY DEF TypeOK, LoopStates, KeysAreTasks, SlotCount, ActiveNotQueued
  <1>2. NoFutureGeneration' /\ ClosedStaysClosed' /\ TimersOfLastGeneration'
    BY DEF NoFutureGeneration, ClosedStaysClosed, TimersOfLastGeneration, CacheKeys, Current
  <1>3. RequestPending'
    BY DEF RequestPending, NoLostWakeup, Dispatching
  <1> QED BY <1>1, <1>2, <1>3

\* The tasks are cancelled, or the whole process is gone.
LEMMA EndInv ==
    ASSUME LoopInv, DrainTimeout \/ ProcessEnds
    PROVE  LoopInv'
  <1> USE LoopAssumption DEF LoopInv, database
  <1>1. /\ UNCHANGED <<gen, open, dueIn, closed>>
        /\ activeKeys' = {} /\ waiting' = {} /\ running' = {}
        /\ thread' = [k \in Occurrences |-> "none"]
        /\ orphans' \subseteq orphans \cup running
    BY DEF DrainTimeout, ProcessEnds, ForgetProcess, Calling
  <1>2. CASE DrainTimeout
    <2>1. UNCHANGED <<snap, queue, reconcileIn, refreshOk, shutdownEvent, cache, known, unread>>
          /\ loop' = "stopped" /\ refreshEvent' = TRUE
      BY <1>2 DEF DrainTimeout
    <2>2. TypeOK'
      BY <1>1, <2>1 DEF TypeOK, LoopStates
    <2>3. KeysAreTasks' /\ ActiveNotQueued'
      BY <1>1 DEF KeysAreTasks, ActiveNotQueued
    <2>4. SlotCount'
      BY <1>1, FS_EmptySet DEF SlotCount
    <2>5. NoFutureGeneration' /\ ClosedStaysClosed' /\ TimersOfLastGeneration'
      BY <1>1, <2>1 DEF NoFutureGeneration, ClosedStaysClosed, TimersOfLastGeneration,
                        CacheKeys, Current
    <2>6. RequestPending'
      BY <2>1 DEF RequestPending, NoLostWakeup, Dispatching
    <2> QED BY <2>2, <2>3, <2>4, <2>5, <2>6
  <1>3. CASE ProcessEnds
    <2>1. /\ DOMAIN snap' = {} /\ DOMAIN queue' = {} /\ cache' = << >> /\ known' = {}
          /\ reconcileIn' = Reconcile /\ refreshOk' = TRUE /\ refreshEvent' = FALSE
          /\ shutdownEvent' = FALSE /\ unread' = FALSE /\ loop' = "down"
      BY <1>3 DEF ProcessEnds, ForgetProcess, NoRows
    <2>2. cache' \in Seq(Occurrences) /\ Len(cache') <= MaxEntries /\ CacheKeys' = {}
      BY <2>1 DEF CacheKeys
    <2>3. TypeOK'
      <3>1. orphans' \subseteq Occurrences
        BY <1>1 DEF TypeOK
      <3>2. thread' \in [Occurrences -> {"none", "calling", "handled", "notHandled"}]
        BY <1>1
      <3>3. (gen \in [Jobs -> 0 .. MaxGen] /\ open \in [Jobs -> BOOLEAN]
             /\ dueIn \in [Jobs -> 0 .. Horizon] /\ closed \subseteq Occurrences)'
        BY <1>1 DEF TypeOK
      <3>4. (reconcileIn \in 0 .. Reconcile /\ refreshOk \in BOOLEAN
             /\ refreshEvent \in BOOLEAN /\ shutdownEvent \in BOOLEAN
             /\ unread \in BOOLEAN /\ loop \in LoopStates)'
        <4>1. reconcileIn' \in 0 .. Reconcile
          BY <2>1
        <4>2. loop' \in LoopStates
          BY <2>1 DEF LoopStates
        <4> QED BY <2>1, <4>1, <4>2, Zenon
      <3>5. (/\ DOMAIN snap \subseteq Occurrences
             /\ \A o \in DOMAIN snap : snap[o] \in 0 .. Horizon
             /\ DOMAIN queue \subseteq Occurrences
             /\ \A o \in DOMAIN queue : queue[o] \in 0 .. Horizon)'
        BY <2>1, Zenon
      <3>6. (/\ activeKeys \subseteq Occurrences /\ waiting \subseteq Occurrences
             /\ running \subseteq Occurrences /\ known \subseteq Occurrences)'
        BY <1>1, <2>1
      <3> QED BY <2>2, <3>1, <3>2, <3>3, <3>4, <3>5, <3>6, Zenon DEF TypeOK
    <2>4. KeysAreTasks' /\ ActiveNotQueued'
      BY <1>1, <2>1 DEF KeysAreTasks, ActiveNotQueued
    <2>5. SlotCount'
      BY <1>1, FS_EmptySet DEF SlotCount
    <2>6. NoFutureGeneration' /\ ClosedStaysClosed' /\ TimersOfLastGeneration'
      BY <1>1, <2>1, <2>2 DEF NoFutureGeneration, ClosedStaysClosed, TimersOfLastGeneration,
                              Current
    <2>7. RequestPending'
      BY <2>1 DEF RequestPending, NoLostWakeup, Dispatching
    <2> QED BY <2>3, <2>4, <2>5, <2>6, <2>7
  <1> QED BY <1>2, <1>3

LEMMA OrphanFailsInv ==
    ASSUME LoopInv, NEW o \in Occurrences, OrphanFails(o)
    PROVE  LoopInv'
  <1> USE DEF LoopInv, OrphanFails, database, tasks
  <1>1. TypeOK' /\ KeysAreTasks' /\ SlotCount' /\ ActiveNotQueued'
    BY DEF TypeOK, KeysAreTasks, SlotCount, ActiveNotQueued
  <1>2. NoFutureGeneration' /\ ClosedStaysClosed' /\ TimersOfLastGeneration'
    BY DEF NoFutureGeneration, ClosedStaysClosed, TimersOfLastGeneration, CacheKeys, Current
  <1>3. RequestPending'
    BY DEF RequestPending, NoLostWakeup, Dispatching
  <1> QED BY <1>1, <1>2, <1>3

LEMMA StutterInv ==
    ASSUME LoopInv, UNCHANGED vars
    PROVE  LoopInv'
  <1> USE DEF LoopInv, vars
  <1>1. TypeOK' /\ KeysAreTasks' /\ SlotCount' /\ ActiveNotQueued'
    BY DEF TypeOK, KeysAreTasks, SlotCount, ActiveNotQueued
  <1>2. NoFutureGeneration' /\ ClosedStaysClosed' /\ TimersOfLastGeneration'
    BY DEF NoFutureGeneration, ClosedStaysClosed, TimersOfLastGeneration, CacheKeys, Current
  <1>3. RequestPending'
    BY DEF RequestPending, NoLostWakeup, Dispatching
  <1> QED BY <1>1, <1>2, <1>3

-----------------------------------------------------------------------------
(***************************************************************************)
(* The theorems.                                                           *)
(***************************************************************************)
\* The invariant holds in every reachable state, with fairness or without.
THEOREM LoopInvariant == Spec => []LoopInv
<1>1. Init => LoopInv
  BY InitInv
<1>2. LoopInv /\ [Next]_vars => LoopInv'
  <2> SUFFICES ASSUME LoopInv, [Next]_vars
               PROVE  LoopInv'
    OBVIOUS
  <2>1. CASE Tick
    BY <2>1, TickInv
  <2>2. ASSUME NEW j \in Jobs, EditJob(j) PROVE LoopInv'
    BY <2>2, EditInv
  <2>3. CASE FetchRead \/ FetchFail \/ FetchReturn
    BY <2>3, FetchInv
  <2>4. CASE FetchRaised \/ CountReturn \/ Wake
    BY <2>4, LoopStepInv
  <2>5. CASE RequestRefresh \/ RequestShutdown
    BY <2>5, RequestInv
  <2>6. ASSUME NEW o \in Occurrences,
               \/ Acquire(o) \/ ThreadRuns(o) \/ ThreadFails(o) \/ TaskResume(o)
               \/ OrphanRuns(o) \/ OrphanFails(o)
        PROVE  LoopInv'
    BY <2>6, AcquireInv, ThreadRunsInv, ThreadFailsInv, ResumeInv, OrphanRunsInv,
       OrphanFailsInv
  <2>7. CASE Expire
    BY <2>7, ExpireInv
  <2>8. CASE DrainDone \/ Start
    BY <2>8, StartOrDrainInv
  <2>9. CASE DrainTimeout \/ ProcessEnds
    BY <2>9, EndInv
  <2>10. CASE UNCHANGED vars
    BY <2>10, StutterInv
  <2> QED BY <2>1, <2>2, <2>3, <2>4, <2>5, <2>6, <2>7, <2>8, <2>9, <2>10 DEF Next
<1>3. QED
  BY <1>1, <1>2, PTL DEF Spec

\* Every variable keeps its type: the countdowns stay within their bounds and
\* the breaker within its capacity (SchedulerLoop.TypeOK).
THEOREM LoopTypeCorrect == Spec => []TypeOK
<1>1. LoopInv => TypeOK
  BY DEF LoopInv
<1>2. QED
  BY <1>1, LoopInvariant, PTL

\* The semaphore bounds the executions of this process (_run_job_with_slot),
\* for any number of slots and due occurrences.
THEOREM SlotsNeverExceeded == Spec => []SlotsRespected
<1>1. LoopInv => SlotsRespected
  <2> SUFFICES ASSUME LoopInv PROVE SlotsRespected
    OBVIOUS
  <2>1. {o \in Occurrences : thread[o] # "none"} = running
    BY DEF LoopInv, KeysAreTasks, TypeOK
  <2> QED BY <2>1 DEF LoopInv, SlotCount, SlotsRespected
<1>2. QED
  BY <1>1, LoopInvariant, PTL

\* Each active key has exactly one task (_active_keys): no key is leaked by a
\* refusal, a failure, a shutdown or a drain that times out.
THEOREM KeysNeverLeak == Spec => []KeysAreTasks
<1>1. LoopInv => KeysAreTasks
  BY DEF LoopInv
<1>2. QED
  BY <1>1, LoopInvariant, PTL

\* refresh_queue never queues an occurrence that has a task.
THEOREM ActiveNeverQueued == Spec => []ActiveNotQueued
<1>1. LoopInv => ActiveNotQueued
  BY DEF LoopInv
<1>2. QED
  BY <1>1, LoopInvariant, PTL

\* The rapid-loop breaker withholds transitioned occurrences only, whatever
\* its capacity and however late a result arrives.
THEOREM BreakerIsHarmless == Spec => []BreakerHidesNothingOpen
<1>1. LoopInv => BreakerHidesNothingOpen
  BY DEF LoopInv, ClosedStaysClosed, BreakerHidesNothingOpen
<1>2. QED
  BY <1>1, LoopInvariant, PTL

\* No timer fires before the next run time of the open occurrence, whatever
\* edits and late refreshes do.
THEOREM TimersNeverEarly == Spec => []TimersNotEarly
<1>1. LoopInv => TimersNotEarly
  BY DEF LoopInv, TimersOfLastGeneration, TimersNotEarly, Current
<1>2. QED
  BY <1>1, LoopInvariant, PTL

\* A refresh request is never lost between the reads of refresh_queue.
THEOREM WakeupsNeverLost == Spec => []NoLostWakeup
<1>1. LoopInv => NoLostWakeup
  BY DEF LoopInv, RequestPending
<1>2. QED
  BY <1>1, LoopInvariant, PTL

\* After the shutdown signal no task starts its thread.
THEOREM ShutdownStartsNothing == Spec => NoStartAfterShutdown
<1>1. TypeOK /\ [Next]_vars =>
        \A o \in Occurrences : shutdownEvent /\ thread[o] = "none" => thread'[o] = "none"
  <2> SUFFICES ASSUME TypeOK, [Next]_vars, NEW o \in Occurrences, shutdownEvent,
                      thread[o] = "none"
               PROVE  thread'[o] = "none"
    OBVIOUS
  <2>1. CASE UNCHANGED thread
    BY <2>1
  <2>2. ASSUME NEW k \in Occurrences, Acquire(k) PROVE thread'[o] = "none"
    BY <2>2 DEF Acquire, Refused
  <2>3. ASSUME NEW k \in Occurrences, ThreadRuns(k) \/ ThreadFails(k) \/ TaskResume(k)
        PROVE  thread'[o] = "none"
    BY <2>3 DEF ThreadRuns, ThreadFails, TaskResume, TypeOK
  <2>4. CASE DrainTimeout \/ ProcessEnds
    BY <2>4 DEF DrainTimeout, ProcessEnds, ForgetProcess
  <2>5. QED
    BY <2>1, <2>2, <2>3, <2>4 DEF Next, vars, tasks, Tick, EditJob, FetchRead, FetchFail,
       FetchReturn, FetchRaised, CountReturn, Wake, RequestRefresh, RequestShutdown,
       OrphanRuns, OrphanFails, Expire, DrainDone, Start
<1>2. Spec => [][\A o \in Occurrences :
             shutdownEvent /\ thread[o] = "none" => thread'[o] = "none"]_vars
  BY <1>1, LoopTypeCorrect, PTL DEF Spec
<1>3. QED
  BY <1>2 DEF NoStartAfterShutdown

-----------------------------------------------------------------------------
(***************************************************************************)
(* The rapid-loop breaker does its work as long as it has room: the oldest *)
(* entry it would have to drop may be one the rows in flight still name.   *)
(***************************************************************************)
Room == Len(cache) < MaxEntries

\* The rows in flight name no handled occurrence the breaker does not know.
BreakerKnows ==
    /\ NoResubmission
    /\ known \subseteq closed
    /\ known \cap DOMAIN snap \subseteq CacheKeys
    /\ loop # "read" => DOMAIN snap = {}

\* With room, an entry added to the breaker drops no other.
LEMMA AddKeeps ==
    ASSUME NEW c \in Seq(Occurrences), Len(c) < MaxEntries, NEW o \in Occurrences
    PROVE  /\ \E i \in DOMAIN Add(c, o) : Add(c, o)[i] = o
           /\ \A k \in DOMAIN c : \E i \in DOMAIN Add(c, o) : Add(c, o)[i] = c[k]
  <1> DEFINE w == Without(c, o)
  <1>1. w \in Seq(Occurrences) /\ Len(w) <= Len(c)
    BY WithoutEntries
  <1>2. Add(c, o) = Append(w, o)
    BY <1>1, LoopAssumption DEF Add
  <1>3. \A k \in DOMAIN c : c[k] = o \/ \E i \in DOMAIN w : w[i] = c[k]
    <2>1. CASE ~\E i \in DOMAIN c : c[i] = o
      BY <2>1 DEF Without
    <2>2. CASE \E i \in DOMAIN c : c[i] = o
      <3> DEFINE n == CHOOSE i \in DOMAIN c : c[i] = o
                 a == SubSeq(c, 1, n - 1)
                 b == SubSeq(c, n + 1, Len(c))
      <3>0. n \in DOMAIN c /\ c[n] = o
        BY <2>2
      <3>1. w = a \o b
        BY <2>2, Zenon DEF Without
      <3>2. n \in 1 .. Len(c)
        BY <3>0
      <3> HIDE DEF n, w
      <3>3. a \in Seq(Occurrences) /\ Len(a) = n - 1 /\ \A i \in 1 .. n - 1 : a[i] = c[i]
        BY <3>2
      <3>4. b \in Seq(Occurrences) /\ Len(b) = Len(c) - n
            /\ \A i \in 1 .. Len(c) - n : b[i] = c[n + i]
        BY <3>2
      <3> HIDE DEF a, b
      <3>5. ASSUME NEW k \in DOMAIN c, c[k] # o
            PROVE  \E i \in DOMAIN w : w[i] = c[k]
        <4>1. k \in 1 .. Len(c) /\ k # n
          BY <3>0, <3>5
        <4>2. CASE k < n
          <5>1. k \in DOMAIN w /\ w[k] = c[k]
            BY <4>1, <4>2, <3>1, <3>2, <3>3, <3>4
          <5> QED BY <5>1
        <4>3. CASE k > n
          <5>1. k - 1 \in DOMAIN w /\ w[k - 1] = b[k - n]
            BY <4>1, <4>3, <3>1, <3>2, <3>3, <3>4
          <5>2. k - n \in 1 .. Len(c) - n /\ n + (k - n) = k
            BY <4>1, <4>3, <3>2
          <5> QED BY <5>1, <5>2, <3>4
        <4> QED BY <4>1, <4>2, <4>3, <3>2
      <3> QED BY <3>5
    <2> QED BY <2>1, <2>2
  <1> HIDE DEF w
  <1>4. /\ Len(w) + 1 \in DOMAIN Append(w, o) /\ Append(w, o)[Len(w) + 1] = o
        /\ \A i \in DOMAIN w : i \in DOMAIN Append(w, o) /\ Append(w, o)[i] = w[i]
    BY <1>1
  <1> QED BY <1>2, <1>3, <1>4

LEMMA BreakerStep ==
    ASSUME LoopInv, BreakerKnows, Room, [Next]_vars
    PROVE  BreakerKnows'
  <1> USE LoopAssumption DEF BreakerKnows, NoResubmission, database, tasks
  <1>1. CASE UNCHANGED <<closed, known, cache>> /\ loop' # "read" /\ loop # "read"
             /\ DOMAIN snap' \subseteq DOMAIN snap
             /\ activeKeys' \cup DOMAIN queue' \subseteq activeKeys \cup DOMAIN queue
    BY <1>1 DEF CacheKeys
  <1>2. CASE closed \subseteq closed' /\ UNCHANGED <<known, cache, loop, snap>>
             /\ activeKeys' \cup DOMAIN queue' \subseteq activeKeys \cup DOMAIN queue
    BY <1>2 DEF CacheKeys
  <1>3. CASE Tick
    <2>1. DOMAIN queue' = DOMAIN queue
      BY <1>3 DEF Tick
    <2> QED BY <1>2, <1>3, <2>1 DEF Tick
  <1>4. ASSUME NEW j \in Jobs, EditJob(j) PROVE BreakerKnows'
    BY <1>4, <1>2 DEF EditJob
  <1>5. CASE FetchRead
    <2>1. \A o \in DOMAIN snap' : Current(o)
      BY <1>5 DEF FetchRead
    <2>2. known \cap DOMAIN snap' = {}
      BY <2>1 DEF LoopInv, ClosedStaysClosed
    <2> QED BY <1>5, <2>2 DEF FetchRead
  <1>6. CASE FetchFail
    BY <1>6, <1>1 DEF FetchFail
  <1>7. CASE FetchReturn
    <2>1. DOMAIN queue' = DOMAIN snap \ (activeKeys \cup CacheKeys) /\ DOMAIN snap' = {}
      BY <1>7 DEF FetchReturn, Filtered, NoRows
    <2> QED BY <1>7, <2>1 DEF FetchReturn
  <1>8. CASE FetchRaised \/ CountReturn \/ Wake
    <2>1. /\ UNCHANGED <<closed, known, cache, snap>> /\ loop # "read"
          /\ \E r \in 0 .. Reconcile : Iterate(r)
      BY <1>8 DEF FetchRaised, CountReturn, Wake, LoopInv, TypeOK
    <2>2. PICK r \in 0 .. Reconcile : Iterate(r)
      BY <2>1
    <2>3. loop' # "read" /\ activeKeys' \cup DOMAIN queue' \subseteq activeKeys \cup DOMAIN queue
      <3>1. CASE shutdownEvent
        BY <2>2, <3>1 DEF Iterate
      <3>2. CASE ~shutdownEvent
        BY <2>2, <3>2 DEF Iterate
      <3> QED BY <3>1, <3>2
    <2> QED BY <1>1, <2>1, <2>3
  <1>9. CASE RequestRefresh \/ RequestShutdown
    BY <1>9, <1>2 DEF RequestRefresh, RequestShutdown
  <1>10. ASSUME NEW o \in Occurrences, Acquire(o) PROVE BreakerKnows'
    BY <1>10, <1>2 DEF Acquire, EndTask, KeysWithout
  <1>11. ASSUME NEW o \in Occurrences,
                ThreadRuns(o) \/ ThreadFails(o) \/ OrphanRuns(o) \/ OrphanFails(o)
         PROVE  BreakerKnows'
    BY <1>11, <1>2 DEF ThreadRuns, ThreadFails, OrphanRuns, OrphanFails, Transition
  <1>12. ASSUME NEW o \in Occurrences, TaskResume(o) PROVE BreakerKnows'
    <2>1. /\ UNCHANGED <<closed, loop, snap, queue>>
          /\ activeKeys' = activeKeys \ {o}
          /\ o \in activeKeys
      BY <1>12 DEF TaskResume, EndTask, KeysWithout, LoopInv, KeysAreTasks
    <2>2. CASE thread[o] = "handled"
      <3>1. known' = known \cup {o} /\ cache' = Add(cache, o) /\ cache \in Seq(Occurrences)
        BY <1>12, <2>2 DEF TaskResume, CacheResult, LoopInv, TypeOK
      <3>2. CacheKeys \cup {o} \subseteq CacheKeys'
        BY <3>1, AddKeeps DEF Room, CacheKeys
      <3>3. o \in closed /\ o \notin DOMAIN queue
        BY <2>1, <2>2 DEF LoopInv, ClosedStaysClosed, ActiveNotQueued
      <3> QED BY <2>1, <3>1, <3>2, <3>3
    <2>3. CASE thread[o] # "handled"
      <3>1. UNCHANGED <<known, cache>>
        BY <1>12, <2>3 DEF TaskResume, CacheResult
      <3> QED BY <1>2, <2>1, <3>1
    <2> QED BY <2>2, <2>3
  <1>13. CASE Expire
    BY <1>13 DEF Expire
  <1>14. CASE DrainDone
    BY <1>1, <1>14 DEF DrainDone
  <1>15. CASE Start
    BY <1>1, <1>15 DEF Start
  <1>16. CASE DrainTimeout
    BY <1>1, <1>16 DEF DrainTimeout
  <1>17. CASE ProcessEnds
    <2>1. DOMAIN snap' = {} /\ known' = {}
      BY <1>17 DEF ProcessEnds, ForgetProcess, NoRows
    <2> QED BY <2>1
  <1>18. CASE UNCHANGED vars
    BY <1>18, <1>2 DEF vars
  <1> QED BY <1>3, <1>4, <1>5, <1>6, <1>7, <1>8, <1>9, <1>10, <1>11, <1>12, <1>13, <1>14,
             <1>15, <1>16, <1>17, <1>18 DEF Next

\* Once the process has been told that an occurrence was transitioned it never
\* queues or executes it again (refresh_queue, _run_job_with_slot), as long as
\* the breaker has room for one entry more.
THEOREM ResubmissionOnlyWhenFull == Spec /\ []Room => []NoResubmission
<1>1. Init => BreakerKnows
  BY DEF Init, FreshProcess, BreakerKnows, NoResubmission, NoRows
<1>2. LoopInv /\ BreakerKnows /\ Room /\ [Next]_vars => BreakerKnows'
  BY BreakerStep
<1>3. BreakerKnows => NoResubmission
  BY DEF BreakerKnows
<1>4. QED
  BY <1>1, <1>2, <1>3, LoopInvariant, PTL DEF Spec
=============================================================================
