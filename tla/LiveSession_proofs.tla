------------------------ MODULE LiveSession_proofs ------------------------
(***************************************************************************)
(* Proofs about the session of the live overlay, for any number of         *)
(* sessions, variants, retries and faults.                                 *)
(***************************************************************************)
EXTENDS LiveSession, TLAPS

Looks == {Absent, Carbonized, Clean} \cup 0 .. Count

States == {"UNLOADED", "IDLE", "PICKING", "CONFIGURING", "GENERATING", "CYCLING", "SAVING"}

Phases == {"new", "announced", "requested", "generated", "failed", "accepting", "accepted",
           "discarding", "discarded"}

Held == Sessions \cup {None}

TimerTypes ==
    [kind : Recovery \cup {"capture", "read", "retryEmpty", "retryDone", "retryOrphan"},
     id : Sessions, fresh : BOOLEAN, n : 0 .. Retries]

ReadTypes == [id : Sessions, done : BOOLEAN, orphan : BOOLEAN, n : 0 .. Retries]

PostTypes ==
    [kind : {"generate", "accept", "discard", "orphan", "checkpoint"}, id : Sessions,
     step : {"gated", "sent", "ok", "failed"}]

Saves == [id : Sessions, state : States, arrived : 0 .. Count, file : BOOLEAN]

Pages ==
    [state : States, session : Held, arrived : 0 .. Count, file : BOOLEAN, pending : Held,
     awaiting : Held, observed : Held, anchor : Held, scout : SUBSET [fresh : BOOLEAN],
     watched : SUBSET [id : Sessions, fresh : BOOLEAN], queued : BOOLEAN,
     timers : SUBSET TimerTypes, reads : SUBSET ReadTypes, posts : SUBSET PostTypes,
     saved : {NoSave} \cup Saves, handled : SUBSET Sessions, attempts : [Sessions -> 0 .. 2]]

\* What a tab remembers of sessions is of ones that were begun.
Begun(t, sv) ==
    \A s \in Sessions : s \in t.handled \/ s = t.session \/ s = t.saved.id => sv[s] # "new"

\* While a configuration is open, no recovery is put off that has not been superseded.
Superseded(t, c) ==
    t.state = "CONFIGURING" => /\ c
                               /\ \A x \in t.timers : x.kind \in Revised => ~x.fresh
                               /\ \A w \in t.watched : ~w.fresh
                               /\ \A x \in t.scout : ~x.fresh

\* The tab t is in order while the sessions are as sv says; c: a configuration may be open.
\* That the current session is not one the tab has handled is what all the rest is for.
Sane(t, sv, c) ==
    /\ t \in Pages
    /\ t.state # "UNLOADED"
    /\ Begun(t, sv)
    /\ Superseded(t, c)
    /\ t.session \notin t.handled

\* Only sessions that were begun have a wrapper in the page or in the source.
BegunIfWritten(d, sv) == \A s \in Sessions : Wrapped(d[s]) => sv[s] # "new"

\* What the helper tells the tabs.
Told == [type : {"done", "error", "accept", "agent_done", "discarded"}, id : Sessions]

SessionTypes ==
    /\ framework \in BOOLEAN
    /\ dom \in [Sessions -> Looks]
    /\ source \in [Sessions -> Looks]
    /\ server \in [Sessions -> Phases]
    /\ stream \in {"connecting", "open", "closed"}
    /\ inbox \in Seq(Told)
    /\ faults \in Nat

\* The page is gone, and only the saved session and the marks are left of the tab.
Closed ==
    /\ tab \in Pages
    /\ tab = NewPage(tab)
    /\ Begun(tab, server)
    /\ stream = "closed"

SessionInv ==
    /\ SessionTypes
    /\ BegunIfWritten(dom, server)
    /\ BegunIfWritten(source, server)
    /\ Sane(tab, server, TRUE) \/ Closed

-----------------------------------------------------------------------------
LEMMA SessionsAre == None \notin Sessions /\ Sessions \subseteq Nat
  BY DEF None, Sessions

LEMMA SaveSane ==
    ASSUME NEW sv, NEW c, NEW t, Sane(t, sv, c)
    PROVE  Sane(saveSession(t), sv, c)
<1>1. CASE t.session = None
  BY <1>1 DEF saveSession
<1>2. CASE t.session # None
  <2>1. t.session \in Sessions
    BY <1>2 DEF Sane, Pages, Held
  <2> DEFINE s == [id |-> t.session, state |-> t.state, arrived |-> t.arrived, file |-> t.file]
  <2>2. s \in Saves /\ s.id = t.session
    BY <2>1 DEF Sane, Pages, Saves
  <2>3. saveSession(t) = [t EXCEPT !.saved = s]
    BY <1>2 DEF saveSession
  <2> HIDE DEF s
  <2> QED
    BY <2>2, <2>3 DEF Sane, Pages, Begun, Superseded
<1> QED
  BY <1>1, <1>2

LEMMA MarkTypes ==
    ASSUME NEW sv, NEW t \in Pages, Begun(t, sv)
    PROVE  markSessionHandled(t) \in Pages /\ Begun(markSessionHandled(t), sv)
  BY SessionsAre DEF Pages, Begun, markSessionHandled, Held

LEMMA TimerSane ==
    ASSUME NEW sv, NEW c, NEW t, Sane(t, sv, c), NEW x \in TimerTypes,
           t.state # "CONFIGURING" \/ x.kind \notin Revised \/ ~x.fresh
    PROVE  Sane(setTimer(t, x), sv, c)
  BY DEF Sane, Pages, Begun, Superseded, setTimer

LEMMA SendSane ==
    ASSUME NEW sv, NEW c, NEW t, Sane(t, sv, c), NEW s \in Sessions,
           NEW kind \in {"generate", "accept", "discard", "orphan", "checkpoint"}
    PROVE  Sane(sendEvent(t, kind, s), sv, c)
<1> DEFINE p == [kind |-> kind, id |-> s,
                 step |-> IF kind # "generate" /\ Creating(t) THEN "gated" ELSE "sent"]
<1>1. p \in PostTypes
  BY DEF PostTypes
<1>2. sendEvent(t, kind, s) = [t EXCEPT !.posts = @ \cup {p}]
  BY DEF sendEvent
<1> HIDE DEF p
<1> QED
  BY <1>1, <1>2 DEF Sane, Pages, Begun, Superseded

LEMMA CheckpointSane ==
    ASSUME NEW sv, NEW c, NEW t, Sane(t, sv, c)
    PROVE  Sane(sendCheckpoint(t), sv, c) /\ Sane(queueCheckpoint(t), sv, c)
<1>1. Sane(sendCheckpoint(t), sv, c)
  <2>1. CASE Unknown(t.session)
    <3>1. t.session \in Sessions
      BY <2>1 DEF Unknown, Sane, Pages, Held
    <3> QED
      BY <2>1, <3>1, SendSane DEF sendCheckpoint
  <2>2. CASE ~Unknown(t.session)
    BY <2>2 DEF sendCheckpoint
  <2> QED
    BY <2>1, <2>2
<1>2. Sane(queueCheckpoint(t), sv, c)
  BY DEF queueCheckpoint, Sane, Pages, Begun, Superseded
<1> QED
  BY <1>1, <1>2

LEMMA CleanupSane ==
    ASSUME NEW sv, NEW c, NEW t \in Pages, Begun(t, sv)
    PROVE  Sane(cleanup(t), sv, c)
<1> DEFINE later == IF t.session = None THEN t
                    ELSE setTimer(t, Timer("cleanup", t.session, TRUE, 0))
<1>1. later \in Pages /\ Begun(later, sv)
  <2>1. CASE t.session = None
    BY <2>1
  <2>2. CASE t.session # None
    <3>1. Timer("cleanup", t.session, TRUE, 0) \in TimerTypes
      BY <2>2, LiveAssumption DEF Timer, TimerTypes, Pages, Held, Recovery
    <3> QED
      BY <2>2, <3>1 DEF setTimer, Pages, Begun
  <2> QED
    BY <2>1, <2>2
<1>2. cleanup(t) = [later EXCEPT !.state = "PICKING", !.session = None, !.observed = None,
                     !.anchor = None, !.file = FALSE, !.saved = NoSave]
  BY DEF cleanup
<1> HIDE DEF later
<1> DEFINE u == cleanup(t)
<1>3. u \in Pages
  BY <1>1, <1>2 DEF Pages, States, Held
<1>4. /\ u.state = "PICKING" /\ u.session = None /\ u.handled = later.handled
      /\ u.saved = NoSave
  BY <1>1, <1>2 DEF Pages
<1>5. Begun(u, sv)
  <2>1. u.saved.id = None
    BY <1>4 DEF NoSave
  <2> HIDE DEF u
  <2> QED
    BY <1>1, <1>4, <2>1, SessionsAre DEF Begun
<1> QED
  BY <1>3, <1>4, <1>5, SessionsAre DEF Sane, Superseded, Pages
LEMMA ConfigureSane ==
    ASSUME NEW sv, NEW t, Sane(t, sv, TRUE)
    PROVE  Sane(beginNewLiveConfiguration(t), sv, TRUE)
<1> DEFINE timers == {[x EXCEPT !.fresh = @ /\ x.kind \notin Revised] : x \in t.timers}
           watched == {[x EXCEPT !.fresh = FALSE] : x \in t.watched}
           scout == {[x EXCEPT !.fresh = FALSE] : x \in t.scout}
<1>1. t.timers \subseteq TimerTypes /\ t.watched \subseteq [id : Sessions, fresh : BOOLEAN]
      /\ t.scout \subseteq [fresh : BOOLEAN]
  BY DEF Sane, Pages
<1>2. timers \subseteq TimerTypes /\ \A x \in timers : x.kind \in Revised => ~x.fresh
  <2> SUFFICES ASSUME NEW x \in t.timers, NEW y,
                      y = [x EXCEPT !.fresh = @ /\ x.kind \notin Revised]
               PROVE  y \in TimerTypes /\ (y.kind \in Revised => ~y.fresh)
    OBVIOUS
  <2>1. x \in TimerTypes
    BY <1>1
  <2> QED
    BY <2>1 DEF TimerTypes
<1>3. watched \subseteq [id : Sessions, fresh : BOOLEAN] /\ \A w \in watched : ~w.fresh
  BY <1>1
<1>4. scout \subseteq [fresh : BOOLEAN] /\ \A x \in scout : ~x.fresh
  BY <1>1
<1>5. beginNewLiveConfiguration(t) =
          [t EXCEPT !.state = "CONFIGURING", !.timers = timers, !.watched = watched,
                    !.scout = scout]
  BY DEF beginNewLiveConfiguration, Sane, Pages
<1> HIDE DEF timers, watched, scout
<1> DEFINE u == beginNewLiveConfiguration(t)
<1>6. u \in Pages /\ u.state = "CONFIGURING"
  <2>1. t \in Pages
    BY DEF Sane
  <2> QED
    BY <1>2, <1>3, <1>4, <1>5, <2>1, ZenonT(60) DEF Pages, States
<1>7. /\ u.timers = timers /\ u.watched = watched /\ u.scout = scout
      /\ u.session = t.session /\ u.handled = t.handled /\ u.saved = t.saved
  BY <1>5 DEF Sane, Pages
<1> HIDE DEF u
<1> QED
  BY <1>2, <1>3, <1>4, <1>6, <1>7 DEF Sane, Begun, Superseded, u

\* Only handled sessions are reloaded for, and only as fresh as they were watched.
LEMMA ReloadsTypes ==
    ASSUME NEW t \in Pages, NEW wrappers,
           \A w \in wrappers : w.id \in Sessions \cup {None} /\ w.fresh \in BOOLEAN
    PROVE  LET u == ScheduleReloads(t, wrappers)
           IN /\ u \in Pages
              /\ \A x \in u.timers : x \in t.timers \/ \E w \in wrappers : x.fresh = w.fresh
              /\ u.handled = t.handled /\ u.session = t.session /\ u.saved = t.saved
              /\ u.state = t.state /\ u.watched = t.watched /\ u.scout = t.scout
<1> DEFINE due == {w \in wrappers :
                     /\ ~deferredRecoverySuperseded(t, w.id, w.fresh)
                     /\ isSessionHandled(t, w.id)
                     /\ \A timer \in t.timers : <<timer.kind, timer.id>> # <<"handled", w.id>>
                     /\ t.attempts[w.id] < 2}
           ids == {w.id : w \in due}
           attempts == [s \in Sessions |-> IF s \in ids THEN t.attempts[s] + 1 ELSE t.attempts[s]]
           new == {Timer("handled", w.id, w.fresh, 0) : w \in due}
<1>1. ScheduleReloads(t, wrappers) = [t EXCEPT !.attempts = attempts, !.timers = @ \cup new]
  BY DEF ScheduleReloads
<1>2. attempts \in [Sessions -> 0 .. 2]
  <2> SUFFICES ASSUME NEW s \in Sessions
               PROVE  attempts[s] \in 0 .. 2
    OBVIOUS
  <2>1. s \in ids => t.attempts[s] < 2
    OBVIOUS
  <2>2. t.attempts[s] \in 0 .. 2
    BY DEF Pages
  <2> HIDE DEF ids
  <2> QED
    BY <2>1, <2>2
<1>3. new \subseteq TimerTypes
  <2> SUFFICES ASSUME NEW w \in due
               PROVE  Timer("handled", w.id, w.fresh, 0) \in TimerTypes
    OBVIOUS
  <2>1. w.id \in t.handled /\ w.fresh \in BOOLEAN
    BY DEF isSessionHandled
  <2>2. w.id \in Sessions
    BY <2>1 DEF Pages
  <2> QED
    BY <2>1, <2>2, LiveAssumption DEF Timer, TimerTypes, Recovery
<1>4. \A x \in new : \E w \in wrappers : x.fresh = w.fresh
  BY DEF Timer
<1> HIDE DEF attempts, new
<1>5. ScheduleReloads(t, wrappers) \in Pages
  <2>1. PICK v : v = [t EXCEPT !.attempts = attempts]
    OBVIOUS
  <2>2. v \in Pages /\ v.timers = t.timers
    BY <1>2, <2>1 DEF Pages
  <2>3. PICK m : m = v.timers \cup new
    OBVIOUS
  <2>4. m \subseteq TimerTypes
    BY <1>3, <2>2, <2>3 DEF Pages
  <2>5. [v EXCEPT !.timers = m] \in Pages
    BY <2>2, <2>4 DEF Pages
  <2>6. ScheduleReloads(t, wrappers) = [v EXCEPT !.timers = m]
    BY <1>1, <2>1, <2>2, <2>3
  <2> QED
    BY <2>5, <2>6
<1> QED
  BY <1>1, <1>4, <1>5 DEF Pages

LEMMA ReloadsSane ==
    ASSUME NEW sv, NEW c, NEW t, Sane(t, sv, c), NEW wrappers,
           \A w \in wrappers : w.id \in Sessions \cup {None} /\ w.fresh \in BOOLEAN,
           t.state = "CONFIGURING" => \A w \in wrappers : ~w.fresh
    PROVE  Sane(ScheduleReloads(t, wrappers), sv, c)
<1> DEFINE u == ScheduleReloads(t, wrappers)
<1>1. t \in Pages
  BY DEF Sane
<1>2. /\ u \in Pages
      /\ \A x \in u.timers : x \in t.timers \/ \E w \in wrappers : x.fresh = w.fresh
      /\ u.handled = t.handled /\ u.session = t.session /\ u.saved = t.saved
      /\ u.state = t.state /\ u.watched = t.watched /\ u.scout = t.scout
  BY <1>1, ReloadsTypes
<1> HIDE DEF u
<1> QED
  BY <1>2 DEF Sane, Begun, Superseded, u

-----------------------------------------------------------------------------
(***************************************************************************)
(* Reads of the source.                                                    *)
(***************************************************************************)
LEMMA CompleteSane ==
    ASSUME NEW sv, NEW c, NEW t, Sane(t, sv, c), NEW r \in ReadTypes, NEW count \in 0 .. Count
    PROVE  Sane(completeSourceInjection(t, r, count), sv, c)
<1> DEFINE u == [t EXCEPT !.anchor = None, !.arrived = count]
<1>1. Sane(u, sv, c)
  <2>1. t \in Pages /\ None \in Held
    BY DEF Sane, Held
  <2>2. /\ u \in Pages /\ u.state = t.state /\ u.session = t.session /\ u.handled = t.handled
        /\ u.saved = t.saved /\ u.timers = t.timers /\ u.watched = t.watched /\ u.scout = t.scout
    BY <2>1 DEF Pages
  <2> HIDE DEF u
  <2> QED
    BY <2>2 DEF Sane, Begun, Superseded
<1>2. Sane([u EXCEPT !.state = "CYCLING"], sv, c)
  BY <1>1 DEF Sane, Pages, Begun, Superseded, States
<1>3. Sane(saveSession([u EXCEPT !.state = "CYCLING"]), sv, c)
  BY <1>2, SaveSane
<1>4. Sane(recoverEmptyCycling(u), sv, c)
  BY <1>1, CleanupSane DEF recoverEmptyCycling, Sane
<1>5. r.n < Retries /\ u.state = "GENERATING" => Sane(setTimer(u, Timer("retryEmpty", r.id, TRUE, r.n + 1)), sv, c)
  <2> SUFFICES ASSUME r.n < Retries, u.state = "GENERATING"
               PROVE  Sane(setTimer(u, Timer("retryEmpty", r.id, TRUE, r.n + 1)), sv, c)
    OBVIOUS
  <2>1. Timer("retryEmpty", r.id, TRUE, r.n + 1) \in TimerTypes
    BY LiveAssumption DEF Timer, TimerTypes, ReadTypes
  <2> QED
    BY <1>1, <2>1, TimerSane
<1>6. \/ completeSourceInjection(t, r, count) = saveSession([u EXCEPT !.state = "CYCLING"])
      \/ completeSourceInjection(t, r, count) = u
      \/ /\ r.n < Retries /\ u.state = "GENERATING"
         /\ completeSourceInjection(t, r, count) = setTimer(u, Timer("retryEmpty", r.id, TRUE, r.n + 1))
      \/ completeSourceInjection(t, r, count) = recoverEmptyCycling(u)
  <2>0. count > 0 \/ count = 0
    BY LiveAssumption
  <2>1. CASE count > 0
    <3>1. count # 0
      BY <2>1, LiveAssumption
    <3> QED
      BY <2>1, <3>1, ZenonT(30) DEF completeSourceInjection
  <2>2. CASE count = 0 /\ u.state = "GENERATING" /\ ~r.done
    BY <2>2 DEF completeSourceInjection
  <2>3. CASE count = 0 /\ u.state = "GENERATING" /\ r.done /\ r.n < Retries
    <3>1. ~(count > 0)
      BY <2>3
    <3> QED
      BY <2>3, <3>1, ZenonT(30) DEF completeSourceInjection
  <2>4. CASE count = 0 /\ ~(u.state = "GENERATING" /\ (r.done => r.n < Retries))
    BY <2>4 DEF completeSourceInjection, ReadTypes
  <2> QED
    BY <2>0, <2>1, <2>2, <2>3, <2>4, Zenon
<1> HIDE DEF u
<1> QED
  BY <1>1, <1>3, <1>4, <1>5, <1>6

LEMMA InjectSane ==
    ASSUME NEW sv, NEW c, NEW t, Sane(t, sv, c), NEW r \in ReadTypes, NEW d
    PROVE  Sane(injectVariantsFromSource(t, r, d), sv, c)
<1> DEFINE known == [t EXCEPT !.file = TRUE]
           reading == [known EXCEPT !.reads = @ \cup {r}]
<1>1. Sane(known, sv, c)
  BY DEF Sane, Pages, Begun, Superseded
<1>2. Sane(reading, sv, c)
  BY DEF Sane, Pages, Begun, Superseded
<1>3. d[r.id] \in 1 .. Count => Sane(completeSourceInjection(known, r, d[r.id]), sv, c)
  <2> SUFFICES ASSUME d[r.id] \in 1 .. Count
               PROVE  Sane(completeSourceInjection(known, r, d[r.id]), sv, c)
    OBVIOUS
  <2>1. d[r.id] \in 0 .. Count
    BY LiveAssumption
  <2> HIDE DEF known
  <2> QED
    BY <1>1, <2>1, CompleteSane
<1>4. r.n < Retries => Sane(setTimer(known, Timer("retryDone", r.id, TRUE, r.n + 1)), sv, c)
  <2> SUFFICES ASSUME r.n < Retries
               PROVE  Sane(setTimer(known, Timer("retryDone", r.id, TRUE, r.n + 1)), sv, c)
    OBVIOUS
  <2>1. Timer("retryDone", r.id, TRUE, r.n + 1) \in TimerTypes
    BY LiveAssumption DEF Timer, TimerTypes, ReadTypes
  <2>2. Timer("retryDone", r.id, TRUE, r.n + 1).kind \notin Revised
    BY DEF Timer, Revised, Recovery
  <2> HIDE DEF known
  <2> QED
    BY <1>1, <2>1, <2>2, TimerSane
<1>5. Sane(cleanup(known), sv, c)
  <2> HIDE DEF known
  <2> QED
    BY <1>1, CleanupSane DEF Sane
<1>6. \/ injectVariantsFromSource(t, r, d) = reading
      \/ /\ d[r.id] \in 1 .. Count
         /\ injectVariantsFromSource(t, r, d) = completeSourceInjection(known, r, d[r.id])
      \/ /\ r.n < Retries
         /\ injectVariantsFromSource(t, r, d)
                = setTimer(known, Timer("retryDone", r.id, TRUE, r.n + 1))
      \/ injectVariantsFromSource(t, r, d) = cleanup(known)
      \/ injectVariantsFromSource(t, r, d) = known
  <2>0. d[r.id] \in 1 .. Count => Wrapped(d[r.id])
    BY LiveAssumption DEF Wrapped
  <2>1. CASE ~framework
    BY <2>1, ZenonT(30) DEF injectVariantsFromSource
  <2>2. CASE framework /\ d[r.id] \in 1 .. Count
    BY <2>0, <2>2, ZenonT(30) DEF injectVariantsFromSource
  <2>3. CASE framework /\ d[r.id] \notin 1 .. Count /\ r.done /\ r.id = t.session
    BY <2>3, ZenonT(30) DEF injectVariantsFromSource
  <2>4. CASE framework /\ ~r.done /\ r.orphan /\ ~Wrapped(d[r.id]) /\ r.id = t.session
    BY <2>0, <2>4, ZenonT(30) DEF injectVariantsFromSource
  <2>5. CASE /\ framework /\ d[r.id] \notin 1 .. Count
             /\ ~(r.done /\ r.id = t.session)
             /\ ~(~r.done /\ r.orphan /\ ~Wrapped(d[r.id]) /\ r.id = t.session)
    BY <2>5, ZenonT(30) DEF injectVariantsFromSource
  <2> QED
    BY <2>1, <2>2, <2>3, <2>4, <2>5, Zenon
<1> HIDE DEF known, reading
<1> QED
  BY <1>1, <1>2, <1>3, <1>4, <1>5, <1>6

LEMMA DiscardOrphanSane ==
    ASSUME NEW sv, NEW c, NEW t, Sane(t, sv, c), t.session # None
    PROVE  Sane(discardOrphanedSession(t), sv, c)
<1>1. t.session \in Sessions
  BY DEF Sane, Pages, Held
<1>2. Sane(sendEvent(t, "orphan", t.session), sv, c)
  BY <1>1, SendSane
<1> QED
  BY <1>2, MarkTypes, CleanupSane DEF discardOrphanedSession, Sane

LEMMA OrphanedSane ==
    ASSUME NEW sv, NEW c, NEW t, Sane(t, sv, c), NEW r \in ReadTypes, t.session = r.id
    PROVE  Sane(Orphaned(t, r), sv, c)
<1>1. CASE r.n < Retries
  <2>1. Timer("retryOrphan", r.id, TRUE, r.n + 1) \in TimerTypes
    BY <1>1, LiveAssumption DEF Timer, TimerTypes, ReadTypes
  <2>2. Timer("retryOrphan", r.id, TRUE, r.n + 1).kind \notin Revised
    BY DEF Timer, Revised, Recovery
  <2> QED
    BY <1>1, <2>1, <2>2, TimerSane DEF Orphaned
<1>2. CASE ~(r.n < Retries)
  <2>1. t.session # None
    BY SessionsAre DEF ReadTypes
  <2> QED
    BY <1>2, <2>1, DiscardOrphanSane DEF Orphaned
<1> QED
  BY <1>1, <1>2

-----------------------------------------------------------------------------
(***************************************************************************)
(* What is resumed.                                                        *)
(***************************************************************************)
LEMMA RestoredSane ==
    ASSUME NEW sv, NEW c, NEW t, Sane(t, sv, c), NEW saved \in Saves, NEW active, NEW d,
           saved.id \notin t.handled, sv[saved.id] # "new"
    PROVE  Sane(Restored(t, saved, active, d), sv, c)
<1> DEFINE v == [t EXCEPT !.session = saved.id, !.arrived = saved.arrived,
                          !.state = "GENERATING", !.observed = saved.id,
                          !.file = saved.file \/ Known(saved.id, active)]
           u == queueCheckpoint(saveSession(v))
           r == Read(saved.id, FALSE, saved.state = "CYCLING", 0)
<1>1. Sane(v, sv, c)
  <2>1. t \in Pages /\ saved.id \in Held /\ saved.arrived \in 0 .. Count
        /\ (saved.file \/ Known(saved.id, active)) \in BOOLEAN
    BY DEF Sane, Saves, Held
  <2>2. v \in Pages
    BY <2>1 DEF Pages, States
  <2>3. /\ v.session = saved.id /\ v.state = "GENERATING" /\ v.handled = t.handled
        /\ v.saved = t.saved
    BY <2>1 DEF Pages
  <2> HIDE DEF v
  <2> QED
    BY <2>2, <2>3 DEF Sane, Begun, Superseded
<1>2. Sane(u, sv, c)
  <2> HIDE DEF v
  <2> QED
    BY <1>1, SaveSane, CheckpointSane
<1>3. r \in ReadTypes
  BY LiveAssumption DEF Read, ReadTypes, Saves
<1>4. Restored(t, saved, active, d) = u \/ Restored(t, saved, active, d) = injectVariantsFromSource(u, r, d)
  BY Zenon DEF Restored
<1> HIDE DEF u, r
<1> QED
  BY <1>2, <1>3, <1>4, InjectSane

LEMMA RestoreSane ==
    ASSUME NEW sv, NEW c, NEW t, Sane(t, sv, c), NEW saved \in {NoSave} \cup Saves, NEW active, NEW d,
           saved # NoSave => sv[saved.id] # "new"
    PROVE  Sane(restoreSessionWithoutWrapper(t, saved, active, d), sv, c)
<1>1. CASE Restorable(t, saved, active)
  <2>1. saved \in Saves /\ saved.id \notin t.handled
    BY <1>1 DEF Restorable, isSessionHandled
  <2> QED
    BY <1>1, <2>1, RestoredSane DEF restoreSessionWithoutWrapper, Restorable
<1>2. CASE ~Restorable(t, saved, active)
  BY <1>2 DEF restoreSessionWithoutWrapper
<1> QED
  BY <1>1, <1>2

LEMMA ResumedSane ==
    ASSUME NEW sv, NEW c, NEW t, Sane(t, sv, c), NEW w \in Sessions, NEW d, Wrapped(d[w]),
           w \notin t.handled, sv[w] # "new"
    PROVE  Sane(Resumed(t, w, d), sv, c)
<1> DEFINE u == [t EXCEPT !.session = w, !.arrived = d[w], !.observed = w,
                       !.state = IF d[w] > 0 THEN "CYCLING" ELSE "GENERATING",
                       !.file = @ \/ (t.saved # NoSave /\ t.saved.id = w /\ t.saved.file)]
<1>1. Sane(u, sv, c)
  <2>1. t \in Pages /\ w \in Held /\ d[w] \in 0 .. Count
        /\ (t.file \/ (t.saved # NoSave /\ t.saved.id = w /\ t.saved.file)) \in BOOLEAN
    BY DEF Sane, Held, Wrapped
  <2>2. u \in Pages
    BY <2>1, ZenonT(30) DEF Pages, States
  <2>3. /\ u.session = w /\ u.state \in {"GENERATING", "CYCLING"} /\ u.handled = t.handled
        /\ u.saved = t.saved
    BY <2>1 DEF Pages
  <2> HIDE DEF u
  <2> QED
    BY <2>2, <2>3 DEF Sane, Begun, Superseded
<1>2. \/ Resumed(t, w, d) = sendCheckpoint(queueCheckpoint(saveSession(u)))
      \/ Resumed(t, w, d) = sendCheckpoint(saveSession(u))
      \/ Resumed(t, w, d) = queueCheckpoint(saveSession(u))
  <2>1. CASE d[w] = Count
    <3>1. d[w] \notin 1 .. Count - 1
      BY <2>1, LiveAssumption
    <3> QED
      BY <2>1, <3>1, ZenonT(30) DEF Resumed
  <2>2. CASE d[w] \in 1 .. Count - 1
    <3>1. d[w] # Count
      BY <2>2, LiveAssumption
    <3> QED
      BY <2>2, <3>1, ZenonT(30) DEF Resumed
  <2>3. CASE d[w] # Count /\ d[w] \notin 1 .. Count - 1
    BY <2>3, ZenonT(30) DEF Resumed
  <2> QED
    BY <2>1, <2>2, <2>3, Zenon
<1> HIDE DEF u
<1> QED
  BY <1>1, <1>2, SaveSane, CheckpointSane

LEMMA ResumeSane ==
    ASSUME NEW c, NEW t, Sane(t, server, c), NEW fresh \in BOOLEAN, NEW w \in Held, NEW runtime \in Held,
           NEW d, w # None => w = runtime /\ Wrapped(d[w]), BegunIfWritten(d, server),
           t.state = "CONFIGURING" => ~fresh
    PROVE  Sane(resumeSession(t, fresh, w, runtime, d), server, c)
<1> DEFINE superseding == Superseding(t, runtime)
           wrappers == {[id |-> runtime, fresh |-> fresh]}
<1>1. t.saved \in {NoSave} \cup Saves
      /\ (t.saved # NoSave => t.saved.id \in Sessions /\ server[t.saved.id] # "new")
  BY DEF Sane, Pages, Saves, Begun
<1>0. superseding => isSessionHandled(t, runtime)
  BY DEF Superseding
<1>2. CASE superseding /\ t.session = t.saved.id
  BY <1>0, <1>2, ZenonT(30) DEF resumeSession
<1>3. CASE superseding /\ t.session # t.saved.id
  <2>1. resumeSession(t, fresh, w, runtime, d) = Restored(t, t.saved, NoList, d)
    BY <1>0, <1>3, ZenonT(30) DEF resumeSession
  <2>2. t.saved # NoSave /\ t.saved.id \notin t.handled
    BY <1>3 DEF Superseding, isSessionHandled
  <2> QED
    BY <1>1, <2>1, <2>2, RestoredSane
<1>4. CASE ~superseding /\ isSessionHandled(t, runtime)
  <2>1. resumeSession(t, fresh, w, runtime, d) = ScheduleReloads(t, wrappers)
    BY <1>4, ZenonT(30) DEF resumeSession
  <2>2. \A x \in wrappers : x.id \in Sessions \cup {None} /\ x.fresh \in BOOLEAN
    BY DEF Held
  <2>3. t.state = "CONFIGURING" => \A x \in wrappers : ~x.fresh
    OBVIOUS
  <2> HIDE DEF wrappers
  <2> QED
    BY <2>1, <2>2, <2>3, ReloadsSane
<1>5. CASE ~isSessionHandled(t, runtime) /\ w = None
  <2>1. ~superseding
    BY <1>5 DEF Superseding
  <2>2. CASE Restorable(t, t.saved, NoList)
    <3>1. resumeSession(t, fresh, w, runtime, d) = Restored(t, t.saved, NoList, d)
      BY <1>5, <2>1, <2>2, ZenonT(30) DEF resumeSession
    <3>2. t.saved # NoSave /\ t.saved.id \notin t.handled
      BY <2>2 DEF Restorable, isSessionHandled
    <3> QED
      BY <1>1, <3>1, <3>2, RestoredSane
  <2>3. CASE ~Restorable(t, t.saved, NoList)
    <3>1. resumeSession(t, fresh, w, runtime, d) = [t EXCEPT !.saved = NoSave]
      BY <1>5, <2>1, <2>3, ZenonT(30) DEF resumeSession
    <3>2. NoSave.id = None
      BY DEF NoSave
    <3> QED
      BY <3>1, <3>2, SessionsAre DEF Sane, Pages, Begun, Superseded
  <2> QED
    BY <2>2, <2>3
<1>6. CASE ~isSessionHandled(t, runtime) /\ w # None
  <2>1. ~superseding
    BY <1>6 DEF Superseding
  <2>2. resumeSession(t, fresh, w, runtime, d) = Resumed(t, w, d)
    BY <1>6, <2>1, ZenonT(30) DEF resumeSession
  <2>3. w \in Sessions /\ w \notin t.handled /\ Wrapped(d[w]) /\ server[w] # "new"
    BY <1>6 DEF Held, isSessionHandled, BegunIfWritten
  <2> QED
    BY <2>2, <2>3, ResumedSane
<1> QED
  BY <1>2, <1>3, <1>4, <1>5, <1>6

LEMMA WrappersAre ==
    ASSUME NEW d, NEW found \in RuntimeWrappers(d)
    PROVE  /\ found[1] \in Held /\ found[2] \in Held
           /\ found[1] # None => found[1] = found[2] /\ Wrapped(d[found[1]])
<1>1. \A s \in WrappersFound(d) : s \in Sessions /\ Wrapped(d[s])
  BY DEF WrappersFound
<1> QED
  BY <1>1 DEF RuntimeWrappers, Held

-----------------------------------------------------------------------------
(***************************************************************************)
(* What the observers do.                                                  *)
(***************************************************************************)
LEMMA SeenSane ==
    ASSUME NEW sv, NEW c, NEW t, Sane(t, sv, c), NEW d
    PROVE  Sane(VariantsSeen(t, d), sv, c)
<1> DEFINE u == [t EXCEPT !.arrived = d[t.observed], !.state = "CYCLING"]
<1>1. CASE t.observed = None \/ ~Wrapped(d[t.observed]) \/ d[t.observed] <= t.arrived
  BY <1>1, ZenonT(30) DEF VariantsSeen
<1>2. CASE ~(t.observed = None \/ ~Wrapped(d[t.observed]) \/ d[t.observed] <= t.arrived)
  <2>1. VariantsSeen(t, d) = sendCheckpoint(saveSession(u))
    BY <1>2, ZenonT(30) DEF VariantsSeen
  <2>2. d[t.observed] \in 0 .. Count
    BY <1>2 DEF Wrapped
  <2>3. Sane(u, sv, c)
    BY <2>2 DEF Sane, Pages, Begun, Superseded, States
  <2> HIDE DEF u
  <2> QED
    BY <2>1, <2>3, SaveSane, CheckpointSane
<1> QED
  BY <1>1, <1>2, Zenon

LEMMA ObserversSane ==
    ASSUME NEW c, NEW t, Sane(t, server, c), NEW d, BegunIfWritten(d, server), NEW found \in RuntimeWrappers(d)
    PROVE  Sane(Observers(t, d, found), server, c)
<1>1. ASSUME NEW u, Sane(u, server, c)
      PROVE  Sane(Scouted(u, d, found), server, c)
  <2>1. CASE u.scout = {} \/ found[2] = None
    BY <1>1, <2>1 DEF Scouted
  <2>2. CASE ~(u.scout = {} \/ found[2] = None)
    <3> DEFINE v == [u EXCEPT !.scout = {}]
               fresh == \A x \in u.scout : x.fresh
    <3>1. Sane(v, server, c) /\ v.state = u.state
      BY <1>1 DEF Sane, Pages, Begun, Superseded
    <3>2. u.state = "CONFIGURING" => ~fresh
      BY <1>1, <2>2 DEF Sane, Superseded
    <3>3. Scouted(u, d, found) = resumeSession(v, fresh, found[1], found[2], d)
      BY <2>2, ZenonT(30) DEF Scouted
    <3>4. fresh \in BOOLEAN
      OBVIOUS
    <3> HIDE DEF v, fresh
    <3> QED
      BY <3>1, <3>2, <3>3, <3>4, WrappersAre, ResumeSane
  <2> QED
    BY <2>1, <2>2
<1>2. ASSUME NEW u, Sane(u, server, c)
      PROVE  Sane(HandledSeen(u, d), server, c)
  <2> DEFINE wrappers == {w \in u.watched : Marked(d[w.id])}
  <2>1. \A w \in wrappers : w.id \in Sessions \cup {None} /\ w.fresh \in BOOLEAN
    BY <1>2 DEF Sane, Pages
  <2>2. u.state = "CONFIGURING" => \A w \in wrappers : ~w.fresh
    BY <1>2 DEF Sane, Superseded
  <2> HIDE DEF wrappers
  <2>3. HandledSeen(u, d) = ScheduleReloads(u, wrappers)
    BY DEF HandledSeen, wrappers
  <2> QED
    BY <1>2, <2>1, <2>2, <2>3, ReloadsSane
<1> QED
  BY <1>1, <1>2, SeenSane DEF Observers

-----------------------------------------------------------------------------
(***************************************************************************)
(* What answers and messages do.                                           *)
(***************************************************************************)
LEMMA AcceptedSane ==
    ASSUME NEW c, NEW t, Sane(t, server, c), NEW s \in Sessions, NEW d
    PROVE  Sane(Accepted(t, s, d), server, c)
<1> DEFINE marked == markSessionHandled(t)
           watch == [id |-> s, fresh |-> TRUE]
           watching == [marked EXCEPT !.watched = {w \in @ : w.id # s} \cup {watch}]
           seen == IF Marked(d[s]) THEN ScheduleReloads(watching, {watch}) ELSE watching
           late == setTimer(seen, Timer("accept", s, TRUE, 0))
           u == Accepted(t, s, d)
<1>1. u = [late EXCEPT !.state = "PICKING", !.session = None, !.observed = None,
                       !.file = FALSE, !.pending = None, !.saved = NoSave]
  BY DEF Accepted
<1>2. marked \in Pages /\ Begun(marked, server)
  BY MarkTypes DEF Sane
<1>3. watching \in Pages /\ watching.handled = marked.handled
  <2> DEFINE watched == {w \in marked.watched : w.id # s} \cup {watch}
  <2> HIDE DEF marked
  <2>1. watching = [marked EXCEPT !.watched = watched]
    BY <1>2 DEF Pages
  <2>2. watched \subseteq [id : Sessions, fresh : BOOLEAN]
    <3>1. marked.watched \in SUBSET [id : Sessions, fresh : BOOLEAN]
      BY <1>2 DEF Pages
    <3>2. watch \in [id : Sessions, fresh : BOOLEAN]
      OBVIOUS
    <3> HIDE DEF watch
    <3> QED
      BY <3>1, <3>2
  <2> HIDE DEF watched, watching
  <2> QED
    BY <1>2, <2>1, <2>2 DEF Pages
<1>4. seen \in Pages /\ seen.handled = marked.handled
  <2> HIDE DEF watching
  <2>0. watch.id \in Sessions \cup {None} /\ watch.fresh \in BOOLEAN
    OBVIOUS
  <2>1. \A w \in {watch} : w.id \in Sessions \cup {None} /\ w.fresh \in BOOLEAN
    BY <2>0, Zenon
  <2> HIDE DEF watch
  <2>2. /\ ScheduleReloads(watching, {watch}) \in Pages
        /\ ScheduleReloads(watching, {watch}).handled = watching.handled
    BY <1>3, <2>1, ReloadsTypes
  <2> QED
    BY <1>3, <2>2
<1>5. late \in Pages /\ late.handled = marked.handled
  <2> HIDE DEF seen
  <2>1. Timer("accept", s, TRUE, 0) \in TimerTypes
    BY LiveAssumption DEF Timer, TimerTypes, Recovery
  <2> QED
    BY <1>4, <2>1 DEF setTimer, Pages
<1> HIDE DEF watch, watching, seen, late, marked, u
<1>6. u \in Pages
  <2>1. "PICKING" \in States /\ None \in Held /\ late \in Pages
    BY <1>5 DEF States, Held
  <2>2. PICK w : w = [late EXCEPT !.state = "PICKING", !.session = None, !.observed = None]
    OBVIOUS
  <2>3. w \in Pages
    BY <2>1, <2>2 DEF Pages
  <2>4. u = [w EXCEPT !.file = FALSE, !.pending = None, !.saved = NoSave]
    BY <1>1, <2>1, <2>2 DEF Pages
  <2> QED
    BY <2>1, <2>3, <2>4 DEF Pages
<1>7. u.state = "PICKING" /\ u.session = None /\ u.handled = marked.handled /\ u.saved = NoSave
  BY <1>1, <1>5 DEF Pages
<1>8. u.saved.id = None
  BY <1>7 DEF NoSave
<1>9. Sane(u, server, c)
  BY <1>2, <1>6, <1>7, <1>8, SessionsAre DEF Sane, Begun, Superseded, Pages
<1> QED
  BY <1>9 DEF u

LEMMA MarkedCleanSane ==
    ASSUME NEW sv, NEW c, NEW t, Sane(t, sv, c)
    PROVE  Sane(cleanup(markSessionHandled(t)), sv, c) /\ Sane(cleanup(t), sv, c)
  BY MarkTypes, CleanupSane DEF Sane

LEMMA ContinuedSane ==
    ASSUME NEW c, NEW t, Sane(t, server, c), NEW p \in PostTypes
    PROVE  Sane(Continued(t, p), server, c)
<1> DEFINE a == Accepted(t, p.id, dom)
           failed == [t EXCEPT !.state = "CYCLING", !.pending = IF @ = p.id THEN None ELSE @]
<1>1. p.id \in Sessions
  BY DEF PostTypes
<1>2. Sane([a EXCEPT !.awaiting = p.id], server, c)
  <2>1. Sane(a, server, c)
    BY <1>1, AcceptedSane
  <2> HIDE DEF a
  <2> QED
    BY <1>1, <2>1 DEF Sane, Pages, Begun, Superseded, Held
<1>3. Sane(failed, server, c)
  <2>1. (IF t.pending = p.id THEN None ELSE t.pending) \in Held
    BY DEF Sane, Pages, Held
  <2> QED
    BY <2>1 DEF Sane, Pages, Begun, Superseded, States
<1>4. \/ Continued(t, p) = sendCheckpoint(t)
      \/ Continued(t, p) = [a EXCEPT !.awaiting = p.id]
      \/ Continued(t, p) = failed
      \/ Continued(t, p) = cleanup(markSessionHandled(t))
      \/ Continued(t, p) = t
  BY ZenonT(60) DEF Continued
<1> HIDE DEF a, failed
<1> QED
  BY <1>2, <1>3, <1>4, CheckpointSane, MarkedCleanSane

LEMMA ErroredSane ==
    ASSUME NEW c, NEW t, Sane(t, server, c), NEW s \in Sessions
    PROVE  Sane(Errored(t, s), server, c)
<1> DEFINE u == [t EXCEPT !.pending = None, !.awaiting = None, !.state = "CYCLING"]
           v == [t EXCEPT !.awaiting = None]
           saved == IF t.saved # NoSave /\ t.saved.id = s THEN NoSave ELSE t.saved
           w == [t EXCEPT !.state = "PICKING",
                          !.saved = IF @ # NoSave /\ @.id = s THEN NoSave ELSE @]
<1>0. Sane(u, server, c)
  <2>1. t \in Pages /\ None \in Held /\ "CYCLING" \in States
    BY DEF Sane, Held, States
  <2>2. u \in Pages
    BY <2>1 DEF Pages
  <2>3. /\ u.state = "CYCLING" /\ u.session = t.session /\ u.handled = t.handled
        /\ u.saved = t.saved
    BY <2>1 DEF Pages
  <2> HIDE DEF u
  <2> QED
    BY <2>2, <2>3 DEF Sane, Begun, Superseded
<1>1. Sane(v, server, c)
  BY DEF Sane, Pages, Begun, Superseded, Held
<1>2. Sane(w, server, c)
  <2>1. w = [t EXCEPT !.state = "PICKING", !.saved = saved]
    BY DEF Sane, Pages
  <2>2. saved \in {NoSave} \cup Saves /\ (saved.id = None \/ saved = t.saved)
    BY DEF Sane, Pages, NoSave
  <2> HIDE DEF saved, w
  <2>3. t \in Pages /\ "PICKING" \in States
    BY DEF Sane, States
  <2>4. w \in Pages
    BY <2>1, <2>2, <2>3 DEF Pages
  <2>5. /\ w.state = "PICKING" /\ w.session = t.session /\ w.handled = t.handled
        /\ w.saved = saved
    BY <2>1, <2>3 DEF Pages
  <2>6. Begun(w, server)
    BY <2>2, <2>5, SessionsAre DEF Sane, Begun
  <2> QED
    BY <2>4, <2>5, <2>6 DEF Sane, Superseded
<1>3. \/ Errored(t, s) = u
      \/ Errored(t, s) = v
      \/ Errored(t, s) = cleanup(markSessionHandled(t))
      \/ Errored(t, s) = w
  BY ZenonT(60) DEF Errored
<1> HIDE DEF u, v, w
<1> QED
  BY <1>0, <1>1, <1>2, <1>3, MarkedCleanSane

LEMMA CompletedSane ==
    ASSUME NEW c, NEW t, Sane(t, server, c), NEW s \in Sessions
    PROVE  Sane(Completed(t, s), server, c)
<1> DEFINE u == [t EXCEPT !.file = TRUE]
           v == [u EXCEPT !.state = IF @ = "GENERATING" THEN "CYCLING" ELSE @]
<1>1. Sane(u, server, c)
  BY DEF Sane, Pages, Begun, Superseded
<1>2. Sane(v, server, c)
  BY DEF Sane, Pages, Begun, Superseded, States
<1>3. Sane(setTimer(u, Timer("read", s, TRUE, 0)), server, c)
  <2>1. Timer("read", s, TRUE, 0) \in TimerTypes /\ Timer("read", s, TRUE, 0).kind \notin Revised
    BY LiveAssumption DEF Timer, TimerTypes, Revised, Recovery
  <2> HIDE DEF u
  <2> QED
    BY <1>1, <2>1, TimerSane
<1>4. \/ Completed(t, s) = v
      \/ Completed(t, s) = setTimer(u, Timer("read", s, TRUE, 0))
      \/ Completed(t, s) = u
  BY ZenonT(60) DEF Completed
<1> HIDE DEF u, v
<1> QED
  BY <1>1, <1>2, <1>3, <1>4

LEMMA ReceivedSane ==
    ASSUME NEW c, NEW t, Sane(t, server, c), NEW msg \in Told, NEW d
    PROVE  Sane(Received(t, msg, d), server, c)
<1> DEFINE u == [t EXCEPT !.awaiting = IF @ = msg.id THEN None ELSE @]
<1>0. msg.id \in Sessions
  BY DEF Told
<1>1. Sane(u, server, c)
  <2>1. (IF t.awaiting = msg.id THEN None ELSE t.awaiting) \in Held
    BY DEF Sane, Pages, Held
  <2> QED
    BY <2>1 DEF Sane, Pages, Begun, Superseded
<1>2. CASE msg.type = "done"
  BY <1>0, <1>2, CompletedSane DEF Received
<1>3. CASE msg.type \in {"accept", "agent_done"}
  <2>1. Received(t, msg, d) = maybeCompleteAcceptedSession(u, msg.id, d)
    BY <1>3, ZenonT(30) DEF Received
  <2> HIDE DEF u
  <2>2. Sane([u EXCEPT !.pending = None], server, c)
    BY <1>1 DEF Sane, Pages, Begun, Superseded, Held
  <2>3. \/ maybeCompleteAcceptedSession(u, msg.id, d) = u
        \/ maybeCompleteAcceptedSession(u, msg.id, d) = [u EXCEPT !.pending = None]
        \/ maybeCompleteAcceptedSession(u, msg.id, d) = Accepted(u, msg.id, d)
    BY ZenonT(30) DEF maybeCompleteAcceptedSession
  <2> QED
    BY <1>0, <1>1, <2>1, <2>2, <2>3, AcceptedSane
<1>4. CASE msg.type = "discarded"
  <2>1. \/ Received(t, msg, d) = cleanup(markSessionHandled(t))
        \/ Received(t, msg, d) = t
    BY <1>4, ZenonT(30) DEF Received
  <2> QED
    BY <2>1, MarkedCleanSane
<1>5. CASE msg.type = "error"
  <2>1. Received(t, msg, d) = Errored(t, msg.id)
    BY <1>5, SMTT(30) DEF Received
  <2> QED
    BY <1>0, <2>1, ErroredSane
<1> QED
  BY <1>2, <1>3, <1>4, <1>5 DEF Told

-----------------------------------------------------------------------------
(***************************************************************************)
(* The steps.  A handler that leaves the tab sane keeps the invariant; so  *)
(* does a page that goes.                                                  *)
(***************************************************************************)
Spared ==
    Loaded /\ tab'.state = "UNLOADED" /\ faults' = faults => tab.state # "CONFIGURING"

Kept == SessionInv' /\ Spared

LEMMA HandleKeeps ==
    ASSUME SessionInv, NEW t, Sane(t, server, TRUE), tab' = t,
           UNCHANGED <<bounds, dom, helper, stream, inbox>>
    PROVE  Kept
<1>1. SessionTypes' /\ BegunIfWritten(dom, server)' /\ BegunIfWritten(source, server)'
  BY DEF SessionInv, SessionTypes, BegunIfWritten, bounds, helper
<1>2. Sane(tab, server, TRUE)'
  BY DEF Sane, Begun, helper
<1>3. tab'.state # "UNLOADED"
  BY DEF Sane
<1> QED
  BY <1>1, <1>2, <1>3 DEF SessionInv, Kept, Spared

LEMMA MutateKeeps ==
    ASSUME SessionInv, NEW t, Sane(t, server, TRUE), NEW d \in [Sessions -> Looks], BegunIfWritten(d, server),
           Mutate(t, d), UNCHANGED <<bounds, helper, stream, inbox>>
    PROVE  Kept
<1>1. SessionTypes' /\ BegunIfWritten(dom, server)' /\ BegunIfWritten(source, server)'
  BY DEF SessionInv, SessionTypes, BegunIfWritten, bounds, helper, Mutate
<1>2. PICK found \in RuntimeWrappers(d) : tab' = Observers(t, d, found)
  BY DEF Mutate
<1>3. Sane(Observers(t, d, found), server, TRUE)
  BY ObserversSane
<1>4. PICK u : u = Observers(t, d, found)
  OBVIOUS
<1>5. tab' = u /\ Sane(u, server, TRUE)
  BY <1>2, <1>3, <1>4
<1>6. Sane(tab, server, TRUE)'
  BY <1>5 DEF Sane, Begun, helper
<1>7. tab'.state # "UNLOADED"
  BY <1>5 DEF Sane
<1> QED
  BY <1>1, <1>6, <1>7 DEF SessionInv, Kept, Spared

LEMMA NewPageIs ==
    ASSUME NEW sv, NEW t \in Pages, Begun(t, sv)
    PROVE  /\ NewPage(t) \in Pages
           /\ NewPage(NewPage(t)) = NewPage(t)
           /\ Begun(NewPage(t), sv)
<1>1. NewPage(t) \in Pages
  BY LiveAssumption DEF NewPage, Pages, States, Held
<1>2. NewPage(NewPage(t)) = NewPage(t)
  BY DEF NewPage
<1>3. Begun(NewPage(t), sv)
  BY SessionsAre DEF NewPage, Begun
<1> QED
  BY <1>1, <1>2, <1>3

LEMMA UnloadKeeps ==
    ASSUME SessionInv, Loaded, Unload, UNCHANGED <<framework, dom, helper>>,
           faults' \in Nat, tab.state # "CONFIGURING" \/ faults' # faults
    PROVE  Kept
<1>1. SessionTypes' /\ BegunIfWritten(dom, server)' /\ BegunIfWritten(source, server)'
  BY DEF SessionInv, SessionTypes, BegunIfWritten, bounds, helper, Unload
<1>2. tab \in Pages /\ Begun(tab, server)
  BY DEF SessionInv, Sane, Closed
<1>3. /\ NewPage(tab) \in Pages
      /\ NewPage(NewPage(tab)) = NewPage(tab)
      /\ Begun(NewPage(tab), server)
  BY <1>2, NewPageIs
<1>4. PICK u : u = NewPage(tab)
  OBVIOUS
<1>5. tab' = u /\ u \in Pages /\ NewPage(u) = u /\ Begun(u, server)
  BY <1>3, <1>4 DEF Unload
<1>6. Closed'
  BY <1>5 DEF Closed, Begun, Unload, helper
<1> QED
  BY <1>1, <1>6 DEF SessionInv, Kept, Spared

LEMMA SessionInvInit == Init => SessionInv
<1> SUFFICES ASSUME Init
             PROVE  SessionInv
  OBVIOUS
<1>1. NewPage(Blank) \in Pages
  BY LiveAssumption DEF NewPage, Blank, Pages, States, Held
<1>2. SessionTypes
  BY LiveAssumption DEF Init, SessionTypes, Looks, Phases, Told
<1>3. BegunIfWritten(dom, server) /\ BegunIfWritten(source, server)
  BY LiveAssumption DEF Init, BegunIfWritten, Wrapped, Absent
<1>4. Closed
  <2>1. NewPage(NewPage(Blank)) = NewPage(Blank)
    BY DEF NewPage
  <2>2. Begun(NewPage(Blank), server)
    BY SessionsAre DEF NewPage, Blank, Begun, NoSave
  <2> QED
    BY <1>1, <2>1, <2>2 DEF Init, Closed
<1> QED
  BY <1>2, <1>3, <1>4 DEF SessionInv

LEMMA ClosedIs ==
    ASSUME SessionInv, Closed
    PROVE  /\ tab.state = "UNLOADED" /\ tab.posts = {} /\ ~tab.queued /\ tab.anchor = None
           /\ tab.watched = {} /\ tab.timers = {} /\ tab.reads = {} /\ stream = "closed"
           /\ tab.session = None
<1>1. PICK u : u = tab
  OBVIOUS
<1>2. u = NewPage(u)
  BY <1>1 DEF Closed
<1>3. /\ u.state = "UNLOADED" /\ u.posts = {} /\ ~u.queued /\ u.anchor = None
      /\ u.watched = {} /\ u.timers = {} /\ u.reads = {} /\ u.session = None
  BY <1>2 DEF NewPage
<1> QED
  BY <1>1, <1>3 DEF Closed

LEMMA LoadedIs ==
    ASSUME SessionInv
    PROVE  Loaded <=> Sane(tab, server, TRUE)
  BY ClosedIs DEF SessionInv, Sane, Loaded

LEMMA SaneLater ==
    ASSUME NEW sv, NEW sw, NEW c, NEW t, Sane(t, sv, c),
           \A s \in Sessions : sv[s] # "new" => sw[s] # "new"
    PROVE  Sane(t, sw, c)
  BY DEF Sane, Begun

\* Only the helper's phases move on.
LEMMA ServerKeeps ==
    ASSUME SessionInv, NEW sw \in [Sessions -> Phases], server' = sw,
           \A s \in Sessions : server[s] # "new" => sw[s] # "new",
           NEW t, Sane(t, sw, TRUE), tab' = t,
           source' \in [Sessions -> Looks], BegunIfWritten(source', sw), inbox' \in Seq(Told),
           UNCHANGED <<bounds, dom, stream>>
    PROVE  Kept
<1>1. SessionTypes'
  BY DEF SessionInv, SessionTypes, bounds
<1>2. BegunIfWritten(dom, server)' /\ BegunIfWritten(source, server)'
  BY DEF SessionInv, BegunIfWritten
<1>3. Sane(tab, server, TRUE)'
  BY DEF Sane, Begun
<1>4. tab'.state # "UNLOADED"
  BY DEF Sane
<1> QED
  BY <1>1, <1>2, <1>3, <1>4 DEF SessionInv, Kept, Spared

LEMMA initKeeps ==
    ASSUME SessionInv, init
    PROVE  Kept
<1>1. Closed
  BY DEF init, SessionInv, Sane, Loaded
<1>2. /\ tab \in Pages /\ tab.session = None /\ Begun(tab, server) /\ tab.timers = {}
      /\ tab.watched = {}
  BY <1>1, ClosedIs DEF Closed
<1>3. PICK idle : idle = [tab EXCEPT !.state = "IDLE"]
  OBVIOUS
<1>4. Sane(idle, server, FALSE)
  BY <1>2, <1>3, SessionsAre DEF Sane, Pages, Begun, Superseded, States
<1>5. PICK d \in {source} \cup (IF framework THEN {[s \in Sessions |-> Absent]} ELSE {}) :
        /\ dom' = d
        /\ \E found \in RuntimeWrappers(d) :
              LET t == resumeSession(idle, TRUE, found[1], found[2], d)
                  scout == IF t.session = None \/ found[2] = None THEN {[fresh |-> TRUE]} ELSE {}
              IN tab' = [t EXCEPT !.scout = scout,
                                  !.state = IF @ = "IDLE" THEN "PICKING" ELSE @]
  BY <1>3 DEF init
<1>6. d \in [Sessions -> Looks] /\ BegunIfWritten(d, server)
  <2>1. CASE d = source
    BY <2>1 DEF SessionInv, SessionTypes
  <2>2. CASE d = [s \in Sessions |-> Absent]
    BY <2>2, LiveAssumption DEF Looks, BegunIfWritten, Wrapped, Absent
  <2> QED
    BY <1>5, <2>1, <2>2
<1>7. PICK found \in RuntimeWrappers(d) :
        LET t == resumeSession(idle, TRUE, found[1], found[2], d)
            scout == IF t.session = None \/ found[2] = None THEN {[fresh |-> TRUE]} ELSE {}
        IN tab' = [t EXCEPT !.scout = scout, !.state = IF @ = "IDLE" THEN "PICKING" ELSE @]
  BY <1>5
<1>8. PICK t : t = resumeSession(idle, TRUE, found[1], found[2], d)
  OBVIOUS
<1>9. Sane(t, server, FALSE)
  <2>1. idle.state # "CONFIGURING"
    BY <1>2, <1>3 DEF Pages
  <2>2. Sane(resumeSession(idle, TRUE, found[1], found[2], d), server, FALSE)
    BY <1>4, <1>6, <2>1, WrappersAre, ResumeSane
  <2> QED
    BY <1>8, <2>2
<1>10. PICK u : u = [t EXCEPT !.scout = IF t.session = None \/ found[2] = None
                                        THEN {[fresh |-> TRUE]} ELSE {},
                              !.state = IF @ = "IDLE" THEN "PICKING" ELSE @]
  OBVIOUS
<1>11. tab' = u
  BY <1>7, <1>8, <1>10
<1>12. Sane(u, server, TRUE)
  <2>1. t.state # "CONFIGURING"
    BY <1>9 DEF Sane, Superseded
  <2>2. {[fresh |-> TRUE]} \subseteq [fresh : BOOLEAN]
    OBVIOUS
  <2> QED
    BY <1>9, <1>10, <2>1, <2>2, ZenonT(30) DEF Sane, Pages, Begun, Superseded, States
<1>13. SessionTypes' /\ BegunIfWritten(dom, server)' /\ BegunIfWritten(source, server)'
  BY <1>5, <1>6 DEF SessionInv, SessionTypes, BegunIfWritten, bounds, helper, init
<1>14. Sane(tab, server, TRUE)'
  BY <1>11, <1>12 DEF Sane, Begun, helper, init
<1> QED
  BY <1>13, <1>14 DEF SessionInv, Kept, Spared, init

LEMMA PageKeeps ==
    ASSUME SessionInv, Page
    PROVE  Kept
<1>1. CASE Reload
  <2>1. faults' \in Nat /\ faults' # faults
    BY <1>1 DEF Reload, SessionInv, SessionTypes
  <2>2. Loaded /\ Unload /\ UNCHANGED <<framework, dom, helper>>
    BY <1>1 DEF Reload
  <2> QED
    BY <2>1, <2>2, UnloadKeeps
<1>2. ASSUME NEW s \in Sessions, HotReload(s)
      PROVE  Kept
  <2>1. PICK d : d = [dom EXCEPT ![s] = source[s]]
    OBVIOUS
  <2>2. d \in [Sessions -> Looks] /\ BegunIfWritten(d, server)
    BY <2>1 DEF SessionInv, SessionTypes, BegunIfWritten
  <2>3. Sane(tab, server, TRUE)
    BY <1>2, LoadedIs DEF HotReload
  <2>4. PICK t : t = tab
    OBVIOUS
  <2>5. Mutate(t, d) /\ UNCHANGED <<bounds, helper, stream, inbox>>
    BY <1>2, <2>1, <2>4 DEF HotReload, Mutate
  <2> QED
    BY <2>2, <2>3, <2>4, <2>5, MutateKeeps
<1> QED
  BY <1>1, <1>2, initKeeps DEF Page

LEMMA GeneratingSane ==
    ASSUME NEW sw, NEW t, Sane(t, sw, TRUE), NEW s \in Sessions, s \notin t.handled,
           sw[s] # "new"
    PROVE  Sane(Generating(t, s), sw, TRUE)
<1> DEFINE u == [t EXCEPT !.state = "GENERATING", !.session = s, !.arrived = 0, !.file = FALSE,
                          !.pending = None, !.awaiting = None, !.observed = s]
<1>1. t \in Pages /\ None \in Held /\ s \in Held /\ 0 \in 0 .. Count /\ "GENERATING" \in States
  BY LiveAssumption DEF Sane, Held, States
<1>2. u \in Pages
  BY <1>1 DEF Pages
<1>3. u.session = s /\ u.state = "GENERATING" /\ u.handled = t.handled /\ u.saved = t.saved
  BY <1>1 DEF Pages
<1>4. Generating(t, s) = saveSession(u)
  BY DEF Generating
<1> HIDE DEF u
<1>5. Sane(u, sw, TRUE)
  BY <1>2, <1>3 DEF Sane, Begun, Superseded
<1> QED
  BY <1>4, <1>5, SaveSane

LEMMA handleGoKeeps ==
    ASSUME SessionInv, NEW s \in Sessions, NEW annotated \in BOOLEAN, handleGo(s, annotated)
    PROVE  Kept
<1>1. Sane(tab, server, TRUE) /\ server[s] = "new"
  BY LoadedIs DEF handleGo, Loaded
<1>2. PICK sw : sw = [server EXCEPT ![s] = "announced"]
  OBVIOUS
<1>3. /\ sw \in [Sessions -> Phases] /\ server' = sw /\ sw[s] # "new"
      /\ \A r \in Sessions : server[r] # "new" => sw[r] # "new"
  BY <1>2 DEF SessionInv, SessionTypes, handleGo, Phases
<1>4. Sane(tab, sw, TRUE) /\ s \notin tab.handled
  BY <1>1, <1>3, SaneLater DEF Sane, Begun
<1>5. PICK t : t = Generating(tab, s)
  OBVIOUS
<1>6. Sane(t, sw, TRUE)
  BY <1>3, <1>4, <1>5, GeneratingSane
<1>7. PICK u : u = IF annotated THEN setTimer(t, Timer("capture", s, TRUE, 0))
                   ELSE sendEvent(t, "generate", s)
  OBVIOUS
<1>8. Sane(u, sw, TRUE)
  <2>1. Timer("capture", s, TRUE, 0) \in TimerTypes
        /\ Timer("capture", s, TRUE, 0).kind \notin Revised
    BY LiveAssumption DEF Timer, TimerTypes, Revised, Recovery
  <2> QED
    BY <1>6, <1>7, <2>1, TimerSane, SendSane
<1>9. tab' = u
  BY <1>5, <1>7 DEF handleGo
<1>10. /\ source' \in [Sessions -> Looks] /\ BegunIfWritten(source', sw) /\ inbox' \in Seq(Told)
       /\ UNCHANGED <<bounds, dom, stream>>
  BY <1>3 DEF handleGo, SessionInv, SessionTypes, BegunIfWritten
<1> QED
  BY <1>3, <1>8, <1>9, <1>10, ServerKeeps

LEMMA UserKeeps ==
    ASSUME SessionInv, User
    PROVE  Kept
<1>1. CASE Pick
  <2>1. Sane(tab, server, TRUE)
    BY <1>1, LoadedIs DEF Pick, Loaded
  <2>2. PICK t : t = beginNewLiveConfiguration(tab)
    OBVIOUS
  <2>3. Sane(t, server, TRUE)
    BY <2>1, <2>2, ConfigureSane
  <2> QED
    BY <1>1, <2>2, <2>3, HandleKeeps DEF Pick, Handle
<1>2. CASE exitConfigureToPicking
  <2>1. Sane(tab, server, TRUE)
    BY <1>2, LoadedIs DEF exitConfigureToPicking, Loaded
  <2>2. PICK t : t = [tab EXCEPT !.state = "PICKING"]
    OBVIOUS
  <2>3. Sane(t, server, TRUE)
    BY <2>1, <2>2 DEF Sane, Pages, Begun, Superseded, States
  <2> QED
    BY <1>2, <2>2, <2>3, HandleKeeps DEF exitConfigureToPicking, Handle
<1>3. CASE handleAccept
  <2>1. Sane(tab, server, TRUE) /\ tab.session # None
    BY <1>3, LoadedIs DEF handleAccept, Loaded
  <2>2. PICK t : t = [tab EXCEPT !.state = "SAVING", !.pending = tab.session]
    OBVIOUS
  <2>3. Sane(t, server, TRUE)
    BY <2>1, <2>2 DEF Sane, Pages, Begun, Superseded, States
  <2>4. tab.session \in Sessions
    BY <2>1 DEF Sane, Pages, Held
  <2>5. PICK u : u = sendEvent(saveSession(t), "accept", tab.session)
    OBVIOUS
  <2>6. Sane(u, server, TRUE)
    BY <2>3, <2>4, <2>5, SaveSane, SendSane
  <2> QED
    BY <1>3, <2>2, <2>5, <2>6, HandleKeeps DEF handleAccept, Handle
<1>4. CASE handleDiscard
  <2>1. Sane(tab, server, TRUE) /\ tab.session \in Sessions
    BY <1>4, LoadedIs DEF handleDiscard, Loaded, Sane, Pages, Held
  <2>2. PICK u : u = sendEvent(tab, "discard", tab.session)
    OBVIOUS
  <2>3. Sane(u, server, TRUE)
    BY <2>1, <2>2, SendSane
  <2> QED
    BY <1>4, <2>2, <2>3, HandleKeeps DEF handleDiscard, Handle
<1> QED
  BY <1>1, <1>2, <1>3, <1>4, handleGoKeeps DEF User

LEMMA ServeKeeps ==
    ASSUME SessionInv, NEW p \in tab.posts, Serve(p)
    PROVE  Kept
<1>1. Sane(tab, server, TRUE) /\ p \in PostTypes
  BY ClosedIs DEF SessionInv, Sane, Pages
<1>2. PICK result \in {"ok", "failed"} :
        /\ tab' = [tab EXCEPT !.posts = (@ \ {p}) \cup {[p EXCEPT !.step = result]}]
        /\ \/ result = "failed" /\ UNCHANGED server
           \/ /\ result = "ok"
              /\ server' = [server EXCEPT ![p.id] =
                    CASE p.kind = "generate" -> "requested"
                      [] p.kind = "accept" /\ @ \in {"requested", "generated"} -> "accepting"
                      [] p.kind \in {"discard", "orphan"} /\ @ \in {"requested", "generated"} ->
                            "discarding"
                      [] OTHER -> @]
  BY DEF Serve
<1>3. PICK t : t = [tab EXCEPT !.posts = (@ \ {p}) \cup {[p EXCEPT !.step = result]}]
  OBVIOUS
<1>4. Sane(t, server, TRUE)
  <2>1. [p EXCEPT !.step = result] \in PostTypes
    BY <1>1 DEF PostTypes
  <2> QED
    BY <1>1, <1>3, <2>1 DEF Sane, Pages, Begun, Superseded
<1>5. PICK sw : sw = server'
  OBVIOUS
<1>6. /\ sw \in [Sessions -> Phases]
      /\ \A s \in Sessions : server[s] # "new" => sw[s] # "new"
  <2>1. PICK phase \in Phases : sw = [server EXCEPT ![p.id] = phase] /\ (server[p.id] # "new" => phase # "new")
    <3>1. server[p.id] \in Phases /\ server = [server EXCEPT ![p.id] = server[p.id]]
      BY <1>1 DEF PostTypes, SessionInv, SessionTypes
    <3>2. CASE UNCHANGED server
      BY <1>5, <3>1, <3>2
    <3>3. CASE ~UNCHANGED server
      <4>1. PICK phase :
              /\ sw = [server EXCEPT ![p.id] = phase]
              /\ phase = CASE p.kind = "generate" -> "requested"
                           [] /\ p.kind = "accept"
                              /\ server[p.id] \in {"requested", "generated"} -> "accepting"
                           [] /\ p.kind \in {"discard", "orphan"}
                              /\ server[p.id] \in {"requested", "generated"} -> "discarding"
                           [] OTHER -> server[p.id]
        BY <1>2, <1>5, <3>3
      <4>2. phase \in {"requested", "accepting", "discarding", server[p.id]}
        BY <4>1
      <4> QED
        BY <3>1, <4>1, <4>2 DEF Phases
    <3> QED
      BY <3>2, <3>3
  <2> QED
    BY <2>1 DEF SessionInv, SessionTypes
<1>7. Sane(t, sw, TRUE)
  BY <1>4, <1>6, SaneLater
<1>8. /\ source' \in [Sessions -> Looks] /\ BegunIfWritten(source', sw) /\ inbox' \in Seq(Told)
      /\ UNCHANGED <<bounds, dom, stream>>
  BY <1>6 DEF Serve, SessionInv, SessionTypes, BegunIfWritten
<1> QED
  BY <1>2, <1>3, <1>5, <1>6, <1>7, <1>8, ServerKeeps

LEMMA PostsKeep ==
    ASSUME SessionInv, Posts
    PROVE  Kept
<1>1. ASSUME NEW p \in tab.posts, Answer(p)
      PROVE  Kept
  <2>1. Sane(tab, server, TRUE) /\ p \in PostTypes
    BY <1>1, LoadedIs DEF Answer, Sane, Pages
  <2>2. PICK rest : rest = tab.posts \ {p}
    OBVIOUS
  <2>3. rest \subseteq PostTypes /\ Ungated(rest) \subseteq PostTypes
    BY <2>1, <2>2 DEF Sane, Pages, Ungated, PostTypes
  <2>4. PICK t : t = [tab EXCEPT !.posts = IF p.kind = "generate" THEN Ungated(rest) ELSE rest]
    OBVIOUS
  <2>5. Sane(t, server, TRUE)
    BY <2>1, <2>3, <2>4 DEF Sane, Pages, Begun, Superseded
  <2>6. PICK u : u = Continued(t, p)
    OBVIOUS
  <2>7. Sane(u, server, TRUE)
    BY <2>1, <2>5, <2>6, ContinuedSane
  <2> QED
    BY <1>1, <2>2, <2>4, <2>6, <2>7, HandleKeeps DEF Answer, Handle
<1>2. ASSUME NEW p \in tab.posts, CheckpointAnswer(p)
      PROVE  Kept
  <2>1. Sane(tab, server, TRUE)
    BY <1>2, LoadedIs DEF CheckpointAnswer
  <2>2. PICK t : t = [tab EXCEPT !.posts = @ \ {p}]
    OBVIOUS
  <2>3. Sane(t, server, TRUE)
    BY <2>1, <2>2 DEF Sane, Pages, Begun, Superseded
  <2>4. PICK u : u = cleanup(markSessionHandled(t))
    OBVIOUS
  <2>5. Sane(u, server, TRUE)
    BY <2>3, <2>4, MarkedCleanSane
  <2> QED
    BY <1>2, <2>2, <2>3, <2>4, <2>5, HandleKeeps DEF CheckpointAnswer, Handle
<1> QED
  BY <1>1, <1>2, ServeKeeps DEF Posts

-----------------------------------------------------------------------------
(***************************************************************************)
(* What was put off.                                                       *)
(***************************************************************************)
LEMMA DoneSane ==
    ASSUME SessionInv, NEW timer, Fire(timer)
    PROVE  /\ Sane(Done(timer), server, TRUE) /\ timer \in TimerTypes
           /\ Sane(tab, server, TRUE)
           /\ Done(timer).state = tab.state /\ Done(timer).session = tab.session
           /\ timer.kind \in Revised /\ timer.fresh => tab.state # "CONFIGURING"
<1>1. Sane(tab, server, TRUE)
  BY LoadedIs DEF Fire
<1> QED
  BY <1>1 DEF Fire, Done, Sane, Pages, Begun, Superseded

\* The kinds of recovery, one after the other.
LEMMA NextTimerSane ==
    ASSUME NEW t, Sane(t, server, TRUE), NEW timer \in TimerTypes, NEW kind \in Revised,
           timer.fresh => t.state # "CONFIGURING"
    PROVE  Sane(setTimer(t, [timer EXCEPT !.kind = kind]), server, TRUE)
<1>1. PICK x : x = [timer EXCEPT !.kind = kind]
  OBVIOUS
<1>2. x \in TimerTypes /\ x.fresh = timer.fresh
  BY <1>1 DEF TimerTypes, Revised
<1>3. Sane(setTimer(t, x), server, TRUE)
  BY <1>2, TimerSane DEF TimerTypes
<1> QED
  BY <1>1, <1>3

LEMMA DiscardTimerSane ==
    ASSUME NEW t, Sane(t, server, TRUE), NEW s \in Sessions
    PROVE  Sane(setTimer(t, Timer("discard", s, TRUE, 0)), server, TRUE)
<1>1. Timer("discard", s, TRUE, 0) \in TimerTypes
      /\ Timer("discard", s, TRUE, 0).kind \notin Revised
  BY LiveAssumption DEF Timer, TimerTypes, Revised, Recovery
<1> QED
  BY <1>1, TimerSane

LEMMA ReloadIfKeeps ==
    ASSUME SessionInv, Loaded, NEW stale, NEW t, Sane(t, server, TRUE), ReloadIf(stale, t),
           stale => tab.state # "CONFIGURING"
    PROVE  Kept
<1>1. CASE stale /\ Unload /\ UNCHANGED <<bounds, dom, helper>>
  <2>1. faults' \in Nat /\ UNCHANGED <<framework, dom, helper>>
    BY <1>1 DEF SessionInv, SessionTypes, bounds
  <2> QED
    BY <1>1, <2>1, UnloadKeeps
<1>2. CASE ~stale /\ Handle(t)
  BY <1>2, HandleKeeps DEF Handle
<1> QED
  BY <1>1, <1>2 DEF ReloadIf

LEMMA AcceptedLateKeeps ==
    ASSUME SessionInv, NEW timer, AcceptedLate(timer)
    PROVE  Kept
<1>1. PICK t : t = Done(timer)
  OBVIOUS
<1>2. /\ Sane(t, server, TRUE) /\ timer \in TimerTypes /\ timer.kind \in Revised /\ Loaded
      /\ t.state = tab.state
      /\ timer.fresh => tab.state # "CONFIGURING"
  BY <1>1, DoneSane DEF AcceptedLate, Fire, Revised, Recovery
<1>3. \/ tab' = t /\ UNCHANGED <<bounds, dom, helper, stream, inbox>>
      \/ /\ tab' = setTimer(t, [timer EXCEPT !.kind = "acceptReload"])
         /\ UNCHANGED <<bounds, dom, helper, stream, inbox>>
      \/ /\ Mutate(t, [dom EXCEPT ![timer.id] = Clean])
         /\ UNCHANGED <<bounds, helper, stream, inbox>>
      \/ timer.fresh /\ Unload /\ UNCHANGED <<bounds, dom, helper>>
  BY <1>1 DEF AcceptedLate, Handle, deferredRecoverySuperseded
<1>4. CASE tab' = t /\ UNCHANGED <<bounds, dom, helper, stream, inbox>>
  BY <1>2, <1>4, HandleKeeps
<1>5. CASE /\ tab' = setTimer(t, [timer EXCEPT !.kind = "acceptReload"])
           /\ UNCHANGED <<bounds, dom, helper, stream, inbox>>
  <2>1. PICK u : u = setTimer(t, [timer EXCEPT !.kind = "acceptReload"])
    OBVIOUS
  <2>2. "acceptReload" \in Revised
    BY DEF Revised, Recovery
  <2>3. Sane(u, server, TRUE)
    BY <1>2, <2>1, <2>2, NextTimerSane
  <2> QED
    BY <1>5, <2>1, <2>3, HandleKeeps
<1>6. CASE /\ Mutate(t, [dom EXCEPT ![timer.id] = Clean])
           /\ UNCHANGED <<bounds, helper, stream, inbox>>
  <2>1. PICK d : d = [dom EXCEPT ![timer.id] = Clean]
    OBVIOUS
  <2>2. d \in [Sessions -> Looks] /\ BegunIfWritten(d, server)
    <3>1. Clean \in Looks /\ ~Wrapped(Clean)
      BY LiveAssumption DEF Looks, Wrapped, Clean
    <3>2. dom \in [Sessions -> Looks] /\ BegunIfWritten(dom, server)
      BY DEF SessionInv, SessionTypes
    <3> QED
      BY <2>1, <3>1, <3>2 DEF BegunIfWritten
  <2>3. Mutate(t, d)
    BY <1>6, <2>1
  <2> QED
    BY <1>2, <1>6, <2>2, <2>3, MutateKeeps
<1>7. CASE timer.fresh /\ Unload /\ UNCHANGED <<bounds, dom, helper>>
  <2>1. faults' \in Nat /\ UNCHANGED <<framework, dom, helper>>
    BY <1>7 DEF SessionInv, SessionTypes, bounds
  <2> QED
    BY <1>2, <1>7, <2>1, UnloadKeeps
<1> QED
  BY <1>3, <1>4, <1>5, <1>6, <1>7

LEMMA AcceptedReloadKeeps ==
    ASSUME SessionInv, NEW timer, AcceptedReload(timer)
    PROVE  Kept
<1>1. PICK t : t = Done(timer)
  OBVIOUS
<1>2. /\ Sane(t, server, TRUE) /\ Loaded
      /\ timer.fresh => tab.state # "CONFIGURING"
  BY <1>1, DoneSane DEF AcceptedReload, Fire, Revised, Recovery
<1>3. PICK clean \in MayBeClean(dom[timer.id]) :
        ReloadIf(~clean /\ ~deferredRecoverySuperseded(tab, timer.id, timer.fresh), t)
  BY <1>1 DEF AcceptedReload
<1>4. PICK stale : stale = (~clean /\ ~deferredRecoverySuperseded(tab, timer.id, timer.fresh))
  OBVIOUS
<1>5. ReloadIf(stale, t) /\ (stale => timer.fresh)
  BY <1>3, <1>4 DEF deferredRecoverySuperseded
<1> QED
  BY <1>2, <1>5, ReloadIfKeeps

LEMMA CleanupLateKeeps ==
    ASSUME SessionInv, NEW timer, CleanupLate(timer)
    PROVE  Kept
<1>1. PICK t : t = Done(timer)
  OBVIOUS
<1>2. /\ Sane(t, server, TRUE) /\ timer \in TimerTypes
      /\ t.state = tab.state
      /\ timer.fresh => tab.state # "CONFIGURING"
  BY <1>1, DoneSane DEF CleanupLate, Revised, Recovery
<1>3. \/ tab' = t /\ UNCHANGED <<bounds, dom, helper, stream, inbox>>
      \/ /\ Mutate(t, [dom EXCEPT ![timer.id] = Absent])
         /\ UNCHANGED <<bounds, helper, stream, inbox>>
      \/ /\ tab' = setTimer(t, Timer("discard", timer.id, TRUE, 0))
         /\ UNCHANGED <<bounds, dom, helper, stream, inbox>>
      \/ /\ tab' = setTimer(t, [timer EXCEPT !.kind = "cleanup2"])
         /\ UNCHANGED <<bounds, dom, helper, stream, inbox>>
  BY <1>1 DEF CleanupLate, Handle
<1>4. CASE tab' = t /\ UNCHANGED <<bounds, dom, helper, stream, inbox>>
  BY <1>2, <1>4, HandleKeeps
<1>5. CASE /\ Mutate(t, [dom EXCEPT ![timer.id] = Absent])
           /\ UNCHANGED <<bounds, helper, stream, inbox>>
  <2>1. PICK d : d = [dom EXCEPT ![timer.id] = Absent]
    OBVIOUS
  <2>2. d \in [Sessions -> Looks] /\ BegunIfWritten(d, server)
    <3>1. Absent \in Looks /\ ~Wrapped(Absent)
      BY LiveAssumption DEF Looks, Wrapped, Absent
    <3>2. dom \in [Sessions -> Looks] /\ BegunIfWritten(dom, server)
      BY DEF SessionInv, SessionTypes
    <3> QED
      BY <2>1, <3>1, <3>2 DEF BegunIfWritten
  <2>3. Mutate(t, d)
    BY <1>5, <2>1
  <2> QED
    BY <1>2, <1>5, <2>2, <2>3, MutateKeeps
<1>6. CASE /\ tab' = setTimer(t, Timer("discard", timer.id, TRUE, 0))
           /\ UNCHANGED <<bounds, dom, helper, stream, inbox>>
  <2>1. PICK u : u = setTimer(t, Timer("discard", timer.id, TRUE, 0))
    OBVIOUS
  <2>2. Sane(u, server, TRUE)
    BY <1>2, <2>1, DiscardTimerSane DEF TimerTypes
  <2> QED
    BY <1>6, <2>1, <2>2, HandleKeeps
<1>7. CASE /\ tab' = setTimer(t, [timer EXCEPT !.kind = "cleanup2"])
           /\ UNCHANGED <<bounds, dom, helper, stream, inbox>>
  <2>1. PICK u : u = setTimer(t, [timer EXCEPT !.kind = "cleanup2"])
    OBVIOUS
  <2>2. "cleanup2" \in Revised
    BY DEF Revised, Recovery
  <2>3. Sane(u, server, TRUE)
    BY <1>2, <2>1, <2>2, NextTimerSane
  <2> QED
    BY <1>7, <2>1, <2>3, HandleKeeps
<1> QED
  BY <1>3, <1>4, <1>5, <1>6, <1>7

LEMMA CleanupReloadKeeps ==
    ASSUME SessionInv, NEW timer, CleanupReload(timer)
    PROVE  Kept
<1>1. /\ Sane(Done(timer), server, TRUE) /\ Loaded /\ timer.id \in Sessions
      /\ timer.fresh => tab.state # "CONFIGURING"
  <2>1. Fire(timer) /\ timer.kind \in Revised
    BY DEF CleanupReload, Revised, Recovery
  <2>2. timer \in TimerTypes => timer.id \in Sessions
    BY DEF TimerTypes
  <2> QED
    BY <2>1, <2>2, DoneSane DEF Fire
<1>2. PICK superseded : superseded = deferredRecoverySuperseded(tab, timer.id, timer.fresh)
  OBVIOUS
<1>3. PICK t : t = IF superseded /\ Wrapped(dom[timer.id])
                   THEN setTimer(Done(timer), Timer("discard", timer.id, TRUE, 0)) ELSE Done(timer)
  OBVIOUS
<1>4. Sane(t, server, TRUE)
  BY <1>1, <1>3, DiscardTimerSane
<1>5. PICK stale : stale = (~superseded /\ Wrapped(dom[timer.id]))
  OBVIOUS
<1>6. ReloadIf(stale, t)
  BY <1>2, <1>3, <1>5 DEF CleanupReload
<1>7. stale => tab.state # "CONFIGURING"
  BY <1>1, <1>2, <1>5 DEF deferredRecoverySuperseded
<1> QED
  BY <1>1, <1>4, <1>6, <1>7, ReloadIfKeeps

LEMMA DiscardedReloadKeeps ==
    ASSUME SessionInv, NEW timer, DiscardedReload(timer)
    PROVE  Kept
<1>1. Sane(Done(timer), server, TRUE) /\ Sane(tab, server, TRUE) /\ Loaded
  BY DoneSane DEF DiscardedReload, Fire
<1>2. PICK t : t = IF Wrapped(dom[timer.id]) THEN tab ELSE Done(timer)
  OBVIOUS
<1>3. Sane(t, server, TRUE)
  BY <1>1, <1>2
<1>4. PICK stale :
        stale = (/\ Wrapped(dom[timer.id])
                 /\ ~(tab.session # None \/ tab.state \notin {"IDLE", "PICKING"}))
  OBVIOUS
<1>5. ReloadIf(stale, t)
  BY <1>2, <1>4 DEF DiscardedReload
<1>6. stale => tab.state # "CONFIGURING"
  BY <1>4
<1> QED
  BY <1>1, <1>3, <1>5, <1>6, ReloadIfKeeps

LEMMA HandledReloadKeeps ==
    ASSUME SessionInv, NEW timer, HandledReload(timer)
    PROVE  Kept
<1>1. /\ Sane(Done(timer), server, TRUE) /\ Loaded /\ timer.id \in Sessions
      /\ timer.fresh => tab.state # "CONFIGURING"
  <2>1. Fire(timer) /\ timer.kind \in Revised
    BY DEF HandledReload, Revised, Recovery
  <2>2. timer \in TimerTypes => timer.id \in Sessions
    BY DEF TimerTypes
  <2> QED
    BY <2>1, <2>2, DoneSane DEF Fire
<1>2. PICK t : t = [Done(timer) EXCEPT !.attempts[timer.id] = 0]
  OBVIOUS
<1>3. Sane(t, server, TRUE)
  <2>1. PICK u : u = Done(timer)
    OBVIOUS
  <2>2. Sane(u, server, TRUE) /\ t = [u EXCEPT !.attempts[timer.id] = 0]
    BY <1>1, <1>2, <2>1
  <2> QED
    BY <2>2 DEF Sane, Pages, Begun, Superseded
<1>4. PICK stale : stale = (/\ ~deferredRecoverySuperseded(tab, timer.id, timer.fresh)
                            /\ Marked(dom[timer.id]))
  OBVIOUS
<1>5. ReloadIf(stale, t)
  BY <1>2, <1>4 DEF HandledReload
<1>6. stale => tab.state # "CONFIGURING"
  BY <1>1, <1>4 DEF deferredRecoverySuperseded
<1> QED
  BY <1>1, <1>3, <1>5, <1>6, ReloadIfKeeps

LEMMA TimeoutsKeep ==
    ASSUME SessionInv, Timeouts
    PROVE  Kept
<1>1. CASE QueuedCheckpoint
  <2>1. Sane(tab, server, TRUE)
    BY <1>1, ClosedIs DEF QueuedCheckpoint, SessionInv
  <2>2. PICK t : t = [tab EXCEPT !.queued = FALSE]
    OBVIOUS
  <2>3. Sane(t, server, TRUE)
    BY <2>1, <2>2 DEF Sane, Pages, Begun, Superseded
  <2>4. PICK u : u = sendCheckpoint(t)
    OBVIOUS
  <2>5. Sane(u, server, TRUE)
    BY <2>3, <2>4, CheckpointSane
  <2> QED
    BY <1>1, <2>2, <2>4, <2>5, HandleKeeps DEF QueuedCheckpoint, Handle
<1>2. ASSUME NEW timer, Captured(timer)
      PROVE  Kept
  <2>1. Sane(Done(timer), server, TRUE) /\ timer.id \in Sessions
    <3>1. Sane(Done(timer), server, TRUE) /\ timer \in TimerTypes
      BY <1>2, DoneSane DEF Captured
    <3> QED
      BY <3>1 DEF TimerTypes
  <2>2. PICK u : u = sendEvent(Done(timer), "generate", timer.id)
    OBVIOUS
  <2>3. Sane(u, server, TRUE)
    BY <2>1, <2>2, SendSane
  <2> QED
    BY <1>2, <2>2, <2>3, HandleKeeps DEF Captured, Handle
<1>3. ASSUME NEW timer, Reread(timer)
      PROVE  Kept
  <2>1. Sane(Done(timer), server, TRUE) /\ timer \in TimerTypes
    BY <1>3, DoneSane DEF Reread
  <2>2. PICK t : t = Done(timer)
    OBVIOUS
  <2>3. PICK r : r = Read(timer.id, timer.kind # "retryOrphan", timer.kind = "retryOrphan", timer.n)
    OBVIOUS
  <2>4. r \in ReadTypes
    BY <2>1, <2>3 DEF Read, ReadTypes, TimerTypes
  <2>5. PICK u : u = injectVariantsFromSource(t, r, dom)
    OBVIOUS
  <2>6. Sane(t, server, TRUE) /\ Sane(u, server, TRUE)
    BY <2>1, <2>2, <2>4, <2>5, InjectSane
  <2>7. (tab' = t \/ tab' = u) /\ UNCHANGED <<bounds, dom, helper, stream, inbox>>
    BY <1>3, <2>2, <2>3, <2>5 DEF Reread, Handle
  <2> QED
    BY <2>6, <2>7, HandleKeeps
<1>4. ASSUME NEW w \in tab.watched, WatchEnds(w)
      PROVE  Kept
  <2>1. Sane(tab, server, TRUE)
    BY <1>4, ClosedIs DEF SessionInv
  <2>2. PICK t : t = [tab EXCEPT !.watched = @ \ {w}]
    OBVIOUS
  <2>3. Sane(t, server, TRUE)
    BY <2>1, <2>2 DEF Sane, Pages, Begun, Superseded
  <2> QED
    BY <1>4, <2>2, <2>3, HandleKeeps DEF WatchEnds, Handle
<1> QED
  BY <1>1, <1>2, <1>3, <1>4, AcceptedLateKeeps, AcceptedReloadKeeps, CleanupLateKeeps,
     CleanupReloadKeeps, DiscardedReloadKeeps, HandledReloadKeeps DEF Timeouts

LEMMA ReadsKeep ==
    ASSUME SessionInv, Reads
    PROVE  Kept
<1>1. ASSUME NEW r \in tab.reads, ReadAnswer(r)
      PROVE  Kept
  <2>1. Sane(tab, server, TRUE) /\ r \in ReadTypes
    BY <1>1, LoadedIs DEF ReadAnswer, Sane, Pages
  <2>2. PICK t : t = [tab EXCEPT !.reads = @ \ {r}]
    OBVIOUS
  <2>3. Sane(t, server, TRUE) /\ t.session = tab.session
    BY <2>1, <2>2 DEF Sane, Pages, Begun, Superseded
  <2>4. PICK orphaned : orphaned = Orphaned(t, r)
    OBVIOUS
  <2>5. t.session = r.id => Sane(orphaned, server, TRUE)
    BY <2>1, <2>3, <2>4, OrphanedSane
  <2>6. PICK u : u = completeSourceInjection(t, r, source[r.id])
    OBVIOUS
  <2>7. Wrapped(source[r.id]) => Sane(u, server, TRUE)
    BY <2>1, <2>3, <2>6, CompleteSane DEF Wrapped
  <2>8. PICK v : v = [t EXCEPT !.state = "GENERATING", !.anchor = r.id]
    OBVIOUS
  <2>9. Sane(v, server, TRUE)
    <3>1. t \in Pages /\ r.id \in Held /\ "GENERATING" \in States
      BY <2>1, <2>3 DEF Sane, ReadTypes, Held, States
    <3>2. v \in Pages
      BY <2>8, <3>1 DEF Pages
    <3>3. /\ v.state = "GENERATING" /\ v.session = t.session /\ v.handled = t.handled
          /\ v.saved = t.saved
      BY <2>8, <3>1 DEF Pages
    <3> QED
      BY <2>3, <3>2, <3>3 DEF Sane, Begun, Superseded
  <2>10. PICK w : w = queueCheckpoint(saveSession(v))
    OBVIOUS
  <2>11. Sane(w, server, TRUE)
    BY <2>9, <2>10, SaveSane, CheckpointSane
  <2>12. \/ /\ tab' = t \/ (tab' = orphaned /\ t.session = r.id) \/ tab' = w
            /\ UNCHANGED <<bounds, dom, helper, stream, inbox>>
         \/ /\ Wrapped(source[r.id])
            /\ Mutate(u, [dom EXCEPT ![r.id] = source[r.id]])
            /\ UNCHANGED <<bounds, helper, stream, inbox>>
    BY <1>1, <2>2, <2>4, <2>6, <2>8, <2>10 DEF ReadAnswer, Handle, enterRecoveryWaitingForAnchor
  <2>13. CASE /\ Wrapped(source[r.id])
              /\ Mutate(u, [dom EXCEPT ![r.id] = source[r.id]])
              /\ UNCHANGED <<bounds, helper, stream, inbox>>
    <3>1. PICK d : d = [dom EXCEPT ![r.id] = source[r.id]]
      OBVIOUS
    <3>2. d \in [Sessions -> Looks] /\ BegunIfWritten(d, server)
      BY <2>1, <3>1 DEF SessionInv, SessionTypes, BegunIfWritten, ReadTypes
    <3>3. Mutate(u, d)
      BY <2>13, <3>1
    <3> QED
      BY <2>7, <2>13, <3>2, <3>3, MutateKeeps
  <2> QED
    BY <2>3, <2>5, <2>11, <2>12, <2>13, HandleKeeps
<1>2. ASSUME NEW r \in tab.reads, ReadFails(r)
      PROVE  Kept
  <2>1. Sane(tab, server, TRUE) /\ r \in ReadTypes
    BY <1>2, LoadedIs DEF ReadFails, Sane, Pages
  <2>2. PICK t : t = [tab EXCEPT !.reads = @ \ {r}]
    OBVIOUS
  <2>3. Sane(t, server, TRUE)
    BY <2>1, <2>2 DEF Sane, Pages, Begun, Superseded
  <2>4. PICK u : u = setTimer(t, Timer("retryOrphan", r.id, TRUE, r.n + 1))
    OBVIOUS
  <2>5. r.n < Retries => Sane(u, server, TRUE)
    <3>1. r.n < Retries => Timer("retryOrphan", r.id, TRUE, r.n + 1) \in TimerTypes
      BY <2>1, LiveAssumption DEF Timer, TimerTypes, ReadTypes
    <3>2. Timer("retryOrphan", r.id, TRUE, r.n + 1).kind \notin Revised
      BY DEF Timer, Revised, Recovery
    <3> QED
      BY <2>3, <2>4, <3>1, <3>2, TimerSane
  <2>6. /\ tab' = t \/ (tab' = u /\ r.n < Retries)
        /\ UNCHANGED <<bounds, dom, helper, stream, inbox>>
    BY <1>2, <2>2, <2>4 DEF ReadFails, Handle
  <2> QED
    BY <2>3, <2>5, <2>6, HandleKeeps
<1>3. CASE AnchorAppears
  <2>1. Sane(tab, server, TRUE) /\ tab.anchor \in Sessions
    BY <1>3, ClosedIs DEF AnchorAppears, SessionInv, Sane, Pages, Held
  <2>2. PICK t : t = [tab EXCEPT !.anchor = None]
    OBVIOUS
  <2>3. Sane(t, server, TRUE)
    BY <2>1, <2>2 DEF Sane, Pages, Begun, Superseded, Held
  <2>4. PICK r : r = Read(tab.anchor, FALSE, FALSE, 0)
    OBVIOUS
  <2>5. r \in ReadTypes
    BY <2>1, <2>4, LiveAssumption DEF Read, ReadTypes
  <2>6. PICK u : u = injectVariantsFromSource(t, r, dom)
    OBVIOUS
  <2>7. Sane(u, server, TRUE)
    BY <2>3, <2>5, <2>6, InjectSane
  <2> QED
    BY <1>3, <2>2, <2>4, <2>6, <2>7, HandleKeeps DEF AnchorAppears, Handle
<1> QED
  BY <1>1, <1>2, <1>3 DEF Reads

-----------------------------------------------------------------------------
(***************************************************************************)
(* The event stream, and the helper with its agent.                        *)
(***************************************************************************)
LEMMA StreamKeeps ==
    ASSUME SessionInv, NEW t, Sane(t, server, TRUE), tab' = t,
           stream' \in {"connecting", "open", "closed"}, inbox' \in Seq(Told),
           faults' \in Nat, UNCHANGED <<framework, dom, helper>>
    PROVE  Kept
<1>1. SessionTypes' /\ BegunIfWritten(dom, server)' /\ BegunIfWritten(source, server)'
  BY DEF SessionInv, SessionTypes, BegunIfWritten, helper
<1>2. Sane(tab, server, TRUE)'
  BY DEF Sane, Begun, helper
<1>3. tab'.state # "UNLOADED"
  BY DEF Sane
<1> QED
  BY <1>1, <1>2, <1>3 DEF SessionInv, Kept, Spared

LEMMA ConnectKeeps ==
    ASSUME SessionInv, Connect
    PROVE  Kept
<1>1. Sane(tab, server, TRUE)
  BY ClosedIs DEF Connect, SessionInv
<1>2. PICK restored \in restoreFromActiveSessions(tab, ActiveSessions, dom) :
        tab' = [recoverMissedGenerationCompletion(restored) EXCEPT
                   !.state = IF @ = "IDLE" THEN "PICKING" ELSE @]
  BY DEF Connect
<1>3. Sane(restored, server, TRUE)
  <2>1. CASE restored = tab
    BY <1>1, <2>1
  <2>2. CASE restored = restoreSessionWithoutWrapper(tab, tab.saved, ActiveSessions, dom)
    <3>1. /\ tab.saved \in {NoSave} \cup Saves
          /\ tab.saved # NoSave => server[tab.saved.id] # "new"
      BY <1>1 DEF Sane, Pages, Saves, Begun
    <3> QED
      BY <1>1, <2>2, <3>1, RestoreSane
  <2>3. ASSUME NEW saved \in Adoptable(tab, ActiveSessions),
               restored = restoreSessionWithoutWrapper(tab, saved, ActiveSessions, dom)
        PROVE  Sane(restored, server, TRUE)
    <3>1. PICK s \in ActiveSessions \ {None} :
            /\ saved = [id |-> s, state |-> "GENERATING", arrived |-> 0, file |-> TRUE]
            /\ server[s] \in {"requested", "generated"}
      BY <2>3 DEF Adoptable
    <3>2. s \in Sessions
      BY DEF ActiveSessions
    <3>3. saved \in Saves /\ server[saved.id] # "new"
      BY <3>1, <3>2, LiveAssumption DEF Saves, States
    <3> QED
      BY <1>1, <2>3, <3>3, RestoreSane
  <2> QED
    BY <2>1, <2>2, <2>3 DEF restoreFromActiveSessions
<1>4. PICK t : t = recoverMissedGenerationCompletion(restored)
  OBVIOUS
<1>5. Sane(t, server, TRUE)
  <2>1. PICK u : u = [restored EXCEPT !.file = TRUE]
    OBVIOUS
  <2>2. Sane(u, server, TRUE)
    BY <1>3, <2>1 DEF Sane, Pages, Begun, Superseded
  <2>3. PICK timer : timer = Timer("read", restored.session, TRUE, 0)
    OBVIOUS
  <2>4. restored.session # None => timer \in TimerTypes /\ timer.kind \notin Revised
    BY <1>3, <2>3, LiveAssumption DEF Timer, TimerTypes, Revised, Recovery, Sane, Pages, Held
  <2>5. t = restored \/ (t = setTimer(u, timer) /\ restored.session # None)
    BY <1>4, <2>1, <2>3 DEF recoverMissedGenerationCompletion
  <2> QED
    BY <1>3, <2>2, <2>4, <2>5, TimerSane
<1>6. PICK u : u = [t EXCEPT !.state = IF @ = "IDLE" THEN "PICKING" ELSE @]
  OBVIOUS
<1>7. Sane(u, server, TRUE)
  BY <1>5, <1>6 DEF Sane, Pages, Begun, Superseded, States
<1>8. tab' = u
  BY <1>2, <1>4, <1>6
<1>9. /\ stream' \in {"connecting", "open", "closed"} /\ inbox' \in Seq(Told)
      /\ faults' \in Nat /\ UNCHANGED <<framework, dom, helper>>
  BY DEF Connect, SessionInv, SessionTypes, bounds
<1> QED
  BY <1>7, <1>8, <1>9, StreamKeeps

LEMMA StreamsKeep ==
    ASSUME SessionInv, Stream
    PROVE  Kept
<1>1. CASE Disconnect
  <2>1. Sane(tab, server, TRUE)
    BY <1>1, ClosedIs DEF Disconnect, SessionInv
  <2>2. PICK t : t = tab
    OBVIOUS
  <2>3. /\ stream' \in {"connecting", "open", "closed"} /\ inbox' \in Seq(Told)
        /\ faults' \in Nat /\ UNCHANGED <<framework, dom, helper>> /\ tab' = t
    BY <1>1, <2>2 DEF Disconnect, SessionInv, SessionTypes
  <2> QED
    BY <2>1, <2>2, <2>3, StreamKeeps
<1>2. CASE handleServerLost
  <2>1. Sane(tab, server, TRUE)
    BY <1>2, ClosedIs DEF handleServerLost, SessionInv
  <2>2. PICK t : t = [tab EXCEPT !.observed = None,
                                 !.state = IF tab.session = None THEN "IDLE" ELSE @]
    OBVIOUS
  <2>3. Sane(t, server, TRUE)
    BY <2>1, <2>2, ZenonT(30) DEF Sane, Pages, Begun, Superseded, States, Held
  <2>4. PICK u : u = saveSession(t)
    OBVIOUS
  <2>5. Sane(u, server, TRUE)
    BY <2>3, <2>4, SaveSane
  <2>6. /\ stream' \in {"connecting", "open", "closed"} /\ inbox' \in Seq(Told)
        /\ faults' \in Nat /\ UNCHANGED <<framework, dom, helper>> /\ tab' = u
    BY <1>2, <2>2, <2>4 DEF handleServerLost, SessionInv, SessionTypes, bounds
  <2> QED
    BY <2>5, <2>6, StreamKeeps
<1>3. CASE Receive
  <2>1. Sane(tab, server, TRUE)
    BY <1>3, ClosedIs DEF Receive, SessionInv
  <2>2. Head(inbox) \in Told /\ inbox' \in Seq(Told)
    BY <1>3 DEF Receive, SessionInv, SessionTypes
  <2>3. PICK t : t = Received(tab, Head(inbox), dom)
    OBVIOUS
  <2>4. Sane(t, server, TRUE)
    BY <2>1, <2>2, <2>3, ReceivedSane
  <2>5. /\ stream' \in {"connecting", "open", "closed"}
        /\ faults' \in Nat /\ UNCHANGED <<framework, dom, helper>> /\ tab' = t
    BY <1>3, <2>3 DEF Receive, SessionInv, SessionTypes, bounds
  <2> QED
    BY <2>2, <2>4, <2>5, StreamKeeps
<1> QED
  BY <1>1, <1>2, <1>3, ConnectKeeps DEF Stream

LEMMA AgentKeeps ==
    ASSUME SessionInv, NEW s \in Sessions, Agent(s)
    PROVE  Kept
<1>1. PICK phase \in Phases, look \in Looks :
        /\ phase # "new" /\ server' = [server EXCEPT ![s] = phase]
        /\ source' = [source EXCEPT ![s] = look]
        /\ inbox' \in Seq(Told)
        /\ UNCHANGED <<bounds, tab, dom, stream>>
  <2> USE DEF SessionInv, SessionTypes
  <2>0. ASSUME NEW type \in {"done", "error", "accept", "agent_done", "discarded"}, NEW look, NEW phase,
               Tell(type, s, look, phase)
        PROVE  /\ server' = [server EXCEPT ![s] = phase]
               /\ source' = [source EXCEPT ![s] = look]
               /\ inbox' \in Seq(Told)
               /\ UNCHANGED <<bounds, tab, dom, stream>>
    <3>1. [type |-> type, id |-> s] \in Told
      BY DEF Told
    <3> QED
      BY <2>0, <3>1 DEF Tell
  <2>1. CASE AgentWrites(s)
    <3>1. source[s] + 1 \in Looks
      BY <2>1, LiveAssumption DEF AgentWrites, Looks, Absent, Carbonized, Clean
    <3>2. server' = [server EXCEPT ![s] = "requested"] /\ "requested" \in Phases
      BY <2>1 DEF AgentWrites, Phases
    <3>3. /\ source' = [source EXCEPT ![s] = source[s] + 1] /\ inbox' \in Seq(Told)
          /\ UNCHANGED <<bounds, tab, dom, stream>>
      BY <2>1 DEF AgentWrites
    <3> QED
      BY <3>1, <3>2, <3>3
  <2>2. CASE AgentDone(s)
    <3>1. Count \in Looks /\ "generated" \in Phases
      BY LiveAssumption DEF Looks, Phases
    <3> QED
      BY <2>0, <2>2, <3>1 DEF AgentDone
  <2>3. CASE AgentFails(s)
    <3>1. Absent \in Looks /\ "failed" \in Phases
      BY DEF Looks, Phases
    <3> QED
      BY <2>0, <2>3, <3>1 DEF AgentFails
  <2>4. CASE AcceptWritten(s)
    <3>1. {Carbonized, Clean} \subseteq Looks /\ "accepted" \in Phases
      BY DEF Looks, Phases
    <3>2. PICK look \in {Carbonized, Clean} : Tell("accept", s, look, "accepted")
      BY <2>4 DEF AcceptWritten
    <3> QED
      BY <2>0, <3>1, <3>2
  <2>5. CASE AcceptFails(s)
    <3>1. source[s] \in Looks /\ "generated" \in Phases
      BY DEF Phases
    <3> QED
      BY <2>0, <2>5, <3>1 DEF AcceptFails
  <2>6. CASE CarbonizeDone(s)
    <3>1. Clean \in Looks /\ "accepted" \in Phases
      BY DEF Looks, Phases
    <3> QED
      BY <2>0, <2>6, <3>1 DEF CarbonizeDone
  <2>7. CASE DiscardWritten(s)
    <3>1. Absent \in Looks /\ "discarded" \in Phases
      BY DEF Looks, Phases
    <3> QED
      BY <2>0, <2>7, <3>1 DEF DiscardWritten
  <2> QED
    BY <2>1, <2>2, <2>3, <2>4, <2>5, <2>6, <2>7 DEF Agent
<1>2. PICK sw : sw = [server EXCEPT ![s] = phase]
  OBVIOUS
<1>3. sw \in [Sessions -> Phases] /\ (\A r \in Sessions : server[r] # "new" => sw[r] # "new")
  BY <1>1, <1>2 DEF SessionInv, SessionTypes
<1>4. source' \in [Sessions -> Looks] /\ BegunIfWritten(source', sw)
  BY <1>1, <1>2 DEF SessionInv, SessionTypes, BegunIfWritten
<1>5. CASE Sane(tab, server, TRUE)
  <2>1. PICK t : t = tab
    OBVIOUS
  <2>2. Sane(t, sw, TRUE) /\ tab' = t
    BY <1>1, <1>3, <1>5, <2>1, SaneLater
  <2> QED
    BY <1>1, <1>2, <1>3, <1>4, <2>2, ServerKeeps
<1>6. CASE Closed
  <2>1. SessionTypes' /\ BegunIfWritten(dom, server)' /\ BegunIfWritten(source, server)'
    BY <1>1, <1>2, <1>3, <1>4 DEF SessionInv, SessionTypes, BegunIfWritten, bounds
  <2>2. Closed'
    BY <1>1, <1>2, <1>3, <1>6 DEF Closed, Begun
  <2>3. ~Loaded
    BY <1>6, ClosedIs DEF Loaded
  <2> QED
    BY <2>1, <2>2, <2>3 DEF SessionInv, Kept, Spared
<1> QED
  BY <1>5, <1>6 DEF SessionInv

LEMMA SessionInvStep == SessionInv /\ [Next]_vars => Kept
<1> SUFFICES ASSUME SessionInv, [Next]_vars
             PROVE  Kept
  OBVIOUS
<1>1. CASE Next
  BY <1>1, PageKeeps, UserKeeps, PostsKeep, TimeoutsKeep, ReadsKeep, StreamsKeep, AgentKeeps
  DEF Next
<1>2. CASE UNCHANGED vars
  <2>1. SessionInv'
    BY <1>2 DEF SessionInv, SessionTypes, BegunIfWritten, Sane, Begun, Superseded, Closed, vars
  <2>2. Spared
    BY <1>2 DEF Spared, vars, Loaded
  <2> QED
    BY <2>1, <2>2 DEF Kept
<1> QED
  BY <1>1, <1>2

LEMMA SessionInvDecides == SessionInv => DecidedStaysDecided
<1> SUFFICES ASSUME SessionInv
             PROVE  tab.session \notin tab.handled
  BY DEF DecidedStaysDecided
<1>1. CASE Sane(tab, server, TRUE)
  BY <1>1 DEF Sane
<1>2. CASE Closed
  <2>1. tab.session = None /\ tab.handled \subseteq Sessions
    BY <1>2, ClosedIs DEF Closed, Pages
  <2> QED
    BY <2>1, SessionsAre
<1> QED
  BY <1>1, <1>2 DEF SessionInv

\* A session that was accepted, discarded or given up is never the current one again, however
\* reloads, wrappers, saved states, summaries and late answers follow one another
\* (markSessionHandled, isSessionHandled), for any number of sessions, variants and faults.
THEOREM SessionsStayDecided == Spec => []DecidedStaysDecided
<1>1. Init => SessionInv
  BY SessionInvInit
<1>2. SessionInv /\ [Next]_vars => SessionInv'
  BY SessionInvStep DEF Kept
<1>3. SessionInv => DecidedStaysDecided
  BY SessionInvDecides
<1> QED
  BY <1>1, <1>2, <1>3, PTL DEF Spec

\* The overlay does not reload the page of its own accord while the user configures new
\* variants: opening the configuration supersedes every recovery that was put off before,
\* and none is put off while it is open (beginNewLiveConfiguration, deferredRecoverySuperseded).
ReloadSparesConfiguration ==
    [][Loaded /\ tab'.state = "UNLOADED" /\ faults' = faults => tab.state # "CONFIGURING"]_vars

THEOREM ConfigurationsAreSpared == Spec => ReloadSparesConfiguration
<1>1. Init => SessionInv
  BY SessionInvInit
<1>2. SessionInv /\ [Next]_vars => SessionInv'
  BY SessionInvStep DEF Kept
<1>3. SessionInv /\ [Next]_vars
        => [Loaded /\ tab'.state = "UNLOADED" /\ faults' = faults
               => tab.state # "CONFIGURING"]_vars
  BY SessionInvStep DEF Kept, Spared
<1> QED
  BY <1>1, <1>2, <1>3, PTL DEF Spec, ReloadSparesConfiguration

-----------------------------------------------------------------------------
(***************************************************************************)
(* Completions that are missed, of a framework page.  The parameters are   *)
(* the page d, the source src and the phases sv of the sessions.           *)
(***************************************************************************)
Late == {"read", "retryEmpty", "retryDone", "retryOrphan"}

\* A variant of session s has been on the page: neither page nor source go back behind it.
Shown(s, d, src, sv) ==
    /\ sv[s] \notin {"new", "announced"}
    /\ src[s] # 0 /\ d[s] # 0
    /\ sv[s] = "requested" => src[s] \in 1 .. Count

\* What the source has of a session was asked for, and is there when the helper says so.
SourceWritten(src, sv) ==
    \A s \in Sessions : /\ src[s] # Absent => sv[s] \notin {"new", "announced"}
                        /\ sv[s] \in {"generated", "accepting"} => src[s] \in 1 .. Count

PageShows(d, src, sv) == \A s \in Sessions : d[s] \in 1 .. Count => Shown(s, d, src, sv)

\* An accept of session s is on its way or with the agent.
BeingAccepted(t, s, sv) ==
    sv[s] = "accepting" \/ \E p \in t.posts : p.kind = "accept" /\ p.id = s

\* The tab holds variants, or accepts them, only of sessions whose variants were shown.
HoldsShown(t, d, src, sv) ==
    \A s \in Sessions :
        /\ t.session = s /\ t.arrived > 0 => Shown(s, d, src, sv)
        /\ t.saved # NoSave /\ t.saved.id = s /\ t.saved.arrived > 0 => Shown(s, d, src, sv)
        /\ BeingAccepted(t, s, sv) => Shown(s, d, src, sv)

\* A session without variants and file is as it was begun.
AsBegun(t, sv) ==
    \A s \in Sessions :
        /\ t.session = s /\ t.arrived = 0 /\ ~t.file => ~BeingAccepted(t, s, sv)
        /\ t.saved # NoSave /\ t.saved.id = s /\ t.saved.arrived = 0 /\ ~t.saved.file
             => ~BeingAccepted(t, s, sv)

\* A session is created once: by a capture that goes on, or by a post.
CreatedOnce(t, sv) ==
    /\ \A x \in t.timers : x.kind = "capture" =>
          /\ sv[x.id] = "announced"
          /\ \A y \in t.timers : y.kind = "capture" /\ y.id = x.id => y = x
          /\ \A p \in t.posts : p.kind = "generate" => p.id # x.id
    /\ \A p \in t.posts : p.kind = "generate" =>
          /\ sv[p.id] # "new" /\ p.step # "gated"
          /\ p.step = "sent" => /\ sv[p.id] = "announced"
                                /\ \A q \in t.posts : q.kind = "generate" /\ q.id = p.id => q = p

\* What the tab has to go by while its page is d.
GoesBy(t, d, src, sv) ==
    /\ t \in Pages
    /\ HoldsShown(t, d, src, sv)
    /\ AsBegun(t, sv)
    /\ CreatedOnce(t, sv)
    /\ t.anchor = None

\* With a stream (o), the current session is observed.
Observes(t, o) == t.observed = t.session \/ (~o /\ t.observed = None)

\* The page shows a variant that the tab, generating at 0/N, has not seen.
Overlooked(t, s, d) ==
    t.session = s /\ t.state = "GENERATING" /\ t.arrived = 0 /\ d[s] \in 1 .. Count

\* It will be read when the generation is complete: a read is put off, or the message of the
\* completion will come (m: to these sessions).
WillSee(t, d, sv, o, m) ==
    \A s \in Sessions : Overlooked(t, s, d) =>
        /\ o => ~BeingAccepted(t, s, sv)
        /\ sv[s] = "generated" => s \in m \/ \E x \in t.timers : x.kind \in Late /\ x.id = s

\* A saved session that can be restored is the current one.
SavesCurrent(t) ==
    t.saved # NoSave /\ t.saved.state \in {"GENERATING", "CYCLING"} /\ t.saved.id \notin t.handled
        => t.session = t.saved.id

Aware(t, d, src, sv, o, m) ==
    GoesBy(t, d, src, sv) /\ Observes(t, o) /\ WillSee(t, d, sv, o, m) /\ SavesCurrent(t)

ToldComplete == {s \in Sessions : \E i \in 1 .. Len(inbox) : inbox[i] = [type |-> "done", id |-> s]}

Expected == IF stream = "open" THEN ToldComplete ELSE Sessions

CompletionInv ==
    framework =>
        /\ SourceWritten(source, server)
        /\ PageShows(dom, source, server)
        /\ GoesBy(tab, dom, source, server)
        /\ Observes(tab, stream # "closed")
        /\ WillSee(tab, dom, server, stream # "closed", Expected)
        /\ Loaded => SavesCurrent(tab)

-----------------------------------------------------------------------------
\* u creates and accepts nothing that t does not.
AsksNoMore(u, t) ==
    /\ \A p \in u.posts : /\ p.kind = "generate" => p \in t.posts
                          /\ p.kind = "accept" => \E q \in t.posts : q.kind = "accept" /\ q.id = p.id
    /\ \A x \in u.timers : x.kind = "capture" => x \in t.timers

\* What all of this depends on.
LEMMA GoesBySame ==
    ASSUME NEW d, NEW src, NEW sv, NEW t, GoesBy(t, d, src, sv),
           NEW u \in Pages, u.saved = t.saved \/ u.saved = NoSave, u.anchor = None,
           \/ u.session = None
           \/ u.session = t.session /\ u.arrived = t.arrived /\ (t.file => u.file),
           AsksNoMore(u, t)
    PROVE  /\ GoesBy(u, d, src, sv)
           /\ \A s \in Sessions : BeingAccepted(u, s, sv) => BeingAccepted(t, s, sv)
<1>1. \A s \in Sessions : BeingAccepted(u, s, sv) => BeingAccepted(t, s, sv)
  BY DEF BeingAccepted, AsksNoMore
<1>2. HoldsShown(u, d, src, sv)
  BY <1>1, SessionsAre DEF GoesBy, HoldsShown
<1>3. AsBegun(u, sv)
  BY <1>1, SessionsAre DEF GoesBy, AsBegun
<1>4. CreatedOnce(u, sv)
  BY DEF GoesBy, CreatedOnce, AsksNoMore
<1> QED
  BY <1>1, <1>2, <1>3, <1>4 DEF GoesBy

LEMMA AwareSame ==
    ASSUME NEW d, NEW src, NEW sv, NEW o, NEW m, NEW t, Aware(t, d, src, sv, o, m),
           NEW u \in Pages, u.session = t.session, u.arrived = t.arrived,
           u.saved = t.saved \/ u.saved = NoSave,
           u.observed = t.observed, u.anchor = t.anchor, t.file => u.file,
           t.handled \subseteq u.handled, AsksNoMore(u, t),
           u.state = "GENERATING" =>
               t.state = "GENERATING" /\ \A x \in t.timers : x.kind \in Late => x \in u.timers
    PROVE  Aware(u, d, src, sv, o, m)
<1>1. /\ GoesBy(u, d, src, sv)
      /\ \A s \in Sessions : BeingAccepted(u, s, sv) => BeingAccepted(t, s, sv)
  BY GoesBySame DEF Aware, GoesBy
<1>2. WillSee(u, d, sv, o, m)
  BY <1>1 DEF Aware, WillSee, Overlooked
<1>3. Observes(u, o) /\ SavesCurrent(u)
  BY DEF Aware, Observes, SavesCurrent
<1> QED
  BY <1>1, <1>2, <1>3 DEF Aware

\* A tab without a session looks for nothing.
LEMMA IdleAware ==
    ASSUME NEW d, NEW src, NEW sv, NEW o, NEW m, NEW t, GoesBy(t, d, src, sv),
           NEW u \in Pages, u.session = None, u.saved = NoSave, u.observed = None, u.anchor = None,
           AsksNoMore(u, t)
    PROVE  Aware(u, d, src, sv, o, m)
<1>1. GoesBy(u, d, src, sv)
  BY GoesBySame
<1>2. WillSee(u, d, sv, o, m) /\ Observes(u, o) /\ SavesCurrent(u)
  BY SessionsAre DEF WillSee, Overlooked, Observes, SavesCurrent
<1> QED
  BY <1>1, <1>2 DEF Aware

LEMMA SaveAware ==
    ASSUME NEW d, NEW src, NEW sv, NEW t, GoesBy(t, d, src, sv)
    PROVE  /\ GoesBy(saveSession(t), d, src, sv)
           /\ t.session # None => SavesCurrent(saveSession(t))
           /\ \A o, m : WillSee(t, d, sv, o, m) => WillSee(saveSession(t), d, sv, o, m)
           /\ \A o : Observes(t, o) => Observes(saveSession(t), o)
           /\ saveSession(t).file = t.file /\ saveSession(t).session = t.session
           /\ saveSession(t).state = t.state /\ saveSession(t).arrived = t.arrived
           /\ saveSession(t).posts = t.posts
<1>1. CASE t.session = None
  BY <1>1 DEF saveSession
<1>2. CASE t.session # None
  <2>1. PICK s : s = [id |-> t.session, state |-> t.state, arrived |-> t.arrived, file |-> t.file]
    OBVIOUS
  <2>2. t \in Pages /\ t.session \in Sessions
    BY <1>2 DEF GoesBy, Pages, Held
  <2>3. /\ s \in Saves /\ s # NoSave /\ s.id = t.session /\ s.arrived = t.arrived
        /\ s.file = t.file
    BY <1>2, <2>1, <2>2 DEF Pages, Saves, NoSave
  <2>4. PICK u : u = saveSession(t)
    OBVIOUS
  <2>5. u = [t EXCEPT !.saved = s]
    BY <1>2, <2>1, <2>4 DEF saveSession
  <2>6. /\ u \in Pages /\ u.saved = s /\ u.session = t.session /\ u.arrived = t.arrived
        /\ u.posts = t.posts /\ u.timers = t.timers /\ u.file = t.file /\ u.anchor = t.anchor
        /\ u.observed = t.observed /\ u.state = t.state /\ u.handled = t.handled
    BY <2>2, <2>3, <2>5 DEF Pages
  <2>7. \A x : BeingAccepted(u, x, sv) = BeingAccepted(t, x, sv)
    BY <2>6 DEF BeingAccepted
  <2>8. HoldsShown(u, d, src, sv)
    BY <2>3, <2>6, <2>7 DEF GoesBy, HoldsShown
  <2>9. AsBegun(u, sv)
    BY <2>3, <2>6, <2>7 DEF GoesBy, AsBegun
  <2>10. CreatedOnce(u, sv)
    BY <2>6 DEF GoesBy, CreatedOnce
  <2>11. \A o, m : WillSee(t, d, sv, o, m) => WillSee(u, d, sv, o, m)
    BY <2>6, <2>7 DEF WillSee, Overlooked
  <2>12. (\A o : Observes(t, o) => Observes(u, o)) /\ SavesCurrent(u) /\ u.anchor = None
    BY <2>3, <2>6 DEF GoesBy, Observes, SavesCurrent
  <2> QED
    BY <2>4, <2>6, <2>8, <2>9, <2>10, <2>11, <2>12 DEF GoesBy
<1> QED
  BY <1>1, <1>2

LEMMA CleanupAware ==
    ASSUME NEW d, NEW src, NEW sv, NEW o, NEW m, NEW t, GoesBy(t, d, src, sv),
           NEW u \in {t, markSessionHandled(t)}, cleanup(u) \in Pages
    PROVE  Aware(cleanup(u), d, src, sv, o, m)
<1>1. PICK later : later = IF u.session = None THEN u
                           ELSE setTimer(u, Timer("cleanup", u.session, TRUE, 0))
  OBVIOUS
<1>2. PICK v : v = cleanup(u)
  OBVIOUS
<1>3. v = [later EXCEPT !.state = "PICKING", !.session = None, !.observed = None,
                        !.anchor = None, !.file = FALSE, !.saved = NoSave]
  BY <1>1, <1>2 DEF cleanup
<1>4. t \in Pages
  BY DEF GoesBy
<1>5. u = [t EXCEPT !.handled = u.handled]
  BY <1>4 DEF markSessionHandled, Pages
<1>6. u.posts = t.posts /\ u.timers = t.timers
  BY <1>4, <1>5 DEF Pages
<1>7. PICK timers : timers = IF u.session = None THEN t.timers
                             ELSE t.timers \cup {Timer("cleanup", u.session, TRUE, 0)}
  OBVIOUS
<1>8. later = [t EXCEPT !.handled = u.handled, !.timers = timers]
  BY <1>1, <1>4, <1>5, <1>6, <1>7 DEF setTimer, Pages
<1>9. /\ v.session = None /\ v.saved = NoSave /\ v.observed = None /\ v.anchor = None
      /\ v.posts = t.posts /\ v.timers = timers
  BY <1>3, <1>4, <1>8 DEF Pages
<1>10. \A x \in timers : x.kind = "capture" => x \in t.timers
  BY <1>7 DEF Timer
<1> QED
  BY <1>2, <1>9, <1>10, IdleAware DEF AsksNoMore

\* The posts that create nothing and accept nothing.
LEMMA SendAware ==
    ASSUME NEW d, NEW src, NEW sv, NEW o, NEW m, NEW t, Aware(t, d, src, sv, o, m),
           NEW s, NEW kind \in {"discard", "orphan", "checkpoint"}, sendEvent(t, kind, s) \in Pages
    PROVE  Aware(sendEvent(t, kind, s), d, src, sv, o, m)
<1>1. PICK p : p = [kind |-> kind, id |-> s,
                    step |-> IF kind # "generate" /\ Creating(t) THEN "gated" ELSE "sent"]
  OBVIOUS
<1>2. PICK u : u = sendEvent(t, kind, s)
  OBVIOUS
<1>3. u = [t EXCEPT !.posts = @ \cup {p}] /\ p.kind \notin {"accept", "generate"}
  BY <1>1, <1>2 DEF sendEvent
<1>4. t \in Pages
  BY DEF Aware, GoesBy
<1>5. /\ u.session = t.session /\ u.arrived = t.arrived /\ u.saved = t.saved
      /\ u.observed = t.observed /\ u.anchor = t.anchor /\ u.file = t.file
      /\ u.handled = t.handled /\ u.state = t.state /\ u.posts = t.posts \cup {p}
      /\ u.timers = t.timers
  BY <1>3, <1>4 DEF Pages
<1>6. AsksNoMore(u, t)
  BY <1>3, <1>5 DEF AsksNoMore
<1>7. u \in Pages /\ u.anchor = None
  BY <1>2, <1>5 DEF Aware, GoesBy
<1>8. Aware(u, d, src, sv, o, m)
  BY <1>5, <1>6, <1>7, AwareSame
<1> QED
  BY <1>2, <1>8

LEMMA CheckpointAware ==
    ASSUME NEW d, NEW src, NEW sv, NEW o, NEW m, NEW t, Aware(t, d, src, sv, o, m)
    PROVE  /\ Aware(queueCheckpoint(t), d, src, sv, o, m)
           /\ queueCheckpoint(t).session = t.session /\ queueCheckpoint(t).file = t.file
           /\ sendCheckpoint(t) \in Pages => Aware(sendCheckpoint(t), d, src, sv, o, m)
<1>1. t \in Pages
  BY DEF Aware, GoesBy
<1>2. PICK u : u = queueCheckpoint(t)
  OBVIOUS
<1>3. /\ u.session = t.session /\ u.arrived = t.arrived /\ u.saved = t.saved
      /\ u.observed = t.observed /\ u.anchor = t.anchor /\ u.file = t.file
      /\ u.handled = t.handled /\ u.state = t.state /\ u.posts = t.posts
      /\ u.timers = t.timers /\ u \in Pages
  BY <1>1, <1>2 DEF Pages, queueCheckpoint
<1>4. Aware(u, d, src, sv, o, m)
  BY <1>3, AwareSame DEF AsksNoMore
<1> QED
  BY <1>2, <1>3, <1>4, SendAware DEF sendCheckpoint

LEMMA ReloadsAware ==
    ASSUME NEW d, NEW src, NEW sv, NEW o, NEW m, NEW t, Aware(t, d, src, sv, o, m),
           NEW wrappers, ScheduleReloads(t, wrappers) \in Pages
    PROVE  Aware(ScheduleReloads(t, wrappers), d, src, sv, o, m)
<1>1. PICK due : ScheduleReloads(t, wrappers) =
          [t EXCEPT !.attempts = [s \in Sessions |-> IF s \in {w.id : w \in due} THEN @[s] + 1 ELSE @[s]],
                    !.timers = @ \cup {Timer("handled", w.id, w.fresh, 0) : w \in due}]
  BY DEF ScheduleReloads
<1>2. PICK new : new = {Timer("handled", w.id, w.fresh, 0) : w \in due}
  OBVIOUS
<1>3. PICK attempts :
        attempts = [s \in Sessions |-> IF s \in {w.id : w \in due} THEN t.attempts[s] + 1 ELSE t.attempts[s]]
  OBVIOUS
<1>4. PICK u : u = ScheduleReloads(t, wrappers)
  OBVIOUS
<1>5. t \in Pages
  BY DEF Aware, GoesBy
<1>6. u = [t EXCEPT !.attempts = attempts, !.timers = @ \cup new]
  BY <1>1, <1>2, <1>3, <1>4
<1>7. /\ u.session = t.session /\ u.arrived = t.arrived /\ u.saved = t.saved
      /\ u.observed = t.observed /\ u.anchor = t.anchor /\ u.file = t.file
      /\ u.handled = t.handled /\ u.state = t.state /\ u.posts = t.posts
      /\ u.timers = t.timers \cup new
  BY <1>5, <1>6 DEF Pages
<1>8. \A x \in new : x.kind = "handled"
  BY <1>2 DEF Timer
<1> QED
  BY <1>4, <1>7, <1>8, AwareSame DEF AsksNoMore

-----------------------------------------------------------------------------
\* A read of the current session shows what the page has, or the page has nothing.
LEMMA InjectAware ==
    ASSUME framework, NEW d, NEW src, NEW sv, NEW o, NEW m, NEW t, GoesBy(t, d, src, sv),
           Observes(t, o), SavesCurrent(t), PageShows(d, src, sv),
           NEW r \in ReadTypes, r.id = t.session,
           injectVariantsFromSource(t, r, d) \in Pages
    PROVE  Aware(injectVariantsFromSource(t, r, d), d, src, sv, o, m)
<1>1. PICK known : known = [t EXCEPT !.file = TRUE]
  OBVIOUS
<1>2. t \in Pages /\ t.anchor = None /\ r.id \in Sessions /\ r.id # None
  BY SessionsAre DEF GoesBy, ReadTypes
<1>3. /\ known \in Pages /\ known.session = t.session /\ known.arrived = t.arrived
      /\ known.saved = t.saved /\ known.observed = t.observed /\ known.anchor = None
      /\ known.file /\ known.handled = t.handled /\ known.state = t.state
      /\ known.posts = t.posts /\ known.timers = t.timers
  BY <1>1, <1>2 DEF Pages
<1>4. GoesBy(known, d, src, sv) /\ Observes(known, o) /\ SavesCurrent(known)
  BY <1>3, GoesBySame DEF Observes, SavesCurrent, AsksNoMore
<1>5. PICK u : u = injectVariantsFromSource(t, r, d)
  OBVIOUS
<1>6. CASE d[r.id] \in 1 .. Count
  <2>1. PICK v : v = [known EXCEPT !.anchor = None, !.arrived = d[r.id], !.state = "CYCLING"]
    OBVIOUS
  <2>2. u = saveSession(v)
    <3>1. u = completeSourceInjection(known, r, d[r.id])
      <4>1. Wrapped(d[r.id])
        BY <1>6, LiveAssumption DEF Wrapped
      <4> QED
        BY <1>1, <1>5, <1>6, <4>1, ZenonT(30) DEF injectVariantsFromSource
    <3>2. d[r.id] > 0 /\ d[r.id] # 0
      BY <1>6
    <3>3. completeSourceInjection(known, r, d[r.id])
            = saveSession([[known EXCEPT !.anchor = None, !.arrived = d[r.id]] EXCEPT !.state = "CYCLING"])
      BY <3>2, ZenonT(30) DEF completeSourceInjection
    <3> QED
      BY <1>3, <2>1, <3>1, <3>3 DEF Pages
  <2>3. /\ v \in Pages /\ v.session = t.session /\ v.arrived = d[r.id] /\ v.arrived > 0
        /\ v.saved = t.saved /\ v.observed = t.observed /\ v.anchor = None
        /\ v.file /\ v.state = "CYCLING"
        /\ v.posts = t.posts /\ v.timers = t.timers
    <3>1. d[r.id] \in 0 .. Count /\ d[r.id] > 0 /\ "CYCLING" \in States /\ None \in Held
      BY <1>6, LiveAssumption DEF States, Held
    <3> QED
      BY <1>3, <2>1, <3>1 DEF Pages
  <2>4. \A x : BeingAccepted(v, x, sv) = BeingAccepted(t, x, sv)
    BY <2>3 DEF BeingAccepted
  <2>5. Shown(r.id, d, src, sv)
    BY <1>2, <1>6 DEF PageShows
  <2>6. HoldsShown(v, d, src, sv)
    BY <2>3, <2>4, <2>5 DEF GoesBy, HoldsShown
  <2>7. AsBegun(v, sv)
    BY <2>3, <2>4 DEF GoesBy, AsBegun
  <2>8. CreatedOnce(v, sv)
    BY <2>3 DEF GoesBy, CreatedOnce
  <2>9. GoesBy(v, d, src, sv) /\ Observes(v, o) /\ WillSee(v, d, sv, o, m)
    BY <2>3, <2>6, <2>7, <2>8 DEF GoesBy, Observes, WillSee, Overlooked
  <2> QED
    BY <1>2, <1>5, <2>2, <2>3, <2>9, SaveAware DEF Aware
<1>7. CASE d[r.id] \notin 1 .. Count
  <2>1. \/ u = setTimer(known, Timer("retryDone", r.id, TRUE, r.n + 1))
        \/ u = cleanup(known)
        \/ u = [known EXCEPT !.reads = @ \cup {r}]
        \/ u = known
    <3>1. CASE r.done
      BY <1>1, <1>5, <1>7, <3>1, ZenonT(30) DEF injectVariantsFromSource
    <3>2. CASE ~r.done /\ r.orphan /\ ~Wrapped(d[r.id])
      BY <1>1, <1>5, <1>7, <3>2, ZenonT(30) DEF injectVariantsFromSource
    <3>3. CASE ~r.done /\ ~(r.orphan /\ ~Wrapped(d[r.id]))
      BY <1>1, <1>5, <1>7, <3>3, ZenonT(30) DEF injectVariantsFromSource
    <3> QED
      BY <3>1, <3>2, <3>3, Zenon
  <2>2. CASE u = cleanup(known)
    BY <1>4, <1>5, <2>2, CleanupAware
  <2>3. CASE u # cleanup(known)
    <3>1. /\ u \in Pages /\ u.session = t.session /\ u.arrived = t.arrived
          /\ u.saved = t.saved /\ u.observed = t.observed /\ u.anchor = None
          /\ u.file /\ u.handled = t.handled
          /\ u.posts = t.posts /\ \A x \in u.timers : x.kind = "capture" => x \in t.timers
      BY <1>3, <1>5, <2>1, <2>3 DEF Pages, setTimer, Timer
    <3>2. GoesBy(u, d, src, sv)
      BY <1>2, <3>1, GoesBySame DEF AsksNoMore
    <3>3. WillSee(u, d, sv, o, m)
      BY <1>7, <3>1 DEF WillSee, Overlooked
    <3>4. Observes(u, o) /\ SavesCurrent(u)
      BY <3>1 DEF Observes, SavesCurrent
    <3> QED
      BY <1>5, <3>2, <3>3, <3>4 DEF Aware
  <2> QED
    BY <2>2, <2>3
<1> QED
  BY <1>6, <1>7

\* The read found no wrapper of the current session.
LEMMA OrphanedAware ==
    ASSUME NEW sw, NEW c, NEW t, Sane(t, sw, c),
           NEW d, NEW src, NEW sv, NEW o, NEW m, Aware(t, d, src, sv, o, m),
           NEW r \in ReadTypes, t.session \in Sessions
    PROVE  Aware(Orphaned(t, r), d, src, sv, o, m)
<1>1. CASE r.n < Retries
  <2>1. PICK x : x = Timer("retryOrphan", r.id, TRUE, r.n + 1)
    OBVIOUS
  <2>2. x \in TimerTypes /\ x.kind = "retryOrphan"
    BY <1>1, <2>1, LiveAssumption DEF Timer, TimerTypes, ReadTypes
  <2>3. PICK u : u = [t EXCEPT !.timers = @ \cup {x}]
    OBVIOUS
  <2>4. Orphaned(t, r) = u
    BY <1>1, <2>1, <2>3 DEF Orphaned, setTimer
  <2>5. /\ u \in Pages /\ u.session = t.session /\ u.arrived = t.arrived /\ u.saved = t.saved
        /\ u.observed = t.observed /\ u.anchor = t.anchor /\ u.file = t.file
        /\ u.handled = t.handled /\ u.state = t.state /\ u.posts = t.posts
        /\ u.timers = t.timers \cup {x}
    BY <2>2, <2>3 DEF Sane, Pages
  <2> QED
    BY <2>2, <2>4, <2>5, AwareSame DEF AsksNoMore
<1>2. CASE ~(r.n < Retries)
  <2>1. PICK v : v = sendEvent(t, "orphan", t.session)
    OBVIOUS
  <2>2. Orphaned(t, r) = cleanup(markSessionHandled(v))
    BY <1>2, <2>1 DEF Orphaned, discardOrphanedSession
  <2>3. Sane(v, sw, c)
    BY <2>1, SendSane
  <2>4. Aware(v, d, src, sv, o, m)
    BY <2>1, <2>3, SendAware DEF Sane
  <2>5. cleanup(markSessionHandled(v)) \in Pages
    BY <2>3, MarkedCleanSane DEF Sane
  <2> QED
    BY <2>2, <2>4, <2>5, CleanupAware DEF Aware
<1> QED
  BY <1>1, <1>2

-----------------------------------------------------------------------------
\* What is restored is read, unless the page cannot have it.
LEMMA RestoredAware ==
    ASSUME framework, NEW sw, NEW c, NEW t, Sane(t, sw, c),
           NEW d, NEW src, NEW sv, NEW o, NEW m, GoesBy(t, d, src, sv), PageShows(d, src, sv),
           NEW saved \in Saves, saved.id \notin t.handled, sw[saved.id] # "new",
           saved.arrived > 0 => Shown(saved.id, d, src, sv),
           saved.arrived = 0 /\ ~saved.file => ~BeingAccepted(t, saved.id, sv),
           NEW active, m = Sessions \/ d[saved.id] \notin 1 .. Count
    PROVE  Aware(Restored(t, saved, active, d), d, src, sv, o, m)
<1>1. PICK file \in BOOLEAN : file = (saved.file \/ Known(saved.id, active))
  OBVIOUS
<1>2. PICK v : v = [t EXCEPT !.session = saved.id, !.arrived = saved.arrived,
                             !.state = "GENERATING", !.observed = saved.id, !.file = file]
  OBVIOUS
<1>3. PICK w : w = saveSession(v)
  OBVIOUS
<1>4. PICK u : u = queueCheckpoint(w)
  OBVIOUS
<1>5. PICK r : r = Read(saved.id, FALSE, saved.state = "CYCLING", 0)
  OBVIOUS
<1>6. Restored(t, saved, active, d) = IF u.file THEN injectVariantsFromSource(u, r, d) ELSE u
  BY <1>1, <1>2, <1>3, <1>4, <1>5, ZenonT(30) DEF Restored
<1>7. /\ v \in Pages /\ v.session = saved.id /\ v.arrived = saved.arrived /\ v.saved = t.saved
      /\ v.observed = saved.id /\ v.anchor = None /\ v.file = file /\ v.state = "GENERATING"
      /\ v.posts = t.posts /\ v.timers = t.timers /\ saved.id \in Sessions
  <2>1. /\ t \in Pages /\ t.anchor = None /\ saved.id \in Sessions /\ saved.id \in Held
        /\ saved.arrived \in 0 .. Count /\ "GENERATING" \in States
    BY DEF GoesBy, Saves, Held, States
  <2> QED
    BY <1>1, <1>2, <2>1 DEF Pages
<1>8. saved.file => file
  BY <1>1
<1>9. GoesBy(v, d, src, sv)
  <2>1. \A x : BeingAccepted(v, x, sv) = BeingAccepted(t, x, sv)
    BY <1>7 DEF BeingAccepted
  <2>2. HoldsShown(v, d, src, sv)
    BY <1>7, <2>1 DEF GoesBy, HoldsShown
  <2>3. AsBegun(v, sv)
    BY <1>7, <1>8, <2>1 DEF GoesBy, AsBegun
  <2>4. CreatedOnce(v, sv)
    BY <1>7 DEF GoesBy, CreatedOnce
  <2> QED
    BY <1>7, <2>2, <2>3, <2>4 DEF GoesBy
<1>10. /\ GoesBy(w, d, src, sv) /\ SavesCurrent(w) /\ w.session = saved.id
       /\ w.file = file /\ w.arrived = saved.arrived
  BY <1>3, <1>7, <1>9, SaveAware, SessionsAre
<1>11. Observes(w, o)
  <2>1. Observes(v, o)
    BY <1>7 DEF Observes
  <2> QED
    BY <1>3, <1>9, <2>1, SaveAware
<1>12. /\ u \in Pages /\ u.session = w.session /\ u.arrived = w.arrived /\ u.saved = w.saved
       /\ u.observed = w.observed /\ u.anchor = w.anchor /\ u.file = w.file
       /\ u.handled = w.handled /\ u.state = w.state /\ u.posts = w.posts
       /\ u.timers = w.timers
  BY <1>4, <1>10 DEF GoesBy, Pages, queueCheckpoint
<1>13. GoesBy(u, d, src, sv) /\ SavesCurrent(u) /\ Observes(u, o)
  <2>1. u.anchor = None
    BY <1>10, <1>12 DEF GoesBy
  <2>2. GoesBy(u, d, src, sv)
    BY <1>10, <1>12, <2>1, GoesBySame DEF AsksNoMore
  <2> QED
    BY <1>10, <1>11, <1>12, <2>2 DEF SavesCurrent, Observes
<1>14. CASE u.file
  <2>1. r \in ReadTypes /\ r.id = u.session
    BY <1>5, <1>10, <1>12, LiveAssumption DEF Read, ReadTypes, Saves
  <2>2. Restored(t, saved, active, d) = injectVariantsFromSource(u, r, d)
    BY <1>6, <1>14
  <2>3. injectVariantsFromSource(u, r, d) \in Pages
    BY <2>2, RestoredSane DEF Sane
  <2> QED
    BY <1>13, <2>1, <2>2, <2>3, InjectAware
<1>15. CASE ~u.file
  <2>1. WillSee(u, d, sv, o, m)
    <3>1. ASSUME NEW s \in Sessions, Overlooked(u, s, d)
          PROVE  s = saved.id /\ saved.arrived = 0 /\ d[s] \in 1 .. Count
      BY <1>10, <1>12, <3>1 DEF Overlooked
    <3>2. saved.arrived = 0 => ~BeingAccepted(u, saved.id, sv)
      BY <1>7, <1>10, <1>12, <1>13, <1>15 DEF GoesBy, AsBegun
    <3> QED
      BY <3>1, <3>2 DEF WillSee
  <2> QED
    BY <1>6, <1>13, <1>15, <2>1 DEF Aware
<1> QED
  BY <1>14, <1>15

\* A session that is saved can be restored so.
LEMMA SavedAware ==
    ASSUME framework, NEW sw, NEW c, NEW t, Sane(t, sw, c),
           NEW d, NEW src, NEW sv, NEW o, NEW m, GoesBy(t, d, src, sv), PageShows(d, src, sv),
           t.saved # NoSave, t.saved.id \notin t.handled,
           NEW active, m = Sessions \/ d[t.saved.id] \notin 1 .. Count
    PROVE  Aware(Restored(t, t.saved, active, d), d, src, sv, o, m)
<1>1. t.saved \in Saves /\ t.saved.id \in Sessions /\ sw[t.saved.id] # "new"
  BY DEF Sane, Pages, Saves, Begun
<1>2. t.saved.arrived > 0 => Shown(t.saved.id, d, src, sv)
  BY <1>1 DEF GoesBy, HoldsShown
<1>3. t.saved.arrived = 0 /\ ~t.saved.file => ~BeingAccepted(t, t.saved.id, sv)
  BY <1>1 DEF GoesBy, AsBegun
<1> QED
  BY <1>1, <1>2, <1>3, RestoredAware

LEMMA ResumedAware ==
    ASSUME NEW sw, NEW c, NEW t, Sane(t, sw, c),
           NEW d, NEW src, NEW sv, NEW o, NEW m, GoesBy(t, d, src, sv), PageShows(d, src, sv),
           NEW w \in Sessions, Wrapped(d[w]), w \notin t.handled, sw[w] # "new"
    PROVE  Aware(Resumed(t, w, d), d, src, sv, o, m)
<1>1. PICK file : file = (t.file \/ (t.saved # NoSave /\ t.saved.id = w /\ t.saved.file))
  OBVIOUS
<1>2. PICK state : state = IF d[w] > 0 THEN "CYCLING" ELSE "GENERATING"
  OBVIOUS
<1>3. PICK v : v = [t EXCEPT !.session = w, !.arrived = d[w], !.observed = w, !.state = state,
                             !.file = file]
  OBVIOUS
<1>4. PICK u : u = saveSession(v)
  OBVIOUS
<1>5. t \in Pages /\ t.anchor = None /\ w \in Held /\ d[w] \in 0 .. Count
      /\ file \in BOOLEAN /\ state \in States
  BY <1>1, <1>2 DEF GoesBy, Held, Wrapped, States
<1>6. /\ v \in Pages /\ v.session = w /\ v.arrived = d[w] /\ v.saved = t.saved
      /\ v.observed = w /\ v.anchor = None /\ v.posts = t.posts /\ v.timers = t.timers
  BY <1>3, <1>5 DEF Pages
<1>7. \A x : BeingAccepted(v, x, sv) = BeingAccepted(t, x, sv)
  BY <1>6 DEF BeingAccepted
<1>8. d[w] > 0 => Shown(w, d, src, sv)
  BY <1>5 DEF PageShows
<1>9. HoldsShown(v, d, src, sv)
  BY <1>6, <1>7, <1>8 DEF GoesBy, HoldsShown
<1>10. AsBegun(v, sv)
  BY <1>6, <1>7 DEF GoesBy, AsBegun, HoldsShown, Shown
<1>11. CreatedOnce(v, sv)
  BY <1>6 DEF GoesBy, CreatedOnce
<1>12. GoesBy(v, d, src, sv) /\ Observes(v, o)
  BY <1>6, <1>9, <1>10, <1>11 DEF GoesBy, Observes
<1>13. WillSee(v, d, sv, o, m)
  BY <1>6 DEF WillSee, Overlooked
<1>14. Aware(u, d, src, sv, o, m)
  BY <1>4, <1>6, <1>12, <1>13, SaveAware, SessionsAre DEF Aware
<1>15. Aware(queueCheckpoint(u), d, src, sv, o, m)
  BY <1>14, CheckpointAware
<1>16. \/ Resumed(t, w, d) = sendCheckpoint(queueCheckpoint(u))
       \/ Resumed(t, w, d) = sendCheckpoint(u)
       \/ Resumed(t, w, d) = queueCheckpoint(u)
  <2>1. CASE d[w] = Count
    <3>1. d[w] \notin 1 .. Count - 1
      BY <2>1, LiveAssumption
    <3> QED
      BY <1>1, <1>2, <1>3, <1>4, <2>1, <3>1, ZenonT(30) DEF Resumed
  <2>2. CASE d[w] \in 1 .. Count - 1
    <3>1. d[w] # Count
      BY <2>2, LiveAssumption
    <3> QED
      BY <1>1, <1>2, <1>3, <1>4, <2>2, <3>1, ZenonT(30) DEF Resumed
  <2>3. CASE d[w] # Count /\ d[w] \notin 1 .. Count - 1
    BY <1>1, <1>2, <1>3, <1>4, <2>3, ZenonT(30) DEF Resumed
  <2> QED
    BY <2>1, <2>2, <2>3, Zenon
<1>17. Resumed(t, w, d) \in Pages
  BY ResumedSane DEF Sane
<1> QED
  BY <1>14, <1>15, <1>16, <1>17, CheckpointAware

LEMMA NoWrapper ==
    ASSUME NEW d, NEW found \in RuntimeWrappers(d), found[1] = None
    PROVE  \A s \in Sessions : ~Wrapped(d[s])
<1>1. WrappersFound(d) = {}
  BY SessionsAre DEF RuntimeWrappers, WrappersFound
<1> QED
  BY <1>1 DEF WrappersFound

LEMMA ResumeAware ==
    ASSUME framework, NEW c, NEW t, Sane(t, server, c), NEW fresh \in BOOLEAN,
           NEW d, NEW src, NEW sv, NEW o, NEW m, GoesBy(t, d, src, sv), PageShows(d, src, sv),
           Observes(t, o), WillSee(t, d, sv, o, m), m = Sessions \/ SavesCurrent(t),
           NEW found \in RuntimeWrappers(d), BegunIfWritten(d, server),
           t.state = "CONFIGURING" => ~fresh
    PROVE  Aware(resumeSession(t, fresh, found[1], found[2], d), d, src, sv, o, m)
<1> DEFINE superseding == Superseding(t, found[2])
<1>1. PICK u : u = resumeSession(t, fresh, found[1], found[2], d)
  OBVIOUS
<1>2. superseding => isSessionHandled(t, found[2])
  BY DEF Superseding
<1>3. Sane(u, server, c)
  BY <1>1, WrappersAre, ResumeSane
<1>4. CASE superseding /\ t.session = t.saved.id
  <2>1. u = t
    BY <1>1, <1>2, <1>4, ZenonT(30) DEF resumeSession
  <2>2. SavesCurrent(t)
    BY <1>4 DEF SavesCurrent
  <2> QED
    BY <1>1, <2>1, <2>2 DEF Aware
<1>5. CASE superseding /\ t.session # t.saved.id
  <2>1. u = Restored(t, t.saved, NoList, d)
    BY <1>1, <1>2, <1>5, ZenonT(30) DEF resumeSession
  <2>2. /\ t.saved # NoSave /\ t.saved.id \notin t.handled
        /\ t.saved.state \in {"GENERATING", "CYCLING"}
    BY <1>5 DEF Superseding, Restorable, isSessionHandled
  <2>3. m = Sessions
    BY <1>5, <2>2 DEF SavesCurrent
  <2> QED
    BY <1>1, <2>1, <2>2, <2>3, SavedAware
<1>6. CASE ~superseding /\ isSessionHandled(t, found[2])
  <2>1. u = ScheduleReloads(t, {[id |-> found[2], fresh |-> fresh]})
    BY <1>1, <1>6, ZenonT(30) DEF resumeSession
  <2>2. SavesCurrent(t)
    BY <1>6 DEF Superseding, Restorable, isSessionHandled, SavesCurrent
  <2>3. Aware(t, d, src, sv, o, m)
    BY <2>2 DEF Aware
  <2>4. ScheduleReloads(t, {[id |-> found[2], fresh |-> fresh]}) \in Pages
    BY <1>3, <2>1 DEF Sane
  <2> QED
    BY <1>1, <2>1, <2>3, <2>4, ReloadsAware
<1>7. CASE ~isSessionHandled(t, found[2]) /\ found[1] = None
  <2>1. ~superseding
    BY <1>2, <1>7
  <2>2. CASE Restorable(t, t.saved, NoList)
    <3>1. u = Restored(t, t.saved, NoList, d)
      BY <1>1, <1>7, <2>1, <2>2, ZenonT(30) DEF resumeSession
    <3>2. t.saved # NoSave /\ t.saved.id \notin t.handled
      BY <2>2 DEF Restorable, isSessionHandled
    <3>3. t.saved.id \in Sessions
      BY <3>2 DEF GoesBy, Pages, Saves
    <3>4. d[t.saved.id] \notin 1 .. Count
      BY <1>7, <3>3, NoWrapper, LiveAssumption DEF Wrapped
    <3> QED
      BY <1>1, <3>1, <3>2, <3>4, SavedAware
  <2>3. CASE ~Restorable(t, t.saved, NoList)
    <3>1. u = [t EXCEPT !.saved = NoSave]
      BY <1>1, <1>7, <2>1, <2>3, ZenonT(30) DEF resumeSession
    <3>2. /\ u \in Pages /\ u.session = t.session /\ u.arrived = t.arrived /\ u.saved = NoSave
          /\ u.observed = t.observed /\ u.anchor = None /\ u.file = t.file
          /\ u.state = t.state /\ u.posts = t.posts /\ u.timers = t.timers
      BY <3>1 DEF GoesBy, Pages
    <3>3. GoesBy(u, d, src, sv)
      BY <3>2, GoesBySame DEF AsksNoMore
    <3>4. WillSee(u, d, sv, o, m)
      BY <3>2 DEF WillSee, Overlooked, BeingAccepted
    <3>5. Observes(u, o) /\ SavesCurrent(u)
      BY <3>2 DEF Observes, SavesCurrent
    <3> QED
      BY <1>1, <3>3, <3>4, <3>5 DEF Aware
  <2> QED
    BY <2>2, <2>3
<1>8. CASE ~isSessionHandled(t, found[2]) /\ found[1] # None
  <2>1. ~superseding
    BY <1>2, <1>8
  <2>2. u = Resumed(t, found[1], d)
    BY <1>1, <1>8, <2>1, ZenonT(30) DEF resumeSession
  <2>3. /\ found[1] \in Sessions /\ found[1] \notin t.handled /\ Wrapped(d[found[1]])
        /\ server[found[1]] # "new"
    BY <1>8, WrappersAre DEF Held, isSessionHandled, BegunIfWritten
  <2> QED
    BY <1>1, <2>2, <2>3, ResumedAware
<1> QED
  BY <1>4, <1>5, <1>6, <1>7, <1>8

-----------------------------------------------------------------------------
\* The page changes to e: a variant more is shown, if the session is observed.
LEMMA SeenAware ==
    ASSUME NEW sw, NEW c, NEW t, Sane(t, sw, c),
           NEW d, NEW src, NEW sv, NEW o, NEW m, Aware(t, d, src, sv, o, m), ~o => m = Sessions,
           NEW e, \A s \in Sessions : e[s] = d[s] \/ e[s] = src[s], PageShows(e, src, sv)
    PROVE  Aware(VariantsSeen(t, e), e, src, sv, o, m)
<1> DEFINE seen == ~(t.observed = None \/ ~Wrapped(e[t.observed]) \/ e[t.observed] <= t.arrived)
<1>1. \A s \in Sessions : Shown(s, d, src, sv) => Shown(s, e, src, sv)
  BY DEF Shown
<1>2. GoesBy(t, e, src, sv)
  BY <1>1 DEF Aware, GoesBy, HoldsShown
<1>3. t \in Pages /\ t.anchor = None /\ t.arrived \in 0 .. Count
  BY DEF Aware, GoesBy, Pages
<1>4. CASE ~seen
  <2>1. VariantsSeen(t, e) = t
    BY <1>4, ZenonT(30) DEF VariantsSeen
  <2>2. ASSUME NEW s \in Sessions, Overlooked(t, s, e)
        PROVE  ~o
    <3>1. t.session = s /\ t.arrived = 0 /\ Wrapped(e[s]) /\ ~(e[s] <= t.arrived)
      BY <2>2, LiveAssumption DEF Overlooked, Wrapped
    <3>2. t.observed # s
      BY <1>4, <3>1, SessionsAre
    <3> QED
      BY <3>1, <3>2 DEF Aware, Observes
  <2>3. WillSee(t, e, sv, o, m)
    BY <2>2 DEF WillSee
  <2> QED
    BY <1>2, <2>1, <2>3 DEF Aware
<1>5. CASE seen
  <2>1. PICK v : v = [t EXCEPT !.arrived = e[t.observed], !.state = "CYCLING"]
    OBVIOUS
  <2>2. VariantsSeen(t, e) = sendCheckpoint(saveSession(v))
    BY <1>5, <2>1, ZenonT(30) DEF VariantsSeen
  <2>3. /\ t.observed = t.session /\ t.session \in Sessions /\ e[t.session] \in 1 .. Count
    <3>1. t.observed = t.session
      BY <1>5 DEF Aware, Observes
    <3>2. t.session \in Sessions
      BY <1>3, <1>5, <3>1 DEF Pages, Held
    <3>3. e[t.session] \in 0 .. Count /\ ~(e[t.session] <= t.arrived)
      BY <1>5, <3>1 DEF Wrapped
    <3>4. e[t.session] # 0
      BY <1>3, <3>3
    <3> QED
      BY <3>1, <3>2, <3>3, <3>4
  <2>4. e[t.observed] \in 0 .. Count /\ "CYCLING" \in States
    BY <2>3 DEF States
  <2>5. /\ v \in Pages /\ v.session = t.session /\ v.arrived = e[t.session]
        /\ v.saved = t.saved /\ v.observed = t.observed /\ v.anchor = None /\ v.file = t.file
        /\ v.state = "CYCLING" /\ v.posts = t.posts /\ v.timers = t.timers
    BY <1>3, <2>1, <2>3, <2>4 DEF Pages
  <2>6. \A x : BeingAccepted(v, x, sv) = BeingAccepted(t, x, sv)
    BY <2>5 DEF BeingAccepted
  <2>7. Shown(t.session, e, src, sv)
    BY <2>3 DEF PageShows
  <2>8. HoldsShown(v, e, src, sv)
    BY <1>2, <2>5, <2>6, <2>7 DEF GoesBy, HoldsShown
  <2>9. AsBegun(v, sv)
    <3>1. v.arrived # 0
      BY <2>3, <2>5
    <3> QED
      BY <1>2, <2>5, <2>6, <3>1 DEF GoesBy, AsBegun
  <2>10. CreatedOnce(v, sv)
    BY <1>2, <2>5 DEF GoesBy, CreatedOnce
  <2>11. GoesBy(v, e, src, sv) /\ Observes(v, o) /\ WillSee(v, e, sv, o, m)
    BY <2>3, <2>5, <2>8, <2>9, <2>10 DEF GoesBy, Observes, WillSee, Overlooked
  <2>12. Aware(saveSession(v), e, src, sv, o, m)
    BY <2>3, <2>5, <2>11, SaveAware, SessionsAre DEF Aware
  <2>13. sendCheckpoint(saveSession(v)) \in Pages
    BY <2>2, SeenSane DEF Sane
  <2> QED
    BY <2>2, <2>12, <2>13, CheckpointAware
<1> QED
  BY <1>4, <1>5

LEMMA ObserversAware ==
    ASSUME framework, NEW c, NEW t, Sane(t, server, c),
           NEW d, NEW src, NEW sv, NEW o, NEW m, Aware(t, d, src, sv, o, m), ~o => m = Sessions,
           NEW e, \A s \in Sessions : e[s] = d[s] \/ e[s] = src[s], PageShows(e, src, sv),
           BegunIfWritten(e, server), NEW found \in RuntimeWrappers(e)
    PROVE  Aware(Observers(t, e, found), e, src, sv, o, m)
<1>1. PICK u : u = VariantsSeen(t, e)
  OBVIOUS
<1>2. Sane(u, server, c) /\ Aware(u, e, src, sv, o, m)
  BY <1>1, SeenSane, SeenAware
<1>3. PICK v : v = Scouted(u, e, found)
  OBVIOUS
<1>4. Aware(v, e, src, sv, o, m)
  <2>1. CASE u.scout = {} \/ found[2] = None
    BY <1>2, <1>3, <2>1 DEF Scouted
  <2>2. CASE ~(u.scout = {} \/ found[2] = None)
    <3>1. PICK w : w = [u EXCEPT !.scout = {}]
      OBVIOUS
    <3>2. PICK fresh \in BOOLEAN : fresh = \A x \in u.scout : x.fresh
      OBVIOUS
    <3>3. v = resumeSession(w, fresh, found[1], found[2], e)
      BY <1>3, <2>2, <3>1, <3>2, ZenonT(30) DEF Scouted
    <3>4. Sane(w, server, c) /\ w.state = u.state
      BY <1>2, <3>1 DEF Sane, Pages, Begun, Superseded
    <3>5. u.state = "CONFIGURING" => ~fresh
      BY <1>2, <2>2, <3>2 DEF Sane, Superseded
    <3>6. /\ w \in Pages /\ w.session = u.session /\ w.arrived = u.arrived /\ w.saved = u.saved
          /\ w.observed = u.observed /\ w.anchor = u.anchor /\ w.file = u.file
          /\ w.handled = u.handled /\ w.posts = u.posts /\ w.timers = u.timers
      BY <1>2, <3>1 DEF Sane, Pages
    <3>7. Aware(w, e, src, sv, o, m)
      BY <1>2, <3>4, <3>6, AwareSame DEF AsksNoMore
    <3> QED
      BY <3>3, <3>4, <3>5, <3>7, ResumeAware DEF Aware
  <2> QED
    BY <2>1, <2>2
<1>5. Observers(t, e, found) = HandledSeen(v, e)
  BY <1>1, <1>3 DEF Observers
<1>6. PICK wrappers : wrappers = {w \in v.watched : Marked(e[w.id])}
  OBVIOUS
<1>7. HandledSeen(v, e) = ScheduleReloads(v, wrappers)
  BY <1>6 DEF HandledSeen
<1>8. ScheduleReloads(v, wrappers) \in Pages
  BY <1>5, <1>7, ObserversSane DEF Sane
<1> QED
  BY <1>4, <1>5, <1>7, <1>8, ReloadsAware

-----------------------------------------------------------------------------
LEMMA MoreExpected ==
    ASSUME NEW d, NEW src, NEW sv, NEW o, NEW m, NEW t, Aware(t, d, src, sv, o, m), NEW n, m \subseteq n
    PROVE  Aware(t, d, src, sv, o, n)
  BY DEF Aware, WillSee

LEMMA ReloadsLeave ==
    ASSUME NEW t \in Pages, NEW wrappers
    PROVE  /\ ScheduleReloads(t, wrappers).posts = t.posts
           /\ ScheduleReloads(t, wrappers).anchor = t.anchor
           /\ \A x \in ScheduleReloads(t, wrappers).timers : x.kind = "capture" => x \in t.timers
<1>1. PICK due : ScheduleReloads(t, wrappers) =
          [t EXCEPT !.attempts = [s \in Sessions |-> IF s \in {w.id : w \in due} THEN @[s] + 1 ELSE @[s]],
                    !.timers = @ \cup {Timer("handled", w.id, w.fresh, 0) : w \in due}]
  BY DEF ScheduleReloads
<1>2. PICK new : new = {Timer("handled", w.id, w.fresh, 0) : w \in due}
  OBVIOUS
<1>3. PICK attempts :
        attempts = [s \in Sessions |-> IF s \in {w.id : w \in due} THEN t.attempts[s] + 1 ELSE t.attempts[s]]
  OBVIOUS
<1>4. PICK u : u = ScheduleReloads(t, wrappers)
  OBVIOUS
<1>5. u = [t EXCEPT !.attempts = attempts, !.timers = @ \cup new]
  BY <1>1, <1>2, <1>3, <1>4
<1>6. u.posts = t.posts /\ u.anchor = t.anchor /\ u.timers = t.timers \cup new
  BY <1>5 DEF Pages
<1>7. \A x \in new : x.kind = "handled"
  BY <1>2 DEF Timer
<1> QED
  BY <1>4, <1>6, <1>7

\* A tab that has had its session accepted looks for nothing.
LEMMA AcceptedAware ==
    ASSUME NEW c, NEW t, Sane(t, server, c), NEW s \in Sessions, NEW look,
           NEW d, NEW src, NEW sv, NEW o, NEW m, GoesBy(t, d, src, sv)
    PROVE  Aware(Accepted(t, s, look), d, src, sv, o, m)
<1>1. PICK watch : watch = [id |-> s, fresh |-> TRUE]
  OBVIOUS
<1>2. PICK marked : marked = markSessionHandled(t)
  OBVIOUS
<1>3. PICK watched : watched = {w \in marked.watched : w.id # s} \cup {watch}
  OBVIOUS
<1>4. PICK watching : watching = [marked EXCEPT !.watched = watched]
  OBVIOUS
<1>5. PICK seen : seen = IF Marked(look[s]) THEN ScheduleReloads(watching, {watch}) ELSE watching
  OBVIOUS
<1>6. PICK x : x = Timer("accept", s, TRUE, 0)
  OBVIOUS
<1>7. PICK u : u = [[seen EXCEPT !.timers = @ \cup {x}] EXCEPT
                     !.state = "PICKING", !.session = None, !.observed = None, !.file = FALSE,
                     !.pending = None, !.saved = NoSave]
  OBVIOUS
<1>8. /\ marked \in Pages /\ marked.posts = t.posts /\ marked.timers = t.timers
      /\ marked.anchor = t.anchor
  <2>1. marked \in Pages
    BY <1>2, MarkTypes DEF Sane
  <2>2. t \in Pages
    BY DEF Sane
  <2> QED
    BY <1>2, <2>1, <2>2 DEF markSessionHandled, Pages
<1>9. watched \subseteq [id : Sessions, fresh : BOOLEAN] /\ watch.id \in Sessions /\ watch.fresh \in BOOLEAN
  <2>1. marked.watched \in SUBSET [id : Sessions, fresh : BOOLEAN]
    BY <1>8 DEF Pages
  <2>2. watch \in [id : Sessions, fresh : BOOLEAN]
    BY <1>1
  <2> QED
    BY <1>3, <2>1, <2>2
<1>10. /\ watching \in Pages /\ watching.posts = t.posts /\ watching.timers = t.timers
       /\ watching.anchor = t.anchor
  BY <1>4, <1>8, <1>9 DEF Pages
<1>11. /\ seen.posts = t.posts /\ seen.anchor = t.anchor /\ seen \in Pages
       /\ \A y \in seen.timers : y.kind = "capture" => y \in t.timers
  <2>1. \A w \in {watch} : w.id \in Sessions \cup {None} /\ w.fresh \in BOOLEAN
    BY <1>9, Zenon
  <2>2. ScheduleReloads(watching, {watch}) \in Pages
    BY <1>10, <2>1, ReloadsTypes
  <2> QED
    BY <1>5, <1>10, <2>2, ReloadsLeave
<1>12. Accepted(t, s, look) = u
  <2>1. watching = [marked EXCEPT !.watched = {w \in @ : w.id # s} \cup {watch}]
    BY <1>3, <1>4, <1>8 DEF Pages
  <2> QED
    BY <1>1, <1>2, <1>5, <1>6, <1>7, <2>1, ZenonT(30) DEF Accepted, setTimer
<1>13. u \in Pages
  BY <1>12, AcceptedSane DEF Sane
<1>14. /\ u.session = None /\ u.saved = NoSave /\ u.observed = None /\ u.anchor = t.anchor
       /\ u.posts = t.posts /\ u.timers = seen.timers \cup {x}
  BY <1>7, <1>11 DEF Pages
<1>15. x.kind = "accept"
  BY <1>6 DEF Timer
<1> QED
  BY <1>11, <1>12, <1>13, <1>14, <1>15, IdleAware DEF GoesBy, AsksNoMore

LEMMA ContinuedAware ==
    ASSUME NEW c, NEW t, Sane(t, server, c), NEW p \in PostTypes,
           NEW d, NEW src, NEW sv, NEW o, NEW m, Aware(t, d, src, sv, o, m)
    PROVE  Aware(Continued(t, p), d, src, sv, o, m)
<1>1. PICK a : a = Accepted(t, p.id, dom)
  OBVIOUS
<1>2. PICK pending : pending = IF t.pending = p.id THEN None ELSE t.pending
  OBVIOUS
<1>3. PICK failed : failed = [t EXCEPT !.state = "CYCLING", !.pending = pending]
  OBVIOUS
<1>4. PICK u : u = Continued(t, p)
  OBVIOUS
<1>5. u \in Pages
  BY <1>4, ContinuedSane DEF Sane
<1>6. \/ u = sendCheckpoint(t)
      \/ u = [a EXCEPT !.awaiting = p.id]
      \/ u = [t EXCEPT !.state = "CYCLING", !.pending = IF @ = p.id THEN None ELSE @]
      \/ u = cleanup(markSessionHandled(t))
      \/ u = t
  BY <1>1, <1>4, ZenonT(60) DEF Continued
<1>7. CASE u = [a EXCEPT !.awaiting = p.id]
  <2>1. Aware(a, d, src, sv, o, m)
    BY <1>1, AcceptedAware DEF Aware, PostTypes
  <2>2. /\ u.session = a.session /\ u.arrived = a.arrived /\ u.saved = a.saved
        /\ u.observed = a.observed /\ u.anchor = a.anchor /\ u.file = a.file
        /\ u.handled = a.handled /\ u.state = a.state /\ u.posts = a.posts
        /\ u.timers = a.timers
    BY <1>7, <2>1 DEF Aware, GoesBy, Pages
  <2> QED
    BY <1>4, <1>5, <2>1, <2>2, AwareSame DEF AsksNoMore
<1>8. CASE u = [t EXCEPT !.state = "CYCLING", !.pending = IF @ = p.id THEN None ELSE @]
  <2>1. t \in Pages
    BY DEF Sane
  <2>2. u = failed
    BY <1>2, <1>3, <1>8, <2>1 DEF Pages
  <2>3. /\ u.session = t.session /\ u.arrived = t.arrived /\ u.saved = t.saved
        /\ u.observed = t.observed /\ u.anchor = t.anchor /\ u.file = t.file
        /\ u.handled = t.handled /\ u.state = "CYCLING" /\ u.posts = t.posts
        /\ u.timers = t.timers
    BY <1>3, <2>1, <2>2 DEF Pages
  <2> QED
    BY <1>4, <1>5, <2>3, AwareSame DEF AsksNoMore
<1> QED
  BY <1>4, <1>5, <1>6, <1>7, <1>8, CheckpointAware, CleanupAware DEF Aware

LEMMA ErroredAware ==
    ASSUME NEW c, NEW t, Sane(t, server, c), NEW s \in Sessions,
           NEW d, NEW src, NEW sv, NEW o, NEW m, Aware(t, d, src, sv, o, m)
    PROVE  Aware(Errored(t, s), d, src, sv, o, m)
<1>1. PICK u : u = Errored(t, s)
  OBVIOUS
<1>2. u \in Pages /\ t \in Pages
  BY <1>1, ErroredSane DEF Sane
<1>3. PICK saved : saved = IF t.saved # NoSave /\ t.saved.id = s THEN NoSave ELSE t.saved
  OBVIOUS
<1>4. \/ u = [t EXCEPT !.pending = None, !.awaiting = None, !.state = "CYCLING"]
      \/ u = [t EXCEPT !.awaiting = None]
      \/ u = cleanup(markSessionHandled(t))
      \/ u = [t EXCEPT !.state = "PICKING", !.saved = IF @ # NoSave /\ @.id = s THEN NoSave ELSE @]
  BY <1>1, ZenonT(60) DEF Errored
<1>5. CASE u = [t EXCEPT !.state = "PICKING", !.saved = IF @ # NoSave /\ @.id = s THEN NoSave ELSE @]
  <2>1. u = [t EXCEPT !.state = "PICKING", !.saved = saved]
    BY <1>2, <1>3, <1>5 DEF Pages
  <2>2. /\ u.session = t.session /\ u.arrived = t.arrived /\ u.saved = saved
        /\ u.observed = t.observed /\ u.anchor = t.anchor /\ u.file = t.file
        /\ u.handled = t.handled /\ u.state = "PICKING" /\ u.posts = t.posts
        /\ u.timers = t.timers
    BY <1>2, <2>1 DEF Pages
  <2>3. saved = t.saved \/ saved = NoSave
    BY <1>3
  <2> QED
    BY <1>1, <1>2, <2>2, <2>3, AwareSame DEF AsksNoMore
<1>6. CASE \/ u = [t EXCEPT !.pending = None, !.awaiting = None, !.state = "CYCLING"]
           \/ u = [t EXCEPT !.awaiting = None]
  <2>1. /\ u.session = t.session /\ u.arrived = t.arrived /\ u.saved = t.saved
        /\ u.observed = t.observed /\ u.anchor = t.anchor /\ u.file = t.file
        /\ u.handled = t.handled /\ u.state \in {t.state, "CYCLING"} /\ u.posts = t.posts
        /\ u.timers = t.timers
    BY <1>2, <1>6 DEF Pages
  <2> QED
    BY <1>1, <1>2, <2>1, AwareSame DEF AsksNoMore
<1> QED
  BY <1>1, <1>2, <1>4, <1>5, <1>6, CleanupAware DEF Aware

\* The message of its completion has the source read.
LEMMA CompletedAware ==
    ASSUME NEW c, NEW t, Sane(t, server, c), NEW s \in Sessions,
           NEW d, NEW src, NEW sv, NEW o, NEW m, Aware(t, d, src, sv, o, m),
           NEW n, \A x \in m : x # s => x \in n
    PROVE  Aware(Completed(t, s), d, src, sv, o, n)
<1>1. PICK known : known = [t EXCEPT !.file = TRUE]
  OBVIOUS
<1>2. PICK x : x = Timer("read", s, TRUE, 0)
  OBVIOUS
<1>3. PICK u : u = Completed(t, s)
  OBVIOUS
<1>4. u \in Pages /\ t \in Pages
  BY <1>3, CompletedSane DEF Sane
<1>5. /\ known \in Pages /\ known.session = t.session /\ known.arrived = t.arrived
      /\ known.saved = t.saved /\ known.observed = t.observed /\ known.anchor = t.anchor
      /\ known.file /\ known.handled = t.handled /\ known.state = t.state
      /\ known.posts = t.posts /\ known.timers = t.timers
  BY <1>1, <1>4 DEF Pages
<1>6. \/ known.arrived = Count /\ u = [known EXCEPT !.state = IF @ = "GENERATING" THEN "CYCLING" ELSE @]
      \/ known.arrived # Count /\ known.state = "GENERATING" /\ known.session = s /\ u = setTimer(known, x)
      \/ known.arrived # Count /\ ~(known.state = "GENERATING" /\ known.session = s) /\ u = known
  BY <1>1, <1>2, <1>3, ZenonT(60) DEF Completed
<1>7. /\ u.session = t.session /\ u.arrived = t.arrived /\ u.saved = t.saved
      /\ u.observed = t.observed /\ u.anchor = t.anchor /\ u.file
      /\ u.handled = t.handled /\ u.state \in {t.state, "CYCLING"} /\ u.posts = t.posts
      /\ u.timers \in {t.timers, t.timers \cup {x}}
      /\ t.arrived = Count => u.state # "GENERATING"
      /\ t.arrived # Count /\ t.state = "GENERATING" /\ t.session = s => x \in u.timers
  BY <1>4, <1>5, <1>6 DEF Pages, setTimer
<1>8. x.kind = "read" /\ x.id = s
  BY <1>2 DEF Timer
<1>9. Aware(u, d, src, sv, o, m)
  BY <1>4, <1>7, <1>8, AwareSame DEF AsksNoMore
<1>10. WillSee(u, d, sv, o, n)
  <2>1. ASSUME NEW y \in Sessions, Overlooked(u, y, d), sv[y] = "generated"
        PROVE  y \in n \/ \E z \in u.timers : z.kind \in Late /\ z.id = y
    <3>1. u.session = y /\ u.state = "GENERATING" /\ u.arrived = 0 /\ Count # 0
      BY <2>1, LiveAssumption DEF Overlooked
    <3>2. CASE y = s
      BY <1>7, <1>8, <3>1, <3>2 DEF Late
    <3>3. CASE y # s
      BY <1>9, <2>1, <3>3 DEF Aware, WillSee
    <3> QED
      BY <3>2, <3>3
  <2> QED
    BY <1>9, <2>1 DEF Aware, WillSee
<1> QED
  BY <1>3, <1>9, <1>10 DEF Aware

LEMMA ReceivedAware ==
    ASSUME NEW c, NEW t, Sane(t, server, c), NEW msg \in Told, NEW look,
           NEW d, NEW src, NEW sv, NEW o, NEW m, Aware(t, d, src, sv, o, m),
           NEW n, \A x \in m : x \in n \/ msg = [type |-> "done", id |-> x]
    PROVE  Aware(Received(t, msg, look), d, src, sv, o, n)
<1>1. msg.id \in Sessions
  BY DEF Told
<1>2. CASE msg.type = "done"
  <2>1. Received(t, msg, look) = Completed(t, msg.id)
    BY <1>2, ZenonT(30) DEF Received
  <2>2. \A x \in m : x # msg.id => x \in n
    OBVIOUS
  <2> QED
    BY <1>1, <2>1, <2>2, CompletedAware
<1>3. CASE msg.type # "done"
  <2>1. Aware(t, d, src, sv, o, n)
    BY <1>3, MoreExpected
  <2>2. CASE msg.type \in {"accept", "agent_done"}
    <3>1. PICK awaiting : awaiting = IF t.awaiting = msg.id THEN None ELSE t.awaiting
      OBVIOUS
    <3>2. PICK u : u = [t EXCEPT !.awaiting = awaiting]
      OBVIOUS
    <3>3. t \in Pages /\ awaiting \in Held
      BY <3>1 DEF Sane, Pages, Held
    <3>4. u = [t EXCEPT !.awaiting = IF @ = msg.id THEN None ELSE @]
      BY <3>1, <3>2, <3>3 DEF Pages
    <3>5. Received(t, msg, look) = maybeCompleteAcceptedSession(u, msg.id, look)
      BY <2>2, <3>4, ZenonT(30) DEF Received
    <3>6. Sane(u, server, c)
      BY <3>2, <3>3 DEF Sane, Pages, Begun, Superseded
    <3>7. /\ u \in Pages /\ u.session = t.session /\ u.arrived = t.arrived /\ u.saved = t.saved
          /\ u.observed = t.observed /\ u.anchor = t.anchor /\ u.file = t.file
          /\ u.handled = t.handled /\ u.state = t.state /\ u.posts = t.posts
          /\ u.timers = t.timers
      BY <3>2, <3>3 DEF Pages
    <3>8. Aware(u, d, src, sv, o, n)
      BY <2>1, <3>7, AwareSame DEF AsksNoMore
    <3>9. PICK v : v = [u EXCEPT !.pending = None]
      OBVIOUS
    <3>10. /\ v \in Pages /\ v.session = u.session /\ v.arrived = u.arrived /\ v.saved = u.saved
           /\ v.observed = u.observed /\ v.anchor = u.anchor /\ v.file = u.file
           /\ v.handled = u.handled /\ v.state = u.state /\ v.posts = u.posts
           /\ v.timers = u.timers
      BY <3>7, <3>9 DEF Pages, Held
    <3>11. Aware(v, d, src, sv, o, n)
      BY <3>8, <3>10, AwareSame DEF AsksNoMore
    <3>12. \/ maybeCompleteAcceptedSession(u, msg.id, look) = u
           \/ maybeCompleteAcceptedSession(u, msg.id, look) = v
           \/ maybeCompleteAcceptedSession(u, msg.id, look) = Accepted(u, msg.id, look)
      BY <3>9, ZenonT(30) DEF maybeCompleteAcceptedSession
    <3> QED
      BY <1>1, <3>5, <3>6, <3>8, <3>11, <3>12, AcceptedAware DEF Aware
  <2>3. CASE msg.type = "discarded"
    <3>1. \/ Received(t, msg, look) = cleanup(markSessionHandled(t))
          \/ Received(t, msg, look) = t
      BY <2>3, ZenonT(30) DEF Received
    <3> QED
      BY <2>1, <3>1, MarkedCleanSane, CleanupAware DEF Aware, Sane
  <2>4. CASE msg.type = "error"
    <3>1. Received(t, msg, look) = Errored(t, msg.id)
      BY <2>4, SMTT(30) DEF Received
    <3> QED
      BY <1>1, <2>1, <3>1, ErroredAware
  <2> QED
    BY <1>3, <2>2, <2>3, <2>4 DEF Told
<1> QED
  BY <1>2, <1>3

-----------------------------------------------------------------------------
\* Source and phases move on, while page and tab stay.
LEMMA WorldAware ==
    ASSUME NEW d, NEW src, NEW sv, NEW o, NEW m, NEW t,
           GoesBy(t, d, src, sv), WillSee(t, d, sv, o, m),
           NEW src2, NEW sv2, NEW n,
           \A s \in Sessions : Shown(s, d, src, sv) => Shown(s, d, src2, sv2),
           \A s \in Sessions : sv2[s] = "accepting" => BeingAccepted(t, s, sv),
           \A s \in Sessions : sv[s] # "new" => sv2[s] # "new",
           \A s \in Sessions : sv[s] = "announced" /\ sv2[s] # "announced" =>
               /\ \A x \in t.timers : x.kind = "capture" => x.id # s
               /\ \A p \in t.posts : p.kind = "generate" /\ p.id = s => p.step # "sent",
           \A s \in Sessions : Overlooked(t, s, d) /\ sv2[s] = "generated" =>
               s \in n \/ (sv[s] = "generated" /\ (s \in m => s \in n))
    PROVE  GoesBy(t, d, src2, sv2) /\ WillSee(t, d, sv2, o, n)
<1>1. \A s \in Sessions : BeingAccepted(t, s, sv2) => BeingAccepted(t, s, sv)
  BY DEF BeingAccepted
<1>2. HoldsShown(t, d, src2, sv2)
  BY <1>1 DEF GoesBy, HoldsShown
<1>3. AsBegun(t, sv2)
  BY <1>1 DEF GoesBy, AsBegun
<1>4. t \in Pages /\ t.posts \subseteq PostTypes /\ t.timers \subseteq TimerTypes
  BY DEF GoesBy, Pages
<1>5. (\A p \in t.posts : p.id \in Sessions) /\ (\A x \in t.timers : x.id \in Sessions)
  BY <1>4 DEF PostTypes, TimerTypes
<1>6. CreatedOnce(t, sv2)
  BY <1>5 DEF GoesBy, CreatedOnce
<1>7. WillSee(t, d, sv2, o, n)
  BY <1>1 DEF WillSee
<1> QED
  BY <1>2, <1>3, <1>6, <1>7 DEF GoesBy

\* The helper has taken a post, or failed to.
Taken(t, p, result) == [t EXCEPT !.posts = (@ \ {p}) \cup {[p EXCEPT !.step = result]}]

LEMMA TakenAware ==
    ASSUME NEW d, NEW src, NEW sv, NEW o, NEW m, NEW t, Aware(t, d, src, sv, o, m),
           NEW p \in t.posts, p.step = "sent", NEW result \in {"ok", "failed"},
           NEW u, u = Taken(t, p, result)
    PROVE  /\ Aware(u, d, src, sv, o, m)
           /\ \A s : BeingAccepted(u, s, sv) <=> BeingAccepted(t, s, sv)
           /\ \A q \in u.posts : q.kind = "generate" /\ q.id = p.id /\ p.kind = "generate" =>
                  q.step # "sent"
           /\ u.timers = t.timers
<1>1. PICK q : q = [p EXCEPT !.step = result]
  OBVIOUS
<1>3. t \in Pages /\ p \in PostTypes /\ t.anchor = None
  BY DEF Aware, GoesBy, Pages
<1>4. q \in PostTypes /\ q.kind = p.kind /\ q.id = p.id /\ q.step = result
  BY <1>1, <1>3 DEF PostTypes
<1>5. /\ u \in Pages /\ u.session = t.session /\ u.arrived = t.arrived /\ u.saved = t.saved
      /\ u.observed = t.observed /\ u.anchor = t.anchor /\ u.file = t.file
      /\ u.handled = t.handled /\ u.state = t.state /\ u.posts = (t.posts \ {p}) \cup {q}
      /\ u.timers = t.timers
  BY <1>1, <1>3, <1>4 DEF Pages, Taken
<1>6. \A s : BeingAccepted(u, s, sv) <=> BeingAccepted(t, s, sv)
  BY <1>4, <1>5 DEF BeingAccepted
<1>7. HoldsShown(u, d, src, sv)
  BY <1>5, <1>6 DEF Aware, GoesBy, HoldsShown
<1>8. AsBegun(u, sv)
  BY <1>5, <1>6 DEF Aware, GoesBy, AsBegun
<1>9. CreatedOnce(t, sv)
  BY DEF Aware, GoesBy
<1>10. CreatedOnce(u, sv)
  <2>1. ASSUME NEW x \in u.timers, x.kind = "capture"
        PROVE  /\ sv[x.id] = "announced"
               /\ \A y \in u.timers : y.kind = "capture" /\ y.id = x.id => y = x
               /\ \A r \in u.posts : r.kind = "generate" => r.id # x.id
    BY <1>4, <1>5, <1>9, <2>1 DEF CreatedOnce
  <2>2. ASSUME NEW r \in u.posts, r.kind = "generate"
        PROVE  /\ sv[r.id] # "new" /\ r.step # "gated"
               /\ r.step = "sent" => /\ sv[r.id] = "announced"
                                     /\ \A y \in u.posts : y.kind = "generate" /\ y.id = r.id => y = r
    <3>1. CASE r = q
      BY <1>4, <1>9, <2>2, <3>1 DEF CreatedOnce
    <3>2. CASE r # q
      <4>1. r \in t.posts /\ r # p
        BY <1>5, <3>2
      <4>2. ASSUME r.step = "sent", NEW y \in u.posts, y.kind = "generate", y.id = r.id
            PROVE  y = r
        <5>1. CASE y = q
          BY <1>4, <1>9, <2>2, <4>1, <4>2, <5>1 DEF CreatedOnce
        <5>2. CASE y # q
          BY <1>5, <1>9, <2>2, <4>1, <4>2, <5>2 DEF CreatedOnce
        <5> QED
          BY <5>1, <5>2
      <4> QED
        BY <1>9, <2>2, <4>1, <4>2 DEF CreatedOnce
    <3> QED
      BY <3>1, <3>2
  <2> QED
    BY <2>1, <2>2 DEF CreatedOnce
<1>11. GoesBy(u, d, src, sv)
  BY <1>3, <1>5, <1>7, <1>8, <1>10 DEF GoesBy
<1>12. WillSee(u, d, sv, o, m) /\ Observes(u, o) /\ SavesCurrent(u)
  BY <1>5, <1>6 DEF Aware, WillSee, Overlooked, Observes, SavesCurrent
<1>13. \A r \in u.posts : r.kind = "generate" /\ r.id = p.id /\ p.kind = "generate" => r.step # "sent"
  <2> SUFFICES ASSUME NEW r \in u.posts, r.kind = "generate", r.id = p.id, p.kind = "generate",
                      r.step = "sent"
               PROVE  FALSE
    OBVIOUS
  <2>1. r \in t.posts /\ r # p
    BY <1>4, <1>5
  <2> QED
    BY <1>9, <2>1 DEF CreatedOnce
<1>14. Aware(u, d, src, sv, o, m)
  BY <1>11, <1>12 DEF Aware
<1> QED
  BY <1>5, <1>6, <1>13, <1>14

\* A session begins: the helper has not heard of it, and nothing else is about it.
LEMMA GeneratingAware ==
    ASSUME NEW t, NEW d, NEW src, NEW sv, NEW o, NEW m, GoesBy(t, d, src, sv),
           PageShows(d, src, sv), NEW s \in Sessions, sv[s] = "new", NEW sv2,
           sv2[s] = "announced", \A x \in Sessions : x # s => sv2[x] = sv[x]
    PROVE  /\ Aware(Generating(t, s), d, src, sv2, o, m)
           /\ Generating(t, s).posts = t.posts /\ Generating(t, s).timers = t.timers
           /\ \A x \in t.timers : x.kind = "capture" => x.id # s
           /\ \A p \in t.posts : p.kind = "generate" => p.id # s
<1>1. PICK v : v = [t EXCEPT !.state = "GENERATING", !.session = s, !.arrived = 0, !.file = FALSE,
                             !.pending = None, !.awaiting = None, !.observed = s]
  OBVIOUS
<1>2. Generating(t, s) = saveSession(v)
  BY <1>1 DEF Generating
<1>3. t \in Pages /\ s \in Held /\ None \in Held /\ "GENERATING" \in States /\ 0 \in 0 .. Count
      /\ t.anchor = None
  BY LiveAssumption DEF GoesBy, Held, States
<1>4. /\ v \in Pages /\ v.session = s /\ v.arrived = 0 /\ v.saved = t.saved
      /\ v.observed = s /\ v.anchor = None /\ ~v.file /\ v.state = "GENERATING"
      /\ v.posts = t.posts /\ v.timers = t.timers
  BY <1>1, <1>3 DEF Pages
<1>5. sv2[s] = "announced" /\ \A x \in Sessions : x # s => sv2[x] = sv[x]
  OBVIOUS
<1>6. ~Shown(s, d, src, sv) /\ d[s] \notin 1 .. Count /\ ~BeingAccepted(t, s, sv)
  BY DEF GoesBy, HoldsShown, PageShows, Shown
<1>7. \A x \in Sessions : Shown(x, d, src, sv) => Shown(x, d, src, sv2)
  BY <1>5, <1>6 DEF Shown
<1>8. \A x \in Sessions : BeingAccepted(v, x, sv2) => BeingAccepted(t, x, sv)
  BY <1>4, <1>5 DEF BeingAccepted
<1>9. HoldsShown(v, d, src, sv2)
  <2>1. HoldsShown(t, d, src, sv)
    BY DEF GoesBy
  <2> SUFFICES ASSUME NEW x \in Sessions
               PROVE  /\ ~(v.arrived > 0)
                      /\ v.saved # NoSave /\ v.saved.id = x /\ v.saved.arrived > 0
                            => Shown(x, d, src, sv2)
                      /\ BeingAccepted(v, x, sv2) => Shown(x, d, src, sv2)
    BY DEF HoldsShown
  <2>2. ~(v.arrived > 0)
    BY <1>4
  <2>3. v.saved # NoSave /\ v.saved.id = x /\ v.saved.arrived > 0 => Shown(x, d, src, sv)
    BY <1>4, <2>1 DEF HoldsShown
  <2>4. BeingAccepted(v, x, sv2) => Shown(x, d, src, sv)
    BY <1>8, <2>1 DEF HoldsShown
  <2> QED
    BY <1>7, <2>2, <2>3, <2>4
<1>10. AsBegun(v, sv2)
  BY <1>4, <1>6, <1>8 DEF GoesBy, AsBegun
<1>11. /\ \A x \in t.timers : x.kind = "capture" => x.id # s /\ x.id \in Sessions
       /\ \A p \in t.posts : p.kind = "generate" => p.id # s /\ p.id \in Sessions
  <2>1. t.posts \subseteq PostTypes /\ t.timers \subseteq TimerTypes
    BY <1>3 DEF Pages
  <2>2. (\A p \in t.posts : p.id \in Sessions) /\ (\A x \in t.timers : x.id \in Sessions)
    BY <2>1 DEF PostTypes, TimerTypes
  <2> QED
    BY <2>2 DEF GoesBy, CreatedOnce
<1>12. CreatedOnce(v, sv2)
  BY <1>4, <1>5, <1>11 DEF GoesBy, CreatedOnce
<1>13. GoesBy(v, d, src, sv2) /\ Observes(v, o) /\ WillSee(v, d, sv2, o, m)
  BY <1>4, <1>6, <1>9, <1>10, <1>12 DEF GoesBy, Observes, WillSee, Overlooked
<1>14. Aware(saveSession(v), d, src, sv2, o, m) /\ saveSession(v).posts = v.posts
  BY <1>4, <1>13, SaveAware, SessionsAre DEF Aware
<1>15. saveSession(v).timers = v.timers
  BY <1>4 DEF saveSession, Pages
<1> QED
  BY <1>2, <1>4, <1>11, <1>14, <1>15

-----------------------------------------------------------------------------
(***************************************************************************)
(* The steps, of a framework page.                                         *)
(***************************************************************************)
AwareTab(t) == Aware(t, dom, source, server, stream # "closed", Expected)

LEMMA LoadedAware ==
    ASSUME CompletionInv, SessionInv, framework, Loaded
    PROVE  AwareTab(tab) /\ Sane(tab, server, TRUE)
  BY LoadedIs DEF CompletionInv, AwareTab, Aware

LEMMA HandleAware ==
    ASSUME CompletionInv, framework, NEW t, AwareTab(t), tab' = t,
           UNCHANGED <<bounds, dom, helper, stream, inbox>>
    PROVE  CompletionInv'
<1>1. Expected' = Expected
  BY DEF Expected, ToldComplete
<1>2. /\ framework' = framework /\ dom' = dom /\ source' = source /\ server' = server
      /\ stream' = stream
  BY DEF bounds, helper
<1>3. SourceWritten(source', server') /\ PageShows(dom', source', server')
  BY <1>2 DEF CompletionInv
<1>4. Aware(tab', dom', source', server', stream' # "closed", Expected')
  BY <1>1, <1>2 DEF AwareTab
<1> QED
  BY <1>3, <1>4 DEF CompletionInv, Aware

LEMMA UnloadAware ==
    ASSUME CompletionInv, framework, Unload, UNCHANGED <<framework, dom, helper>>
    PROVE  CompletionInv'
<1>1. tab \in Pages /\ Begun(tab, [s \in Sessions |-> "requested"])
  BY DEF CompletionInv, GoesBy, Begun
<1>2. PICK u : u = NewPage(tab)
  OBVIOUS
<1>3. u \in Pages
  BY <1>1, <1>2, NewPageIs
<1>4. /\ u.state = "UNLOADED" /\ u.session = None /\ u.saved = tab.saved /\ u.observed = None
      /\ u.anchor = None /\ u.posts = {} /\ u.timers = {}
  BY <1>2 DEF NewPage
<1>5. /\ tab' = u /\ stream' = "closed" /\ framework' = framework /\ dom' = dom
      /\ source' = source /\ server' = server
  BY <1>2 DEF Unload, helper
<1>6. GoesBy(u, dom, source, server)
  BY <1>3, <1>4, GoesBySame DEF CompletionInv, AsksNoMore
<1>7. WillSee(u, dom, server, FALSE, Sessions) /\ Observes(u, FALSE)
  BY <1>4, SessionsAre DEF WillSee, Overlooked, Observes
<1>8. Expected' = Sessions /\ ~Loaded'
  BY <1>4, <1>5 DEF Expected, Loaded
<1> QED
  BY <1>5, <1>6, <1>7, <1>8 DEF CompletionInv

LEMMA ReloadIfAware ==
    ASSUME CompletionInv, framework, NEW stale, NEW t, AwareTab(t), ReloadIf(stale, t)
    PROVE  CompletionInv'
<1>1. CASE stale /\ Unload /\ UNCHANGED <<bounds, dom, helper>>
  BY <1>1, UnloadAware DEF bounds
<1>2. CASE ~stale /\ Handle(t)
  BY <1>2, HandleAware DEF Handle
<1> QED
  BY <1>1, <1>2 DEF ReloadIf

\* The page changes; it shows nothing of which there is nothing in the source.
LEMMA PagesShow ==
    ASSUME SourceWritten(source, server), PageShows(dom, source, server),
           NEW d, \A s \in Sessions : d[s] = source[s] \/ d[s] = dom[s]
    PROVE  PageShows(d, source, server)
<1> SUFFICES ASSUME NEW s \in Sessions, d[s] \in 1 .. Count
             PROVE  Shown(s, d, source, server)
  BY DEF PageShows
<1>1. CASE d[s] = source[s]
  <2>1. source[s] \in 1 .. Count /\ source[s] # Absent /\ source[s] # 0
    BY <1>1, LiveAssumption DEF Absent
  <2> QED
    BY <1>1, <2>1 DEF SourceWritten, Shown
<1>2. CASE d[s] = dom[s]
  BY <1>2 DEF PageShows, Shown
<1> QED
  BY <1>1, <1>2

LEMMA HotReloadAware ==
    ASSUME CompletionInv, SessionInv, framework, NEW s \in Sessions, HotReload(s)
    PROVE  CompletionInv'
<1>1. PICK d : d = [dom EXCEPT ![s] = source[s]]
  OBVIOUS
<1>2. PICK found \in RuntimeWrappers(d) : tab' = Observers(tab, d, found)
  BY <1>1 DEF HotReload, Mutate
<1>3. /\ framework' = framework /\ dom' = d /\ source' = source /\ server' = server
      /\ stream' = stream /\ inbox' = inbox
  BY <1>1 DEF HotReload, Mutate, bounds, helper
<1>4. AwareTab(tab) /\ Sane(tab, server, TRUE)
  BY LoadedAware DEF HotReload
<1>5. \A x \in Sessions : d[x] = dom[x] \/ d[x] = source[x]
  BY <1>1 DEF SessionInv, SessionTypes
<1>6. PageShows(d, source, server) /\ SourceWritten(source, server)
  BY <1>5, PagesShow DEF CompletionInv
<1>7. BegunIfWritten(d, server)
  BY <1>5 DEF SessionInv, BegunIfWritten
<1>8. ~(stream # "closed") => Expected = Sessions
  BY DEF Expected
<1>9. Aware(Observers(tab, d, found), d, source, server, stream # "closed", Expected)
  BY <1>4, <1>5, <1>6, <1>7, <1>8, ObserversAware DEF AwareTab
<1>10. Expected' = Expected
  BY <1>3 DEF Expected, ToldComplete
<1>11. Aware(tab', dom', source', server', stream' # "closed", Expected')
  BY <1>2, <1>3, <1>9, <1>10
<1> QED
  BY <1>3, <1>6, <1>11 DEF CompletionInv, Aware

LEMMA initAware ==
    ASSUME CompletionInv, SessionInv, framework, init
    PROVE  CompletionInv'
<1>1. Closed
  BY DEF init, SessionInv, Sane, Loaded
<1>2. PICK idle : idle = [tab EXCEPT !.state = "IDLE"]
  OBVIOUS
<1>3. PICK d \in {source, [s \in Sessions |-> Absent]} :
        /\ dom' = d
        /\ \E found \in RuntimeWrappers(d) :
              LET t == resumeSession(idle, TRUE, found[1], found[2], d)
                  scout == IF t.session = None \/ found[2] = None THEN {[fresh |-> TRUE]} ELSE {}
              IN tab' = [t EXCEPT !.scout = scout,
                                  !.state = IF @ = "IDLE" THEN "PICKING" ELSE @]
  <2>1. \A d \in {source} \cup (IF framework THEN {[s \in Sessions |-> Absent]} ELSE {}) :
          d \in {source, [s \in Sessions |-> Absent]}
    OBVIOUS
  <2> QED
    BY <1>2, <2>1, Zenon DEF init
<1>4. PICK found \in RuntimeWrappers(d) :
        LET t == resumeSession(idle, TRUE, found[1], found[2], d)
            scout == IF t.session = None \/ found[2] = None THEN {[fresh |-> TRUE]} ELSE {}
        IN tab' = [t EXCEPT !.scout = scout, !.state = IF @ = "IDLE" THEN "PICKING" ELSE @]
  BY <1>3
<1>5. PICK t : t = resumeSession(idle, TRUE, found[1], found[2], d)
  OBVIOUS
<1>6. PICK u : u = [t EXCEPT !.scout = IF t.session = None \/ found[2] = None
                                       THEN {[fresh |-> TRUE]} ELSE {},
                             !.state = IF @ = "IDLE" THEN "PICKING" ELSE @]
  OBVIOUS
<1>7. tab' = u
  BY <1>4, <1>5, <1>6
<1>8. /\ tab \in Pages /\ tab.session = None /\ Begun(tab, server) /\ tab.timers = {}
      /\ tab.watched = {} /\ tab.observed = None
  <2>1. PICK v : v = tab
    OBVIOUS
  <2>2. v.observed = None
    BY <1>1, <2>1 DEF Closed, NewPage
  <2> QED
    BY <1>1, <2>1, <2>2, ClosedIs DEF Closed
<1>9. /\ idle \in Pages /\ idle.session = None /\ idle.observed = None /\ idle.saved = tab.saved
      /\ idle.anchor = tab.anchor /\ idle.posts = tab.posts /\ idle.timers = {}
      /\ idle.arrived = tab.arrived /\ idle.file = tab.file /\ idle.state = "IDLE"
      /\ idle.handled = tab.handled
  BY <1>2, <1>8 DEF Pages, States
<1>10. Sane(idle, server, FALSE)
  BY <1>8, <1>9, SessionsAre DEF Sane, Pages, Begun, Superseded
<1>11. \A s \in Sessions : d[s] = source[s] \/ d[s] = Absent
  BY <1>3
<1>12. PageShows(d, source, server) /\ BegunIfWritten(d, server)
  <2>1. \A s \in Sessions : d[s] \in 1 .. Count \/ Wrapped(d[s]) => d[s] = source[s]
    BY <1>11, LiveAssumption DEF Wrapped, Absent
  <2>2. \A s \in Sessions : d[s] \in 1 .. Count => d[s] # Absent /\ d[s] # 0
    BY LiveAssumption DEF Absent
  <2>3. PageShows(d, source, server)
    BY <2>1, <2>2 DEF CompletionInv, SourceWritten, PageShows, Shown
  <2> QED
    BY <2>1, <2>3 DEF SessionInv, BegunIfWritten
<1>13. GoesBy(idle, d, source, server)
  <2>1. GoesBy(tab, dom, source, server)
    BY DEF CompletionInv
  <2>2. \A s \in Sessions : Shown(s, dom, source, server) => Shown(s, d, source, server)
    BY <1>11, LiveAssumption DEF Shown, Absent
  <2>3. GoesBy(tab, d, source, server)
    BY <2>1, <2>2 DEF GoesBy, HoldsShown
  <2>4. tab.anchor = None
    BY <2>1 DEF GoesBy
  <2> QED
    BY <1>8, <1>9, <2>3, <2>4, GoesBySame DEF AsksNoMore
<1>14. Observes(idle, TRUE) /\ WillSee(idle, d, server, TRUE, Sessions)
  BY <1>9, SessionsAre DEF Observes, WillSee, Overlooked
<1>15. Aware(resumeSession(idle, TRUE, found[1], found[2], d), d, source, server, TRUE, Sessions)
  BY <1>9, <1>10, <1>12, <1>13, <1>14, ResumeAware
<1>16. Sane(t, server, FALSE)
  BY <1>5, <1>9, <1>10, <1>12, WrappersAre, ResumeSane
<1>17. /\ u \in Pages /\ u.session = t.session /\ u.arrived = t.arrived /\ u.saved = t.saved
       /\ u.observed = t.observed /\ u.anchor = t.anchor /\ u.file = t.file
       /\ u.handled = t.handled /\ u.state \in {t.state, "PICKING"} /\ u.posts = t.posts
       /\ u.timers = t.timers
  <2>1. PICK scout : scout = IF t.session = None \/ found[2] = None THEN {[fresh |-> TRUE]} ELSE {}
    OBVIOUS
  <2>2. PICK state : state = IF t.state = "IDLE" THEN "PICKING" ELSE t.state
    OBVIOUS
  <2>3. t \in Pages
    BY <1>16 DEF Sane
  <2>4. scout \subseteq [fresh : BOOLEAN]
    <3>1. {[fresh |-> TRUE]} \subseteq [fresh : BOOLEAN] /\ {} \subseteq [fresh : BOOLEAN]
      OBVIOUS
    <3>2. scout = {[fresh |-> TRUE]} \/ scout = {}
      BY <2>1
    <3> QED
      BY <3>1, <3>2, Zenon
  <2>5. state \in States /\ state \in {t.state, "PICKING"}
    BY <2>2, <2>3 DEF Pages, States
  <2>6. u = [t EXCEPT !.scout = scout, !.state = state]
    BY <1>6, <2>1, <2>2, <2>3 DEF Pages
  <2> QED
    BY <2>3, <2>4, <2>5, <2>6 DEF Pages
<1>18. Aware(u, d, source, server, TRUE, Sessions)
  <2>1. Aware(t, d, source, server, TRUE, Sessions)
    BY <1>5, <1>15
  <2> QED
    BY <1>17, <2>1, AwareSame DEF AsksNoMore
<1>19. /\ framework' = framework /\ dom' = d /\ source' = source /\ server' = server
       /\ stream' = "connecting"
  BY <1>3 DEF init, bounds, helper
<1>20. Expected' = Sessions
  BY <1>19 DEF Expected
<1>21. Aware(tab', dom', source', server', stream' # "closed", Expected')
  BY <1>7, <1>18, <1>19, <1>20
<1> QED
  BY <1>12, <1>19, <1>21 DEF CompletionInv, Aware

LEMMA PageAware ==
    ASSUME CompletionInv, SessionInv, framework, Page
    PROVE  CompletionInv'
<1>1. CASE Reload
  BY <1>1, UnloadAware DEF Reload
<1> QED
  BY <1>1, initAware, HotReloadAware DEF Page

\* The phases move on, and with them the tab.
LEMMA PhasesAware ==
    ASSUME CompletionInv, framework, NEW sw, server' = sw, NEW t, tab' = t,
           Aware(t, dom, source, sw, stream # "closed", Expected),
           SourceWritten(source, sw), PageShows(dom, source, sw),
           UNCHANGED <<bounds, dom, source, stream, inbox>>
    PROVE  CompletionInv'
<1>1. Expected' = Expected
  BY DEF Expected, ToldComplete
<1>2. framework' = framework /\ dom' = dom /\ source' = source /\ stream' = stream
  BY DEF bounds
<1>3. SourceWritten(source', server') /\ PageShows(dom', source', server')
  BY <1>2
<1>4. Aware(tab', dom', source', server', stream' # "closed", Expected')
  BY <1>1, <1>2
<1> QED
  BY <1>3, <1>4 DEF CompletionInv, Aware

LEMMA handleGoAware ==
    ASSUME CompletionInv, SessionInv, framework, NEW s \in Sessions, NEW annotated \in BOOLEAN,
           handleGo(s, annotated)
    PROVE  CompletionInv'
<1>1. PICK sw : sw = [server EXCEPT ![s] = "announced"]
  OBVIOUS
<1>2. PICK t : t = Generating(tab, s)
  OBVIOUS
<1>3. PICK u : u = IF annotated THEN setTimer(t, Timer("capture", s, TRUE, 0))
                   ELSE sendEvent(t, "generate", s)
  OBVIOUS
<1>4. /\ server[s] = "new" /\ server' = sw /\ tab' = u
      /\ UNCHANGED <<bounds, dom, source, stream, inbox>>
  BY <1>1, <1>2, <1>3 DEF handleGo
<1>5. AwareTab(tab) /\ server \in [Sessions -> Phases] /\ PageShows(dom, source, server)
      /\ SourceWritten(source, server)
  BY LoadedAware DEF handleGo, Loaded, CompletionInv, SessionInv, SessionTypes
<1>6. /\ Aware(t, dom, source, sw, stream # "closed", Expected)
      /\ t.posts = tab.posts /\ t.timers = tab.timers
      /\ \A x \in t.timers : x.kind = "capture" => x.id # s
      /\ \A p \in t.posts : p.kind = "generate" => p.id # s
  <2>1. GoesBy(tab, dom, source, server)
    BY <1>5 DEF AwareTab, Aware
  <2>2. PICK o : o = (stream # "closed")
    OBVIOUS
  <2>3. PICK m : m = Expected
    OBVIOUS
  <2>4. sw[s] = "announced" /\ server[s] = "new" /\ \A x \in Sessions : x # s => sw[x] = server[x]
    BY <1>1, <1>4, <1>5
  <2>5. PageShows(dom, source, server)
    BY <1>5
  <2>6. /\ Aware(Generating(tab, s), dom, source, sw, o, m)
        /\ Generating(tab, s).posts = tab.posts /\ Generating(tab, s).timers = tab.timers
        /\ \A x \in tab.timers : x.kind = "capture" => x.id # s
        /\ \A p \in tab.posts : p.kind = "generate" => p.id # s
    BY <2>1, <2>4, <2>5, GeneratingAware
  <2> QED
    BY <1>2, <2>2, <2>3, <2>6
<1>7. sw[s] = "announced" /\ \A x \in Sessions : x # s => sw[x] = server[x]
  BY <1>1, <1>5
<1>8. Aware(u, dom, source, sw, stream # "closed", Expected)
  <2>1. t \in Pages /\ CreatedOnce(t, sw) /\ t.anchor = None
    BY <1>6 DEF Aware, GoesBy
  <2>2. PICK x : x = Timer("capture", s, TRUE, 0)
    OBVIOUS
  <2>3. PICK p : p = [kind |-> "generate", id |-> s, step |-> "sent"]
    OBVIOUS
  <2>4. x \in TimerTypes /\ x.kind = "capture" /\ x.id = s
    BY <2>2, LiveAssumption DEF Timer, TimerTypes
  <2>5. p \in PostTypes /\ p.kind = "generate" /\ p.id = s /\ p.step = "sent"
    BY <2>3 DEF PostTypes
  <2>6. \/ u = [t EXCEPT !.timers = @ \cup {x}]
        \/ u = [t EXCEPT !.posts = @ \cup {p}]
    BY <1>3, <2>2, <2>3 DEF setTimer, sendEvent
  <2>7. /\ u \in Pages /\ u.session = t.session /\ u.arrived = t.arrived /\ u.saved = t.saved
        /\ u.observed = t.observed /\ u.anchor = t.anchor /\ u.file = t.file
        /\ u.handled = t.handled /\ u.state = t.state
        /\ \/ u.timers = t.timers \cup {x} /\ u.posts = t.posts
           \/ u.timers = t.timers /\ u.posts = t.posts \cup {p}
    BY <2>1, <2>4, <2>5, <2>6 DEF Pages
  <2>8. \A y : BeingAccepted(u, y, sw) <=> BeingAccepted(t, y, sw)
    BY <2>5, <2>7 DEF BeingAccepted
  <2>9. HoldsShown(u, dom, source, sw)
    BY <1>6, <2>7, <2>8 DEF Aware, GoesBy, HoldsShown
  <2>10. AsBegun(u, sw)
    BY <1>6, <2>7, <2>8 DEF Aware, GoesBy, AsBegun
  <2>11. CreatedOnce(u, sw)
    <3>1. CASE u.timers = t.timers \cup {x} /\ u.posts = t.posts
      BY <1>6, <1>7, <2>1, <2>4, <3>1 DEF CreatedOnce
    <3>2. CASE u.timers = t.timers /\ u.posts = t.posts \cup {p}
      BY <1>6, <1>7, <2>1, <2>5, <3>2 DEF CreatedOnce
    <3> QED
      BY <2>7, <3>1, <3>2
  <2>12. WillSee(u, dom, sw, stream # "closed", Expected) /\ Observes(u, stream # "closed")
         /\ SavesCurrent(u)
    BY <1>6, <2>7, <2>8 DEF Aware, WillSee, Overlooked, Observes, SavesCurrent
  <2> QED
    BY <2>1, <2>7, <2>9, <2>10, <2>11, <2>12 DEF Aware, GoesBy
<1>9. SourceWritten(source, sw) /\ PageShows(dom, source, sw)
  <2>1. source[s] = Absent /\ dom[s] \notin 1 .. Count
    BY <1>4, <1>5 DEF SourceWritten, PageShows, Shown
  <2>2. SourceWritten(source, sw)
    BY <1>5, <1>7, <2>1 DEF SourceWritten
  <2>3. PageShows(dom, source, sw)
    BY <1>5, <1>7, <2>1 DEF PageShows, Shown
  <2> QED
    BY <2>2, <2>3
<1> QED
  BY <1>4, <1>8, <1>9, PhasesAware

LEMMA UserAware ==
    ASSUME CompletionInv, SessionInv, framework, User
    PROVE  CompletionInv'
<1>1. CASE Pick
  <2>1. AwareTab(tab) /\ Sane(tab, server, TRUE)
    BY <1>1, LoadedAware DEF Pick, Loaded
  <2>2. PICK t : t = beginNewLiveConfiguration(tab)
    OBVIOUS
  <2>3. PICK timers : timers = {[x EXCEPT !.fresh = @ /\ x.kind \notin Revised] : x \in tab.timers}
    OBVIOUS
  <2>4. t \in Pages /\ tab \in Pages
    BY <2>1, <2>2, ConfigureSane DEF Sane
  <2>5. PICK watched : watched = {[x EXCEPT !.fresh = FALSE] : x \in tab.watched}
    OBVIOUS
  <2>6. PICK scout : scout = {[x EXCEPT !.fresh = FALSE] : x \in tab.scout}
    OBVIOUS
  <2>7. t = [tab EXCEPT !.state = "CONFIGURING", !.timers = timers, !.watched = watched,
                        !.scout = scout]
    BY <2>2, <2>3, <2>4, <2>5, <2>6 DEF beginNewLiveConfiguration, Pages
  <2>8. /\ t.session = tab.session /\ t.arrived = tab.arrived /\ t.saved = tab.saved
        /\ t.observed = tab.observed /\ t.anchor = tab.anchor /\ t.file = tab.file
        /\ t.handled = tab.handled /\ t.state = "CONFIGURING" /\ t.posts = tab.posts
        /\ t.timers = timers
    BY <2>4, <2>7 DEF Pages
  <2>9. \A x \in timers : x.kind = "capture" => x \in tab.timers
    <3> SUFFICES ASSUME NEW y \in tab.timers, NEW x, x = [y EXCEPT !.fresh = @ /\ y.kind \notin Revised],
                        x.kind = "capture"
                 PROVE  x = y
      BY <2>3
    <3>1. y \in TimerTypes
      BY <2>4 DEF Pages
    <3>2. y.kind = "capture" /\ "capture" \notin Revised
      BY <3>1 DEF TimerTypes, Revised, Recovery
    <3>3. (y.fresh /\ y.kind \notin Revised) = y.fresh
      BY <3>1, <3>2 DEF TimerTypes
    <3> QED
      BY <3>1, <3>3 DEF TimerTypes
  <2>10. AwareTab(t)
    BY <2>1, <2>4, <2>8, <2>9, AwareSame DEF AwareTab, AsksNoMore
  <2> QED
    BY <1>1, <2>2, <2>10, HandleAware DEF Pick, Handle
<1>2. CASE exitConfigureToPicking
  <2>1. AwareTab(tab) /\ tab \in Pages
    BY <1>2, LoadedAware DEF exitConfigureToPicking, Loaded, Sane
  <2>2. PICK t : t = [tab EXCEPT !.state = "PICKING"]
    OBVIOUS
  <2>3. /\ t \in Pages /\ t.session = tab.session /\ t.arrived = tab.arrived /\ t.saved = tab.saved
        /\ t.observed = tab.observed /\ t.anchor = tab.anchor /\ t.file = tab.file
        /\ t.handled = tab.handled /\ t.state = "PICKING" /\ t.posts = tab.posts
        /\ t.timers = tab.timers
    BY <2>1, <2>2 DEF Pages, States
  <2>4. AwareTab(t)
    BY <2>1, <2>3, AwareSame DEF AwareTab, AsksNoMore
  <2> QED
    BY <1>2, <2>2, <2>4, HandleAware DEF exitConfigureToPicking, Handle
<1>3. CASE handleAccept
  <2>1. AwareTab(tab) /\ Sane(tab, server, TRUE) /\ tab.session # None /\ tab.arrived > 0
    BY <1>3, LoadedAware DEF handleAccept, Loaded
  <2>2. PICK s : s = tab.session
    OBVIOUS
  <2>3. s \in Sessions /\ tab \in Pages
    BY <2>1, <2>2 DEF Sane, Pages, Held
  <2>4. PICK t : t = [tab EXCEPT !.state = "SAVING", !.pending = s]
    OBVIOUS
  <2>5. /\ t \in Pages /\ t.session = s /\ t.arrived = tab.arrived /\ t.saved = tab.saved
        /\ t.observed = tab.observed /\ t.anchor = tab.anchor /\ t.file = tab.file
        /\ t.handled = tab.handled /\ t.state = "SAVING" /\ t.posts = tab.posts
        /\ t.timers = tab.timers
    <3>1. s \in Held /\ "SAVING" \in States
      BY <2>3 DEF Held, States
    <3> QED
      BY <2>2, <2>3, <2>4, <3>1 DEF Pages
  <2>6. AwareTab(t)
    BY <2>1, <2>2, <2>5, AwareSame DEF AwareTab, AsksNoMore
  <2>7. PICK v : v = saveSession(t)
    OBVIOUS
  <2>8. /\ AwareTab(v) /\ v \in Pages /\ v.session = s /\ v.arrived = tab.arrived
        /\ v.posts = tab.posts /\ v.state = "SAVING"
    <3>1. /\ GoesBy(t, dom, source, server) /\ t.session # None
          /\ WillSee(t, dom, server, stream # "closed", Expected)
          /\ Observes(t, stream # "closed")
      BY <2>3, <2>5, <2>6, SessionsAre DEF AwareTab, Aware
    <3>2. /\ GoesBy(v, dom, source, server) /\ SavesCurrent(v)
          /\ v.session = t.session /\ v.arrived = t.arrived
          /\ v.posts = t.posts /\ v.state = t.state
      BY <2>7, <3>1, SaveAware
    <3>3. /\ WillSee(v, dom, server, stream # "closed", Expected)
          /\ Observes(v, stream # "closed")
      BY <2>7, <3>1, SaveAware
    <3> QED
      BY <2>5, <3>2, <3>3 DEF AwareTab, Aware, GoesBy
  <2>9. v.saved.id = s /\ v.saved.arrived = tab.arrived
    BY <2>3, <2>5, <2>7, SessionsAre DEF saveSession, Pages
  <2>10. PICK p : p = [kind |-> "accept", id |-> s, step |-> IF Creating(v) THEN "gated" ELSE "sent"]
    OBVIOUS
  <2>11. p \in PostTypes /\ p.kind = "accept" /\ p.id = s
    BY <2>3, <2>10 DEF PostTypes
  <2>12. PICK u : u = [v EXCEPT !.posts = @ \cup {p}]
    OBVIOUS
  <2>13. tab' = u /\ UNCHANGED <<bounds, dom, helper, stream, inbox>>
    BY <1>3, <2>2, <2>4, <2>7, <2>10, <2>12 DEF handleAccept, Handle, sendEvent
  <2>14. /\ u \in Pages /\ u.session = v.session /\ u.arrived = v.arrived /\ u.saved = v.saved
         /\ u.observed = v.observed /\ u.anchor = v.anchor /\ u.file = v.file
         /\ u.handled = v.handled /\ u.state = "SAVING" /\ u.posts = v.posts \cup {p}
         /\ u.timers = v.timers
    BY <2>8, <2>11, <2>12 DEF Pages
  <2>15. Shown(s, dom, source, server)
    BY <2>1, <2>2, <2>3 DEF AwareTab, Aware, GoesBy, HoldsShown
  <2>16. \A x : BeingAccepted(u, x, server) => BeingAccepted(v, x, server) \/ x = s
    BY <2>11, <2>14 DEF BeingAccepted
  <2>17. HoldsShown(u, dom, source, server)
    BY <2>8, <2>14, <2>15, <2>16 DEF AwareTab, Aware, GoesBy, HoldsShown
  <2>18. AsBegun(u, server)
    BY <2>1, <2>8, <2>9, <2>14, <2>16 DEF AwareTab, Aware, GoesBy, AsBegun
  <2>19. CreatedOnce(u, server)
    BY <2>8, <2>11, <2>14 DEF AwareTab, Aware, GoesBy, CreatedOnce
  <2>20. /\ WillSee(u, dom, server, stream # "closed", Expected) /\ Observes(u, stream # "closed")
         /\ SavesCurrent(u) /\ u.anchor = None
    BY <2>8, <2>14 DEF AwareTab, Aware, GoesBy, WillSee, Overlooked, Observes, SavesCurrent
  <2>21. AwareTab(u)
    BY <2>14, <2>17, <2>18, <2>19, <2>20 DEF AwareTab, Aware, GoesBy
  <2> QED
    BY <2>13, <2>21, HandleAware
<1>4. CASE handleDiscard
  <2>1. AwareTab(tab) /\ Sane(tab, server, TRUE) /\ tab.session \in Sessions
    BY <1>4, LoadedAware DEF handleDiscard, Loaded, Sane, Pages, Held
  <2>2. PICK u : u = sendEvent(tab, "discard", tab.session)
    OBVIOUS
  <2>3. u \in Pages
    BY <2>1, <2>2, SendSane DEF Sane
  <2>4. AwareTab(u)
    BY <2>1, <2>2, <2>3, SendAware DEF AwareTab
  <2> QED
    BY <1>4, <2>2, <2>4, HandleAware DEF handleDiscard, Handle
<1> QED
  BY <1>1, <1>2, <1>3, <1>4, handleGoAware DEF User


\* The helper takes a post: a creation comes first, an accept only of what was shown.
LEMMA ServeAware ==
    ASSUME CompletionInv, SessionInv, framework, NEW p \in tab.posts, Serve(p)
    PROVE  CompletionInv'
<1>1. AwareTab(tab) /\ p \in PostTypes /\ tab \in Pages
  <2>1. Loaded
    BY ClosedIs DEF SessionInv, Sane, Loaded
  <2> QED
    BY <2>1, LoadedAware DEF Sane, Pages
<1>2. PICK result \in {"ok", "failed"} :
        /\ tab' = [tab EXCEPT !.posts = (@ \ {p}) \cup {[p EXCEPT !.step = result]}]
        /\ result = "ok" /\ p.kind = "accept" =>
             server[p.id] \in {"requested", "generated", "accepting"}
        /\ \/ result = "failed" /\ UNCHANGED server
           \/ /\ result = "ok"
              /\ server' = [server EXCEPT ![p.id] =
                    CASE p.kind = "generate" -> "requested"
                      [] p.kind = "accept" /\ @ \in {"requested", "generated"} -> "accepting"
                      [] p.kind \in {"discard", "orphan"} /\ @ \in {"requested", "generated"} ->
                            "discarding"
                      [] OTHER -> @]
  BY DEF Serve
<1>3. PICK t : t = Taken(tab, p, result)
  OBVIOUS
<1>4. PICK sw : sw = server'
  OBVIOUS
<1>5. PICK i : i = p.id
  OBVIOUS
<1>6. i \in Sessions /\ server \in [Sessions -> Phases]
  BY <1>1, <1>5 DEF PostTypes, SessionInv, SessionTypes
<1>7. /\ AwareTab(t)
      /\ \A s : BeingAccepted(t, s, server) <=> BeingAccepted(tab, s, server)
      /\ p.kind = "generate" => \A q \in t.posts : q.kind = "generate" /\ q.id = i => q.step # "sent"
      /\ t.timers = tab.timers
  <2>1. p.step = "sent"
    BY DEF Serve
  <2>2. PICK o : o = (stream # "closed")
    OBVIOUS
  <2>3. PICK m : m = Expected
    OBVIOUS
  <2>4. Aware(tab, dom, source, server, o, m)
    BY <1>1, <2>2, <2>3 DEF AwareTab
  <2>5. /\ Aware(t, dom, source, server, o, m)
        /\ \A s : BeingAccepted(t, s, server) <=> BeingAccepted(tab, s, server)
        /\ \A q \in t.posts : q.kind = "generate" /\ q.id = p.id /\ p.kind = "generate" =>
               q.step # "sent"
        /\ t.timers = tab.timers
    BY <1>3, <2>1, <2>4, TakenAware
  <2> QED
    BY <1>5, <2>2, <2>3, <2>5 DEF AwareTab
<1>8. PICK phase :
        /\ \A s \in Sessions : sw[s] = IF s = i THEN phase ELSE server[s]
        /\ \/ phase = server[i]
           \/ p.kind = "generate" /\ phase = "requested"
           \/ p.kind = "accept" /\ server[i] \in {"requested", "generated"} /\ phase = "accepting"
           \/ server[i] \in {"requested", "generated"} /\ phase = "discarding"
  <2>1. CASE UNCHANGED server
    BY <1>4, <2>1
  <2>2. CASE ~UNCHANGED server
    <3>1. PICK phase :
            /\ sw = [server EXCEPT ![i] = phase]
            /\ phase = CASE p.kind = "generate" -> "requested"
                         [] /\ p.kind = "accept"
                            /\ server[i] \in {"requested", "generated"} -> "accepting"
                         [] /\ p.kind \in {"discard", "orphan"}
                            /\ server[i] \in {"requested", "generated"} -> "discarding"
                         [] OTHER -> server[i]
      BY <1>2, <1>4, <1>5, <2>2
    <3>2. \/ phase = server[i]
          \/ p.kind = "generate" /\ phase = "requested"
          \/ p.kind = "accept" /\ server[i] \in {"requested", "generated"} /\ phase = "accepting"
          \/ server[i] \in {"requested", "generated"} /\ phase = "discarding"
      BY <3>1
    <3>3. \A s \in Sessions : sw[s] = IF s = i THEN phase ELSE server[s]
      BY <1>6, <3>1
    <3> QED
      BY <3>2, <3>3
  <2> QED
    BY <2>1, <2>2
<1>9. GoesBy(tab, dom, source, server) /\ SourceWritten(source, server) /\ PageShows(dom, source, server)
  BY <1>1 DEF AwareTab, Aware, CompletionInv
<1>10. p.kind = "generate" /\ phase # server[i] =>
         /\ server[i] = "announced" /\ source[i] = Absent
         /\ \A x \in tab.timers : x.kind = "capture" => x.id # i
  <2>1. p.step = "sent"
    BY DEF Serve
  <2>2. p.kind = "generate" => server[i] = "announced"
    BY <1>5, <1>9, <2>1 DEF GoesBy, CreatedOnce
  <2>3. p.kind = "generate" => \A x \in tab.timers : x.kind = "capture" => x.id # i
    BY <1>5, <1>9 DEF GoesBy, CreatedOnce
  <2> QED
    BY <1>6, <1>9, <2>2, <2>3 DEF SourceWritten
<1>11. p.kind = "accept" => BeingAccepted(tab, i, server) /\ Shown(i, dom, source, server)
  BY <1>5, <1>6, <1>9 DEF BeingAccepted, GoesBy, HoldsShown
<1>12. p.kind = "accept" /\ server[i] \in {"requested", "generated"} => source[i] \in 1 .. Count
  BY <1>6, <1>9, <1>11 DEF Shown, SourceWritten
<1>13. \A s \in Sessions : Shown(s, dom, source, server) => Shown(s, dom, source, sw)
  <2> SUFFICES ASSUME NEW s \in Sessions, Shown(s, dom, source, server)
               PROVE  Shown(s, dom, source, sw)
    OBVIOUS
  <2>1. CASE s # i \/ phase = server[i]
    BY <1>8, <2>1 DEF Shown
  <2>2. CASE s = i /\ phase # server[i]
    <3>1. p.kind # "generate"
      BY <1>10, <2>2 DEF Shown
    <3>2. sw[s] \in {"accepting", "discarding"}
      BY <1>8, <2>2, <3>1
    <3> QED
      BY <2>2, <3>2 DEF Shown
  <2> QED
    BY <2>1, <2>2
<1>14. SourceWritten(source, sw)
  <2> SUFFICES ASSUME NEW s \in Sessions
               PROVE  /\ source[s] # Absent => sw[s] \notin {"new", "announced"}
                      /\ sw[s] \in {"generated", "accepting"} => source[s] \in 1 .. Count
    BY DEF SourceWritten
  <2>1. CASE s # i \/ phase = server[i]
    BY <1>8, <1>9, <2>1 DEF SourceWritten
  <2>2. CASE s = i /\ phase # server[i]
    BY <1>8, <1>12, <2>2
  <2> QED
    BY <2>1, <2>2
<1>15. PageShows(dom, source, sw)
  BY <1>9, <1>13 DEF PageShows
<1>16. Aware(t, dom, source, sw, stream # "closed", Expected)
  <2>1. \A s \in Sessions : sw[s] = "accepting" => BeingAccepted(t, s, server)
    <3> SUFFICES ASSUME NEW s \in Sessions, sw[s] = "accepting"
                 PROVE  BeingAccepted(tab, s, server)
      BY <1>7
    <3>1. CASE server[s] = "accepting"
      BY <3>1 DEF BeingAccepted
    <3>2. CASE server[s] # "accepting"
      BY <1>8, <1>11, <3>2
    <3> QED
      BY <3>1, <3>2
  <2>2. \A s \in Sessions : server[s] # "new" => sw[s] # "new"
    BY <1>8
  <2>3. ASSUME NEW s \in Sessions, server[s] = "announced", sw[s] # "announced"
        PROVE  /\ \A x \in t.timers : x.kind = "capture" => x.id # s
               /\ \A q \in t.posts : q.kind = "generate" /\ q.id = s => q.step # "sent"
    <3>1. s = i /\ p.kind = "generate" /\ phase # server[i]
      BY <1>8, <2>3
    <3> QED
      BY <1>7, <1>10, <3>1
  <2>4. \A s \in Sessions : sw[s] = "generated" => server[s] = "generated"
    BY <1>8
  <2>5. \A s \in Sessions : Overlooked(t, s, dom) /\ sw[s] = "generated" =>
            s \in Expected \/ (server[s] = "generated" /\ (s \in Expected => s \in Expected))
    BY <2>4
  <2> QED
    BY <1>7, <1>13, <2>1, <2>2, <2>3, <2>5, WorldAware DEF AwareTab, Aware
<1> QED
  BY <1>2, <1>3, <1>4, <1>14, <1>15, <1>16, PhasesAware DEF Serve, Taken

\* The posts that go on when one is answered create and accept nothing new.
LEMMA PostsAware ==
    ASSUME CompletionInv, SessionInv, framework, Posts
    PROVE  CompletionInv'
<1>1. ASSUME NEW p \in tab.posts, Answer(p)
      PROVE  CompletionInv'
  <2>1. AwareTab(tab) /\ Sane(tab, server, TRUE) /\ tab \in Pages /\ p \in PostTypes
    BY <1>1, LoadedAware DEF Answer, Sane, Pages
  <2>2. PICK rest : rest = tab.posts \ {p}
    OBVIOUS
  <2>3. rest \subseteq PostTypes /\ rest \subseteq tab.posts
    BY <2>1, <2>2 DEF Pages
  <2>4. PICK posts : posts = IF p.kind = "generate" THEN Ungated(rest) ELSE rest
    OBVIOUS
  <2>5. ASSUME NEW q \in posts
        PROVE  /\ q \in PostTypes
               /\ q.kind = "generate" => q \in tab.posts
               /\ q.kind = "accept" => \E r \in tab.posts : r.kind = "accept" /\ r.id = q.id
    <3>1. CASE q \in rest
      BY <2>3, <3>1
    <3>2. CASE q \notin rest
      <4>1. PICK r \in rest : q = [r EXCEPT !.step = IF @ = "gated" THEN "sent" ELSE @]
        BY <2>4, <2>5, <3>2 DEF Ungated
      <4>2. r \in PostTypes /\ r \in tab.posts
        BY <2>3
      <4>3. PICK step : step = IF r.step = "gated" THEN "sent" ELSE r.step
        OBVIOUS
      <4>4. q = [r EXCEPT !.step = step] /\ step \in {"gated", "sent", "ok", "failed"}
        BY <4>1, <4>2, <4>3 DEF PostTypes
      <4>5. q \in PostTypes /\ q.kind = r.kind /\ q.id = r.id /\ q.step = step
        BY <4>2, <4>4 DEF PostTypes
      <4>6. q.kind = "generate" => r.step # "gated"
        BY <2>1, <4>2, <4>5 DEF AwareTab, Aware, GoesBy, CreatedOnce
      <4>7. q.kind = "generate" => q = r
        BY <4>2, <4>3, <4>4, <4>6 DEF PostTypes
      <4> QED
        BY <4>2, <4>5, <4>7
    <3> QED
      BY <3>1, <3>2
  <2>6. PICK t : t = [tab EXCEPT !.posts = posts]
    OBVIOUS
  <2>7. posts \subseteq PostTypes
    BY <2>5
  <2>8. /\ t \in Pages /\ t.session = tab.session /\ t.arrived = tab.arrived /\ t.saved = tab.saved
        /\ t.observed = tab.observed /\ t.anchor = tab.anchor /\ t.file = tab.file
        /\ t.handled = tab.handled /\ t.state = tab.state /\ t.posts = posts
        /\ t.timers = tab.timers /\ t.watched = tab.watched /\ t.scout = tab.scout
    BY <2>1, <2>6, <2>7 DEF Pages
  <2>9. AsksNoMore(t, tab)
    BY <2>5, <2>8 DEF AsksNoMore
  <2>10. AwareTab(t)
    BY <2>1, <2>8, <2>9, AwareSame DEF AwareTab, Aware, GoesBy
  <2>11. Sane(t, server, TRUE)
    BY <2>1, <2>8 DEF Sane, Begun, Superseded
  <2>12. PICK u : u = Continued(t, p)
    OBVIOUS
  <2>13. AwareTab(u)
    BY <2>1, <2>10, <2>11, <2>12, ContinuedAware DEF AwareTab
  <2>14. tab' = u /\ UNCHANGED <<bounds, dom, helper, stream, inbox>>
    BY <1>1, <2>2, <2>4, <2>6, <2>12 DEF Answer, Handle
  <2> QED
    BY <2>13, <2>14, HandleAware
<1>2. ASSUME NEW p \in tab.posts, CheckpointAnswer(p)
      PROVE  CompletionInv'
  <2>1. AwareTab(tab) /\ Sane(tab, server, TRUE) /\ tab \in Pages
    BY <1>2, LoadedAware DEF CheckpointAnswer, Sane
  <2>2. PICK t : t = [tab EXCEPT !.posts = @ \ {p}]
    OBVIOUS
  <2>3. /\ t \in Pages /\ t.session = tab.session /\ t.arrived = tab.arrived /\ t.saved = tab.saved
        /\ t.observed = tab.observed /\ t.anchor = tab.anchor /\ t.file = tab.file
        /\ t.handled = tab.handled /\ t.state = tab.state /\ t.posts = tab.posts \ {p}
        /\ t.timers = tab.timers /\ t.watched = tab.watched /\ t.scout = tab.scout
    BY <2>1, <2>2 DEF Pages
  <2>4. AwareTab(t)
    BY <2>1, <2>3, AwareSame DEF AwareTab, Aware, GoesBy, AsksNoMore
  <2>5. Sane(t, server, TRUE)
    BY <2>1, <2>3 DEF Sane, Begun, Superseded
  <2>6. PICK u : u = cleanup(markSessionHandled(t))
    OBVIOUS
  <2>7. AwareTab(u)
    <3>1. u \in Pages
      BY <2>5, <2>6, MarkedCleanSane DEF Sane
    <3> QED
      BY <2>4, <2>6, <3>1, CleanupAware DEF AwareTab, Aware
  <2>8. (tab' = t \/ tab' = u) /\ UNCHANGED <<bounds, dom, helper, stream, inbox>>
    BY <1>2, <2>2, <2>6 DEF CheckpointAnswer, Handle
  <2> QED
    BY <2>4, <2>7, <2>8, HandleAware
<1> QED
  BY <1>1, <1>2, ServeAware DEF Posts

-----------------------------------------------------------------------------
\* What was put off: the tab without the timer that fires.
LEMMA DoneAware ==
    ASSUME CompletionInv, SessionInv, framework, NEW timer, Fire(timer)
    PROVE  /\ timer \in TimerTypes /\ timer \in tab.timers
           /\ AwareTab(tab) /\ Sane(tab, server, TRUE) /\ Sane(Done(timer), server, TRUE)
           /\ GoesBy(Done(timer), dom, source, server) /\ Observes(Done(timer), stream # "closed")
           /\ SavesCurrent(Done(timer))
           /\ Done(timer).session = tab.session /\ Done(timer).state = tab.state
           /\ Done(timer).arrived = tab.arrived /\ Done(timer).posts = tab.posts
           /\ Done(timer).timers = tab.timers \ {timer}
           /\ timer.kind \notin Late => AwareTab(Done(timer))
<1>1. AwareTab(tab) /\ Sane(tab, server, TRUE) /\ tab \in Pages
  BY LoadedAware DEF Fire, Sane
<1>2. PICK t : t = Done(timer)
  OBVIOUS
<1>3. Sane(t, server, TRUE) /\ timer \in TimerTypes /\ timer \in tab.timers
  BY <1>2, DoneSane DEF Fire
<1>4. /\ t \in Pages /\ t.session = tab.session /\ t.arrived = tab.arrived /\ t.saved = tab.saved
      /\ t.observed = tab.observed /\ t.anchor = tab.anchor /\ t.file = tab.file
      /\ t.handled = tab.handled /\ t.state = tab.state /\ t.posts = tab.posts
      /\ t.timers = tab.timers \ {timer}
  BY <1>1, <1>2, <1>3 DEF Done, Pages
<1>5. GoesBy(tab, dom, source, server) /\ tab.anchor = None
  BY <1>1 DEF AwareTab, Aware, GoesBy
<1>6. GoesBy(t, dom, source, server)
  BY <1>4, <1>5, GoesBySame DEF AsksNoMore
<1>7. Observes(t, stream # "closed") /\ SavesCurrent(t)
  BY <1>1, <1>4 DEF AwareTab, Aware, Observes, SavesCurrent
<1>8. ASSUME timer.kind \notin Late
      PROVE  AwareTab(t)
  BY <1>1, <1>4, <1>5, <1>8, AwareSame DEF AwareTab, AsksNoMore
<1> QED
  BY <1>1, <1>2, <1>3, <1>4, <1>6, <1>7, <1>8

LEMMA SetAware ==
    ASSUME NEW t, AwareTab(t), NEW x \in TimerTypes, x.kind # "capture"
    PROVE  AwareTab(setTimer(t, x))
<1>1. t \in Pages /\ t.anchor = None
  BY DEF AwareTab, Aware, GoesBy
<1>2. PICK u : u = setTimer(t, x)
  OBVIOUS
<1>3. /\ u \in Pages /\ u.session = t.session /\ u.arrived = t.arrived /\ u.saved = t.saved
      /\ u.observed = t.observed /\ u.anchor = None /\ u.file = t.file
      /\ u.handled = t.handled /\ u.state = t.state /\ u.posts = t.posts
      /\ u.timers = t.timers \cup {x}
  BY <1>1, <1>2 DEF setTimer, Pages
<1> QED
  BY <1>1, <1>2, <1>3, AwareSame DEF AwareTab, AsksNoMore

LEMMA QueuedAware ==
    ASSUME CompletionInv, SessionInv, framework, QueuedCheckpoint
    PROVE  CompletionInv'
<1>1. Loaded
  BY ClosedIs DEF QueuedCheckpoint, SessionInv, Sane, Loaded
<1>2. AwareTab(tab) /\ Sane(tab, server, TRUE) /\ tab \in Pages /\ tab.anchor = None
  BY <1>1, LoadedAware DEF Sane, AwareTab, Aware, GoesBy
<1>3. PICK t : t = [tab EXCEPT !.queued = FALSE]
  OBVIOUS
<1>4. /\ t \in Pages /\ t.session = tab.session /\ t.arrived = tab.arrived /\ t.saved = tab.saved
      /\ t.observed = tab.observed /\ t.anchor = None /\ t.file = tab.file
      /\ t.handled = tab.handled /\ t.state = tab.state /\ t.posts = tab.posts
      /\ t.timers = tab.timers /\ t.watched = tab.watched /\ t.scout = tab.scout
  BY <1>2, <1>3 DEF Pages
<1>5. Sane(t, server, TRUE)
  BY <1>2, <1>4 DEF Sane, Begun, Superseded
<1>6. AwareTab(t)
  BY <1>2, <1>4, AwareSame DEF AwareTab, AsksNoMore
<1>7. PICK u : u = sendCheckpoint(t)
  OBVIOUS
<1>8. AwareTab(u)
  <2>1. u \in Pages
    BY <1>5, <1>7, CheckpointSane DEF Sane
  <2> QED
    BY <1>6, <1>7, <2>1, CheckpointAware DEF AwareTab
<1>9. tab' = u /\ UNCHANGED <<bounds, dom, helper, stream, inbox>>
  BY <1>3, <1>7 DEF QueuedCheckpoint, Handle
<1> QED
  BY <1>8, <1>9, HandleAware

\* The post takes the place of the capture.
LEMMA CapturedAware ==
    ASSUME CompletionInv, SessionInv, framework, NEW timer, Captured(timer)
    PROVE  CompletionInv'
<1>1. PICK t : t = Done(timer)
  OBVIOUS
<1>2. Fire(timer) /\ timer.kind = "capture" /\ timer.kind \notin Late
  BY DEF Captured, Late
<1>3. /\ timer \in TimerTypes /\ timer \in tab.timers /\ AwareTab(tab) /\ AwareTab(t)
      /\ t.posts = tab.posts /\ t.timers = tab.timers \ {timer}
  BY <1>1, <1>2, DoneAware
<1>4. PICK p : p = [kind |-> "generate", id |-> timer.id, step |-> "sent"]
  OBVIOUS
<1>5. p \in PostTypes /\ p.kind = "generate" /\ p.id = timer.id /\ p.step = "sent"
  BY <1>3, <1>4 DEF PostTypes, TimerTypes
<1>6. PICK u : u = [t EXCEPT !.posts = @ \cup {p}]
  OBVIOUS
<1>7. tab' = u /\ UNCHANGED <<bounds, dom, helper, stream, inbox>>
  BY <1>1, <1>4, <1>6 DEF Captured, Handle, sendEvent
<1>8. /\ u \in Pages /\ u.session = t.session /\ u.arrived = t.arrived /\ u.saved = t.saved
      /\ u.observed = t.observed /\ u.anchor = t.anchor /\ u.file = t.file
      /\ u.handled = t.handled /\ u.state = t.state /\ u.posts = t.posts \cup {p}
      /\ u.timers = t.timers
  BY <1>3, <1>5, <1>6 DEF AwareTab, Aware, GoesBy, Pages
<1>9. \A s : BeingAccepted(u, s, server) <=> BeingAccepted(t, s, server)
  BY <1>5, <1>8 DEF BeingAccepted
<1>10. HoldsShown(u, dom, source, server)
  BY <1>3, <1>8, <1>9 DEF AwareTab, Aware, GoesBy, HoldsShown
<1>11. AsBegun(u, server)
  BY <1>3, <1>8, <1>9 DEF AwareTab, Aware, GoesBy, AsBegun
<1>12. CreatedOnce(u, server)
  <2>1. CreatedOnce(tab, server) /\ CreatedOnce(t, server)
    BY <1>3 DEF AwareTab, Aware, GoesBy
  <2>2. /\ server[timer.id] = "announced"
        /\ \A y \in t.timers : y.kind = "capture" => y.id # timer.id
        /\ \A q \in t.posts : q.kind = "generate" => q.id # timer.id
    BY <1>2, <1>3, <2>1 DEF CreatedOnce
  <2> QED
    BY <1>5, <1>8, <2>1, <2>2 DEF CreatedOnce
<1>13. /\ WillSee(u, dom, server, stream # "closed", Expected) /\ Observes(u, stream # "closed")
       /\ SavesCurrent(u) /\ u.anchor = None
  BY <1>3, <1>8, <1>9 DEF AwareTab, Aware, GoesBy, WillSee, Overlooked, Observes, SavesCurrent
<1>14. AwareTab(u)
  BY <1>8, <1>10, <1>11, <1>12, <1>13 DEF AwareTab, Aware, GoesBy
<1> QED
  BY <1>7, <1>14, HandleAware

\* A read that was put off is made, unless its session has been seen or is another's.
LEMMA RereadAware ==
    ASSUME CompletionInv, SessionInv, framework, NEW timer, Reread(timer)
    PROVE  CompletionInv'
<1>1. PICK t : t = Done(timer)
  OBVIOUS
<1>2. Fire(timer) /\ timer.kind \in Late
  BY DEF Reread, Late
<1>3. /\ timer \in TimerTypes /\ timer \in tab.timers /\ AwareTab(tab) /\ Sane(t, server, TRUE)
      /\ GoesBy(t, dom, source, server) /\ Observes(t, stream # "closed") /\ SavesCurrent(t)
      /\ t.session = tab.session /\ t.state = tab.state /\ t.arrived = tab.arrived
      /\ t.posts = tab.posts /\ t.timers = tab.timers \ {timer}
  BY <1>1, <1>2, DoneAware
<1>4. PICK wanted \in BOOLEAN :
        wanted <=> /\ t.session = timer.id
                   /\ \/ t.state = "GENERATING"
                      \/ timer.kind = "retryOrphan" /\ t.state = "CYCLING"
                   /\ timer.kind = "read" => t.arrived < Count
                   /\ timer.kind = "retryEmpty" => t.arrived = 0
  OBVIOUS
<1>5. PICK r : r = Read(timer.id, timer.kind # "retryOrphan", timer.kind = "retryOrphan", timer.n)
  OBVIOUS
<1>6. PICK u : u = injectVariantsFromSource(t, r, dom)
  OBVIOUS
<1>7. /\ tab' = IF wanted THEN u ELSE t
      /\ UNCHANGED <<bounds, dom, helper, stream, inbox>>
  BY <1>1, <1>4, <1>5, <1>6 DEF Reread, Handle
<1>8. CASE wanted
  <2>1. r \in ReadTypes /\ r.id = t.session
    BY <1>3, <1>4, <1>5, <1>8 DEF Read, ReadTypes, TimerTypes
  <2>2. u \in Pages
    BY <1>3, <1>6, <2>1, InjectSane DEF Sane
  <2>3. PageShows(dom, source, server)
    BY DEF CompletionInv
  <2>4. AwareTab(u)
    BY <1>3, <1>6, <2>1, <2>2, <2>3, InjectAware DEF AwareTab
  <2> QED
    BY <1>7, <1>8, <2>4, HandleAware
<1>9. CASE ~wanted
  <2>1. WillSee(t, dom, server, stream # "closed", Expected)
    <3>1. ASSUME NEW s \in Sessions, Overlooked(t, s, dom)
          PROVE  Overlooked(tab, s, dom) /\ timer.id # s
      <4>1. t.arrived = 0 /\ t.arrived < Count
        BY <3>1, LiveAssumption DEF Overlooked
      <4> QED
        BY <1>3, <1>4, <1>9, <3>1, <4>1 DEF Overlooked
    <3>2. \A s : BeingAccepted(t, s, server) <=> BeingAccepted(tab, s, server)
      BY <1>3 DEF BeingAccepted
    <3> QED
      BY <1>3, <3>1, <3>2 DEF AwareTab, Aware, WillSee
  <2>2. AwareTab(t)
    BY <1>3, <2>1 DEF AwareTab, Aware
  <2> QED
    BY <1>7, <1>9, <2>2, HandleAware
<1> QED
  BY <1>8, <1>9

\* The recoveries look for nothing: they reload the page, or put off another.
LEMMA RecoveriesAware ==
    ASSUME CompletionInv, SessionInv, framework, NEW timer \in tab.timers,
           \/ AcceptedLate(timer)
           \/ AcceptedReload(timer)
           \/ CleanupLate(timer)
           \/ CleanupReload(timer)
           \/ DiscardedReload(timer)
           \/ HandledReload(timer)
    PROVE  CompletionInv'
<1>1. PICK t : t = Done(timer)
  OBVIOUS
<1>2. Fire(timer) /\ timer.kind \in Recovery /\ timer.kind \notin Late
  <2>1. Fire(timer) /\ timer.kind \in {"accept", "acceptReload", "cleanup", "cleanup2", "discard",
                                       "handled"}
    BY DEF AcceptedLate, AcceptedReload, CleanupLate, CleanupReload, DiscardedReload, HandledReload
  <2> QED
    BY <2>1 DEF Recovery, Late
<1>3. timer \in TimerTypes /\ AwareTab(tab) /\ AwareTab(t) /\ Sane(t, server, TRUE)
  BY <1>1, <1>2, DoneAware
<1>4. PICK discard : discard = Timer("discard", timer.id, TRUE, 0)
  OBVIOUS
<1>5. discard \in TimerTypes /\ discard.kind # "capture"
  BY <1>3, <1>4, LiveAssumption DEF Timer, TimerTypes, Recovery
<1>6. AwareTab(setTimer(t, discard))
  BY <1>3, <1>5, SetAware
<1>7. ASSUME NEW kind \in {"acceptReload", "cleanup2"}
      PROVE  AwareTab(setTimer(t, [timer EXCEPT !.kind = kind]))
  <2>1. PICK x : x = [timer EXCEPT !.kind = kind]
    OBVIOUS
  <2>2. kind \in Recovery
    BY DEF Recovery
  <2>3. x \in TimerTypes /\ x.kind # "capture"
    BY <1>3, <2>1, <2>2 DEF TimerTypes
  <2> QED
    BY <1>3, <2>1, <2>3, SetAware
<1>8. ASSUME NEW u, AwareTab(u), Handle(u)
      PROVE  CompletionInv'
  BY <1>8, HandleAware DEF Handle
<1>9. CASE AcceptedLate(timer)
  <2>1. Handle(t) \/ Handle(setTimer(t, [timer EXCEPT !.kind = "acceptReload"]))
    BY <1>1, <1>9 DEF AcceptedLate
  <2> QED
    BY <1>3, <1>7, <1>8, <2>1
<1>10. CASE AcceptedReload(timer)
  <2>1. PICK stale : ReloadIf(stale, t)
    BY <1>1, <1>10 DEF AcceptedReload
  <2> QED
    BY <1>3, <2>1, ReloadIfAware
<1>11. CASE CleanupLate(timer)
  <2>1. PICK x : Handle(t) \/ (Handle(setTimer(t, x)) /\ x \in {discard, [timer EXCEPT !.kind = "cleanup2"]})
    <3>1. PICK superseded : superseded = deferredRecoverySuperseded(t, timer.id, timer.fresh)
      OBVIOUS
    <3>2. IF ~Wrapped(dom[timer.id]) THEN Handle(t)
          ELSE Handle(setTimer(t, IF superseded THEN discard ELSE [timer EXCEPT !.kind = "cleanup2"]))
      BY <1>1, <1>4, <1>11, <3>1 DEF CleanupLate
    <3> QED
      BY <3>2
  <2> QED
    BY <1>3, <1>6, <1>7, <1>8, <2>1
<1>12. CASE CleanupReload(timer)
  <2>1. PICK stale, u : ReloadIf(stale, u) /\ u \in {t, setTimer(t, discard)}
    BY <1>1, <1>4, <1>12 DEF CleanupReload
  <2> QED
    BY <1>3, <1>6, <2>1, ReloadIfAware
<1>13. CASE DiscardedReload(timer)
  <2>1. PICK stale, u : ReloadIf(stale, u) /\ u \in {t, tab}
    BY <1>1, <1>13 DEF DiscardedReload
  <2> QED
    BY <1>3, <2>1, ReloadIfAware
<1>14. CASE HandledReload(timer)
  <2>1. PICK attempts : attempts = [t.attempts EXCEPT ![timer.id] = 0]
    OBVIOUS
  <2>2. PICK u : u = [t EXCEPT !.attempts = attempts]
    OBVIOUS
  <2>3. PICK stale : ReloadIf(stale, u)
    BY <1>1, <1>14, <2>1, <2>2 DEF HandledReload
  <2>4. t \in Pages /\ t.anchor = None
    BY <1>3 DEF AwareTab, Aware, GoesBy
  <2>5. attempts \in [Sessions -> 0 .. 2]
    <3>1. t.attempts \in [Sessions -> 0 .. 2]
      BY <2>4 DEF Pages
    <3>2. 0 \in 0 .. 2
      OBVIOUS
    <3> QED
      BY <2>1, <3>1, <3>2, Zenon
  <2>6. /\ u \in Pages /\ u.session = t.session /\ u.arrived = t.arrived /\ u.saved = t.saved
        /\ u.observed = t.observed /\ u.anchor = t.anchor /\ u.file = t.file
        /\ u.handled = t.handled /\ u.state = t.state /\ u.posts = t.posts
        /\ u.timers = t.timers
    BY <2>2, <2>4, <2>5 DEF Pages
  <2>7. AwareTab(u)
    BY <1>3, <2>4, <2>6, AwareSame DEF AwareTab, AsksNoMore
  <2> QED
    BY <2>3, <2>7, ReloadIfAware
<1> QED
  BY <1>9, <1>10, <1>11, <1>12, <1>13, <1>14

LEMMA TimeoutsAware ==
    ASSUME CompletionInv, SessionInv, framework, Timeouts
    PROVE  CompletionInv'
<1>1. ASSUME NEW w \in tab.watched, WatchEnds(w)
      PROVE  CompletionInv'
  <2>1. Loaded
    BY <1>1, ClosedIs DEF SessionInv, Sane, Loaded
  <2>2. AwareTab(tab) /\ tab \in Pages /\ tab.anchor = None
    BY <2>1, LoadedAware DEF AwareTab, Aware, GoesBy
  <2>3. PICK u : u = [tab EXCEPT !.watched = @ \ {w}]
    OBVIOUS
  <2>4. /\ u \in Pages /\ u.session = tab.session /\ u.arrived = tab.arrived /\ u.saved = tab.saved
        /\ u.observed = tab.observed /\ u.anchor = tab.anchor /\ u.file = tab.file
        /\ u.handled = tab.handled /\ u.state = tab.state /\ u.posts = tab.posts
        /\ u.timers = tab.timers
    BY <2>2, <2>3 DEF Pages
  <2>5. AwareTab(u)
    BY <2>2, <2>4, AwareSame DEF AwareTab, AsksNoMore
  <2>6. tab' = u /\ UNCHANGED <<bounds, dom, helper, stream, inbox>>
    BY <1>1, <2>3 DEF WatchEnds, Handle
  <2> QED
    BY <2>5, <2>6, HandleAware
<1> QED
  BY <1>1, QueuedAware, CapturedAware, RereadAware, RecoveriesAware DEF Timeouts

-----------------------------------------------------------------------------
LEMMA ReadsAware ==
    ASSUME CompletionInv, SessionInv, framework, Reads
    PROVE  CompletionInv'
<1>1. ASSUME NEW r \in tab.reads, ReadAnswer(r) \/ ReadFails(r)
      PROVE  CompletionInv'
  <2>1. AwareTab(tab) /\ Sane(tab, server, TRUE) /\ r \in ReadTypes /\ tab \in Pages /\ tab.anchor = None
    BY <1>1, LoadedAware DEF ReadAnswer, ReadFails, Sane, Pages, AwareTab, Aware, GoesBy
  <2>2. PICK t : t = [tab EXCEPT !.reads = @ \ {r}]
    OBVIOUS
  <2>3. /\ t \in Pages /\ t.session = tab.session /\ t.arrived = tab.arrived /\ t.saved = tab.saved
        /\ t.observed = tab.observed /\ t.anchor = None /\ t.file = tab.file
        /\ t.handled = tab.handled /\ t.state = tab.state /\ t.posts = tab.posts
        /\ t.timers = tab.timers /\ t.watched = tab.watched /\ t.scout = tab.scout
    BY <2>1, <2>2 DEF Pages
  <2>4. Sane(t, server, TRUE)
    BY <2>1, <2>3 DEF Sane, Begun, Superseded
  <2>5. AwareTab(t)
    BY <2>1, <2>3, AwareSame DEF AwareTab, AsksNoMore
  <2>6. PICK orphaned : orphaned = Orphaned(t, r)
    OBVIOUS
  <2>7. t.session = r.id => AwareTab(orphaned)
    <3>1. r.id \in Sessions
      BY <2>1 DEF ReadTypes
    <3> QED
      BY <2>1, <2>4, <2>5, <2>6, <3>1, OrphanedAware DEF AwareTab
  <2>8. PICK x : x = Timer("retryOrphan", r.id, TRUE, r.n + 1)
    OBVIOUS
  <2>9. r.n < Retries => x \in TimerTypes /\ x.kind # "capture"
    BY <2>1, <2>8, LiveAssumption DEF Timer, TimerTypes, ReadTypes
  <2>10. /\ \/ tab' = t
            \/ tab' = orphaned /\ t.session = r.id
            \/ tab' = setTimer(t, x) /\ r.n < Retries
         /\ UNCHANGED <<bounds, dom, helper, stream, inbox>>
    <3>1. CASE ReadAnswer(r)
      BY <2>2, <2>6, <3>1 DEF ReadAnswer, Handle
    <3>2. CASE ReadFails(r)
      BY <2>2, <2>8, <3>2 DEF ReadFails, Handle
    <3> QED
      BY <1>1, <3>1, <3>2
  <2> QED
    BY <2>5, <2>7, <2>9, <2>10, SetAware, HandleAware
<1>2. ~AnchorAppears
  BY DEF AnchorAppears, CompletionInv, GoesBy
<1> QED
  BY <1>1, <1>2 DEF Reads

-----------------------------------------------------------------------------
\* Only the event stream changes, and what the tab does about it.
LEMMA StreamAware ==
    ASSUME CompletionInv, framework, NEW t, tab' = t, UNCHANGED <<framework, dom, helper>>,
           Aware(t, dom, source, server, stream' # "closed", Expected')
    PROVE  CompletionInv'
<1>1. framework' = framework /\ dom' = dom /\ source' = source /\ server' = server
  BY DEF helper
<1>2. SourceWritten(source', server') /\ PageShows(dom', source', server')
  BY <1>1 DEF CompletionInv
<1>3. Aware(tab', dom', source', server', stream' # "closed", Expected')
  BY <1>1
<1> QED
  BY <1>2, <1>3 DEF CompletionInv, Aware

\* No message of the completion has to come: the source is read if it is complete.
LEMMA RecoverAware ==
    ASSUME NEW t, NEW d, NEW src, NEW o, NEW m, NEW n, Aware(t, d, src, server, o, m)
    PROVE  Aware(recoverMissedGenerationCompletion(t), d, src, server, o, n)
<1>1. t \in Pages /\ t.anchor = None
  BY DEF Aware, GoesBy
<1>2. PICK missed \in BOOLEAN :
        missed <=> /\ t.session # None /\ t.state = "GENERATING"
                   /\ server[t.session] = "generated"
                   /\ t.arrived < Count
  OBVIOUS
<1>3. PICK x : x = Timer("read", t.session, TRUE, 0)
  OBVIOUS
<1>4. PICK u : u = IF missed THEN [t EXCEPT !.file = TRUE, !.timers = @ \cup {x}] ELSE t
  OBVIOUS
<1>5. recoverMissedGenerationCompletion(t) = u
  <2>1. [t EXCEPT !.file = TRUE, !.timers = @ \cup {x}] = setTimer([t EXCEPT !.file = TRUE], x)
    BY <1>1 DEF setTimer, Pages
  <2> QED
    BY <1>2, <1>3, <1>4, <2>1 DEF recoverMissedGenerationCompletion
<1>6. missed => x \in TimerTypes
  BY <1>1, <1>2, <1>3, LiveAssumption DEF Timer, TimerTypes, Pages, Held
<1>7. x.kind = "read" /\ x.id = t.session
  BY <1>3 DEF Timer
<1>8. /\ u \in Pages /\ u.session = t.session /\ u.arrived = t.arrived /\ u.saved = t.saved
      /\ u.observed = t.observed /\ u.anchor = None /\ (t.file => u.file)
      /\ u.handled = t.handled /\ u.state = t.state /\ u.posts = t.posts
      /\ u.timers = IF missed THEN t.timers \cup {x} ELSE t.timers
  <2>1. CASE missed
    BY <1>1, <1>4, <1>6, <2>1 DEF Pages
  <2>2. CASE ~missed
    BY <1>1, <1>4, <2>2
  <2> QED
    BY <2>1, <2>2
<1>9. Aware(u, d, src, server, o, m)
  BY <1>1, <1>7, <1>8, AwareSame DEF AsksNoMore
<1>10. WillSee(u, d, server, o, n)
  <2>1. ASSUME NEW s \in Sessions, Overlooked(u, s, d), server[s] = "generated"
        PROVE  \E y \in u.timers : y.kind \in Late /\ y.id = s
    <3>1. t.session = s /\ s # None /\ t.state = "GENERATING" /\ t.arrived < Count
      BY <1>8, <2>1, SessionsAre, LiveAssumption DEF Overlooked
    <3>2. missed
      BY <1>2, <2>1, <3>1
    <3> QED
      BY <1>7, <1>8, <3>1, <3>2 DEF Late
  <2> QED
    BY <1>9, <2>1 DEF Aware, WillSee
<1> QED
  BY <1>5, <1>9, <1>10 DEF Aware

LEMMA ConnectAware ==
    ASSUME CompletionInv, SessionInv, framework, Connect
    PROVE  CompletionInv'
<1>1. Loaded
  BY ClosedIs DEF Connect, SessionInv, Sane, Loaded
<1>2. AwareTab(tab) /\ Sane(tab, server, TRUE) /\ PageShows(dom, source, server)
  BY <1>1, LoadedAware DEF CompletionInv
<1>3. stream # "closed" /\ stream' # "closed" /\ Expected = Sessions
  BY DEF Connect, Expected
<1>4. Aware(tab, dom, source, server, TRUE, Sessions)
  BY <1>2, <1>3 DEF AwareTab
<1>5. PICK restored \in restoreFromActiveSessions(tab, ActiveSessions, dom) :
        tab' = [recoverMissedGenerationCompletion(restored) EXCEPT
                   !.state = IF @ = "IDLE" THEN "PICKING" ELSE @]
  BY DEF Connect
<1>6. GoesBy(tab, dom, source, server) /\ tab \in Pages
  BY <1>4 DEF Aware, GoesBy
<1>7. Aware(restored, dom, source, server, TRUE, Sessions)
  <2>1. CASE restored = tab
    BY <1>4, <2>1
  <2>2. CASE /\ restored = restoreSessionWithoutWrapper(tab, tab.saved, ActiveSessions, dom)
             /\ restored # tab
    <3>1. /\ Restorable(tab, tab.saved, ActiveSessions)
          /\ restored = Restored(tab, tab.saved, ActiveSessions, dom)
      BY <2>2 DEF restoreSessionWithoutWrapper
    <3>2. tab.saved # NoSave /\ tab.saved.id \notin tab.handled
      BY <3>1 DEF Restorable, isSessionHandled
    <3> QED
      BY <1>2, <1>6, <3>1, <3>2, SavedAware
  <2>3. ASSUME NEW saved \in Adoptable(tab, ActiveSessions), restored # tab,
               restored = restoreSessionWithoutWrapper(tab, saved, ActiveSessions, dom)
        PROVE  Aware(restored, dom, source, server, TRUE, Sessions)
    <3>1. PICK s \in ActiveSessions \ {None} :
            /\ saved = [id |-> s, state |-> "GENERATING", arrived |-> 0, file |-> TRUE]
            /\ server[s] \in {"requested", "generated"} /\ ~isSessionHandled(tab, s)
      BY <2>3 DEF Adoptable
    <3>2. s \in Sessions
      BY DEF ActiveSessions
    <3>3. saved \in Saves /\ server[saved.id] # "new" /\ saved.id \notin tab.handled
      BY <3>1, <3>2, LiveAssumption DEF Saves, States, isSessionHandled
    <3>4. ~(saved.arrived > 0) /\ saved.file
      BY <3>1
    <3>5. restored = Restored(tab, saved, ActiveSessions, dom)
      BY <2>3 DEF restoreSessionWithoutWrapper
    <3> QED
      BY <1>2, <1>6, <3>3, <3>4, <3>5, RestoredAware
  <2> QED
    BY <2>1, <2>2, <2>3 DEF restoreFromActiveSessions
<1>8. PICK t : t = recoverMissedGenerationCompletion(restored)
  OBVIOUS
<1>9. PICK n : n = Expected'
  OBVIOUS
<1>10. Aware(t, dom, source, server, TRUE, n)
  BY <1>7, <1>8, RecoverAware
<1>11. PICK state : state = IF t.state = "IDLE" THEN "PICKING" ELSE t.state
  OBVIOUS
<1>12. PICK u : u = [t EXCEPT !.state = state]
  OBVIOUS
<1>13. t \in Pages /\ t.anchor = None
  BY <1>10 DEF Aware, GoesBy
<1>14. state \in States /\ (state = "GENERATING" => t.state = "GENERATING")
  BY <1>11, <1>13 DEF Pages, States
<1>15. /\ u \in Pages /\ u.session = t.session /\ u.arrived = t.arrived /\ u.saved = t.saved
       /\ u.observed = t.observed /\ u.anchor = None /\ u.file = t.file
       /\ u.handled = t.handled /\ u.state = state /\ u.posts = t.posts
       /\ u.timers = t.timers
  BY <1>12, <1>13, <1>14 DEF Pages
<1>16. Aware(u, dom, source, server, TRUE, n)
  BY <1>10, <1>13, <1>14, <1>15, AwareSame DEF AsksNoMore
<1>17. tab' = u
  BY <1>5, <1>8, <1>11, <1>12, <1>13 DEF Pages
<1>18. Aware(u, dom, source, server, stream' # "closed", Expected')
  BY <1>3, <1>9, <1>16
<1>19. UNCHANGED <<framework, dom, helper>>
  BY DEF Connect, bounds
<1> QED
  BY <1>17, <1>18, <1>19, StreamAware

LEMMA StreamsAware ==
    ASSUME CompletionInv, SessionInv, framework, Stream
    PROVE  CompletionInv'
<1>1. Loaded
  <2>1. stream # "closed"
    BY DEF Stream, Connect, Disconnect, handleServerLost, Receive
  <2> QED
    BY <2>1, ClosedIs DEF SessionInv, Sane, Loaded
<1>2. AwareTab(tab) /\ Sane(tab, server, TRUE) /\ tab \in Pages /\ tab.anchor = None
  BY <1>1, LoadedAware DEF AwareTab, Aware, GoesBy
<1>3. CASE Disconnect
  <2>1. stream' = "connecting" /\ stream # "closed" /\ Expected' = Sessions
    BY <1>3 DEF Disconnect, Expected
  <2>2. Aware(tab, dom, source, server, TRUE, Expected)
    BY <1>2, <2>1 DEF AwareTab
  <2>3. Expected \subseteq Sessions
    BY DEF Expected, ToldComplete
  <2>4. Aware(tab, dom, source, server, TRUE, Sessions)
    BY <2>2, <2>3, MoreExpected
  <2>5. PICK t : t = tab
    OBVIOUS
  <2>6. Aware(t, dom, source, server, stream' # "closed", Expected')
    BY <2>1, <2>4, <2>5
  <2> QED
    BY <1>3, <2>5, <2>6, StreamAware DEF Disconnect
<1>4. CASE handleServerLost
  <2>1. ~(stream' # "closed") /\ Expected' = Sessions
    BY <1>4 DEF handleServerLost, Expected
  <2>2. PICK state : state = IF tab.session = None THEN "IDLE" ELSE tab.state
    OBVIOUS
  <2>3. PICK t : t = [tab EXCEPT !.observed = None, !.state = state]
    OBVIOUS
  <2>4. PICK u : u = saveSession(t)
    OBVIOUS
  <2>5. state \in States /\ None \in Held
    BY <1>2, <2>2 DEF Pages, States, Held
  <2>6. /\ t \in Pages /\ t.session = tab.session /\ t.arrived = tab.arrived /\ t.saved = tab.saved
        /\ t.observed = None /\ t.anchor = None /\ t.file = tab.file
        /\ t.handled = tab.handled /\ t.state = state /\ t.posts = tab.posts
        /\ t.timers = tab.timers
    BY <1>2, <2>3, <2>5 DEF Pages
  <2>7. GoesBy(t, dom, source, server)
    BY <1>2, <2>6, GoesBySame DEF AwareTab, Aware, AsksNoMore
  <2>8. Observes(t, FALSE) /\ WillSee(t, dom, server, FALSE, Sessions)
    BY <2>6 DEF Observes, WillSee
  <2>9. SavesCurrent(t)
    BY <1>2, <2>6 DEF AwareTab, Aware, SavesCurrent
  <2>10. Aware(u, dom, source, server, FALSE, Sessions)
    <3>1. CASE t.session = None
      <4>1. u = t
        BY <2>4, <3>1 DEF saveSession
      <4> QED
        BY <2>7, <2>8, <2>9, <4>1 DEF Aware
    <3>2. CASE t.session # None
      BY <2>4, <2>7, <2>8, <3>2, SaveAware DEF Aware
    <3> QED
      BY <3>1, <3>2
  <2>11. tab' = u
    BY <1>4, <2>2, <2>3, <2>4 DEF handleServerLost
  <2>12. Aware(u, dom, source, server, stream' # "closed", Expected')
    BY <2>1, <2>10
  <2>13. UNCHANGED <<framework, dom, helper>>
    BY <1>4 DEF handleServerLost, bounds
  <2> QED
    BY <2>11, <2>12, <2>13, StreamAware
<1>5. CASE Receive
  <2>1. stream = "open" /\ stream' = "open" /\ inbox # <<>> /\ inbox' = Tail(inbox)
    BY <1>5 DEF Receive
  <2>2. inbox \in Seq(Told)
    BY DEF SessionInv, SessionTypes
  <2>3. PICK msg : msg = Head(inbox)
    OBVIOUS
  <2>4. msg \in Told
    BY <2>1, <2>2, <2>3
  <2>5. PICK m, n : m = Expected /\ n = Expected'
    OBVIOUS
  <2>6. ASSUME NEW s \in m
        PROVE  s \in n \/ msg = [type |-> "done", id |-> s]
    <3>1. PICK x : x = [type |-> "done", id |-> s]
      OBVIOUS
    <3>2. s \in Sessions /\ \E i \in 1 .. Len(inbox) : inbox[i] = x
      BY <2>1, <2>5, <2>6, <3>1 DEF Expected, ToldComplete
    <3>3. PICK i \in 1 .. Len(inbox) : inbox[i] = x
      BY <3>2
    <3>4. CASE i = 1
      BY <2>1, <2>2, <2>3, <3>1, <3>3, <3>4
    <3>5. CASE i # 1
      <4>1. i - 1 \in 1 .. Len(Tail(inbox)) /\ Tail(inbox)[i - 1] = inbox[i]
        BY <2>1, <2>2, <3>3, <3>5
      <4>2. \E j \in 1 .. Len(inbox') : inbox'[j] = x
        BY <2>1, <3>3, <4>1
      <4>3. s \in ToldComplete'
        BY <3>1, <3>2, <4>2 DEF ToldComplete
      <4> QED
        BY <2>1, <2>5, <4>3 DEF Expected
    <3> QED
      BY <3>4, <3>5
  <2>7. Aware(tab, dom, source, server, TRUE, m)
    BY <1>2, <2>1, <2>5 DEF AwareTab
  <2>8. PICK t : t = Received(tab, msg, dom)
    OBVIOUS
  <2>9. Aware(t, dom, source, server, TRUE, n)
    BY <1>2, <2>4, <2>6, <2>7, <2>8, ReceivedAware
  <2>10. tab' = t /\ UNCHANGED <<framework, dom, helper>>
    BY <1>5, <2>3, <2>8 DEF Receive, bounds
  <2>11. Aware(t, dom, source, server, stream' # "closed", Expected')
    BY <2>1, <2>5, <2>9
  <2> QED
    BY <2>10, <2>11, StreamAware
<1> QED
  BY <1>3, <1>4, <1>5, ConnectAware DEF Stream

\* The agent: it changes the source of one session, and tells of it.
LEMMA AgentAware ==
    ASSUME CompletionInv, SessionInv, framework, NEW s \in Sessions, Agent(s)
    PROVE  CompletionInv'
<1>1. /\ SourceWritten(source, server) /\ PageShows(dom, source, server)
      /\ GoesBy(tab, dom, source, server)
      /\ Observes(tab, stream # "closed") /\ (Loaded => SavesCurrent(tab))
      /\ WillSee(tab, dom, server, stream # "closed", Expected)
      /\ server \in [Sessions -> Phases] /\ source \in [Sessions -> Looks] /\ inbox \in Seq(Told)
  BY DEF CompletionInv, SessionInv, SessionTypes
<1>2. PICK look, phase :
        /\ source' = [source EXCEPT ![s] = look] /\ server' = [server EXCEPT ![s] = phase]
        /\ UNCHANGED <<bounds, tab, dom, stream>>
        /\ server[s] \notin {"new", "announced"} /\ phase \notin {"new", "announced", "accepting"}
        /\ Shown(s, dom, source, server) =>
              look # 0 /\ (phase = "requested" => look \in 1 .. Count)
        /\ phase = "generated" => look \in 1 .. Count
        /\ \/ inbox' = inbox /\ phase # "generated"
           \/ \E type : /\ inbox' = IF stream = "open" THEN Append(inbox, [type |-> type, id |-> s])
                                    ELSE inbox
                        /\ phase = "generated" => type = "done" \/ server[s] = "accepting"
  <2>1. CASE AgentWrites(s)
    <3>1. /\ source' = [source EXCEPT ![s] = source[s] + 1]
          /\ server' = [server EXCEPT ![s] = "requested"] /\ server[s] = "requested"
          /\ UNCHANGED <<bounds, tab, dom, stream>> /\ inbox' = inbox
      BY <1>1, <2>1 DEF AgentWrites
    <3>2. Shown(s, dom, source, server) => source[s] + 1 # 0 /\ source[s] + 1 \in 1 .. Count
      BY <2>1, <3>1, LiveAssumption DEF AgentWrites, Shown
    <3> QED
      BY <3>1, <3>2
  <2>2. CASE AgentDone(s)
    <3>1. Count \in 1 .. Count /\ Count # 0
      BY LiveAssumption
    <3> QED
      BY <2>2, <3>1 DEF AgentDone, Tell
  <2>3. CASE AgentFails(s)
    <3>1. PICK look : look = Absent /\ look # 0
      BY DEF Absent
    <3>2. Tell("error", s, look, "failed") /\ server[s] \notin {"new", "announced"}
      BY <2>3, <3>1 DEF AgentFails
    <3>3. \E type : inbox' = IF stream = "open" THEN Append(inbox, [type |-> type, id |-> s])
                              ELSE inbox
      BY <3>2, Zenon DEF Tell
    <3>4. PICK phase : phase = "failed"
      OBVIOUS
    <3>5. /\ source' = [source EXCEPT ![s] = look] /\ server' = [server EXCEPT ![s] = phase]
          /\ UNCHANGED <<bounds, tab, dom, stream>>
      BY <3>2, <3>4 DEF Tell
    <3>6. phase \notin {"new", "announced", "accepting", "requested", "generated"}
      BY <3>4
    <3> QED
      BY <3>1, <3>2, <3>3, <3>5, <3>6
  <2>4. CASE AcceptWritten(s)
    <3>1. Carbonized # 0 /\ Clean # 0
      BY LiveAssumption DEF Carbonized, Clean
    <3> QED
      BY <2>4, <3>1 DEF AcceptWritten, Tell
  <2>5. CASE AcceptFails(s)
    <3>1. source[s] \in 1 .. Count /\ source[s] # 0
      BY <1>1, <2>5 DEF AcceptFails, SourceWritten
    <3> QED
      BY <2>5, <3>1 DEF AcceptFails, Tell
  <2>6. CASE CarbonizeDone(s)
    <3>1. Clean # 0
      BY LiveAssumption DEF Clean
    <3> QED
      BY <2>6, <3>1 DEF CarbonizeDone, Tell
  <2>7. CASE DiscardWritten(s)
    <3>1. PICK look : look = Absent /\ look # 0
      BY DEF Absent
    <3>2. Tell("discarded", s, look, "discarded") /\ server[s] \notin {"new", "announced"}
      BY <2>7, <3>1 DEF DiscardWritten
    <3>3. \E type : inbox' = IF stream = "open" THEN Append(inbox, [type |-> type, id |-> s])
                              ELSE inbox
      BY <3>2, Zenon DEF Tell
    <3>4. PICK phase : phase = "discarded"
      OBVIOUS
    <3>5. /\ source' = [source EXCEPT ![s] = look] /\ server' = [server EXCEPT ![s] = phase]
          /\ UNCHANGED <<bounds, tab, dom, stream>>
      BY <3>2, <3>4 DEF Tell
    <3>6. phase \notin {"new", "announced", "accepting", "requested", "generated"}
      BY <3>4
    <3> QED
      BY <3>1, <3>2, <3>3, <3>5, <3>6
  <2> QED
    BY <2>1, <2>2, <2>3, <2>4, <2>5, <2>6, <2>7 DEF Agent
<1>3. PICK src, sw : src = source' /\ sw = server'
  OBVIOUS
<1>4. /\ src[s] = look /\ sw[s] = phase
      /\ \A x \in Sessions : x # s => src[x] = source[x] /\ sw[x] = server[x]
  BY <1>1, <1>2, <1>3
<1>5. \A x \in Sessions : Shown(x, dom, source, server) => Shown(x, dom, src, sw)
  BY <1>2, <1>4 DEF Shown
<1>6. SourceWritten(src, sw) /\ PageShows(dom, src, sw)
  <2>1. SourceWritten(src, sw)
    BY <1>1, <1>2, <1>4 DEF SourceWritten
  <2> QED
    BY <1>1, <1>5, <2>1 DEF PageShows
<1>7. PICK m, n : m = Expected /\ n = Expected'
  OBVIOUS
<1>8. m \subseteq n
  <2>1. CASE stream # "open"
    BY <1>2, <1>7, <2>1 DEF Expected, ToldComplete
  <2>2. CASE stream = "open" /\ inbox' = inbox
    BY <1>2, <1>7, <2>2 DEF Expected, ToldComplete
  <2>3. ASSUME stream = "open", NEW x, inbox' = Append(inbox, x)
        PROVE  m \subseteq n
    <3>1. \A i \in 1 .. Len(inbox) : i \in 1 .. Len(inbox') /\ inbox'[i] = inbox[i]
      BY <1>1, <2>3
    <3>2. ToldComplete \subseteq ToldComplete'
      BY <3>1 DEF ToldComplete
    <3> QED
      BY <1>2, <1>7, <2>3, <3>2 DEF Expected
  <2> QED
    BY <1>2, <2>1, <2>2, <2>3
<1>9. phase = "generated" => s \in n \/ (server[s] = "accepting" /\ stream # "closed")
  <2> SUFFICES ASSUME phase = "generated", server[s] # "accepting" \/ stream = "closed"
               PROVE  s \in n
    OBVIOUS
  <2>1. CASE stream # "open"
    BY <1>2, <1>7, <2>1 DEF Expected
  <2>2. CASE stream = "open"
    <3>1. PICK x : x = [type |-> "done", id |-> s]
      OBVIOUS
    <3>2. inbox' = Append(inbox, x)
      BY <1>2, <2>2, <3>1
    <3>3. Len(inbox) + 1 \in 1 .. Len(inbox') /\ inbox'[Len(inbox) + 1] = x
      BY <1>1, <3>2
    <3>4. s \in ToldComplete'
      BY <3>1, <3>3 DEF ToldComplete
    <3> QED
      BY <1>2, <1>7, <2>2, <3>4 DEF Expected
  <2> QED
    BY <2>1, <2>2
<1>10. PICK o \in BOOLEAN : o <=> stream # "closed"
  OBVIOUS
<1>11. WillSee(tab, dom, server, o, m) /\ Observes(tab, o)
  <2>1. o = (stream # "closed")
    BY <1>10
  <2> QED
    BY <1>1, <1>7, <2>1
<1>12. \A x \in Sessions : Overlooked(tab, x, dom) /\ sw[x] = "generated" =>
           x \in n \/ (server[x] = "generated" /\ (x \in m => x \in n))
  <2> SUFFICES ASSUME NEW x \in Sessions, Overlooked(tab, x, dom), sw[x] = "generated", x \notin n
               PROVE  server[x] = "generated"
    BY <1>8
  <2>1. CASE x # s
    BY <1>4, <2>1
  <2>2. CASE x = s
    <3>1. server[s] = "accepting" /\ o
      BY <1>4, <1>9, <1>10, <2>2
    <3>2. ~BeingAccepted(tab, s, server)
      BY <1>11, <2>2, <3>1 DEF WillSee
    <3> QED
      BY <3>1, <3>2 DEF BeingAccepted
  <2> QED
    BY <2>1, <2>2
<1>13. GoesBy(tab, dom, src, sw) /\ WillSee(tab, dom, sw, o, n)
  <2>1. \A x \in Sessions : sw[x] = "accepting" => BeingAccepted(tab, x, server)
    BY <1>2, <1>4 DEF BeingAccepted
  <2>2. \A x \in Sessions : server[x] # "new" => sw[x] # "new"
    BY <1>2, <1>4
  <2>3. \A x \in Sessions : server[x] = "announced" => sw[x] = "announced"
    BY <1>2, <1>4
  <2> QED
    BY <1>1, <1>5, <1>11, <1>12, <2>1, <2>2, <2>3, WorldAware
<1>14. /\ framework' = framework /\ tab' = tab /\ dom' = dom /\ (stream' # "closed") = o
       /\ source' = src /\ server' = sw /\ Expected' = n
  BY <1>2, <1>3, <1>7, <1>10 DEF bounds
<1>15. /\ SourceWritten(source', server') /\ PageShows(dom', source', server')
       /\ GoesBy(tab', dom', source', server') /\ Observes(tab', stream' # "closed")
       /\ WillSee(tab', dom', server', stream' # "closed", Expected')
       /\ Loaded' => SavesCurrent(tab')
  BY <1>1, <1>6, <1>11, <1>13, <1>14 DEF Loaded
<1> QED
  BY <1>15 DEF CompletionInv

-----------------------------------------------------------------------------
LEMMA FrameworkStays == [Next]_vars => framework' = framework
<1> SUFFICES ASSUME [Next]_vars
             PROVE  framework' = framework
  OBVIOUS
<1> USE DEF bounds, Handle
<1>1. CASE Page
  BY <1>1 DEF Page, init, Reload, HotReload
<1>2. CASE User
  BY <1>2 DEF User, Pick, exitConfigureToPicking, handleGo, handleAccept, handleDiscard
<1>3. CASE Posts
  BY <1>3 DEF Posts, Serve, Answer, CheckpointAnswer
<1>4. CASE Timeouts
  <2>1. ASSUME NEW timer, \/ QueuedCheckpoint
                          \/ Captured(timer)
                          \/ Reread(timer)
                          \/ \E w \in tab.watched : WatchEnds(w)
        PROVE  framework' = framework
    BY <2>1 DEF QueuedCheckpoint, Captured, Reread, WatchEnds
  <2>2. ASSUME NEW timer, AcceptedLate(timer) \/ CleanupLate(timer)
        PROVE  framework' = framework
    BY <2>2 DEF AcceptedLate, CleanupLate
  <2>3. ASSUME NEW stale, NEW t, ReloadIf(stale, t)
        PROVE  framework' = framework
    BY <2>3 DEF ReloadIf
  <2>4. ASSUME NEW timer, \/ AcceptedReload(timer)
                          \/ CleanupReload(timer)
                          \/ DiscardedReload(timer)
                          \/ HandledReload(timer)
        PROVE  framework' = framework
    BY <2>3, <2>4 DEF AcceptedReload, CleanupReload, DiscardedReload, HandledReload
  <2> QED
    BY <1>4, <2>1, <2>2, <2>4 DEF Timeouts
<1>5. CASE Reads
  BY <1>5 DEF Reads, ReadAnswer, ReadFails, AnchorAppears
<1>6. CASE Stream
  BY <1>6 DEF Stream, Connect, Disconnect, handleServerLost, Receive
<1>7. ASSUME NEW s \in Sessions, Agent(s)
      PROVE  framework' = framework
  BY <1>7 DEF Agent, AgentWrites, AgentDone, AgentFails, AcceptWritten, AcceptFails,
              CarbonizeDone, DiscardWritten, Tell
<1>8. CASE UNCHANGED vars
  BY <1>8 DEF vars
<1> QED
  BY <1>1, <1>2, <1>3, <1>4, <1>5, <1>6, <1>7, <1>8 DEF Next

LEMMA CompletionInvInit == Init => CompletionInv
<1> SUFFICES ASSUME Init
             PROVE  CompletionInv
  OBVIOUS
<1>1. PICK t : t = NewPage(Blank)
  OBVIOUS
<1>2. t = [state |-> "UNLOADED", session |-> None, arrived |-> 0, file |-> FALSE,
           pending |-> None, awaiting |-> None, observed |-> None, anchor |-> None,
           scout |-> {}, watched |-> {}, queued |-> FALSE, timers |-> {}, reads |-> {}, posts |-> {},
           saved |-> NoSave, handled |-> {}, attempts |-> [s \in Sessions |-> 0]]
  BY <1>1 DEF NewPage, Blank
<1>3. SessionInv /\ ~(tab.state # "UNLOADED") /\ tab = t
  BY <1>1, <1>2, SessionInvInit DEF Init
<1>4. tab \in Pages
  BY <1>3 DEF SessionInv, Sane, Closed
<1>5. /\ tab.session = None /\ tab.arrived = 0 /\ tab.observed = None /\ tab.anchor = None
      /\ tab.posts = {} /\ tab.timers = {} /\ tab.saved = NoSave
  BY <1>2, <1>3
<1>6. /\ \A s \in Sessions : dom[s] = Absent /\ source[s] = Absent /\ server[s] = "new"
      /\ stream = "closed"
  BY DEF Init
<1>7. \A s \in Sessions : dom[s] \notin 1 .. Count
  BY <1>6 DEF Absent
<1>8. SourceWritten(source, server) /\ PageShows(dom, source, server)
  BY <1>6, <1>7 DEF SourceWritten, PageShows
<1>9. \A s \in Sessions : ~BeingAccepted(tab, s, server)
  BY <1>5, <1>6 DEF BeingAccepted
<1>10. GoesBy(tab, dom, source, server)
  BY <1>4, <1>5, <1>9, SessionsAre DEF GoesBy, HoldsShown, AsBegun, CreatedOnce
<1>11. Observes(tab, stream # "closed") /\ WillSee(tab, dom, server, stream # "closed", Expected)
  BY <1>5, <1>6, SessionsAre DEF Observes, WillSee, Overlooked
<1> QED
  BY <1>3, <1>8, <1>10, <1>11 DEF CompletionInv, Loaded

LEMMA CompletionInvStep == CompletionInv /\ SessionInv /\ [Next]_vars => CompletionInv'
<1> SUFFICES ASSUME CompletionInv, SessionInv, [Next]_vars
             PROVE  CompletionInv'
  OBVIOUS
<1>1. CASE ~framework
  BY <1>1, FrameworkStays DEF CompletionInv
<1>2. CASE framework /\ Next
  BY <1>2, PageAware, UserAware, PostsAware, TimeoutsAware, ReadsAware, StreamsAware, AgentAware
  DEF Next
<1>3. CASE framework /\ UNCHANGED vars
  <2>1. /\ framework' = framework /\ tab' = tab /\ dom' = dom /\ source' = source
        /\ server' = server /\ stream' = stream /\ inbox' = inbox
    BY <1>3 DEF vars
  <2>2. Expected' = Expected /\ Loaded' = Loaded
    BY <2>1 DEF Expected, ToldComplete, Loaded
  <2> QED
    BY <2>1, <2>2 DEF CompletionInv
<1> QED
  BY <1>1, <1>2, <1>3

\* What the page shows of a complete session would have been read.
LEMMA CompletionInvShows == CompletionInv /\ SessionInv => CompletionNotMissed
<1> SUFFICES ASSUME CompletionInv, SessionInv, framework, stream = "open", inbox = <<>>,
                    \A x \in tab.timers : x.kind \in Recovery \cup {"capture"},
                    tab.session # None, tab.state = "GENERATING", tab.arrived = 0,
                    server[tab.session] = "generated", dom[tab.session] = source[tab.session]
             PROVE  FALSE
  BY DEF CompletionNotMissed
<1>1. tab.session \in Sessions
  BY DEF CompletionInv, GoesBy, Pages, Held
<1>2. PICK s \in Sessions : s = tab.session
  BY <1>1
<1>3. Overlooked(tab, s, dom)
  BY <1>2 DEF CompletionInv, SourceWritten, Overlooked
<1>4. Expected = {}
  BY DEF Expected, ToldComplete
<1>5. \E x \in tab.timers : x.kind \in Late
  BY <1>2, <1>3, <1>4 DEF CompletionInv, WillSee
<1> QED
  BY <1>5 DEF Late, Recovery

\* A framework page does not wait at 0/N for ever: what it shows of a session that is complete
\* has been seen by the observer, or is read because the message of the completion came or
\* the stream's list of sessions stood in for it (recoverMissedGenerationCompletion).
THEOREM CompletionsAreNotMissed == Spec => []CompletionNotMissed
<1>1. Init => SessionInv /\ CompletionInv
  BY SessionInvInit, CompletionInvInit
<1>2. SessionInv /\ CompletionInv /\ [Next]_vars => (SessionInv /\ CompletionInv)'
  BY SessionInvStep, CompletionInvStep DEF Kept
<1>3. SessionInv /\ CompletionInv => CompletionNotMissed
  BY CompletionInvShows
<1> QED
  BY <1>1, <1>2, <1>3, PTL DEF Spec

=============================================================================
