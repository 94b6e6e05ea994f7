---------------------------- MODULE LiveSession ----------------------------
(***************************************************************************)
(* The live overlay of the repository's design tool                        *)
(* (.agents/skills/impeccable/scripts/live-browser.js): one browser tab    *)
(* that asks a helper for variants of an element, shows them, and has one  *)
(* accepted or all discarded.  The helper's agent writes the variants into *)
(* the page's source, from where they reach the DOM by hot reloading, by a *)
(* read of the source, or by a reload of the page.                         *)
(*                                                                         *)
(* tab is everything the browser holds.  A handler is an operator from tab *)
(* to tab; an action applies it.  liveInteractionRevision is compared with *)
(* earlier values of itself only, so every timer carries a flag instead:   *)
(* fresh, no configuration has begun since it was set.                     *)
(*                                                                         *)
(* Previews are those in source wrappers, of one element at a time; a      *)
(* framework page is one whose files are JSX.                              *)
(***************************************************************************)
EXTENDS Integers, Sequences, FiniteSets

CONSTANTS
    MaxSession,       \* bound: sessions
    Count,            \* variants of a session
    Retries,          \* COMPLETED_SOURCE_FALLBACK_RETRIES
    MaxFaults,        \* bound: reloads by the user and losses of the event stream
    MaxBusy           \* bound: what is under way when user or agent act

ASSUME LiveAssumption ==
    /\ MaxSession \in Nat /\ Count \in Nat \ {0}
    /\ Retries \in Nat /\ MaxFaults \in Nat /\ MaxBusy \in Nat

Sessions == 1 .. MaxSession

None == 0

\* What DOM or source have of a session: nothing, a wrapper with so many variants, the
\* markers of a variant that is being folded in, or that variant alone.
Absent == -1
Carbonized == Count + 1
Clean == Count + 2
Wrapped(look) == look \in 0 .. Count
Marked(look) == look \in 0 .. Carbonized

NoSave == [id |-> None]

NoList == {None}      \* no list of active sessions was sent

VARIABLES
    framework,        \* the page hot-reloads its components
    tab,
    dom, source,      \* look of each session
    server,           \* phase of each session at the helper
    stream,           \* "connecting", "open", "closed": EventSource
    inbox,            \* its messages on their way
    faults

vars == <<framework, tab, dom, source, server, stream, inbox, faults>>

\* Survives a reload: saved, handled, attempts in storage.  What is posted and not served
\* yet is given up.
NewPage(t) ==
    [state |-> "UNLOADED", session |-> None, arrived |-> 0, file |-> FALSE,
     pending |-> None, awaiting |-> None, observed |-> None, anchor |-> None,
     scout |-> {}, watched |-> {}, queued |-> FALSE, timers |-> {}, reads |-> {}, posts |-> {},
     saved |-> t.saved, handled |-> t.handled, attempts |-> t.attempts]

-----------------------------------------------------------------------------
(***************************************************************************)
(* Helpers of the handlers.                                                *)
(***************************************************************************)
saveSession(t) ==
    IF t.session = None THEN t
    ELSE [t EXCEPT !.saved = [id |-> t.session, state |-> t.state, arrived |-> t.arrived,
                              file |-> t.file]]

markSessionHandled(t) == [t EXCEPT !.handled = @ \cup ({t.session} \ {None})]

\* Mutation: the mark of a handled session is not found.
MarkNotFound(t, s) == FALSE

isSessionHandled(t, s) == s \in t.handled

Timer(kind, s, fresh, n) == [kind |-> kind, id |-> s, fresh |-> fresh, n |-> n]

setTimer(t, timer) == [t EXCEPT !.timers = @ \cup {timer}]

\* sessionCreationGate: what follows a creation waits until that is answered.
Creating(t) == \E p \in t.posts : p.kind = "generate"

sendEvent(t, kind, s) ==
    LET step == IF kind # "generate" /\ Creating(t) THEN "gated" ELSE "sent"
    IN [t EXCEPT !.posts = @ \cup {[kind |-> kind, id |-> s, step |-> step]}]

\* A checkpoint of a session that the helper knows changes nothing here: it is left out.
Unknown(s) == s # None /\ server[s] = "announced"

sendCheckpoint(t) == IF Unknown(t.session) THEN sendEvent(t, "checkpoint", t.session) ELSE t

queueCheckpoint(t) == IF Unknown(t.session) THEN [t EXCEPT !.queued = TRUE] ELSE t

\* Mutation: the revision is not compared.
RecoverySupersededBySession(t, s, fresh) == t.session \notin {None, s}

deferredRecoverySuperseded(t, s, fresh) == ~fresh \/ t.session \notin {None, s}

\* Back to picking; the wrapper is hidden now and removed in two seconds.
cleanup(t) ==
    LET later == IF t.session = None THEN t
                 ELSE setTimer(t, Timer("cleanup", t.session, TRUE, 0))
    IN [later EXCEPT !.state = "PICKING", !.session = None, !.observed = None,
                     !.anchor = None, !.file = FALSE, !.saved = NoSave]

\* The timers that may reload the page, and those that remember liveInteractionRevision.
Recovery == {"accept", "acceptReload", "cleanup", "cleanup2", "handled", "discard"}

Revised == Recovery \ {"discard"}

beginNewLiveConfiguration(t) ==
    [t EXCEPT !.state = "CONFIGURING",
              !.timers = {[x EXCEPT !.fresh = @ /\ x.kind \notin Revised] : x \in @},
              !.watched = {[x EXCEPT !.fresh = FALSE] : x \in @},
              !.scout = {[x EXCEPT !.fresh = FALSE] : x \in @}]

\* scheduleHandledRuntimeWrapperReload, of each of these wrappers of handled sessions.
ScheduleReloads(t, wrappers) ==
    LET due == {w \in wrappers : /\ ~deferredRecoverySuperseded(t, w.id, w.fresh)
                                 /\ isSessionHandled(t, w.id)
                                 /\ \A timer \in t.timers : <<timer.kind, timer.id>> # <<"handled", w.id>>
                                 /\ t.attempts[w.id] < 2}
        ids == {w.id : w \in due}
    IN [t EXCEPT !.attempts = [s \in Sessions |-> IF s \in ids THEN @[s] + 1 ELSE @[s]],
                 !.timers = @ \cup {Timer("handled", w.id, w.fresh, 0) : w \in due}]

-----------------------------------------------------------------------------
(***************************************************************************)
(* Variants from the source.  A read r is of a session's source; r.done:   *)
(* the generation is known to be complete; r.orphan: discard the session   *)
(* if the source has no wrapper of it.                                     *)
(***************************************************************************)
Read(s, done, orphan, n) == [id |-> s, done |-> done, orphan |-> orphan, n |-> n]

\* A session without variants is not cycled through.
recoverEmptyCycling(t) == cleanup(t)

\* completeSourceInjection: it does not ask whether the session is still the current one.
completeSourceInjection(t, r, count) ==
    LET u == [t EXCEPT !.anchor = None, !.arrived = count]
    IN CASE count > 0 -> saveSession([u EXCEPT !.state = "CYCLING"])
         [] count = 0 /\ u.state = "GENERATING" /\ ~r.done -> u
         [] count = 0 /\ u.state = "GENERATING" /\ r.done /\ r.n < Retries ->
                setTimer(u, Timer("retryEmpty", r.id, TRUE, r.n + 1))
         [] OTHER -> recoverEmptyCycling(u)

\* injectVariantsFromSource, until its fetch.
injectVariantsFromSource(t, r, d) ==
    LET known == [t EXCEPT !.file = TRUE]
    IN CASE ~framework -> [known EXCEPT !.reads = @ \cup {r}]
         [] framework /\ d[r.id] \in 1 .. Count -> completeSourceInjection(known, r, d[r.id])
         [] framework /\ d[r.id] \notin 1 .. Count /\ r.done /\ r.id = t.session ->
                IF r.n < Retries THEN setTimer(known, Timer("retryDone", r.id, TRUE, r.n + 1))
                ELSE IF Wrapped(d[r.id]) THEN cleanup(known) ELSE known
         [] framework /\ ~r.done /\ r.orphan /\ ~Wrapped(d[r.id]) /\ r.id = t.session ->
                [known EXCEPT !.reads = @ \cup {r}]
         [] OTHER -> known

discardOrphanedSession(t) ==
    cleanup(markSessionHandled(
        sendEvent(t, "orphan", t.session)))

\* The read found no wrapper: again, or give the session up.
Orphaned(t, r) ==
    IF r.n < Retries THEN setTimer(t, Timer("retryOrphan", r.id, TRUE, r.n + 1))
    ELSE discardOrphanedSession(t)

-----------------------------------------------------------------------------
(***************************************************************************)
(* Resuming what storage, the helper or the DOM have of a session.         *)
(***************************************************************************)
Restorable(t, saved, active) ==
    /\ saved # NoSave
    /\ ~isSessionHandled(t, saved.id)
    /\ saved.state \in {"GENERATING", "CYCLING"}
    /\ \/ active \in {NoList, {}}
       \/ saved.id \in active /\ server[saved.id] \in {"requested", "generated"}

\* The helper's list names the file of the session.
Known(s, active) == s \in active /\ Wrapped(source[s])

\* findAdoptableServerSession, in the shape of a saved session.
Adoptable(t, active) ==
    {[id |-> s, state |-> "GENERATING", arrived |-> 0, file |-> TRUE] :
        s \in {s \in active \ {None} : /\ ~isSessionHandled(t, s) /\ Known(s, active)
                                       /\ server[s] \in {"requested", "generated"}}}

Restored(t, saved, active, d) ==
    LET u == queueCheckpoint(saveSession(
                 [t EXCEPT !.session = saved.id, !.arrived = saved.arrived,
                           !.state = "GENERATING", !.observed = saved.id,
                           !.file = saved.file \/ Known(saved.id, active)]))
    IN IF u.file
       THEN injectVariantsFromSource(u, Read(saved.id, FALSE, saved.state = "CYCLING", 0), d)
       ELSE u

\* restoreSessionWithoutWrapper; saved is what is adopted when nothing is saved.
restoreSessionWithoutWrapper(t, saved, active, d) ==
    IF Restorable(t, saved, active) THEN Restored(t, saved, active, d) ELSE t

\* restoreSessionSupersedingHandledWrapper: a newer session than that of the wrapper is saved.
Superseding(t, runtime) ==
    /\ isSessionHandled(t, runtime)
    /\ t.saved # NoSave /\ t.saved.id # runtime
    /\ Restorable(t, t.saved, NoList) \/ t.session = t.saved.id
    /\ ~isSessionHandled(t, t.saved.id)

\* The session of the wrapper w is the current one, in the state its variants call for.
Resumed(t, w, d) ==
    LET u == [t EXCEPT !.session = w, !.arrived = d[w], !.observed = w,
                       !.state = IF d[w] > 0 THEN "CYCLING" ELSE "GENERATING",
                       !.file = @ \/ (t.saved # NoSave /\ t.saved.id = w /\ t.saved.file)]
    IN CASE d[w] = Count -> sendCheckpoint(queueCheckpoint(saveSession(u)))
         [] d[w] \in 1 .. Count - 1 -> sendCheckpoint(saveSession(u))
         [] OTHER -> queueCheckpoint(saveSession(u))

\* resumeSession; w is the wrapper it finds, or None, runtime that or a carbonized one.
resumeSession(t, fresh, w, runtime, d) ==
    LET superseding == Superseding(t, runtime)
    IN CASE superseding /\ t.session = t.saved.id -> t
         [] superseding /\ t.session # t.saved.id -> Restored(t, t.saved, NoList, d)
         [] ~superseding /\ isSessionHandled(t, runtime) ->
                ScheduleReloads(t, {[id |-> runtime, fresh |-> fresh]})
         [] ~isSessionHandled(t, runtime) /\ w = None ->
                IF Restorable(t, t.saved, NoList) THEN Restored(t, t.saved, NoList, d)
                ELSE [t EXCEPT !.saved = NoSave]
         [] OTHER -> Resumed(t, w, d)

\* findAnyVariantsWrapper: one with variants, if there are several.
WrappersFound(d) ==
    LET all == {s \in Sessions : Wrapped(d[s])}
        populated == {s \in all : d[s] > 0}
    IN IF Cardinality(all) > 1 /\ populated # {} THEN populated ELSE all

RuntimeWrappers(d) ==
    IF WrappersFound(d) # {} THEN {<<s, s>> : s \in WrappersFound(d)}
    ELSE IF \E s \in Sessions : d[s] = Carbonized
         THEN {<<None, s>> : s \in {s \in Sessions : d[s] = Carbonized}}
         ELSE {<<None, None>>}

-----------------------------------------------------------------------------
(***************************************************************************)
(* The observers of the DOM, which run before anything else does once it   *)
(* has changed to d.                                                       *)
(***************************************************************************)
\* startVariantObserver: whatever the state is, a variant more leads to CYCLING.
VariantsSeen(t, d) ==
    LET s == t.observed
    IN IF s = None \/ ~Wrapped(d[s]) \/ d[s] <= t.arrived THEN t
       ELSE sendCheckpoint(saveSession([t EXCEPT !.arrived = d[s], !.state = "CYCLING"]))

\* The scout of init, once.
Scouted(t, d, found) ==
    IF t.scout = {} \/ found[2] = None THEN t
    ELSE resumeSession([t EXCEPT !.scout = {}], \A x \in t.scout : x.fresh, found[1], found[2], d)

\* watchForHandledRuntimeWrapper.
HandledSeen(t, d) == ScheduleReloads(t, {w \in t.watched : Marked(d[w.id])})

Observers(t, d, found) == HandledSeen(Scouted(VariantsSeen(t, d), d, found), d)

\* The page changes to d, and tab to t with what its observers do.
Mutate(t, d) ==
    /\ dom' = d
    /\ \E found \in RuntimeWrappers(d) : tab' = Observers(t, d, found)

-----------------------------------------------------------------------------
(***************************************************************************)
(* The page: loaded, hot-reloaded.                                         *)
(***************************************************************************)
Blank == [posts |-> {}, saved |-> NoSave, handled |-> {}, attempts |-> [s \in Sessions |-> 0]]

Init ==
    /\ framework \in BOOLEAN
    /\ tab = NewPage(Blank)
    /\ dom = [s \in Sessions |-> Absent]
    /\ source = dom
    /\ server = [s \in Sessions |-> "new"]
    /\ stream = "closed"
    /\ inbox = <<>>
    /\ faults = 0

helper == <<server, source>>

bounds == <<framework, faults>>

Loaded == tab.state # "UNLOADED"

Unload ==
    /\ tab' = NewPage(tab)
    /\ stream' = "closed"
    /\ inbox' = <<>>

Reload ==
    /\ Loaded
    /\ faults < MaxFaults
    /\ faults' = faults + 1
    /\ Unload
    /\ UNCHANGED <<framework, dom, helper>>

\* init.  A framework may hydrate what the source has only later.
init ==
    /\ ~Loaded
    /\ \E d \in {source} \cup (IF framework THEN {[s \in Sessions |-> Absent]} ELSE {}) :
         /\ dom' = d
         /\ \E found \in RuntimeWrappers(d) :
              LET idle == [tab EXCEPT !.state = "IDLE"]
                  t == resumeSession(idle, TRUE, found[1], found[2], d)
                  scout == IF t.session = None \/ found[2] = None THEN {[fresh |-> TRUE]} ELSE {}
              IN tab' = [t EXCEPT !.scout = scout,
                                  !.state = IF @ = "IDLE" THEN "PICKING" ELSE @]
    /\ stream' = "connecting"
    /\ UNCHANGED <<bounds, helper, inbox>>

\* Hot reloading of a framework page.
HotReload(s) ==
    /\ Loaded
    /\ framework
    /\ dom[s] # source[s]
    /\ Mutate(tab, [dom EXCEPT ![s] = source[s]])
    /\ UNCHANGED <<bounds, helper, stream, inbox>>

-----------------------------------------------------------------------------
(***************************************************************************)
(* The user.                                                               *)
(***************************************************************************)
Handle(t) ==
    /\ tab' = t
    /\ UNCHANGED <<bounds, dom, helper, stream, inbox>>

Pick ==
    /\ tab.state = "PICKING"
    /\ Handle(beginNewLiveConfiguration(tab))

exitConfigureToPicking ==
    /\ tab.state = "CONFIGURING"
    /\ Handle([tab EXCEPT !.state = "PICKING"])

\* What handleGo and handleInsertCreate begin.
Generating(t, s) ==
    saveSession([t EXCEPT !.state = "GENERATING", !.session = s, !.arrived = 0, !.file = FALSE,
                          !.pending = None, !.awaiting = None, !.observed = s])

\* An annotated request waits for the capture of the element, which takes seconds.
handleGo(s, annotated) ==
    /\ tab.state = "CONFIGURING"
    /\ server[s] = "new" /\ \A r \in 1 .. s - 1 : server[r] # "new"
    /\ server' = [server EXCEPT ![s] = "announced"]
    /\ LET t == Generating(tab, s)
       IN tab' = IF annotated THEN setTimer(t, Timer("capture", s, TRUE, 0))
                 ELSE sendEvent(t, "generate", s)
    /\ UNCHANGED <<bounds, dom, source, stream, inbox>>

handleAccept ==
    /\ tab.state = "CYCLING"
    /\ tab.pending = None
    /\ tab.session # None /\ tab.arrived > 0
    /\ LET t == saveSession([tab EXCEPT !.state = "SAVING", !.pending = tab.session])
       IN Handle(sendEvent(t, "accept", tab.session))

handleDiscard ==
    /\ tab.state = "CYCLING"
    /\ tab.session # None
    /\ Handle(sendEvent(tab, "discard", tab.session))

-----------------------------------------------------------------------------
(***************************************************************************)
(* Answers to what was posted.                                             *)
(***************************************************************************)
\* scheduleAcceptCleanup with its microtask, cleanupAcceptedSession.
Accepted(t, s, d) ==
    LET marked == markSessionHandled(t)
        watch == [id |-> s, fresh |-> TRUE]
        watching == [marked EXCEPT !.watched = {w \in @ : w.id # s} \cup {watch}]
        seen == IF Marked(d[s]) THEN ScheduleReloads(watching, {watch}) ELSE watching
    IN [setTimer(seen, Timer("accept", s, TRUE, 0)) EXCEPT
            !.state = "PICKING", !.session = None, !.observed = None, !.file = FALSE,
            !.pending = None, !.saved = NoSave]

\* The helper takes a post.
Serve(p) ==
    /\ p \in tab.posts /\ p.step = "sent" /\ p.kind # "checkpoint"
    /\ \E result \in {"ok", "failed"} :
         /\ tab' = [tab EXCEPT !.posts = (@ \ {p}) \cup {[p EXCEPT !.step = result]}]
         /\ result = "ok" /\ p.kind = "accept" =>
              server[p.id] \in {"requested", "generated", "accepting"}
         /\ \/ result = "failed" /\ UNCHANGED server
            \/ /\ result = "ok"
               /\ server' = [server EXCEPT ![p.id] =
                     CASE p.kind = "generate" -> "requested"
                       [] p.kind = "accept" /\ @ \in {"requested", "generated"} -> "accepting"
                       [] p.kind \in {"discard", "orphan"} /\ @ \in {"requested", "generated"} ->
                             "discarding"
                       [] OTHER -> @]
    /\ UNCHANGED <<bounds, dom, source, stream, inbox>>

\* The continuation of a post.
Continued(t, p) ==
    CASE p.kind = "generate" /\ p.step = "ok" /\ p.id = t.session -> sendCheckpoint(t)
      [] p.kind = "accept" /\ p.step = "ok" /\ p.id = t.pending ->
            [Accepted(t, p.id, dom) EXCEPT !.awaiting = p.id]
      [] p.kind = "accept" /\ p.step = "failed" ->
            [t EXCEPT !.state = "CYCLING", !.pending = IF @ = p.id THEN None ELSE @]
      [] p.kind = "discard" /\ p.step = "ok" -> cleanup(markSessionHandled(t))
      [] OTHER -> t

\* The gate opens when the creation is answered.
Ungated(posts) ==
    {[q EXCEPT !.step = IF @ = "gated" THEN "sent" ELSE @] : q \in posts}

Answer(p) ==
    /\ Loaded
    /\ p \in tab.posts /\ p.step \in {"ok", "failed"}
    /\ LET rest == tab.posts \ {p}
           t == [tab EXCEPT !.posts = IF p.kind = "generate" THEN Ungated(rest) ELSE rest]
       IN Handle(Continued(t, p))

\* A checkpoint is served and answered.
CheckpointAnswer(p) ==
    /\ Loaded
    /\ p \in tab.posts /\ p.kind = "checkpoint" /\ p.step = "sent"
    /\ LET t == [tab EXCEPT !.posts = @ \ {p}]
       IN \/ Handle(t)
          \/ /\ Unknown(p.id)
             /\ p.id = t.session
             /\ Handle(cleanup(markSessionHandled(t)))

-----------------------------------------------------------------------------
(***************************************************************************)
(* What was put off.                                                       *)
(***************************************************************************)
Fire(timer) ==
    /\ Loaded
    /\ timer \in tab.timers

Done(timer) == [tab EXCEPT !.timers = @ \ {timer}]

\* The 120 ms of queueCheckpoint.
QueuedCheckpoint ==
    /\ tab.queued
    /\ Handle(sendCheckpoint([tab EXCEPT !.queued = FALSE]))

\* captureAndEmit after the capture: the session may be another by now.
Captured(timer) ==
    /\ Fire(timer) /\ timer.kind = "capture"
    /\ Handle(sendEvent(Done(timer), "generate", timer.id))

\* A read that was put off.
Reread(timer) ==
    /\ Fire(timer)
    /\ timer.kind \in {"read", "retryEmpty", "retryDone", "retryOrphan"}
    /\ LET t == Done(timer)
           wanted == /\ t.session = timer.id
                     /\ \/ t.state = "GENERATING"
                        \/ timer.kind = "retryOrphan" /\ t.state = "CYCLING"
                     /\ timer.kind = "read" => t.arrived < Count
                     /\ timer.kind = "retryEmpty" => t.arrived = 0
           r == Read(timer.id, timer.kind # "retryOrphan", timer.kind = "retryOrphan", timer.n)
       IN Handle(IF wanted THEN injectVariantsFromSource(t, r, dom) ELSE t)

\* acceptedDomAlreadyClean: it looks for an element like the accepted one outside all
\* wrappers, which the original may be.
MayBeClean(look) == IF look = Clean THEN {TRUE} ELSE IF look = Absent THEN BOOLEAN ELSE {FALSE}

\* scheduleAcceptCleanup after 1200 ms; a page that does not reload itself is cleaned by
\* hand, from the wrapper or from the snapshot, or else reloaded.
AcceptedLate(timer) ==
    /\ Fire(timer) /\ timer.kind = "accept"
    /\ LET t == Done(timer)
       IN \E clean \in MayBeClean(dom[timer.id]) :
            IF clean \/ deferredRecoverySuperseded(t, timer.id, timer.fresh)
            THEN Handle(t)
            ELSE IF framework
            THEN Handle(setTimer(t, [timer EXCEPT !.kind = "acceptReload"]))
            ELSE \/ /\ Mutate(t, [dom EXCEPT ![timer.id] = Clean])
                    /\ UNCHANGED <<bounds, helper, stream, inbox>>
                 \/ /\ dom[timer.id] = Absent
                    /\ Unload
                    /\ UNCHANGED <<bounds, dom, helper>>

\* Reload if the handled session is still not gone from the page, or look around.
ReloadIf(stale, t) ==
    \/ stale /\ Unload /\ UNCHANGED <<bounds, dom, helper>>
    \/ ~stale /\ Handle(t)

AcceptedReload(timer) ==
    /\ Fire(timer) /\ timer.kind = "acceptReload"
    /\ \E clean \in MayBeClean(dom[timer.id]) :
         ReloadIf(~clean /\ ~deferredRecoverySuperseded(tab, timer.id, timer.fresh), Done(timer))

\* cleanup after two seconds: the wrapper of a framework page is left to it.
CleanupLate(timer) ==
    /\ Fire(timer) /\ timer.kind = "cleanup"
    /\ LET t == Done(timer)
           superseded == deferredRecoverySuperseded(t, timer.id, timer.fresh)
       IN IF ~Wrapped(dom[timer.id]) THEN Handle(t)
          ELSE IF ~framework
          THEN /\ Mutate(t, [dom EXCEPT ![timer.id] = Absent])
               /\ UNCHANGED <<bounds, helper, stream, inbox>>
          ELSE Handle(setTimer(t, IF superseded THEN Timer("discard", timer.id, TRUE, 0)
                                  ELSE [timer EXCEPT !.kind = "cleanup2"]))

CleanupReload(timer) ==
    /\ Fire(timer) /\ timer.kind = "cleanup2"
    /\ LET superseded == deferredRecoverySuperseded(tab, timer.id, timer.fresh)
           t == IF superseded /\ Wrapped(dom[timer.id])
                THEN setTimer(Done(timer), Timer("discard", timer.id, TRUE, 0)) ELSE Done(timer)
       IN ReloadIf(~superseded /\ Wrapped(dom[timer.id]), t)

\* watchForDiscardedFrameworkWrapperRemoval, every 12 s.
DiscardedReload(timer) ==
    /\ Fire(timer) /\ timer.kind = "discard"
    /\ LET replaced == tab.session # None \/ tab.state \notin {"IDLE", "PICKING"}
       IN ReloadIf(Wrapped(dom[timer.id]) /\ ~replaced,
                   IF Wrapped(dom[timer.id]) THEN tab ELSE Done(timer))

\* scheduleHandledRuntimeWrapperReload after 3 s.
HandledReload(timer) ==
    /\ Fire(timer) /\ timer.kind = "handled"
    /\ LET superseded == deferredRecoverySuperseded(tab, timer.id, timer.fresh)
       IN ReloadIf(~superseded /\ Marked(dom[timer.id]),
                   [Done(timer) EXCEPT !.attempts[timer.id] = 0])

\* The 12 s of watchForHandledRuntimeWrapper: the timers of the accept are shorter.
WatchEnds(w) ==
    /\ w \in tab.watched
    /\ \A timer \in tab.timers : timer.id = w.id => timer.kind \notin {"accept", "acceptReload"}
    /\ Handle([tab EXCEPT !.watched = @ \ {w}])

enterRecoveryWaitingForAnchor(t, s) ==
    queueCheckpoint(saveSession([t EXCEPT !.state = "GENERATING", !.anchor = s]))

\* The text of the source arrives.
ReadAnswer(r) ==
    /\ Loaded
    /\ r \in tab.reads
    /\ LET t == [tab EXCEPT !.reads = @ \ {r}]
           active == t.session = r.id /\ t.state \in {"GENERATING", "CYCLING"}
       IN CASE framework ->
                 Handle(IF active /\ ~Wrapped(source[r.id]) THEN Orphaned(t, r) ELSE t)
            [] ~framework /\ ~Wrapped(source[r.id]) ->
                 Handle(IF r.orphan /\ r.id = t.session THEN Orphaned(t, r) ELSE t)
            [] OTHER ->
                 \/ /\ Mutate(completeSourceInjection(t, r, source[r.id]),
                              [dom EXCEPT ![r.id] = source[r.id]])
                    /\ UNCHANGED <<bounds, helper, stream, inbox>>
                 \/ /\ ~Wrapped(dom[r.id])      \* the element is not on the page now
                    /\ Handle(enterRecoveryWaitingForAnchor(t, r.id))

ReadFails(r) ==
    /\ Loaded
    /\ r \in tab.reads
    /\ LET t == [tab EXCEPT !.reads = @ \ {r}]
           active == t.session = r.id /\ t.state \in {"GENERATING", "CYCLING"}
       IN Handle(IF framework /\ active /\ r.n < Retries
                 THEN setTimer(t, Timer("retryOrphan", r.id, TRUE, r.n + 1)) ELSE t)

\* waitForVariantAnchorAndRetry: the page shows the element.
AnchorAppears ==
    /\ tab.anchor # None
    /\ Handle(injectVariantsFromSource([tab EXCEPT !.anchor = None],
                                       Read(tab.anchor, FALSE, FALSE, 0), dom))

-----------------------------------------------------------------------------
(***************************************************************************)
(* The event stream.                                                       *)
(***************************************************************************)
\* restoreFromActiveSessions: a wrapper in the DOM is left to resumeSession.
restoreFromActiveSessions(t, active, d) ==
    IF WrappersFound(d) # {} THEN {t}
    ELSE IF t.saved # NoSave THEN {restoreSessionWithoutWrapper(t, t.saved, active, d)}
    ELSE IF Adoptable(t, active) = {} THEN {t}
    ELSE {restoreSessionWithoutWrapper(t, saved, active, d) : saved \in Adoptable(t, active)}

\* Mutation: only the message of its completion completes a generation.
NothingRecovered(t) == t

recoverMissedGenerationCompletion(t) ==
    IF /\ t.session # None /\ t.state = "GENERATING"
       /\ server[t.session] = "generated"
       /\ t.arrived < Count
    THEN setTimer([t EXCEPT !.file = TRUE], Timer("read", t.session, TRUE, 0))
    ELSE t

ActiveSessions == {s \in Sessions : server[s] \in {"requested", "generated", "accepting",
                                                  "discarding"}}

\* The first message of a stream lists the sessions that are active at the helper.
Connect ==
    /\ stream = "connecting"
    /\ stream' = "open"
    /\ \E restored \in restoreFromActiveSessions(tab, ActiveSessions, dom) :
         LET t == recoverMissedGenerationCompletion(restored)
         IN tab' = [t EXCEPT !.state = IF @ = "IDLE" THEN "PICKING" ELSE @]
    /\ UNCHANGED <<bounds, dom, helper, inbox>>

Disconnect ==
    /\ stream = "open"
    /\ faults < MaxFaults
    /\ faults' = faults + 1
    /\ stream' = "connecting"
    /\ inbox' = <<>>
    /\ UNCHANGED <<framework, tab, dom, helper>>

\* After SSE_MAX_RETRIES errors in a row.
handleServerLost ==
    /\ stream = "connecting"
    /\ faults = MaxFaults
    /\ stream' = "closed"
    /\ tab' = saveSession([tab EXCEPT !.observed = None,
                                      !.state = IF tab.session = None THEN "IDLE" ELSE @])
    /\ UNCHANGED <<bounds, dom, helper, inbox>>

maybeCompleteAcceptedSession(t, s, d) ==
    CASE t.pending # s -> t
      [] t.pending = s /\ t.session \notin {None, s} -> [t EXCEPT !.pending = None]
      [] OTHER -> Accepted(t, s, d)

\* The message of a failure at the helper, which names its session.
Errored(t, s) ==
    CASE t.pending = s -> [t EXCEPT !.pending = None, !.awaiting = None, !.state = "CYCLING"]
      [] t.pending # s /\ t.awaiting = s -> [t EXCEPT !.awaiting = None]
      [] t.pending # s /\ t.awaiting # s /\ t.session = s -> cleanup(markSessionHandled(t))
      [] OTHER -> [t EXCEPT !.state = "PICKING",
                            !.saved = IF @ # NoSave /\ @.id = s THEN NoSave ELSE @]

\* done: the agent has written all variants.
Completed(t, s) ==
    LET u == [t EXCEPT !.file = TRUE]
    IN CASE u.arrived = Count ->
              [u EXCEPT !.state = IF @ = "GENERATING" THEN "CYCLING" ELSE @]
         [] u.arrived # Count /\ u.state = "GENERATING" /\ u.session = s ->
              setTimer(u, Timer("read", s, TRUE, 0))
         [] OTHER -> u

Received(t, msg, d) ==
    CASE msg.type = "done" -> Completed(t, msg.id)
      [] msg.type \in {"accept", "agent_done"} ->
            maybeCompleteAcceptedSession(
                [t EXCEPT !.awaiting = IF @ = msg.id THEN None ELSE @], msg.id, d)
      [] msg.type = "discarded" ->
            IF msg.id = t.session THEN cleanup(markSessionHandled(t)) ELSE t
      [] msg.type = "error" -> Errored(t, msg.id)

Receive ==
    /\ stream = "open"
    /\ inbox # <<>>
    /\ inbox' = Tail(inbox)
    /\ tab' = Received(tab, Head(inbox), dom)
    /\ UNCHANGED <<bounds, dom, helper, stream>>

-----------------------------------------------------------------------------
(***************************************************************************)
(* The helper and its agent.                                               *)
(***************************************************************************)
\* The helper tells of session s, if it is heard, and source and phase of s become these.
Tell(type, s, look, phase) ==
    /\ source' = [source EXCEPT ![s] = look]
    /\ server' = [server EXCEPT ![s] = phase]
    /\ inbox' = IF stream = "open" THEN Append(inbox, [type |-> type, id |-> s]) ELSE inbox
    /\ UNCHANGED <<bounds, tab, dom, stream>>

\* The wrapper, then a variant more.
AgentWrites(s) ==
    /\ server[s] = "requested"
    /\ source[s] < Count
    /\ source' = [source EXCEPT ![s] = @ + 1]
    /\ UNCHANGED <<bounds, tab, dom, server, stream, inbox>>

AgentDone(s) ==
    /\ server[s] = "requested"
    /\ source[s] = Count
    /\ Tell("done", s, Count, "generated")

AgentFails(s) ==
    /\ server[s] = "requested"
    /\ Tell("error", s, Absent, "failed")

\* Accepted: the variant is left between markers, which the agent removes later.
AcceptWritten(s) ==
    /\ server[s] = "accepting"
    /\ \E look \in {Carbonized, Clean} : Tell("accept", s, look, "accepted")

AcceptFails(s) ==
    /\ server[s] = "accepting"
    /\ Tell("error", s, source[s], "generated")

CarbonizeDone(s) ==
    /\ server[s] = "accepted"
    /\ source[s] = Carbonized
    /\ Tell("agent_done", s, Clean, "accepted")

DiscardWritten(s) ==
    /\ server[s] = "discarding"
    /\ Tell("discarded", s, Absent, "discarded")

Agent(s) ==
    \/ AgentWrites(s)
    \/ AgentDone(s)
    \/ AgentFails(s)
    \/ AcceptWritten(s)
    \/ AcceptFails(s)
    \/ CarbonizeDone(s)
    \/ DiscardWritten(s)

-----------------------------------------------------------------------------
\* The timers of Recovery are no concern of the bound: they take seconds.
Idle ==
    LET soon == {x \in tab.timers : x.kind \notin Recovery}
    IN Cardinality(tab.posts) + Cardinality(soon) + Cardinality(tab.reads) + Len(inbox) <= MaxBusy

Page == init \/ Reload \/ \E s \in Sessions : HotReload(s)

User ==
    /\ Idle
    /\ \/ Pick
       \/ exitConfigureToPicking
       \/ \E s \in Sessions, annotated \in BOOLEAN : handleGo(s, annotated)
       \/ handleAccept
       \/ handleDiscard

Posts == \E p \in tab.posts : Serve(p) \/ Answer(p) \/ CheckpointAnswer(p)

Timeouts ==
    \/ QueuedCheckpoint
    \/ \E timer \in tab.timers :
         \/ Captured(timer)
         \/ Reread(timer)
         \/ AcceptedLate(timer)
         \/ AcceptedReload(timer)
         \/ CleanupLate(timer)
         \/ CleanupReload(timer)
         \/ DiscardedReload(timer)
         \/ HandledReload(timer)
    \/ \E w \in tab.watched : WatchEnds(w)

Reads == \/ \E r \in tab.reads : ReadAnswer(r) \/ ReadFails(r)
         \/ AnchorAppears

Stream == Connect \/ Disconnect \/ handleServerLost \/ Receive

Next ==
    \/ Page
    \/ User
    \/ Posts
    \/ Timeouts
    \/ Reads
    \/ Stream
    \/ Idle /\ \E s \in Sessions : Agent(s)

Spec == Init /\ [][Next]_vars

-----------------------------------------------------------------------------
(***************************************************************************)
(* Properties.                                                             *)
(***************************************************************************)
\* A session that was accepted, discarded or given up is never the current one again,
\* whatever wrapper, saved state or summary of it a reload or a new event stream finds
\* (markSessionHandled, isSessionHandled).
DecidedStaysDecided == tab.session \notin tab.handled

\* The overlay reloads the page of its own accord only while the user has nothing open in
\* it: neither a configuration nor a session that is current (deferredRecoverySuperseded,
\* watchForDiscardedFrameworkWrapperRemoval), whatever recoveries were put off before.
ReloadSparesNewEdit ==
    [][Loaded /\ tab'.state = "UNLOADED" /\ faults' = faults
          => tab.state # "CONFIGURING" /\ tab.session = None]_vars

\* A framework page does not wait at 0/N for ever: with the event stream open, every message
\* heard, no read of the source put off and the page showing what the source has of a
\* session whose generation is complete, the session is not left generating without variants,
\* though the message of its completion was lost (recoverMissedGenerationCompletion).
CompletionNotMissed ==
    LET s == tab.session
        settled == /\ stream = "open" /\ inbox = <<>>
                   /\ \A timer \in tab.timers : timer.kind \in Recovery \cup {"capture"}
    IN framework /\ settled /\ s # None /\ tab.state = "GENERATING" /\ tab.arrived = 0
          => ~(server[s] = "generated" /\ dom[s] = source[s])
=============================================================================
