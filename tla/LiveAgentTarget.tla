-------------------------- MODULE LiveAgentTarget --------------------------
(***************************************************************************)
(* Agent targets of the live overlay (live-browser.js): an agent asks the  *)
(* helper to have an element picked and Go pressed on it, the helper tells *)
(* every open overlay, and the tabs compete for the helper's lease on the  *)
(* target; the holder presses Go.  A tab that is busy or lacks the element *)
(* says so instead (the roll call).                                        *)
(*                                                                         *)
(* The helper is external: what it answers is what the overlay's code      *)
(* relies on, and it is always reached.  Whether a page has the element    *)
(* may change from one look to the next, so each look is a choice.  A tab  *)
(* is free in the states IDLE, PICKING and CONFIGURING and busy in the     *)
(* others.                                                                 *)
(***************************************************************************)
EXTENDS Integers, FiniteSets

CONSTANTS
    Tabs, Targets,
    MaxMoves          \* bound: Go presses, applies, reloads, and losses of a stream

ASSUME TargetAssumption == MaxMoves \in Nat

NoTab == "no tab"

NoTarget == "no target"

\* A session of an overlay: none, one the user began, or the n-th Go for a target.
NoSession == [target |-> NoTarget, n |-> 0]
UserSession == [target |-> NoTarget, n |-> 1]

VARIABLES
    overlay,          \* of each tab: busy, session, apply (pendingApplyInFlight), on (evtSource),
                      \* open (its stream), news (targets told of), seen (agentTargetsSeen),
                      \* declined (busyDeclinedTargets)
    calls,            \* requests, answers and timers of the tabs
    awaited,          \* of each target at the helper: phase, holder (of the lease), by (the
                      \* Go that answered it), session (of it)
    presses,          \* history: Go presses for each target
    moves

targetVars == <<overlay, calls, awaited, presses, moves>>

Fresh == [busy |-> FALSE, session |-> NoSession, apply |-> FALSE, on |-> TRUE, open |-> FALSE,
          news |-> {}, seen |-> [g \in Targets |-> "none"], declined |-> {}]

TargetInit ==
    /\ overlay = [t \in Tabs |-> Fresh]
    /\ calls = {}
    /\ awaited = [g \in Targets |-> [phase |-> "new", dryRun |-> FALSE, holder |-> NoTab,
                                     by |-> 0, session |-> FALSE]]
    /\ presses = [g \in Targets |-> 0]
    /\ moves = 0

Pending(g) == awaited[g].phase = "pending"

-----------------------------------------------------------------------------
(***************************************************************************)
(* What a handler does: the overlay it leaves, and the calls it makes.     *)
(***************************************************************************)
Then(o, c) == [o |-> o, c |-> c]

Call(g, step) == [target |-> g, step |-> step, n |-> 0]

\* agentTargetBusyReason; NoTarget excepts none.
Busy(o, g) == o.apply \/ o.busy \/ \E h \in Targets \ {g} : o.seen[h] = "acting"

noteAgentTarget(o, g, status) == [o EXCEPT !.seen[g] = status]

declineAgentTargetBusy(o, g) ==
    Then(noteAgentTarget([o EXCEPT !.declined = @ \cup {g}], g, "declined"), {Call(g, "word")})

\* Mutation: a page without the element says so and looks no more.
DeclinedForGood(o, g) ==
    Then(noteAgentTarget(o, g, "declined"), {Call(g, "word")})

reportAgentTargetUnresolvable(o, g) ==
    Then(noteAgentTarget(o, g, "declined"), {Call(g, "report")})

\* The page has the element, the only one of its selector, or not.
resolveAgentTargetElement == BOOLEAN

\* claimAndActOnAgentTarget until its claim; found: the page has the element.
Claiming(o, g, found) ==
    CASE ~o.on -> Then(o, {})
      [] o.on /\ Busy(o, g) -> declineAgentTargetBusy(o, g)
      [] o.on /\ ~Busy(o, g) /\ ~found -> reportAgentTargetUnresolvable(o, g)
      [] OTHER -> Then(o, {Call(g, "claim")})

\* setLiveState's retryDeclinedAgentTargets; has: the targets whose element the page has.
Retrying(o, has) ==
    IF o.declined = {} \/ Busy(o, NoTarget) THEN Then(o, {})
    ELSE LET lacking == o.declined \ has
         IN Then([o EXCEPT !.declined = {},
                           !.seen = [g \in Targets |-> IF o.on /\ g \in lacking THEN "declined"
                                                       ELSE @[g]]],
                 IF o.on THEN {Call(g, "report") : g \in lacking} \cup
                              {Call(g, "claim") : g \in o.declined \cap has}
                 ELSE {})

agentTargetTaken(o, g) == o.seen[g] \in {"acting", "done"}

\* actOnAgentTarget until its scroll.
Acting(o, g, found) ==
    CASE ~o.on -> Then(o, {})
      [] o.on /\ Busy(o, g) -> declineAgentTargetBusy(o, g)
      [] o.on /\ ~Busy(o, g) /\ ~found -> reportAgentTargetUnresolvable(o, g)
      [] o.on /\ ~Busy(o, g) /\ found /\ awaited[g].dryRun ->
            Then(noteAgentTarget(o, g, "done"), {Call(g, "result")})
      [] OTHER -> Then(o, {Call(g, "scroll")})

-----------------------------------------------------------------------------
NoCall == [tab |-> NoTab, call |-> Call(NoTarget, "none")]

\* Tab t does r instead of c.
Did(t, c, r) ==
    /\ overlay' = [overlay EXCEPT ![t] = r.o]
    /\ calls' = (calls \ {c}) \cup {[tab |-> t, call |-> x] : x \in r.c}

Handled(t, c, r) == Did(t, c, r) /\ UNCHANGED <<awaited, presses, moves>>

handleAgentTarget(t, g) ==
    /\ g \in overlay[t].news
    /\ LET o == [overlay[t] EXCEPT !.news = @ \ {g}]
           heard == noteAgentTarget(o, g, "heard")
       IN \E found \in resolveAgentTargetElement :
            Handled(t, NoCall, CASE agentTargetTaken(o, g) -> Then(o, {})
                             [] ~agentTargetTaken(o, g) /\ Busy(o, g) ->
                                   declineAgentTargetBusy(heard, g)
                             [] ~agentTargetTaken(o, g) /\ ~Busy(o, g) /\ ~found ->
                                   reportAgentTargetUnresolvable(heard, g)
                             [] OTHER -> Then(heard, {Call(g, "start")}))

claimAndActOnAgentTarget(t, c) ==
    /\ c.call.step \in {"start", "retry"}
    /\ \E found \in resolveAgentTargetElement :
           Handled(t, c, Claiming(overlay[t], c.call.target, found))

\* The answer to the claim.
ClaimAnswered(t, c) ==
    LET g == c.call.target
        o == overlay[t]
    IN /\ c.call.step \in {"granted", "denied", "over"}
       /\ \E found \in resolveAgentTargetElement :
            Handled(t, c, CASE c.call.step = "granted" ->
                                  Acting(noteAgentTarget(o, g, "acting"), g, found)
                            [] c.call.step = "denied" ->
                                  Then(noteAgentTarget(o, g, "denied"), {Call(g, "retry")})
                            [] c.call.step = "over" -> Then(noteAgentTarget(o, g, "denied"), {}))

watchAgentTargetResolution(t, c) ==
    LET g == c.call.target
        o == overlay[t]
    IN /\ c.call.step = "watch"
       /\ \E found \in resolveAgentTargetElement :
            Handled(t, c, IF ~o.on \/ agentTargetTaken(o, g) THEN Then(o, {})
                          ELSE Claiming(o, g, found))

Scrolled(t, c) ==
    /\ c.call.step = "scroll"
    /\ Handled(t, c, Then(overlay[t], IF overlay[t].on THEN {Call(c.call.target, "renew")} ELSE {}))

\* The lease is renewed: Go, whatever the tab does by now.
Renewed(t, c) ==
    LET g == c.call.target
        n == presses[g] + 1
    IN /\ c.call.step = "renewed"
       /\ \E has \in SUBSET overlay[t].declined :
            LET r == Retrying([overlay[t] EXCEPT !.busy = FALSE], has)
                o == noteAgentTarget(r.o, g, "done")
                made == [target |-> g, n |-> n]
            IN IF o.apply
               THEN /\ Did(t, c, Then(o, r.c \cup {Call(g, "failure")}))
                    /\ UNCHANGED presses
               ELSE /\ Did(t, c, Then([o EXCEPT !.busy = TRUE, !.session = made],
                                      r.c \cup {[target |-> g, step |-> "result", n |-> n],
                                                [target |-> g, step |-> "capture", n |-> n]}))
                    /\ presses' = [presses EXCEPT ![g] = n]
    /\ UNCHANGED <<awaited, moves>>

NotRenewed(t, c) ==
    /\ c.call.step = "lapsed"
    /\ Handled(t, c, Then(noteAgentTarget(overlay[t], c.call.target, "done"), {}))

\* captureAndEmit sends the generate event, for whatever session it was begun.
Emitted(t, c) ==
    /\ c.call.step = "capture"
    /\ Handled(t, c, Then(overlay[t], {[c.call EXCEPT !.step = "generate"]}))

\* Of the session the call was made for.
Freed(o) == [o EXCEPT !.busy = FALSE, !.session = NoSession]

\* Mutation: a refused Go keeps its session.
KeepSupersededGo(o, c) == o

abandonSupersededGo(o, c) ==
    IF o.session = [target |-> c.call.target, n |-> c.call.n] THEN Freed(o) ELSE o

GoRefused(t, c) ==
    /\ c.call.step = "superseded"
    /\ LET o == abandonSupersededGo(overlay[t], c)
       IN \E has \in SUBSET o.declined :
            Handled(t, c, IF o = overlay[t] THEN Then(o, {}) ELSE Retrying(o, has))

-----------------------------------------------------------------------------
(***************************************************************************)
(* What else happens to a tab.                                             *)
(***************************************************************************)
Move == moves < MaxMoves /\ moves' = moves + 1

\* The user picks an element: another call of setLiveState.
UserPicks(t) ==
    /\ ~overlay[t].busy /\ ~overlay[t].apply
    /\ overlay[t].declined # {}
    /\ \E has \in SUBSET overlay[t].declined : Handled(t, NoCall, Retrying(overlay[t], has))

UserGoes(t) ==
    /\ Move
    /\ ~overlay[t].busy /\ ~overlay[t].apply
    /\ Did(t, NoCall, Then([overlay[t] EXCEPT !.busy = TRUE, !.session = UserSession], {}))
    /\ UNCHANGED <<awaited, presses>>

SessionEnds(t) ==
    /\ overlay[t].busy
    /\ \E has \in SUBSET overlay[t].declined : Handled(t, NoCall, Retrying(Freed(overlay[t]), has))

\* setPendingApplyLoading, which is no call of setLiveState.
ApplyStarts(t) ==
    /\ Move
    /\ ~overlay[t].busy /\ ~overlay[t].apply
    /\ Did(t, NoCall, Then([overlay[t] EXCEPT !.apply = TRUE], {}))
    /\ UNCHANGED <<awaited, presses>>

ApplyStops(t) ==
    /\ overlay[t].apply
    /\ Handled(t, NoCall, Then([overlay[t] EXCEPT !.apply = FALSE], {}))

\* A session the helper does not know is given up by the page that finds it in storage.
TabReloads(t) ==
    /\ Move
    /\ LET s == overlay[t].session
           kept == \/ s = UserSession
                   \/ \E g \in Targets : s.target = g /\ awaited[g].session /\ awaited[g].by = s.n
       IN overlay' = [overlay EXCEPT ![t] = [Fresh EXCEPT !.busy = kept,
                                                          !.session = IF kept THEN s ELSE NoSession]]
    /\ calls' = {c \in calls : c.tab # t}
    /\ awaited' = [g \in Targets |-> [awaited[g] EXCEPT !.holder = IF @ = t THEN "gone" ELSE @]]
    /\ UNCHANGED presses

StreamDrops(t) ==
    /\ Move
    /\ overlay[t].open
    /\ overlay' = [overlay EXCEPT ![t].open = FALSE, ![t].news = {}]
    /\ UNCHANGED <<calls, awaited, presses>>

\* The helper replays the pending targets to every connection that opens.
StreamOpens(t) ==
    /\ overlay[t].on /\ ~overlay[t].open
    /\ overlay' = [overlay EXCEPT ![t].open = TRUE, ![t].news = {g \in Targets : Pending(g)}]
    /\ UNCHANGED <<calls, awaited, presses, moves>>

\* handleServerLost, which ends in setLiveState.
GivesUp(t) ==
    /\ overlay[t].on /\ ~overlay[t].open
    /\ moves = MaxMoves
    /\ Handled(t, NoCall, Retrying([overlay[t] EXCEPT !.on = FALSE], {}))

Tab(t) ==
    \/ \E g \in Targets : handleAgentTarget(t, g)
    \/ \E c \in calls :
         /\ c.tab = t
         /\ \/ claimAndActOnAgentTarget(t, c)
            \/ ClaimAnswered(t, c)
            \/ watchAgentTargetResolution(t, c)
            \/ Scrolled(t, c)
            \/ Renewed(t, c)
            \/ NotRenewed(t, c)
            \/ Emitted(t, c)
            \/ GoRefused(t, c)
    \/ UserPicks(t)
    \/ UserGoes(t)
    \/ SessionEnds(t)
    \/ ApplyStarts(t)
    \/ ApplyStops(t)
    \/ TabReloads(t)
    \/ StreamDrops(t)
    \/ StreamOpens(t)
    \/ GivesUp(t)

-----------------------------------------------------------------------------
(***************************************************************************)
(* The helper.                                                             *)
(***************************************************************************)
AgentAsks(g) ==
    /\ awaited[g].phase = "new"
    /\ \E dryRun \in BOOLEAN :
         awaited' = [awaited EXCEPT ![g].phase = "pending", ![g].dryRun = dryRun]
    /\ overlay' = [t \in Tabs |-> [overlay[t] EXCEPT !.news = IF overlay[t].open THEN @ \cup {g}
                                                              ELSE @]]
    /\ UNCHANGED <<calls, presses, moves>>

Answered(c, step) ==
    calls' = (calls \ {c}) \cup (IF step = "none" THEN {} ELSE {[c EXCEPT !.call.step = step]})

Helper(g, w) ==
    /\ awaited' = [awaited EXCEPT ![g] = w]
    /\ UNCHANGED <<overlay, presses, moves>>

ClaimServed(c) ==
    LET g == c.call.target
        w == awaited[g]
        granted == Pending(g) /\ w.holder \in {NoTab, c.tab}
    IN /\ c.call.step \in {"claim", "renew"}
       /\ Helper(g, IF granted THEN [w EXCEPT !.holder = c.tab] ELSE w)
       /\ Answered(c, IF c.call.step = "claim"
                      THEN IF granted THEN "granted" ELSE IF Pending(g) THEN "denied" ELSE "over"
                      ELSE IF granted THEN "renewed" ELSE "lapsed")

\* A report hands the lease back.
WordServed(c) ==
    LET g == c.call.target
        w == awaited[g]
    IN /\ c.call.step \in {"word", "report"}
       /\ Helper(g, [w EXCEPT !.holder = IF @ = c.tab THEN NoTab ELSE @])
       /\ Answered(c, IF c.call.step = "report" /\ Pending(g) THEN "watch" ELSE "none")

ResultServed(c) ==
    LET g == c.call.target
    IN /\ c.call.step \in {"result", "failure"}
       /\ Helper(g, IF Pending(g) THEN [awaited[g] EXCEPT !.phase = "served", !.by = c.call.n]
                    ELSE awaited[g])
       /\ Answered(c, "none")

\* An agent target that was answered already opens no other session.
GenerateServed(c) ==
    LET g == c.call.target
        opens == Pending(g) \/ awaited[g].by = c.call.n
    IN /\ c.call.step = "generate"
       /\ Helper(g, IF opens THEN [awaited[g] EXCEPT !.phase = "served", !.by = c.call.n,
                                                     !.session = TRUE]
                    ELSE awaited[g])
       /\ Answered(c, IF opens THEN "none" ELSE "superseded")

LeaseLapses(g) ==
    /\ awaited[g].holder # NoTab
    /\ Helper(g, [awaited[g] EXCEPT !.holder = NoTab])
    /\ UNCHANGED calls

\* Every open overlay has reported that it cannot serve, or the request times out.
RequestEnds(g) ==
    /\ Pending(g)
    /\ Helper(g, [awaited[g] EXCEPT !.phase = "refused"])
    /\ UNCHANGED calls

HelperServes ==
    \/ \E g \in Targets : AgentAsks(g) \/ LeaseLapses(g) \/ RequestEnds(g)
    \/ \E c \in calls : ClaimServed(c) \/ WordServed(c) \/ ResultServed(c) \/ GenerateServed(c)

TargetNext == (\E t \in Tabs : Tab(t)) \/ HelperServes

TargetSpec == TargetInit /\ [][TargetNext]_targetVars

-----------------------------------------------------------------------------
\* One request of an agent ends in one session: two tabs that pressed Go for the same
\* target, because a lease lapsed or a page reloaded, do not both keep a session of it once
\* the helper has answered their generate events (abandonSupersededGo).
OneSessionServes ==
    LET Settled(t) == \A c \in calls :
                        c.tab = t => c.call.step \notin {"capture", "generate", "superseded"}
    IN \A t1, t2 \in Tabs :
         /\ t1 # t2 /\ Settled(t1) /\ Settled(t2)
         /\ overlay[t1].session.target = overlay[t2].session.target
         => overlay[t1].session.target = NoTarget

\* A free tab goes on trying: as long as the helper awaits a target that the tab has heard
\* of and did not take itself, something of it is under way in the tab (a claim, a retry, a
\* look for the element), or the tab is to claim it at its next change of state
\* (claimAndActOnAgentTarget, retryDeclinedAgentTargets, watchAgentTargetResolution).
FreeTabKeepsTrying ==
    \A t \in Tabs, g \in Targets :
        LET o == overlay[t]
        IN Pending(g) /\ o.on /\ o.seen[g] \in {"heard", "denied", "declined"} /\ ~Busy(o, NoTarget)
           => \/ \E c \in calls : c.tab = t /\ c.call.target = g
              \/ g \in o.declined
=============================================================================
