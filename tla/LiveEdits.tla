----------------------------- MODULE LiveEdits -----------------------------
(***************************************************************************)
(* Copy edits of the live overlay (live-browser.js): the user edits texts  *)
(* of the picked element in place, saves them, which stages them at the    *)
(* helper, and applies what is staged to the source or discards it.  An    *)
(* apply runs at the helper and is told of by the event stream; it may     *)
(* need a decision of the user.  While one runs the overlay is locked.     *)
(*                                                                         *)
(* An element has one text here, and what the user may type is one text    *)
(* more than the source has; which texts a save refuses is left out, and   *)
(* so is the time after which storage forgets an apply, 15 minutes.        *)
(***************************************************************************)
EXTENDS Integers, Sequences, FiniteSets

CONSTANTS
    Elements,         \* of the page, with a text
    MaxMessages,      \* bound: messages of the helper on their way
    MaxSaves,         \* bound: saves
    MaxRequests,      \* bound: requests on their way when the user clicks
    MaxLosses         \* bound: losses of the event stream

ASSUME EditsAssumption == MaxMessages \in Nat /\ MaxSaves \in Nat /\ MaxLosses \in Nat
                         /\ MaxRequests \in Nat

Texts == {"old", "new"}

NoText == "none"

NoElement == "nothing"

VARIABLES
    page,      \* text of each element: shown on the page, in the source, staged at the helper
    edit,      \* mode, element, its text at the start (row.text), the draft
    dock,      \* count, inFlight (pendingApplyInFlight), its buttons: keep fixing and
               \* rollback are shown (asking), apply is disabled, trash is shown
    stored,    \* phase of the apply in sessionStorage
    requests,  \* of the overlay, on their way or answered
    apply,     \* the helper: "idle", "applying", "decision", "repairing"
    news,      \* messages of the helper on their way
    past       \* saves, losses; history: asked, missed

editVars == <<page, edit, dock, stored, requests, apply, news, past>>

NoEdit == [orig |-> NoText, text |-> NoText]

Staged(p) == {e \in Elements : p.staged[e] # NoEdit}

-----------------------------------------------------------------------------
(***************************************************************************)
(* The dock with the number of staged edits.  A handler is an operator     *)
(* from the dock with what is stored to what it makes of them.             *)
(***************************************************************************)
Dock == [count |-> dock.count, inFlight |-> dock.inFlight, asking |-> dock.asking,
         disabled |-> dock.disabled, trash |-> dock.trash, stored |-> stored]

SetDock(d) ==
    /\ dock' = [count |-> d.count, inFlight |-> d.inFlight, asking |-> d.asking,
                disabled |-> d.disabled, trash |-> d.trash]
    /\ stored' = d.stored

HiddenDock == [count |-> 0, inFlight |-> FALSE, asking |-> FALSE, disabled |-> FALSE,
               trash |-> FALSE]

hidePendingApplyDock(d) ==
    [count |-> 0, inFlight |-> FALSE, asking |-> FALSE, disabled |-> FALSE, trash |-> FALSE,
     stored |-> NoText]

\* storeManualApplyState: phase is what it is given, or NoText.
storeManualApplyState(d, count, phase) ==
    IF d.stored = NoText /\ count = 0 THEN d
    ELSE [d EXCEPT !.stored = IF phase # NoText THEN phase
                              ELSE IF @ # NoText THEN @ ELSE "applying"]

setPendingApplyLoading(d, loading) ==
    IF loading
    THEN storeManualApplyState(
             [d EXCEPT !.inFlight = TRUE, !.disabled = TRUE, !.asking = FALSE, !.trash = TRUE],
             d.count, NoText)
    ELSE [d EXCEPT !.inFlight = FALSE, !.disabled = FALSE, !.stored = NoText]

updatePendingCounter(d, count) ==
    IF count = 0 THEN hidePendingApplyDock(d)
    ELSE LET counted == [d EXCEPT !.count = count, !.trash = TRUE]
         IN IF d.inFlight \/ d.stored # NoText THEN setPendingApplyLoading(counted, TRUE)
            ELSE counted

updateManualApplyRepairState(d, phase) ==
    IF d.count = 0 /\ d.stored = NoText THEN d
    ELSE setPendingApplyLoading([d EXCEPT !.stored = phase], TRUE)

showManualApplyDecision(d, remaining) ==
    storeManualApplyState([d EXCEPT !.inFlight = FALSE, !.asking = TRUE, !.disabled = TRUE,
                                    !.trash = FALSE],
                          IF d.count > 0 THEN d.count ELSE remaining, "repair-decision")

\* Mutation: what was in flight is forgotten only when nothing is staged any more.
ApplyDoneOnlyCounts(d, count) == updatePendingCounter(d, count)

ManualApplyDone(d, count) == updatePendingCounter(setPendingApplyLoading(d, FALSE), count)

Request(kind) == [kind |-> kind, step |-> "sent"]

Stash(e, orig, text) == [kind |-> "stash", step |-> "sent", e |-> e, orig |-> orig, text |-> text]

fetchPendingCount == Request("count")

-----------------------------------------------------------------------------
(***************************************************************************)
(* Editing in place.                                                       *)
(***************************************************************************)
Idle0 == [mode |-> "PICKING", e |-> NoElement, orig |-> NoText, draft |-> NoText]

EditsInit ==
    /\ page = [shown |-> [e \in Elements |-> "old"], source |-> [e \in Elements |-> "old"],
               staged |-> [e \in Elements |-> NoEdit]]
    /\ edit = Idle0
    /\ dock = HiddenDock
    /\ stored = NoText
    /\ requests = {fetchPendingCount}
    /\ apply = "idle"
    /\ news = <<>>
    /\ past = [saves |-> 0, losses |-> 0, asked |-> FALSE, missed |-> FALSE]

\* refreshLiveControlsForManualApply: an apply locks the controls, and the handlers look too.
Unlocked == ~dock.inFlight

\* The text of the row that an element has.
collectEditableTextRows(e) == page.shown[e]

\* disableInlineEdit.
NoRows(e) == [e EXCEPT !.orig = NoText, !.draft = NoText]

Edited(e) ==
    /\ edit' = e
    /\ UNCHANGED <<dock, stored, requests, apply, news, past>>

PickText(e) ==
    /\ Unlocked
    /\ edit.mode = "PICKING"
    /\ Edited([edit EXCEPT !.mode = "CONFIGURING", !.e = e])
    /\ UNCHANGED page

LeaveText ==
    /\ Unlocked
    /\ edit.mode = "CONFIGURING"
    /\ Edited([NoRows(edit) EXCEPT !.mode = "PICKING"])
    /\ UNCHANGED page

\* enterEditingMode, enableInlineEdit.
enterEditingMode ==
    /\ Unlocked
    /\ edit.mode = "CONFIGURING"
    /\ Edited([edit EXCEPT !.mode = "EDITING", !.orig = collectEditableTextRows(edit.e), !.draft = NoText])
    /\ UNCHANGED page

onInlineInput(text) ==
    /\ edit.mode = "EDITING"
    /\ edit.orig # NoText
    /\ text # page.shown[edit.e]
    /\ Edited([edit EXCEPT !.draft = text])
    /\ page' = [page EXCEPT !.shown[edit.e] = text]

\* Escape while the text has the focus: it is the original again and has no draft.
UndoText ==
    /\ edit.mode = "EDITING"
    /\ edit.draft # NoText
    /\ Edited([edit EXCEPT !.draft = NoText])
    /\ page' = [page EXCEPT !.shown[edit.e] = edit.orig]

restoreInlineEditDrafts ==
    page' = IF edit.draft = NoText THEN page ELSE [page EXCEPT !.shown[edit.e] = edit.orig]

cancelEditing ==
    /\ edit.mode = "EDITING"
    /\ restoreInlineEditDrafts
    /\ Edited([NoRows(edit) EXCEPT !.mode = "CONFIGURING"])

cancelEditingToPicking ==
    /\ Unlocked
    /\ edit.mode = "EDITING"
    /\ restoreInlineEditDrafts
    /\ Edited([NoRows(edit) EXCEPT !.mode = "PICKING"])

\* applyEditing until its fetch: the text may be edited, or left, while the helper stages it.
applyEditing ==
    /\ Unlocked
    /\ edit.mode = "EDITING"
    /\ edit.draft \notin {NoText, edit.orig}
    /\ past.saves < MaxSaves
    /\ Cardinality(requests) < MaxRequests
    /\ past' = [past EXCEPT !.saves = @ + 1]
    /\ requests' = requests \cup {Stash(edit.e, edit.orig, edit.draft)}
    /\ UNCHANGED <<page, edit, dock, stored, apply, news>>

-----------------------------------------------------------------------------
(***************************************************************************)
(* The buttons of the dock.                                                *)
(***************************************************************************)
Click(d, request) ==
    /\ Cardinality(requests) < MaxRequests
    /\ SetDock(d)
    /\ requests' = requests \cup {request}
    /\ UNCHANGED <<page, edit, apply, news, past>>

onPendingPillClick ==
    /\ dock.count > 0 /\ Unlocked /\ ~dock.disabled
    /\ Click(setPendingApplyLoading([Dock EXCEPT !.stored = "applying"], TRUE), Request("commit"))

onPendingTrashClick ==
    /\ dock.count > 0 /\ Unlocked /\ dock.trash
    /\ Click(Dock, Request("discard"))

onPendingKeepFixingClick ==
    /\ dock.asking
    /\ dock.count > 0 \/ stored # NoText
    /\ Click(updateManualApplyRepairState(Dock, "repairing"), Request("repair"))

onPendingRollbackClick ==
    /\ dock.asking
    /\ Click(Dock, Request("rollback"))

\* A discard restores the texts that still are what was staged.
restoreDiscardedManualEdits(entries) ==
    [page EXCEPT !.shown = [e \in Elements |->
        IF @[e] = entries[e].text THEN entries[e].orig ELSE @[e]]]

\* The continuation of each of them.
Continue(r) ==
    /\ r \in requests /\ r.step \in {"ok", "failed"}
    /\ requests' = requests \ {r}
    /\ LET ok == r.step = "ok"
       IN /\ SetDock(CASE r.kind \in {"stash", "count", "discard"} /\ ok ->
                            updatePendingCounter(Dock, r.count)
                       [] r.kind = "rollback" /\ ok ->
                            updatePendingCounter([Dock EXCEPT !.stored = NoText], r.count)
                       [] r.kind = "commit" /\ ~ok ->
                            IF dock.count > 0 THEN setPendingApplyLoading(Dock, FALSE)
                            ELSE hidePendingApplyDock(Dock)
                       [] r.kind = "repair" /\ ~ok ->
                            IF dock.count > 0 \/ stored # NoText
                            THEN showManualApplyDecision(Dock, 0) ELSE Dock
                       [] r.kind = "repair" /\ ok -> [Dock EXCEPT !.asking = FALSE, !.trash = TRUE]
                       [] OTHER -> Dock)
          /\ edit' = IF r.kind = "stash" /\ ok
                     THEN [NoRows(edit) EXCEPT !.mode = "CONFIGURING"] ELSE edit
          /\ page' = IF r.kind = "discard" /\ ok
                     THEN restoreDiscardedManualEdits(r.entries) ELSE page
    /\ UNCHANGED <<apply, news, past>>

-----------------------------------------------------------------------------
(***************************************************************************)
(* The page is loaded anew, which a commit survives (keepalive); a loss of *)
(* the event stream.                                                       *)
(***************************************************************************)
Commits == {r \in requests : r.kind \in {"commit", "repair"}}

EditsReload ==
    /\ past.losses < MaxLosses
    /\ past' = [past EXCEPT !.losses = @ + 1,
                            !.missed = @ \/ news # <<>> \/ Commits # {}]
    /\ page' = [page EXCEPT !.shown = page.source]
    /\ edit' = Idle0
    /\ dock' = HiddenDock
    /\ requests' = {fetchPendingCount} \cup
                    {[kind |-> r.kind, step |-> "unheard"] :
                        r \in {r \in Commits : r.step \in {"sent", "unheard"}}}
    /\ news' = <<>>
    /\ UNCHANGED <<stored, apply>>

EditsLost ==
    /\ past.losses < MaxLosses
    /\ news # <<>>
    /\ past' = [past EXCEPT !.losses = @ + 1, !.missed = TRUE]
    /\ news' = <<>>
    /\ UNCHANGED <<page, edit, dock, stored, requests, apply>>

-----------------------------------------------------------------------------
(***************************************************************************)
(* handleManualEditActivity.                                               *)
(***************************************************************************)
Heard(msg) ==
    CASE msg.type = "stashed" -> updatePendingCounter(Dock, msg.count)
      [] msg.type = "started" ->
            setPendingApplyLoading(
                [IF msg.count > 0 THEN updatePendingCounter(Dock, msg.count) ELSE Dock
                    EXCEPT !.stored = IF msg.repairOnly THEN "repairing" ELSE "applying"], TRUE)
      [] msg.type = "chunk" -> IF dock.inFlight THEN setPendingApplyLoading(Dock, TRUE) ELSE Dock
      [] msg.type = "repair" -> updateManualApplyRepairState(Dock, "repairing")
      [] msg.type = "decision" -> showManualApplyDecision(Dock, msg.count)
      [] msg.type = "rollback_done" -> [Dock EXCEPT !.stored = NoText]
      [] msg.type = "done" -> ManualApplyDone(Dock, msg.count)
      [] msg.type = "failed" -> setPendingApplyLoading(Dock, FALSE)
      [] msg.type = "discarded" -> Dock

handleManualEditActivity ==
    /\ news # <<>>
    /\ news' = Tail(news)
    /\ SetDock(Heard(Head(news)))
    /\ requests' = IF Head(news).type \in {"rollback_done", "failed", "discarded"}
                   THEN requests \cup {fetchPendingCount} ELSE requests
    /\ past' = [past EXCEPT !.asked = @ \/ Head(news).type = "decision"]
    /\ UNCHANGED <<page, edit, apply>>

-----------------------------------------------------------------------------
(***************************************************************************)
(* The helper.                                                             *)
(***************************************************************************)
Message(type, p, repairOnly) ==
    [type |-> type, count |-> Cardinality(Staged(p)), repairOnly |-> repairOnly]

Announce(type, p, repairOnly) ==
    /\ Len(news) < MaxMessages
    /\ page' = p
    /\ news' = Append(news, Message(type, p, repairOnly))

Reply(r, p) ==
    requests' = (requests \ {r}) \cup
        IF r.step = "unheard" THEN {}
        ELSE {[kind |-> r.kind, step |-> "ok", count |-> Cardinality(Staged(p)),
               entries |-> IF r.kind = "discard" THEN page.staged ELSE {}]}

Refuse(r) ==
    /\ requests' = (requests \ {r}) \cup
                    IF r.step = "unheard" THEN {} ELSE {[kind |-> r.kind, step |-> "failed"]}
    /\ UNCHANGED <<page, apply, news>>

\* Another edit of the same text is staged in place of the first.
Stashed(r) ==
    [page EXCEPT !.staged[r.e] =
        [orig |-> IF @ = NoEdit THEN r.orig ELSE @.orig, text |-> r.text]]

Cleared(p, done) == [p EXCEPT !.staged = [e \in Elements |-> IF e \in done THEN NoEdit ELSE @[e]]]

EditsServe(r) ==
    /\ r \in requests /\ r.step \in {"sent", "unheard"}
    /\ UNCHANGED <<edit, dock, stored, past>>
    /\ \/ Refuse(r)
       \/ /\ r.kind = "stash"
          /\ Announce("stashed", Stashed(r), FALSE)
          /\ Reply(r, Stashed(r))
          /\ UNCHANGED apply
       \/ /\ r.kind = "count"
          /\ Reply(r, page)
          /\ UNCHANGED <<page, apply, news>>
       \/ /\ r.kind = "discard"
          /\ Announce("discarded", Cleared(page, Elements), FALSE)
          /\ Reply(r, Cleared(page, Elements))
          /\ UNCHANGED apply
       \/ /\ r.kind = "commit"
          /\ apply = "idle"
          /\ Staged(page) # {}
          /\ apply' = "applying"
          /\ Announce("started", page, FALSE)
          /\ Reply(r, page)
       \/ /\ r.kind = "repair"
          /\ apply = "decision"
          /\ apply' = "repairing"
          /\ Announce("started", page, TRUE)
          /\ Reply(r, page)
       \/ /\ r.kind = "rollback"
          /\ apply = "decision"
          /\ apply' = "idle"
          /\ Announce("rollback_done", page, FALSE)
          /\ Reply(r, page)

Written(done) ==
    Cleared([page EXCEPT !.source = [e \in Elements |-> IF e \in done THEN page.staged[e].text
                                                       ELSE @[e]]], done)

ApplyGoesOn ==
    /\ apply \in {"applying", "repairing"}
    /\ \E type \in {"chunk", "repair"} : Announce(type, page, FALSE)
    /\ UNCHANGED <<edit, dock, stored, requests, apply, past>>

\* All that is staged is applied, or a part, or nothing; or the user has to decide.
ApplyEnds ==
    /\ apply \in {"applying", "repairing"}
    /\ \/ /\ \E done \in SUBSET Staged(page) : Announce("done", Written(done), FALSE)
          /\ apply' = "idle"
       \/ Announce("failed", page, FALSE) /\ apply' = "idle"
       \/ Announce("decision", page, FALSE) /\ apply' = "decision"
    /\ UNCHANGED <<edit, dock, stored, requests, past>>

-----------------------------------------------------------------------------
EditsNext ==
    \/ \E e \in Elements : PickText(e)
    \/ LeaveText
    \/ enterEditingMode
    \/ \E text \in Texts : onInlineInput(text)
    \/ UndoText
    \/ cancelEditing
    \/ cancelEditingToPicking
    \/ applyEditing
    \/ onPendingPillClick
    \/ onPendingTrashClick
    \/ onPendingKeepFixingClick
    \/ onPendingRollbackClick
    \/ \E r \in requests : Continue(r) \/ EditsServe(r)
    \/ EditsReload
    \/ EditsLost
    \/ handleManualEditActivity
    \/ ApplyGoesOn
    \/ ApplyEnds

EditsSpec == EditsInit /\ [][EditsNext]_editVars

-----------------------------------------------------------------------------
\* The picker is not left frozen by an apply that ended, whether all edits were written, a
\* part or none: with nothing on its way and the helper idle it is not locked, if every
\* message and every answer to a commit was heard and no decision was asked for
\* (handleManualEditActivity, updatePendingCounter).
FrozenOnlyWhileApplying ==
    dock.inFlight /\ news = <<>> /\ requests = {} /\ apply = "idle" => past.asked \/ past.missed
=============================================================================
