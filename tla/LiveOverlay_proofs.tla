------------------------- MODULE LiveOverlay_proofs -------------------------
(***************************************************************************)
(* Proofs about the parts of the live overlay, for any number of messages, *)
(* texts, tabs, requests and pages, and about the overlay as a whole;      *)
(* those about the session are in LiveSession_proofs.                      *)
(***************************************************************************)
EXTENDS LiveOverlay, LiveSession_proofs, TLAPS, FiniteSetTheorems, SequenceTheorems

-----------------------------------------------------------------------------
(***************************************************************************)
(* The steer chat.                                                         *)
(***************************************************************************)
Chats == [locked : BOOLEAN, id : Nat, timer : Nat, pending : Nat, text : BOOLEAN]

Pasts == [sent : Nat, done : SUBSET Nat, back : SUBSET Nat, late : BOOLEAN]

SteerTypes ==
    /\ chat \in Chats
    /\ \A p \in sends : p.n \in Nat
    /\ \A msg \in answers : msg.n \in Nat
    /\ ends \in Pasts

SteerInv == SteerTypes /\ MessageNotLost

-----------------------------------------------------------------------------
\* The texts given back are kept.
LEMMA GivenBackFacts ==
    ASSUME ends \in Pasts, NEW n \in Nat
    PROVE  /\ GivenBack(n) \in Pasts
           /\ GivenBack(n).sent = ends.sent /\ GivenBack(n).done = ends.done
           /\ GivenBack(n).late = ends.late
           /\ ends.back \subseteq GivenBack(n).back
           /\ n # NoSteer => n \in GivenBack(n).back
  BY DEF GivenBack, Pasts

LEMMA UnlockType ==
    ASSUME NEW error \in BOOLEAN, NEW back \in Nat
    PROVE  unlockSteerChat(error, back) \in Chats /\ ~unlockSteerChat(error, back).locked
  BY DEF unlockSteerChat, Chats, NoSteer

-----------------------------------------------------------------------------
\* A step that leaves what the chat waits for, and the ends, as they are.
LEMMA SteadyChat ==
    ASSUME SteerInv, chat' \in Chats, UNCHANGED ends,
           chat'.locked = chat.locked, chat'.id = chat.id,
           chat'.pending = chat.pending, chat'.timer = chat.timer
    PROVE  MessageNotLost'
  BY DEF SteerInv, MessageNotLost

\* A message more, whose text the chat waits for.
LEMMA SubmitKeeps ==
    ASSUME SteerInv, submitSteerMessage
    PROVE  SteerInv'
  <1>1. CASE chat.text /\ ~chat.locked
    <2> DEFINE n == ends.sent + 1
    <2>1. /\ chat' = [chat EXCEPT !.locked = TRUE, !.id = n, !.pending = n, !.timer = n]
          /\ sends' = sends \cup {[n |-> n, step |-> "sent"]}
          /\ ends' = [ends EXCEPT !.sent = n]
          /\ answers' = answers
      BY <1>1 DEF submitSteerMessage, lockSteerChat
    <2>2. n \in Nat /\ 1 .. n = 1 .. ends.sent \cup {n}
      BY DEF SteerInv, SteerTypes, Pasts
    <2>3. /\ ends' \in Pasts /\ ends'.sent = n
          /\ ends'.done = ends.done /\ ends'.back = ends.back /\ ends'.late = ends.late
      BY <2>1, <2>2 DEF SteerInv, SteerTypes, Pasts
    <2>4. /\ chat' \in Chats
          /\ chat'.locked /\ chat'.id = n /\ chat'.pending = n /\ chat'.timer = n
      BY <2>1, <2>2 DEF SteerInv, SteerTypes, Chats
    <2>5. SteerTypes'
      BY <2>1, <2>2, <2>3, <2>4 DEF SteerInv, SteerTypes
    <2>6. ASSUME NEW m \in 1 .. ends.sent
          PROVE  m \in ends.done \cup ends.back \/ ends.late
      BY <1>1 DEF SteerInv, MessageNotLost
    <2>7. MessageNotLost'
      <3> SUFFICES ASSUME NEW m \in 1 .. n
                   PROVE  \/ chat'.locked /\ chat'.id = m /\ chat'.pending = m /\ chat'.timer = m
                          \/ m \in ends'.done \cup ends'.back
                          \/ ends'.late
        BY <2>3 DEF MessageNotLost
      <3>1. CASE m = n
        BY <3>1, <2>4
      <3>2. CASE m # n
        BY <3>2, <2>2, <2>3, <2>6
      <3> QED BY <3>1, <3>2
    <2> QED BY <2>5, <2>7 DEF SteerInv
  <1>2. CASE ~(chat.text /\ ~chat.locked)
    BY <1>2 DEF submitSteerMessage, SteerInv, SteerTypes, MessageNotLost
  <1> QED BY <1>1, <1>2

\* The failed post of message p.n gives its text back; if another message locks the chat
\* it is known to come late.
LEMMA PostKeeps ==
    ASSUME SteerInv, NEW p \in sends, PostEnds(p)
    PROVE  SteerInv'
  <1>1. CASE p.step = "ok"
    BY <1>1 DEF PostEnds, SteerInv, SteerTypes, MessageNotLost
  <1>2. CASE p.step # "ok"
    <2> DEFINE late == ends.late \/ (chat.locked /\ chat.id # p.n)
               given == GivenBack(p.n)
    <2>1. /\ chat' = unlockSteerChat(TRUE, p.n)
          /\ ends' = [given EXCEPT !.late = @ \/ (chat.locked /\ chat.id # p.n)]
          /\ sends' \subseteq sends /\ answers' = answers
      BY <1>2 DEF PostEnds
    <2>2. /\ given \in Pasts /\ given.sent = ends.sent /\ given.done = ends.done
          /\ given.late = ends.late /\ ends.back \subseteq given.back
          /\ p.n # NoSteer => p.n \in given.back
      BY GivenBackFacts DEF SteerInv, SteerTypes
    <2>3. /\ ends' \in Pasts /\ ends'.sent = ends.sent /\ ends'.done = ends.done
          /\ ends'.late = late /\ ends'.back = given.back
      <3> HIDE DEF given
      <3>1. chat.locked \in BOOLEAN
        BY DEF SteerInv, SteerTypes, Chats
      <3> QED BY <3>1, <2>1, <2>2 DEF Pasts
    <2>4. SteerTypes'
      BY <2>1, <2>3, UnlockType DEF SteerInv, SteerTypes
    <2>5. MessageNotLost'
      <3> HIDE DEF given
      <3> SUFFICES ASSUME NEW m \in 1 .. ends.sent
                   PROVE  m \in ends'.done \cup ends'.back \/ ends'.late
        BY <2>3 DEF MessageNotLost
      <3>1. CASE m \in ends.done \cup ends.back \/ ends.late
        BY <3>1, <2>2, <2>3
      <3>2. CASE chat.locked /\ chat.id = m
        <4>1. CASE p.n = m
          <5>1. p.n # NoSteer
            BY <4>1 DEF NoSteer
          <5> QED BY <4>1, <5>1, <2>2, <2>3
        <4>2. CASE p.n # m
          BY <3>2, <4>2, <2>3
        <4> QED BY <4>1, <4>2
      <3> QED BY <3>1, <3>2 DEF SteerInv, MessageNotLost
    <2> QED BY <2>4, <2>5 DEF SteerInv
  <1> QED BY <1>1, <1>2

\* The two minutes of the message that locks the chat give back the text that is pending,
\* which is its own.
LEMMA TimeoutKeeps ==
    ASSUME SteerInv, AwaitTimeout
    PROVE  SteerInv'
  <1>1. CASE chat.locked /\ chat.id = chat.timer
    <2>1. /\ chat' = unlockSteerChat(TRUE, chat.pending) /\ ends' = GivenBack(chat.pending)
          /\ sends' = sends /\ answers' = answers
      BY <1>1 DEF AwaitTimeout
    <2>2. chat.pending \in Nat
      BY DEF SteerInv, SteerTypes, Chats
    <2>3. SteerTypes'
      BY <2>1, <2>2, UnlockType, GivenBackFacts DEF SteerInv, SteerTypes
    <2>4. MessageNotLost'
      <3> SUFFICES ASSUME NEW m \in 1 .. ends.sent
                   PROVE  m \in ends'.done \cup ends'.back \/ ends'.late
        BY <2>1, <2>2, GivenBackFacts DEF MessageNotLost, SteerInv, SteerTypes
      <3>1. CASE m \in ends.done \cup ends.back \/ ends.late
        BY <3>1, <2>1, <2>2, GivenBackFacts DEF SteerInv, SteerTypes
      <3>2. CASE chat.pending = m
        BY <3>2, <2>1, <2>2, GivenBackFacts DEF SteerInv, SteerTypes, NoSteer
      <3> QED BY <3>1, <3>2 DEF SteerInv, MessageNotLost
    <2> QED BY <2>3, <2>4 DEF SteerInv
  <1>2. CASE ~(chat.locked /\ chat.id = chat.timer)
    <2>1. /\ chat' = [chat EXCEPT !.timer = NoSteer]
          /\ UNCHANGED <<ends, sends, answers>>
      BY <1>2 DEF AwaitTimeout
    <2>2. SteerTypes'
      BY <2>1 DEF SteerInv, SteerTypes, Chats, NoSteer
    <2>3. MessageNotLost'
      BY <1>2, <2>1 DEF SteerInv, MessageNotLost
    <2> QED BY <2>2, <2>3 DEF SteerInv
  <1> QED BY <1>1, <1>2

\* The end of a message is that of the one that locks the chat, or is ignored.
LEMMA CompleteKeeps ==
    ASSUME SteerInv, NEW msg \in answers, maybeCompleteSteer(msg)
    PROVE  SteerInv'
  <1>1. sends' = sends /\ answers' \subseteq answers
    BY DEF maybeCompleteSteer
  <1>2. CASE OfThisSteer(msg) /\ msg.type = "steer_done"
    <2>1. /\ chat' = unlockSteerChat(FALSE, NoSteer)
          /\ ends' = [ends EXCEPT !.done = @ \cup {msg.n}]
      BY <1>2 DEF maybeCompleteSteer
    <2>2. SteerTypes'
      BY <1>1, <2>1, UnlockType DEF SteerInv, SteerTypes, Pasts, NoSteer
    <2>3. MessageNotLost'
      BY <1>2, <2>1 DEF SteerInv, SteerTypes, Pasts, MessageNotLost, OfThisSteer
    <2> QED BY <2>2, <2>3 DEF SteerInv
  <1>3. CASE OfThisSteer(msg) /\ msg.type = "error"
    <2>1. chat' = unlockSteerChat(TRUE, chat.pending) /\ ends' = GivenBack(chat.pending)
      BY <1>3 DEF maybeCompleteSteer
    <2>2. chat.pending \in Nat
      BY DEF SteerInv, SteerTypes, Chats
    <2>3. SteerTypes'
      BY <1>1, <2>1, <2>2, UnlockType, GivenBackFacts DEF SteerInv, SteerTypes
    <2>4. MessageNotLost'
      <3> SUFFICES ASSUME NEW m \in 1 .. ends.sent
                   PROVE  m \in ends'.done \cup ends'.back \/ ends'.late
        BY <2>1, <2>2, GivenBackFacts DEF MessageNotLost, SteerInv, SteerTypes
      <3>1. CASE m \in ends.done \cup ends.back \/ ends.late
        BY <3>1, <2>1, <2>2, GivenBackFacts DEF SteerInv, SteerTypes
      <3>2. CASE chat.pending = m
        BY <3>2, <2>1, <2>2, GivenBackFacts DEF SteerInv, SteerTypes, NoSteer
      <3> QED BY <3>1, <3>2 DEF SteerInv, MessageNotLost
    <2> QED BY <2>3, <2>4 DEF SteerInv
  <1>4. CASE ~(OfThisSteer(msg) /\ msg.type \in {"steer_done", "error"})
    <2>1. UNCHANGED <<chat, ends>>
      BY <1>4 DEF maybeCompleteSteer
    <2> QED BY <1>1, <2>1 DEF SteerInv, SteerTypes, MessageNotLost
  <1> QED BY <1>2, <1>3, <1>4

-----------------------------------------------------------------------------
LEMMA SteerInitInv == SteerInit => SteerInv
  BY DEF SteerInit, SteerInv, SteerTypes, MessageNotLost, Chats, Pasts, NoSteer

LEMMA SteerStep == SteerInv /\ [SteerNext]_steerVars => SteerInv'
  <1> SUFFICES ASSUME SteerInv, [SteerNext]_steerVars PROVE SteerInv'
    OBVIOUS
  <1>1. CASE Typed
    <2>1. UNCHANGED <<sends, answers, ends>> /\ chat' = [chat EXCEPT !.text = ~@]
      BY <1>1 DEF Typed
    <2>2. /\ chat' \in Chats
          /\ chat'.locked = chat.locked /\ chat'.id = chat.id
          /\ chat'.pending = chat.pending /\ chat'.timer = chat.timer
      BY <2>1 DEF SteerInv, SteerTypes, Chats
    <2> QED BY <2>1, <2>2, SteadyChat DEF SteerInv, SteerTypes
  <1>2. CASE UserSubmits
    BY <1>2, SubmitKeeps DEF UserSubmits
  <1>3. ASSUME NEW p \in sends, PostServed(p) PROVE SteerInv'
    <2>1. UNCHANGED <<chat, answers, ends>> /\ \A q \in sends' : q.n \in Nat
      <3>1. p.n \in Nat /\ \A step \in {"ok", "failed"} : [p EXCEPT !.step = step].n = p.n
        BY <1>3 DEF PostServed, SteerInv, SteerTypes
      <3> QED BY <1>3, <3>1 DEF PostServed, SteerInv, SteerTypes
    <2> QED BY <2>1 DEF SteerInv, SteerTypes, MessageNotLost
  <1>4. ASSUME NEW p \in sends, PostEnds(p) PROVE SteerInv'
    BY <1>4, PostKeeps
  <1>5. CASE AwaitTimeout
    BY <1>5, TimeoutKeeps
  <1>6. ASSUME NEW msg \in answers, maybeCompleteSteer(msg) PROVE SteerInv'
    BY <1>6, CompleteKeeps
  <1>7. ASSUME NEW mode \in {"steer", "configure"}, ToggleVoice(mode) PROVE SteerInv'
    BY <1>7 DEF ToggleVoice, Voice, SteerInv, SteerTypes, MessageNotLost
  <1>8. CASE VoiceStarts
    BY <1>8 DEF VoiceStarts, Voice, SteerInv, SteerTypes, MessageNotLost
  <1>9. CASE VoiceFails
    BY <1>9 DEF VoiceFails, Voice, SteerInv, SteerTypes, MessageNotLost
  <1>10. CASE VoiceHears
    <2>1. UNCHANGED <<sends, answers, ends>> /\ chat' = [chat EXCEPT !.text = TRUE]
      BY <1>10 DEF VoiceHears
    <2>2. /\ chat' \in Chats
          /\ chat'.locked = chat.locked /\ chat'.id = chat.id
          /\ chat'.pending = chat.pending /\ chat'.timer = chat.timer
      BY <2>1 DEF SteerInv, SteerTypes, Chats
    <2> QED BY <2>1, <2>2, SteadyChat DEF SteerInv, SteerTypes
  <1>11. CASE VoiceEnds
    <2>1. CASE submitSteerMessage
      BY <2>1, SubmitKeeps
    <2>2. CASE UNCHANGED <<chat, sends, answers, ends>>
      BY <2>2 DEF SteerInv, SteerTypes, MessageNotLost
    <2> QED BY <1>11, <2>1, <2>2 DEF VoiceEnds, Voice
  <1>12. CASE ConfigureOrNot
    BY <1>12 DEF ConfigureOrNot, SteerInv, SteerTypes, MessageNotLost
  <1>13. ASSUME NEW n \in Steers, SteerAnswered(n) PROVE SteerInv'
    <2>1. UNCHANGED <<chat, sends, ends>> /\ \A msg \in answers' : msg.n \in Nat
      BY <1>13 DEF SteerAnswered, SteerInv, SteerTypes, Steers
    <2> QED BY <2>1 DEF SteerInv, SteerTypes, MessageNotLost
  <1>14. CASE UNCHANGED steerVars
    BY <1>14 DEF steerVars, SteerInv, SteerTypes, MessageNotLost
  <1> QED
    BY <1>1, <1>2, <1>3, <1>4, <1>5, <1>6, <1>7, <1>8, <1>9, <1>10, <1>11, <1>12, <1>13, <1>14
    DEF SteerNext

\* No steer message is lost, however many are sent: each locks the chat with its own time
\* running, or its end was heard, or its text was given back, or the failed post of an
\* earlier one unlocked the chat of a later one.
THEOREM NoSteerLost == SteerSpec => []MessageNotLost
  <1>1. SteerInv => MessageNotLost
    BY DEF SteerInv
  <1> QED BY <1>1, SteerInitInv, SteerStep, PTL DEF SteerSpec

-----------------------------------------------------------------------------
(***************************************************************************)
(* The edits of texts.  The inductive invariant says why a dock that is locked *)
(* will be told: an apply is under way, or its commit is, or the message that *)
(* ends it is still to be heard; and nothing on its way speaks of an apply as *)
(* going on that has ended, unless the message of its end comes behind.    *)
(***************************************************************************)
\* A message that ends an apply, or hands it to the user; one that says it is under way.
Ending == {"done", "failed", "decision"}

Telling == {"started", "chunk", "repair"}

Counts == {Cardinality(S) : S \in SUBSET Elements}

Messages == [type : Ending \cup Telling \cup {"stashed", "discarded", "rollback_done"},
             count : Counts, repairOnly : BOOLEAN]

Active == apply \in {"applying", "repairing"}

EndsIn(s) == \E i \in 1 .. Len(s) : s[i].type \in Ending

NewsTypes ==
    /\ news \in Seq(Messages)
    /\ past \in [saves : Nat, losses : Nat, asked : BOOLEAN, missed : BOOLEAN]

\* The history remembers that a decision was asked for, and that an answer was not heard.
DecisionAsked == dock.asking \/ (\E r \in requests : r.kind = "repair") => past.asked

UnheardMissed == (\E r \in requests : r.step = "unheard") => past.missed

\* What is said of an apply is followed by its end.
EndFollows ==
    \A i \in 1 .. Len(news) :
        news[i].type \in Telling => Active \/ \E j \in i .. Len(news) : news[j].type \in Ending

Committing == \E r \in requests : r.kind = "commit" /\ r.step \in {"sent", "failed"}

\* A dock that is locked, or that storage would lock, hears of it.
Thaws ==
    dock.inFlight \/ stored # NoText
        => past.asked \/ past.missed \/ Active \/ Committing \/ EndsIn(news)

FreezeInv == NewsTypes /\ DecisionAsked /\ UnheardMissed /\ EndFollows /\ Thaws

-----------------------------------------------------------------------------
IsDock(d) == d = [count |-> d.count, inFlight |-> d.inFlight, asking |-> d.asking,
                  disabled |-> d.disabled, trash |-> d.trash, stored |-> d.stored]

\* Locked, or to be locked by what is stored.
Locks(d) == d.inFlight \/ d.stored # NoText

LEMMA LoadingLocks ==
    ASSUME NEW d, IsDock(d)
    PROVE  /\ IsDock(setPendingApplyLoading(d, TRUE))
           /\ IsDock(setPendingApplyLoading(d, FALSE))
           /\ ~setPendingApplyLoading(d, TRUE).asking
           /\ setPendingApplyLoading(d, FALSE).asking = d.asking
           /\ ~Locks(setPendingApplyLoading(d, FALSE))
  BY DEF IsDock, Locks, setPendingApplyLoading, storeManualApplyState

LEMMA CountedDock ==
    ASSUME NEW d, IsDock(d), NEW count, NEW e, e = [d EXCEPT !.count = count, !.trash = TRUE]
    PROVE  IsDock(e) /\ e.asking = d.asking /\ e.inFlight = d.inFlight /\ e.stored = d.stored
  BY DEF IsDock

LEMMA CounterLocks ==
    ASSUME NEW d, IsDock(d), NEW count
    PROVE  /\ IsDock(updatePendingCounter(d, count))
           /\ updatePendingCounter(d, count).asking => d.asking
           /\ Locks(updatePendingCounter(d, count)) => Locks(d)
  <1>1. CASE count = 0
    BY <1>1 DEF updatePendingCounter, hidePendingApplyDock, IsDock, Locks
  <1>2. CASE count # 0
    <2> DEFINE e == [d EXCEPT !.count = count, !.trash = TRUE]
    <2>2. IsDock(e) /\ e.asking = d.asking /\ e.inFlight = d.inFlight /\ e.stored = d.stored
      BY CountedDock
    <2>3. CASE Locks(d)
      <3>1. updatePendingCounter(d, count) = setPendingApplyLoading(e, TRUE)
        BY <1>2, <2>3 DEF updatePendingCounter, Locks
      <3> HIDE DEF e
      <3>2. IsDock(setPendingApplyLoading(e, TRUE)) /\ ~setPendingApplyLoading(e, TRUE).asking
        BY <2>2, LoadingLocks
      <3> QED BY <2>3, <3>1, <3>2
    <2>4. CASE ~Locks(d)
      <3>1. updatePendingCounter(d, count) = e
        BY <1>2, <2>4 DEF updatePendingCounter, Locks
      <3> HIDE DEF e
      <3> QED BY <2>2, <2>4, <3>1 DEF Locks
    <2> QED BY <2>3, <2>4
  <1> QED BY <1>1, <1>2

LEMMA RepairLocks ==
    ASSUME NEW d, IsDock(d), NEW phase
    PROVE  /\ IsDock(updateManualApplyRepairState(d, phase))
           /\ updateManualApplyRepairState(d, phase).asking => d.asking
  <1> DEFINE e == [d EXCEPT !.stored = phase]
  <1>1. IsDock(e)
    BY DEF IsDock
  <1>2. updateManualApplyRepairState(d, phase) =
          IF d.count = 0 /\ d.stored = NoText THEN d ELSE setPendingApplyLoading(e, TRUE)
    BY DEF updateManualApplyRepairState
  <1> HIDE DEF e
  <1> QED BY <1>1, <1>2, LoadingLocks

LEMMA DecisionLocks ==
    ASSUME NEW d, IsDock(d), NEW remaining
    PROVE  IsDock(showManualApplyDecision(d, remaining))
  BY DEF IsDock, showManualApplyDecision, storeManualApplyState

LEMMA StoredLocks ==
    ASSUME NEW d, IsDock(d), NEW phase
    PROVE  /\ IsDock([d EXCEPT !.stored = phase])
           /\ [d EXCEPT !.stored = phase].asking = d.asking
           /\ Locks([d EXCEPT !.stored = NoText]) => Locks(d)
  BY DEF IsDock, Locks

LEMMA DoneLocks ==
    ASSUME NEW d, IsDock(d), NEW count
    PROVE  /\ IsDock(ManualApplyDone(d, count))
           /\ ManualApplyDone(d, count).asking => d.asking
           /\ ~Locks(ManualApplyDone(d, count))
  BY LoadingLocks, CounterLocks DEF ManualApplyDone

\* The dock there is.
LEMMA DockThere ==
    ASSUME NEW d, IsDock(d), SetDock(d)
    PROVE  /\ dock'.asking = d.asking /\ dock'.inFlight = d.inFlight /\ stored' = d.stored
           /\ (Locks(Dock))' <=> Locks(d)
  BY DEF SetDock, Dock, Locks, IsDock

LEMMA DockIs == IsDock(Dock) /\ (Locks(Dock) <=> dock.inFlight \/ stored # NoText)
                /\ Dock.asking = dock.asking /\ Dock.inFlight = dock.inFlight /\ Dock.stored = stored
                /\ Dock.count = dock.count
  BY DEF IsDock, Dock, Locks

-----------------------------------------------------------------------------
LEMMA MessageIs ==
    ASSUME NEW p, NEW type \in Ending \cup Telling \cup {"stashed", "discarded", "rollback_done"},
           NEW only \in BOOLEAN
    PROVE  Message(type, p, only) \in Messages /\ Message(type, p, only).type = type
  BY DEF Message, Messages, Counts, Staged

\* A message more.
LEMMA Announced ==
    ASSUME FreezeInv, NEW p, NEW type \in Ending \cup Telling \cup {"stashed", "discarded", "rollback_done"},
           NEW only \in BOOLEAN, Announce(type, p, only),
           type \in Telling => Active',
           Active => Active' \/ type \in Ending, UNCHANGED past
    PROVE  /\ NewsTypes' /\ EndFollows'
           /\ EndsIn(news) \/ type \in Ending => EndsIn(news)'
  <1> DEFINE m == Message(type, p, only)
  <1>1. m \in Messages /\ m.type = type /\ news' = Append(news, m) /\ news \in Seq(Messages)
    BY MessageIs DEF Announce, FreezeInv, NewsTypes
  <1> HIDE DEF m
  <1>2. /\ news' \in Seq(Messages) /\ Len(news') = Len(news) + 1 /\ Len(news) \in Nat
        /\ news'[Len(news) + 1] = m /\ \A i \in 1 .. Len(news) : news'[i] = news[i]
    BY <1>1
  <1>3. EndsIn(news) \/ type \in Ending => EndsIn(news)'
    BY <1>1, <1>2 DEF EndsIn
  <1>4. EndFollows'
    <2> SUFFICES ASSUME NEW i \in 1 .. Len(news) + 1, news'[i].type \in Telling, ~Active'
                 PROVE  \E j \in i .. Len(news) + 1 : news'[j].type \in Ending
      BY <1>2 DEF EndFollows
    <2>1. i \in 1 .. Len(news)
      BY <1>1, <1>2
    <2>2. CASE type \in Ending
      BY <1>1, <1>2, <2>1, <2>2
    <2>3. CASE type \notin Ending
      <3>1. PICK j \in i .. Len(news) : news[j].type \in Ending
        BY <1>2, <2>1, <2>3 DEF FreezeInv, EndFollows
      <3> QED BY <1>2, <2>1, <3>1
    <2> QED BY <2>2, <2>3
  <1> QED BY <1>2, <1>3, <1>4 DEF FreezeInv, NewsTypes

-----------------------------------------------------------------------------
LEMMA EditingInv ==
    ASSUME FreezeInv,
           \/ \E e \in Elements : PickText(e)
           \/ LeaveText \/ enterEditingMode \/ \E text \in Texts : onInlineInput(text)
           \/ UndoText \/ cancelEditing \/ cancelEditingToPicking
    PROVE  FreezeInv'
  <1>1. UNCHANGED <<dock, stored, requests, apply, news, past>>
    BY DEF PickText, LeaveText, enterEditingMode, onInlineInput, UndoText, cancelEditing,
           cancelEditingToPicking, Edited
  <1> QED BY <1>1 DEF FreezeInv, NewsTypes, DecisionAsked, UnheardMissed, EndFollows, Thaws,
                      Active, Committing, EndsIn

\* A request more, none of whose answers thaws, and what it makes of the dock.
LEMMA RequestInv ==
    ASSUME FreezeInv, NEW r, requests' = requests \cup {r}, r.step = "sent",
           r.kind = "repair" => past.asked,
           dock'.asking => dock.asking,
           \/ (Locks(Dock))' => Locks(Dock)
           \/ r.kind \in {"commit", "repair"},
           UNCHANGED <<apply, news>>, NewsTypes',
           past'.asked = past.asked, past'.missed = past.missed
    PROVE  FreezeInv'
  <1>1. DecisionAsked' /\ UnheardMissed'
    BY DEF FreezeInv, DecisionAsked, UnheardMissed
  <1>2. EndFollows'
    BY DEF FreezeInv, EndFollows, Active
  <1>3. Committing => Committing'
    BY DEF Committing
  <1>4. r.kind = "commit" => Committing'
    BY DEF Committing
  <1>5. Thaws'
    BY <1>3, <1>4 DEF FreezeInv, Thaws, Active, EndsIn, Locks, Dock
  <1> QED BY <1>1, <1>2, <1>5 DEF FreezeInv

LEMMA SaveInv == ASSUME FreezeInv, applyEditing PROVE FreezeInv'
  <1> DEFINE r == Stash(edit.e, edit.orig, edit.draft)
  <1>1. /\ requests' = requests \cup {r} /\ r.step = "sent" /\ r.kind = "stash"
        /\ UNCHANGED <<dock, stored, apply, news>>
    BY DEF applyEditing, Stash
  <1>2. past'.asked = past.asked /\ past'.missed = past.missed /\ NewsTypes'
    BY <1>1 DEF applyEditing, FreezeInv, NewsTypes
  <1>3. dock'.asking => dock.asking
    BY <1>1
  <1>4. (Locks(Dock))' => Locks(Dock)
    BY <1>1 DEF Locks, Dock
  <1> HIDE DEF r
  <1> QED BY <1>1, <1>2, <1>3, <1>4, RequestInv

LEMMA ClickInv ==
    ASSUME FreezeInv,
           onPendingPillClick \/ onPendingTrashClick \/ onPendingKeepFixingClick \/ onPendingRollbackClick
    PROVE  FreezeInv'
  <1>1. PICK d, r : /\ Click(d, r) /\ IsDock(d) /\ r.step = "sent"
                    /\ r.kind = "repair" => dock.asking
                    /\ d.asking => dock.asking
                    /\ (Locks(d) => Locks(Dock)) \/ r.kind \in {"commit", "repair"}
    <2>1. \A kind : Request(kind).step = "sent" /\ Request(kind).kind = kind
      BY DEF Request
    <2>2. CASE onPendingPillClick
      <3> DEFINE stood == [Dock EXCEPT !.stored = "applying"]
                 d == setPendingApplyLoading(stood, TRUE)
      <3>1. IsDock(d) /\ ~d.asking
        BY DockIs, StoredLocks, LoadingLocks
      <3>2. Click(d, Request("commit"))
        BY <2>2 DEF onPendingPillClick
      <3> HIDE DEF d
      <3> QED BY <2>1, <3>1, <3>2
    <2>3. CASE onPendingTrashClick
      BY <2>1, <2>3, DockIs DEF onPendingTrashClick
    <2>4. CASE onPendingKeepFixingClick
      BY <2>1, <2>4, DockIs, RepairLocks DEF onPendingKeepFixingClick
    <2>5. CASE onPendingRollbackClick
      BY <2>1, <2>5, DockIs DEF onPendingRollbackClick
    <2> QED BY <2>2, <2>3, <2>4, <2>5
  <1>2. /\ SetDock(d) /\ requests' = requests \cup {r} /\ UNCHANGED <<apply, news, past>>
    BY <1>1 DEF Click
  <1>3. dock'.asking => dock.asking
    BY <1>1, <1>2, DockThere
  <1>4. (Locks(Dock))' <=> Locks(d)
    BY <1>1, <1>2, DockThere
  <1>5. r.kind = "repair" => past.asked
    BY <1>1 DEF FreezeInv, DecisionAsked
  <1>6. NewsTypes'
    BY <1>2 DEF FreezeInv, NewsTypes
  <1> QED BY <1>1, <1>2, <1>3, <1>4, <1>5, <1>6, RequestInv

\* A failed commit unlocks the dock; no other answer does anything to one that is locked.
LEMMA ContinueInv == ASSUME FreezeInv, NEW r \in requests, Continue(r) PROVE FreezeInv'
  <1> DEFINE ok == r.step = "ok"
             d == CASE r.kind \in {"stash", "count", "discard"} /\ ok ->
                         updatePendingCounter(Dock, r.count)
                    [] r.kind = "rollback" /\ ok ->
                         updatePendingCounter([Dock EXCEPT !.stored = NoText], r.count)
                    [] r.kind = "commit" /\ ~ok ->
                         IF dock.count > 0 THEN setPendingApplyLoading(Dock, FALSE)
                         ELSE hidePendingApplyDock(Dock)
                    [] r.kind = "repair" /\ ~ok ->
                         IF dock.count > 0 \/ stored # NoText
                         THEN showManualApplyDecision(Dock, 0) ELSE Dock
                    [] r.kind = "repair" /\ ok -> [Dock EXCEPT !.asking = FALSE, !.trash = TRUE]
                    [] OTHER -> Dock
  <1>1. /\ r.step \in {"ok", "failed"} /\ requests' = requests \ {r} /\ SetDock(d)
        /\ UNCHANGED <<apply, news, past>>
    BY DEF Continue
  <1>2. r.kind = "repair" => past.asked
    BY DEF FreezeInv, DecisionAsked
  <1>3. /\ IsDock(d)
        /\ d.asking => dock.asking \/ past.asked
        /\ Locks(d) => \/ Locks(Dock) /\ ~(r.kind = "commit" /\ ~ok)
                       \/ past.asked
    <2>1. CASE r.kind \in {"stash", "count", "discard"} /\ ok
      <3>1. d = updatePendingCounter(Dock, r.count)
        BY <2>1
      <3> HIDE DEF d
      <3> QED BY <2>1, <3>1, DockIs, CounterLocks
    <2>2. CASE r.kind = "rollback" /\ ok
      <3> DEFINE e == [Dock EXCEPT !.stored = NoText]
      <3>1. d = updatePendingCounter(e, r.count)
        BY <2>2
      <3>2. IsDock(e) /\ e.asking = dock.asking /\ (Locks(e) => Locks(Dock))
        BY DockIs, StoredLocks
      <3> HIDE DEF d, e
      <3> QED BY <2>2, <3>1, <3>2, CounterLocks
    <2>3. CASE r.kind = "commit" /\ ~ok
      <3>1. d \in {setPendingApplyLoading(Dock, FALSE), hidePendingApplyDock(Dock)}
        BY <2>3
      <3>2. /\ IsDock(hidePendingApplyDock(Dock)) /\ ~hidePendingApplyDock(Dock).asking
            /\ ~Locks(hidePendingApplyDock(Dock))
        BY DEF hidePendingApplyDock, IsDock, Locks
      <3>3. /\ IsDock(setPendingApplyLoading(Dock, FALSE))
            /\ setPendingApplyLoading(Dock, FALSE).asking = dock.asking
            /\ ~Locks(setPendingApplyLoading(Dock, FALSE))
        BY DockIs, LoadingLocks
      <3> HIDE DEF d
      <3> QED BY <3>1, <3>2, <3>3
    <2>4. CASE r.kind = "repair" /\ ~ok
      <3>1. d \in {showManualApplyDecision(Dock, 0), Dock}
        BY <2>4
      <3> HIDE DEF d
      <3> QED BY <1>2, <2>4, <3>1, DockIs, DecisionLocks
    <2>5. CASE r.kind = "repair" /\ ok
      <3>1. d = [Dock EXCEPT !.asking = FALSE, !.trash = TRUE]
        BY <2>5
      <3>2. IsDock(d)
        BY <3>1, DockIs DEF IsDock
      <3> HIDE DEF d
      <3> QED BY <1>2, <2>5, <3>2
    <2>6. CASE \/ r.kind = "commit" /\ ok
               \/ r.kind \in {"stash", "count", "discard", "rollback"} /\ ~ok
               \/ r.kind \notin {"stash", "count", "discard", "rollback", "commit", "repair"}
      <3>1. d = Dock
        BY <2>6
      <3> HIDE DEF d
      <3> QED BY <2>6, <3>1, DockIs
    <2> HIDE DEF d
    <2> QED BY <2>1, <2>2, <2>3, <2>4, <2>5, <2>6
  <1> HIDE DEF d
  <1>4. dock'.asking = d.asking /\ ((Locks(Dock))' <=> Locks(d))
    BY <1>1, <1>3, DockThere
  <1>5. DecisionAsked' /\ UnheardMissed'
    BY <1>1, <1>3, <1>4 DEF FreezeInv, DecisionAsked, UnheardMissed
  <1>6. NewsTypes' /\ EndFollows'
    BY <1>1 DEF FreezeInv, NewsTypes, EndFollows, Active
  <1>7. (Locks(Dock) <=> dock.inFlight \/ stored # NoText)
        /\ ((Locks(Dock))' <=> dock'.inFlight \/ stored' # NoText)
    BY DEF Locks, Dock
  <1>8. Thaws'
    <2> SUFFICES ASSUME Locks(d), ~past.asked
                 PROVE  (past.asked \/ past.missed \/ Active \/ Committing \/ EndsIn(news))'
      BY <1>1, <1>4, <1>7 DEF Thaws
    <2>1. past.asked \/ past.missed \/ Active \/ Committing \/ EndsIn(news)
      BY <1>3, <1>7 DEF FreezeInv, Thaws
    <2>2. Committing => Committing'
      BY <1>1, <1>3 DEF Committing
    <2> QED BY <1>1, <2>1, <2>2 DEF Active, EndsIn
  <1> QED BY <1>5, <1>6, <1>8 DEF FreezeInv

LEMMA EditsLossInv == ASSUME FreezeInv, EditsReload \/ EditsLost PROVE FreezeInv'
  <1>1. news' = <<>> /\ UNCHANGED apply
    BY DEF EditsReload, EditsLost
  <1>2. NewsTypes' /\ EndFollows'
    <2>1. news' \in Seq(Messages) /\ Len(news') = 0
      BY <1>1
    <2>2. past' \in [saves : Nat, losses : Nat, asked : BOOLEAN, missed : BOOLEAN]
      <3>1. past.losses + 1 \in Nat /\ past \in [saves : Nat, losses : Nat, asked : BOOLEAN, missed : BOOLEAN]
        BY DEF FreezeInv, NewsTypes
      <3>2. (past.missed \/ news # <<>> \/ Commits # {}) \in BOOLEAN
        OBVIOUS
      <3>3. \E missed \in BOOLEAN : past' = [past EXCEPT !.losses = past.losses + 1, !.missed = missed]
        BY <3>2 DEF EditsReload, EditsLost
      <3> QED BY <3>1, <3>3
    <2> QED BY <2>1, <2>2 DEF NewsTypes, EndFollows
  <1>3. CASE EditsLost
    <2>1. past'.missed
      BY <1>3 DEF EditsLost, FreezeInv, NewsTypes
    <2> QED BY <1>2, <1>3, <2>1 DEF EditsLost, FreezeInv, DecisionAsked, UnheardMissed, Thaws
  <1>4. CASE EditsReload
    <2>1. past'.asked = past.asked /\ (past'.missed <=> past.missed \/ news # <<>> \/ Commits # {})
      BY <1>4 DEF EditsReload, FreezeInv, NewsTypes
    <2>2. /\ dock' = HiddenDock /\ stored' = stored
          /\ requests' = {fetchPendingCount} \cup
                 {[kind |-> r.kind, step |-> "unheard"] :
                     r \in {r \in Commits : r.step \in {"sent", "unheard"}}}
      BY <1>4 DEF EditsReload
    <2>3. \A q \in requests' :
             \/ q = fetchPendingCount
             \/ q.step = "unheard" /\ \E r \in Commits : q.kind = r.kind
      <3> SUFFICES ASSUME NEW q \in requests', q # fetchPendingCount
                   PROVE  q.step = "unheard" /\ \E r \in Commits : q.kind = r.kind
        OBVIOUS
      <3>1. PICK r \in Commits : q = [kind |-> r.kind, step |-> "unheard"]
        BY <2>2
      <3> QED BY <3>1
    <2>4. fetchPendingCount.step = "sent" /\ fetchPendingCount.kind = "count"
      BY DEF fetchPendingCount, Request
    <2>5. DecisionAsked'
      BY <2>1, <2>2, <2>3, <2>4 DEF FreezeInv, DecisionAsked, HiddenDock, Commits
    <2>6. UnheardMissed'
      BY <2>1, <2>3, <2>4 DEF UnheardMissed
    <2>7. Thaws'
      BY <1>1, <2>1, <2>2 DEF FreezeInv, Thaws, HiddenDock, Active, Committing, Commits, EndsIn
    <2> QED BY <1>2, <2>5, <2>6, <2>7 DEF FreezeInv
  <1> QED BY <1>3, <1>4

-----------------------------------------------------------------------------
\* An answer takes the place of a request, and an apply that it begins is under way.
LEMMA AnswerFreezes ==
    ASSUME FreezeInv, NEW r \in requests, r.step \in {"sent", "unheard"},
           UNCHANGED <<dock, stored, past>>,
           NewsTypes', EndFollows', EndsIn(news) => EndsIn(news)', Active => Active',
           NEW answer, requests' = (requests \ {r}) \cup answer,
           \A q \in answer : q.kind = r.kind /\ q.step \in {"ok", "failed"},
           \/ r.step = "unheard" /\ answer = {}
           \/ \E q \in answer : q.step = "failed"
           \/ r.kind = "commit" => Active'
    PROVE  FreezeInv'
  <1>1. DecisionAsked' /\ UnheardMissed'
    BY DEF FreezeInv, DecisionAsked, UnheardMissed
  <1>2. Thaws'
    <2> SUFFICES ASSUME dock.inFlight \/ stored # NoText, ~past.asked, ~past.missed
                 PROVE  (Active \/ Committing \/ EndsIn(news))'
      BY DEF Thaws
    <2>1. r.step = "sent"
      BY DEF FreezeInv, UnheardMissed
    <2>2. Active \/ Committing \/ EndsIn(news)
      BY DEF FreezeInv, Thaws
    <2>3. ASSUME Committing, ~Active' PROVE Committing'
      <3>1. PICK q \in requests : q.kind = "commit" /\ q.step \in {"sent", "failed"}
        BY <2>3 DEF Committing
      <3>2. CASE q = r
        BY <2>1, <2>3, <3>1, <3>2 DEF Committing
      <3>3. CASE q # r
        BY <3>1, <3>3 DEF Committing
      <3> QED BY <3>2, <3>3
    <2> QED BY <2>2, <2>3
  <1> QED BY <1>1, <1>2 DEF FreezeInv

LEMMA EditsServeInv == ASSUME FreezeInv, NEW r \in requests, EditsServe(r) PROVE FreezeInv'
  <1>1. r.step \in {"sent", "unheard"} /\ UNCHANGED <<dock, stored, past>>
    BY DEF EditsServe
  <1>2. CASE Refuse(r)
    <2> DEFINE answer == IF r.step = "unheard" THEN {} ELSE {[kind |-> r.kind, step |-> "failed"]}
    <2>1. requests' = (requests \ {r}) \cup answer /\ UNCHANGED <<apply, news>>
      BY <1>2 DEF Refuse
    <2>2. /\ \A q \in answer : q.kind = r.kind /\ q.step = "failed"
          /\ \/ r.step = "unheard" /\ answer = {}
             \/ \E q \in answer : q.step = "failed"
      <3>1. CASE r.step = "unheard"
        BY <3>1
      <3>2. CASE r.step # "unheard"
        <4>1. answer = {[kind |-> r.kind, step |-> "failed"]}
          BY <3>2
        <4> HIDE DEF answer
        <4> QED BY <4>1
      <3> QED BY <3>1, <3>2
    <2> HIDE DEF answer
    <2>3. /\ NewsTypes' /\ EndFollows' /\ (EndsIn(news) => EndsIn(news)') /\ (Active => Active')
      BY <1>1, <2>1 DEF FreezeInv, NewsTypes, EndFollows, EndsIn, Active
    <2> QED BY <1>1, <2>1, <2>2, <2>3, AnswerFreezes
  <1>3. ASSUME NEW p, Reply(r, p), NewsTypes', EndFollows', EndsIn(news) => EndsIn(news)',
               Active => Active', r.kind = "commit" => Active'
        PROVE  FreezeInv'
    <2> DEFINE answer == IF r.step = "unheard" THEN {}
                         ELSE {[kind |-> r.kind, step |-> "ok", count |-> Cardinality(Staged(p)),
                                entries |-> IF r.kind = "discard" THEN page.staged ELSE {}]}
    <2>1. requests' = (requests \ {r}) \cup answer
      BY <1>3 DEF Reply
    <2>2. \A q \in answer : q.kind = r.kind /\ q.step = "ok"
      OBVIOUS
    <2> HIDE DEF answer
    <2> QED BY <1>1, <1>3, <2>1, <2>2, AnswerFreezes
  <1>4. ASSUME NEW p, NEW type \in {"stashed", "discarded", "rollback_done"}, Announce(type, p, FALSE),
               Active => Active'
        PROVE  NewsTypes' /\ EndFollows' /\ (EndsIn(news) => EndsIn(news)')
    BY <1>1, <1>4, Announced DEF Telling
  <1>5. CASE r.kind = "stash" /\ Announce("stashed", Stashed(r), FALSE) /\ Reply(r, Stashed(r)) /\ UNCHANGED apply
    <2>1. Active => Active'
      BY <1>5 DEF Active
    <2> QED BY <1>3, <1>4, <1>5, <2>1
  <1>6. CASE r.kind = "count" /\ Reply(r, page) /\ UNCHANGED <<page, apply, news>>
    <2>1. /\ NewsTypes' /\ EndFollows' /\ (EndsIn(news) => EndsIn(news)') /\ (Active => Active')
      BY <1>1, <1>6 DEF FreezeInv, NewsTypes, EndFollows, EndsIn, Active
    <2> QED BY <1>3, <1>6, <2>1
  <1>7. CASE /\ r.kind = "discard" /\ Announce("discarded", Cleared(page, Elements), FALSE)
             /\ Reply(r, Cleared(page, Elements)) /\ UNCHANGED apply
    <2>1. Active => Active'
      BY <1>7 DEF Active
    <2> QED BY <1>3, <1>4, <1>7, <2>1
  <1>8. CASE /\ r.kind = "commit" /\ apply' = "applying" /\ Announce("started", page, FALSE)
             /\ Reply(r, page)
    <2>1. Active'
      BY <1>8 DEF Active
    <2>2. NewsTypes' /\ EndFollows' /\ (EndsIn(news) => EndsIn(news)')
      BY <1>1, <1>8, <2>1, Announced DEF Telling
    <2> QED BY <1>3, <1>8, <2>1, <2>2
  <1>9. CASE /\ r.kind = "repair" /\ apply' = "repairing" /\ Announce("started", page, TRUE)
             /\ Reply(r, page)
    <2>1. Active'
      BY <1>9 DEF Active
    <2>2. NewsTypes' /\ EndFollows' /\ (EndsIn(news) => EndsIn(news)')
      BY <1>1, <1>9, <2>1, Announced DEF Telling
    <2> QED BY <1>3, <1>9, <2>1, <2>2
  <1>10. CASE /\ r.kind = "rollback" /\ apply = "decision" /\ apply' = "idle"
              /\ Announce("rollback_done", page, FALSE) /\ Reply(r, page)
    <2>1. Active => Active'
      BY <1>10 DEF Active
    <2> QED BY <1>3, <1>4, <1>10, <2>1
  <1> QED BY <1>2, <1>5, <1>6, <1>7, <1>8, <1>9, <1>10 DEF EditsServe

LEMMA ApplyInv == ASSUME FreezeInv, ApplyGoesOn \/ ApplyEnds PROVE FreezeInv'
  <1>1. UNCHANGED <<dock, stored, requests, past>>
    BY DEF ApplyGoesOn, ApplyEnds
  <1>2. NewsTypes' /\ EndFollows' /\ (EndsIn(news) => EndsIn(news)')
        /\ (Active => Active' \/ EndsIn(news)')
    <2>1. CASE ApplyGoesOn
      <3>1. Active /\ Active' /\ \E type \in {"chunk", "repair"} : Announce(type, page, FALSE)
        BY <2>1 DEF ApplyGoesOn, Active
      <3> QED BY <1>1, <3>1, Announced DEF Telling
    <2>2. CASE ApplyEnds
      <3>1. \E p : Announce("done", p, FALSE) \/ Announce("failed", p, FALSE) \/ Announce("decision", p, FALSE)
        BY <2>2 DEF ApplyEnds
      <3>2. \A type \in Ending : type \notin Telling
        BY DEF Ending, Telling
      <3>3. ASSUME NEW p, NEW type \in Ending, Announce(type, p, FALSE)
            PROVE  NewsTypes' /\ EndFollows' /\ EndsIn(news)'
        BY <1>1, <3>2, <3>3, Announced
      <3> QED BY <3>1, <3>3 DEF Ending
    <2> QED BY <2>1, <2>2
  <1>3. DecisionAsked' /\ UnheardMissed'
    BY <1>1 DEF FreezeInv, DecisionAsked, UnheardMissed
  <1>4. Thaws'
    BY <1>1, <1>2 DEF FreezeInv, Thaws, Committing
  <1> QED BY <1>2, <1>3, <1>4 DEF FreezeInv

\* What is heard of an apply locks the dock while more is to come, and its end unlocks it.
LEMMA HearEditsInv == ASSUME FreezeInv, handleManualEditActivity PROVE FreezeInv'
  <1>0. PICK m, d : m = Head(news) /\ d = Heard(m)
    OBVIOUS
  <1>1. /\ news \in Seq(Messages) /\ news # <<>> /\ m \in Messages /\ news' = Tail(news)
        /\ Len(news') = Len(news) - 1 /\ Len(news) \in Nat \ {0}
        /\ m = news[1] /\ \A i \in 1 .. Len(news') : news'[i] = news[i + 1]
    BY <1>0 DEF handleManualEditActivity, FreezeInv, NewsTypes
  <1>2. m.type \in Ending \cup Telling \cup {"stashed", "discarded", "rollback_done"}
    BY <1>1 DEF Messages
  <1>3. /\ SetDock(d) /\ UNCHANGED <<page, edit, apply>>
        /\ requests \subseteq requests' /\ requests' \subseteq requests \cup {fetchPendingCount}
    BY <1>0 DEF handleManualEditActivity
  <1>4. /\ past' = [past EXCEPT !.asked = past.asked \/ m.type = "decision"]
        /\ past \in [saves : Nat, losses : Nat, asked : BOOLEAN, missed : BOOLEAN]
    BY <1>0 DEF handleManualEditActivity, FreezeInv, NewsTypes
  <1>5. /\ past'.asked <=> past.asked \/ m.type = "decision"
        /\ past'.missed = past.missed
    BY <1>4
  <1>6. /\ IsDock(d)
        /\ d.asking => dock.asking \/ m.type = "decision"
        /\ Locks(d) =>
             \/ m.type \in {"stashed", "discarded", "rollback_done"} /\ Locks(Dock)
             \/ m.type \in Telling \cup {"decision"}
    <2>1. CASE m.type = "stashed"
      <3>1. d = updatePendingCounter(Dock, m.count)
        BY <1>0, <2>1 DEF Heard
      <3> QED BY <2>1, <3>1, DockIs, CounterLocks
    <2>2. CASE m.type = "started"
      <3> DEFINE c == IF m.count > 0 THEN updatePendingCounter(Dock, m.count) ELSE Dock
                 e == [c EXCEPT !.stored = IF m.repairOnly THEN "repairing" ELSE "applying"]
      <3>1. d = setPendingApplyLoading(e, TRUE)
        BY <1>0, <2>2 DEF Heard
      <3>2. IsDock(c)
        BY DockIs, CounterLocks
      <3> HIDE DEF c
      <3>3. IsDock(e)
        BY <3>2, StoredLocks
      <3> HIDE DEF e
      <3> QED BY <2>2, <3>1, <3>3, LoadingLocks DEF Telling
    <2>3. CASE m.type = "chunk"
      <3>1. d \in {setPendingApplyLoading(Dock, TRUE), Dock}
        BY <1>0, <2>3 DEF Heard
      <3>2. CASE d = Dock
        BY <2>3, <3>2, DockIs DEF Telling
      <3>3. CASE d = setPendingApplyLoading(Dock, TRUE)
        <4>1. IsDock(d) /\ ~d.asking
          BY <3>3, DockIs, LoadingLocks
        <4> QED BY <2>3, <4>1 DEF Telling
      <3> QED BY <3>1, <3>2, <3>3
    <2>4. CASE m.type = "repair"
      <3>1. d = updateManualApplyRepairState(Dock, "repairing")
        BY <1>0, <2>4 DEF Heard
      <3> QED BY <2>4, <3>1, DockIs, RepairLocks DEF Telling
    <2>5. CASE m.type = "decision"
      <3>1. d = showManualApplyDecision(Dock, m.count)
        BY <1>0, <2>5 DEF Heard
      <3> QED BY <2>5, <3>1, DockIs, DecisionLocks
    <2>6. CASE m.type = "rollback_done"
      <3>1. d = [Dock EXCEPT !.stored = NoText]
        BY <1>0, <2>6 DEF Heard
      <3> QED BY <2>6, <3>1, DockIs, StoredLocks
    <2>7. CASE m.type = "done"
      <3>1. d = ManualApplyDone(Dock, m.count)
        BY <1>0, <2>7 DEF Heard
      <3> QED BY <2>7, <3>1, DockIs, DoneLocks
    <2>8. CASE m.type = "failed"
      <3>1. d = setPendingApplyLoading(Dock, FALSE)
        BY <1>0, <2>8 DEF Heard
      <3> QED BY <2>8, <3>1, DockIs, LoadingLocks
    <2>9. CASE m.type = "discarded"
      <3>1. d = Dock
        BY <1>0, <2>9 DEF Heard
      <3> QED BY <2>9, <3>1, DockIs
    <2> QED BY <1>2, <2>1, <2>2, <2>3, <2>4, <2>5, <2>6, <2>7, <2>8, <2>9 DEF Ending, Telling
  <1>7. dock'.asking = d.asking /\ ((Locks(Dock))' <=> Locks(d))
    BY <1>3, <1>6, DockThere
  <1>8. NewsTypes'
    <2>1. past' \in [saves : Nat, losses : Nat, asked : BOOLEAN, missed : BOOLEAN]
      BY <1>4
    <2> QED BY <1>1, <2>1 DEF NewsTypes
  <1>9. EndFollows'
    <2> SUFFICES ASSUME NEW i \in 1 .. Len(news'), news'[i].type \in Telling, ~Active
                 PROVE  \E j \in i .. Len(news') : news'[j].type \in Ending
      BY <1>3 DEF EndFollows, Active
    <2>1. i + 1 \in 1 .. Len(news) /\ news[i + 1].type \in Telling
      BY <1>1
    <2>2. PICK j \in i + 1 .. Len(news) : news[j].type \in Ending
      BY <2>1 DEF FreezeInv, EndFollows
    <2>3. j - 1 \in i .. Len(news') /\ news'[j - 1] = news[j]
      BY <1>1, <2>2
    <2> QED BY <2>2, <2>3
  <1>10. DecisionAsked' /\ UnheardMissed'
    <2>1. fetchPendingCount.kind = "count" /\ fetchPendingCount.step = "sent"
      BY DEF fetchPendingCount, Request
    <2>2. dock'.asking => past'.asked
      BY <1>5, <1>6, <1>7 DEF FreezeInv, DecisionAsked
    <2>3. (\E r \in requests' : r.kind = "repair") => past'.asked
      BY <1>3, <1>5, <2>1 DEF FreezeInv, DecisionAsked
    <2>4. (\E r \in requests' : r.step = "unheard") => past'.missed
      BY <1>3, <1>5, <2>1 DEF FreezeInv, UnheardMissed
    <2> QED BY <2>2, <2>3, <2>4 DEF DecisionAsked, UnheardMissed
  <1>11. Thaws'
    <2>1. Locks(Dock) <=> dock.inFlight \/ stored # NoText
      BY DEF Locks, Dock
    <2>0. (Locks(Dock))' <=> dock'.inFlight \/ stored' # NoText
      BY DEF Locks, Dock
    <2>9. dock'.inFlight \/ stored' # NoText => Locks(d)
      BY <1>7, <2>0
    <2> SUFFICES ASSUME Locks(d), ~past'.asked, ~past'.missed, ~Active', ~Committing'
                 PROVE  EndsIn(news)'
      BY <2>9 DEF Thaws
    <2>2. ~Active /\ ~Committing /\ ~past.asked /\ ~past.missed /\ m.type # "decision"
      BY <1>3, <1>5 DEF Active, Committing
    <2>3. \E j \in 2 .. Len(news) : news[j].type \in Ending
      <3>1. CASE m.type \in Telling
        <4>1. m.type \notin Ending
          BY <3>1 DEF Ending, Telling
        <4> QED BY <1>1, <2>2, <3>1, <4>1 DEF FreezeInv, EndFollows
      <3>2. CASE m.type \in {"stashed", "discarded", "rollback_done"} /\ Locks(Dock)
        <4>1. EndsIn(news)
          BY <2>1, <2>2, <3>2 DEF FreezeInv, Thaws
        <4> QED BY <1>1, <3>2, <4>1 DEF EndsIn, Ending
      <3> QED BY <1>6, <2>2, <3>1, <3>2
    <2>4. PICK j \in 2 .. Len(news) : news[j].type \in Ending
      BY <2>3
    <2>5. j - 1 \in 1 .. Len(news') /\ news'[j - 1] = news[j]
      BY <1>1, <2>4
    <2> QED BY <2>4, <2>5 DEF EndsIn
  <1> QED BY <1>8, <1>9, <1>10, <1>11 DEF FreezeInv

LEMMA FreezeInvInit == EditsInit => FreezeInv
  <1> SUFFICES ASSUME EditsInit PROVE FreezeInv
    OBVIOUS
  <1>1. news = <<>> /\ news \in Seq(Messages) /\ Len(news) = 0
    BY DEF EditsInit
  <1>2. fetchPendingCount.kind = "count" /\ fetchPendingCount.step = "sent"
    BY DEF fetchPendingCount, Request
  <1> QED BY <1>1, <1>2 DEF EditsInit, FreezeInv, NewsTypes, DecisionAsked, UnheardMissed, EndFollows,
                            Thaws, HiddenDock

LEMMA FreezeInvStep == FreezeInv /\ [EditsNext]_editVars => FreezeInv'
  <1> SUFFICES ASSUME FreezeInv, [EditsNext]_editVars PROVE FreezeInv'
    OBVIOUS
  <1>1. CASE EditsNext
    BY <1>1, EditingInv, SaveInv, ClickInv, ContinueInv, EditsServeInv, EditsLossInv, HearEditsInv,
       ApplyInv DEF EditsNext
  <1>2. CASE UNCHANGED editVars
    BY <1>2 DEF editVars, FreezeInv, NewsTypes, DecisionAsked, UnheardMissed, EndFollows, Thaws,
                Active, Committing, EndsIn
  <1> QED BY <1>1, <1>2

LEMMA FreezeInvThaws == FreezeInv => FrozenOnlyWhileApplying
  BY DEF FreezeInv, Thaws, Active, Committing, EndsIn, FrozenOnlyWhileApplying

\* The picker does not stay locked once the apply it was locked for has ended, however many
\* saves and reloads there were, and however much of the edits was written: unless a message
\* or an answer was not heard, or a decision was asked for (setPendingApplyLoading,
\* handleManualEditActivity).
THEOREM PickerThaws == EditsSpec => []FrozenOnlyWhileApplying
  <1>1. EditsInit => FreezeInv
    BY FreezeInvInit
  <1>2. FreezeInv /\ [EditsNext]_editVars => FreezeInv'
    BY FreezeInvStep
  <1> QED BY <1>1, <1>2, FreezeInvThaws, PTL DEF EditsSpec

-----------------------------------------------------------------------------
(***************************************************************************)
(* The tabs that compete for an agent's target.  TargetInv says that a tab *)
(* which has a request to serve, and has not begun to, is about to try;    *)
(* GoInv says whose Go a session of a target belongs to.                   *)
(***************************************************************************)
Seen == {"none", "heard", "denied", "declined", "acting", "done"}

Unserved == {"heard", "denied", "declined"}

Steps == {"start", "retry", "claim", "granted", "denied", "over", "word", "report", "watch",
          "scroll", "renew", "renewed", "lapsed", "result", "failure", "capture", "generate",
          "superseded"}

GoSteps == {"capture", "generate", "superseded"}

\* Steps at whose end a target is taken, declined or tried again.
Trying == {"start", "retry", "claim", "granted", "denied", "report", "watch", "scroll", "renew",
           "renewed", "lapsed"}

Bodies == [target : Targets, step : Steps, n : Nat]

TabSessions == [target : Targets \cup {NoTarget}, n : Nat]

Overlays == [busy : BOOLEAN, session : TabSessions, apply : BOOLEAN, on : BOOLEAN,
             open : BOOLEAN, news : SUBSET Targets, seen : [Targets -> Seen],
             declined : SUBSET Targets]

Requests == [phase : {"new", "pending", "served", "refused"}, dryRun : BOOLEAN,
             holder : Tabs \cup {NoTab, "gone"}, by : Nat, session : BOOLEAN]

TargetTypes ==
    /\ overlay \in [Tabs -> Overlays]
    /\ calls \subseteq [tab : Tabs, call : Bodies]
    /\ awaited \in [Targets -> Requests]
    /\ presses \in [Targets -> Nat]

\* What a tab knows of a request, and what is under way for it, comes from the agent's asking.
Asked(g) == awaited[g].phase # "new"

OnlyAsked ==
    /\ \A t \in Tabs, g \in Targets :
         g \in overlay[t].news \cup overlay[t].declined \/ overlay[t].seen[g] # "none" => Asked(g)
    /\ \A c \in calls : Asked(c.call.target)
    /\ \A c \in calls : c.call.step = "over" => ~Pending(c.call.target)

\* A tab that is on goes on trying to serve a request, or has declined it for now.
Tried(t, g) == \E c \in calls : c.tab = t /\ c.call.target = g /\ c.call.step \in Trying

TriesOn ==
    \A t \in Tabs, g \in Targets :
        Pending(g) /\ overlay[t].on /\ overlay[t].seen[g] \in Unserved
            => g \in overlay[t].declined \/ Tried(t, g)

TargetInv == TargetTypes /\ OnlyAsked /\ TriesOn

\* A session of a target comes from one of the Gos for it: the one that answered the request,
\* or one whose generate event has not been answered; and no Go is that of two tabs.
ServedBy == \A g \in Targets : awaited[g].by # 0 => awaited[g].phase = "served"

Owned ==
    \A t \in Tabs, g \in Targets :
        LET s == overlay[t].session
        IN s.target = g /\ g # NoTarget =>
             /\ s.n \in 1 .. presses[g]
             /\ \/ awaited[g].by = s.n
                \/ \E c \in calls : /\ c.tab = t /\ c.call.target = g /\ c.call.n = s.n
                                    /\ c.call.step \in GoSteps

Distinct ==
    \A t1, t2 \in Tabs :
        t1 # t2 /\ overlay[t1].session.target # NoTarget
            => overlay[t1].session # overlay[t2].session

GoInv == ServedBy /\ Owned /\ Distinct

-----------------------------------------------------------------------------
(***************************************************************************)
(* TargetInv: what a handler leaves undone.                                *)
(***************************************************************************)
\* The overlay o of tab t is in order but for the targets of H, if c is done.
InOrder(t, c, o, H) ==
    /\ o \in Overlays
    /\ \A g \in Targets : g \in o.news \cup o.declined \/ o.seen[g] # "none" => Asked(g)
    /\ \A g \in Targets \ H :
         Pending(g) /\ o.on /\ o.seen[g] \in Unserved
           => \/ g \in o.declined
              \/ \E d \in calls \ {c} : d.tab = t /\ d.call.target = g /\ d.call.step \in Trying

\* A handler may do r instead of c.
Answers(t, c, r) ==
    /\ r.o \in Overlays
    /\ r.c \subseteq Bodies
    /\ \A x \in r.c : Asked(x.target) /\ x.step # "over"
    /\ \A g \in Targets : g \in r.o.news \cup r.o.declined \/ r.o.seen[g] # "none" => Asked(g)
    /\ \A g \in Targets :
         Pending(g) /\ r.o.on /\ r.o.seen[g] \in Unserved
           => \/ g \in r.o.declined
              \/ \E x \in r.c : x.target = g /\ x.step \in Trying
              \/ \E d \in calls \ {c} : d.tab = t /\ d.call.target = g /\ d.call.step \in Trying

LEMMA DidInv ==
    ASSUME TargetInv, NEW t \in Tabs, NEW c, NEW r, Answers(t, c, r), Did(t, c, r),
           UNCHANGED awaited, presses' \in [Targets -> Nat], c.tab = t \/ c \notin calls
    PROVE  TargetInv'
  <1> DEFINE made == {[tab |-> t, call |-> x] : x \in r.c}
  <1>1. overlay' = [overlay EXCEPT ![t] = r.o] /\ calls' = (calls \ {c}) \cup made
    BY DEF Did
  <1>2. overlay' \in [Tabs -> Overlays] /\ overlay'[t] = r.o
        /\ \A u \in Tabs \ {t} : overlay'[u] = overlay[u]
    BY <1>1 DEF TargetInv, TargetTypes, Answers
  <1>3. \A x \in made : x \in [tab : Tabs, call : Bodies] /\ x.call \in r.c /\ x.tab = t
    BY DEF Answers
  <1>4. \A x \in r.c : \E m \in made : m.tab = t /\ m.call = x
    <2> TAKE x \in r.c
    <2> WITNESS [tab |-> t, call |-> x] \in made
    <2> QED OBVIOUS
  <1>5. TargetTypes'
    BY <1>1, <1>2, <1>3 DEF TargetInv, TargetTypes
  <1>6. OnlyAsked'
    BY <1>1, <1>2, <1>3 DEF TargetInv, TargetTypes, OnlyAsked, Answers, Asked, Pending
  <1>7. TriesOn'
    <2> SUFFICES ASSUME NEW u \in Tabs, NEW g \in Targets, Pending(g), overlay'[u].on,
                        overlay'[u].seen[g] \in Unserved
                 PROVE  g \in overlay'[u].declined \/ Tried(u, g)'
      BY DEF TriesOn, Pending
    <2>1. CASE u = t
      BY <2>1, <1>1, <1>2, <1>4 DEF Answers, Tried
    <2>2. CASE u # t
      BY <2>2, <1>1, <1>2 DEF TargetInv, TriesOn, Tried
    <2> QED BY <2>1, <2>2
  <1> QED BY <1>5, <1>6, <1>7 DEF TargetInv

LEMMA CallInOrder ==
    ASSUME TargetInv, NEW t \in Tabs, NEW c \in calls, c.tab = t
    PROVE  /\ c.call.target \in Targets /\ Asked(c.call.target)
           /\ InOrder(t, c, overlay[t], {c.call.target})
           /\ c.call.step \notin Trying => InOrder(t, c, overlay[t], {})
  <1>1. c \in [tab : Tabs, call : Bodies] /\ overlay[t] \in Overlays
    BY DEF TargetInv, TargetTypes
  <1>2. c.call.target \in Targets /\ Asked(c.call.target)
    BY <1>1 DEF TargetInv, OnlyAsked, Bodies
  <1>3. \A g \in Targets :
          Pending(g) /\ overlay[t].on /\ overlay[t].seen[g] \in Unserved
            => g \in overlay[t].declined \/ Tried(t, g)
    BY DEF TargetInv, TriesOn
  <1> QED BY <1>1, <1>2, <1>3 DEF InOrder, TargetInv, OnlyAsked, Tried

LEMMA TabInOrder ==
    ASSUME TargetInv, NEW t \in Tabs
    PROVE  /\ InOrder(t, NoCall, overlay[t], {})
           /\ NoCall \notin calls
  <1>1. overlay[t] \in Overlays
    BY DEF TargetInv, TargetTypes
  <1>2. NoCall \notin calls
    BY DEF TargetInv, TargetTypes, NoCall, Call, Bodies, Steps
  <1>3. \A g \in Targets :
          Pending(g) /\ overlay[t].on /\ overlay[t].seen[g] \in Unserved
            => g \in overlay[t].declined \/ Tried(t, g)
    BY DEF TargetInv, TriesOn
  <1> QED BY <1>1, <1>2, <1>3 DEF InOrder, TargetInv, OnlyAsked, Tried

\* A note about g is a matter of g.
LEMMA NoteInOrder ==
    ASSUME NEW t, NEW c, NEW o, NEW H, InOrder(t, c, o, H), NEW g \in Targets, Asked(g),
           NEW status \in Seen
    PROVE  /\ H \subseteq {g} => InOrder(t, c, noteAgentTarget(o, g, status), {g})
           /\ H \subseteq {g} /\ status \notin Unserved
                => InOrder(t, c, noteAgentTarget(o, g, status), {})
           /\ noteAgentTarget(o, g, status).on = o.on
           /\ noteAgentTarget(o, g, status).seen[g] = status
  <1>1. /\ noteAgentTarget(o, g, status) \in Overlays
        /\ noteAgentTarget(o, g, status).on = o.on
        /\ noteAgentTarget(o, g, status).news = o.news
        /\ noteAgentTarget(o, g, status).declined = o.declined
        /\ noteAgentTarget(o, g, status).seen[g] = status
        /\ \A h \in Targets \ {g} : noteAgentTarget(o, g, status).seen[h] = o.seen[h]
    BY DEF noteAgentTarget, Overlays, InOrder
  <1> QED BY <1>1 DEF InOrder

LEMMA NothingDone ==
    ASSUME NEW t, NEW c, NEW o, NEW H, InOrder(t, c, o, H), ~o.on \/ H = {}
    PROVE  Answers(t, c, Then(o, {}))
  BY DEF InOrder, Answers, Then

\* One call more, for the target that is not in order.
LEMMA OneCall ==
    ASSUME NEW t, NEW c, NEW o, NEW g \in Targets, InOrder(t, c, o, {g}), Asked(g),
           NEW step \in Trying
    PROVE  Answers(t, c, Then(o, {Call(g, step)}))
  <1> DEFINE r == Then(o, {Call(g, step)})
  <1> SUFFICES Answers(t, c, r)
    OBVIOUS
  <1>1. /\ r.o = o /\ r.c = {Call(g, step)}
        /\ Call(g, step) \in Bodies /\ Call(g, step).target = g /\ Call(g, step).step = step
        /\ step # "over"
    BY DEF Then, Call, Bodies, Trying, Steps
  <1> HIDE DEF r
  <1> QED BY <1>1 DEF InOrder, Answers

LEMMA DeclineAnswers ==
    ASSUME NEW t, NEW c, NEW o, NEW g \in Targets, InOrder(t, c, o, {g}), Asked(g)
    PROVE  /\ Answers(t, c, declineAgentTargetBusy(o, g))
           /\ Answers(t, c, reportAgentTargetUnresolvable(o, g))
  <1>1. Answers(t, c, reportAgentTargetUnresolvable(o, g))
    <2>1. InOrder(t, c, noteAgentTarget(o, g, "declined"), {g})
      BY NoteInOrder DEF Seen
    <2> QED BY <2>1, OneCall DEF reportAgentTargetUnresolvable, Trying
  <1>2. Answers(t, c, declineAgentTargetBusy(o, g))
    <2> DEFINE p == [o EXCEPT !.declined = @ \cup {g}]
               r == declineAgentTargetBusy(o, g)
    <2> SUFFICES Answers(t, c, r)
      OBVIOUS
    <2>1. /\ p \in Overlays /\ p.on = o.on /\ p.news = o.news /\ p.seen = o.seen
          /\ p.declined = o.declined \cup {g}
      BY DEF Overlays, InOrder
    <2>2. /\ r.o = noteAgentTarget(p, g, "declined") /\ r.c = {Call(g, "word")}
          /\ Call(g, "word") \in Bodies /\ Call(g, "word").target = g
          /\ Call(g, "word").step = "word"
      BY DEF declineAgentTargetBusy, Then, Call, Bodies, Steps
    <2> HIDE DEF p
    <2>3. /\ r.o \in Overlays /\ r.o.on = o.on /\ r.o.news = o.news
          /\ r.o.declined = o.declined \cup {g} /\ r.o.seen[g] = "declined"
          /\ \A h \in Targets \ {g} : r.o.seen[h] = o.seen[h]
      BY <2>1, <2>2 DEF Overlays, noteAgentTarget, Seen
    <2> HIDE DEF r
    <2> QED BY <2>2, <2>3 DEF InOrder, Answers
  <1> QED BY <1>1, <1>2

LEMMA ClaimingAnswers ==
    ASSUME NEW t, NEW c, NEW o, NEW g \in Targets, InOrder(t, c, o, {g}), Asked(g),
           NEW found \in BOOLEAN
    PROVE  Answers(t, c, Claiming(o, g, found))
  <1>1. CASE ~o.on
    BY <1>1, NothingDone DEF Claiming
  <1>2. CASE o.on /\ Busy(o, g)
    BY <1>2, DeclineAnswers DEF Claiming
  <1>3. CASE o.on /\ ~Busy(o, g) /\ ~found
    BY <1>3, DeclineAnswers DEF Claiming
  <1>4. CASE o.on /\ ~Busy(o, g) /\ found
    BY <1>4, OneCall DEF Claiming, Trying
  <1> QED BY <1>1, <1>2, <1>3, <1>4

LEMMA ActingAnswers ==
    ASSUME NEW t, NEW c, NEW o, NEW g \in Targets, InOrder(t, c, o, {g}), Asked(g),
           NEW found \in BOOLEAN
    PROVE  Answers(t, c, Acting(o, g, found))
  <1>1. CASE ~o.on
    BY <1>1, NothingDone DEF Acting
  <1>2. CASE o.on /\ Busy(o, g)
    BY <1>2, DeclineAnswers DEF Acting
  <1>3. CASE o.on /\ ~Busy(o, g) /\ ~found
    BY <1>3, DeclineAnswers DEF Acting
  <1>4. CASE o.on /\ ~Busy(o, g) /\ found /\ awaited[g].dryRun
    <2> DEFINE p == noteAgentTarget(o, g, "done")
    <2>1. Acting(o, g, found) = Then(p, {Call(g, "result")})
      BY <1>4 DEF Acting
    <2>3. InOrder(t, c, p, {})
      BY NoteInOrder DEF Seen, Unserved
    <2>4. /\ Call(g, "result") \in Bodies /\ Call(g, "result").target = g
          /\ Call(g, "result").step = "result"
      BY DEF Call, Bodies, Steps
    <2> HIDE DEF p
    <2> QED BY <2>1, <2>3, <2>4 DEF InOrder, Answers, Then
  <1>5. CASE o.on /\ ~Busy(o, g) /\ found /\ ~awaited[g].dryRun
    BY <1>5, OneCall DEF Acting, Trying
  <1> QED BY <1>1, <1>2, <1>3, <1>4, <1>5

\* What is not in order before stays so, and nothing else.
LEMMA RetryingKeeps ==
    ASSUME NEW t, NEW c, NEW o, NEW H, InOrder(t, c, o, H), NEW has \in SUBSET o.declined,
           NEW r, r = Retrying(o, has)
    PROVE  /\ r.o \in Overlays /\ r.c \subseteq Bodies
           /\ \A x \in r.c : Asked(x.target) /\ x.step # "over"
           /\ \A g \in Targets :
                 g \in r.o.news \cup r.o.declined \/ r.o.seen[g] # "none" => Asked(g)
           /\ \A g \in Targets \ H :
                Pending(g) /\ r.o.on /\ r.o.seen[g] \in Unserved
                  => \/ g \in r.o.declined
                     \/ \E x \in r.c : x.target = g /\ x.step \in Trying
                     \/ \E d \in calls \ {c} :
                           d.tab = t /\ d.call.target = g /\ d.call.step \in Trying
  <1>1. CASE o.declined = {} \/ Busy(o, NoTarget)
    <2>1. r.o = o /\ r.c = {}
      BY <1>1 DEF Retrying, Then
    <2> QED BY <2>1 DEF InOrder
  <1>2. CASE o.declined # {} /\ ~Busy(o, NoTarget)
    <2> DEFINE reports == {Call(g, "report") : g \in o.declined \ has}
               claims == {Call(g, "claim") : g \in o.declined \cap has}
               seen == [g \in Targets |-> IF o.on /\ g \in o.declined \ has THEN "declined"
                                          ELSE o.seen[g]]
    <2>1. o \in Overlays /\ o.declined \subseteq Targets
      BY DEF InOrder, Overlays
    <2>2. r.o = [o EXCEPT !.declined = {}, !.seen = seen]
          /\ r.c = IF o.on THEN reports \cup claims ELSE {}
      BY <1>2 DEF Retrying, Then
    <2>3. seen \in [Targets -> Seen]
      BY <2>1 DEF Overlays, Seen
    <2>4. /\ r.o \in Overlays /\ r.o.on = o.on /\ r.o.news = o.news /\ r.o.declined = {}
          /\ r.o.seen = seen
      BY <2>1, <2>2, <2>3 DEF Overlays
    <2>5. \A x \in reports \cup claims :
             x \in Bodies /\ x.target \in o.declined /\ x.step \in {"report", "claim"}
      BY <2>1 DEF Call, Bodies, Steps
    <2>6. \A g \in o.declined : \E x \in reports \cup claims : x.target = g
      <3> SUFFICES ASSUME NEW g \in o.declined PROVE \E x \in reports \cup claims : x.target = g
        OBVIOUS
      <3>1. CASE g \in has
        <4>1. Call(g, "claim") \in claims /\ Call(g, "claim").target = g
          BY <3>1 DEF Call
        <4> QED BY <4>1
      <3>2. CASE g \notin has
        <4>1. Call(g, "report") \in reports /\ Call(g, "report").target = g
          BY <3>2 DEF Call
        <4> QED BY <4>1
      <3> QED BY <3>1, <3>2
    <2> HIDE DEF reports, claims
    <2>7. \A g \in Targets : seen[g] = IF o.on /\ g \in o.declined \ has THEN "declined"
                                       ELSE o.seen[g]
      OBVIOUS
    <2> HIDE DEF seen
    <2>8. r.c \subseteq Bodies /\ \A x \in r.c : Asked(x.target) /\ x.step # "over"
      BY <2>1, <2>2, <2>5 DEF InOrder
    <2>9. \A g \in Targets : g \in r.o.news \cup r.o.declined \/ r.o.seen[g] # "none" => Asked(g)
      BY <2>1, <2>4, <2>7 DEF InOrder
    <2>10. ASSUME NEW g \in Targets \ H, Pending(g), r.o.on, r.o.seen[g] \in Unserved
           PROVE  \/ \E x \in r.c : x.target = g /\ x.step \in Trying
                  \/ \E d \in calls \ {c} :
                        d.tab = t /\ d.call.target = g /\ d.call.step \in Trying
      <3>1. CASE g \in o.declined
        BY <3>1, <2>2, <2>4, <2>5, <2>6, <2>10 DEF Trying
      <3>2. CASE g \notin o.declined
        BY <3>2, <2>4, <2>7, <2>10 DEF InOrder
      <3> QED BY <3>1, <3>2
    <2> QED BY <2>4, <2>8, <2>9, <2>10
  <1> QED BY <1>1, <1>2

LEMMA RetryingAnswers ==
    ASSUME NEW t, NEW c, NEW o, InOrder(t, c, o, {}), NEW has \in SUBSET o.declined
    PROVE  Answers(t, c, Retrying(o, has))
  BY RetryingKeeps DEF Answers

-----------------------------------------------------------------------------
LEMMA HandledInv ==
    ASSUME TargetInv, NEW t \in Tabs, NEW c, NEW r, Answers(t, c, r), Handled(t, c, r),
           c.tab = t \/ c \notin calls
    PROVE  TargetInv'
  BY DidInv DEF Handled, TargetInv, TargetTypes

LEMMA HearTargetInv ==
    ASSUME TargetInv, NEW t \in Tabs, NEW g \in Targets, handleAgentTarget(t, g)
    PROVE  TargetInv'
  <1> DEFINE o == [overlay[t] EXCEPT !.news = @ \ {g}]
             heard == noteAgentTarget(o, g, "heard")
  <1>1. InOrder(t, NoCall, overlay[t], {}) /\ NoCall \notin calls
    BY TabInOrder
  <1>2. g \in overlay[t].news /\ Asked(g)
    BY DEF handleAgentTarget, TargetInv, OnlyAsked
  <1>3. InOrder(t, NoCall, o, {})
    <2>1. /\ o \in Overlays /\ o.on = overlay[t].on /\ o.declined = overlay[t].declined
          /\ o.seen = overlay[t].seen /\ o.news \subseteq overlay[t].news
      BY <1>1 DEF InOrder, Overlays
    <2> HIDE DEF o
    <2> QED BY <1>1, <2>1 DEF InOrder
  <1>4. InOrder(t, NoCall, heard, {g})
    BY <1>2, <1>3, NoteInOrder DEF Seen
  <1>5. PICK found \in resolveAgentTargetElement :
          Handled(t, NoCall, CASE agentTargetTaken(o, g) -> Then(o, {})
                               [] ~agentTargetTaken(o, g) /\ Busy(o, g) ->
                                     declineAgentTargetBusy(heard, g)
                               [] ~agentTargetTaken(o, g) /\ ~Busy(o, g) /\ ~found ->
                                     reportAgentTargetUnresolvable(heard, g)
                               [] OTHER -> Then(heard, {Call(g, "start")}))
    BY DEF handleAgentTarget
  <1>6. /\ Answers(t, NoCall, Then(o, {}))
        /\ Answers(t, NoCall, declineAgentTargetBusy(heard, g))
        /\ Answers(t, NoCall, reportAgentTargetUnresolvable(heard, g))
        /\ Answers(t, NoCall, Then(heard, {Call(g, "start")}))
    BY <1>2, <1>3, <1>4, NothingDone, DeclineAnswers, OneCall DEF Trying
  <1> HIDE DEF o, heard
  <1>7. CASE agentTargetTaken(o, g)
    BY <1>1, <1>5, <1>6, <1>7, HandledInv
  <1>8. CASE ~agentTargetTaken(o, g) /\ Busy(o, g)
    BY <1>1, <1>5, <1>6, <1>8, HandledInv
  <1>9. CASE ~agentTargetTaken(o, g) /\ ~Busy(o, g) /\ ~found
    BY <1>1, <1>5, <1>6, <1>9, HandledInv
  <1>10. CASE ~agentTargetTaken(o, g) /\ ~Busy(o, g) /\ found
    BY <1>1, <1>5, <1>6, <1>10, HandledInv
  <1> QED BY <1>7, <1>8, <1>9, <1>10

LEMMA ClaimInv ==
    ASSUME TargetInv, NEW t \in Tabs, NEW c \in calls, c.tab = t,
           \/ claimAndActOnAgentTarget(t, c) \/ watchAgentTargetResolution(t, c)
    PROVE  TargetInv'
  <1> DEFINE g == c.call.target
             o == overlay[t]
  <1>1. g \in Targets /\ Asked(g) /\ InOrder(t, c, o, {g})
    BY CallInOrder
  <1>2. ASSUME NEW found \in BOOLEAN PROVE Answers(t, c, Claiming(o, g, found))
    BY <1>1, ClaimingAnswers
  <1>3. CASE claimAndActOnAgentTarget(t, c)
    BY <1>2, <1>3, HandledInv DEF claimAndActOnAgentTarget, resolveAgentTargetElement
  <1>4. CASE watchAgentTargetResolution(t, c)
    <2>1. PICK found \in BOOLEAN :
            Handled(t, c, IF ~o.on \/ agentTargetTaken(o, g) THEN Then(o, {})
                          ELSE Claiming(o, g, found))
      BY <1>4 DEF watchAgentTargetResolution, resolveAgentTargetElement
    <2>2. CASE ~o.on \/ agentTargetTaken(o, g)
      <3>1. ~o.on \/ o.seen[g] \notin Unserved
        BY <2>2 DEF agentTargetTaken, Unserved
      <3>2. Answers(t, c, Then(o, {}))
        BY <1>1, <3>1 DEF InOrder, Answers, Then
      <3> QED BY <2>1, <2>2, <3>2, HandledInv
    <2>3. CASE ~(~o.on \/ agentTargetTaken(o, g))
      BY <1>2, <2>1, <2>3, HandledInv
    <2> QED BY <2>2, <2>3
  <1> QED BY <1>3, <1>4

LEMMA AnsweredInv ==
    ASSUME TargetInv, NEW t \in Tabs, NEW c \in calls, c.tab = t, ClaimAnswered(t, c)
    PROVE  TargetInv'
  <1> DEFINE g == c.call.target
             o == overlay[t]
  <1>1. g \in Targets /\ Asked(g) /\ InOrder(t, c, o, {g})
    BY CallInOrder
  <1>2. \A status \in {"acting", "denied"} : InOrder(t, c, noteAgentTarget(o, g, status), {g})
    BY <1>1, NoteInOrder DEF Seen
  <1>3. CASE c.call.step = "granted"
    BY <1>1, <1>2, <1>3, ActingAnswers, HandledInv DEF ClaimAnswered, resolveAgentTargetElement
  <1>4. CASE c.call.step = "denied"
    <2>1. Answers(t, c, Then(noteAgentTarget(o, g, "denied"), {Call(g, "retry")}))
      BY <1>1, <1>2, OneCall DEF Trying
    <2> QED BY <1>4, <2>1, HandledInv DEF ClaimAnswered
  <1>5. CASE c.call.step = "over"
    <2>1. ~Pending(g)
      BY <1>5 DEF TargetInv, OnlyAsked
    <2>2. Answers(t, c, Then(noteAgentTarget(o, g, "denied"), {}))
      BY <1>2, <2>1 DEF InOrder, Answers, Then
    <2> QED BY <1>5, <2>2, HandledInv DEF ClaimAnswered
  <1> QED BY <1>3, <1>4, <1>5 DEF ClaimAnswered

LEMMA ScrolledInv ==
    ASSUME TargetInv, NEW t \in Tabs, NEW c \in calls, c.tab = t,
           Scrolled(t, c) \/ NotRenewed(t, c)
    PROVE  TargetInv'
  <1> DEFINE g == c.call.target
             o == overlay[t]
  <1>1. g \in Targets /\ Asked(g) /\ InOrder(t, c, o, {g})
    BY CallInOrder
  <1>2. CASE Scrolled(t, c) /\ o.on
    <2>1. Answers(t, c, Then(o, {Call(g, "renew")}))
      BY <1>1, OneCall DEF Trying
    <2> QED BY <1>2, <2>1, HandledInv DEF Scrolled
  <1>3. CASE Scrolled(t, c) /\ ~o.on
    <2>1. Answers(t, c, Then(o, {}))
      BY <1>1, <1>3, NothingDone
    <2> QED BY <1>3, <2>1, HandledInv DEF Scrolled
  <1>4. CASE NotRenewed(t, c)
    <2>1. Answers(t, c, Then(noteAgentTarget(o, g, "done"), {}))
      <3>1. InOrder(t, c, noteAgentTarget(o, g, "done"), {})
        BY <1>1, NoteInOrder DEF Seen, Unserved
      <3> QED BY <3>1, NothingDone
    <2> QED BY <1>4, <2>1, HandledInv DEF NotRenewed
  <1> QED BY <1>2, <1>3, <1>4

LEMMA EmittedInv ==
    ASSUME TargetInv, NEW t \in Tabs, NEW c \in calls, c.tab = t,
           Emitted(t, c) \/ GoRefused(t, c)
    PROVE  TargetInv'
  <1> DEFINE o == overlay[t]
  <1>1. c.call.step \notin Trying /\ InOrder(t, c, o, {})
    BY CallInOrder DEF Emitted, GoRefused, Trying
  <1>2. CASE Emitted(t, c)
    <2> DEFINE x == [c.call EXCEPT !.step = "generate"]
    <2>1. x \in Bodies /\ x.step = "generate" /\ Asked(x.target)
      BY CallInOrder DEF TargetInv, TargetTypes, Bodies, Steps
    <2> HIDE DEF x
    <2>2. Answers(t, c, Then(o, {x}))
      BY <1>1, <2>1 DEF InOrder, Answers, Then
    <2> QED BY <1>2, <2>2, HandledInv DEF Emitted, x
  <1>3. CASE GoRefused(t, c)
    <2> DEFINE p == abandonSupersededGo(o, c)
    <2>1. p = o \/ p = Freed(o)
      BY DEF abandonSupersededGo
    <2>2. InOrder(t, c, p, {})
      <3>1. /\ Freed(o) \in Overlays /\ Freed(o).on = o.on /\ Freed(o).news = o.news
            /\ Freed(o).seen = o.seen /\ Freed(o).declined = o.declined
        BY <1>1 DEF InOrder, Overlays, Freed, NoSession, TabSessions
      <3>2. InOrder(t, c, Freed(o), {})
        BY <1>1, <3>1 DEF InOrder
      <3> QED BY <1>1, <2>1, <3>2
    <2>3. Answers(t, c, Then(p, {}))
      BY <2>2, NothingDone
    <2>4. \A has \in SUBSET p.declined : Answers(t, c, Retrying(p, has))
      BY <2>2, RetryingAnswers
    <2>5. PICK has \in SUBSET p.declined :
            Handled(t, c, IF p = o THEN Then(p, {}) ELSE Retrying(p, has))
      BY <1>3 DEF GoRefused
    <2> HIDE DEF p
    <2>6. CASE p = o
      BY <2>3, <2>5, <2>6, HandledInv
    <2>7. CASE p # o
      BY <2>4, <2>5, <2>7, HandledInv
    <2> QED BY <2>6, <2>7
  <1> QED BY <1>2, <1>3

LEMMA RenewedInv ==
    ASSUME TargetInv, NEW t \in Tabs, NEW c \in calls, c.tab = t, Renewed(t, c)
    PROVE  TargetInv'
  <1> DEFINE g == c.call.target
             n == presses[g] + 1
             idle == [overlay[t] EXCEPT !.busy = FALSE]
  <1>1. PICK has \in SUBSET overlay[t].declined :
          LET r == Retrying(idle, has)
              o == noteAgentTarget(r.o, g, "done")
              made == [target |-> g, n |-> n]
          IN IF o.apply
             THEN /\ Did(t, c, Then(o, r.c \cup {Call(g, "failure")}))
                  /\ UNCHANGED presses
             ELSE /\ Did(t, c, Then([o EXCEPT !.busy = TRUE, !.session = made],
                                    r.c \cup {[target |-> g, step |-> "result", n |-> n],
                                              [target |-> g, step |-> "capture", n |-> n]}))
                  /\ presses' = [presses EXCEPT ![g] = n]
    BY DEF Renewed
  <1> DEFINE r == Retrying(idle, has)
             o == noteAgentTarget(r.o, g, "done")
             p == [o EXCEPT !.busy = TRUE, !.session = [target |-> g, n |-> n]]
             failed == r.c \cup {Call(g, "failure")}
             gone == r.c \cup {[target |-> g, step |-> "result", n |-> n],
                               [target |-> g, step |-> "capture", n |-> n]}
  <1>2. g \in Targets /\ Asked(g) /\ InOrder(t, c, overlay[t], {g}) /\ n \in Nat
    BY CallInOrder DEF TargetInv, TargetTypes
  <1>3. overlay[t].seen[g] \in Unserved /\ Pending(g) /\ overlay[t].on
          => g \in overlay[t].declined \/ Tried(t, g)
    BY <1>2 DEF TargetInv, TriesOn
  <1>4. /\ idle \in Overlays /\ idle.on = overlay[t].on /\ idle.news = overlay[t].news
        /\ idle.seen = overlay[t].seen /\ idle.declined = overlay[t].declined
    BY <1>2 DEF InOrder, Overlays
  <1> HIDE DEF idle
  <1>5. InOrder(t, c, idle, {g})
    BY <1>2, <1>4 DEF InOrder
  <1>6. /\ r.o \in Overlays /\ r.c \subseteq Bodies
        /\ \A x \in r.c : Asked(x.target) /\ x.step # "over"
        /\ \A h \in Targets : h \in r.o.news \cup r.o.declined \/ r.o.seen[h] # "none" => Asked(h)
        /\ \A h \in Targets \ {g} :
             Pending(h) /\ r.o.on /\ r.o.seen[h] \in Unserved
               => \/ h \in r.o.declined
                  \/ \E x \in r.c : x.target = h /\ x.step \in Trying
                  \/ \E d \in calls \ {c} :
                        d.tab = t /\ d.call.target = h /\ d.call.step \in Trying
    BY <1>4, <1>5, RetryingKeeps
  <1> HIDE DEF r
  <1>7. /\ o \in Overlays /\ o.on = r.o.on /\ o.news = r.o.news /\ o.declined = r.o.declined
        /\ o.seen[g] = "done" /\ \A h \in Targets \ {g} : o.seen[h] = r.o.seen[h]
    BY <1>2, <1>6 DEF noteAgentTarget, Overlays, Seen
  <1>8. \A x \in failed \cup gone : x \in Bodies /\ Asked(x.target) /\ x.step # "over"
    BY <1>2, <1>6 DEF Call, Bodies, Steps
  <1>9. /\ p \in Overlays /\ p.on = o.on /\ p.news = o.news /\ p.declined = o.declined
        /\ p.seen = o.seen
    BY <1>2, <1>7 DEF Overlays, TabSessions
  <1> HIDE DEF o
  <1>10. r.c \subseteq failed /\ r.c \subseteq gone
    OBVIOUS
  <1> HIDE DEF failed, gone, p
  <1>11. ASSUME NEW q, NEW made, q \in Overlays, q.on = o.on, q.news = o.news,
                q.declined = o.declined, q.seen = o.seen, r.c \subseteq made,
                \A x \in made : x \in Bodies /\ Asked(x.target) /\ x.step # "over"
         PROVE  Answers(t, c, Then(q, made))
    <2>1. ASSUME NEW h \in Targets, Pending(h), q.on, q.seen[h] \in Unserved
          PROVE  \/ h \in q.declined
                 \/ \E x \in made : x.target = h /\ x.step \in Trying
                 \/ \E d \in calls \ {c} :
                       d.tab = t /\ d.call.target = h /\ d.call.step \in Trying
      <3>1. h # g
        BY <1>7, <1>11, <2>1 DEF Unserved
      <3> QED BY <1>6, <1>7, <1>11, <2>1, <3>1
    <2>2. \A h \in Targets : h \in q.news \cup q.declined \/ q.seen[h] # "none" => Asked(h)
      BY <1>2, <1>6, <1>7, <1>11
    <2> QED BY <1>11, <2>1, <2>2 DEF Answers, Then
  <1>12. CASE o.apply
    <2>1. Did(t, c, Then(o, failed)) /\ UNCHANGED presses
      BY <1>1, <1>12 DEF o, r, failed
    <2>2. Answers(t, c, Then(o, failed))
      BY <1>7, <1>8, <1>10, <1>11
    <2> QED BY <2>1, <2>2, DidInv DEF Renewed, TargetInv, TargetTypes
  <1>13. CASE ~o.apply
    <2>1. Did(t, c, Then(p, gone)) /\ presses' = [presses EXCEPT ![g] = n]
      BY <1>1, <1>13 DEF o, r, p, gone
    <2>2. Answers(t, c, Then(p, gone))
      BY <1>8, <1>9, <1>10, <1>11
    <2> QED BY <1>2, <2>1, <2>2, DidInv DEF Renewed, TargetInv, TargetTypes
  <1> QED BY <1>12, <1>13

-----------------------------------------------------------------------------
LEMMA UserInv ==
    ASSUME TargetInv, NEW t \in Tabs,
           UserPicks(t) \/ UserGoes(t) \/ SessionEnds(t) \/ ApplyStarts(t) \/ ApplyStops(t)
    PROVE  TargetInv'
  <1> DEFINE o == overlay[t]
  <1>1. InOrder(t, NoCall, o, {}) /\ NoCall \notin calls
    BY TabInOrder
  <1>2. ASSUME NEW p \in Overlays, p.on = o.on, p.news = o.news, p.seen = o.seen,
               p.declined = o.declined
        PROVE  /\ InOrder(t, NoCall, p, {})
               /\ Answers(t, NoCall, Then(p, {}))
               /\ \A has \in SUBSET o.declined : Answers(t, NoCall, Retrying(p, has))
    <2>1. InOrder(t, NoCall, p, {})
      BY <1>1, <1>2 DEF InOrder
    <2> QED BY <2>1, <1>2, NothingDone, RetryingAnswers
  <1>3. o \in Overlays
    BY <1>1 DEF InOrder
  <1>4. CASE UserPicks(t)
    BY <1>1, <1>2, <1>3, <1>4, HandledInv DEF UserPicks
  <1>5. CASE UserGoes(t)
    <2> DEFINE p == [o EXCEPT !.busy = TRUE, !.session = UserSession]
    <2>1. /\ p \in Overlays /\ p.on = o.on /\ p.news = o.news /\ p.seen = o.seen
          /\ p.declined = o.declined
      BY <1>3 DEF Overlays, UserSession, TabSessions
    <2>2. Did(t, NoCall, Then(p, {})) /\ UNCHANGED <<awaited, presses>>
      BY <1>5 DEF UserGoes
    <2> HIDE DEF p
    <2> QED BY <1>1, <1>2, <2>1, <2>2, DidInv DEF TargetInv, TargetTypes
  <1>6. CASE SessionEnds(t)
    <2>1. /\ Freed(o) \in Overlays /\ Freed(o).on = o.on /\ Freed(o).news = o.news
          /\ Freed(o).seen = o.seen /\ Freed(o).declined = o.declined
      BY <1>3 DEF Overlays, Freed, NoSession, TabSessions
    <2> QED BY <1>1, <1>2, <1>6, <2>1, HandledInv DEF SessionEnds
  <1>7. CASE ApplyStarts(t)
    <2> DEFINE p == [o EXCEPT !.apply = TRUE]
    <2>1. /\ p \in Overlays /\ p.on = o.on /\ p.news = o.news /\ p.seen = o.seen
          /\ p.declined = o.declined
      BY <1>3 DEF Overlays
    <2>2. Did(t, NoCall, Then(p, {})) /\ UNCHANGED <<awaited, presses>>
      BY <1>7 DEF ApplyStarts
    <2> HIDE DEF p
    <2> QED BY <1>1, <1>2, <2>1, <2>2, DidInv DEF TargetInv, TargetTypes
  <1>8. CASE ApplyStops(t)
    <2> DEFINE p == [o EXCEPT !.apply = FALSE]
    <2>1. /\ p \in Overlays /\ p.on = o.on /\ p.news = o.news /\ p.seen = o.seen
          /\ p.declined = o.declined
      BY <1>3 DEF Overlays
    <2>2. Handled(t, NoCall, Then(p, {}))
      BY <1>8 DEF ApplyStops
    <2> HIDE DEF p
    <2> QED BY <1>1, <1>2, <2>1, <2>2, HandledInv
  <1> QED BY <1>4, <1>5, <1>6, <1>7, <1>8

\* Of an overlay only what it is told changes when its stream drops or opens.
LEMMA StreamMoves ==
    ASSUME TargetInv, NEW t \in Tabs, StreamDrops(t) \/ StreamOpens(t)
    PROVE  /\ overlay' \in [Tabs -> Overlays]
           /\ \A u \in Tabs \ {t} : overlay'[u] = overlay[u]
           /\ overlay'[t].on = overlay[t].on /\ overlay'[t].seen = overlay[t].seen
           /\ overlay'[t].declined = overlay[t].declined
           /\ overlay'[t].session = overlay[t].session
           /\ overlay'[t].news \subseteq {g \in Targets : Pending(g)}
           /\ UNCHANGED <<calls, awaited, presses>>
  <1> DEFINE p == overlay[t]
  <1>1. overlay \in [Tabs -> Overlays] /\ p \in Overlays
    BY DEF TargetInv, TargetTypes
  <1>3. PICK up \in BOOLEAN, told \in SUBSET {g \in Targets : Pending(g)} :
           overlay' = [overlay EXCEPT ![t] = [[p EXCEPT !.open = up] EXCEPT !.news = told]]
    BY <1>1 DEF StreamDrops, StreamOpens
  <1> DEFINE q == [[p EXCEPT !.open = up] EXCEPT !.news = told]
  <1>4. /\ q \in Overlays /\ q.on = p.on /\ q.seen = p.seen /\ q.declined = p.declined
        /\ q.news = told /\ q.session = p.session
    BY <1>1 DEF Overlays
  <1>5. overlay' = [overlay EXCEPT ![t] = q] /\ UNCHANGED <<calls, awaited, presses>>
    BY <1>3 DEF StreamDrops, StreamOpens
  <1> HIDE DEF q
  <1> QED BY <1>1, <1>4, <1>5

LEMMA StreamInv ==
    ASSUME TargetInv, NEW t \in Tabs, StreamDrops(t) \/ StreamOpens(t)
    PROVE  TargetInv'
  <1>1. /\ overlay' \in [Tabs -> Overlays]
        /\ \A u \in Tabs \ {t} : overlay'[u] = overlay[u]
        /\ overlay'[t].on = overlay[t].on /\ overlay'[t].seen = overlay[t].seen
        /\ overlay'[t].declined = overlay[t].declined
        /\ overlay'[t].news \subseteq {g \in Targets : Pending(g)}
        /\ UNCHANGED <<calls, awaited, presses>>
    BY StreamMoves
  <1>2. OnlyAsked'
    BY <1>1 DEF TargetInv, OnlyAsked, Asked, Pending
  <1>3. TriesOn'
    BY <1>1 DEF TargetInv, TriesOn, Tried, Pending
  <1> QED BY <1>1, <1>2, <1>3 DEF TargetInv, TargetTypes

LEMMA GivesUpInv ==
    ASSUME TargetInv, NEW t \in Tabs, GivesUp(t)
    PROVE  TargetInv'
  <1> DEFINE o == overlay[t]
             p == [o EXCEPT !.on = FALSE]
  <1>1. InOrder(t, NoCall, o, {}) /\ NoCall \notin calls
    BY TabInOrder
  <1>2. /\ p \in Overlays /\ ~p.on /\ p.news = o.news /\ p.seen = o.seen
        /\ p.declined = o.declined
    BY <1>1 DEF InOrder, Overlays
  <1>3. Handled(t, NoCall, Retrying(p, {}))
    BY DEF GivesUp
  <1> HIDE DEF p
  <1>4. InOrder(t, NoCall, p, {})
    BY <1>1, <1>2 DEF InOrder
  <1>5. Answers(t, NoCall, Retrying(p, {}))
    BY <1>4, RetryingAnswers
  <1> QED BY <1>1, <1>3, <1>5, HandledInv

LEMMA TabReloadsInv ==
    ASSUME TargetInv, NEW t \in Tabs, TabReloads(t)
    PROVE  TargetInv'
  <1> DEFINE o == overlay'[t]
  <1>1. /\ overlay' \in [Tabs -> Overlays]
        /\ \A u \in Tabs \ {t} : overlay'[u] = overlay[u]
        /\ o.news = {} /\ o.declined = {} /\ \A g \in Targets : o.seen[g] = "none"
    BY DEF TargetInv, TargetTypes, Overlays, TabReloads, Fresh, NoSession, TabSessions, Seen
  <1>2. /\ awaited' \in [Targets -> Requests]
        /\ \A g \in Targets : awaited'[g].phase = awaited[g].phase
    BY DEF TabReloads, TargetInv, TargetTypes, Requests
  <1>3. calls' = {c \in calls : c.tab # t} /\ UNCHANGED presses
    BY DEF TabReloads
  <1>4. TargetTypes'
    BY <1>1, <1>2, <1>3 DEF TargetInv, TargetTypes
  <1>5. OnlyAsked'
    <2>1. \A c \in calls : c.call.target \in Targets
      BY DEF TargetInv, TargetTypes, Bodies
    <2> QED BY <1>1, <1>2, <1>3, <2>1 DEF TargetInv, OnlyAsked, Asked, Pending
  <1>6. TriesOn'
    BY <1>1, <1>2, <1>3 DEF TargetInv, TriesOn, Tried, Pending, Unserved
  <1> QED BY <1>4, <1>5, <1>6 DEF TargetInv

-----------------------------------------------------------------------------
LEMMA AgentAsksInv ==
    ASSUME TargetInv, NEW g \in Targets, AgentAsks(g)
    PROVE  TargetInv'
  <1>1. /\ overlay' \in [Tabs -> Overlays]
        /\ \A t \in Tabs : /\ overlay'[t].on = overlay[t].on /\ overlay'[t].seen = overlay[t].seen
                           /\ overlay'[t].declined = overlay[t].declined
                           /\ overlay'[t].news \subseteq overlay[t].news \cup {g}
    <2> DEFINE told(t) == IF overlay[t].open THEN overlay[t].news \cup {g} ELSE overlay[t].news
    <2>1. \A t \in Tabs : /\ [overlay[t] EXCEPT !.news = told(t)] \in Overlays
                          /\ [overlay[t] EXCEPT !.news = told(t)].on = overlay[t].on
                          /\ [overlay[t] EXCEPT !.news = told(t)].seen = overlay[t].seen
                          /\ [overlay[t] EXCEPT !.news = told(t)].declined = overlay[t].declined
                          /\ [overlay[t] EXCEPT !.news = told(t)].news = told(t)
      BY DEF TargetInv, TargetTypes, Overlays
    <2>2. overlay' = [t \in Tabs |-> [overlay[t] EXCEPT !.news = told(t)]]
      BY DEF AgentAsks
    <2> QED BY <2>1, <2>2
  <1>2. /\ awaited' \in [Targets -> Requests] /\ awaited'[g].phase = "pending"
        /\ awaited[g].phase = "new"
        /\ \A h \in Targets \ {g} : awaited'[h] = awaited[h]
    <2> DEFINE w == awaited[g]
    <2>1. awaited \in [Targets -> Requests] /\ w \in Requests
      BY DEF TargetInv, TargetTypes
    <2>2. PICK dry \in BOOLEAN :
            awaited' = [awaited EXCEPT ![g] = [[w EXCEPT !.phase = "pending"] EXCEPT !.dryRun = dry]]
      BY <2>1 DEF AgentAsks
    <2>3. /\ [[w EXCEPT !.phase = "pending"] EXCEPT !.dryRun = dry] \in Requests
          /\ [[w EXCEPT !.phase = "pending"] EXCEPT !.dryRun = dry].phase = "pending"
      BY <2>1 DEF Requests
    <2> QED BY <2>1, <2>2, <2>3 DEF AgentAsks
  <1>3. UNCHANGED <<calls, presses>>
    BY DEF AgentAsks
  <1>4. \A c \in calls : c.call.target \in Targets \ {g}
    BY <1>2 DEF TargetInv, TargetTypes, OnlyAsked, Asked, Bodies
  <1>5. \A t \in Tabs : overlay[t].seen[g] = "none"
    BY <1>2 DEF TargetInv, OnlyAsked, Asked
  <1>6. OnlyAsked'
    BY <1>1, <1>2, <1>3, <1>4 DEF TargetInv, OnlyAsked, Asked, Pending
  <1>7. TriesOn'
    BY <1>1, <1>2, <1>3, <1>5 DEF TargetInv, TriesOn, Tried, Pending, Unserved
  <1> QED BY <1>1, <1>2, <1>3, <1>6, <1>7 DEF TargetInv, TargetTypes

\* No request becomes pending again, and none is forgotten.
LEMMA HelperInv ==
    ASSUME TargetInv, NEW g \in Targets, NEW w \in Requests, Helper(g, w),
           w.phase = "pending" => Pending(g), w.phase = "new" => ~Asked(g)
    PROVE  /\ awaited' \in [Targets -> Requests] /\ UNCHANGED <<overlay, presses>>
           /\ \A h \in Targets : (Asked(h) => Asked(h)') /\ (Pending(h)' => Pending(h))
  BY DEF Helper, TargetInv, TargetTypes, Asked, Pending

LEMMA AnswerInv ==
    ASSUME TargetInv, NEW c \in calls, NEW step \in Steps \cup {"none"}, Answered(c, step),
           awaited' \in [Targets -> Requests], UNCHANGED <<overlay, presses>>,
           \A h \in Targets : (Asked(h) => Asked(h)') /\ (Pending(h)' => Pending(h)),
           step = "over" => ~Pending(c.call.target),
           \/ step \in Trying
           \/ c.call.step \notin Trying
           \/ ~Pending(c.call.target)
    PROVE  TargetInv'
  <1> DEFINE d == [c EXCEPT !.call.step = step]
  <1>1. c \in [tab : Tabs, call : Bodies] /\ c.call.target \in Targets
    BY DEF TargetInv, TargetTypes, Bodies
  <1>2. /\ d.tab = c.tab /\ d.call.target = c.call.target /\ d.call.step = step
        /\ step # "none" => d \in [tab : Tabs, call : Bodies]
    BY <1>1 DEF Bodies
  <1>3. calls' = (calls \ {c}) \cup (IF step = "none" THEN {} ELSE {d})
    BY DEF Answered
  <1>4. step \in Trying => step # "none"
    BY DEF Trying
  <1> HIDE DEF d
  <1>5. TargetTypes'
    BY <1>2, <1>3 DEF TargetInv, TargetTypes
  <1>6. \A e \in calls : e.call.target \in Targets
    BY DEF TargetInv, TargetTypes, Bodies
  <1>7. OnlyAsked'
    BY <1>1, <1>2, <1>3, <1>6 DEF TargetInv, OnlyAsked
  <1>8. TriesOn'
    BY <1>1, <1>2, <1>3, <1>4 DEF TargetInv, TriesOn, Tried
  <1> QED BY <1>5, <1>7, <1>8 DEF TargetInv

LEMMA ServedInv ==
    ASSUME TargetInv, NEW c \in calls,
           ClaimServed(c) \/ WordServed(c) \/ ResultServed(c) \/ GenerateServed(c)
    PROVE  TargetInv'
  <1> DEFINE g == c.call.target
             w == awaited[g]
  <1>1. c \in [tab : Tabs, call : Bodies] /\ g \in Targets /\ w \in Requests /\ Asked(g)
    BY DEF TargetInv, TargetTypes, OnlyAsked, Bodies
  <1>2. c.call.n \in Nat /\ c.tab \in Tabs
    BY <1>1 DEF Bodies
  <1>3. CASE ClaimServed(c)
    <2> DEFINE granted == Pending(g) /\ w.holder \in {NoTab, c.tab}
               v == IF granted THEN [w EXCEPT !.holder = c.tab] ELSE w
               step == IF c.call.step = "claim"
                       THEN IF granted THEN "granted" ELSE IF Pending(g) THEN "denied" ELSE "over"
                       ELSE IF granted THEN "renewed" ELSE "lapsed"
    <2>1. v \in Requests /\ v.phase = w.phase
      BY <1>1, <1>2 DEF Requests
    <2>2. Helper(g, v) /\ Answered(c, step)
      BY <1>3 DEF ClaimServed
    <2>3. step \in Trying \cup {"over"} /\ step \in Steps /\ (step = "over" => ~Pending(g))
      BY DEF Trying, Steps
    <2> HIDE DEF v, step
    <2>4. /\ awaited' \in [Targets -> Requests] /\ UNCHANGED <<overlay, presses>>
          /\ \A h \in Targets : (Asked(h) => Asked(h)') /\ (Pending(h)' => Pending(h))
      BY <1>1, <2>1, <2>2, HelperInv DEF Pending, Asked
    <2> QED BY <2>2, <2>3, <2>4, AnswerInv
  <1>4. CASE WordServed(c)
    <2> DEFINE v == [w EXCEPT !.holder = IF @ = c.tab THEN NoTab ELSE @]
               step == IF c.call.step = "report" /\ Pending(g) THEN "watch" ELSE "none"
    <2>1. v \in Requests /\ v.phase = w.phase
      BY <1>1, <1>2 DEF Requests
    <2>2. Helper(g, v) /\ Answered(c, step)
      BY <1>4 DEF WordServed
    <2>3. /\ step \in Steps \cup {"none"} /\ step # "over"
          /\ step \in Trying \/ c.call.step \notin Trying \/ ~Pending(g)
      BY <1>4 DEF WordServed, Trying, Steps
    <2> HIDE DEF v, step
    <2>4. /\ awaited' \in [Targets -> Requests] /\ UNCHANGED <<overlay, presses>>
          /\ \A h \in Targets : (Asked(h) => Asked(h)') /\ (Pending(h)' => Pending(h))
      BY <1>1, <2>1, <2>2, HelperInv DEF Pending, Asked
    <2> QED BY <2>2, <2>3, <2>4, AnswerInv
  <1>5. CASE ResultServed(c)
    <2> DEFINE v == IF Pending(g) THEN [w EXCEPT !.phase = "served", !.by = c.call.n] ELSE w
    <2>1. v \in Requests /\ v.phase \in {w.phase, "served"}
      BY <1>1, <1>2 DEF Requests
    <2>2. Helper(g, v) /\ Answered(c, "none") /\ c.call.step \notin Trying
      BY <1>5 DEF ResultServed, Trying
    <2> HIDE DEF v
    <2>3. /\ awaited' \in [Targets -> Requests] /\ UNCHANGED <<overlay, presses>>
          /\ \A h \in Targets : (Asked(h) => Asked(h)') /\ (Pending(h)' => Pending(h))
      BY <1>1, <2>1, <2>2, HelperInv DEF Pending, Asked
    <2> QED BY <2>2, <2>3, AnswerInv
  <1>6. CASE GenerateServed(c)
    <2> DEFINE opens == Pending(g) \/ w.by = c.call.n
               v == IF opens THEN [w EXCEPT !.phase = "served", !.by = c.call.n,
                                            !.session = TRUE] ELSE w
               step == IF opens THEN "none" ELSE "superseded"
    <2>1. v \in Requests /\ v.phase \in {w.phase, "served"}
      BY <1>1, <1>2 DEF Requests
    <2>2. Helper(g, v) /\ Answered(c, step) /\ c.call.step \notin Trying
      BY <1>6 DEF GenerateServed, Trying
    <2>3. step \in Steps \cup {"none"} /\ step # "over"
      BY DEF Steps
    <2> HIDE DEF v, step
    <2>4. /\ awaited' \in [Targets -> Requests] /\ UNCHANGED <<overlay, presses>>
          /\ \A h \in Targets : (Asked(h) => Asked(h)') /\ (Pending(h)' => Pending(h))
      BY <1>1, <2>1, <2>2, HelperInv DEF Pending, Asked
    <2> QED BY <2>2, <2>3, <2>4, AnswerInv
  <1> QED BY <1>3, <1>4, <1>5, <1>6

LEMMA LapseInv ==
    ASSUME TargetInv, NEW g \in Targets, LeaseLapses(g) \/ RequestEnds(g)
    PROVE  TargetInv'
  <1> DEFINE w == awaited[g]
  <1>1. w \in Requests
    BY DEF TargetInv, TargetTypes
  <1>2. UNCHANGED calls
    BY DEF LeaseLapses, RequestEnds
  <1>3. PICK v \in Requests : /\ Helper(g, v)
                              /\ v.phase = "pending" => Pending(g)
                              /\ v.phase = "new" => ~Asked(g)
    <2>1. CASE LeaseLapses(g)
      <3>1. [w EXCEPT !.holder = NoTab] \in Requests /\ [w EXCEPT !.holder = NoTab].phase = w.phase
        BY <1>1 DEF Requests
      <3> QED BY <2>1, <3>1 DEF LeaseLapses, Pending, Asked
    <2>2. CASE RequestEnds(g)
      <3>1. /\ [w EXCEPT !.phase = "refused"] \in Requests
            /\ [w EXCEPT !.phase = "refused"].phase = "refused"
        BY <1>1 DEF Requests
      <3> QED BY <2>2, <3>1 DEF RequestEnds
    <2> QED BY <2>1, <2>2
  <1>4. /\ awaited' \in [Targets -> Requests] /\ UNCHANGED <<overlay, presses>>
        /\ \A h \in Targets : (Asked(h) => Asked(h)') /\ (Pending(h)' => Pending(h))
    BY <1>3, HelperInv
  <1>5. \A c \in calls : c.call.target \in Targets
    BY DEF TargetInv, TargetTypes, Bodies
  <1> QED BY <1>2, <1>4, <1>5 DEF TargetInv, TargetTypes, OnlyAsked, TriesOn, Tried

-----------------------------------------------------------------------------
LEMMA TargetInvInit == TargetInit => TargetInv
  <1> SUFFICES ASSUME TargetInit PROVE TargetInv
    OBVIOUS
  <1>1. Fresh \in Overlays /\ Fresh.news = {} /\ Fresh.declined = {}
        /\ \A g \in Targets : Fresh.seen[g] = "none"
    BY DEF Fresh, Overlays, NoSession, TabSessions, Seen
  <1>2. \A t \in Tabs : overlay[t] = Fresh
    BY DEF TargetInit
  <1> QED BY <1>1, <1>2 DEF TargetInit, TargetInv, TargetTypes, Requests, OnlyAsked, Asked, TriesOn,
                            Unserved

LEMMA TargetInvStep == TargetInv /\ [TargetNext]_targetVars => TargetInv'
  <1> SUFFICES ASSUME TargetInv, [TargetNext]_targetVars PROVE TargetInv'
    OBVIOUS
  <1>1. ASSUME NEW t \in Tabs, Tab(t) PROVE TargetInv'
    <2>1. ASSUME NEW c \in calls, c.tab = t,
                 \/ claimAndActOnAgentTarget(t, c) \/ ClaimAnswered(t, c)
                 \/ watchAgentTargetResolution(t, c) \/ Scrolled(t, c) \/ Renewed(t, c)
                 \/ NotRenewed(t, c) \/ Emitted(t, c) \/ GoRefused(t, c)
          PROVE  TargetInv'
      BY <2>1, ClaimInv, AnsweredInv, ScrolledInv, RenewedInv, EmittedInv
    <2> QED BY <1>1, <2>1, HearTargetInv, UserInv, TabReloadsInv, StreamInv, GivesUpInv DEF Tab
  <1>2. CASE HelperServes
    BY <1>2, AgentAsksInv, LapseInv, ServedInv DEF HelperServes
  <1>3. CASE UNCHANGED targetVars
    BY <1>3 DEF targetVars, TargetInv, TargetTypes, OnlyAsked, Asked, TriesOn, Tried, Pending
  <1> QED BY <1>1, <1>2, <1>3 DEF TargetNext

LEMMA TargetInvTries == TargetInv => FreeTabKeepsTrying
  BY DEF TargetInv, TriesOn, FreeTabKeepsTrying, Tried, Unserved

\* A tab that could serve a request goes on trying until it is served, however claims,
\* denials, leases that lapse, reloads and missing elements follow one another
\* (claimAndActOnAgentTarget, retryDeclinedAgentTargets, watchAgentTargetResolution).
THEOREM FreeTabsKeepTrying == TargetSpec => []FreeTabKeepsTrying
  <1>1. TargetInit => TargetInv
    BY TargetInvInit
  <1>2. TargetInv /\ [TargetNext]_targetVars => TargetInv'
    BY TargetInvStep
  <1> QED BY <1>1, <1>2, TargetInvTries, PTL DEF TargetSpec

-----------------------------------------------------------------------------
(***************************************************************************)
(* GoInv: whose session of a target a tab has.                             *)
(***************************************************************************)
\* The generate event of the n-th Go for g, of tab t, has not been answered.
Going(t, g, n) ==
    \E c \in calls : /\ c.tab = t /\ c.call.target = g /\ c.call.n = n
                     /\ c.call.step \in GoSteps

\* No tab begins a session of a target,
NoneBegins ==
    \A u \in Tabs : \/ overlay'[u].session = overlay[u].session
                    \/ overlay'[u].session.target = NoTarget

\* no Go that answered a request gives way to another,
AnswersStay ==
    \A g \in Targets : \/ awaited'[g].by = awaited[g].by /\ awaited'[g].phase = awaited[g].phase
                       \/ awaited[g].by = 0 /\ (awaited'[g].by = 0 \/ awaited'[g].phase = "served")

\* and a Go goes on, unless it answered its request or lost its session.
GoesOn ==
    \A u \in Tabs, g \in Targets, n \in Nat :
        /\ Going(u, g, n) /\ g # NoTarget
        /\ overlay'[u].session.target = g /\ overlay'[u].session.n = n
        => Going(u, g, n)' \/ awaited'[g].by = n

LEMMA GoKept ==
    ASSUME TargetInv, TargetInv', GoInv, UNCHANGED presses, NoneBegins, AnswersStay, GoesOn
    PROVE  GoInv'
  <1>1. \A u \in Tabs : overlay[u].session \in TabSessions /\ overlay'[u].session \in TabSessions
    BY DEF TargetInv, TargetTypes, Overlays
  <1>2. \A g \in Targets : presses[g] \in Nat
    BY DEF TargetInv, TargetTypes
  <1>3. ServedBy'
    BY DEF GoInv, ServedBy, AnswersStay
  <1>4. ASSUME NEW u \in Tabs, NEW g \in Targets, overlay'[u].session.target = g, g # NoTarget
        PROVE  /\ overlay'[u].session.n \in 1 .. presses'[g]
               /\ (awaited[g].by = overlay[u].session.n \/ Going(u, g, overlay[u].session.n))'
    <2> DEFINE s == overlay[u].session
    <2>1. overlay'[u].session = s
      BY <1>4 DEF NoneBegins
    <2>2. s.n \in 1 .. presses[g] /\ (awaited[g].by = s.n \/ Going(u, g, s.n))
      BY <1>4, <2>1 DEF GoInv, Owned, Going
    <2>3. s.n \in Nat \ {0}
      BY <1>2, <2>2
    <2>4. awaited[g].by = s.n => awaited'[g].by = s.n
      BY <2>3 DEF AnswersStay
    <2>5. Going(u, g, s.n) => Going(u, g, s.n)' \/ awaited'[g].by = s.n
      BY <1>4, <2>1, <2>3 DEF GoesOn
    <2>6. Going(u, g, overlay[u].session.n)' <=> Going(u, g, s.n)'
      BY <2>1 DEF Going
    <2> HIDE DEF s
    <2> QED BY <2>1, <2>2, <2>4, <2>5, <2>6
  <1>5. Owned'
    BY <1>4 DEF Owned, Going
  <1>6. Distinct'
    BY <1>1 DEF GoInv, Distinct, NoneBegins
  <1> QED BY <1>3, <1>5, <1>6 DEF GoInv

\* What a tab does that is no Go of a target.
LEMMA GoHandled ==
    ASSUME TargetInv, TargetInv', GoInv, NEW t \in Tabs, NEW c, NEW r, Did(t, c, r),
           UNCHANGED <<awaited, presses>>,
           r.o.session = overlay[t].session \/ r.o.session.target = NoTarget,
           \/ c \notin calls
           \/ c.call.step \notin GoSteps
           \/ \E x \in r.c : /\ c.tab = t /\ x.target = c.call.target /\ x.n = c.call.n
                            /\ x.step \in GoSteps
           \/ c.tab = t /\ ~(/\ r.o.session.target = c.call.target /\ r.o.session.n = c.call.n
                            /\ c.call.target # NoTarget)
    PROVE  GoInv'
  <1> DEFINE made == {[tab |-> t, call |-> x] : x \in r.c}
  <1>1. overlay' = [overlay EXCEPT ![t] = r.o] /\ calls' = (calls \ {c}) \cup made
    BY DEF Did
  <1>2. overlay'[t] = r.o /\ \A u \in Tabs \ {t} : overlay'[u] = overlay[u]
    BY <1>1 DEF TargetInv, TargetTypes
  <1>3. \A x \in r.c : \E m \in made : m.tab = t /\ m.call = x
    <2> TAKE x \in r.c
    <2> WITNESS [tab |-> t, call |-> x] \in made
    <2> QED OBVIOUS
  <1> HIDE DEF made
  <1>4. ASSUME NEW u \in Tabs, NEW g \in Targets, NEW n \in Nat, Going(u, g, n), g # NoTarget,
               overlay'[u].session.target = g, overlay'[u].session.n = n
        PROVE  Going(u, g, n)'
    <2>1. PICK d \in calls : d.tab = u /\ d.call.target = g /\ d.call.n = n /\ d.call.step \in GoSteps
      BY <1>4 DEF Going
    <2>2. CASE d # c
      BY <1>1, <2>1, <2>2 DEF Going
    <2>3. CASE d = c
      BY <1>1, <1>2, <1>3, <1>4, <2>1, <2>3 DEF Going
    <2> QED BY <2>2, <2>3
  <1>5. NoneBegins
    BY <1>2 DEF NoneBegins
  <1>6. AnswersStay
    <2>1. awaited' = awaited
      OBVIOUS
    <2> QED BY <2>1 DEF AnswersStay
  <1>7. GoesOn
    BY <1>4 DEF GoesOn
  <1> QED BY <1>5, <1>6, <1>7, GoKept

LEMMA RetryingSession ==
    ASSUME NEW o \in Overlays, NEW has
    PROVE  Retrying(o, has).o.session = o.session
  BY DEF Retrying, Then, Overlays

LEMMA SessionStays ==
    ASSUME NEW o \in Overlays, NEW g \in Targets, NEW status \in Seen, NEW found \in BOOLEAN,
           NEW has \in SUBSET o.declined
    PROVE  /\ noteAgentTarget(o, g, status) \in Overlays
           /\ noteAgentTarget(o, g, status).session = o.session
           /\ declineAgentTargetBusy(o, g).o.session = o.session
           /\ reportAgentTargetUnresolvable(o, g).o.session = o.session
           /\ Claiming(o, g, found).o.session = o.session
           /\ Acting(o, g, found).o.session = o.session
           /\ Retrying(o, has).o.session = o.session
  <1>1. ASSUME NEW p \in Overlays, NEW s \in Seen
        PROVE  /\ noteAgentTarget(p, g, s) \in Overlays
               /\ noteAgentTarget(p, g, s).session = p.session
    BY DEF noteAgentTarget, Overlays
  <1>2. declineAgentTargetBusy(o, g).o.session = o.session
    <2> DEFINE p == [o EXCEPT !.declined = @ \cup {g}]
    <2>1. p \in Overlays /\ p.session = o.session
      BY DEF Overlays
    <2>2. declineAgentTargetBusy(o, g).o = noteAgentTarget(p, g, "declined")
      BY DEF declineAgentTargetBusy, Then
    <2> QED BY <1>1, <2>1, <2>2 DEF Seen
  <1>3. reportAgentTargetUnresolvable(o, g).o.session = o.session
    BY <1>1 DEF reportAgentTargetUnresolvable, Then, Seen
  <1>4. Claiming(o, g, found).o.session = o.session
    BY <1>2, <1>3 DEF Claiming, Then
  <1>5. Acting(o, g, found).o.session = o.session
    BY <1>1, <1>2, <1>3 DEF Acting, Then, Seen
  <1>6. Retrying(o, has).o.session = o.session
    BY RetryingSession
  <1> QED BY <1>1, <1>2, <1>3, <1>4, <1>5, <1>6

\* A call that is no Go's, and a handler that leaves the session alone.
LEMMA GoCalls ==
    ASSUME TargetInv, TargetInv', GoInv, NEW t \in Tabs, NEW c \in calls, c.tab = t,
           \/ claimAndActOnAgentTarget(t, c) \/ ClaimAnswered(t, c)
           \/ watchAgentTargetResolution(t, c) \/ Scrolled(t, c) \/ NotRenewed(t, c)
    PROVE  GoInv'
  <1> DEFINE g == c.call.target
             o == overlay[t]
  <1>1. o \in Overlays /\ g \in Targets /\ {} \in SUBSET o.declined
    BY DEF TargetInv, TargetTypes, Bodies
  <1>2. PICK r : Handled(t, c, r) /\ r.o.session = o.session /\ c.call.step \notin GoSteps
    <2>1. CASE claimAndActOnAgentTarget(t, c)
      <3>1. PICK found \in BOOLEAN : Handled(t, c, Claiming(o, g, found))
        BY <2>1 DEF claimAndActOnAgentTarget, resolveAgentTargetElement
      <3>2. Claiming(o, g, found).o.session = o.session
        BY <1>1, SessionStays DEF Seen
      <3>3. c.call.step \notin GoSteps
        BY <2>1 DEF claimAndActOnAgentTarget, GoSteps
      <3> QED BY <3>1, <3>2, <3>3
    <2>2. CASE ClaimAnswered(t, c)
      <3> DEFINE acting == noteAgentTarget(o, g, "acting")
                 denied == noteAgentTarget(o, g, "denied")
      <3>1. /\ acting \in Overlays /\ acting.session = o.session /\ denied.session = o.session
            /\ {} \in SUBSET acting.declined
        BY <1>1, SessionStays DEF Seen
      <3> HIDE DEF acting, denied
      <3>2. \A found \in BOOLEAN : Acting(acting, g, found).o.session = o.session
        BY <1>1, <3>1, SessionStays, ZenonT(30) DEF Seen
      <3>3. \A x : Then(denied, x).o.session = o.session
        BY <3>1 DEF Then
      <3>4. CASE c.call.step = "granted"
        BY <2>2, <3>2, <3>4 DEF ClaimAnswered, acting, resolveAgentTargetElement, GoSteps
      <3>5. CASE c.call.step = "denied"
        BY <2>2, <3>3, <3>5 DEF ClaimAnswered, denied, GoSteps
      <3>6. CASE c.call.step = "over"
        BY <2>2, <3>3, <3>6 DEF ClaimAnswered, denied, GoSteps
      <3> QED BY <2>2, <3>4, <3>5, <3>6 DEF ClaimAnswered
    <2>3. CASE watchAgentTargetResolution(t, c)
      <3>1. PICK found \in BOOLEAN :
              Handled(t, c, IF ~o.on \/ agentTargetTaken(o, g) THEN Then(o, {})
                            ELSE Claiming(o, g, found))
        BY <2>3 DEF watchAgentTargetResolution, resolveAgentTargetElement
      <3>2. Then(o, {}).o.session = o.session /\ Claiming(o, g, found).o.session = o.session
        BY <1>1, SessionStays, ZenonT(30) DEF Then, Seen
      <3> QED BY <2>3, <3>1, <3>2 DEF watchAgentTargetResolution, GoSteps
    <2>4. CASE Scrolled(t, c)
      BY <2>4 DEF Scrolled, Then, GoSteps
    <2>5. CASE NotRenewed(t, c)
      <3>1. Handled(t, c, Then(noteAgentTarget(o, g, "done"), {})) /\ c.call.step \notin GoSteps
        BY <2>5 DEF NotRenewed, GoSteps
      <3>2. Then(noteAgentTarget(o, g, "done"), {}).o.session = o.session
        BY <1>1, SessionStays DEF Then, Seen
      <3> QED BY <3>1, <3>2
    <2> QED BY <2>1, <2>2, <2>3, <2>4, <2>5
  <1>3. Did(t, c, r) /\ UNCHANGED <<awaited, presses>>
    BY <1>2 DEF Handled
  <1> QED BY <1>2, <1>3, GoHandled

LEMMA GoUser ==
    ASSUME TargetInv, TargetInv', GoInv, NEW t \in Tabs,
           \/ \E g \in Targets : handleAgentTarget(t, g)
           \/ UserPicks(t) \/ UserGoes(t) \/ SessionEnds(t)
           \/ ApplyStarts(t) \/ ApplyStops(t) \/ GivesUp(t)
    PROVE  GoInv'
  <1> DEFINE o == overlay[t]
  <1>1. o \in Overlays /\ NoCall \notin calls
    BY TabInOrder DEF TargetInv, TargetTypes
  <1>2. ASSUME NEW r, Did(t, NoCall, r), UNCHANGED <<awaited, presses>>,
               r.o.session = overlay[t].session \/ r.o.session.target = NoTarget
        PROVE  GoInv'
    BY <1>1, <1>2, GoHandled
  <1>3. ASSUME NEW g \in Targets, handleAgentTarget(t, g)
        PROVE  GoInv'
    <2> DEFINE p == [overlay[t] EXCEPT !.news = @ \ {g}]
               heard == noteAgentTarget(p, g, "heard")
    <2>1. p \in Overlays /\ p.session = o.session
      BY <1>1 DEF Overlays
    <2>2. heard \in Overlays /\ heard.session = o.session
      BY <2>1, SessionStays DEF Seen
    <2>3. PICK found \in resolveAgentTargetElement :
            Handled(t, NoCall, CASE agentTargetTaken(p, g) -> Then(p, {})
                                 [] ~agentTargetTaken(p, g) /\ Busy(p, g) ->
                                       declineAgentTargetBusy(heard, g)
                                 [] ~agentTargetTaken(p, g) /\ ~Busy(p, g) /\ ~found ->
                                       reportAgentTargetUnresolvable(heard, g)
                                 [] OTHER -> Then(heard, {Call(g, "start")}))
      BY <1>3 DEF handleAgentTarget
    <2> HIDE DEF p, heard
    <2>4. /\ Then(p, {}).o.session = o.session
          /\ declineAgentTargetBusy(heard, g).o.session = o.session
          /\ reportAgentTargetUnresolvable(heard, g).o.session = o.session
          /\ Then(heard, {Call(g, "start")}).o.session = o.session
      BY <2>1, <2>2, SessionStays DEF Then, Seen
    <2> DEFINE r == CASE agentTargetTaken(p, g) -> Then(p, {})
                      [] ~agentTargetTaken(p, g) /\ Busy(p, g) ->
                            declineAgentTargetBusy(heard, g)
                      [] ~agentTargetTaken(p, g) /\ ~Busy(p, g) /\ ~found ->
                            reportAgentTargetUnresolvable(heard, g)
                      [] OTHER -> Then(heard, {Call(g, "start")})
    <2>5. r.o.session = o.session
      BY <2>4
    <2> HIDE DEF r
    <2> QED BY <1>2, <2>3, <2>5 DEF r, Handled
  <1>4. CASE UserPicks(t)
    <2>1. PICK has : Handled(t, NoCall, Retrying(o, has))
      BY <1>4 DEF UserPicks
    <2>2. Retrying(o, has).o.session = o.session
      BY <1>1, RetryingSession
    <2> QED BY <1>2, <2>1, <2>2 DEF Handled
  <1>5. CASE UserGoes(t)
    <2> DEFINE p == [o EXCEPT !.busy = TRUE, !.session = UserSession]
    <2>1. p.session.target = NoTarget
      BY <1>1 DEF Overlays, UserSession
    <2>2. Did(t, NoCall, Then(p, {})) /\ UNCHANGED <<awaited, presses>>
      BY <1>5 DEF UserGoes
    <2>3. Then(p, {}).o.session = p.session
      BY DEF Then
    <2> HIDE DEF p
    <2> QED BY <1>2, <2>1, <2>2, <2>3 DEF Handled
  <1>6. CASE SessionEnds(t)
    <2>1. Freed(o) \in Overlays /\ Freed(o).session.target = NoTarget
      BY <1>1 DEF Freed, Overlays, NoSession, TabSessions
    <2>2. PICK has : Handled(t, NoCall, Retrying(Freed(o), has))
      BY <1>6 DEF SessionEnds
    <2>3. Retrying(Freed(o), has).o.session = Freed(o).session
      BY <2>1, RetryingSession
    <2> QED BY <1>2, <2>1, <2>2, <2>3 DEF Handled
  <1>7. CASE ApplyStarts(t)
    <2> DEFINE p == [o EXCEPT !.apply = TRUE]
    <2>1. p.session = o.session /\ Then(p, {}).o = p
      BY <1>1 DEF Overlays, Then
    <2>2. Did(t, NoCall, Then(p, {})) /\ UNCHANGED <<awaited, presses>>
      BY <1>7 DEF ApplyStarts
    <2> HIDE DEF p
    <2> QED BY <1>2, <2>1, <2>2 DEF Handled
  <1>8. CASE ApplyStops(t)
    <2> DEFINE p == [o EXCEPT !.apply = FALSE]
    <2>1. p.session = o.session /\ Then(p, {}).o = p
      BY <1>1 DEF Overlays, Then
    <2>2. Handled(t, NoCall, Then(p, {}))
      BY <1>8 DEF ApplyStops
    <2> HIDE DEF p
    <2> QED BY <1>2, <2>1, <2>2 DEF Handled
  <1>9. CASE GivesUp(t)
    <2> DEFINE p == [o EXCEPT !.on = FALSE]
    <2>1. p \in Overlays /\ p.session = o.session
      BY <1>1 DEF Overlays
    <2>2. Handled(t, NoCall, Retrying(p, {}))
      BY <1>9 DEF GivesUp
    <2> HIDE DEF p
    <2>3. Retrying(p, {}).o.session = o.session
      BY <2>1, RetryingSession
    <2> QED BY <1>2, <2>2, <2>3 DEF Handled
  <1> QED BY <1>3, <1>4, <1>5, <1>6, <1>7, <1>8, <1>9

LEMMA GoEnds ==
    ASSUME TargetInv, TargetInv', GoInv, NEW t \in Tabs, NEW c \in calls, c.tab = t,
           Emitted(t, c) \/ GoRefused(t, c)
    PROVE  GoInv'
  <1> DEFINE o == overlay[t]
  <1>1. o \in Overlays /\ c.call \in Bodies
    BY DEF TargetInv, TargetTypes
  <1>2. CASE Emitted(t, c)
    <2> DEFINE x == [c.call EXCEPT !.step = "generate"]
               r == Then(o, {x})
    <2>1. x.target = c.call.target /\ x.n = c.call.n /\ x.step \in GoSteps
      BY <1>1 DEF Bodies, GoSteps
    <2>2. Did(t, c, r) /\ UNCHANGED <<awaited, presses>>
      BY <1>2 DEF Emitted, Handled
    <2>3. r.o = o /\ x \in r.c
      BY DEF Then
    <2> HIDE DEF r, x
    <2> QED BY <2>1, <2>2, <2>3, GoHandled
  <1>3. CASE GoRefused(t, c)
    <2> DEFINE p == abandonSupersededGo(o, c)
    <2>1. /\ p \in Overlays
          /\ p.session = o.session \/ p.session.target = NoTarget
          /\ ~(/\ p.session.target = c.call.target /\ p.session.n = c.call.n
               /\ c.call.target # NoTarget)
      BY <1>1 DEF abandonSupersededGo, Freed, Overlays, NoSession, TabSessions, Bodies
    <2>2. PICK has \in SUBSET p.declined :
            Handled(t, c, IF p = o THEN Then(o, {}) ELSE Retrying(p, has))
      BY <1>3 DEF GoRefused
    <2> DEFINE r == IF p = o THEN Then(o, {}) ELSE Retrying(p, has)
    <2>3. c.call.target \in Targets
      BY DEF TargetInv, TargetTypes, Bodies
    <2> HIDE DEF p
    <2>4. r.o.session = p.session
      BY <2>1, <2>2, <2>3, SessionStays DEF Then, Seen
    <2>5. Did(t, c, r) /\ UNCHANGED <<awaited, presses>>
      BY <2>2 DEF Handled
    <2> HIDE DEF r
    <2> QED BY <2>1, <2>4, <2>5, GoHandled
  <1> QED BY <1>2, <1>3

\* The only step that begins a session of a target.
LEMMA GoBegins ==
    ASSUME TargetInv, TargetInv', GoInv, NEW t \in Tabs, NEW c \in calls, c.tab = t, Renewed(t, c)
    PROVE  GoInv'
  <1> DEFINE g == c.call.target
             idle == [overlay[t] EXCEPT !.busy = FALSE]
  <1>0. PICK n : n = presses[g] + 1
    OBVIOUS
  <1>1. /\ overlay \in [Tabs -> Overlays] /\ overlay[t] \in Overlays /\ g \in Targets
        /\ presses \in [Targets -> Nat] /\ n \in Nat /\ c.call.step \notin GoSteps
    BY <1>0 DEF TargetInv, TargetTypes, Bodies, Renewed, GoSteps
  <1>2. PICK has \in SUBSET overlay[t].declined :
          LET r == Retrying(idle, has)
              o == noteAgentTarget(r.o, g, "done")
              made == [target |-> g, n |-> n]
          IN IF o.apply
             THEN /\ Did(t, c, Then(o, r.c \cup {Call(g, "failure")}))
                  /\ UNCHANGED presses
             ELSE /\ Did(t, c, Then([o EXCEPT !.busy = TRUE, !.session = made],
                                    r.c \cup {[target |-> g, step |-> "result", n |-> n],
                                              [target |-> g, step |-> "capture", n |-> n]}))
                  /\ presses' = [presses EXCEPT ![g] = n]
    BY <1>0 DEF Renewed
  <1> DEFINE r == Retrying(idle, has)
             o == noteAgentTarget(r.o, g, "done")
             p == [o EXCEPT !.busy = TRUE, !.session = [target |-> g, n |-> n]]
             capture == [target |-> g, step |-> "capture", n |-> n]
             gone == r.c \cup {[target |-> g, step |-> "result", n |-> n], capture}
  <1>3. idle \in Overlays /\ idle.session = overlay[t].session /\ idle.declined = overlay[t].declined
    BY <1>1 DEF Overlays
  <1> HIDE DEF idle
  <1>4. r.o \in Overlays /\ r.o.session = overlay[t].session
    BY <1>1, <1>3, RetryingSession DEF Retrying, Then, Overlays, Seen
  <1> HIDE DEF r
  <1>5. o \in Overlays /\ o.session = overlay[t].session
    BY <1>1, <1>4, SessionStays DEF Seen
  <1> HIDE DEF o
  <1>6. UNCHANGED awaited
    BY DEF Renewed
  <1>7. CASE o.apply
    <2> DEFINE q == Then(o, r.c \cup {Call(g, "failure")})
    <2>1. q.o = o
      BY DEF Then
    <2>2. Did(t, c, q) /\ UNCHANGED presses
      BY <1>2, <1>7 DEF o, r
    <2> HIDE DEF q
    <2> QED BY <1>1, <1>5, <1>6, <2>1, <2>2, GoHandled
  <1>8. CASE ~o.apply
    <2>1. Did(t, c, Then(p, gone)) /\ presses' = [presses EXCEPT ![g] = n]
      BY <1>2, <1>8 DEF o, r
    <2>2. p.session.target = g /\ p.session.n = n /\ capture \in gone
      BY <1>5 DEF Overlays
    <2>3. overlay' = [overlay EXCEPT ![t] = p]
          /\ calls' = (calls \ {c}) \cup {[tab |-> t, call |-> x] : x \in gone}
      BY <2>1 DEF Did, Then
    <2>4. Going(t, g, n)'
      <3>1. [tab |-> t, call |-> capture] \in calls'
        BY <2>2, <2>3
      <3> QED BY <3>1 DEF Going, GoSteps
    <2> HIDE DEF p, gone
    <2>5. overlay'[t] = p /\ \A u \in Tabs \ {t} : overlay'[u] = overlay[u]
      BY <1>1, <2>3
    <2>6. /\ presses'[g] = n /\ \A h \in Targets \ {g} : presses'[h] = presses[h]
          /\ \A h \in Targets : presses[h] \in Nat
      BY <1>1, <2>1
    <2>7. ServedBy'
      BY <1>6 DEF GoInv, ServedBy
    <2>8. ASSUME NEW u \in Tabs \ {t}, NEW h \in Targets, overlay[u].session.target = h, h # NoTarget
          PROVE  /\ overlay[u].session.n \in 1 .. presses[h]
                 /\ awaited[h].by = overlay[u].session.n \/ Going(u, h, overlay[u].session.n)
      BY <2>8 DEF GoInv, Owned, Going
    <2>9. Owned'
      <3> SUFFICES ASSUME NEW u \in Tabs, NEW h \in Targets, overlay'[u].session.target = h, h # NoTarget
                   PROVE  /\ overlay'[u].session.n \in 1 .. presses'[h]
                          /\ (awaited[h].by = overlay[u].session.n
                               \/ Going(u, h, overlay[u].session.n))'
        BY DEF Owned, Going
      <3>1. CASE u = t
        <4>1. Going(u, h, overlay[u].session.n)'
          BY <2>2, <2>4, <2>5, <3>1 DEF Going
        <4> QED BY <1>0, <1>1, <2>2, <2>5, <2>6, <3>1, <4>1
      <3>2. CASE u # t
        <4>0. PICK m : m = overlay[u].session.n
          OBVIOUS
        <4>1. overlay[u].session.n = m /\ overlay'[u].session.n = m /\ overlay[u].session.target = h
          BY <2>5, <3>2, <4>0
        <4>2. m \in 1 .. presses[h] /\ (awaited[h].by = m \/ Going(u, h, m))
          BY <2>8, <3>2, <4>1
        <4>3. Going(u, h, m) => Going(u, h, m)'
          BY <1>1, <2>3 DEF Going
        <4>4. Going(u, h, overlay[u].session.n)' <=> Going(u, h, m)'
          BY <4>1 DEF Going
        <4> QED BY <1>0, <1>1, <1>6, <2>6, <4>1, <4>2, <4>3, <4>4
      <3> QED BY <3>1, <3>2
    <2>10. Distinct'
      <3>1. ASSUME NEW u \in Tabs \ {t}, overlay[u].session.target = g, g # NoTarget
            PROVE  overlay[u].session.n # n
        BY <1>0, <1>1, <2>6, <2>8, <3>1
      <3>2. \A u \in Tabs \ {t} : p.session.target # NoTarget => overlay[u].session # p.session
        BY <2>2, <3>1
      <3> QED BY <2>5, <3>2 DEF GoInv, Distinct
    <2> QED BY <2>7, <2>9, <2>10 DEF GoInv
  <1> QED BY <1>7, <1>8

\* What leaves every session, call and Go as it is.
LEMMA GoUnmoved ==
    ASSUME TargetInv, TargetInv', GoInv, UNCHANGED presses,
           \A u \in Tabs : overlay'[u].session = overlay[u].session,
           \A g \in Targets : awaited'[g].by = awaited[g].by /\ (awaited[g].by = 0 \/ awaited'[g].phase = awaited[g].phase),
           \A c \in calls : c.call.step \in GoSteps => c \in calls'
    PROVE  GoInv'
  <1>1. NoneBegins
    BY DEF NoneBegins
  <1>2. AnswersStay
    BY DEF AnswersStay
  <1>3. GoesOn
    BY DEF GoesOn, Going
  <1> QED BY <1>1, <1>2, <1>3, GoKept

LEMMA GoStreams ==
    ASSUME TargetInv, TargetInv', GoInv,
           \/ \E t \in Tabs : StreamDrops(t) \/ StreamOpens(t)
           \/ \E g \in Targets : AgentAsks(g) \/ LeaseLapses(g) \/ RequestEnds(g)
    PROVE  GoInv'
  <1>1. overlay \in [Tabs -> Overlays] /\ awaited \in [Targets -> Requests]
    BY DEF TargetInv, TargetTypes
  <1>2. \A g \in Targets : awaited[g].by # 0 => awaited[g].phase = "served"
    BY DEF GoInv, ServedBy
  <1>3. UNCHANGED <<calls, presses>>
    BY DEF StreamDrops, StreamOpens, AgentAsks, LeaseLapses, RequestEnds, Helper
  <1>4. CASE \E t \in Tabs : StreamDrops(t) \/ StreamOpens(t)
    <2>1. UNCHANGED awaited
      BY <1>4 DEF StreamDrops, StreamOpens
    <2>2. \A u \in Tabs : overlay'[u].session = overlay[u].session
      BY <1>4, StreamMoves
    <2> QED BY <1>3, <2>1, <2>2, GoUnmoved
  <1>5. ASSUME NEW g \in Targets, AgentAsks(g) PROVE GoInv'
    <2>1. \A u \in Tabs : overlay'[u].session = overlay[u].session
      BY <1>1, <1>5 DEF AgentAsks, Overlays
    <2>2. awaited[g].by = 0
      BY <1>2, <1>5 DEF AgentAsks
    <2>3. awaited'[g].by = awaited[g].by /\ \A h \in Targets \ {g} : awaited'[h] = awaited[h]
      BY <1>1, <1>5 DEF AgentAsks, Requests
    <2> QED BY <1>3, <2>1, <2>2, <2>3, GoUnmoved
  <1>6. ASSUME NEW g \in Targets, LeaseLapses(g) \/ RequestEnds(g) PROVE GoInv'
    <2>1. UNCHANGED overlay
      BY <1>6 DEF LeaseLapses, RequestEnds, Helper
    <2>2. /\ awaited'[g].by = awaited[g].by
          /\ awaited[g].by = 0 \/ awaited'[g].phase = awaited[g].phase
          /\ \A h \in Targets \ {g} : awaited'[h] = awaited[h]
      BY <1>1, <1>2, <1>6 DEF LeaseLapses, RequestEnds, Helper, Requests, Pending
    <2> QED BY <1>3, <2>1, <2>2, GoUnmoved
  <1> QED BY <1>4, <1>5, <1>6

LEMMA GoReloads ==
    ASSUME TargetInv, TargetInv', GoInv, NEW t \in Tabs, TabReloads(t)
    PROVE  GoInv'
  <1> DEFINE s == overlay[t].session
             kept == \/ s = UserSession
                     \/ \E g \in Targets : s.target = g /\ awaited[g].session /\ awaited[g].by = s.n
             o == [Fresh EXCEPT !.busy = kept, !.session = IF kept THEN s ELSE NoSession]
  <1>1. /\ overlay' = [overlay EXCEPT ![t] = o]
        /\ calls' = {c \in calls : c.tab # t}
        /\ awaited' = [g \in Targets |-> [awaited[g] EXCEPT !.holder = IF @ = t THEN "gone" ELSE @]]
        /\ UNCHANGED presses
    BY DEF TabReloads
  <1>2. o.session = IF kept THEN s ELSE NoSession
    BY DEF Fresh
  <1> HIDE DEF o
  <1>3. overlay'[t] = o /\ \A u \in Tabs \ {t} : overlay'[u] = overlay[u]
    BY <1>1 DEF TargetInv, TargetTypes
  <1>4. \A g \in Targets : awaited'[g].by = awaited[g].by /\ awaited'[g].phase = awaited[g].phase
    BY <1>1 DEF TargetInv, TargetTypes, Requests
  <1>5. NoneBegins
    BY <1>2, <1>3 DEF NoneBegins, NoSession
  <1>6. AnswersStay
    BY <1>4 DEF AnswersStay
  <1>7. GoesOn
    <2> SUFFICES ASSUME NEW u \in Tabs, NEW g \in Targets, NEW n \in Nat, Going(u, g, n), g # NoTarget,
                        overlay'[u].session.target = g, overlay'[u].session.n = n
                 PROVE  Going(u, g, n)' \/ awaited'[g].by = n
      BY DEF GoesOn
    <2>1. CASE u = t
      <3>1. kept /\ s.target = g /\ s.n = n
        BY <1>2, <1>3, <2>1 DEF NoSession
      <3>2. awaited[g].by = n
        BY <3>1 DEF UserSession
      <3> QED BY <1>4, <3>2
    <2>2. CASE u # t
      BY <1>1, <2>2 DEF Going
    <2> QED BY <2>1, <2>2
  <1> QED BY <1>1, <1>5, <1>6, <1>7, GoKept

\* Of two Gos for a target the helper takes the first it hears of, and refuses the other.
LEMMA GoAnswered ==
    ASSUME TargetInv, TargetInv', GoInv, NEW c \in calls,
           ClaimServed(c) \/ WordServed(c) \/ ResultServed(c) \/ GenerateServed(c)
    PROVE  GoInv'
  <1> DEFINE g == c.call.target
             w == awaited[g]
             n == c.call.n
  <1>1. /\ c \in [tab : Tabs, call : Bodies] /\ g \in Targets /\ w \in Requests
        /\ awaited \in [Targets -> Requests] /\ n \in Nat
    BY DEF TargetInv, TargetTypes, Bodies
  <1>2. \A h \in Targets : awaited[h].by # 0 => awaited[h].phase = "served"
    BY DEF GoInv, ServedBy
  <1>3. UNCHANGED <<overlay, presses>>
    BY DEF ClaimServed, WordServed, ResultServed, GenerateServed, Helper
  <1>4. CASE ClaimServed(c) \/ WordServed(c)
    <2>1. PICK v : /\ awaited' = [awaited EXCEPT ![g] = v]
                   /\ v.by = w.by /\ v.phase = w.phase
      <3>1. [w EXCEPT !.holder = c.tab].by = w.by /\ [w EXCEPT !.holder = c.tab].phase = w.phase
        BY <1>1 DEF Requests
      <3>2. /\ [w EXCEPT !.holder = IF @ = c.tab THEN NoTab ELSE @].by = w.by
            /\ [w EXCEPT !.holder = IF @ = c.tab THEN NoTab ELSE @].phase = w.phase
        BY <1>1 DEF Requests
      <3>3. CASE ClaimServed(c)
        BY <3>1, <3>3 DEF ClaimServed, Helper
      <3>4. CASE WordServed(c)
        BY <3>2, <3>4 DEF WordServed, Helper
      <3> QED BY <1>4, <3>3, <3>4
    <2>2. \A h \in Targets : awaited'[h].by = awaited[h].by /\ awaited'[h].phase = awaited[h].phase
      BY <1>1, <2>1
    <2>3. c.call.step \notin GoSteps /\ \A d \in calls : d # c => d \in calls'
      BY <1>4 DEF ClaimServed, WordServed, GoSteps, Answered
    <2> QED BY <1>3, <2>2, <2>3, GoUnmoved
  <1>5. CASE ResultServed(c)
    <2>1. awaited' = [awaited EXCEPT ![g] = IF Pending(g) THEN [w EXCEPT !.phase = "served", !.by = n] ELSE w]
      BY <1>5 DEF ResultServed, Helper
    <2>2. [w EXCEPT !.phase = "served", !.by = n].phase = "served"
      BY <1>1 DEF Requests
    <2>3. AnswersStay
      BY <1>1, <1>2, <2>1, <2>2 DEF AnswersStay, Pending
    <2>4. c.call.step \notin GoSteps /\ \A d \in calls : d # c => d \in calls'
      BY <1>5 DEF ResultServed, GoSteps, Answered
    <2>5. NoneBegins /\ GoesOn
      BY <1>3, <2>4 DEF NoneBegins, GoesOn, Going
    <2> QED BY <1>3, <2>3, <2>5, GoKept
  <1>6. CASE GenerateServed(c)
    <2> DEFINE opens == Pending(g) \/ w.by = n
               v == [w EXCEPT !.phase = "served", !.by = n, !.session = TRUE]
    <2>1. /\ awaited' = [awaited EXCEPT ![g] = IF opens THEN v ELSE w]
          /\ Answered(c, IF opens THEN "none" ELSE "superseded")
      BY <1>6 DEF GenerateServed, Helper
    <2>2. v.phase = "served" /\ v.by = n
      BY <1>1 DEF Requests
    <2> HIDE DEF v
    <2>3. AnswersStay
      BY <1>1, <1>2, <2>1, <2>2 DEF AnswersStay, Pending
    <2>4. \A d \in calls : d # c => d \in calls'
      BY <2>1 DEF Answered
    <2>5. opens => awaited'[g].by = n
      BY <1>1, <2>1, <2>2
    <2>6. ~opens => Going(c.tab, g, n)'
      <3> SUFFICES ASSUME ~opens PROVE Going(c.tab, g, n)'
        OBVIOUS
      <3> DEFINE d == [c EXCEPT !.call.step = "superseded"]
      <3>1. d.tab = c.tab /\ d.call.target = g /\ d.call.n = n /\ d.call.step = "superseded"
        BY <1>1 DEF Bodies
      <3>2. d \in calls'
        BY <2>1 DEF Answered
      <3> HIDE DEF d
      <3> QED BY <3>1, <3>2 DEF Going, GoSteps
    <2> HIDE DEF opens
    <2>7. GoesOn
      <3> SUFFICES ASSUME NEW u \in Tabs, NEW h \in Targets, NEW m \in Nat, Going(u, h, m)
                   PROVE  Going(u, h, m)' \/ awaited'[h].by = m
        BY DEF GoesOn
      <3>1. PICK d \in calls : d.tab = u /\ d.call.target = h /\ d.call.n = m /\ d.call.step \in GoSteps
        BY DEF Going
      <3>2. CASE d # c
        BY <2>4, <3>1, <3>2 DEF Going
      <3>3. CASE d = c
        BY <2>5, <2>6, <3>1, <3>3
      <3> QED BY <3>2, <3>3
    <2>8. NoneBegins
      BY <1>3 DEF NoneBegins
    <2> QED BY <1>3, <2>3, <2>7, <2>8, GoKept
  <1> QED BY <1>4, <1>5, <1>6

LEMMA GoInvInit == TargetInit => GoInv
  BY DEF TargetInit, GoInv, ServedBy, Owned, Distinct, Fresh, NoSession

LEMMA GoInvStep == TargetInv /\ TargetInv' /\ GoInv /\ [TargetNext]_targetVars => GoInv'
  <1> SUFFICES ASSUME TargetInv, TargetInv', GoInv, [TargetNext]_targetVars PROVE GoInv'
    OBVIOUS
  <1>1. ASSUME NEW t \in Tabs, Tab(t) PROVE GoInv'
    <2>1. ASSUME NEW c \in calls, c.tab = t,
                 \/ claimAndActOnAgentTarget(t, c) \/ ClaimAnswered(t, c)
                 \/ watchAgentTargetResolution(t, c) \/ Scrolled(t, c) \/ Renewed(t, c)
                 \/ NotRenewed(t, c) \/ Emitted(t, c) \/ GoRefused(t, c)
          PROVE  GoInv'
      BY <2>1, GoCalls, GoBegins, GoEnds
    <2> QED BY <1>1, <2>1, GoUser, GoReloads, GoStreams DEF Tab
  <1>2. CASE HelperServes
    BY <1>2, GoStreams, GoAnswered DEF HelperServes
  <1>3. CASE UNCHANGED targetVars
    BY <1>3, GoUnmoved DEF targetVars
  <1> QED BY <1>1, <1>2, <1>3 DEF TargetNext

LEMMA GoInvOne == TargetInv /\ GoInv => OneSessionServes
  <1> SUFFICES ASSUME TargetInv, GoInv, NEW t1 \in Tabs, NEW t2 \in Tabs, t1 # t2,
                      \A t \in {t1, t2}, c \in calls : c.tab = t => c.call.step \notin GoSteps,
                      overlay[t1].session.target = overlay[t2].session.target,
                      overlay[t1].session.target # NoTarget
               PROVE  FALSE
    BY DEF OneSessionServes, GoSteps
  <1>1. \A t \in {t1, t2} : overlay[t].session \in TabSessions
    BY DEF TargetInv, TargetTypes, Overlays
  <1>2. PICK g \in Targets : g = overlay[t1].session.target
    BY <1>1 DEF TabSessions
  <1>3. \A t \in {t1, t2} : awaited[g].by = overlay[t].session.n
    BY <1>2 DEF GoInv, Owned
  <1>4. overlay[t1].session = overlay[t2].session
    BY <1>1, <1>3 DEF TabSessions
  <1> QED BY <1>4 DEF GoInv, Distinct

\* One request ends in one session: of the tabs that pressed Go for the same target, those
\* whose Go did not answer the request give their session up (abandonSupersededGo).
THEOREM RequestsEndInOneSession == TargetSpec => []OneSessionServes
  <1>1. TargetInit => TargetInv /\ GoInv
    BY TargetInvInit, GoInvInit
  <1>2. (TargetInv /\ GoInv) /\ [TargetNext]_targetVars => (TargetInv /\ GoInv)'
    BY TargetInvStep, GoInvStep
  <1> QED BY <1>1, <1>2, GoInvOne, PTL DEF TargetSpec
-----------------------------------------------------------------------------
(***************************************************************************)
(* The detector.  A candidate that is not a suffix of the page's own path comes *)
(* from joining the directory above all roots with the path below the document *)
(* root; AgainFacts says that what such a path matches, a suffix of the page's *)
(* own matches too, or no page that is served.                             *)
(***************************************************************************)
\* Parts of paths.
Words == Names \cup FileNames

LEMMA DirFacts ==
    ASSUME NEW d \in Dirs
    PROVE  /\ d \in Seq(Words)
           /\ Len(d) \in 0 .. 2
           /\ \A i, j \in 1 .. Len(d) : d[i] = d[j] => i = j
  <1>1. PICK m \in 0 .. 2 : d \in [1 .. m -> Names]
    BY DEF Dirs, SeqOf
  <1>2. d \in Seq(Names) /\ Len(d) = m
    BY <1>1
  <1>3. d \in Seq(Words)
    BY <1>2, SeqMonotonic DEF Words
  <1>4. \A i, j \in DOMAIN d : d[i] = d[j] => i = j
    BY DEF Dirs, IsInjective
  <1> QED BY <1>1, <1>2, <1>3, <1>4

LEMMA FileFacts ==
    ASSUME NEW f \in Files
    PROVE  /\ f \in Seq(Words)
           /\ Len(f) \in 1 .. 3
           /\ \A i, j \in 1 .. Len(f) - 1 : f[i] = f[j] => i = j
           /\ Front(f) \in Dirs /\ Front(f) \in Seq(Words) /\ Len(Front(f)) = Len(f) - 1
           /\ \A i \in 1 .. Len(f) - 1 : Front(f)[i] = f[i]
  <1>1. PICK d \in Dirs, name \in FileNames : f = Append(d, name)
    BY DEF Files
  <1>2. d \in Seq(Words) /\ name \in Words
    BY DirFacts DEF Words
  <1>3. /\ f \in Seq(Words) /\ Len(f) = Len(d) + 1
        /\ \A i \in 1 .. Len(d) : f[i] = d[i]
    BY <1>1, <1>2, AppendProperties
  <1>4. Len(f) \in 1 .. 3 /\ \A i, j \in 1 .. Len(f) - 1 : f[i] = f[j] => i = j
    BY <1>3, DirFacts
  <1>5. /\ Front(f) \in Seq(Words) /\ Len(Front(f)) = Len(f) - 1
        /\ \A i \in 1 .. Len(f) - 1 : Front(f)[i] = f[i]
    <2>1. \A i \in 1 .. Len(f) - 1 : f[i] \in Words
      BY <1>3, <1>4, ElementOfSeq
    <2>2. PICK n \in 0 .. 2 : n = Len(f) - 1
      BY <1>4
    <2>3. /\ SubSeq(f, 1, n) \in Seq(Words) /\ Len(SubSeq(f, 1, n)) = n
          /\ \A i \in 1 .. n : SubSeq(f, 1, n)[i] = f[i]
      BY <2>1, <2>2, SubSeqProperties
    <2> QED BY <2>2, <2>3 DEF Front
  <1>6. Front(f) = d
    BY <1>2, <1>3, <1>5, SeqEqual
  <1> QED BY <1>3, <1>4, <1>5, <1>6

LEMMA PrefixFacts ==
    ASSUME NEW s \in Seq(Words), NEW t \in Seq(Words)
    PROVE  IsPrefix(s, t) <=> Len(s) <= Len(t) /\ \A i \in 1 .. Len(s) : s[i] = t[i]
  <1>1. Len(s) \in Nat /\ Len(t) \in Nat
    BY LenProperties
  <1>2. \A i \in 1 .. Len(s) : s[i] \in Words
    BY ElementOfSeq
  <1>3. \A i \in 1 .. Len(t) : t[i] \in Words
    BY ElementOfSeq
  <1>4. SubSeq(s, 1, Len(s)) = s
    BY SubSeqFull
  <1>5. CASE Len(s) <= Len(t)
    <2> DEFINE p == SubSeq(t, 1, Len(s))
    <2>1. \A i \in 1 .. Len(s) : t[i] \in Words
      BY <1>1, <1>3, <1>5
    <2>2. p \in Seq(Words) /\ Len(p) = Len(s) /\ \A i \in 1 .. Len(s) : p[i] = t[i]
      BY <1>1, <2>1, SubSeqProperties
    <2> HIDE DEF p
    <2>3. s = p <=> \A i \in 1 .. Len(s) : s[i] = p[i]
      BY <2>2, SeqEqual
    <2> QED BY <1>4, <1>5, <2>2, <2>3 DEF IsPrefix, p
  <1>6. CASE ~(Len(s) <= Len(t))
    BY <1>6 DEF IsPrefix
  <1> QED BY <1>5, <1>6

LEMMA StrictPrefixFacts ==
    ASSUME NEW s \in Seq(Words), NEW t \in Seq(Words)
    PROVE  IsStrictPrefix(s, t) <=> Len(s) < Len(t) /\ \A i \in 1 .. Len(s) : s[i] = t[i]
  <1>1. Len(s) \in Nat /\ Len(t) \in Nat
    BY LenProperties
  <1>2. Len(s) = Len(t) /\ (\A i \in 1 .. Len(s) : s[i] = t[i]) => s = t
    BY SeqEqual
  <1> QED BY <1>1, <1>2, PrefixFacts DEF IsStrictPrefix

\* The suffixes of a path.
Suffix(p, i) == SubSeq(p, i, Len(p))

LEMMA SuffixFacts ==
    ASSUME NEW p \in Seq(Words), NEW i \in 1 .. Len(p)
    PROVE  /\ Suffix(p, i) \in Seq(Words)
           /\ Suffix(p, i) \in PathSuffixes(p)
           /\ Len(Suffix(p, i)) = Len(p) - i + 1
           /\ \A k \in 1 .. Len(p) - i + 1 : Suffix(p, i)[k] = p[i + k - 1]
  <1>1. \A k \in i .. Len(p) : p[k] \in Words
    BY ElementOfSeq, LenProperties
  <1>2. Len(p) \in Nat
    BY LenProperties
  <1>3. i \in Int /\ i <= Len(p)
    BY <1>2
  <1> QED BY <1>1, <1>2, <1>3, SubSeqProperties DEF Suffix, PathSuffixes

LEMMA ReverseFacts ==
    ASSUME NEW p \in Seq(Words)
    PROVE  /\ Reverse(p) \in Seq(Words) /\ Len(Reverse(p)) = Len(p)
           /\ \A i \in 1 .. Len(p) : Reverse(p)[i] = p[Len(p) - i + 1]
  <1>1. Len(p) \in Nat /\ \A i \in 1 .. Len(p) : p[i] \in Words
    BY LenProperties, ElementOfSeq
  <1>2. \A i \in 1 .. Len(p) : p[(Len(p) - i) + 1] \in Words
    BY <1>1
  <1>3. Reverse(p) \in [1 .. Len(p) -> Words]
    BY <1>2 DEF Reverse
  <1>4. Reverse(p) \in Seq(Words) /\ Len(Reverse(p)) = Len(p)
    BY <1>1, <1>3
  <1> QED BY <1>4 DEF Reverse

LEMMA SuffixIsSuffix ==
    ASSUME NEW p \in Seq(Words), NEW i \in 1 .. Len(p)
    PROVE  IsSuffix(Suffix(p, i), p)
  <1> DEFINE s == Suffix(p, i)
  <1>1. /\ s \in Seq(Words) /\ Len(s) = Len(p) - i + 1
        /\ \A k \in 1 .. Len(p) - i + 1 : s[k] = p[i + k - 1]
    BY SuffixFacts
  <1> HIDE DEF s
  <1>2. Len(p) \in Nat
    BY LenProperties
  <1>3. /\ Reverse(s) \in Seq(Words) /\ Len(Reverse(s)) = Len(s)
        /\ \A k \in 1 .. Len(s) : Reverse(s)[k] = s[Len(s) - k + 1]
    BY <1>1, ReverseFacts
  <1>4. /\ Reverse(p) \in Seq(Words) /\ Len(Reverse(p)) = Len(p)
        /\ \A k \in 1 .. Len(p) : Reverse(p)[k] = p[Len(p) - k + 1]
    BY ReverseFacts
  <1>5. ASSUME NEW k \in 1 .. Len(s)
        PROVE  Reverse(s)[k] = Reverse(p)[k]
    <2>1. Reverse(s)[k] = s[Len(s) - k + 1] /\ Len(s) - k + 1 \in 1 .. Len(p) - i + 1
      BY <1>1, <1>2, <1>3
    <2>2. s[Len(s) - k + 1] = p[i + (Len(s) - k + 1) - 1]
      BY <1>1, <2>1
    <2>3. i + (Len(s) - k + 1) - 1 = Len(p) - k + 1 /\ k \in 1 .. Len(p)
      BY <1>1, <1>2
    <2> QED BY <1>4, <2>1, <2>2, <2>3
  <1>6. IsPrefix(Reverse(s), Reverse(p))
    BY <1>1, <1>2, <1>3, <1>4, <1>5, PrefixFacts
  <1> QED BY <1>6 DEF IsSuffix, s

\* The site is one that is served.
SiteServed(s) ==
    /\ s.served \subseteq Files /\ IsFiniteSet(s.served)
    /\ s.roots \subseteq Dirs /\ s.roots # {}
    /\ \A f \in s.served : \E r \in s.roots : IsPrefix(r, Front(f))
    /\ s.root \in Dirs
    /\ \A r \in s.roots : IsPrefix(s.root, r)
    /\ s.file \in s.served
    /\ s.directory => Last(s.file) = "index"
    /\ s.listed \in BOOLEAN

\* The directory above all roots, and how it lies to the page.
LEMMA AncestorFacts ==
    ASSUME NEW s, SiteServed(s)
    PROVE  /\ CommonAncestor(s.roots) \in Seq(Words)
           /\ Len(CommonAncestor(s.roots)) \in 0 .. 2
           /\ Len(s.root) <= Len(CommonAncestor(s.roots))
           /\ \A f \in s.served :
                /\ Len(CommonAncestor(s.roots)) < Len(f)
                /\ \A k \in 1 .. Len(CommonAncestor(s.roots)) : CommonAncestor(s.roots)[k] = f[k]
           /\ \A k \in 1 .. Len(s.root) : s.root[k] = s.file[k]
  <1> DEFINE C == CommonPrefixes(s.roots)
             c == CommonAncestor(s.roots)
  <1>1. \A p \in C : /\ p \in Seq(Words) /\ Len(p) \in 0 .. 2
                     /\ \A r \in s.roots : IsPrefix(p, r)
    <2> SUFFICES ASSUME NEW p \in C
                 PROVE  /\ p \in Seq(Words) /\ Len(p) \in 0 .. 2
                        /\ \A r \in s.roots : IsPrefix(p, r)
      OBVIOUS
    <2>1. PICK r \in s.roots : p \in Prefixes(r)
      BY DEF CommonPrefixes
    <2>2. r \in Seq(Words) /\ Len(r) \in 0 .. 2
      BY DirFacts DEF SiteServed
    <2>3. PICK l \in 0 .. Len(r) : p = SubSeq(r, 1, l)
      BY <2>1 DEF Prefixes
    <2>4. \A i \in 1 .. l : r[i] \in Words
      BY <2>2, ElementOfSeq
    <2>5. p \in Seq(Words) /\ Len(p) = l
      BY <2>2, <2>3, <2>4, SubSeqProperties
    <2>6. \A t \in s.roots : IsPrefix(p, t)
      BY DEF CommonPrefixes
    <2>7. Len(p) \in 0 .. 2
      BY <2>2, <2>3, <2>5
    <2> QED BY <2>5, <2>6, <2>7
  <1>2. s.root \in C
    <2>1. PICK r \in s.roots : TRUE
      BY DEF SiteServed
    <2>2. /\ r \in Seq(Words) /\ Len(r) \in 0 .. 2 /\ s.root \in Seq(Words) /\ Len(s.root) \in 0 .. 2
      BY DirFacts DEF SiteServed
    <2>3. IsPrefix(s.root, r)
      BY DEF SiteServed
    <2>4. s.root = SubSeq(r, 1, Len(s.root)) /\ Len(s.root) <= Len(r)
      BY <2>2, <2>3, SubSeqFull DEF IsPrefix
    <2>5. s.root \in Prefixes(r)
      BY <2>2, <2>4 DEF Prefixes
    <2> QED BY <2>5 DEF CommonPrefixes, SiteServed
  <1>3. \E p \in C : \A q \in C : Len(q) <= Len(p)
    <2>1. CASE \E p \in C : Len(p) = 2
      BY <2>1, <1>1
    <2>2. CASE (\A p \in C : Len(p) # 2) /\ \E p \in C : Len(p) = 1
      BY <2>2, <1>1
    <2>3. CASE \A p \in C : Len(p) # 2 /\ Len(p) # 1
      BY <2>3, <1>1, <1>2
    <2> QED BY <2>1, <2>2, <2>3
  <1>4. c = CHOOSE p \in C : \A q \in C : Len(q) <= Len(p)
    BY DEF CommonAncestor, LongestCommonPrefix
  <1> HIDE DEF C, c
  <1>5. c \in C /\ Len(s.root) <= Len(c)
    BY <1>2, <1>3, <1>4
  <1>6. c \in Seq(Words) /\ Len(c) \in 0 .. 2 /\ \A r \in s.roots : IsPrefix(c, r)
    BY <1>1, <1>5
  <1>7. ASSUME NEW p \in Seq(Words), \A r \in s.roots : IsPrefix(p, r), NEW f \in s.served
        PROVE  Len(p) < Len(f) /\ \A k \in 1 .. Len(p) : p[k] = f[k]
    <2>1. PICK r \in s.roots : IsPrefix(r, Front(f))
      BY DEF SiteServed
    <2>2. f \in Files /\ r \in Dirs
      BY DEF SiteServed
    <2>3. r \in Seq(Words) /\ Len(r) \in Nat /\ Len(p) \in Nat
      BY <2>2, DirFacts, LenProperties
    <2>4. /\ Len(f) \in 1 .. 3 /\ Front(f) \in Seq(Words) /\ Len(Front(f)) = Len(f) - 1
          /\ \A k \in 1 .. Len(f) - 1 : Front(f)[k] = f[k]
      BY <2>2, FileFacts
    <2>5. Len(r) <= Len(Front(f)) /\ \A k \in 1 .. Len(r) : r[k] = Front(f)[k]
      BY <2>1, <2>3, <2>4, PrefixFacts
    <2>6. Len(p) <= Len(r) /\ \A k \in 1 .. Len(p) : p[k] = r[k]
      BY <1>7, <2>3, PrefixFacts
    <2> QED BY <2>3, <2>4, <2>5, <2>6
  <1>8. s.root \in Seq(Words) /\ s.file \in s.served /\ \A r \in s.roots : IsPrefix(s.root, r)
    BY DirFacts DEF SiteServed
  <1> QED BY <1>5, <1>6, <1>7, <1>8 DEF c

Naming(glob, file) == matchesScope({glob}, PathSuffixes(file))

LEMMA NamingFacts ==
    ASSUME NEW glob, NEW file
    PROVE  Naming(glob, file) <=> \E p \in PathSuffixes(file) : MatchesGlob(glob, p)
  BY DEF Naming, matchesScope

\* What the page is called by its root's path and again by its own.
LEMMA AgainFacts ==
    ASSUME NEW s, SiteServed(s), NEW path \in Seq(Words), NEW glob \in Globs,
           Len(path) = Len(s.file) - Len(s.root),
           \A k \in 1 .. Len(path) : path[k] = s.file[Len(s.root) + k],
           NEW p \in PathSuffixes(CommonAncestor(s.roots) \o path), MatchesGlob(glob, p)
    PROVE  \/ Naming(glob, s.file)
           \/ \A f \in s.served : ~Naming(glob, f)
  <1> DEFINE c == CommonAncestor(s.roots)
             w == c \o path
             n == Len(s.file)
             m == Len(s.root)
  <1>1. /\ c \in Seq(Words) /\ Len(c) \in 0 .. 2 /\ m \in 0 .. 2 /\ m <= Len(c) /\ Len(c) < n
        /\ \A k \in 1 .. Len(c) : c[k] = s.file[k]
    BY AncestorFacts, DirFacts DEF SiteServed
  <1>2. /\ s.file \in Seq(Words) /\ n \in 1 .. 3
        /\ \A i, j \in 1 .. n - 1 : s.file[i] = s.file[j] => i = j
    BY FileFacts DEF SiteServed
  <1>3. /\ w \in Seq(Words) /\ Len(w) = Len(c) + n - m
        /\ \A k \in 1 .. Len(c) : w[k] = s.file[k]
        /\ \A k \in Len(c) + 1 .. Len(c) + n - m : w[k] = s.file[m + k - Len(c)]
    <2>1. Len(path) = n - m /\ Len(w) = Len(c) + Len(path) /\ w \in Seq(Words)
      BY <1>1, ConcatProperties
    <2>2. \A k \in 1 .. Len(c) + Len(path) : w[k] = IF k <= Len(c) THEN c[k] ELSE path[k - Len(c)]
      BY <1>1, ConcatProperties
    <2>3. \A k \in 1 .. Len(path) : path[k] = s.file[m + k]
      OBVIOUS
    <2> HIDE DEF w, c, n, m
    <2>4. ASSUME NEW k \in 1 .. Len(c)
          PROVE  w[k] = s.file[k]
      <3>1. k \in 1 .. Len(c) + (n - m) /\ k <= Len(c)
        BY <1>1, <1>2
      <3>2. w[k] = c[k]
        BY <2>1, <2>2, <3>1
      <3> QED BY <1>1, <3>2
    <2>5. ASSUME NEW k \in Len(c) + 1 .. Len(c) + n - m
          PROVE  w[k] = s.file[m + k - Len(c)]
      <3>1. k - Len(c) \in 1 .. Len(path) /\ k \in 1 .. Len(c) + Len(path) /\ ~(k <= Len(c))
        <4>1. k \in 1 .. Len(c) + (n - m) /\ ~(k <= Len(c)) /\ k - Len(c) \in 1 .. n - m
          BY <1>1, <1>2
        <4> QED BY <2>1, <4>1
      <3>2. w[k] = path[k - Len(c)] /\ path[k - Len(c)] = s.file[m + (k - Len(c))]
        BY <2>2, <2>3, <3>1
      <3>3. m + (k - Len(c)) = m + k - Len(c)
        BY <1>1, <2>5
      <3> QED BY <3>2, <3>3
    <2> QED BY <1>1, <1>2, <2>1, <2>4, <2>5
  <1>4. PICK i \in 1 .. Len(w) : p = Suffix(w, i)
    BY DEF PathSuffixes, Suffix
  <1> HIDE DEF w
  <1>5. /\ p \in Seq(Words) /\ Len(p) = Len(w) - i + 1
        /\ \A k \in 1 .. Len(w) - i + 1 : p[k] = w[i + k - 1]
    BY <1>3, <1>4, SuffixFacts
  <1> HIDE DEF c, n, m
  <1>6. ASSUME NEW j \in 1 .. n, Suffix(s.file, j) = p
        PROVE  Naming(glob, s.file)
    BY <1>2, <1>6, SuffixFacts, NamingFacts DEF n
  <1>7. CASE i > Len(c)
    <2> DEFINE j == m + i - Len(c)
    <2>1. j \in 1 .. n
      BY <1>1, <1>2, <1>3, <1>7
    <2>2. /\ Suffix(s.file, j) \in Seq(Words) /\ Len(Suffix(s.file, j)) = n - j + 1
          /\ \A k \in 1 .. n - j + 1 : Suffix(s.file, j)[k] = s.file[j + k - 1]
      BY <1>2, <2>1, SuffixFacts DEF n
    <2>3. Len(p) = n - j + 1
      BY <1>1, <1>2, <1>3, <1>5
    <2>4. ASSUME NEW k \in 1 .. Len(p)
          PROVE  p[k] = Suffix(s.file, j)[k]
      <3>1. p[k] = w[i + k - 1] /\ i + k - 1 \in Len(c) + 1 .. Len(c) + n - m
        BY <1>1, <1>2, <1>3, <1>5, <1>7, SMTT(30)
      <3>2. w[i + k - 1] = s.file[m + (i + k - 1) - Len(c)]
        BY <1>3, <3>1
      <3>3. m + (i + k - 1) - Len(c) = j + k - 1
        BY <1>1, <1>2, <1>3
      <3> QED BY <2>2, <2>3, <3>1, <3>2, <3>3
    <2>5. Suffix(s.file, j) = p
      BY <1>5, <2>2, <2>3, <2>4, SeqEqual
    <2> QED BY <1>6, <2>1, <2>5
  <1>8. CASE i <= Len(c) /\ ~glob.under
    <2>1. p \in Files
      BY <1>8 DEF Globs, MatchesGlob
    <2>2. /\ Len(p) \in 1 .. 3
          /\ \A x, y \in 1 .. Len(p) - 1 : p[x] = p[y] => x = y
      BY <2>1, FileFacts
    <2>3. CASE m = Len(c)
      <3>1. /\ Suffix(s.file, i) \in Seq(Words) /\ Len(Suffix(s.file, i)) = n - i + 1
            /\ \A k \in 1 .. n - i + 1 : Suffix(s.file, i)[k] = s.file[i + k - 1]
        <4>1. i \in 1 .. n
          BY <1>1, <1>2, <1>8
        <4> QED BY <1>2, <4>1, SuffixFacts DEF n
      <3>2. Len(p) = n - i + 1
        BY <1>1, <1>2, <1>3, <1>5, <2>3
      <3>3. ASSUME NEW k \in 1 .. Len(p)
            PROVE  p[k] = Suffix(s.file, i)[k]
        <4>1. p[k] = w[i + k - 1] /\ i + k - 1 \in 1 .. n
          BY <1>1, <1>2, <1>5, <1>8, <3>2
        <4>2. w[i + k - 1] = s.file[i + k - 1]
          BY <1>1, <1>2, <1>3, <2>3, <4>1
        <4> QED BY <3>1, <3>2, <4>1, <4>2
      <3>4. Suffix(s.file, i) = p
        BY <1>5, <3>1, <3>2, <3>3, SeqEqual
      <3> QED BY <1>1, <1>2, <1>6, <1>8, <3>4
    <2>4. CASE Len(c) = m + 1
      <3> DEFINE x == Len(c) - i + 1
      <3>1. x \in 1 .. Len(p) - 1 /\ x + 1 \in 1 .. Len(p) - 1
        BY <1>1, <1>2, <1>3, <1>5, <1>8, <2>4
      <3>2. p[x] = w[Len(c)] /\ p[x + 1] = w[Len(c) + 1]
        BY <1>1, <1>2, <1>3, <1>5, <1>8, <2>4, <3>1
      <3>3. w[Len(c)] = s.file[Len(c)] /\ w[Len(c) + 1] = s.file[Len(c)]
        BY <1>1, <1>2, <1>3, <2>4
      <3>4. x \in Int
        BY <1>1, <1>3
      <3> HIDE DEF x
      <3> QED BY <2>2, <3>1, <3>2, <3>3, <3>4
    <2>5. CASE Len(c) = 2 /\ m = 0
      BY <1>1, <1>2, <1>3, <1>5, <1>8, <2>2, <2>5
    <2> QED BY <1>1, <2>3, <2>4, <2>5, SMTT(30)
  <1>9. CASE i <= Len(c) /\ glob.under
    <2> DEFINE d == glob.path
    <2>1. d \in Dirs /\ d # <<>> /\ IsStrictPrefix(d, p)
      BY <1>9 DEF Globs, MatchesGlob
    <2>2. d \in Seq(Words) /\ Len(d) \in 1 .. 2 /\ \A x, y \in 1 .. Len(d) : d[x] = d[y] => x = y
      BY <2>1, DirFacts, EmptySeq
    <2>3. Len(d) < Len(p) /\ \A k \in 1 .. Len(d) : d[k] = p[k]
      BY <1>5, <2>1, <2>2, StrictPrefixFacts
    <2>4. \A k \in 1 .. Len(d) : d[k] = w[i + k - 1]
      BY <1>5, <2>2, <2>3
    <2> HIDE DEF d
    <2>5. ASSUME i + Len(d) <= n, \A k \in 1 .. Len(d) : d[k] = s.file[i + k - 1]
          PROVE  Naming(glob, s.file)
      <3>1. i \in 1 .. n
        BY <1>1, <1>2, <1>9
      <3>2. /\ Suffix(s.file, i) \in Seq(Words) /\ Len(Suffix(s.file, i)) = n - i + 1
            /\ \A k \in 1 .. n - i + 1 : Suffix(s.file, i)[k] = s.file[i + k - 1]
            /\ Suffix(s.file, i) \in PathSuffixes(s.file)
        BY <1>2, <3>1, SuffixFacts DEF n
      <3>3. \A k \in 1 .. Len(d) : d[k] = Suffix(s.file, i)[k]
        BY <1>2, <2>2, <2>5, <3>1, <3>2
      <3>4. IsStrictPrefix(d, Suffix(s.file, i))
        <4>1. Len(d) < Len(Suffix(s.file, i))
          BY <1>2, <2>2, <2>5, <3>1, <3>2
        <4> QED BY <2>2, <3>2, <3>3, <4>1, StrictPrefixFacts
      <3> QED BY <1>9, <3>2, <3>4, NamingFacts DEF MatchesGlob, d
    <2>6. CASE Len(d) = 1
      <3>1. d[1] = s.file[i]
        BY <1>1, <1>3, <1>9, <2>4, <2>6
      <3> QED BY <1>1, <1>2, <1>9, <2>5, <2>6, <3>1
    <2>7. CASE Len(d) = 2 /\ i < Len(c)
      <3>1. d[1] = s.file[i] /\ d[2] = s.file[i + 1]
        BY <1>1, <1>3, <1>9, <2>4, <2>7
      <3> QED BY <1>1, <1>2, <1>9, <2>5, <2>7, <3>1
    <2>8. CASE Len(d) = 2 /\ i = Len(c) /\ m = Len(c)
      <3>1. d[1] = s.file[i] /\ d[2] = s.file[i + 1]
        BY <1>1, <1>2, <1>3, <1>9, <2>4, <2>8
      <3>2. i + 2 <= n
        BY <1>1, <1>2, <1>3, <1>5, <2>3, <2>8
      <3> QED BY <1>1, <1>2, <1>9, <2>5, <2>8, <3>1, <3>2
    <2>9. CASE Len(d) = 2 /\ i = Len(c) /\ Len(c) = m + 1
      <3>1. d[1] = s.file[i] /\ d[2] = s.file[m + 1]
        BY <1>1, <1>2, <1>3, <1>9, <2>4, <2>9
      <3> QED BY <1>1, <2>2, <2>9, <3>1
    <2>10. CASE Len(d) = 2 /\ i = Len(c) /\ Len(c) = 2 /\ m = 0
      <3>1. d[1] = s.file[2] /\ d[2] = s.file[1] /\ s.file[1] # s.file[2]
        BY <1>1, <1>2, <1>3, <1>9, <2>4, <2>10
      <3> SUFFICES ASSUME NEW f \in s.served, Naming(glob, f) PROVE FALSE
        OBVIOUS
      <3>2. f \in Files /\ f \in Seq(Words) /\ Len(f) \in 1 .. 3
        BY FileFacts DEF SiteServed
      <3>3. Len(f) = 3 /\ f[1] = s.file[1]
        BY <1>1, <2>10, <3>2, AncestorFacts DEF c
      <3>4. PICK j \in 1 .. Len(f) : MatchesGlob(glob, Suffix(f, j))
        BY NamingFacts DEF PathSuffixes, Suffix
      <3>5. /\ Suffix(f, j) \in Seq(Words) /\ Len(Suffix(f, j)) = Len(f) - j + 1
            /\ \A k \in 1 .. Len(f) - j + 1 : Suffix(f, j)[k] = f[j + k - 1]
        BY <3>2, SuffixFacts
      <3>6. IsStrictPrefix(d, Suffix(f, j))
        BY <1>9, <3>4 DEF MatchesGlob, d
      <3>7. Len(d) < Len(Suffix(f, j)) /\ d[1] = Suffix(f, j)[1]
        <4>1. /\ Len(d) < Len(Suffix(f, j))
              /\ \A k \in 1 .. Len(d) : d[k] = Suffix(f, j)[k]
          BY <2>2, <3>5, <3>6, StrictPrefixFacts
        <4> QED BY <2>10, <4>1
      <3>8. j = 1
        BY <2>10, <3>3, <3>5, <3>7
      <3> QED BY <3>1, <3>3, <3>5, <3>7, <3>8
    <2> QED BY <1>1, <1>9, <2>2, <2>6, <2>7, <2>8, <2>9, <2>10
  <1> QED BY <1>3, <1>7, <1>8, <1>9 DEF Globs

\* The path of the page below the document root, whatever its URL names.
PagePath(s) == IF s.directory THEN Append(pathname(s), "index") ELSE pathname(s)

LEMMA PathnameFacts ==
    ASSUME NEW s, SiteServed(s)
    PROVE  /\ Len(s.root) + 1 \in 1 .. Len(s.file)
           /\ PagePath(s) = Suffix(s.file, Len(s.root) + 1)
  <1> DEFINE base == Suffix(s.file, Len(s.root) + 1)
  <1>1. s.file \in Seq(Words) /\ Len(s.file) \in 1 .. 3
    BY FileFacts DEF SiteServed
  <1>2. Len(s.root) + 1 \in 1 .. Len(s.file)
    <2>1. Len(CommonAncestor(s.roots)) < Len(s.file)
      BY AncestorFacts DEF SiteServed
    <2> QED BY <1>1, <2>1, AncestorFacts, DirFacts DEF SiteServed
  <1>3. /\ base \in Seq(Words) /\ Len(base) = Len(s.file) - Len(s.root)
        /\ \A k \in 1 .. Len(s.file) - Len(s.root) : base[k] = s.file[Len(s.root) + k]
    <2>1. /\ base \in Seq(Words) /\ Len(base) = Len(s.file) - (Len(s.root) + 1) + 1
          /\ \A k \in 1 .. Len(s.file) - (Len(s.root) + 1) + 1 :
               base[k] = s.file[(Len(s.root) + 1) + k - 1]
      BY <1>1, <1>2, SuffixFacts
    <2> HIDE DEF base
    <2>2. Len(s.root) \in Int
      BY DirFacts DEF SiteServed
    <2>3. Len(s.file) - (Len(s.root) + 1) + 1 = Len(s.file) - Len(s.root)
      BY <1>1, <2>2
    <2>4. \A k \in Int : (Len(s.root) + 1) + k - 1 = Len(s.root) + k
      BY <2>2
    <2>5. Len(base) = Len(s.file) - Len(s.root)
      BY <2>1, <2>3
    <2>6. ASSUME NEW k \in 1 .. Len(s.file) - Len(s.root)
          PROVE  base[k] = s.file[Len(s.root) + k]
      <3>1. k \in 1 .. Len(s.file) - (Len(s.root) + 1) + 1
        BY <2>3
      <3>2. base[k] = s.file[(Len(s.root) + 1) + k - 1]
        BY <2>1, <3>1
      <3>3. (Len(s.root) + 1) + k - 1 = Len(s.root) + k
        BY <2>4
      <3> QED BY <3>2, <3>3
    <2> QED BY <2>1, <2>5, <2>6
  <1>4. PagePath(s) = IF s.directory THEN Append(Front(base), "index") ELSE base
    BY DEF PagePath, pathname, Suffix
  <1> HIDE DEF base
  <1>5. Len(s.file) \in 1 .. 3 /\ Len(s.root) \in 0 .. 2
    BY <1>1, DirFacts DEF SiteServed
  <1>6. CASE s.directory
    <2>1. PICK n \in 1 .. 3 : n = Len(base) /\ Len(s.root) + n = Len(s.file)
      <3>1. \A x \in 1 .. 3, y \in 0 .. 2 : y + 1 \in 1 .. x => x - y \in 1 .. 3 /\ y + (x - y) = x
        OBVIOUS
      <3> QED BY <1>2, <1>3, <1>5, <3>1
    <2>2. base \in Seq(Words) /\ Len(base) = n /\ \A k \in 1 .. n : base[k] \in Words
      BY <1>3, <2>1, ElementOfSeq
    <2>3. base[n] = s.file[Len(s.file)]
      <3>1. n \in 1 .. Len(s.file) - Len(s.root)
        BY <1>3, <2>1
      <3> QED BY <1>3, <2>1, <3>1
    <2>4. base[n] = "index"
      BY <1>6, <2>3 DEF SiteServed, Last
    <2>5. /\ Front(base) \in Seq(Words) /\ Len(Front(base)) = n - 1
          /\ \A k \in 1 .. n - 1 : Front(base)[k] = base[k]
      <3>1. PICK l \in 0 .. 2 : l = n - 1
        BY <2>1
      <3>2. \A k \in 1 .. l : base[k] \in Words
        BY <2>2, <3>1
      <3>3. /\ SubSeq(base, 1, l) \in Seq(Words) /\ Len(SubSeq(base, 1, l)) = l
            /\ \A k \in 1 .. l : SubSeq(base, 1, l)[k] = base[k]
        BY <3>1, <3>2, SubSeqProperties
      <3> QED BY <2>2, <3>1, <3>3 DEF Front
    <2>6. "index" \in Words
      BY <2>1, <2>2, <2>4
    <2>7. /\ Append(Front(base), "index") \in Seq(Words)
          /\ Len(Append(Front(base), "index")) = n
          /\ \A k \in 1 .. n - 1 : Append(Front(base), "index")[k] = base[k]
          /\ Append(Front(base), "index")[n] = "index"
      BY <2>5, <2>6, AppendProperties
    <2>8. ASSUME NEW k \in 1 .. n
          PROVE  Append(Front(base), "index")[k] = base[k]
      BY <2>4, <2>7
    <2>9. Append(Front(base), "index") = base
      BY <2>2, <2>7, <2>8, SeqEqual
    <2> QED BY <1>2, <1>4, <1>6, <2>9 DEF base
  <1> QED BY <1>2, <1>4, <1>6 DEF base

\* A suffix of a suffix is one of the whole.
LEMMA SuffixOfSuffix ==
    ASSUME NEW f \in Seq(Words), NEW j \in 1 .. Len(f), NEW p \in PathSuffixes(Suffix(f, j))
    PROVE  p \in PathSuffixes(f)
  <1> DEFINE q == Suffix(f, j)
  <1>1. /\ q \in Seq(Words) /\ Len(q) = Len(f) - j + 1
        /\ \A k \in 1 .. Len(f) - j + 1 : q[k] = f[j + k - 1]
    BY SuffixFacts
  <1>2. PICK i \in 1 .. Len(q) : p = Suffix(q, i)
    BY DEF PathSuffixes, Suffix
  <1> HIDE DEF q
  <1>3. /\ p \in Seq(Words) /\ Len(p) = Len(q) - i + 1
        /\ \A k \in 1 .. Len(q) - i + 1 : p[k] = q[i + k - 1]
    BY <1>1, <1>2, SuffixFacts
  <1>4. Len(f) \in Nat
    BY LenProperties
  <1> DEFINE h == j + i - 1
  <1>5. h \in 1 .. Len(f) /\ Len(f) - h + 1 = Len(q) - i + 1
    BY <1>1, <1>4
  <1>6. /\ Suffix(f, h) \in Seq(Words) /\ Len(Suffix(f, h)) = Len(f) - h + 1
        /\ Suffix(f, h) \in PathSuffixes(f)
        /\ \A k \in 1 .. Len(f) - h + 1 : Suffix(f, h)[k] = f[h + k - 1]
    BY <1>5, SuffixFacts
  <1>7. ASSUME NEW k \in 1 .. Len(p)
        PROVE  p[k] = Suffix(f, h)[k]
    <2>1. i + k - 1 \in 1 .. Len(f) - j + 1 /\ j + (i + k - 1) - 1 = h + k - 1
      BY <1>1, <1>3, <1>4, SMTT(30)
    <2> QED BY <1>1, <1>3, <1>5, <1>6, <2>1
  <1>8. p = Suffix(f, h)
    BY <1>3, <1>5, <1>6, <1>7, SeqEqual
  <1> QED BY <1>6, <1>8

Candidates(s) ==
    pageCandidates(pathname(s), s.directory, s.roots, IF s.listed THEN s.served ELSE {})

\* A path that is tried for a page brings no waiver of another page.
LEMMA CandidatesAreOwn ==
    ASSUME NEW s, SiteServed(s), NEW glob \in Globs, NEW p \in Candidates(s), MatchesGlob(glob, p)
    PROVE  Naming(glob, s.file) \/ \A f \in s.served : ~Naming(glob, f)
  <1> DEFINE path == PagePath(s)
             m == Len(s.root)
             known == {f \in IF s.listed THEN s.served ELSE {} : IsSuffix(path, f)}
  <1>1. s.file \in Seq(Words) /\ Len(s.file) \in 1 .. 3
    BY FileFacts DEF SiteServed
  <1>2. m + 1 \in 1 .. Len(s.file) /\ path = Suffix(s.file, m + 1) /\ m \in 0 .. 2
    BY PathnameFacts, DirFacts DEF SiteServed
  <1>3. p \in PathSuffixes(path) \cup
              IF Cardinality(known) = 1 THEN UNION {PathSuffixes(f) : f \in known}
              ELSE Prefixed(path, s.roots)
    BY DEF Candidates, pageCandidates, PagePath
  <1> HIDE DEF path, m, known
  <1>4. p \in PathSuffixes(s.file) => Naming(glob, s.file)
    BY NamingFacts
  <1>5. CASE p \in PathSuffixes(path)
    BY <1>1, <1>2, <1>4, <1>5, SuffixOfSuffix
  <1>6. CASE Cardinality(known) = 1 /\ p \in UNION {PathSuffixes(f) : f \in known}
    <2>1. IsFiniteSet(known) /\ known \subseteq s.served
      BY FS_Subset, FS_EmptySet DEF known, SiteServed
    <2>2. PICK f : known = {f}
      BY <1>6, <2>1, FS_Singleton
    <2>3. s.listed
      BY <2>2 DEF known
    <2>4. s.file \in known
      BY <1>1, <1>2, <2>3, SuffixIsSuffix DEF known, SiteServed
    <2> QED BY <1>4, <1>6, <2>2, <2>4
  <1>7. CASE p \in Prefixed(path, s.roots)
    <2>1. p \in PathSuffixes(CommonAncestor(s.roots) \o path)
      BY <1>7 DEF Prefixed, SiteServed
    <2>2. /\ path \in Seq(Words) /\ Len(path) = Len(s.file) - (m + 1) + 1
          /\ \A k \in 1 .. Len(s.file) - (m + 1) + 1 : path[k] = s.file[(m + 1) + k - 1]
      BY <1>1, <1>2, SuffixFacts
    <2>3. Len(path) = Len(s.file) - m
      <3>1. \A x \in 1 .. 3, y \in 0 .. 2 : x - (y + 1) + 1 = x - y
        OBVIOUS
      <3>2. Len(s.file) - (m + 1) + 1 = Len(s.file) - m
        BY <1>1, <1>2, <3>1
      <3> QED BY <2>2, <3>2
    <2>4. \A k \in 1 .. Len(path) : path[k] = s.file[m + k]
      <3> TAKE k \in 1 .. Len(path)
      <3>1. (m + 1) + k - 1 = m + k /\ k \in 1 .. Len(s.file) - (m + 1) + 1
        BY <1>1, <1>2, <2>2
      <3> QED BY <2>2, <3>1
    <2> QED BY <2>1, <2>2, <2>3, <2>4, AgainFacts DEF m
  <1> QED BY <1>3, <1>5, <1>6, <1>7

\* A scan that was asked for has the waivers of the page it is on.
DetectInv ==
    /\ SiteServed(site)
    /\ waivers \in WaiverSets
    /\ \A s \in scans : s.config = resolveDetectIgnores(waivers, site)

LEMMA DetectInvInit == DetectInit => DetectInv
  <1> SUFFICES ASSUME DetectInit PROVE DetectInv
    OBVIOUS
  <1>1. SiteServed(site)
    <2>1. PICK served \in {s \in SUBSET Files : Cardinality(s) \in 1 .. 2},
               roots \in {r \in SUBSET Dirs : Cardinality(r) \in 1 .. 2} :
            /\ \A f \in served : \E r \in roots : IsPrefix(r, Front(f))
            /\ \E root \in Dirs, file \in served, listed \in BOOLEAN, directory \in BOOLEAN :
                 /\ \A r \in roots : IsPrefix(root, r)
                 /\ directory => Last(file) = "index"
                 /\ site = [root |-> root, served |-> served, roots |-> roots, listed |-> listed,
                            file |-> file, directory |-> directory]
      BY DEF DetectInit, SiteInit
    <2>2. roots # {} /\ IsFiniteSet(served)
      BY SiteAssumption, FS_EmptySet, FS_Subset
    <2> QED BY <2>1, <2>2 DEF SiteServed
  <1> QED BY <1>1 DEF DetectInit, DetectorOff, DetectInv

LEMMA DetectInvStep == DetectInv /\ [DetectNext]_detectVars => DetectInv'
  <1> SUFFICES ASSUME DetectInv, [DetectNext]_detectVars PROVE DetectInv'
    OBVIOUS
  <1>1. UNCHANGED <<site, waivers>>
    BY DEF DetectNext, detectVars, toggleDetect, DetectorReady, ResultsArrive, DetectorScans
  <1>2. ASSUME NEW d, requestDetectScan(d)
        PROVE  \A s \in scans' : s.config = resolveDetectIgnores(waivers, site)
    <2> DEFINE config == resolveDetectIgnores(waivers, site)
    <2>1. scans' = scans \cup {[id |-> d.scans + 1, config |-> config]}
      BY <1>2 DEF requestDetectScan
    <2>2. \A s \in scans : s.config = config
      BY DEF DetectInv
    <2> HIDE DEF config
    <2>3. \A s \in scans' : s.config = config
      BY <2>1, <2>2
    <2> QED BY <2>3 DEF config
  <1>3. \A s \in scans' : s.config = resolveDetectIgnores(waivers, site)
    <2>1. CASE toggleDetect
      BY <1>2, <2>1 DEF toggleDetect, DetectInv
    <2>2. CASE DetectorReady
      BY <1>2, <2>2 DEF DetectorReady, DetectInv
    <2>3. CASE \E r \in results : ResultsArrive(r)
      BY <2>3 DEF ResultsArrive, DetectInv
    <2>4. CASE \E s \in scans : DetectorScans(s)
      BY <2>4 DEF DetectorScans, DetectInv
    <2>5. CASE UNCHANGED detectVars
      BY <2>5 DEF detectVars, DetectInv
    <2> QED BY <2>1, <2>2, <2>3, <2>4, <2>5 DEF DetectNext
  <1> QED BY <1>1, <1>3 DEF DetectInv

LEMMA DetectInvOwn == DetectInv => WaiversNotBorrowed
  <1> SUFFICES ASSUME DetectInv PROVE WaiversNotBorrowed
    OBVIOUS
  <1> DEFINE foreign == {glob \in Globs : /\ ~Naming(glob, site.file)
                                          /\ \E f \in site.served : Naming(glob, f)}
             C == Candidates(site)
             w == waivers
             config == resolveDetectIgnores(waivers, site)
             scoped == {v \in w.ignoreValues : v.files # {} /\ matchesScope(v.files, C)}
             unscoped == {v \in w.ignoreValues : v.files = {}}
  <1>1. \A glob \in foreign : ~matchesScope({glob}, C)
    BY CandidatesAreOwn DEF matchesScope, DetectInv
  <1>2. config = IF matchesScope(w.ignoreFiles, C)
                 THEN [skipScan |-> TRUE, disabledRules |-> {}, disabledValues |-> {}]
                 ELSE [skipScan |-> FALSE,
                       disabledRules |-> w.ignoreRules \cup {v.rule : v \in {v \in scoped : v.any}},
                       disabledValues |-> {v.rule : v \in {v \in scoped \cup unscoped : ~v.any}}]
    BY DEF resolveDetectIgnores, Candidates
  <1> HIDE DEF foreign, C, config
  <1>3. CASE \E glob \in Globs : w = [NoWaivers EXCEPT !.ignoreFiles = {glob}]
    <2>1. PICK glob \in Globs : w = [NoWaivers EXCEPT !.ignoreFiles = {glob}]
      BY <1>3
    <2>2. w.ignoreFiles = {glob} /\ w.ignoreRules = {} /\ w.ignoreValues = {}
      BY <2>1 DEF NoWaivers
    <2>3. (config.disabledRules \cup config.disabledValues) \cap foreign = {}
      BY <1>2, <2>2
    <2>4. config.skipScan => glob \notin foreign
      BY <1>1, <1>2, <2>2
    <2> QED BY <2>2, <2>3, <2>4 DEF WaiversNotBorrowed, DetectInv, config, foreign, Naming
  <1>4. CASE w = [NoWaivers EXCEPT !.ignoreValues = {[rule |-> glob, any |-> any, files |-> {glob}] :
                                                        glob \in Globs, any \in BOOLEAN}]
    <2>1. /\ w.ignoreFiles = {} /\ w.ignoreRules = {}
          /\ \A v \in w.ignoreValues : v.files = {v.rule}
      BY <1>4 DEF NoWaivers
    <2>2. ~matchesScope(w.ignoreFiles, C)
      BY <2>1 DEF matchesScope
    <2>3. \A v \in scoped \cup unscoped : v.rule \notin foreign
      BY <1>1, <2>1
    <2>4. ~config.skipScan /\ (config.disabledRules \cup config.disabledValues) \cap foreign = {}
      BY <1>2, <2>1, <2>2, <2>3
    <2> QED BY <2>4 DEF WaiversNotBorrowed, DetectInv, config, foreign, Naming
  <1> QED BY <1>3, <1>4 DEF DetectInv, WaiverSets

\* A page does not borrow the waivers of another: whatever is served, from whichever roots,
\* a waiver that names another page and not this one hides nothing here (pageCandidates).
THEOREM WaiversStayWithTheirPage == DetectSpec => []WaiversNotBorrowed
  BY DetectInvInit, DetectInvStep, DetectInvOwn, PTL DEF DetectSpec

-----------------------------------------------------------------------------
(***************************************************************************)
(* The overlay.  A step of one part leaves the others as they are.         *)
(***************************************************************************)
LEMMA PartsStart == LiveInit => Init /\ EditsInit /\ TargetInit /\ SteerInit
  BY DEF LiveInit

LEMMA PartsStep ==
    [LiveNext]_liveVars => /\ [Next]_vars
                           /\ [EditsNext]_editVars
                           /\ [TargetNext]_targetVars
                           /\ [SteerNext]_steerVars
  BY DEF LiveNext, liveVars

\* The overlay behaves as its specification of each part says.
LEMMA PartsBehave == LiveSpec => Spec /\ EditsSpec /\ TargetSpec /\ SteerSpec
  BY PartsStart, PartsStep, PTL DEF LiveSpec, Spec, EditsSpec, TargetSpec, SteerSpec

\* The detector's part, which stands at its beginning in an overlay of another part.
DetectorStill == IF part = "detect" THEN DetectInv ELSE scans = {}

LEMMA DetectorStillInit == LiveInit => DetectorStill
  BY DetectInvInit DEF LiveInit, DetectorStill, DetectorOff

LEMMA DetectorStillStep == DetectorStill /\ [LiveNext]_liveVars => DetectorStill'
  <1> SUFFICES ASSUME DetectorStill, [LiveNext]_liveVars PROVE DetectorStill'
    OBVIOUS
  <1>1. part' = part /\ [DetectNext]_detectVars
    BY DEF LiveNext, liveVars
  <1>2. part # "detect" => scans' = scans
    BY DEF LiveNext, liveVars, detectVars
  <1> QED BY <1>1, <1>2, DetectInvStep DEF DetectorStill

LEMMA DetectorStillOwn == DetectorStill => WaiversNotBorrowed
  BY DetectInvOwn DEF DetectorStill, WaiversNotBorrowed

\* What the parts guarantee by themselves holds in the overlay: no decision on a session is
\* undone, no completion is missed, the picker thaws, one session serves a request, a free tab
\* keeps trying, no steer message is lost, no waiver is borrowed, and no reload comes into a
\* configuration.
THEOREM OverlayIsSafe ==
    LiveSpec => /\ []DecidedStaysDecided
                /\ []CompletionNotMissed
                /\ []FrozenOnlyWhileApplying
                /\ []OneSessionServes
                /\ []FreeTabKeepsTrying
                /\ []MessageNotLost
                /\ []WaiversNotBorrowed
                /\ ReloadSparesConfiguration
  <1>1. LiveSpec => []WaiversNotBorrowed
    BY DetectorStillInit, DetectorStillStep, DetectorStillOwn, PTL DEF LiveSpec
  <1> QED BY <1>1, PartsBehave, SessionsStayDecided, CompletionsAreNotMissed, PickerThaws,
             RequestsEndInOneSession, FreeTabsKeepTrying, NoSteerLost, ConfigurationsAreSpared, PTL
=============================================================================
