----------------------------- MODULE LiveSteer -----------------------------
(***************************************************************************)
(* The steer chat of the live overlay (live-browser.js) and the voice      *)
(* input it shares with the configure bar.  A message is posted to the     *)
(* helper and locks the chat until the event stream tells of its end, the  *)
(* post fails or two minutes have passed; all but an end without error     *)
(* give the text back.                                                     *)
(*                                                                         *)
(* A text is known by the steer it was sent as; what is typed or spoken is *)
(* some text.  The checkpoints of a steer only report and are left out; so *)
(* is voiceSuppressSubmit, for where it is set the handlers of the speech  *)
(* engine are taken off as well.                                           *)
(***************************************************************************)
EXTENDS Integers, FiniteSets

CONSTANT MaxSteers     \* bound: messages sent

ASSUME SteerAssumption == MaxSteers \in Nat

Steers == 1 .. MaxSteers

NoSteer == 0

VARIABLES
    chat,              \* locked (steerLocked), id (steerRequestId), timer (the steer whose
                       \* steerAwaitTimer is set), pending (the steer steerPendingMessage is
                       \* of), text (the input has one)
    configuring,       \* the overlay's state is CONFIGURING
    voice,             \* the engine ("off", "starting", "on": voiceListening) and its mode
    sends,             \* posts of steers
    answers,           \* messages of the helper on their way
    helperHas,         \* phase of each steer at the helper
    ends               \* history: number sent, those done, those whose text was given back,
                       \* and whether a failed post unlocked the chat of another steer

steerVars == <<chat, configuring, voice, sends, answers, helperHas, ends>>

NoVoice == [engine |-> "off", mode |-> "none"]

SteerInit ==
    /\ chat = [locked |-> FALSE, id |-> NoSteer, timer |-> NoSteer, pending |-> NoSteer,
               text |-> FALSE]
    /\ configuring = FALSE
    /\ voice = NoVoice
    /\ sends = {}
    /\ answers = {}
    /\ helperHas = [n \in Steers |-> "new"]
    /\ ends = [sent |-> 0, done |-> {}, back |-> {}, late |-> FALSE]

-----------------------------------------------------------------------------
(***************************************************************************)
(* The chat.                                                               *)
(***************************************************************************)
Typed ==
    /\ ~chat.locked
    /\ chat' = [chat EXCEPT !.text = ~@]
    /\ UNCHANGED <<configuring, voice, sends, answers, helperHas, ends>>

\* With scheduleSteerAwaitTimeout.
lockSteerChat(n) == [chat EXCEPT !.locked = TRUE, !.id = n, !.pending = n, !.timer = n]

submitSteerMessage ==
    LET n == ends.sent + 1
    IN /\ voice' = NoVoice
       /\ IF chat.text /\ ~chat.locked
          THEN /\ n \in Steers
               /\ chat' = lockSteerChat(n)
               /\ sends' = sends \cup {[n |-> n, step |-> "sent"]}
               /\ ends' = [ends EXCEPT !.sent = n]
          ELSE UNCHANGED <<chat, sends, ends>>
       /\ UNCHANGED <<configuring, answers, helperHas>>

UserSubmits == ~chat.locked /\ submitSteerMessage

\* With an error the text of steer back, or NoSteer's, is put into the input again.
unlockSteerChat(error, back) ==
    LET kept == error /\ back # NoSteer
    IN [locked |-> FALSE, id |-> NoSteer, timer |-> NoSteer,
        pending |-> IF kept THEN back ELSE NoSteer, text |-> kept]

GivenBack(n) == [ends EXCEPT !.back = @ \cup ({n} \ {NoSteer})]

\* The continuation of the post: it does not ask whose steer locks the chat by now.
PostEnds(p) ==
    /\ p \in sends /\ p.step \in {"ok", "failed"}
    /\ sends' = sends \ {p}
    /\ IF p.step = "ok" THEN UNCHANGED <<chat, ends>>
       ELSE /\ chat' = unlockSteerChat(TRUE, p.n)
            /\ ends' = [GivenBack(p.n) EXCEPT !.late = @ \/ (chat.locked /\ chat.id # p.n)]
    /\ UNCHANGED <<configuring, voice, answers, helperHas>>

AwaitTimeout ==
    /\ chat.timer # NoSteer
    /\ IF chat.locked /\ chat.id = chat.timer
       THEN chat' = unlockSteerChat(TRUE, chat.pending) /\ ends' = GivenBack(chat.pending)
       ELSE chat' = [chat EXCEPT !.timer = NoSteer] /\ UNCHANGED ends
    /\ UNCHANGED <<configuring, voice, sends, answers, helperHas>>

\* Mutation: any steer's end is taken for that of the current one.
OfAnySteer(msg) == chat.id # NoSteer

OfThisSteer(msg) == chat.id # NoSteer /\ msg.n = chat.id

maybeCompleteSteer(msg) ==
    /\ answers' = answers \ {msg}
    /\ CASE OfThisSteer(msg) /\ msg.type = "steer_done" ->
              /\ chat' = unlockSteerChat(FALSE, NoSteer)
              /\ ends' = [ends EXCEPT !.done = @ \cup {msg.n}]
         [] OfThisSteer(msg) /\ msg.type = "error" ->
              chat' = unlockSteerChat(TRUE, chat.pending) /\ ends' = GivenBack(chat.pending)
         [] OTHER -> UNCHANGED <<chat, ends>>
    /\ UNCHANGED <<configuring, voice, sends, helperHas>>

-----------------------------------------------------------------------------
(***************************************************************************)
(* Voice input.                                                            *)
(***************************************************************************)
Voice(v) == voice' = v /\ UNCHANGED <<chat, configuring, sends, answers, helperHas, ends>>

\* toggleSteerVoice, toggleConfigureVoice; startVoice replaces an engine that only starts.
ToggleVoice(mode) ==
    /\ IF mode = "steer" THEN ~chat.locked ELSE configuring
    /\ \/ voice.engine = "on" /\ voice.mode = mode /\ Voice(NoVoice)
       \/ /\ voice.engine # "on"
          /\ mode = "steer" => ~configuring
          /\ Voice([engine |-> "starting", mode |-> mode])

VoiceStarts == voice.engine = "starting" /\ Voice([voice EXCEPT !.engine = "on"])

VoiceFails == voice.engine # "off" /\ Voice(NoVoice)

\* A transcript of what is spoken is in the input.
VoiceHears ==
    /\ voice.engine = "on" /\ voice.mode = "steer"
    /\ chat' = [chat EXCEPT !.text = TRUE]
    /\ UNCHANGED <<configuring, voice, sends, answers, helperHas, ends>>

\* finishVoiceSession: what the input has is submitted; Go leaves CONFIGURING.
VoiceEnds ==
    /\ voice.engine # "off"
    /\ \/ voice.mode = "steer" /\ chat.text /\ ~chat.locked /\ submitSteerMessage
       \/ voice.mode = "steer" /\ ~(chat.text /\ ~chat.locked) /\ Voice(NoVoice)
       \/ voice.mode = "configure" /\ Voice(NoVoice)
       \/ /\ voice.mode = "configure" /\ configuring
          /\ voice' = NoVoice
          /\ configuring' = FALSE
          /\ UNCHANGED <<chat, sends, answers, helperHas, ends>>

\* An element is picked, or the configure bar hidden (hideBar).
ConfigureOrNot ==
    /\ configuring' = ~configuring
    /\ voice' = IF configuring THEN NoVoice ELSE voice
    /\ UNCHANGED <<chat, sends, answers, helperHas, ends>>

-----------------------------------------------------------------------------
(***************************************************************************)
(* The helper: a post may fail on its way there or back; the end of a      *)
(* steer may be lost with the event stream.                                *)
(***************************************************************************)
PostServed(p) ==
    /\ p \in sends /\ p.step = "sent"
    /\ \/ /\ helperHas' = [helperHas EXCEPT ![p.n] = "queued"]
          /\ \E step \in {"ok", "failed"} : sends' = (sends \ {p}) \cup {[p EXCEPT !.step = step]}
       \/ /\ sends' = (sends \ {p}) \cup {[p EXCEPT !.step = "failed"]}
          /\ UNCHANGED helperHas
    /\ UNCHANGED <<chat, configuring, voice, answers, ends>>

SteerAnswered(n) ==
    /\ helperHas[n] = "queued"
    /\ helperHas' = [helperHas EXCEPT ![n] = "ended"]
    /\ \/ \E type \in {"steer_done", "error"} : answers' = answers \cup {[type |-> type, n |-> n]}
       \/ UNCHANGED answers
    /\ UNCHANGED <<chat, configuring, voice, sends, ends>>

SteerNext ==
    \/ Typed
    \/ UserSubmits
    \/ \E p \in sends : PostServed(p) \/ PostEnds(p)
    \/ AwaitTimeout
    \/ \E msg \in answers : maybeCompleteSteer(msg)
    \/ \E mode \in {"steer", "configure"} : ToggleVoice(mode)
    \/ VoiceStarts
    \/ VoiceFails
    \/ VoiceHears
    \/ VoiceEnds
    \/ ConfigureOrNot
    \/ \E n \in Steers : SteerAnswered(n)

SteerSpec == SteerInit /\ [][SteerNext]_steerVars

-----------------------------------------------------------------------------
\* No message is lost: each that was sent still locks the chat, with its own two minutes
\* running, or its end was heard, or its text was given back to the user, in whatever order
\* answers, time-outs and later messages come; unless the failed post of an earlier one,
\* already given back, has unlocked the chat of a later one (unlockSteerChat).
MessageNotLost ==
    \A n \in 1 .. ends.sent :
        \/ chat.locked /\ chat.id = n /\ chat.pending = n /\ chat.timer = n
        \/ n \in ends.done \cup ends.back
        \/ ends.late
=============================================================================
