---------------------------- MODULE CreatePages ----------------------------
(***************************************************************************)
(* The two pages that create a job: app/jobs/new, a JobForm by itself, and *)
(* app/convert, a wizard that loads an existing pgAgent job and shows a    *)
(* JobForm filled from it.                                                 *)
(*                                                                         *)
(* Of the form (components/jobs/job-form.tsx, mode "create") this module   *)
(* keeps the schedule and the next run time, because an effect computes    *)
(* one from the other with a debounced call whose answers may be late: of  *)
(* a next run time it keeps where it comes from, the schedule it was       *)
(* calculated for or the user.                                             *)
(***************************************************************************)
EXTENDS Route, Integers

CONSTANTS
    Schedules,     \* values of job_schedule
    Valid,         \* those the server accepts,
    Runnable,      \* and those of them that will run again
    Default,       \* the one a new form starts with
    Previews,      \* bound, by page: calls of cronPreview in flight
    PgJobs,        \* pgAgent job ids
    Steps,         \* step ids of a pgAgent job
    Detected,      \* what detailsToForm makes of details
    Lookups        \* bound: calls for the details of one in flight

ASSUME SchedulesAssumption ==
    /\ Runnable \subseteq Valid
    /\ Valid \subseteq Schedules
    /\ Default \in Runnable

ASSUME PreviewsAssumption == DOMAIN Previews = CreatePageNames

\* The field for an id is never empty at first.
ASSUME PgJobsAssumption == PgJobs # {}

VARIABLES
    mounted,     \* there is a JobForm
    values,      \* its schedule, auto_next_run and next_run_time
    initial,     \* the values it was filled from
    preview,     \* the closure whose preview it shows, or Nothing
    timer,       \* the 250 ms timer with its closure, or Nothing
    asked,       \* the calls of cronPreview in flight, with theirs
    busy,        \* its POST is on its way
    orphan,      \* so is the POST of a form that is gone
    wizard,      \* state of app/convert
    lookups      \* its calls for the details of a pgAgent job

formVars == <<mounted, values, initial, preview, timer, asked, busy>>

pageVars == <<page, orphan, wizard, lookups>>

createVars == <<formVars, pageVars>>

\* "" is an empty field, "typed" a time the user or the pgAgent job has given, and
\* a schedule the time the server calculated for it.
NextRuns == {"", "typed"} \cup Runnable

FormValues == [schedule : Schedules, auto : BOOLEAN, next : NextRuns]

\* detailsToForm: a next run time of the details is used as it is; without one it is
\* left to the schedule.
FromDetails == {v \in FormValues : IF v.auto THEN v.next = "" ELSE v.next = "typed"}

ASSUME DetectedAssumption == Detected \subseteq FromDetails

Slots == UNION {Previews[p] : p \in CreatePageNames}

Closures == [schedule : Schedules, auto : BOOLEAN]

Nothing == [preview |-> "none"]

\* A call for the details of a job, with a step or without.
Details == [job : PgJobs, step : Steps \cup {"none"}]

NoDetails == [job |-> "none"]

\* step_choices: the details name several steps to choose from.
Wizards == [input : PgJobs, shown : Details \cup {NoDetails}, choices : BOOLEAN,
            step : 1 .. 4, busy : BOOLEAN]

\* The form of the review is there from the third step on.
Reviewing(w) == w.shown # NoDetails /\ w.step >= 3

NewValues == [schedule |-> Default, auto |-> TRUE, next |-> ""]

CreateTypeOK ==
    /\ mounted \in BOOLEAN
    /\ values \in FormValues
    /\ initial \in FormValues
    /\ preview \in Closures \cup {Nothing}
    /\ timer \in Closures \cup {Nothing}
    /\ asked \in [Slots -> Closures \cup {Nothing}]
    /\ busy \in BOOLEAN
    /\ orphan \in BOOLEAN
    /\ page \in CreatePageNames
    /\ wizard \in Wizards
    /\ lookups \in [Lookups -> Details \cup {NoDetails}]
    /\ mounted <=> (page = "new" \/ Reviewing(wizard))
    /\ ~mounted => ~busy /\ timer = Nothing

-----------------------------------------------------------------------------
(***************************************************************************)
(* The form.                                                               *)
(***************************************************************************)
Closure(v) == [schedule |-> v.schedule, auto |-> v.auto]

\* Mutation: auto_next_run is not among the dependencies of the effect.
EffectOfSchedule(v) ==
    timer' = IF v.schedule = values.schedule THEN timer ELSE Closure(v)

\* The effect on schedule and auto_next_run: a new timer in place of the old one.
Effect(v) ==
    timer' = IF Closure(v) = Closure(values) THEN timer ELSE Closure(v)

SetValues(v) ==
    /\ values' = v
    /\ Effect(v)

\* Mounting runs every effect once.
MountForm(v) ==
    /\ mounted' = TRUE
    /\ values' = v
    /\ preview' = Nothing
    /\ timer' = Closure(v)
    /\ asked' = [p \in Slots |-> Nothing]
    /\ busy' = FALSE

\* Unmounting clears the timer; nobody is there for the answers.
UnmountForm ==
    /\ mounted' = FALSE
    /\ values' = NewValues
    /\ preview' = Nothing
    /\ timer' = Nothing
    /\ asked' = [p \in Slots |-> Nothing]
    /\ busy' = FALSE

ChangeSchedule ==
    /\ mounted
    /\ \E s \in Schedules \ {values.schedule} :
         SetValues([values EXCEPT !.schedule = s])
    /\ UNCHANGED <<mounted, initial, preview, asked, busy, pageVars>>

ToggleAuto ==
    /\ mounted
    /\ SetValues([values EXCEPT !.auto = ~@])
    /\ UNCHANGED <<mounted, initial, preview, asked, busy, pageVars>>

\* The field is there while the calculated time is not used.
TypeNextRun ==
    /\ mounted
    /\ ~values.auto
    /\ \E n \in {"", "typed"} : values' = [values EXCEPT !.next = n]
    /\ UNCHANGED <<mounted, initial, preview, timer, asked, busy, pageVars>>

Reset ==
    /\ mounted
    /\ SetValues(initial)
    /\ UNCHANGED <<mounted, initial, preview, asked, busy, pageVars>>

TimerFires(p) ==
    /\ timer # Nothing
    /\ p \in Previews[page]
    /\ asked[p] = Nothing
    /\ asked' = [asked EXCEPT ![p] = timer]
    /\ timer' = Nothing
    /\ UNCHANGED <<mounted, values, initial, preview, busy, pageVars>>

\* An answer is taken whatever the form shows by then: the cleanup of the effect
\* stops the timer, not the call.
PreviewAnswer(p) ==
    /\ asked[p] # Nothing
    /\ preview' = asked[p]
    /\ values' = IF asked[p].auto /\ asked[p].schedule \in Runnable
                 THEN [values EXCEPT !.next = asked[p].schedule] ELSE values
    /\ asked' = [asked EXCEPT ![p] = Nothing]
    /\ UNCHANGED <<mounted, initial, timer, busy, pageVars>>

PreviewFails(p) ==
    /\ asked[p] # Nothing
    /\ preview' = Nothing
    /\ asked' = [asked EXCEPT ![p] = Nothing]
    /\ UNCHANGED <<mounted, values, initial, timer, busy, pageVars>>

\* Without a next run time there is nothing to send; a schedule known to be invalid
\* disables the button.
SubmitCreate ==
    /\ mounted
    /\ ~busy
    /\ values.next # ""
    /\ preview # Nothing => preview.schedule \in Valid
    /\ busy' = TRUE
    /\ UNCHANGED <<mounted, values, initial, preview, timer, asked, pageVars>>

CreateFails ==
    /\ busy
    /\ busy' = FALSE
    /\ UNCHANGED <<mounted, values, initial, preview, timer, asked, pageVars>>

-----------------------------------------------------------------------------
(***************************************************************************)
(* The wizard.                                                             *)
(***************************************************************************)
\* The field starts with one id.
NewWizard ==
    [input |-> CHOOSE job \in PgJobs : TRUE, shown |-> NoDetails,
     choices |-> FALSE, step |-> 1, busy |-> FALSE]

FirstForm ==
    /\ mounted = (page = "new")
    /\ values = NewValues
    /\ initial = NewValues
    /\ preview = Nothing
    /\ timer = IF page = "new" THEN Closure(NewValues) ELSE Nothing
    /\ asked = [p \in Slots |-> Nothing]
    /\ busy = FALSE
    /\ orphan = FALSE
    /\ wizard = NewWizard
    /\ lookups = [l \in Lookups |-> NoDetails]

CreateInit == page \in CreatePageNames /\ FirstForm

EditInput ==
    /\ page = "convert"
    /\ \E j \in PgJobs \ {wizard.input} : wizard' = [wizard EXCEPT !.input = j]
    /\ UNCHANGED <<page, formVars, orphan, lookups>>

\* loadDetails up to its await, called with the field set to input: the job is the one
\* its closure has, that of the last rendering.
LoadDetails(input, step) ==
    /\ \E l \in Lookups :
         /\ lookups[l] = NoDetails
         /\ lookups' = [lookups EXCEPT ![l] = [job |-> wizard.input, step |-> step]]
    /\ wizard' = [wizard EXCEPT !.input = input, !.busy = TRUE]
    /\ UNCHANGED <<page, formVars, orphan>>

ClickLoad ==
    /\ page = "convert"
    /\ ~wizard.busy
    /\ LoadDetails(wizard.input, "none")

\* A row of the list that "Browse pgAgent jobs" has loaded: its id is put into the
\* field, and the details of the id that was there are loaded.
ClickRow(j) ==
    /\ page = "convert"
    /\ LoadDetails(j, "none")

ChooseStep(k) ==
    /\ wizard.choices
    /\ LoadDetails(wizard.input, k)

\* The form that was there is gone, its POST perhaps not.  Bound: one such POST.
Abandon ==
    /\ ~(orphan /\ busy)
    /\ orphan' = (orphan \/ busy)

\* New details: another key, hence a new form, unless they fill the form as the old
\* ones did; then the effect on initial fills it again.  What is left out of Detected
\* may make the difference.
DetailsAnswer(l) ==
    /\ lookups[l] # NoDetails
    /\ \E v \in Detected, choices \in BOOLEAN :
         LET d == lookups[l]
             w == [wizard EXCEPT !.shown = d, !.choices = choices, !.busy = FALSE,
                        !.step = IF choices /\ d.step = "none" THEN 2 ELSE 3]
         IN /\ wizard' = w
            /\ initial' = v
            /\ \/ /\ Reviewing(w) /\ mounted /\ v = initial
                  /\ SetValues(v)
                  /\ UNCHANGED <<mounted, preview, asked, busy, orphan>>
               \/ /\ IF Reviewing(w) THEN MountForm(v) ELSE UnmountForm
                  /\ Abandon
    /\ lookups' = [lookups EXCEPT ![l] = NoDetails]
    /\ UNCHANGED page

\* The page goes back to its second step, the details stay.
DetailsFail(l) ==
    /\ lookups[l] # NoDetails
    /\ lookups' = [lookups EXCEPT ![l] = NoDetails]
    /\ wizard' = [wizard EXCEPT !.step = 2, !.busy = FALSE]
    /\ UnmountForm
    /\ Abandon
    /\ UNCHANGED <<page, initial>>

\* onSuccess of app/convert: setStep(4).  The form stays and can be sent again.
CreateAnswer ==
    /\ busy
    /\ busy' = FALSE
    /\ wizard' = IF page = "convert" THEN [wizard EXCEPT !.step = 4] ELSE wizard
    /\ UNCHANGED <<page, mounted, values, initial, preview, timer, asked, orphan, lookups>>

\* The POST of a form that is gone moves the wizard on as well, and the review of
\* whatever details are there by then comes up.
OrphanAnswer ==
    /\ orphan
    /\ orphan' = FALSE
    /\ \/ UNCHANGED <<wizard, formVars>>
       \/ /\ wizard' = [wizard EXCEPT !.step = 4]
          /\ IF mounted THEN UNCHANGED formVars ELSE MountForm(initial) /\ UNCHANGED initial
    /\ UNCHANGED <<page, lookups>>

CreateNext ==
    \/ ChangeSchedule
    \/ ToggleAuto
    \/ TypeNextRun
    \/ Reset
    \/ \E p \in Slots : TimerFires(p) \/ PreviewAnswer(p) \/ PreviewFails(p)
    \/ SubmitCreate
    \/ CreateAnswer
    \/ CreateFails
    \/ EditInput
    \/ ClickLoad
    \/ \E j \in PgJobs : ClickRow(j)
    \/ \E k \in Steps : ChooseStep(k)
    \/ \E l \in Lookups : DetailsAnswer(l) \/ DetailsFail(l)
    \/ OrphanAnswer

CreateSpec == CreateInit /\ [][CreateNext]_createVars

-----------------------------------------------------------------------------
\* A form that is to use the calculated next run time, and shows the preview it asked
\* for with its present schedule, no other being on the way, has the time of that
\* schedule or none: however often the schedule and the check box were changed, and in
\* whatever order the answers came (the effect at job-form.tsx:85).
NextRunOfSchedule ==
    /\ mounted /\ values.auto
    /\ timer = Nothing /\ (\A p \in Slots : asked[p] = Nothing)
    /\ preview = Closure(values) /\ values.schedule \in Runnable
    => values.next \in {values.schedule, ""}
=============================================================================
