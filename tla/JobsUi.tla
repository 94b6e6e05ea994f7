------------------------------- MODULE JobsUi -------------------------------
(***************************************************************************)
(* The two pages of the web frontend that show the jobs and act on them:   *)
(* the jobs page (app/jobs/page.tsx), whose job opens in a sheet, and the  *)
(* overview (app/page.tsx), whose job stays beside the list.  Both show    *)
(* the selected job in a JobDetailPanel, which runs it and turns into a    *)
(* JobForm to edit it.  What the user does and the answers of the server   *)
(* interleave: a handler that awaits an answer goes on in whatever is      *)
(* mounted by then.                                                        *)
(*                                                                         *)
(* A page keeps a list of rows read by load(); React keeps the state of a  *)
(* panel or a form while it stays mounted under the same key, and an       *)
(* answer that comes for one that is gone changes nothing.                 *)
(***************************************************************************)
EXTENDS Route, Integers

CONSTANTS
    Jobs,          \* job_id values
    Fields,        \* what an edit can change, "op" for is_create among it
    Loads,         \* bound: calls of load() in flight
    Calls,         \* bound: runs and saves in flight
    MaxVersion     \* bound: writes of a row, its first state counted

ASSUME VersionAssumption == MaxVersion \in Nat \ {0}

\* "name" stands for what the form reads back from the row, "keep" is
\* create_drop_interval, which it does not.
ASSUME FieldsAssumption == "op" \in Fields /\ Fields \subseteq {"op", "name", "keep"}

VARIABLES
    table,        \* database: the row of each job
    list,         \* jobs, as the page shows them
    loads,        \* the calls of load()
    loading,      \* its flags loading and refreshing: one of them is set
    error,        \* it shows the error of a load() in place of the rows
    selected,     \* the row in the panel, or NoRow
    editMode,     \* the sheet is opened to edit (jobs page)
    panel,        \* state of the mounted JobDetailPanel
    form,         \* state of its JobForm
    calls,        \* runs and saves on their way
    owed          \* history: the version of a save the page was told of, until it
                  \* has been in the list; 0 otherwise

vars == <<page, table, list, loads, loading, error, selected, editMode, panel,
          form, calls, owed>>

\* What load() works on, and what the user has before him.
loadVars == <<list, loads, loading, error>>

shown == <<selected, editMode, panel, form>>

Values == {"create", "drop", "default", "chosen"}

ValuesOf(f) == IF f = "op" THEN {"create", "drop"} ELSE {"default", "chosen"}

Configs == {v \in [Fields -> Values] : \A f \in Fields : v[f] \in ValuesOf(f)}

\* version: the number of the write of this row that left it so.
Rows == [job : Jobs, config : Configs, version : 1 .. MaxVersion]

NoRow == [job |-> "none", config |-> "none", version |-> 0]

NoList == [j \in Jobs |-> NoRow]

Free == [stage |-> "free"]

\* A call of load(): asked, or answered from a state of the table.
LoadStates ==
    {Free, [stage |-> "sent"]} \cup [stage : {"served"}, rows : [Jobs -> Rows]]

\* What the answer of a call will still find mounted, from all to nothing.
Owners == {"form", "panel", "page", "gone"}

\* ticked: the job the confirmation in the request was ticked for, or "none" when
\* the request has confirm_drop false.
RunCalls == [kind : {"run"}, job : Jobs,
             ticked : Jobs \cup {"none"}, owner : {"panel", "page"}]

\* version is that of the row the form was filled from, and then the one written;
\* touched is what the user has changed.
SaveCalls == [kind : {"save"}, stage : {"sent", "done"}, job : Jobs,
              values : Configs, touched : SUBSET Fields, confirm : BOOLEAN,
              version : 1 .. MaxVersion, owner : Owners]

\* ticked: the job shown when "I understand this DROP ..." was ticked, or "none".
Panels == [busy : BOOLEAN, ticked : Jobs \cup {"none"}, editing : BOOLEAN]

NewPanel(editing) == [busy |-> FALSE, ticked |-> "none", editing |-> editing]

Forms == [values : Configs, base : Rows, touched : SUBSET Fields,
          confirm : BOOLEAN, busy : BOOLEAN]

NoForm == [busy |-> FALSE]

TypeOK ==
    /\ page \in JobPages
    /\ table \in [Jobs -> Rows]
    /\ list \in [Jobs -> Rows] \cup {NoList}
    /\ loads \in [Loads -> LoadStates]
    /\ loading \in BOOLEAN
    /\ error \in BOOLEAN
    /\ selected \in Rows \cup {NoRow}
    /\ editMode \in BOOLEAN
    /\ panel \in Panels
    /\ form \in Forms \cup {NoForm}
    /\ calls \in [Calls -> RunCalls \cup SaveCalls \cup {Free}]
    /\ owed \in [Jobs -> 0 .. MaxVersion]
    /\ panel.editing <=> form # NoForm
    /\ selected = NoRow => panel = NewPanel(FALSE) /\ ~editMode

-----------------------------------------------------------------------------
(***************************************************************************)
(* Mounting.                                                               *)
(***************************************************************************)
\* Mutation: is_create is not taken from the row.
FormInitialCreate(row) ==
    [f \in Fields |-> IF f = "op" THEN "create"
                      ELSE IF f = "keep" THEN "default" ELSE row.config[f]]

\* JSON intervals arrive as seconds, which parseIntervalParts does not read:
\* the form shows the defaults instead.
FormInitial(row) ==
    [f \in Fields |-> IF f = "keep" THEN "default" ELSE row.config[f]]

NewForm(row) == [values |-> FormInitial(row), base |-> row, touched |-> {},
                 confirm |-> FALSE, busy |-> FALSE]

\* Mutation: without the effect the form keeps the values of the row before.
RefillBaseOnly(row) == [form EXCEPT !.base = row]

\* A new job prop makes a new initial, and the effect fills the form from it.
Refill(row) == [form EXCEPT !.values = FormInitial(row), !.base = row,
                            !.touched = {}]

\* The owners that go away, and what is left for the answers of their calls.
Orphan(owners, left) ==
    [c \in Calls |-> IF calls[c] # Free /\ calls[c].owner \in owners
                     THEN [calls[c] EXCEPT !.owner = left] ELSE calls[c]]

\* Mutation: the box stays ticked.
RemountTicked(row, editing) ==
    /\ panel' = [NewPanel(editing) EXCEPT !.ticked = panel.ticked]
    /\ form' = IF editing THEN NewForm(row) ELSE NoForm
    /\ calls' = Orphan({"form", "panel"}, "page")

\* The panel under another key, or under none: what it had is gone.
Remount(row, editing) ==
    /\ panel' = NewPanel(editing)
    /\ form' = IF editing THEN NewForm(row) ELSE NoForm
    /\ calls' = Orphan({"form", "panel"}, "page")

\* load() up to its await.
StartLoad ==
    /\ \E s \in Loads :
         /\ loads[s] = Free
         /\ loads' = [loads EXCEPT ![s] = [stage |-> "sent"]]
    /\ loading' = TRUE
    /\ error' = FALSE
    /\ UNCHANGED list

\* A page is mounted: its effect calls load().
Mount(p) ==
    /\ page' = p
    /\ list' = NoList
    /\ \E s \in Loads :
         loads' = [t \in Loads |-> IF t = s THEN [stage |-> "sent"] ELSE Free]
    /\ loading' = TRUE
    /\ error' = FALSE
    /\ selected' = NoRow
    /\ editMode' = FALSE
    /\ panel' = NewPanel(FALSE)
    /\ form' = NoForm
    /\ owed' = [j \in Jobs |-> 0]

\* The first page of a browser, with a table of DROP jobs.
FirstVisit ==
    /\ table = [j \in Jobs |->
          [job |-> j, version |-> 1,
           config |-> [f \in Fields |-> IF f = "op" THEN "drop" ELSE "chosen"]]]
    /\ list = NoList
    /\ \E s \in Loads :
         loads = [t \in Loads |-> IF t = s THEN [stage |-> "sent"] ELSE Free]
    /\ loading = TRUE
    /\ error = FALSE
    /\ selected = NoRow
    /\ editMode = FALSE
    /\ panel = NewPanel(FALSE)
    /\ form = NoForm
    /\ calls = [c \in Calls |-> Free]
    /\ owed = [j \in Jobs |-> 0]

Init == page \in JobPages /\ FirstVisit

-----------------------------------------------------------------------------
(***************************************************************************)
(* The list.                                                               *)
(***************************************************************************)
\* The button is disabled while an answer is awaited, and the sheet covers it.
ClickRefresh ==
    /\ page = "jobs"
    /\ selected = NoRow
    /\ ~loading
    /\ StartLoad
    /\ UNCHANGED <<page, table, shown, calls, owed>>

ServeLoad(s) ==
    /\ loads[s].stage = "sent"
    /\ loads' = [loads EXCEPT ![s] = [stage |-> "served", rows |-> table]]
    /\ UNCHANGED <<page, table, list, loading, error, shown, calls, owed>>

\* finally: the flags are cleared, also when another call is still out.
EndLoad(s) ==
    /\ loads' = [loads EXCEPT ![s] = Free]
    /\ loading' = FALSE

\* Mutation: the row that was selected stays in the panel.
KeepSelected(rows) == UNCHANGED <<selected, form>>

\* The jobs page shows the row of the answer in place of the one selected.
RefreshSelected(rows) ==
    IF selected = NoRow
    THEN UNCHANGED <<selected, form>>
    ELSE /\ selected' = rows[selected.job]
         /\ form' = IF panel.editing THEN Refill(rows[selected.job]) ELSE form

\* The overview selects a row when none is, and never refreshes it.
SelectFirst(rows) ==
    /\ IF selected = NoRow
       THEN \E j \in Jobs : selected' = rows[j]
       ELSE UNCHANGED selected
    /\ UNCHANGED form

LoadAnswer(s) ==
    /\ loads[s].stage = "served"
    /\ LET rows == loads[s].rows IN
         /\ list' = rows
         /\ IF page = "jobs" THEN RefreshSelected(rows) ELSE SelectFirst(rows)
         /\ owed' = [j \in Jobs |-> IF owed[j] <= rows[j].version THEN 0 ELSE owed[j]]
    /\ EndLoad(s)
    /\ UNCHANGED <<page, table, error, editMode, panel, calls>>

\* Mutation: the flags are cleared by the answer only, not in finally.
LoadFailsFlagged(s) ==
    /\ loads[s] # Free
    /\ loads' = [loads EXCEPT ![s] = Free]
    /\ error' = TRUE
    /\ UNCHANGED <<page, table, list, loading, shown, calls, owed>>

\* The request or its answer is lost, or the answer is an error.
LoadFails(s) ==
    /\ loads[s] # Free
    /\ EndLoad(s)
    /\ error' = TRUE
    /\ UNCHANGED <<page, table, list, shown, calls, owed>>

\* A row of the table, or its pencil (edit), in the jobs page; QueryState hides
\* the rows behind an error.
OpenJob(j, edit) ==
    /\ page = "jobs"
    /\ selected = NoRow
    /\ ~error
    /\ list[j] # NoRow
    /\ selected' = list[j]
    /\ editMode' = edit
    /\ Remount(list[j], edit)
    /\ UNCHANGED <<page, table, loadVars, owed>>

\* Mutation: the sheet stays in edit mode for the next job.
CloseSheetEditing ==
    /\ page = "jobs"
    /\ selected # NoRow
    /\ selected' = NoRow
    /\ Remount(NoRow, FALSE)
    /\ UNCHANGED <<page, table, loadVars, editMode, owed>>

CloseSheet ==
    /\ page = "jobs"
    /\ selected # NoRow
    /\ selected' = NoRow
    /\ editMode' = FALSE
    /\ Remount(NoRow, FALSE)
    /\ UNCHANGED <<page, table, loadVars, owed>>

\* A row of the overview: its panel has no key, so it keeps its state, and a form
\* in it is filled again unless the row is the very one it has.
SelectRow(j) ==
    /\ page = "overview"
    /\ list[j] # NoRow
    /\ selected' = list[j]
    /\ form' \in IF ~panel.editing THEN {form}
                 ELSE IF list[j] = selected THEN {form, Refill(list[j])}
                 ELSE {Refill(list[j])}
    /\ UNCHANGED <<page, table, loadVars, editMode, panel, calls, owed>>

\* Another page, or the browser's own buttons.  Of the calls on their way only a
\* save that is not served yet still matters: nobody is there for an answer.
Navigate ==
    /\ \E p \in JobPages : Mount(p)
    /\ calls' = [c \in Calls |->
                   IF calls[c] # Free /\ calls[c].kind = "save" /\ calls[c].stage = "sent"
                   THEN [calls[c] EXCEPT !.owner = "gone"] ELSE Free]
    /\ UNCHANGED table

-----------------------------------------------------------------------------
(***************************************************************************)
(* The panel.                                                              *)
(***************************************************************************)
Viewing == selected # NoRow /\ ~panel.editing

IsDrop == selected.config["op"] = "drop"

TickDrop ==
    /\ Viewing
    /\ IsDrop
    /\ panel' = [panel EXCEPT !.ticked =
                    IF panel.ticked = "none" THEN selected.job ELSE "none"]
    /\ UNCHANGED <<page, table, loadVars, selected, editMode, form, calls, owed>>

RunNow(c) ==
    /\ Viewing
    /\ ~panel.busy
    /\ IsDrop => panel.ticked # "none"
    /\ calls[c] = Free
    /\ panel' = [panel EXCEPT !.busy = TRUE]
    /\ calls' = [calls EXCEPT ![c] =
           [kind |-> "run", job |-> selected.job,
            ticked |-> IF IsDrop THEN panel.ticked ELSE "none",
            owner |-> "panel"]]
    /\ UNCHANGED <<page, table, loadVars, selected, editMode, form, owed>>

EndRun(c) ==
    /\ panel' = IF calls[c].owner = "panel" THEN [panel EXCEPT !.busy = FALSE] ELSE panel
    /\ calls' = [calls EXCEPT ![c] = Free]
    /\ UNCHANGED <<page, table, selected, editMode, form, owed>>

\* The job ran: what the server made of the request is modelled in ApiJobs.  onRan
\* calls load() of the page, whatever has become of the panel.
RunAnswer(c) ==
    /\ calls[c] # Free
    /\ calls[c].kind = "run"
    /\ EndRun(c)
    /\ StartLoad

\* An error, or the answer is lost whether the job ran or not.
RunFails(c) ==
    /\ calls[c] # Free
    /\ calls[c].kind = "run"
    /\ EndRun(c)
    /\ UNCHANGED loadVars

StartEdit ==
    /\ Viewing
    /\ panel' = [panel EXCEPT !.editing = TRUE]
    /\ form' = NewForm(selected)
    /\ UNCHANGED <<page, table, loadVars, selected, editMode, calls, owed>>

\* The panel shows the job again; the form is gone.
StopEditing ==
    /\ panel' = [panel EXCEPT !.editing = FALSE]
    /\ form' = NoForm

-----------------------------------------------------------------------------
(***************************************************************************)
(* The form, in its edit mode.                                             *)
(***************************************************************************)
Dirty == form.values # FormInitial(form.base)

Dangerous == form.values["op"] # form.base.config["op"]

EditField ==
    /\ panel.editing
    /\ \E f \in Fields : \E v \in ValuesOf(f) \ {form.values[f]} :
         form' = [form EXCEPT !.values[f] = v,
                              !.touched = IF v = FormInitial(form.base)[f]
                                          THEN @ \ {f} ELSE @ \cup {f}]
    /\ UNCHANGED <<page, table, loadVars, selected, editMode, panel, calls, owed>>

TickDangerous ==
    /\ panel.editing
    /\ Dangerous
    /\ form' = [form EXCEPT !.confirm = ~@]
    /\ UNCHANGED <<page, table, loadVars, selected, editMode, panel, calls, owed>>

CancelEdit ==
    /\ panel.editing
    /\ StopEditing
    /\ calls' = Orphan({"form"}, "panel")
    /\ UNCHANGED <<page, table, loadVars, selected, editMode, owed>>

\* The whole form is sent, what was not touched included.
SubmitEdit(c) ==
    /\ panel.editing
    /\ ~form.busy
    /\ Dirty
    /\ Dangerous => form.confirm
    /\ calls[c] = Free
    /\ form' = [form EXCEPT !.busy = TRUE]
    /\ calls' = [calls EXCEPT ![c] =
           [kind |-> "save", stage |-> "sent", job |-> selected.job,
            values |-> form.values, touched |-> form.touched,
            confirm |-> form.confirm, version |-> form.base.version,
            owner |-> "form"]]
    /\ UNCHANGED <<page, table, loadVars, selected, editMode, panel, owed>>

\* A committed write.  Bound: none after MaxVersion is reached in one row.
Write(j, config) ==
    /\ \A k \in Jobs : table[k].version < MaxVersion
    /\ table' = [table EXCEPT ![j].config = config, ![j].version = @ + 1]

\* PATCH /jobs/{id}: compares with the row of the table, and writes every field.
ServeSave(c) ==
    /\ calls[c] # Free
    /\ calls[c].kind = "save"
    /\ calls[c].stage = "sent"
    /\ LET s == calls[c] IN
         /\ s.values["op"] # table[s.job].config["op"] => s.confirm
         /\ Write(s.job, s.values)
         /\ calls' = [calls EXCEPT ![c] =
                IF s.owner = "gone" THEN Free
                ELSE [s EXCEPT !.stage = "done", !.version = table[s.job].version + 1]]
    /\ UNCHANGED <<page, loadVars, shown, owed>>

\* An error, or the answer is lost whether the row was written or not.
SaveFails(c) ==
    /\ calls[c] # Free
    /\ calls[c].kind = "save"
    /\ form' = IF calls[c].owner = "form" THEN [form EXCEPT !.busy = FALSE] ELSE form
    /\ calls' = [calls EXCEPT ![c] = Free]
    /\ UNCHANGED <<page, table, loadVars, selected, editMode, panel, owed>>

\* The jobs page is told of a save; owed remembers it.
Owe(c) == owed' = [owed EXCEPT ![calls[c].job] =
                      IF @ < calls[c].version THEN calls[c].version ELSE @]

\* Mutation: the list is not read again.
OnUpdatedSilent(c) ==
    /\ editMode' = FALSE
    /\ Owe(c)
    /\ UNCHANGED loadVars

OnUpdated(c) ==
    /\ editMode' = FALSE
    /\ Owe(c)
    /\ StartLoad

\* onSuccess: setEditing(false) in the panel that holds the form, and in the jobs
\* page onUpdated: setEditMode(false), which gives the panel of whatever job is
\* then open another key, and load().
SaveAnswer(c) ==
    /\ calls[c] # Free
    /\ calls[c].kind = "save"
    /\ calls[c].stage = "done"
    /\ LET owner == calls[c].owner
           settled(owners, left) == calls' = [Orphan(owners, left) EXCEPT ![c] = Free]
       IN /\ IF page = "jobs" /\ editMode
             THEN /\ panel' = NewPanel(FALSE)
                  /\ form' = NoForm
                  /\ settled({"form", "panel"}, "page")
             ELSE IF owner \in {"form", "panel"}
             THEN StopEditing /\ settled({"form"}, "panel")
             ELSE UNCHANGED <<panel, form>> /\ calls' = [calls EXCEPT ![c] = Free]
          /\ IF page = "jobs"
             THEN OnUpdated(c)
             ELSE UNCHANGED <<editMode, owed, loadVars>>
    /\ UNCHANGED <<page, table, selected>>

\* One field of a row is written by another browser, or in the database itself.
OtherSave ==
    /\ \E j \in Jobs, f \in Fields : \E v \in ValuesOf(f) \ {table[j].config[f]} :
         Write(j, [table[j].config EXCEPT ![f] = v])
    /\ UNCHANGED <<page, loadVars, shown, calls, owed>>

Next ==
    \/ ClickRefresh
    \/ \E s \in Loads : ServeLoad(s) \/ LoadAnswer(s) \/ LoadFails(s)
    \/ \E j \in Jobs, edit \in BOOLEAN : OpenJob(j, edit)
    \/ \E j \in Jobs : SelectRow(j)
    \/ CloseSheet
    \/ Navigate
    \/ TickDrop
    \/ StartEdit
    \/ EditField
    \/ TickDangerous
    \/ CancelEdit
    \/ \E c \in Calls : \/ RunNow(c) \/ RunAnswer(c) \/ RunFails(c)
                        \/ SubmitEdit(c) \/ ServeSave(c) \/ SaveFails(c) \/ SaveAnswer(c)
    \/ OtherSave

Spec == Init /\ [][Next]_vars

-----------------------------------------------------------------------------
\* A field of the form the user did not touch shows what its row was read with:
\* no field of another row, or of an older state of it, is left in the form when
\* the row under it changes (the effect on initial in job-form.tsx).
UntouchedShowsBase ==
    form # NoForm =>
        \A f \in Fields \ form.touched : form.values[f] = FormInitial(form.base)[f]

\* The panel of the jobs page shows the row of the list, however the answers of
\* load() and of saves come in, and the form edits the row the panel shows.
PanelShowsListedRow ==
    /\ page = "jobs" /\ selected # NoRow => selected = list[selected.job]
    /\ form # NoForm => form.base = selected

\* A DROP that the jobs page sends with its confirmation was ticked for that job,
\* not for one that was in the panel before (the key of the panel).
DropTickedForThisJob ==
    \A c \in Calls : page = "jobs" /\ calls[c] # Free /\ calls[c].kind = "run" =>
        calls[c].ticked \in {calls[c].job, "none"}

\* When no load() is out and none failed, every save the jobs page was told of has
\* been in its list: onUpdated reads the table after the write.
OwnSaveShown ==
    (\A s \in Loads : loads[s] = Free) /\ ~error => \A j \in Jobs : owed[j] = 0

\* A button that is disabled while a call is out has a call that will enable it:
\* no failure, close or reopened panel leaves it disabled for good.
BusyMeansInFlight ==
    /\ loading => \E s \in Loads : loads[s] # Free
    /\ panel.busy => \E c \in Calls : /\ calls[c] # Free
                                      /\ calls[c].kind = "run"
                                      /\ calls[c].owner = "panel"
    /\ form.busy => \E c \in Calls : /\ calls[c] # Free
                                     /\ calls[c].kind = "save"
                                     /\ calls[c].owner = "form"

\* The server writes what this save holds.
SaveStep(c) ==
    /\ calls[c] # Free /\ calls[c].kind = "save" /\ calls[c].stage = "sent"
    /\ calls'[c] # calls[c]
    /\ table' # table

\* A save changes the operation only with the user's confirmation; and, if nobody
\* wrote the row since the form was filled, it changes what the user touched and
\* nothing else, create_drop_interval excepted.
SavedOnlyAsEdited ==
    [][\A c \in Calls : SaveStep(c) =>
         LET s == calls[c]
             old == table[s.job]
             new == table'[s.job].config
         IN /\ new["op"] # old.config["op"] => s.confirm
            /\ old.version = s.version =>
                 \A f \in Fields \ ({"keep"} \cup s.touched) : new[f] = old.config[f]]_vars

\* The same of every field, the interval included: the sheet says that it loads the
\* current values for editing.
SavedKeepsUntouched ==
    [][\A c \in Calls : SaveStep(c) =>
         LET s == calls[c]
             old == table[s.job]
         IN old.version = s.version =>
              \A f \in Fields \ s.touched :
                  table'[s.job].config[f] = old.config[f]]_vars
=============================================================================
