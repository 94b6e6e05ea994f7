--------------------------- MODULE Frontend_proofs ---------------------------
(***************************************************************************)
(* Proofs about the pages of the web frontend: those that show the jobs    *)
(* (JobsUi), for any number of jobs, fields, calls and writes, those that  *)
(* create one (CreatePages), for any schedules, details and calls out, and *)
(* the two together.                                                       *)
(***************************************************************************)
EXTENDS Frontend, TLAPS

-----------------------------------------------------------------------------
(***************************************************************************)
(* The inductive invariant.                                                *)
(***************************************************************************)
\* What was read of a job is a state the row had, and the present one if it has
\* its version.
Past(r) ==
    /\ r \in Rows
    /\ r.version <= table[r.job].version
    /\ r.version = table[r.job].version => r.config = table[r.job].config

\* Rows are those of their jobs, wherever they are.
RowsAreRead ==
    /\ \A j \in Jobs : table[j].job = j
    /\ \A j \in Jobs : list[j] # NoRow => list[j].job = j /\ Past(list[j])
    /\ \A s \in Loads : loads[s].stage = "served" =>
          \A j \in Jobs : loads[s].rows[j].job = j /\ Past(loads[s].rows[j])
    /\ selected # NoRow => Past(selected)

\* On the jobs page a tick is for the job in the panel, and so is a run.
TicksAreOwn ==
    /\ page = "jobs" => panel.ticked \in {selected.job, "none"}
    /\ DropTickedForThisJob

\* The answer of this load will bring the save that is owed.
WillShow(s, j) ==
    \/ loads[s].stage = "sent"
    \/ loads[s].stage = "served" /\ owed[j] <= loads[s].rows[j].version

OwedIsComing ==
    \A j \in Jobs :
        /\ owed[j] <= table[j].version
        /\ owed[j] # 0 => error \/ \E s \in Loads : WillShow(s, j)

\* A save that no other write has overtaken holds the row but for what the user
\* touched and for the interval.
SavesFit ==
    \A c \in Calls : calls[c] # Free /\ calls[c].kind = "save" =>
        /\ calls[c].version <= table[calls[c].job].version
        /\ calls[c].stage = "sent" /\ calls[c].version = table[calls[c].job].version =>
             \A f \in Fields \ ({"keep"} \cup calls[c].touched) :
                calls[c].values[f] = table[calls[c].job].config[f]

UiInv ==
    /\ TypeOK
    /\ RowsAreRead
    /\ UntouchedShowsBase
    /\ PanelShowsListedRow
    /\ TicksAreOwn
    /\ OwedIsComing
    /\ BusyMeansInFlight
    /\ SavesFit

-----------------------------------------------------------------------------
(***************************************************************************)
(* Lemmas about the operators.                                             *)
(***************************************************************************)
LEMMA RowType ==
    ASSUME NEW r \in Rows
    PROVE  /\ r # NoRow
           /\ r.job \in Jobs
           /\ r.config \in Configs
           /\ r.version \in 1 .. MaxVersion /\ r.version \in Nat
  BY VersionAssumption DEF Rows, NoRow

LEMMA CallType ==
    ASSUME TypeOK, NEW c \in Calls, calls[c] # Free
    PROVE  /\ calls[c].kind \in {"run", "save"}
           /\ calls[c].kind = "run" => calls[c] \in RunCalls
           /\ calls[c].kind = "save" => calls[c] \in SaveCalls
           /\ calls[c].job \in Jobs
           /\ calls[c].owner \in Owners
  BY DEF TypeOK, RunCalls, SaveCalls, Owners

LEMMA FormType ==
    ASSUME NEW g \in Forms
    PROVE  /\ g # NoForm
           /\ g.values \in Configs
           /\ g.base \in Rows
           /\ g.touched \subseteq Fields
           /\ g.confirm \in BOOLEAN
           /\ g.busy \in BOOLEAN
  <1>1. g.values \in Configs /\ g.base \in Rows /\ g.touched \subseteq Fields
        /\ g.confirm \in BOOLEAN /\ g.busy \in BOOLEAN
    BY DEF Forms
  <1>2. DOMAIN g # DOMAIN NoForm
    BY DEF Forms, NoForm
  <1> QED BY <1>1, <1>2

\* What a form shows of a row is a configuration.
LEMMA FormInitialType ==
    ASSUME NEW r \in Rows
    PROVE  FormInitial(r) \in Configs
  BY DEF FormInitial, Rows, Configs, ValuesOf, Values

LEMMA NewFormType ==
    ASSUME NEW r \in Rows
    PROVE  NewForm(r) \in Forms
  BY FormInitialType DEF NewForm, Forms

LEMMA RefillType ==
    ASSUME form \in Forms, NEW r \in Rows
    PROVE  /\ Refill(r) \in Forms
           /\ Refill(r) = [values |-> FormInitial(r), base |-> r, touched |-> {},
                           confirm |-> form.confirm, busy |-> form.busy]
  <1> DEFINE v == FormInitial(r)
             a == [form EXCEPT !.values = v]
             b == [a EXCEPT !.base = r]
  <1> HIDE DEF v
  <1>1. a = [values |-> v, base |-> form.base, touched |-> form.touched,
             confirm |-> form.confirm, busy |-> form.busy]
    BY DEF Forms
  <1> HIDE DEF a
  <1>2. b = [values |-> v, base |-> r, touched |-> form.touched,
             confirm |-> form.confirm, busy |-> form.busy]
    BY <1>1
  <1> HIDE DEF b
  <1>5. [b EXCEPT !.touched = {}] = [values |-> v, base |-> r, touched |-> {},
             confirm |-> form.confirm, busy |-> form.busy]
    BY <1>2
  <1>6. Refill(r) = [values |-> FormInitial(r), base |-> r, touched |-> {},
                     confirm |-> form.confirm, busy |-> form.busy]
    BY <1>5 DEF Refill, a, b, v
  <1>3. form.confirm \in BOOLEAN /\ form.busy \in BOOLEAN /\ FormInitial(r) \in Configs
    BY FormInitialType, FormType
  <1>4. {} \in SUBSET Fields
    OBVIOUS
  <1> QED BY <1>6, <1>3, <1>4 DEF Forms, v

\* Calls that lose their owner keep all else.
LEMMA OrphanCalls ==
    ASSUME TypeOK,
           NEW owners \in {{"form", "panel"}, {"form"}}, NEW left \in {"panel", "page"},
           "panel" \in owners => left = "page"
    PROVE  /\ Orphan(owners, left) \in [Calls -> RunCalls \cup SaveCalls \cup {Free}]
           /\ \A c \in Calls :
                /\ Orphan(owners, left)[c] = Free <=> calls[c] = Free
                /\ calls[c] # Free =>
                     /\ Orphan(owners, left)[c].kind = calls[c].kind
                     /\ Orphan(owners, left)[c].job = calls[c].job
                     /\ Orphan(owners, left)[c].owner =
                          IF calls[c].owner \in owners THEN left ELSE calls[c].owner
                     /\ calls[c].kind = "run" => Orphan(owners, left)[c].ticked = calls[c].ticked
                     /\ calls[c].kind = "save" =>
                          /\ Orphan(owners, left)[c].stage = calls[c].stage
                          /\ Orphan(owners, left)[c].values = calls[c].values
                          /\ Orphan(owners, left)[c].touched = calls[c].touched
                          /\ Orphan(owners, left)[c].version = calls[c].version
  <1> DEFINE o == Orphan(owners, left)
  <1>1. ASSUME NEW c \in Calls, calls[c] = Free
        PROVE  o[c] = Free
    BY <1>1 DEF Orphan
  <1>2. ASSUME NEW c \in Calls, calls[c] # Free, calls[c].owner \notin owners
        PROVE  o[c] = calls[c]
    BY <1>2 DEF Orphan
  <1>3. ASSUME NEW c \in Calls, calls[c] # Free, calls[c].owner \in owners
        PROVE  o[c] = [calls[c] EXCEPT !.owner = left]
    BY <1>3 DEF Orphan
  <1>4. ASSUME NEW r \in RunCalls
        PROVE  /\ [r EXCEPT !.owner = left] \in RunCalls
               /\ [r EXCEPT !.owner = left] # Free
               /\ [r EXCEPT !.owner = left].kind = r.kind
               /\ [r EXCEPT !.owner = left].job = r.job
               /\ [r EXCEPT !.owner = left].owner = left
               /\ [r EXCEPT !.owner = left].ticked = r.ticked
    <2>1. [r EXCEPT !.owner = left] = [kind |-> r.kind, job |-> r.job, ticked |-> r.ticked,
                                       owner |-> left]
      BY DEF RunCalls
    <2>2. DOMAIN Free # DOMAIN [r EXCEPT !.owner = left]
      BY <2>1 DEF Free
    <2> QED BY <2>1, <2>2 DEF RunCalls
  <1>5. ASSUME NEW r \in SaveCalls
        PROVE  /\ [r EXCEPT !.owner = left] \in SaveCalls
               /\ [r EXCEPT !.owner = left] # Free
               /\ [r EXCEPT !.owner = left].kind = r.kind
               /\ [r EXCEPT !.owner = left].job = r.job
               /\ [r EXCEPT !.owner = left].owner = left
               /\ [r EXCEPT !.owner = left].stage = r.stage
               /\ [r EXCEPT !.owner = left].values = r.values
               /\ [r EXCEPT !.owner = left].touched = r.touched
               /\ [r EXCEPT !.owner = left].version = r.version
    <2>1. [r EXCEPT !.owner = left] = [kind |-> r.kind, stage |-> r.stage, job |-> r.job,
              values |-> r.values, touched |-> r.touched, confirm |-> r.confirm,
              version |-> r.version, owner |-> left]
      BY DEF SaveCalls
    <2>2. DOMAIN Free # DOMAIN [r EXCEPT !.owner = left]
      BY <2>1 DEF Free
    <2> QED BY <2>1, <2>2 DEF SaveCalls, Owners
  <1>6. ASSUME NEW c \in Calls, calls[c] # Free
        PROVE  /\ o[c] \in RunCalls \cup SaveCalls
               /\ o[c] # Free
               /\ o[c].kind = calls[c].kind
               /\ o[c].job = calls[c].job
               /\ o[c].owner = IF calls[c].owner \in owners THEN left ELSE calls[c].owner
               /\ calls[c].kind = "run" => o[c].ticked = calls[c].ticked
               /\ calls[c].kind = "save" =>
                    /\ o[c].stage = calls[c].stage
                    /\ o[c].values = calls[c].values
                    /\ o[c].touched = calls[c].touched
                    /\ o[c].version = calls[c].version
    <2> HIDE DEF o
    <2>1. CASE calls[c].owner \notin owners
      BY <2>1, <1>2, <1>6, CallType
    <2>2. CASE calls[c].owner \in owners /\ calls[c].kind = "run"
      BY <2>2, <1>3, <1>4, <1>6, CallType, ZenonT(30)
    <2>3. CASE calls[c].owner \in owners /\ calls[c].kind = "save"
      <3>1. calls[c] \in SaveCalls /\ o[c] = [calls[c] EXCEPT !.owner = left]
        BY <2>3, <1>3, <1>6, CallType
      <3>2. o[c] \in SaveCalls /\ o[c] # Free /\ o[c].kind = calls[c].kind
            /\ o[c].job = calls[c].job /\ o[c].owner = left /\ o[c].stage = calls[c].stage
            /\ o[c].values = calls[c].values /\ o[c].touched = calls[c].touched
            /\ o[c].version = calls[c].version
        BY <3>1, <1>5
      <3>3. calls[c].kind # "run"
        BY <2>3
      <3> QED BY <2>3, <3>2, <3>3, Zenon
    <2> QED BY <2>1, <2>2, <2>3, <1>6, CallType
  <1>7. o = [c \in Calls |-> o[c]]
    BY DEF Orphan
  <1>8. \A c \in Calls : o[c] \in RunCalls \cup SaveCalls \cup {Free}
    BY <1>1, <1>6
  <1> HIDE DEF o
  <1>9. o \in [Calls -> RunCalls \cup SaveCalls \cup {Free}]
    BY <1>7, <1>8
  <1> QED BY <1>1, <1>6, <1>9 DEF o

\* A load that starts is one more that will show the table as it is by then.
LEMMA StartLoadFacts ==
    ASSUME TypeOK, StartLoad
    PROVE  /\ loads' \in [Loads -> LoadStates]
           /\ loading' = TRUE /\ error' = FALSE /\ list' = list
           /\ \E s \in Loads : loads'[s].stage = "sent" /\ loads'[s] # Free
           /\ \A s \in Loads : loads'[s].stage = "served" => loads'[s] = loads[s]
  <1>1. PICK s \in Loads : loads[s] = Free /\ loads' = [loads EXCEPT ![s] = [stage |-> "sent"]]
    BY DEF StartLoad
  <1>2. [stage |-> "sent"] \in LoadStates /\ [stage |-> "sent"] # Free
    BY DEF LoadStates, Free
  <1>3. loads' \in [Loads -> LoadStates]
    BY <1>1, <1>2 DEF TypeOK
  <1>4. loads'[s] = [stage |-> "sent"] /\ \A t \in Loads \ {s} : loads'[t] = loads[t]
    BY <1>1 DEF TypeOK
  <1> QED BY <1>2, <1>3, <1>4 DEF StartLoad

\* A new panel and its form.
LEMMA RemountFacts ==
    ASSUME TypeOK, NEW row, NEW editing \in BOOLEAN, editing => row \in Rows,
           Remount(row, editing)
    PROVE  /\ panel' \in Panels
           /\ panel'.ticked = "none" /\ panel'.busy = FALSE /\ panel'.editing = editing
           /\ ~editing => panel' = NewPanel(FALSE) /\ form' = NoForm
           /\ editing => form' \in Forms /\ form' = NewForm(row)
           /\ form'.busy = FALSE
           /\ calls' = Orphan({"form", "panel"}, "page")
  BY NewFormType DEF Remount, NewPanel, Panels, NewForm, NoForm

\* A committed write makes every other state of the row a past one.
LEMMA WriteFacts ==
    ASSUME TypeOK, RowsAreRead, NEW j \in Jobs, NEW config \in Configs, Write(j, config)
    PROVE  /\ table' \in [Jobs -> Rows]
           /\ \A k \in Jobs : table'[k].job = k /\ table[k].version <= table'[k].version
                              /\ (k # j => table'[k] = table[k])
           /\ table'[j].config = config
           /\ table'[j].version = table[j].version + 1
           /\ table'[j].version \in 1 .. MaxVersion
           /\ \A r \in Rows : Past(r) =>
                 /\ r.version <= table'[r.job].version
                 /\ r.version = table'[r.job].version => r.config = table'[r.job].config
  <1> USE VersionAssumption
  <1>1. table[j] \in Rows /\ table[j].job = j /\ table[j].version < MaxVersion
        /\ table[j].version \in 1 .. MaxVersion
    BY RowType DEF TypeOK, Write, RowsAreRead
  <1> DEFINE new == [table[j] EXCEPT !.config = config, !.version = @ + 1]
  <1>2. new = [job |-> j, config |-> config, version |-> table[j].version + 1]
    <2> DEFINE a == [table[j] EXCEPT !.config = config]
    <2>1. a = [job |-> j, config |-> config, version |-> table[j].version]
      BY <1>1 DEF Rows
    <2> HIDE DEF a
    <2>2. [a EXCEPT !.version = @ + 1] =
             [job |-> j, config |-> config, version |-> table[j].version + 1]
      BY <2>1
    <2> QED BY <2>2 DEF a
  <1>3. new \in Rows
    BY <1>1, <1>2 DEF Rows
  <1>4. table' = [table EXCEPT ![j] = new]
    <2>1. table' = [table EXCEPT ![j].config = config, ![j].version = @ + 1]
      BY DEF Write
    <2> QED BY <2>1 DEF TypeOK
  <1> HIDE DEF new
  <1>5. /\ table' \in [Jobs -> Rows]
        /\ table'[j] = new
        /\ \A k \in Jobs \ {j} : table'[k] = table[k]
    BY <1>3, <1>4 DEF TypeOK
  <1>6. new.job = j /\ new.config = config /\ new.version = table[j].version + 1
        /\ new.version \in 1 .. MaxVersion
    BY <1>1, <1>2
  <1>7. \A k \in Jobs : table[k].version \in Nat
    BY RowType DEF TypeOK
  <1>8. \A k \in Jobs : table'[k].job = k /\ table[k].version <= table'[k].version
                        /\ (k # j => table'[k] = table[k])
    BY <1>5, <1>6, <1>7 DEF RowsAreRead
  <1>9. ASSUME NEW r \in Rows, Past(r)
        PROVE  /\ r.version <= table'[r.job].version
               /\ r.version = table'[r.job].version => r.config = table'[r.job].config
    <2>1. r.job \in Jobs /\ r.version \in Nat /\ r.version <= table[r.job].version
      BY <1>9, RowType DEF Past
    <2>2. CASE r.job = j
      BY <2>1, <2>2, <1>5, <1>6, <1>7
    <2>3. CASE r.job # j
      BY <2>1, <2>3, <1>5, <1>9 DEF Past
    <2> QED BY <2>2, <2>3
  <1> QED BY <1>5, <1>6, <1>8, <1>9

-----------------------------------------------------------------------------
(***************************************************************************)
(* The list.                                                               *)
(***************************************************************************)
LEMMA InitInv == Init => UiInv
  <1> SUFFICES ASSUME Init PROVE UiInv
    OBVIOUS
  <1> USE VersionAssumption DEF Init, FirstVisit
  <1>1. table \in [Jobs -> Rows] /\ \A j \in Jobs : table[j].job = j /\ table[j].version = 1
    <2> DEFINE config == [f \in Fields |-> IF f = "op" THEN "drop" ELSE "chosen"]
    <2>1. config \in Configs
      BY DEF Configs, Values, ValuesOf
    <2> HIDE DEF config
    <2>2. \A j \in Jobs : [job |-> j, version |-> 1, config |-> config] \in Rows
      BY <2>1 DEF Rows
    <2>3. table = [j \in Jobs |-> [job |-> j, version |-> 1, config |-> config]]
      BY DEF config
    <2> HIDE DEF Init, FirstVisit
    <2> QED BY <2>2, <2>3
  <1>2. PICK s \in Loads :
          loads = [t \in Loads |-> IF t = s THEN [stage |-> "sent"] ELSE Free]
    OBVIOUS
  <1>3. /\ loads \in [Loads -> LoadStates]
        /\ loads[s] # Free
        /\ \A t \in Loads : loads[t].stage # "served"
    BY <1>2 DEF LoadStates, Free
  <1>4. TypeOK
    <2>1. panel \in Panels /\ panel.editing = FALSE /\ NoForm = form
      BY DEF Panels, NewPanel
    <2>2. owed \in [Jobs -> 0 .. MaxVersion] /\ calls \in [Calls -> {Free}]
      OBVIOUS
    <2>3. /\ page \in JobPages /\ list = NoList /\ loading = TRUE /\ error = FALSE
          /\ selected = NoRow /\ editMode = FALSE /\ panel = NewPanel(FALSE)
      OBVIOUS
    <2> HIDE DEF Init, FirstVisit
    <2> QED BY <1>1, <1>3, <2>1, <2>2, <2>3 DEF TypeOK
  <1>5. RowsAreRead
    BY <1>1, <1>3 DEF RowsAreRead, NoList
  <1>6. UntouchedShowsBase /\ PanelShowsListedRow
    BY DEF UntouchedShowsBase, PanelShowsListedRow
  <1>7. TicksAreOwn /\ SavesFit
    BY DEF TicksAreOwn, DropTickedForThisJob, SavesFit, NewPanel
  <1>8. OwedIsComing
    BY <1>1 DEF OwedIsComing
  <1>9. BusyMeansInFlight
    BY <1>3 DEF BusyMeansInFlight, NewPanel, NoForm
  <1> QED BY <1>4, <1>5, <1>6, <1>7, <1>8, <1>9 DEF UiInv

LEMMA ClickRefreshInv ==
    ASSUME UiInv, ClickRefresh
    PROVE  UiInv'
  <1> USE DEF UiInv
  <1>1. UNCHANGED <<page, table, selected, editMode, panel, form, calls, owed>> /\ StartLoad
    BY DEF ClickRefresh, shown
  <1>2. /\ loads' \in [Loads -> LoadStates]
        /\ loading' = TRUE /\ error' = FALSE /\ list' = list
        /\ \E s \in Loads : loads'[s].stage = "sent" /\ loads'[s] # Free
        /\ \A s \in Loads : loads'[s].stage = "served" => loads'[s] = loads[s]
    BY <1>1, StartLoadFacts
  <1>3. TypeOK'
    BY <1>1, <1>2 DEF TypeOK
  <1>4. RowsAreRead'
    BY <1>1, <1>2 DEF RowsAreRead, Past
  <1>5. UntouchedShowsBase' /\ PanelShowsListedRow' /\ TicksAreOwn' /\ SavesFit'
    BY <1>1, <1>2 DEF UntouchedShowsBase, PanelShowsListedRow, TicksAreOwn,
                      DropTickedForThisJob, SavesFit
  <1>6. OwedIsComing'
    BY <1>1, <1>2 DEF OwedIsComing, WillShow
  <1>7. BusyMeansInFlight'
    BY <1>1, <1>2 DEF BusyMeansInFlight
  <1> QED BY <1>3, <1>4, <1>5, <1>6, <1>7

\* The server answers from the table, which has every save that is owed.
LEMMA ServeLoadInv ==
    ASSUME UiInv, NEW s \in Loads, ServeLoad(s)
    PROVE  UiInv'
  <1> USE DEF UiInv
  <1>1. UNCHANGED <<page, table, list, loading, error, selected, editMode, panel, form,
                    calls, owed>>
    BY DEF ServeLoad, shown
  <1> DEFINE answer == [stage |-> "served", rows |-> table]
  <1>2. answer \in LoadStates /\ answer # Free /\ answer.stage = "served" /\ answer.rows = table
    BY DEF LoadStates, Free, TypeOK
  <1> HIDE DEF answer
  <1>3. /\ loads' \in [Loads -> LoadStates]
        /\ loads'[s] = answer
        /\ \A t \in Loads \ {s} : loads'[t] = loads[t]
    BY <1>2 DEF ServeLoad, TypeOK, answer
  <1>4. TypeOK'
    BY <1>1, <1>3 DEF TypeOK
  <1>5. RowsAreRead'
    <2>1. \A j \in Jobs : table[j].job = j /\ Past(table[j])
      BY RowType DEF RowsAreRead, Past, TypeOK
    <2>2. \A t \in Loads : loads'[t].stage = "served" =>
             \A j \in Jobs : loads'[t].rows[j].job = j /\ Past(loads'[t].rows[j])
      BY <1>2, <1>3, <2>1 DEF RowsAreRead
    <2> QED BY <1>1, <2>2 DEF RowsAreRead, Past
  <1>6. UntouchedShowsBase' /\ PanelShowsListedRow' /\ TicksAreOwn' /\ SavesFit'
    BY <1>1 DEF UntouchedShowsBase, PanelShowsListedRow, TicksAreOwn,
                DropTickedForThisJob, SavesFit
  <1>7. OwedIsComing'
    <2> SUFFICES ASSUME NEW j \in Jobs, owed[j] # 0, ~error
                 PROVE  \E t \in Loads : WillShow(t, j)'
      BY <1>1 DEF OwedIsComing
    <2>1. PICK t \in Loads : WillShow(t, j)
      BY DEF OwedIsComing
    <2>2. CASE t = s
      BY <2>2, <1>1, <1>2, <1>3 DEF OwedIsComing, WillShow
    <2>3. CASE t # s
      BY <2>1, <2>3, <1>1, <1>3 DEF WillShow
    <2> QED BY <2>2, <2>3
  <1>8. BusyMeansInFlight'
    <2>1. \A t \in Loads : loads[t] # Free => loads'[t] # Free
      BY <1>2, <1>3
    <2> QED BY <1>1, <2>1 DEF BusyMeansInFlight
  <1> QED BY <1>4, <1>5, <1>6, <1>7, <1>8

LEMMA LoadAnswerInv ==
    ASSUME UiInv, NEW s \in Loads, LoadAnswer(s)
    PROVE  UiInv'
  <1> USE DEF UiInv
  <1> DEFINE rows == loads[s].rows
  <1>1. /\ UNCHANGED <<page, table, error, editMode, panel, calls>>
        /\ loads[s].stage = "served"
        /\ list' = rows
        /\ IF page = "jobs" THEN RefreshSelected(rows) ELSE SelectFirst(rows)
        /\ owed' = [j \in Jobs |-> IF owed[j] <= rows[j].version THEN 0 ELSE owed[j]]
        /\ loads' = [loads EXCEPT ![s] = Free]
        /\ loading' = FALSE
    BY DEF LoadAnswer, EndLoad
  <1>2. rows \in [Jobs -> Rows]
    <2>1. loads[s] \in LoadStates /\ loads[s].stage = "served"
      BY <1>1 DEF TypeOK
    <2> QED BY <2>1 DEF LoadStates, Free
  <1>3. \A j \in Jobs : rows[j].job = j /\ Past(rows[j]) /\ rows[j] # NoRow
    BY <1>1, <1>2, RowType DEF RowsAreRead
  <1> HIDE DEF rows
  <1>4. /\ loads' \in [Loads -> LoadStates]
        /\ loads'[s] = Free
        /\ \A t \in Loads \ {s} : loads'[t] = loads[t]
    BY <1>1 DEF LoadStates, TypeOK
  <1>5. Free.stage = "free"
    BY DEF Free
  <1>6. selected # NoRow => selected \in Rows /\ selected.job \in Jobs
    BY RowType DEF RowsAreRead, Past
  <1>7. /\ selected' # NoRow => selected' \in Rows
        /\ selected' # NoRow => selected'.job \in Jobs /\ Past(selected')
        /\ page = "jobs" /\ selected' # NoRow => selected' = rows[selected'.job]
        /\ selected' = NoRow => selected = NoRow
        /\ selected # NoRow => selected'.job = selected.job
        /\ form' # NoForm => form # NoForm /\ form'.base = selected'
        /\ form # NoForm => form' \in Forms /\ form'.busy = form.busy
                            /\ (form' = form \/ form' = Refill(selected'))
        /\ form = NoForm => form' = NoForm
    <2>1. CASE page = "jobs" /\ selected = NoRow
      <3>1. UNCHANGED <<selected, form>>
        BY <2>1, <1>1 DEF RefreshSelected
      <3> QED BY <2>1, <3>1 DEF PanelShowsListedRow, TypeOK
    <2>2. CASE page = "jobs" /\ selected # NoRow
      <3>1. selected' = rows[selected.job]
            /\ form' = IF panel.editing THEN Refill(rows[selected.job]) ELSE form
        BY <2>2, <1>1 DEF RefreshSelected
      <3>2. selected'.job = selected.job /\ selected' \in Rows /\ selected' # NoRow
            /\ Past(selected')
        BY <3>1, <2>2, <1>2, <1>3, <1>6 DEF Past
      <3>3. panel.editing => form \in Forms /\ Refill(selected') \in Forms
                             /\ Refill(selected').base = selected'
                             /\ Refill(selected').busy = form.busy
        BY <3>2, RefillType DEF TypeOK
      <3>4. \A g \in Forms : g # NoForm
        BY FormType
      <3>5. panel.editing <=> form # NoForm
        BY DEF TypeOK
      <3> QED BY <2>2, <3>1, <3>2, <3>3, <3>4, <3>5, <1>6
    <2>3. CASE page # "jobs"
      <3>1. form' = form /\ (selected # NoRow => selected' = selected)
            /\ (selected = NoRow => \E j \in Jobs : selected' = rows[j])
        BY <2>3, <1>1 DEF SelectFirst
      <3>2. selected = NoRow => form = NoForm
        BY DEF TypeOK, NewPanel
      <3>3. CASE selected = NoRow
        <4>1. PICK j \in Jobs : selected' = rows[j]
          BY <3>1, <3>3
        <4>2. selected' \in Rows /\ selected' # NoRow /\ Past(selected') /\ selected'.job \in Jobs
          BY <4>1, <1>2, <1>3
        <4> QED BY <2>3, <3>1, <3>2, <3>3, <4>2
      <3>4. CASE selected # NoRow
        <4>1. Past(selected)
          BY <3>4 DEF RowsAreRead
        <4> QED BY <2>3, <3>1, <3>4, <4>1, <1>6 DEF PanelShowsListedRow, TypeOK
      <3> QED BY <3>3, <3>4
    <2> QED BY <2>1, <2>2, <2>3
  <1>8. TypeOK'
    <2>1. owed' \in [Jobs -> 0 .. MaxVersion]
      BY <1>1, VersionAssumption DEF TypeOK
    <2>2. form' \in Forms \cup {NoForm} /\ (panel'.editing <=> form' # NoForm)
      BY <1>1, <1>7, FormType DEF TypeOK
    <2>3. selected' = NoRow => panel' = NewPanel(FALSE) /\ ~editMode'
      BY <1>1, <1>7 DEF TypeOK
    <2> QED BY <1>1, <1>2, <1>4, <1>7, <2>1, <2>2, <2>3 DEF TypeOK
  <1>9. RowsAreRead'
    <2>1. \A j \in Jobs : list'[j].job = j /\ Past(list'[j])
      BY <1>1, <1>3
    <2>2. \A t \in Loads : loads'[t].stage = "served" =>
             \A j \in Jobs : loads'[t].rows[j].job = j /\ Past(loads'[t].rows[j])
      BY <1>4, <1>5 DEF RowsAreRead
    <2>3. (\A j \in Jobs : table[j].job = j)'
      BY <1>1 DEF RowsAreRead
    <2>4. (\A j \in Jobs : list[j] # NoRow => list[j].job = j /\ Past(list[j]))'
      BY <1>1, <2>1 DEF Past
    <2>5. (\A t \in Loads : loads[t].stage = "served" =>
              \A j \in Jobs : loads[t].rows[j].job = j /\ Past(loads[t].rows[j]))'
      BY <1>1, <2>2 DEF Past
    <2>6. (selected # NoRow => Past(selected))'
      BY <1>1, <1>7 DEF Past
    <2> QED BY <2>3, <2>4, <2>5, <2>6 DEF RowsAreRead
  <1>10. UntouchedShowsBase'
    <2>1. ASSUME form' # NoForm, NEW f \in Fields \ form'.touched
          PROVE  form'.values[f] = FormInitial(form'.base)[f]
      <3>1. form # NoForm /\ form \in Forms /\ selected' \in Rows
        <4>1. form # NoForm
          BY <2>1, <1>7
        <4>2. selected' # NoRow
          BY <4>1, <1>7 DEF TypeOK, NewPanel
        <4> QED BY <4>1, <4>2, <1>7 DEF TypeOK
      <3>2. CASE form' = form
        BY <2>1, <3>1, <3>2 DEF UntouchedShowsBase
      <3>3. CASE form' = Refill(selected')
        BY <3>1, <3>3, RefillType
      <3> QED BY <3>1, <3>2, <3>3, <1>7
    <2> QED BY <2>1 DEF UntouchedShowsBase, FormInitial
  <1>11. PanelShowsListedRow'
    BY <1>1, <1>7 DEF PanelShowsListedRow
  <1>12. TicksAreOwn'
    <2>1. page = "jobs" => panel.ticked \in {selected'.job, "none"}
      BY <1>7 DEF TicksAreOwn, TypeOK, NewPanel
    <2> QED BY <1>1, <2>1 DEF TicksAreOwn, DropTickedForThisJob
  <1>13. SavesFit'
    BY <1>1 DEF SavesFit
  <1>14. OwedIsComing'
    <2> SUFFICES ASSUME NEW j \in Jobs
                 PROVE  /\ owed'[j] <= table[j].version
                        /\ owed'[j] # 0 => error \/ \E t \in Loads : WillShow(t, j)'
      BY <1>1 DEF OwedIsComing
    <2>0. owed'[j] = IF owed[j] <= rows[j].version THEN 0 ELSE owed[j]
      BY <1>1
    <2>1. owed'[j] <= table[j].version
      BY <2>0, RowType DEF OwedIsComing, TypeOK
    <2>2. ASSUME owed'[j] # 0, ~error PROVE \E t \in Loads : WillShow(t, j)'
      <3>1. owed'[j] = owed[j] /\ owed[j] # 0 /\ ~(owed[j] <= rows[j].version)
        BY <2>0, <2>2
      <3>2. PICK t \in Loads : WillShow(t, j)
        BY <2>2, <3>1 DEF OwedIsComing
      <3>3. t # s
        BY <3>1, <3>2, <1>1 DEF WillShow, rows
      <3> QED BY <3>1, <3>2, <3>3, <1>4 DEF WillShow
    <2> QED BY <2>1, <2>2
  <1>15. BusyMeansInFlight'
    <2>1. form'.busy => form.busy
      BY <1>7
    <2> QED BY <1>1, <2>1 DEF BusyMeansInFlight
  <1> QED BY <1>8, <1>9, <1>10, <1>11, <1>12, <1>13, <1>14, <1>15

LEMMA LoadFailsInv ==
    ASSUME UiInv, NEW s \in Loads, LoadFails(s)
    PROVE  UiInv'
  <1> USE DEF UiInv
  <1>1. /\ UNCHANGED <<page, table, list, selected, editMode, panel, form, calls, owed>>
        /\ loads' = [loads EXCEPT ![s] = Free]
        /\ loading' = FALSE /\ error' = TRUE
    BY DEF LoadFails, EndLoad, shown
  <1>2. /\ loads' \in [Loads -> LoadStates]
        /\ loads'[s].stage = "free"
        /\ \A t \in Loads \ {s} : loads'[t] = loads[t]
    BY <1>1 DEF LoadStates, TypeOK, Free
  <1>3. TypeOK'
    BY <1>1, <1>2 DEF TypeOK
  <1>4. RowsAreRead'
    BY <1>1, <1>2 DEF RowsAreRead, Past
  <1>5. UntouchedShowsBase' /\ PanelShowsListedRow' /\ TicksAreOwn' /\ SavesFit'
    BY <1>1 DEF UntouchedShowsBase, PanelShowsListedRow, TicksAreOwn,
                DropTickedForThisJob, SavesFit
  <1>6. OwedIsComing'
    BY <1>1 DEF OwedIsComing
  <1>7. BusyMeansInFlight'
    BY <1>1 DEF BusyMeansInFlight
  <1> QED BY <1>3, <1>4, <1>5, <1>6, <1>7

-----------------------------------------------------------------------------
(***************************************************************************)
(* What is shown.                                                          *)
(***************************************************************************)
\* The panel is mounted anew for a row of the list, or is gone.
LEMMA RemountInv ==
    ASSUME UiInv, NEW row, NEW editing \in BOOLEAN, Remount(row, editing),
           selected' = row, editMode' \in BOOLEAN, editMode' => editing,
           \/ row = NoRow /\ ~editing
           \/ row \in Rows /\ row = list[row.job] /\ row.job \in Jobs,
           UNCHANGED <<page, table, list, loads, loading, error, owed>>
    PROVE  UiInv'
  <1> USE DEF UiInv
  <1> DEFINE o == Orphan({"form", "panel"}, "page")
  <1>1. /\ panel' \in Panels
        /\ panel'.ticked = "none" /\ panel'.busy = FALSE /\ panel'.editing = editing
        /\ ~editing => panel' = NewPanel(FALSE) /\ form' = NoForm
        /\ editing => form' \in Forms /\ form' = NewForm(row) /\ row \in Rows
        /\ form'.busy = FALSE
        /\ calls' = o
    <2>1. editing => row \in Rows
      OBVIOUS
    <2> QED BY <2>1, RemountFacts
  <1>2. /\ calls' \in [Calls -> RunCalls \cup SaveCalls \cup {Free}]
        /\ \A c \in Calls :
             /\ calls'[c] = Free <=> calls[c] = Free
             /\ calls[c] # Free =>
                  /\ calls'[c].kind = calls[c].kind
                  /\ calls'[c].job = calls[c].job
                  /\ calls[c].kind = "run" => calls'[c].ticked = calls[c].ticked
                  /\ calls[c].kind = "save" =>
                       /\ calls'[c].stage = calls[c].stage
                       /\ calls'[c].values = calls[c].values
                       /\ calls'[c].touched = calls[c].touched
                       /\ calls'[c].version = calls[c].version
    <2> HIDE DEF o
    <2>1. "panel" \in {"form", "panel"} => "page" = "page"
      OBVIOUS
    <2> QED BY <1>1, <2>1, OrphanCalls DEF o
  <1> HIDE DEF o
  <1>3. row # NoRow => Past(row) /\ row = list[row.job] /\ row.job \in Jobs
    BY RowType DEF RowsAreRead
  <1>4. TypeOK'
    <2>1. selected' = NoRow => panel' = NewPanel(FALSE) /\ ~editMode'
      BY <1>1, RowType
    <2>2. panel'.editing <=> form' # NoForm
      BY <1>1, FormType
    <2> QED BY <1>1, <1>2, <2>1, <2>2 DEF TypeOK
  <1>5. RowsAreRead'
    BY <1>3 DEF RowsAreRead, Past
  <1>6. UntouchedShowsBase' /\ PanelShowsListedRow'
    <2>1. form' # NoForm => editing /\ form'.base = row /\ form'.values = FormInitial(row)
      <3>1. NewForm(row).base = row /\ NewForm(row).values = FormInitial(row)
        BY DEF NewForm
      <3> QED BY <1>1, <3>1
    <2>2. UntouchedShowsBase'
      BY <2>1 DEF UntouchedShowsBase, FormInitial
    <2>3. PanelShowsListedRow'
      BY <2>1, <1>3 DEF PanelShowsListedRow
    <2> QED BY <2>2, <2>3
  <1>7. TicksAreOwn'
    <2>1. DropTickedForThisJob'
      BY <1>2 DEF TicksAreOwn, DropTickedForThisJob
    <2> QED BY <1>1, <2>1 DEF TicksAreOwn
  <1>8. SavesFit'
    BY <1>2 DEF SavesFit
  <1>9. OwedIsComing'
    BY DEF OwedIsComing, WillShow
  <1>10. BusyMeansInFlight'
    BY <1>1 DEF BusyMeansInFlight
  <1> QED BY <1>4, <1>5, <1>6, <1>7, <1>8, <1>9, <1>10

LEMMA OpenCloseInv ==
    ASSUME UiInv, CloseSheet \/ \E j \in Jobs, edit \in BOOLEAN : OpenJob(j, edit)
    PROVE  UiInv'
  <1>1. CASE CloseSheet
    <2>1. Remount(NoRow, FALSE) /\ selected' = NoRow /\ editMode' = FALSE
          /\ UNCHANGED <<page, table, list, loads, loading, error, owed>>
      BY <1>1 DEF CloseSheet, loadVars
    <2> QED BY <2>1, RemountInv
  <1>2. ASSUME NEW j \in Jobs, NEW edit \in BOOLEAN, OpenJob(j, edit)
        PROVE  UiInv'
    <2>1. Remount(list[j], edit) /\ selected' = list[j] /\ editMode' = edit /\ list[j] # NoRow
          /\ UNCHANGED <<page, table, list, loads, loading, error, owed>>
      BY <1>2 DEF OpenJob, loadVars
    <2>2. list[j] \in Rows /\ list[j].job = j
      BY <2>1 DEF UiInv, RowsAreRead, Past
    <2> QED BY <2>1, <2>2, RemountInv
  <1> QED BY <1>1, <1>2

\* A row of the overview: the panel keeps its state and the form is filled again.
LEMMA SelectRowInv ==
    ASSUME UiInv, NEW j \in Jobs, SelectRow(j)
    PROVE  UiInv'
  <1> USE DEF UiInv
  <1>1. /\ UNCHANGED <<page, table, list, loads, loading, error, editMode, panel, calls, owed>>
        /\ page # "jobs"
        /\ list[j] # NoRow
        /\ selected' = list[j]
    BY DEF SelectRow, loadVars
  <1>2. selected' \in Rows /\ Past(list[j]) /\ selected'.job = j
    BY <1>1 DEF RowsAreRead, Past
  <1>3. \/ form = NoForm /\ form' = NoForm
        \/ form \in Forms /\ form' = Refill(selected')
        \/ form \in Forms /\ form' = form /\ selected' = selected
    BY <1>1 DEF SelectRow, TypeOK
  <1>4. form \in Forms =>
           /\ Refill(selected') \in Forms
           /\ Refill(selected').base = selected'
           /\ Refill(selected').values = FormInitial(selected')
           /\ Refill(selected').busy = form.busy
           /\ form # NoForm
    BY <1>2, RefillType, FormType
  <1>5. form' # NoForm <=> form # NoForm
    BY <1>3, <1>4, FormType
  <1>6. TypeOK'
    <2>1. form' \in Forms \cup {NoForm} /\ (panel'.editing <=> form' # NoForm)
      BY <1>1, <1>3, <1>4, <1>5 DEF TypeOK
    <2>2. selected' # NoRow
      BY <1>1
    <2> QED BY <1>1, <1>2, <2>1, <2>2 DEF TypeOK
  <1>7. RowsAreRead'
    BY <1>1, <1>2 DEF RowsAreRead, Past
  <1>8. UntouchedShowsBase'
    <2>1. ASSUME form' # NoForm, NEW f \in Fields \ form'.touched
          PROVE  form'.values[f] = FormInitial(form'.base)[f]
      BY <2>1, <1>3, <1>4 DEF UntouchedShowsBase
    <2> QED BY <2>1 DEF UntouchedShowsBase, FormInitial
  <1>9. PanelShowsListedRow'
    BY <1>1, <1>3, <1>4 DEF PanelShowsListedRow
  <1>10. TicksAreOwn' /\ SavesFit'
    BY <1>1 DEF TicksAreOwn, DropTickedForThisJob, SavesFit
  <1>11. OwedIsComing'
    BY <1>1 DEF OwedIsComing, WillShow
  <1>12. BusyMeansInFlight'
    BY <1>1, <1>3, <1>4 DEF BusyMeansInFlight
  <1> QED BY <1>6, <1>7, <1>8, <1>9, <1>10, <1>11, <1>12

\* Another page begins with a load of its own and owes nothing.
LEMMA NavigateInv ==
    ASSUME UiInv, Navigate
    PROVE  UiInv'
  <1> USE DEF UiInv
  <1>1. PICK p \in JobPages : Mount(p)
    BY DEF Navigate
  <1>2. /\ page' = p /\ table' = table /\ list' = NoList
        /\ loading' = TRUE /\ error' = FALSE /\ selected' = NoRow /\ editMode' = FALSE
        /\ panel' = NewPanel(FALSE) /\ form' = NoForm
        /\ owed' = [j \in Jobs |-> 0]
    BY <1>1 DEF Mount, Navigate
  <1>3. PICK s \in Loads : loads' = [t \in Loads |-> IF t = s THEN [stage |-> "sent"] ELSE Free]
    BY <1>1 DEF Mount
  <1>4. /\ loads' \in [Loads -> LoadStates]
        /\ loads'[s] # Free
        /\ \A t \in Loads : loads'[t].stage # "served"
    BY <1>3 DEF LoadStates, Free
  <1>5. ASSUME NEW c \in Calls, calls'[c] # Free
        PROVE  /\ calls[c] \in SaveCalls /\ calls[c] # Free
               /\ calls'[c] \in SaveCalls
               /\ calls'[c].kind = "save"
               /\ calls'[c].stage = calls[c].stage
               /\ calls'[c].values = calls[c].values
               /\ calls'[c].touched = calls[c].touched
               /\ calls'[c].version = calls[c].version
               /\ calls'[c].job = calls[c].job
    <2>1. /\ calls[c] # Free /\ calls[c].kind = "save"
          /\ calls'[c] = [calls[c] EXCEPT !.owner = "gone"]
      BY <1>5 DEF Navigate
    <2>2. calls[c] \in SaveCalls
      BY <2>1, CallType
    <2>3. [calls[c] EXCEPT !.owner = "gone"] =
            [kind |-> calls[c].kind, stage |-> calls[c].stage, job |-> calls[c].job,
             values |-> calls[c].values, touched |-> calls[c].touched,
             confirm |-> calls[c].confirm, version |-> calls[c].version, owner |-> "gone"]
      BY <2>2 DEF SaveCalls
    <2> QED BY <2>1, <2>2, <2>3 DEF SaveCalls, Owners
  <1>6. calls' \in [Calls -> RunCalls \cup SaveCalls \cup {Free}]
    <2>1. calls' = [c \in Calls |-> calls'[c]]
      BY DEF Navigate
    <2>2. \A c \in Calls : calls'[c] \in RunCalls \cup SaveCalls \cup {Free}
      BY <1>5
    <2> QED BY <2>1, <2>2
  <1>7. TypeOK'
    <2>1. panel' \in Panels /\ panel'.editing = FALSE /\ panel'.busy = FALSE
          /\ panel'.ticked = "none"
      BY <1>2 DEF Panels, NewPanel
    <2>2. owed' \in [Jobs -> 0 .. MaxVersion]
      BY <1>2, VersionAssumption
    <2> QED BY <1>2, <1>4, <1>6, <2>1, <2>2 DEF TypeOK
  <1>8. RowsAreRead'
    BY <1>2, <1>4 DEF RowsAreRead, NoList
  <1>9. UntouchedShowsBase' /\ PanelShowsListedRow'
    BY <1>2 DEF UntouchedShowsBase, PanelShowsListedRow
  <1>10. TicksAreOwn'
    <2>1. DropTickedForThisJob'
      BY <1>5 DEF DropTickedForThisJob
    <2> QED BY <1>2, <2>1 DEF TicksAreOwn, NewPanel
  <1>11. SavesFit'
    <2> SUFFICES ASSUME NEW c \in Calls, calls'[c] # Free
                 PROVE  /\ calls[c].version <= table[calls[c].job].version
                        /\ calls[c].stage = "sent"
                           /\ calls[c].version = table[calls[c].job].version =>
                             \A f \in Fields \ ({"keep"} \cup calls[c].touched) :
                                calls[c].values[f] = table[calls[c].job].config[f]
      BY <1>2, <1>5 DEF SavesFit
    <2>1. calls[c] # Free /\ calls[c].kind = "save"
      BY <1>5 DEF SaveCalls
    <2> QED BY <2>1 DEF SavesFit
  <1>12. OwedIsComing'
    BY <1>2, RowType DEF OwedIsComing, TypeOK
  <1>13. BusyMeansInFlight'
    BY <1>2, <1>4 DEF BusyMeansInFlight, NewPanel, NoForm
  <1> QED BY <1>7, <1>8, <1>9, <1>10, <1>11, <1>12, <1>13

-----------------------------------------------------------------------------
(***************************************************************************)
(* The panel.                                                              *)
(***************************************************************************)
\* A change of the panel alone.
LEMMA PanelType ==
    ASSUME panel \in Panels
    PROVE  /\ \A b \in BOOLEAN : /\ [panel EXCEPT !.busy = b] \in Panels
                                 /\ [panel EXCEPT !.busy = b].busy = b
                                 /\ [panel EXCEPT !.busy = b].ticked = panel.ticked
                                 /\ [panel EXCEPT !.busy = b].editing = panel.editing
           /\ \A b \in BOOLEAN : /\ [panel EXCEPT !.editing = b] \in Panels
                                 /\ [panel EXCEPT !.editing = b].editing = b
                                 /\ [panel EXCEPT !.editing = b].ticked = panel.ticked
                                 /\ [panel EXCEPT !.editing = b].busy = panel.busy
           /\ \A t \in Jobs \cup {"none"} :
                                 /\ [panel EXCEPT !.ticked = t] \in Panels
                                 /\ [panel EXCEPT !.ticked = t].ticked = t
                                 /\ [panel EXCEPT !.ticked = t].busy = panel.busy
                                 /\ [panel EXCEPT !.ticked = t].editing = panel.editing
  BY DEF Panels

\* An idle panel stays so when a wait or an edit ends.
LEMMA NewPanelFixed ==
    /\ [NewPanel(FALSE) EXCEPT !.busy = FALSE] = NewPanel(FALSE)
    /\ [NewPanel(FALSE) EXCEPT !.editing = FALSE] = NewPanel(FALSE)
  <1>1. ASSUME NEW p \in Panels, p.busy = FALSE
        PROVE  [p EXCEPT !.busy = FALSE] = p
    BY <1>1 DEF Panels
  <1>2. ASSUME NEW p \in Panels, p.editing = FALSE
        PROVE  [p EXCEPT !.editing = FALSE] = p
    BY <1>2 DEF Panels
  <1>3. NewPanel(FALSE) \in Panels /\ NewPanel(FALSE).busy = FALSE
        /\ NewPanel(FALSE).editing = FALSE
    BY DEF NewPanel, Panels
  <1> QED BY <1>1, <1>2, <1>3

LEMMA TickDropInv ==
    ASSUME UiInv, TickDrop
    PROVE  UiInv'
  <1> USE DEF UiInv
  <1>1. /\ UNCHANGED <<page, table, list, loads, loading, error, selected, editMode, form,
                       calls, owed>>
        /\ selected # NoRow /\ ~panel.editing
        /\ \E t \in {selected.job, "none"} : panel' = [panel EXCEPT !.ticked = t]
    BY DEF TickDrop, loadVars, Viewing
  <1>2. selected \in Rows /\ selected.job \in Jobs
    BY <1>1, RowType DEF TypeOK
  <1>3. /\ panel' \in Panels
        /\ panel'.ticked \in {selected.job, "none"}
        /\ panel'.busy = panel.busy
        /\ panel'.editing = panel.editing
    BY <1>1, <1>2, PanelType DEF TypeOK
  <1>4. TypeOK'
    BY <1>1, <1>3 DEF TypeOK
  <1>5. RowsAreRead' /\ SavesFit'
    BY <1>1 DEF RowsAreRead, Past, SavesFit
  <1>6. UntouchedShowsBase' /\ PanelShowsListedRow'
    BY <1>1 DEF UntouchedShowsBase, PanelShowsListedRow
  <1>7. TicksAreOwn'
    BY <1>1, <1>3 DEF TicksAreOwn, DropTickedForThisJob
  <1>8. OwedIsComing' /\ BusyMeansInFlight'
    BY <1>1, <1>3 DEF OwedIsComing, WillShow, BusyMeansInFlight
  <1> QED BY <1>4, <1>5, <1>6, <1>7, <1>8

LEMMA RunNowInv ==
    ASSUME UiInv, NEW c \in Calls, RunNow(c)
    PROVE  UiInv'
  <1> USE DEF UiInv
  <1> DEFINE t == IF IsDrop THEN panel.ticked ELSE "none"
             run == [kind |-> "run", job |-> selected.job, ticked |-> t, owner |-> "panel"]
  <1>1. /\ UNCHANGED <<page, table, list, loads, loading, error, selected, editMode, form, owed>>
        /\ selected # NoRow
        /\ panel' = [panel EXCEPT !.busy = TRUE]
        /\ calls[c] = Free
        /\ calls' = [calls EXCEPT ![c] = run]
    BY DEF RunNow, loadVars, Viewing
  <1>2. selected \in Rows /\ selected.job \in Jobs
    BY <1>1, RowType DEF TypeOK
  <1>3. /\ panel' \in Panels /\ panel'.busy = TRUE /\ panel'.ticked = panel.ticked
        /\ panel'.editing = panel.editing
    BY <1>1, PanelType DEF TypeOK
  <1>4. t \in Jobs \cup {"none"} /\ (page = "jobs" => t \in {selected.job, "none"})
    BY DEF TypeOK, TicksAreOwn, Panels
  <1> HIDE DEF t
  <1>5. /\ run \in RunCalls /\ run.kind = "run" /\ run.job = selected.job
        /\ run.ticked = t /\ run.owner = "panel"
    BY <1>2, <1>4 DEF RunCalls
  <1>6. run # Free
    <2>1. DOMAIN run # DOMAIN Free
      BY DEF Free
    <2> QED BY <2>1
  <1> HIDE DEF run
  <1>7. /\ calls' \in [Calls -> RunCalls \cup SaveCalls \cup {Free}]
        /\ calls'[c] = run
        /\ \A d \in Calls \ {c} : calls'[d] = calls[d]
    BY <1>1, <1>5 DEF TypeOK
  <1>8. TypeOK'
    BY <1>1, <1>3, <1>7 DEF TypeOK
  <1>9. RowsAreRead'
    BY <1>1 DEF RowsAreRead, Past
  <1>10. UntouchedShowsBase' /\ PanelShowsListedRow'
    BY <1>1 DEF UntouchedShowsBase, PanelShowsListedRow
  <1>11. TicksAreOwn'
    BY <1>1, <1>3, <1>4, <1>5, <1>7 DEF TicksAreOwn, DropTickedForThisJob
  <1>12. SavesFit'
    BY <1>1, <1>5, <1>7 DEF SavesFit
  <1>13. OwedIsComing'
    BY <1>1 DEF OwedIsComing, WillShow
  <1>14. BusyMeansInFlight'
    <2>1. form'.busy => \E d \in Calls : /\ calls'[d] # Free
                                         /\ calls'[d].kind = "save"
                                         /\ calls'[d].owner = "form"
      BY <1>1, <1>7 DEF BusyMeansInFlight
    <2>2. \E d \in Calls : calls'[d] # Free /\ calls'[d].kind = "run" /\ calls'[d].owner = "panel"
      BY <1>5, <1>6, <1>7
    <2> QED BY <1>1, <2>1, <2>2 DEF BusyMeansInFlight
  <1> QED BY <1>8, <1>9, <1>10, <1>11, <1>12, <1>13, <1>14

\* A call ends that owed the page nothing but the end of its wait.
LEMMA EndRunFacts ==
    ASSUME UiInv, NEW c \in Calls, calls[c] # Free, calls[c].kind = "run", EndRun(c)
    PROVE  /\ panel' \in Panels
           /\ panel'.ticked = panel.ticked /\ panel'.editing = panel.editing
           /\ selected = NoRow => panel' = NewPanel(FALSE)
           /\ calls' \in [Calls -> RunCalls \cup SaveCalls \cup {Free}]
           /\ calls'[c] = Free
           /\ \A d \in Calls \ {c} : calls'[d] = calls[d]
           /\ panel'.busy => \E d \in Calls : /\ calls'[d] # Free
                                              /\ calls'[d].kind = "run"
                                              /\ calls'[d].owner = "panel"
           /\ \A d \in Calls : calls[d] # Free /\ calls[d].kind = "save" => d # c
  <1> USE DEF UiInv
  <1>1. /\ calls' \in [Calls -> RunCalls \cup SaveCalls \cup {Free}]
        /\ calls'[c] = Free
        /\ \A d \in Calls \ {c} : calls'[d] = calls[d]
    BY DEF EndRun, TypeOK
  <1>2. CASE calls[c].owner = "panel"
    <2>1. panel' = [panel EXCEPT !.busy = FALSE]
      BY <1>2 DEF EndRun
    <2>2. /\ panel' \in Panels /\ panel'.busy = FALSE
          /\ panel'.ticked = panel.ticked /\ panel'.editing = panel.editing
      BY <2>1, PanelType DEF TypeOK
    <2>3. selected = NoRow => panel' = NewPanel(FALSE)
      BY <2>1, NewPanelFixed DEF TypeOK
    <2> QED BY <1>1, <2>2, <2>3
  <1>3. CASE calls[c].owner # "panel"
    <2>1. panel' = panel
      BY <1>3 DEF EndRun
    <2>2. panel.busy => \E d \in Calls \ {c} : /\ calls[d] # Free
                                              /\ calls[d].kind = "run"
                                              /\ calls[d].owner = "panel"
      BY <1>3 DEF BusyMeansInFlight
    <2> QED BY <1>1, <2>1, <2>2 DEF TypeOK
  <1> QED BY <1>2, <1>3

LEMMA RunEndsInv ==
    ASSUME UiInv, NEW c \in Calls, RunAnswer(c) \/ RunFails(c)
    PROVE  UiInv'
  <1> USE DEF UiInv
  <1>1. /\ UNCHANGED <<page, table, selected, editMode, form, owed>>
        /\ calls[c] # Free /\ calls[c].kind = "run" /\ EndRun(c)
    BY DEF RunAnswer, RunFails, EndRun
  <1>2. /\ panel' \in Panels
        /\ panel'.ticked = panel.ticked /\ panel'.editing = panel.editing
        /\ selected = NoRow => panel' = NewPanel(FALSE)
        /\ calls' \in [Calls -> RunCalls \cup SaveCalls \cup {Free}]
        /\ calls'[c] = Free
        /\ \A d \in Calls \ {c} : calls'[d] = calls[d]
        /\ panel'.busy => \E d \in Calls : /\ calls'[d] # Free
                                           /\ calls'[d].kind = "run"
                                           /\ calls'[d].owner = "panel"
        /\ \A d \in Calls : calls[d] # Free /\ calls[d].kind = "save" => d # c
    BY <1>1, EndRunFacts
  <1>3. \/ UNCHANGED <<list, loads, loading, error>>
        \/ /\ loads' \in [Loads -> LoadStates]
           /\ loading' = TRUE /\ error' = FALSE /\ list' = list
           /\ \E s \in Loads : loads'[s].stage = "sent" /\ loads'[s] # Free
           /\ \A s \in Loads : loads'[s].stage = "served" => loads'[s] = loads[s]
    BY StartLoadFacts DEF RunAnswer, RunFails, loadVars
  <1>4. TypeOK'
    BY <1>1, <1>2, <1>3 DEF TypeOK
  <1>5. RowsAreRead'
    BY <1>1, <1>3 DEF RowsAreRead, Past
  <1>6. UntouchedShowsBase' /\ PanelShowsListedRow'
    BY <1>1, <1>3 DEF UntouchedShowsBase, PanelShowsListedRow
  <1>7. TicksAreOwn' /\ SavesFit'
    BY <1>1, <1>2 DEF TicksAreOwn, DropTickedForThisJob, SavesFit
  <1>8. OwedIsComing'
    BY <1>1, <1>3 DEF OwedIsComing, WillShow
  <1>9. BusyMeansInFlight'
    <2>1. form.busy => \E d \in Calls : /\ calls'[d] # Free
                                        /\ calls'[d].kind = "save"
                                        /\ calls'[d].owner = "form"
      BY <1>2 DEF BusyMeansInFlight
    <2>2. loading' => \E s \in Loads : loads'[s] # Free
      BY <1>3 DEF BusyMeansInFlight
    <2> QED BY <1>1, <1>2, <2>1, <2>2 DEF BusyMeansInFlight
  <1> QED BY <1>4, <1>5, <1>6, <1>7, <1>8, <1>9

LEMMA StartEditInv ==
    ASSUME UiInv, StartEdit
    PROVE  UiInv'
  <1> USE DEF UiInv
  <1>1. /\ UNCHANGED <<page, table, list, loads, loading, error, selected, editMode, calls, owed>>
        /\ selected # NoRow /\ ~panel.editing
        /\ panel' = [panel EXCEPT !.editing = TRUE]
        /\ form' = NewForm(selected)
    BY DEF StartEdit, loadVars, Viewing
  <1>2. selected \in Rows
    BY <1>1 DEF TypeOK
  <1>3. /\ panel' \in Panels /\ panel'.ticked = panel.ticked /\ panel'.editing = TRUE
        /\ panel'.busy = panel.busy
    BY <1>1, PanelType DEF TypeOK
  <1>4. /\ form' \in Forms /\ form' # NoForm
        /\ form'.base = selected /\ form'.values = FormInitial(selected) /\ form'.busy = FALSE
    <2>1. /\ NewForm(selected).base = selected /\ NewForm(selected).busy = FALSE
          /\ NewForm(selected).values = FormInitial(selected)
      BY DEF NewForm
    <2> QED BY <1>1, <1>2, <2>1, NewFormType, FormType
  <1>5. TypeOK'
    BY <1>1, <1>3, <1>4 DEF TypeOK
  <1>6. RowsAreRead' /\ SavesFit'
    BY <1>1 DEF RowsAreRead, Past, SavesFit
  <1>7. UntouchedShowsBase'
    BY <1>4 DEF UntouchedShowsBase, FormInitial
  <1>8. PanelShowsListedRow'
    BY <1>1, <1>4 DEF PanelShowsListedRow
  <1>9. TicksAreOwn' /\ OwedIsComing'
    BY <1>1, <1>3 DEF TicksAreOwn, DropTickedForThisJob, OwedIsComing, WillShow
  <1>10. BusyMeansInFlight'
    BY <1>1, <1>3, <1>4 DEF BusyMeansInFlight
  <1> QED BY <1>5, <1>6, <1>7, <1>8, <1>9, <1>10

-----------------------------------------------------------------------------
(***************************************************************************)
(* The form.                                                               *)
(***************************************************************************)
\* A change of the form alone, which keeps its row.
LEMMA FormInv ==
    ASSUME UiInv,
           UNCHANGED <<page, table, list, loads, loading, error, selected, editMode, panel,
                       calls, owed>>,
           panel.editing, form' \in Forms, form'.base = form.base, form'.busy = form.busy,
           \A f \in Fields \ form'.touched : form'.values[f] = FormInitial(form.base)[f]
    PROVE  UiInv'
  <1> USE DEF UiInv
  <1>1. form # NoForm /\ form' # NoForm
    BY FormType DEF TypeOK
  <1>2. TypeOK'
    BY <1>1 DEF TypeOK
  <1>3. RowsAreRead' /\ SavesFit'
    BY DEF RowsAreRead, Past, SavesFit
  <1>4. UntouchedShowsBase'
    BY DEF UntouchedShowsBase, FormInitial
  <1>5. PanelShowsListedRow'
    BY <1>1 DEF PanelShowsListedRow
  <1>6. TicksAreOwn' /\ OwedIsComing'
    BY DEF TicksAreOwn, DropTickedForThisJob, OwedIsComing, WillShow
  <1>7. BusyMeansInFlight'
    BY DEF BusyMeansInFlight
  <1> QED BY <1>2, <1>3, <1>4, <1>5, <1>6, <1>7

LEMMA EditFieldInv ==
    ASSUME UiInv, EditField
    PROVE  UiInv'
  <1>0. PICK f \in Fields : \E v \in ValuesOf(f) :
          form' = [form EXCEPT !.values[f] = v,
                               !.touched = IF v = FormInitial(form.base)[f]
                                           THEN @ \ {f} ELSE @ \cup {f}]
    BY DEF EditField
  <1>1. PICK v \in ValuesOf(f) :
          form' = [form EXCEPT !.values[f] = v,
                               !.touched = IF v = FormInitial(form.base)[f]
                                           THEN @ \ {f} ELSE @ \cup {f}]
    BY <1>0
  <1>2. form \in Forms /\ panel.editing
    BY DEF EditField, UiInv, TypeOK
  <1>3. form.values \in Configs /\ form.base \in Rows /\ form.touched \subseteq Fields
    BY <1>2, FormType
  <1> DEFINE vals == [form.values EXCEPT ![f] = v]
             tou == IF v = FormInitial(form.base)[f] THEN form.touched \ {f}
                    ELSE form.touched \cup {f}
             a == [form EXCEPT !.values = vals]
  <1>4. form' = [values |-> vals, base |-> form.base, touched |-> tou,
                 confirm |-> form.confirm, busy |-> form.busy]
    <2>1. a = [values |-> vals, base |-> form.base, touched |-> form.touched,
               confirm |-> form.confirm, busy |-> form.busy]
      <3> HIDE DEF vals
      <3> QED BY <1>2 DEF Forms
    <2>2. form' = [a EXCEPT !.touched = tou]
      BY <1>1, <1>2 DEF Forms
    <2> HIDE DEF a, vals, tou
    <2> QED BY <2>1, <2>2
  <1>5. vals \in Configs /\ tou \subseteq Fields
    BY <1>3 DEF Configs, ValuesOf, Values
  <1>6. \A g \in Fields \ tou : vals[g] = FormInitial(form.base)[g]
    <2>1. \A g \in Fields \ form.touched : form.values[g] = FormInitial(form.base)[g]
      BY <1>2, FormType DEF UiInv, UntouchedShowsBase
    <2>2. \A g \in Fields : vals[g] = IF g = f THEN v ELSE form.values[g]
      BY <1>3 DEF Configs
    <2> HIDE DEF vals
    <2> QED BY <2>1, <2>2
  <1> HIDE DEF vals, tou
  <1>7. form' \in Forms /\ form'.base = form.base /\ form'.busy = form.busy
        /\ form'.touched = tou /\ form'.values = vals
    <2>1. form.confirm \in BOOLEAN /\ form.busy \in BOOLEAN /\ tou \in SUBSET Fields
      BY <1>2, <1>5, FormType
    <2> QED BY <1>3, <1>4, <1>5, <2>1 DEF Forms
  <1>8. UNCHANGED <<page, table, list, loads, loading, error, selected, editMode, panel,
                    calls, owed>>
    BY DEF EditField, loadVars
  <1> QED BY <1>2, <1>6, <1>7, <1>8, FormInv

LEMMA TickDangerousInv ==
    ASSUME UiInv, TickDangerous
    PROVE  UiInv'
  <1>1. form \in Forms /\ panel.editing /\ form' = [form EXCEPT !.confirm = ~@]
    BY DEF TickDangerous, UiInv, TypeOK
  <1>2. form' = [values |-> form.values, base |-> form.base, touched |-> form.touched,
                 confirm |-> ~form.confirm, busy |-> form.busy]
    BY <1>1 DEF Forms
  <1>3. form' \in Forms /\ form'.base = form.base /\ form'.busy = form.busy
        /\ form'.touched = form.touched /\ form'.values = form.values
    <2>1. form.busy \in BOOLEAN /\ (~form.confirm) \in BOOLEAN /\ form.values \in Configs
          /\ form.base \in Rows /\ form.touched \in SUBSET Fields
      BY <1>1, FormType
    <2> QED BY <1>2, <2>1 DEF Forms
  <1>4. \A g \in Fields \ form.touched : form.values[g] = FormInitial(form.base)[g]
    BY <1>1, FormType DEF UiInv, UntouchedShowsBase
  <1>5. UNCHANGED <<page, table, list, loads, loading, error, selected, editMode, panel,
                    calls, owed>>
    BY DEF TickDangerous, loadVars
  <1> QED BY <1>1, <1>3, <1>4, <1>5, FormInv

\* The form goes, its calls are left to the panel.
LEMMA StopEditingFacts ==
    ASSUME UiInv, StopEditing
    PROVE  /\ panel' \in Panels /\ panel'.editing = FALSE
           /\ panel'.ticked = panel.ticked /\ panel'.busy = panel.busy
           /\ form' = NoForm /\ form'.busy = FALSE
           /\ selected = NoRow => panel' = NewPanel(FALSE)
  <1>1. panel' = [panel EXCEPT !.editing = FALSE] /\ form' = NoForm
    BY DEF StopEditing
  <1>2. panel \in Panels /\ (selected = NoRow => panel = NewPanel(FALSE))
    BY DEF UiInv, TypeOK
  <1>3. panel' \in Panels /\ panel'.editing = FALSE
        /\ panel'.ticked = panel.ticked /\ panel'.busy = panel.busy
    BY <1>1, <1>2, PanelType
  <1>4. selected = NoRow => panel' = NewPanel(FALSE)
    BY <1>1, <1>2, NewPanelFixed
  <1> QED BY <1>1, <1>3, <1>4 DEF NoForm

LEMMA CancelEditInv ==
    ASSUME UiInv, CancelEdit
    PROVE  UiInv'
  <1> USE DEF UiInv
  <1>1. /\ UNCHANGED <<page, table, list, loads, loading, error, selected, editMode, owed>>
        /\ StopEditing
        /\ calls' = Orphan({"form"}, "panel")
    BY DEF CancelEdit, loadVars
  <1>2. /\ panel' \in Panels /\ panel'.editing = FALSE
        /\ panel'.ticked = panel.ticked /\ panel'.busy = panel.busy
        /\ form' = NoForm /\ form'.busy = FALSE
        /\ selected = NoRow => panel' = NewPanel(FALSE)
    BY <1>1, StopEditingFacts
  <1>3. /\ calls' \in [Calls -> RunCalls \cup SaveCalls \cup {Free}]
        /\ \A d \in Calls :
             /\ calls'[d] = Free <=> calls[d] = Free
             /\ calls[d] # Free =>
                  /\ calls'[d].kind = calls[d].kind
                  /\ calls'[d].job = calls[d].job
                  /\ calls'[d].owner = IF calls[d].owner = "form" THEN "panel" ELSE calls[d].owner
                  /\ calls[d].kind = "run" => calls'[d].ticked = calls[d].ticked
                  /\ calls[d].kind = "save" =>
                       /\ calls'[d].stage = calls[d].stage
                       /\ calls'[d].values = calls[d].values
                       /\ calls'[d].touched = calls[d].touched
                       /\ calls'[d].version = calls[d].version
    BY <1>1, OrphanCalls
  <1>4. TypeOK'
    BY <1>1, <1>2, <1>3 DEF TypeOK
  <1>5. RowsAreRead'
    BY <1>1 DEF RowsAreRead, Past
  <1>6. UntouchedShowsBase' /\ PanelShowsListedRow'
    BY <1>1, <1>2 DEF UntouchedShowsBase, PanelShowsListedRow
  <1>7. TicksAreOwn'
    BY <1>1, <1>2, <1>3 DEF TicksAreOwn, DropTickedForThisJob
  <1>8. SavesFit'
    BY <1>1, <1>3 DEF SavesFit
  <1>9. OwedIsComing'
    BY <1>1 DEF OwedIsComing, WillShow
  <1>10. BusyMeansInFlight'
    <2>1. panel'.busy => \E d \in Calls : calls'[d] # Free /\ calls'[d].kind = "run"
                                          /\ calls'[d].owner = "panel"
      BY <1>2, <1>3 DEF BusyMeansInFlight
    <2> QED BY <1>1, <1>2, <2>1 DEF BusyMeansInFlight
  <1> QED BY <1>4, <1>5, <1>6, <1>7, <1>8, <1>9, <1>10

LEMMA SubmitEditInv ==
    ASSUME UiInv, NEW c \in Calls, SubmitEdit(c)
    PROVE  UiInv'
  <1> USE DEF UiInv
  <1> DEFINE save == [kind |-> "save", stage |-> "sent", job |-> selected.job,
                      values |-> form.values, touched |-> form.touched,
                      confirm |-> form.confirm, version |-> form.base.version,
                      owner |-> "form"]
  <1>1. /\ UNCHANGED <<page, table, list, loads, loading, error, selected, editMode, panel, owed>>
        /\ panel.editing
        /\ form' = [form EXCEPT !.busy = TRUE]
        /\ calls[c] = Free
        /\ calls' = [calls EXCEPT ![c] = save]
    BY DEF SubmitEdit, loadVars
  <1>2. form \in Forms /\ form # NoForm
    BY <1>1, FormType DEF TypeOK
  <1>3. /\ form.base \in Rows /\ form.base = selected /\ form.values \in Configs
        /\ form.touched \in SUBSET Fields /\ form.confirm \in BOOLEAN
    BY <1>2, FormType DEF PanelShowsListedRow
  <1>4. /\ selected # NoRow /\ selected.job \in Jobs /\ selected.version \in 1 .. MaxVersion
        /\ selected.config \in Configs /\ Past(selected)
    BY <1>3, RowType DEF RowsAreRead
  <1>5. form' = [values |-> form.values, base |-> form.base, touched |-> form.touched,
                 confirm |-> form.confirm, busy |-> TRUE]
    BY <1>1, <1>2 DEF Forms
  <1>6. /\ form' \in Forms /\ form' # NoForm /\ form'.busy = TRUE
        /\ form'.values = form.values /\ form'.base = form.base
        /\ form'.touched = form.touched
    <2>1. form' \in Forms
      BY <1>3, <1>5 DEF Forms
    <2> QED BY <1>5, <2>1, FormType
  <1>7. /\ save \in SaveCalls /\ save.kind = "save" /\ save.owner = "form"
        /\ save.job = selected.job /\ save.version = form.base.version
        /\ save.values = form.values /\ save.touched = form.touched
    BY <1>3, <1>4 DEF SaveCalls, Owners
  <1>8. save # Free
    <2>1. DOMAIN save # DOMAIN Free
      BY DEF Free
    <2> QED BY <2>1
  <1> HIDE DEF save
  <1>9. /\ calls' \in [Calls -> RunCalls \cup SaveCalls \cup {Free}]
        /\ calls'[c] = save
        /\ \A d \in Calls \ {c} : calls'[d] = calls[d]
    BY <1>1, <1>7 DEF TypeOK
  <1>10. TypeOK'
    BY <1>1, <1>2, <1>6, <1>9 DEF TypeOK
  <1>11. RowsAreRead'
    BY <1>1 DEF RowsAreRead, Past
  <1>12. UntouchedShowsBase'
    BY <1>2, <1>6 DEF UntouchedShowsBase, FormInitial
  <1>13. PanelShowsListedRow'
    BY <1>1, <1>3, <1>6 DEF PanelShowsListedRow
  <1>14. TicksAreOwn'
    BY <1>1, <1>7, <1>9 DEF TicksAreOwn, DropTickedForThisJob
  <1>15. OwedIsComing'
    BY <1>1 DEF OwedIsComing, WillShow
  <1>16. SavesFit'
    <2>1. selected.version <= table[selected.job].version
      BY <1>4 DEF Past
    <2>2. ASSUME selected.version = table[selected.job].version,
                 NEW f \in Fields \ ({"keep"} \cup form.touched)
          PROVE  form.values[f] = table[selected.job].config[f]
      <3>1. form.values[f] = FormInitial(form.base)[f]
        BY <1>2 DEF UntouchedShowsBase
      <3>2. FormInitial(form.base)[f] = selected.config[f]
        BY <1>3 DEF FormInitial
      <3>3. selected.config = table[selected.job].config
        BY <1>4, <2>2 DEF Past
      <3> QED BY <3>1, <3>2, <3>3
    <2>3. ASSUME NEW d \in Calls, calls'[d] # Free, calls'[d].kind = "save"
          PROVE  /\ calls'[d].version <= table[calls'[d].job].version
                 /\ calls'[d].stage = "sent" /\ calls'[d].version = table[calls'[d].job].version =>
                     \A f \in Fields \ ({"keep"} \cup calls'[d].touched) :
                        calls'[d].values[f] = table[calls'[d].job].config[f]
      <3>1. CASE d = c
        BY <3>1, <1>3, <1>7, <1>9, <2>1, <2>2
      <3>2. CASE d # c
        BY <3>2, <2>3, <1>9 DEF SavesFit
      <3> QED BY <3>1, <3>2
    <2> QED BY <1>1, <2>3 DEF SavesFit
  <1>17. BusyMeansInFlight'
    <2>1. panel.busy => \E d \in Calls : calls'[d] # Free /\ calls'[d].kind = "run"
                                         /\ calls'[d].owner = "panel"
      BY <1>1, <1>9 DEF BusyMeansInFlight
    <2>2. \E d \in Calls : calls'[d] # Free /\ calls'[d].kind = "save" /\ calls'[d].owner = "form"
      BY <1>7, <1>8, <1>9
    <2> QED BY <1>1, <2>1, <2>2 DEF BusyMeansInFlight
  <1> QED BY <1>10, <1>11, <1>12, <1>13, <1>14, <1>15, <1>16, <1>17

-----------------------------------------------------------------------------
(***************************************************************************)
(* Saves.                                                                  *)
(***************************************************************************)
\* A write leaves all that was read a past state of its row.
LEMMA WriteKeepsReads ==
    ASSUME UiInv, NEW j \in Jobs, NEW config \in Configs, Write(j, config),
           UNCHANGED <<list, loads, selected>>
    PROVE  RowsAreRead'
  <1> USE DEF UiInv
  <1>1. /\ \A k \in Jobs : table'[k].job = k
        /\ \A r \in Rows : Past(r) =>
              /\ r.version <= table'[r.job].version
              /\ r.version = table'[r.job].version => r.config = table'[r.job].config
    BY WriteFacts
  <1>2. \A r : Past(r) => Past(r)'
    BY <1>1 DEF Past
  <1>3. \A k \in Jobs : list[k] # NoRow => list[k].job = k /\ Past(list[k])
    BY DEF RowsAreRead
  <1>4. \A s \in Loads : loads[s].stage = "served" =>
          \A k \in Jobs : loads[s].rows[k].job = k /\ Past(loads[s].rows[k])
    BY DEF RowsAreRead
  <1>5. selected # NoRow => Past(selected)
    BY DEF RowsAreRead
  <1> QED BY <1>1, <1>2, <1>3, <1>4, <1>5 DEF RowsAreRead

LEMMA ServeSaveInv ==
    ASSUME UiInv, NEW c \in Calls, ServeSave(c)
    PROVE  UiInv'
  <1> USE DEF UiInv
  <1> DEFINE s == calls[c]
             done == [s EXCEPT !.stage = "done", !.version = table[s.job].version + 1]
  <1>1. /\ UNCHANGED <<page, list, loads, loading, error, selected, editMode, panel, form, owed>>
        /\ s # Free /\ s.kind = "save" /\ s.stage = "sent"
        /\ Write(s.job, s.values)
        /\ calls' = [calls EXCEPT ![c] = IF s.owner = "gone" THEN Free ELSE done]
    BY DEF ServeSave, loadVars, shown
  <1>2. s \in SaveCalls /\ s.job \in Jobs /\ s.values \in Configs
    <2>1. s \in SaveCalls
      BY <1>1, CallType
    <2> QED BY <2>1 DEF SaveCalls
  <1> DEFINE j == s.job
             v == s.values
  <1>3. /\ table' \in [Jobs -> Rows]
        /\ \A k \in Jobs : table'[k].job = k /\ table[k].version <= table'[k].version
                           /\ (k # j => table'[k] = table[k])
        /\ table'[j].version = table[j].version + 1
        /\ table'[j].version \in 1 .. MaxVersion
    BY <1>1, <1>2, WriteFacts
  <1>4. RowsAreRead'
    BY <1>1, <1>2, WriteKeepsReads
  <1>5. done = [kind |-> "save", stage |-> "done", job |-> s.job, values |-> s.values,
                touched |-> s.touched, confirm |-> s.confirm,
                version |-> table[j].version + 1, owner |-> s.owner]
    <2> DEFINE n == table[s.job].version + 1
               a == [s EXCEPT !.stage = "done"]
    <2> HIDE DEF n, s
    <2>1. a = [kind |-> "save", stage |-> "done", job |-> s.job, values |-> s.values,
               touched |-> s.touched, confirm |-> s.confirm,
               version |-> s.version, owner |-> s.owner]
      BY <1>1, <1>2 DEF SaveCalls
    <2> HIDE DEF a
    <2>2. [a EXCEPT !.version = n] =
              [kind |-> "save", stage |-> "done", job |-> s.job, values |-> s.values,
               touched |-> s.touched, confirm |-> s.confirm,
               version |-> n, owner |-> s.owner]
      BY <2>1
    <2> QED BY <2>2 DEF a, n
  <1>6. /\ done \in SaveCalls /\ done.kind = "save" /\ done.stage = "done" /\ done.job = j
        /\ done.version = table[j].version + 1 /\ done.owner = s.owner
    <2>1. table[j].version + 1 \in 1 .. MaxVersion
      BY <1>3
    <2> QED BY <1>2, <1>5, <2>1 DEF SaveCalls
  <1>7. done # Free
    <2>1. DOMAIN done # DOMAIN Free
      BY <1>5 DEF Free
    <2> QED BY <2>1
  <1> HIDE DEF done
  <1>8. /\ calls' \in [Calls -> RunCalls \cup SaveCalls \cup {Free}]
        /\ calls'[c] = IF s.owner = "gone" THEN Free ELSE done
        /\ \A d \in Calls \ {c} : calls'[d] = calls[d]
    BY <1>1, <1>6 DEF TypeOK
  <1>9. TypeOK'
    BY <1>1, <1>3, <1>8 DEF TypeOK
  <1>10. UntouchedShowsBase' /\ PanelShowsListedRow'
    BY <1>1 DEF UntouchedShowsBase, PanelShowsListedRow
  <1>11. TicksAreOwn'
    BY <1>1, <1>6, <1>8 DEF TicksAreOwn, DropTickedForThisJob
  <1>12. SavesFit'
    <2>1. ASSUME NEW d \in Calls, calls'[d] # Free, calls'[d].kind = "save"
          PROVE  /\ calls'[d].version <= table'[calls'[d].job].version
                 /\ calls'[d].stage = "sent" /\ calls'[d].version = table'[calls'[d].job].version =>
                     \A f \in Fields \ ({"keep"} \cup calls'[d].touched) :
                        calls'[d].values[f] = table'[calls'[d].job].config[f]
      <3>1. CASE d = c
        <4>1. calls'[d] = done
          BY <3>1, <2>1, <1>8
        <4> QED BY <4>1, <1>3, <1>6
      <3>2. CASE d # c
        <4>1. /\ calls'[d] = calls[d] /\ calls[d].job \in Jobs
              /\ calls[d].version <= table[calls[d].job].version
              /\ calls[d].version \in Nat
          <5>1. calls'[d] = calls[d]
            BY <3>2, <1>8
          <5>2. calls[d] \in SaveCalls
            BY <5>1, <2>1, CallType
          <5> QED BY <5>1, <5>2, <2>1 DEF SaveCalls, SavesFit
        <4>2. CASE calls[d].job = j
          BY <4>1, <4>2, <1>3, RowType DEF TypeOK
        <4>3. CASE calls[d].job # j
          BY <4>1, <4>3, <2>1, <1>3 DEF SavesFit
        <4> QED BY <4>2, <4>3
      <3> QED BY <3>1, <3>2
    <2> QED BY <2>1 DEF SavesFit
  <1>13. OwedIsComing'
    <2>1. ASSUME NEW k \in Jobs PROVE owed[k] <= table'[k].version
      <3>1. owed[k] <= table[k].version /\ table[k].version <= table'[k].version
            /\ owed[k] \in Nat /\ table[k].version \in Nat /\ table'[k].version \in Nat
        BY <1>3, RowType DEF OwedIsComing, TypeOK
      <3> QED BY <3>1
    <2> QED BY <1>1, <2>1 DEF OwedIsComing, WillShow
  <1>14. BusyMeansInFlight'
    <2>1. form.busy => \E d \in Calls : calls'[d] # Free /\ calls'[d].kind = "save"
                                        /\ calls'[d].owner = "form"
      <3> SUFFICES ASSUME form.busy
                   PROVE  \E d \in Calls : calls'[d] # Free /\ calls'[d].kind = "save"
                                           /\ calls'[d].owner = "form"
        OBVIOUS
      <3>1. PICK d \in Calls : calls[d] # Free /\ calls[d].kind = "save" /\ calls[d].owner = "form"
        BY DEF BusyMeansInFlight
      <3>2. CASE d = c
        BY <3>1, <3>2, <1>6, <1>7, <1>8
      <3>3. CASE d # c
        BY <3>1, <3>3, <1>8
      <3> QED BY <3>2, <3>3
    <2>2. panel.busy => \E d \in Calls : calls'[d] # Free /\ calls'[d].kind = "run"
                                         /\ calls'[d].owner = "panel"
      BY <1>1, <1>8 DEF BusyMeansInFlight
    <2> QED BY <1>1, <2>1, <2>2 DEF BusyMeansInFlight
  <1> QED BY <1>4, <1>9, <1>10, <1>11, <1>12, <1>13, <1>14

LEMMA SaveFailsInv ==
    ASSUME UiInv, NEW c \in Calls, SaveFails(c)
    PROVE  UiInv'
  <1> USE DEF UiInv
  <1>1. /\ UNCHANGED <<page, table, list, loads, loading, error, selected, editMode, panel, owed>>
        /\ calls[c] # Free /\ calls[c].kind = "save"
        /\ form' = IF calls[c].owner = "form" THEN [form EXCEPT !.busy = FALSE] ELSE form
        /\ calls' = [calls EXCEPT ![c] = Free]
    BY DEF SaveFails, loadVars
  <1>2. /\ calls' \in [Calls -> RunCalls \cup SaveCalls \cup {Free}]
        /\ calls'[c] = Free
        /\ \A d \in Calls \ {c} : calls'[d] = calls[d]
    BY <1>1 DEF TypeOK
  <1>3. /\ form' \in Forms \cup {NoForm}
        /\ form' # NoForm <=> form # NoForm
        /\ form # NoForm => /\ form'.values = form.values /\ form'.base = form.base
                            /\ form'.touched = form.touched
        /\ form'.busy => form.busy /\ calls[c].owner # "form"
    <2>1. CASE calls[c].owner # "form"
      BY <2>1, <1>1 DEF TypeOK
    <2>2. CASE calls[c].owner = "form" /\ form \in Forms
      <3>1. form' = [values |-> form.values, base |-> form.base, touched |-> form.touched,
                     confirm |-> form.confirm, busy |-> FALSE]
        BY <2>2, <1>1 DEF Forms
      <3>2. form' \in Forms
        BY <2>2, <3>1, FormType DEF Forms
      <3> QED BY <2>2, <3>1, <3>2, FormType
    <2>3. CASE calls[c].owner = "form" /\ form = NoForm
      <3>1. [NoForm EXCEPT !.busy = FALSE] = NoForm
        <4>1. NoForm \in [busy : {FALSE}]
          BY DEF NoForm
        <4>2. \A g \in [busy : {FALSE}] : [g EXCEPT !.busy = FALSE] = g
          OBVIOUS
        <4> QED BY <4>1, <4>2
      <3>2. form' = NoForm /\ ~NoForm.busy
        BY <2>3, <1>1, <3>1 DEF NoForm
      <3> QED BY <2>3, <3>2
    <2> QED BY <2>1, <2>2, <2>3 DEF TypeOK
  <1>4. TypeOK'
    BY <1>1, <1>2, <1>3 DEF TypeOK
  <1>5. RowsAreRead'
    BY <1>1 DEF RowsAreRead, Past
  <1>6. UntouchedShowsBase' /\ PanelShowsListedRow'
    BY <1>1, <1>3 DEF UntouchedShowsBase, PanelShowsListedRow, FormInitial
  <1>7. TicksAreOwn' /\ SavesFit'
    BY <1>1, <1>2 DEF TicksAreOwn, DropTickedForThisJob, SavesFit
  <1>8. OwedIsComing'
    BY <1>1 DEF OwedIsComing, WillShow
  <1>9. BusyMeansInFlight'
    <2>1. form'.busy => \E d \in Calls : calls'[d] # Free /\ calls'[d].kind = "save"
                                         /\ calls'[d].owner = "form"
      BY <1>2, <1>3 DEF BusyMeansInFlight
    <2>2. panel.busy => \E d \in Calls : calls'[d] # Free /\ calls'[d].kind = "run"
                                         /\ calls'[d].owner = "panel"
      BY <1>1, <1>2 DEF BusyMeansInFlight
    <2> QED BY <1>1, <2>1, <2>2 DEF BusyMeansInFlight
  <1> QED BY <1>4, <1>5, <1>6, <1>7, <1>8, <1>9

\* What the answer of a save leaves of the panel, the form and the other calls.
LEMMA SaveAnswerFacts ==
    ASSUME UiInv, NEW c \in Calls, SaveAnswer(c)
    PROVE  /\ panel' \in Panels
           /\ panel'.ticked \in {panel.ticked, "none"}
           /\ selected = NoRow => panel' = NewPanel(FALSE)
           /\ panel'.editing <=> form' # NoForm
           /\ form' = form \/ form' = NoForm
           /\ calls' \in [Calls -> RunCalls \cup SaveCalls \cup {Free}]
           /\ \A d \in Calls : calls'[d] # Free =>
                /\ calls[d] # Free
                /\ calls'[d].kind = calls[d].kind
                /\ calls'[d].job = calls[d].job
                /\ calls[d].kind = "run" => calls'[d].ticked = calls[d].ticked
                /\ calls[d].kind = "save" =>
                     /\ calls'[d].stage = calls[d].stage
                     /\ calls'[d].values = calls[d].values
                     /\ calls'[d].touched = calls[d].touched
                     /\ calls'[d].version = calls[d].version
           /\ panel'.busy => \E d \in Calls : calls'[d] # Free /\ calls'[d].kind = "run"
                                              /\ calls'[d].owner = "panel"
           /\ form'.busy => \E d \in Calls : calls'[d] # Free /\ calls'[d].kind = "save"
                                             /\ calls'[d].owner = "form"
  <1> USE DEF UiInv
  <1> DEFINE settled(owners, left) == calls' = [Orphan(owners, left) EXCEPT ![c] = Free]
             kept == /\ calls' \in [Calls -> RunCalls \cup SaveCalls \cup {Free}]
                     /\ \A d \in Calls : calls'[d] # Free =>
                          /\ calls[d] # Free
                          /\ calls'[d].kind = calls[d].kind
                          /\ calls'[d].job = calls[d].job
                          /\ calls[d].kind = "run" => calls'[d].ticked = calls[d].ticked
                          /\ calls[d].kind = "save" =>
                               /\ calls'[d].stage = calls[d].stage
                               /\ calls'[d].values = calls[d].values
                               /\ calls'[d].touched = calls[d].touched
                               /\ calls'[d].version = calls[d].version
  <1>1. calls[c] # Free /\ calls[c].kind = "save"
    BY DEF SaveAnswer
  <1>2. ASSUME NEW owners \in {{"form", "panel"}, {"form"}}, NEW left \in {"panel", "page"},
               "panel" \in owners => left = "page", settled(owners, left)
        PROVE  /\ kept
               /\ \A d \in Calls \ {c} : calls'[d] = Orphan(owners, left)[d]
    <2> HIDE DEF kept, settled
    <2>1. /\ Orphan(owners, left) \in [Calls -> RunCalls \cup SaveCalls \cup {Free}]
          /\ \A d \in Calls :
                /\ Orphan(owners, left)[d] = Free <=> calls[d] = Free
                /\ calls[d] # Free =>
                     /\ Orphan(owners, left)[d].kind = calls[d].kind
                     /\ Orphan(owners, left)[d].job = calls[d].job
                     /\ calls[d].kind = "run" => Orphan(owners, left)[d].ticked = calls[d].ticked
                     /\ calls[d].kind = "save" =>
                          /\ Orphan(owners, left)[d].stage = calls[d].stage
                          /\ Orphan(owners, left)[d].values = calls[d].values
                          /\ Orphan(owners, left)[d].touched = calls[d].touched
                          /\ Orphan(owners, left)[d].version = calls[d].version
      <3>1. CASE owners = {"form", "panel"}
        <4>1. left = "page"
          BY <1>2, <3>1
        <4> QED BY <4>1, <3>1, OrphanCalls
      <3>2. CASE owners = {"form"}
        <4>1. "panel" \notin owners
          BY <3>2
        <4> QED BY <4>1, <3>2, OrphanCalls
      <3> QED BY <3>1, <3>2
    <2> DEFINE o == Orphan(owners, left)
    <2>2. calls' = [o EXCEPT ![c] = Free]
      BY <1>2 DEF settled
    <2> HIDE DEF o
    <2>3. /\ calls' \in [Calls -> RunCalls \cup SaveCalls \cup {Free}]
          /\ calls'[c] = Free
          /\ \A d \in Calls \ {c} : calls'[d] = o[d]
      BY <2>1, <2>2 DEF o
    <2>4. kept
      BY <2>1, <2>3 DEF o, kept
    <2> QED BY <2>3, <2>4 DEF o
  <1>3. CASE page = "jobs" /\ editMode
    <2>1. panel' = NewPanel(FALSE) /\ form' = NoForm /\ settled({"form", "panel"}, "page")
      BY <1>3 DEF SaveAnswer
    <2>2. kept
      BY <2>1, <1>2
    <2>3. panel' \in Panels /\ panel'.ticked = "none" /\ panel'.editing = FALSE
          /\ panel'.busy = FALSE /\ form'.busy = FALSE
      BY <2>1 DEF NewPanel, Panels, NoForm
    <2> HIDE DEF settled
    <2> QED BY <2>1, <2>2, <2>3
  <1>4. CASE ~(page = "jobs" /\ editMode) /\ calls[c].owner \in {"form", "panel"}
    <2>1. StopEditing /\ settled({"form"}, "panel")
      BY <1>4 DEF SaveAnswer
    <2>2. kept /\ \A d \in Calls \ {c} : calls'[d] = Orphan({"form"}, "panel")[d]
      BY <2>1, <1>2
    <2>3. /\ panel' \in Panels /\ panel'.editing = FALSE
          /\ panel'.ticked = panel.ticked /\ panel'.busy = panel.busy
          /\ form' = NoForm /\ form'.busy = FALSE
          /\ selected = NoRow => panel' = NewPanel(FALSE)
      BY <2>1, StopEditingFacts
    <2>4. panel'.busy => \E d \in Calls : calls'[d] # Free /\ calls'[d].kind = "run"
                                          /\ calls'[d].owner = "panel"
      <3> SUFFICES ASSUME panel.busy
                   PROVE  \E d \in Calls : calls'[d] # Free /\ calls'[d].kind = "run"
                                           /\ calls'[d].owner = "panel"
        BY <2>3
      <3>1. PICK d \in Calls : calls[d] # Free /\ calls[d].kind = "run" /\ calls[d].owner = "panel"
        BY DEF BusyMeansInFlight
      <3>2. /\ Orphan({"form"}, "panel")[d] # Free
            /\ Orphan({"form"}, "panel")[d].kind = "run"
            /\ Orphan({"form"}, "panel")[d].owner = "panel"
        BY <3>1, OrphanCalls
      <3> QED BY <3>1, <3>2, <2>2, <1>1
    <2> HIDE DEF settled
    <2> QED BY <2>2, <2>3, <2>4
  <1>5. CASE ~(page = "jobs" /\ editMode) /\ calls[c].owner \notin {"form", "panel"}
    <2>1. panel' = panel /\ form' = form /\ calls' = [calls EXCEPT ![c] = Free]
      BY <1>5 DEF SaveAnswer
    <2>2. /\ calls' \in [Calls -> RunCalls \cup SaveCalls \cup {Free}]
          /\ calls'[c] = Free
          /\ \A d \in Calls \ {c} : calls'[d] = calls[d]
      BY <2>1 DEF TypeOK
    <2>3. kept
      BY <2>2
    <2>4. /\ panel'.busy => \E d \in Calls : calls'[d] # Free /\ calls'[d].kind = "run"
                                             /\ calls'[d].owner = "panel"
          /\ form'.busy => \E d \in Calls : calls'[d] # Free /\ calls'[d].kind = "save"
                                            /\ calls'[d].owner = "form"
      BY <1>1, <1>5, <2>1, <2>2 DEF BusyMeansInFlight
    <2> HIDE DEF settled
    <2> QED BY <2>1, <2>3, <2>4 DEF TypeOK
  <1> QED BY <1>3, <1>4, <1>5

LEMMA SaveAnswerInv ==
    ASSUME UiInv, NEW c \in Calls, SaveAnswer(c)
    PROVE  UiInv'
  <1> USE DEF UiInv
  <1>1. /\ UNCHANGED <<page, table, selected>>
        /\ calls[c] # Free /\ calls[c].kind = "save"
        /\ IF page = "jobs" THEN OnUpdated(c) ELSE UNCHANGED <<editMode, owed, loadVars>>
    BY DEF SaveAnswer
  <1>2. /\ panel' \in Panels
        /\ panel'.ticked \in {panel.ticked, "none"}
        /\ selected = NoRow => panel' = NewPanel(FALSE)
        /\ panel'.editing <=> form' # NoForm
        /\ form' = form \/ form' = NoForm
        /\ panel'.busy => \E d \in Calls : calls'[d] # Free /\ calls'[d].kind = "run"
                                           /\ calls'[d].owner = "panel"
        /\ form'.busy => \E d \in Calls : calls'[d] # Free /\ calls'[d].kind = "save"
                                          /\ calls'[d].owner = "form"
    BY SaveAnswerFacts
  <1>3. /\ calls' \in [Calls -> RunCalls \cup SaveCalls \cup {Free}]
        /\ \A d \in Calls : calls'[d] # Free =>
             /\ calls[d] # Free
             /\ calls'[d].kind = calls[d].kind
             /\ calls'[d].job = calls[d].job
             /\ calls[d].kind = "run" => calls'[d].ticked = calls[d].ticked
             /\ calls[d].kind = "save" =>
                  /\ calls'[d].stage = calls[d].stage
                  /\ calls'[d].values = calls[d].values
                  /\ calls'[d].touched = calls[d].touched
                  /\ calls'[d].version = calls[d].version
    BY SaveAnswerFacts
  <1>4. \/ UNCHANGED <<list, loads, loading, error, editMode, owed>>
        \/ /\ loads' \in [Loads -> LoadStates]
           /\ loading' = TRUE /\ error' = FALSE /\ list' = list /\ editMode' = FALSE
           /\ \E s \in Loads : loads'[s].stage = "sent" /\ loads'[s] # Free
           /\ \A s \in Loads : loads'[s].stage = "served" => loads'[s] = loads[s]
           /\ Owe(c)
    BY <1>1, StartLoadFacts DEF OnUpdated, loadVars
  <1>5. /\ owed' \in [Jobs -> 0 .. MaxVersion]
        /\ \A j \in Jobs : owed'[j] <= table[j].version
    <2>1. CASE owed' = owed
      BY <2>1 DEF TypeOK, OwedIsComing
    <2>2. CASE Owe(c)
      <3>1. /\ calls[c].job \in Jobs /\ calls[c].version \in 1 .. MaxVersion
            /\ calls[c].version <= table[calls[c].job].version
        <4>1. calls[c] \in SaveCalls
          BY <1>1, CallType
        <4> QED BY <4>1, <1>1 DEF SaveCalls, SavesFit
      <3> DEFINE new == IF owed[calls[c].job] < calls[c].version THEN calls[c].version
                        ELSE owed[calls[c].job]
      <3>2. owed' = [owed EXCEPT ![calls[c].job] = new]
        BY <2>2 DEF Owe
      <3>3. new \in 0 .. MaxVersion /\ new <= table[calls[c].job].version
        BY <3>1, VersionAssumption DEF TypeOK, OwedIsComing
      <3> HIDE DEF new
      <3> QED BY <3>1, <3>2, <3>3 DEF TypeOK, OwedIsComing
    <2> QED BY <1>4, <2>1, <2>2
  <1>6. TypeOK'
    <2>1. selected' = NoRow => panel' = NewPanel(FALSE) /\ ~editMode'
      BY <1>1, <1>2, <1>4 DEF TypeOK
    <2>2. form' \in Forms \cup {NoForm} /\ editMode' \in BOOLEAN
      BY <1>2, <1>4 DEF TypeOK
    <2>3. list' \in [Jobs -> Rows] \cup {NoList} /\ loads' \in [Loads -> LoadStates]
          /\ loading' \in BOOLEAN /\ error' \in BOOLEAN
      BY <1>4 DEF TypeOK
    <2> QED BY <1>1, <1>2, <1>3, <1>5, <2>1, <2>2, <2>3 DEF TypeOK
  <1>7. RowsAreRead'
    BY <1>1, <1>4 DEF RowsAreRead, Past
  <1>8. UntouchedShowsBase'
    BY <1>2 DEF UntouchedShowsBase, FormInitial
  <1>9. PanelShowsListedRow'
    BY <1>1, <1>2, <1>4 DEF PanelShowsListedRow
  <1>10. TicksAreOwn'
    BY <1>1, <1>2, <1>3 DEF TicksAreOwn, DropTickedForThisJob
  <1>11. SavesFit'
    BY <1>1, <1>3 DEF SavesFit
  <1>12. OwedIsComing'
    <2>1. CASE UNCHANGED <<list, loads, loading, error, editMode, owed>>
      BY <1>1, <2>1 DEF OwedIsComing, WillShow
    <2>2. CASE \E s \in Loads : loads'[s].stage = "sent" /\ loads'[s] # Free
      BY <1>1, <1>5, <2>2 DEF OwedIsComing, WillShow
    <2> QED BY <1>4, <2>1, <2>2
  <1>13. BusyMeansInFlight'
    <2>1. loading' => \E s \in Loads : loads'[s] # Free
      BY <1>4 DEF BusyMeansInFlight
    <2> QED BY <1>2, <2>1 DEF BusyMeansInFlight
  <1> QED BY <1>6, <1>7, <1>8, <1>9, <1>10, <1>11, <1>12, <1>13

LEMMA OtherSaveInv ==
    ASSUME UiInv, OtherSave
    PROVE  UiInv'
  <1> USE DEF UiInv
  <1>1. UNCHANGED <<page, list, loads, loading, error, selected, editMode, panel, form,
                    calls, owed>>
    BY DEF OtherSave, loadVars, shown
  <1>2. PICK j \in Jobs, f \in Fields : \E v \in ValuesOf(f) :
            Write(j, [table[j].config EXCEPT ![f] = v])
    BY DEF OtherSave
  <1>3. PICK v \in ValuesOf(f) : Write(j, [table[j].config EXCEPT ![f] = v])
    BY <1>2
  <1> DEFINE config == [table[j].config EXCEPT ![f] = v]
  <1>4. config \in Configs
    <2>1. table[j].config \in Configs
      BY RowType DEF TypeOK
    <2> QED BY <2>1 DEF Configs, ValuesOf, Values
  <1> HIDE DEF config
  <1>5. Write(j, config)
    BY <1>3 DEF config
  <1>6. /\ table' \in [Jobs -> Rows]
        /\ \A k \in Jobs : table'[k].job = k /\ table[k].version <= table'[k].version
                           /\ (k # j => table'[k] = table[k])
        /\ table'[j].version = table[j].version + 1
    BY <1>4, <1>5, WriteFacts
  <1>7. RowsAreRead'
    BY <1>1, <1>4, <1>5, WriteKeepsReads
  <1>8. TypeOK'
    BY <1>1, <1>6 DEF TypeOK
  <1>9. UntouchedShowsBase' /\ PanelShowsListedRow' /\ TicksAreOwn' /\ BusyMeansInFlight'
    BY <1>1 DEF UntouchedShowsBase, PanelShowsListedRow, TicksAreOwn, DropTickedForThisJob,
                BusyMeansInFlight
  <1>10. \A k \in Jobs : table[k].version \in Nat /\ table'[k].version \in Nat
    BY <1>6, RowType DEF TypeOK
  <1>11. SavesFit'
    <2>1. ASSUME NEW d \in Calls, calls[d] # Free, calls[d].kind = "save"
          PROVE  /\ calls[d].version <= table'[calls[d].job].version
                 /\ calls[d].stage = "sent" /\ calls[d].version = table'[calls[d].job].version =>
                     \A g \in Fields \ ({"keep"} \cup calls[d].touched) :
                        calls[d].values[g] = table'[calls[d].job].config[g]
      <3>1. /\ calls[d].job \in Jobs /\ calls[d].version \in Nat
            /\ calls[d].version <= table[calls[d].job].version
        <4>1. calls[d] \in SaveCalls
          BY <2>1, CallType
        <4> QED BY <4>1, <2>1 DEF SaveCalls, SavesFit
      <3>2. CASE calls[d].job = j
        BY <3>1, <3>2, <1>6, <1>10
      <3>3. CASE calls[d].job # j
        BY <3>1, <3>3, <2>1, <1>6 DEF SavesFit
      <3> QED BY <3>2, <3>3
    <2> QED BY <1>1, <2>1 DEF SavesFit
  <1>12. OwedIsComing'
    <2>1. ASSUME NEW k \in Jobs PROVE owed[k] <= table'[k].version
      <3>1. owed[k] <= table[k].version /\ owed[k] \in Nat
        BY DEF OwedIsComing, TypeOK
      <3> QED BY <3>1, <1>6, <1>10
    <2> QED BY <1>1, <2>1 DEF OwedIsComing, WillShow
  <1> QED BY <1>7, <1>8, <1>9, <1>11, <1>12

LEMMA StutterInv ==
    ASSUME UiInv, UNCHANGED vars
    PROVE  UiInv'
  <1> USE DEF vars
  <1>1. TypeOK'
    BY DEF UiInv, TypeOK
  <1>2. RowsAreRead' /\ SavesFit'
    BY DEF UiInv, RowsAreRead, Past, SavesFit
  <1>3. UntouchedShowsBase' /\ PanelShowsListedRow' /\ TicksAreOwn'
    BY DEF UiInv, UntouchedShowsBase, FormInitial, PanelShowsListedRow, TicksAreOwn,
           DropTickedForThisJob
  <1>4. OwedIsComing' /\ BusyMeansInFlight'
    BY DEF UiInv, OwedIsComing, WillShow, BusyMeansInFlight
  <1> QED BY <1>1, <1>2, <1>3, <1>4 DEF UiInv

LEMMA StepInv == UiInv /\ [Next]_vars => UiInv'
  <1> SUFFICES ASSUME UiInv, [Next]_vars PROVE UiInv'
    OBVIOUS
  <1>1. CASE ClickRefresh
    BY <1>1, ClickRefreshInv
  <1>2. CASE \E s \in Loads : ServeLoad(s) \/ LoadAnswer(s) \/ LoadFails(s)
    BY <1>2, ServeLoadInv, LoadAnswerInv, LoadFailsInv
  <1>3. CASE (\E j \in Jobs, edit \in BOOLEAN : OpenJob(j, edit)) \/ CloseSheet
    BY <1>3, OpenCloseInv
  <1>4. CASE \E j \in Jobs : SelectRow(j)
    BY <1>4, SelectRowInv
  <1>5. CASE Navigate
    BY <1>5, NavigateInv
  <1>6. CASE TickDrop \/ StartEdit
    BY <1>6, TickDropInv, StartEditInv
  <1>7. CASE EditField \/ TickDangerous \/ CancelEdit
    BY <1>7, EditFieldInv, TickDangerousInv, CancelEditInv
  <1>8. CASE \E c \in Calls : RunNow(c) \/ RunAnswer(c) \/ RunFails(c)
    BY <1>8, RunNowInv, RunEndsInv
  <1>9. CASE \E c \in Calls : SubmitEdit(c) \/ ServeSave(c) \/ SaveFails(c) \/ SaveAnswer(c)
    BY <1>9, SubmitEditInv, ServeSaveInv, SaveFailsInv, SaveAnswerInv
  <1>10. CASE OtherSave
    BY <1>10, OtherSaveInv
  <1>11. CASE UNCHANGED vars
    BY <1>11, StutterInv
  <1> QED BY <1>1, <1>2, <1>3, <1>4, <1>5, <1>6, <1>7, <1>8, <1>9, <1>10, <1>11 DEF Next

-----------------------------------------------------------------------------
(***************************************************************************)
(* The theorems.                                                           *)
(***************************************************************************)
\* The inductive invariant holds in every reachable state.
THEOREM UiInvariant == Spec => []UiInv
<1>1. QED
  BY InitInv, StepInv, PTL DEF Spec

\* The state of the pages stays well formed.
THEOREM UiTypeCorrect == Spec => []TypeOK
<1>1. UiInv => TypeOK
  BY DEF UiInv
<1>2. QED
  BY <1>1, UiInvariant, PTL

\* Whatever row comes under a form, of another job or of another time, no field the
\* user left alone shows what the row before had.
THEOREM FormFollowsRow == Spec => []UntouchedShowsBase
<1>1. UiInv => UntouchedShowsBase
  BY DEF UiInv
<1>2. QED
  BY <1>1, UiInvariant, PTL

\* On the jobs page the panel shows the row of the list, in whatever order the
\* answers come, and the form edits the row of its panel.
THEOREM PanelFollowsList == Spec => []PanelShowsListedRow
<1>1. UiInv => PanelShowsListedRow
  BY DEF UiInv
<1>2. QED
  BY <1>1, UiInvariant, PTL

\* On the jobs page no DROP is confirmed by a tick for another job.
THEOREM TicksAreForTheirJob == Spec => []DropTickedForThisJob
<1>1. UiInv => DropTickedForThisJob
  BY DEF UiInv, TicksAreOwn
<1>2. QED
  BY <1>1, UiInvariant, PTL

LEMMA UiInvShows == UiInv => OwnSaveShown
<1> SUFFICES ASSUME UiInv, \A s \in Loads : loads[s] = Free, ~error, NEW j \in Jobs
             PROVE  owed[j] = 0
  BY DEF OwnSaveShown
<1>1. \A s \in Loads : loads[s].stage = "free"
  BY DEF Free
<1> QED BY <1>1 DEF UiInv, OwedIsComing, WillShow

\* When the jobs page has settled without an error, its list has every save it was
\* told of.
THEOREM OwnSavesAreShown == Spec => []OwnSaveShown
  BY UiInvShows, UiInvariant, PTL

\* A disabled button has a call out that will enable it.
THEOREM ButtonsComeBack == Spec => []BusyMeansInFlight
<1>1. UiInv => BusyMeansInFlight
  BY DEF UiInv
<1>2. QED
  BY <1>1, UiInvariant, PTL

\* The call whose save is written is the one that the step answers.
LEMMA OnlyServeSaves ==
    ASSUME UiInv, Next, NEW c \in Calls, SaveStep(c)
    PROVE  ServeSave(c)
  <1> USE DEF UiInv
  <1>1. /\ calls[c] # Free /\ calls[c].kind = "save" /\ calls[c].stage = "sent"
        /\ calls'[c] # calls[c] /\ table' # table
    BY DEF SaveStep
  <1>2. ASSUME NEW d \in Calls, ServeSave(d), d # c
        PROVE  FALSE
    <2>1. calls'[c] = calls[c]
      BY <1>2 DEF ServeSave, TypeOK
    <2> QED BY <2>1, <1>1
  <1>3. ~OtherSave
    BY <1>1 DEF OtherSave
  <1>4. /\ ~ClickRefresh /\ ~Navigate /\ ~TickDrop /\ ~StartEdit /\ ~EditField
        /\ ~TickDangerous /\ ~CancelEdit /\ ~CloseSheet
        /\ \A s \in Loads : ~ServeLoad(s) /\ ~LoadAnswer(s) /\ ~LoadFails(s)
        /\ \A j \in Jobs : ~SelectRow(j) /\ \A edit \in BOOLEAN : ~OpenJob(j, edit)
    BY <1>1 DEF ClickRefresh, Navigate, TickDrop, StartEdit, EditField, TickDangerous,
                CancelEdit, CloseSheet, ServeLoad, LoadAnswer, LoadFails, SelectRow, OpenJob
  <1>5. \A d \in Calls : /\ ~RunNow(d) /\ ~RunAnswer(d) /\ ~RunFails(d)
                         /\ ~SubmitEdit(d) /\ ~SaveFails(d) /\ ~SaveAnswer(d)
    BY <1>1 DEF RunNow, RunAnswer, RunFails, EndRun, SubmitEdit, SaveFails, SaveAnswer
  <1>6. \E d \in Calls : ServeSave(d)
    BY <1>3, <1>4, <1>5 DEF Next
  <1> QED BY <1>2, <1>6

\* The save of c writes what the user confirmed and, if it comes first, what he touched.
SavedAsEdited(c) ==
    LET s == calls[c]
        old == table[s.job]
        new == table'[s.job].config
    IN /\ new["op"] # old.config["op"] => s.confirm
       /\ old.version = s.version =>
            \A f \in Fields \ ({"keep"} \cup s.touched) : new[f] = old.config[f]

LEMMA SaveWritesAsEdited ==
    ASSUME UiInv, Next, NEW c \in Calls, SaveStep(c)
    PROVE  SavedAsEdited(c)
<1>1. ServeSave(c)
  BY OnlyServeSaves
<1> DEFINE s == calls[c]
<1>2. /\ s # Free /\ s.kind = "save" /\ s.stage = "sent"
      /\ s.values["op"] # table[s.job].config["op"] => s.confirm
      /\ Write(s.job, s.values)
  BY <1>1 DEF ServeSave
<1>3. s.job \in Jobs /\ s.values \in Configs
  <2>1. s \in SaveCalls
    BY <1>2, CallType DEF UiInv
  <2> QED BY <2>1 DEF SaveCalls
<1>4. table'[s.job].config = s.values
  BY <1>2, <1>3, WriteFacts DEF UiInv
<1>5. s.version = table[s.job].version =>
        \A f \in Fields \ ({"keep"} \cup s.touched) : s.values[f] = table[s.job].config[f]
  BY <1>2 DEF UiInv, SavesFit
<1> QED BY <1>2, <1>4, <1>5 DEF SavedAsEdited

\* A save writes what the user confirmed and, if it comes first, what he touched and
\* no more, the interval excepted.
THEOREM SavesAreAsEdited == Spec => SavedOnlyAsEdited
<1>1. UiInv /\ [Next]_vars => [\A c \in Calls : SaveStep(c) => SavedAsEdited(c)]_vars
  BY SaveWritesAsEdited
<1>2. Spec => [][\A c \in Calls : SaveStep(c) => SavedAsEdited(c)]_vars
  BY <1>1, UiInvariant, PTL DEF Spec
<1>3. QED
  BY <1>2 DEF SavedOnlyAsEdited, SavedAsEdited

-----------------------------------------------------------------------------
(***************************************************************************)
(* The pages that create a job.                                            *)
(***************************************************************************)
\* What a form was filled from has no calculated time of its own, and a form that is
\* there has its values.
CreateInv ==
    /\ initial \in FromDetails
    /\ values \in FormValues
    /\ timer \in Closures \cup {Nothing}
    /\ asked \in [Slots -> Closures \cup {Nothing}]
    /\ NextRunOfSchedule

-----------------------------------------------------------------------------
LEMMA ValuesType ==
    ASSUME NEW v \in FormValues
    PROVE  /\ v.schedule \in Schedules /\ v.auto \in BOOLEAN /\ v.next \in NextRuns
           /\ \A s \in Schedules : /\ [v EXCEPT !.schedule = s] \in FormValues
                                   /\ [v EXCEPT !.schedule = s].auto = v.auto
                                   /\ [v EXCEPT !.schedule = s].schedule = s
           /\ /\ [v EXCEPT !.auto = ~@] \in FormValues
              /\ [v EXCEPT !.auto = ~@].auto = ~v.auto
           /\ \A n \in NextRuns : /\ [v EXCEPT !.next = n] \in FormValues
                                  /\ [v EXCEPT !.next = n].next = n
                                  /\ [v EXCEPT !.next = n].schedule = v.schedule
                                  /\ [v EXCEPT !.next = n].auto = v.auto
  BY DEF FormValues

LEMMA ClosureType ==
    ASSUME NEW v \in FormValues
    PROVE  /\ Closure(v) \in Closures
           /\ Closure(v).schedule = v.schedule /\ Closure(v).auto = v.auto
           /\ Closure(v) # Nothing
  <1>1. Closure(v) \in Closures /\ Closure(v).schedule = v.schedule /\ Closure(v).auto = v.auto
    BY DEF Closure, Closures, FormValues
  <1>2. DOMAIN Closure(v) # DOMAIN Nothing
    BY DEF Closure, Nothing
  <1> QED BY <1>1, <1>2

LEMMA NewValuesType == NewValues \in FromDetails /\ NewValues \in FormValues
  <1>1. NewValues \in FormValues
    BY SchedulesAssumption DEF NewValues, FormValues, NextRuns
  <1>2. NewValues.auto = TRUE /\ NewValues.next = ""
    BY DEF NewValues
  <1> QED BY <1>1, <1>2 DEF FromDetails

\* A form filled from details waits for its preview, or shows one for a schedule whose
\* time it does not have yet.
LEMMA SetValuesFacts ==
    ASSUME CreateInv, NEW v \in FromDetails, SetValues(v), UNCHANGED <<preview, asked, mounted>>
    PROVE  /\ values' \in FormValues /\ timer' \in Closures \cup {Nothing}
           /\ NextRunOfSchedule'
  <1>1. values' = v /\ v \in FormValues /\ (v.auto => v.next = "")
    BY DEF SetValues, FromDetails
  <1>2. NextRunOfSchedule'
    BY <1>1 DEF NextRunOfSchedule
  <1>3. timer' \in Closures \cup {Nothing}
    BY <1>1, ClosureType DEF SetValues, Effect, CreateInv
  <1> QED BY <1>1, <1>2, <1>3

LEMMA MountFacts ==
    ASSUME NEW v \in FormValues, MountForm(v)
    PROVE  /\ values' \in FormValues
           /\ timer' \in Closures \cup {Nothing}
           /\ asked' \in [Slots -> Closures \cup {Nothing}]
           /\ NextRunOfSchedule'
  <1>1. timer' # Nothing /\ timer' \in Closures
    BY ClosureType DEF MountForm
  <1> QED BY <1>1 DEF MountForm, NextRunOfSchedule

LEMMA UnmountFacts ==
    ASSUME UnmountForm
    PROVE  /\ values' \in FormValues
           /\ timer' \in Closures \cup {Nothing}
           /\ asked' \in [Slots -> Closures \cup {Nothing}]
           /\ NextRunOfSchedule'
  BY NewValuesType DEF UnmountForm, NextRunOfSchedule

-----------------------------------------------------------------------------
LEMMA FirstFormInv == FirstForm => CreateInv
  <1> SUFFICES ASSUME FirstForm PROVE CreateInv
    OBVIOUS
  <1>1. preview = Nothing /\ values = NewValues /\ initial = NewValues
        /\ asked = [p \in Slots |-> Nothing]
        /\ timer \in {Closure(NewValues), Nothing}
    BY DEF FirstForm
  <1>2. preview # Closure(values) /\ timer \in Closures \cup {Nothing}
    BY <1>1, NewValuesType, ClosureType
  <1> QED BY <1>1, <1>2, NewValuesType DEF CreateInv, NextRunOfSchedule

\* The fields.
LEMMA FieldInv ==
    ASSUME CreateInv, ChangeSchedule \/ ToggleAuto \/ TypeNextRun \/ Reset
    PROVE  CreateInv'
  <1> USE DEF CreateInv
  <1>1. UNCHANGED <<mounted, initial, preview, asked>>
    BY DEF ChangeSchedule, ToggleAuto, TypeNextRun, Reset
  <1>2. CASE ChangeSchedule
    <2>1. PICK s \in Schedules \ {values.schedule} :
             SetValues([values EXCEPT !.schedule = s])
      BY <1>2 DEF ChangeSchedule
    <2>2. values' \in FormValues /\ values'.schedule # values.schedule
      BY <2>1, ValuesType DEF SetValues
    <2>3. Closure(values') # Closure(values) /\ Closure(values') # Nothing
          /\ Closure(values') \in Closures
      BY <2>2, ClosureType
    <2>4. timer' = Closure(values')
      BY <2>1, <2>3 DEF SetValues, Effect
    <2> QED BY <1>1, <2>2, <2>3, <2>4 DEF NextRunOfSchedule
  <1>3. CASE ToggleAuto
    <2>1. values' \in FormValues /\ values'.auto # values.auto
          /\ SetValues([values EXCEPT !.auto = ~@])
      BY <1>3, ValuesType DEF ToggleAuto, SetValues
    <2>2. Closure(values') # Closure(values) /\ Closure(values') # Nothing
          /\ Closure(values') \in Closures
      BY <2>1, ClosureType
    <2>3. timer' = Closure(values')
      BY <2>1, <2>2 DEF SetValues, Effect
    <2> QED BY <1>1, <2>1, <2>2, <2>3 DEF NextRunOfSchedule
  <1>4. CASE TypeNextRun
    <2>1. PICK n \in {"", "typed"} : values' = [values EXCEPT !.next = n]
      BY <1>4 DEF TypeNextRun
    <2>2. n \in NextRuns
      BY DEF NextRuns
    <2>3. values' \in FormValues /\ values'.auto = values.auto /\ ~values.auto
          /\ timer' = timer
      BY <1>4, <2>1, <2>2, ValuesType, ZenonT(30) DEF TypeNextRun
    <2> QED BY <1>1, <2>3 DEF NextRunOfSchedule
  <1>5. CASE Reset
    <2>1. SetValues(initial)
      BY <1>5 DEF Reset
    <2> QED BY <1>1, <2>1, SetValuesFacts
  <1> QED BY <1>2, <1>3, <1>4, <1>5

\* The preview.
LEMMA PreviewInv ==
    ASSUME CreateInv, NEW p \in Slots, TimerFires(p) \/ PreviewAnswer(p) \/ PreviewFails(p)
    PROVE  CreateInv'
  <1> USE DEF CreateInv
  <1>1. CASE TimerFires(p)
    <2>1. timer # Nothing /\ asked' = [asked EXCEPT ![p] = timer]
          /\ timer' = Nothing /\ UNCHANGED <<mounted, values, initial, preview>>
      BY <1>1 DEF TimerFires
    <2>2. asked'[p] # Nothing
      BY <2>1
    <2> QED BY <2>1, <2>2 DEF NextRunOfSchedule
  <1>2. CASE PreviewAnswer(p)
    <2>1. /\ asked[p] # Nothing /\ preview' = asked[p]
          /\ values' = IF asked[p].auto /\ asked[p].schedule \in Runnable
                       THEN [values EXCEPT !.next = asked[p].schedule] ELSE values
          /\ asked' = [asked EXCEPT ![p] = Nothing]
          /\ UNCHANGED <<mounted, initial, timer>>
      BY <1>2 DEF PreviewAnswer
    <2>2. CASE asked[p].auto /\ asked[p].schedule \in Runnable
      <3> DEFINE n == asked[p].schedule
      <3>1. n \in NextRuns
        BY <2>2 DEF NextRuns
      <3>4. values' = [values EXCEPT !.next = n]
        BY <2>1, <2>2
      <3> HIDE DEF n
      <3>2. /\ values' \in FormValues /\ values'.next = n
            /\ values'.schedule = values.schedule /\ values'.auto = values.auto
        BY <3>1, <3>4, ValuesType, ZenonT(30)
      <3>3. preview' = Closure(values') => values'.next = values'.schedule
        BY <2>1, <3>2, ClosureType DEF n
      <3> QED BY <2>1, <3>2, <3>3 DEF NextRunOfSchedule
    <2>3. CASE ~(asked[p].auto /\ asked[p].schedule \in Runnable)
      <3>1. values' = values
        BY <2>1, <2>3
      <3>2. preview' = Closure(values') /\ values'.auto => values'.schedule \notin Runnable
        BY <2>1, <2>3, <3>1, ClosureType
      <3> QED BY <2>1, <3>1, <3>2 DEF NextRunOfSchedule
    <2> QED BY <2>2, <2>3
  <1>3. CASE PreviewFails(p)
    <2>1. /\ preview' = Nothing /\ asked' = [asked EXCEPT ![p] = Nothing]
          /\ UNCHANGED <<mounted, values, initial, timer>>
      BY <1>3 DEF PreviewFails
    <2>2. Closure(values') # Nothing
      BY <2>1, ClosureType
    <2> QED BY <2>1, <2>2 DEF NextRunOfSchedule
  <1> QED BY <1>1, <1>2, <1>3

\* The wizard.
LEMMA WizardInv ==
    ASSUME CreateInv,
           \/ \E l \in Lookups : DetailsAnswer(l) \/ DetailsFail(l)
           \/ OrphanAnswer
    PROVE  CreateInv'
  <1> USE DEF CreateInv
  <1>1. ASSUME NEW l \in Lookups, DetailsAnswer(l)
        PROVE  CreateInv'
    <2>1. PICK v \in Detected :
            /\ initial' = v
            /\ \/ SetValues(v) /\ UNCHANGED <<mounted, preview, asked>>
               \/ MountForm(v)
               \/ UnmountForm
      BY <1>1 DEF DetailsAnswer
    <2>2. v \in FromDetails /\ v \in FormValues
      BY DetectedAssumption DEF FromDetails
    <2>3. CASE SetValues(v) /\ UNCHANGED <<mounted, preview, asked>>
      BY <2>1, <2>2, <2>3, SetValuesFacts
    <2>4. CASE MountForm(v)
      BY <2>1, <2>2, <2>4, MountFacts
    <2>5. CASE UnmountForm
      BY <2>1, <2>2, <2>5, UnmountFacts
    <2> QED BY <2>1, <2>3, <2>4, <2>5
  <1>2. ASSUME NEW l \in Lookups, DetailsFail(l)
        PROVE  CreateInv'
    BY <1>2, UnmountFacts DEF DetailsFail
  <1>3. CASE OrphanAnswer
    <2>1. initial \in FormValues
      BY DEF FromDetails
    <2>2. CASE MountForm(initial) /\ UNCHANGED initial
      BY <2>1, <2>2, MountFacts
    <2>3. CASE UNCHANGED formVars
      BY <2>3 DEF formVars, NextRunOfSchedule
    <2> QED BY <1>3, <2>2, <2>3 DEF OrphanAnswer
  <1> QED BY <1>1, <1>2, <1>3

\* The steps that leave the fields and the preview alone.
LEMMA OtherInv ==
    ASSUME CreateInv, UNCHANGED <<mounted, values, initial, preview, timer, asked>>
    PROVE  CreateInv'
  BY DEF CreateInv, NextRunOfSchedule

LEMMA CreateStepInv == CreateInv /\ [CreateNext]_createVars => CreateInv'
  <1> SUFFICES ASSUME CreateInv, [CreateNext]_createVars PROVE CreateInv'
    OBVIOUS
  <1>1. CASE ChangeSchedule \/ ToggleAuto \/ TypeNextRun \/ Reset
    BY <1>1, FieldInv
  <1>2. CASE \E p \in Slots : TimerFires(p) \/ PreviewAnswer(p) \/ PreviewFails(p)
    BY <1>2, PreviewInv
  <1>3. CASE (\E l \in Lookups : DetailsAnswer(l) \/ DetailsFail(l)) \/ OrphanAnswer
    BY <1>3, WizardInv
  <1>4. CASE \/ SubmitCreate \/ CreateAnswer \/ CreateFails \/ EditInput \/ ClickLoad
             \/ (\E j \in PgJobs : ClickRow(j)) \/ (\E k \in Steps : ChooseStep(k))
    BY <1>4, OtherInv DEF SubmitCreate, CreateAnswer, CreateFails, EditInput, ClickLoad,
                          ClickRow, ChooseStep, LoadDetails, formVars
  <1>5. CASE UNCHANGED createVars
    BY <1>5, OtherInv DEF createVars, formVars
  <1> QED BY <1>1, <1>2, <1>3, <1>4, <1>5 DEF CreateNext

-----------------------------------------------------------------------------
\* However the schedule, the check box, resets, new details and late answers follow one
\* another, a calculated next run time is that of the schedule the form shows.
THEOREM NextRunFollowsSchedule == CreateSpec => []NextRunOfSchedule
<1>1. CreateInv => NextRunOfSchedule
  BY DEF CreateInv
<1>2. QED
  BY <1>1, FirstFormInv, CreateStepInv, PTL DEF CreateSpec, CreateInit
-----------------------------------------------------------------------------
(***************************************************************************)
(* The types of the pages that create a job.  The form is there when its   *)
(* page or the wizard's step shows it; a POST that outlived its form was   *)
(* of a form filled from details, which are shown for good.                *)
(***************************************************************************)
CreateTypeInv ==
    /\ CreateTypeOK
    /\ page = "new" => /\ wizard = NewWizard
                       /\ lookups = [l \in Lookups |-> NoDetails]
                       /\ orphan = FALSE
    /\ orphan = TRUE => wizard.shown # NoDetails

LEMMA DetailsType == \A d \in Details : d # NoDetails
  <1> TAKE d \in Details
  <1>1. DOMAIN d # DOMAIN NoDetails
    BY DEF Details, NoDetails
  <1> QED BY <1>1

LEMMA NewWizardType == NewWizard \in Wizards /\ ~NewWizard.choices /\ ~Reviewing(NewWizard)
  <1>1. (CHOOSE job \in PgJobs : TRUE) \in PgJobs
    BY PgJobsAssumption
  <1> QED BY <1>1 DEF NewWizard, Wizards, Reviewing

LEMMA CreateTypeInit == page \in CreatePageNames /\ FirstForm => CreateTypeInv
  <1> SUFFICES ASSUME page \in CreatePageNames, FirstForm PROVE CreateTypeInv
    OBVIOUS
  <1>1. values \in FormValues /\ initial \in FormValues /\ Closure(NewValues) \in Closures
    BY NewValuesType, ClosureType DEF FirstForm
  <1>2. lookups \in [Lookups -> Details \cup {NoDetails}] /\ asked \in [Slots -> Closures \cup {Nothing}]
    BY DEF FirstForm
  <1>3. mounted \in BOOLEAN /\ busy = FALSE /\ orphan = FALSE /\ wizard = NewWizard
    BY DEF FirstForm
  <1>4. mounted <=> page = "new" \/ Reviewing(wizard)
    BY NewWizardType DEF FirstForm
  <1>5. timer \in Closures \cup {Nothing} /\ (~mounted => timer = Nothing)
    BY <1>1 DEF FirstForm
  <1> QED BY <1>1, <1>2, <1>3, <1>4, <1>5, NewWizardType DEF FirstForm, CreateTypeInv, CreateTypeOK

\* Steps of the form alone.
LEMMA FormKeepsType ==
    ASSUME CreateTypeInv, CreateInv', UNCHANGED <<mounted, pageVars>>,
           preview' \in Closures \cup {Nothing}, busy' \in BOOLEAN,
           ~mounted => busy' = busy /\ timer' = timer
    PROVE  CreateTypeInv'
  <1>1. values' \in FormValues /\ initial' \in FormValues
    BY DEF CreateInv, FromDetails
  <1> QED BY <1>1 DEF CreateTypeInv, CreateTypeOK, CreateInv, pageVars, Reviewing, NewWizard

LEMMA FormTypes ==
    ASSUME CreateTypeInv, CreateInv',
           \/ ChangeSchedule \/ ToggleAuto \/ TypeNextRun \/ Reset \/ SubmitCreate \/ CreateFails
           \/ \E p \in Slots : TimerFires(p) \/ PreviewAnswer(p) \/ PreviewFails(p)
    PROVE  CreateTypeInv'
  <1>1. CASE ChangeSchedule \/ ToggleAuto \/ TypeNextRun \/ Reset \/ SubmitCreate
    <2>1. mounted /\ UNCHANGED <<mounted, pageVars, preview>>
      BY <1>1 DEF ChangeSchedule, ToggleAuto, TypeNextRun, Reset, SubmitCreate
    <2>2. busy' \in BOOLEAN
      BY <1>1 DEF ChangeSchedule, ToggleAuto, TypeNextRun, Reset, SubmitCreate, CreateTypeInv,
                  CreateTypeOK
    <2> QED BY <2>1, <2>2, FormKeepsType DEF CreateTypeInv, CreateTypeOK
  <1>2. CASE CreateFails
    BY <1>2, FormKeepsType DEF CreateFails, CreateTypeInv, CreateTypeOK
  <1>3. ASSUME NEW p \in Slots, TimerFires(p) \/ PreviewAnswer(p) \/ PreviewFails(p)
        PROVE  CreateTypeInv'
    <2>1. UNCHANGED <<mounted, busy, pageVars>>
      BY <1>3 DEF TimerFires, PreviewAnswer, PreviewFails
    <2>2. preview' \in Closures \cup {Nothing}
      BY <1>3 DEF TimerFires, PreviewAnswer, PreviewFails, CreateTypeInv, CreateTypeOK
    <2>3. ~mounted => timer' = timer
      BY <1>3 DEF TimerFires, PreviewAnswer, PreviewFails, CreateTypeInv, CreateTypeOK
    <2> QED BY <2>1, <2>2, <2>3, FormKeepsType DEF CreateTypeInv, CreateTypeOK
  <1> QED BY <1>1, <1>2, <1>3

\* Calls of the wizard.
LEMMA LookupsType ==
    ASSUME CreateTypeInv, NEW l \in Lookups, NEW d \in Details \cup {NoDetails}
    PROVE  [lookups EXCEPT ![l] = d] \in [Lookups -> Details \cup {NoDetails}]
  BY DEF CreateTypeInv, CreateTypeOK

LEMMA WizardKeepsType ==
    ASSUME CreateTypeInv, UNCHANGED <<page, formVars, orphan>>, page # "new",
           wizard' \in Wizards, wizard'.shown = wizard.shown,
           Reviewing(wizard') <=> Reviewing(wizard),
           lookups' \in [Lookups -> Details \cup {NoDetails}]
    PROVE  CreateTypeInv'
  BY DEF CreateTypeInv, CreateTypeOK, formVars

LEMMA LoadType ==
    ASSUME CreateTypeInv, page # "new", NEW input \in PgJobs, NEW step \in Steps \cup {"none"},
           LoadDetails(input, step)
    PROVE  CreateTypeInv'
  <1>1. wizard \in Wizards
    BY DEF CreateTypeInv, CreateTypeOK
  <1>2. PICK l \in Lookups : lookups' = [lookups EXCEPT ![l] = [job |-> wizard.input, step |-> step]]
    BY DEF LoadDetails
  <1>3. [job |-> wizard.input, step |-> step] \in Details
    BY <1>1 DEF Wizards, Details
  <1>4. lookups' \in [Lookups -> Details \cup {NoDetails}]
    BY <1>2, <1>3, LookupsType
  <1>5. wizard' = [wizard EXCEPT !.input = input, !.busy = TRUE]
    BY DEF LoadDetails
  <1>6. wizard' = [input |-> input, shown |-> wizard.shown, choices |-> wizard.choices,
                   step |-> wizard.step, busy |-> TRUE]
    BY <1>1, <1>5 DEF Wizards
  <1>7. /\ wizard' \in Wizards /\ wizard'.shown = wizard.shown
        /\ Reviewing(wizard') <=> Reviewing(wizard)
    BY <1>1, <1>6 DEF Wizards, Reviewing
  <1> QED BY <1>4, <1>7, WizardKeepsType DEF LoadDetails

LEMMA WizardType ==
    ASSUME CreateTypeInv,
           \/ EditInput \/ ClickLoad
           \/ (\E j \in PgJobs : ClickRow(j)) \/ (\E k \in Steps : ChooseStep(k))
    PROVE  CreateTypeInv'
  <1>1. wizard \in Wizards /\ wizard.input \in PgJobs
    BY DEF CreateTypeInv, CreateTypeOK, Wizards
  <1>2. CASE EditInput
    <2>1. PICK j \in PgJobs : wizard' = [wizard EXCEPT !.input = j]
      BY <1>2 DEF EditInput
    <2>2. /\ wizard' \in Wizards /\ wizard'.shown = wizard.shown
          /\ Reviewing(wizard') <=> Reviewing(wizard)
      BY <1>1, <2>1 DEF Wizards, Reviewing
    <2>3. page # "new" /\ UNCHANGED <<page, formVars, orphan>> /\ lookups' = lookups
      BY <1>2 DEF EditInput
    <2> QED BY <2>2, <2>3, WizardKeepsType DEF CreateTypeInv, CreateTypeOK
  <1>3. CASE ClickLoad
    BY <1>1, <1>3, LoadType DEF ClickLoad
  <1>4. ASSUME NEW j \in PgJobs, ClickRow(j)
        PROVE  CreateTypeInv'
    BY <1>4, LoadType DEF ClickRow
  <1>5. ASSUME NEW k \in Steps, ChooseStep(k)
        PROVE  CreateTypeInv'
    <2>1. page # "new"
      BY <1>5, NewWizardType DEF ChooseStep, CreateTypeInv
    <2> QED BY <1>1, <1>5, <2>1, LoadType DEF ChooseStep
  <1> QED BY <1>2, <1>3, <1>4, <1>5

\* A form comes, is filled again or goes.
LEMMA FormMoves ==
    ASSUME CreateTypeInv, CreateInv', page \in CreatePageNames, page # "new", UNCHANGED page,
           wizard' \in Wizards, lookups' \in [Lookups -> Details \cup {NoDetails}],
           orphan' \in BOOLEAN, orphan' = TRUE => wizard'.shown # NoDetails,
           \/ mounted' = FALSE /\ busy' = FALSE /\ preview' = Nothing /\ timer' = Nothing
           \/ mounted' = TRUE /\ busy' \in BOOLEAN /\ preview' \in Closures \cup {Nothing},
           mounted' = TRUE <=> Reviewing(wizard')
    PROVE  CreateTypeInv'
  <1>1. values' \in FormValues /\ initial' \in FormValues
    BY DEF CreateInv, FromDetails
  <1> QED BY <1>1 DEF CreateTypeInv, CreateTypeOK, CreateInv

LEMMA AnswerType ==
    ASSUME CreateTypeInv, CreateInv',
           \/ \E l \in Lookups : DetailsAnswer(l) \/ DetailsFail(l)
           \/ OrphanAnswer
           \/ CreateAnswer
    PROVE  CreateTypeInv'
  <1> USE DEF CreateTypeInv, CreateTypeOK
  <1>1. wizard \in Wizards
    OBVIOUS
  <1>2. ASSUME NEW l \in Lookups, DetailsAnswer(l)
        PROVE  CreateTypeInv'
    <2>1. page # "new" /\ UNCHANGED page /\ lookups[l] \in Details
      BY <1>2 DEF DetailsAnswer
    <2>2. lookups' \in [Lookups -> Details \cup {NoDetails}]
      BY <1>2, LookupsType DEF DetailsAnswer
    <2>3. PICK v \in Detected, choices \in BOOLEAN :
            /\ wizard' = [wizard EXCEPT !.shown = lookups[l], !.choices = choices, !.busy = FALSE,
                             !.step = IF choices /\ lookups[l].step = "none" THEN 2 ELSE 3]
            /\ \/ /\ Reviewing(wizard') /\ mounted
                  /\ UNCHANGED <<mounted, preview, asked, busy, orphan>>
               \/ /\ IF Reviewing(wizard') THEN MountForm(v) ELSE UnmountForm
                  /\ Abandon
      BY <1>2 DEF DetailsAnswer
    <2>4. PICK step \in 1 .. 4 : wizard' = [input |-> wizard.input, shown |-> lookups[l],
                                            choices |-> choices, step |-> step, busy |-> FALSE]
      <3> DEFINE s == IF choices /\ lookups[l].step = "none" THEN 2 ELSE 3
      <3>1. s \in 1 .. 4
        OBVIOUS
      <3>2. wizard' = [wizard EXCEPT !.shown = lookups[l], !.choices = choices, !.busy = FALSE,
                                     !.step = s]
        BY <2>3
      <3> HIDE DEF s
      <3> QED BY <1>1, <3>1, <3>2 DEF Wizards
    <2>5. wizard' \in Wizards /\ wizard'.shown # NoDetails
      BY <1>1, <2>1, <2>4, DetailsType DEF Wizards
    <2>6. CASE Reviewing(wizard') /\ mounted /\ UNCHANGED <<mounted, preview, asked, busy, orphan>>
      BY <2>1, <2>2, <2>5, <2>6, FormMoves
    <2>7. CASE Abandon /\ IF Reviewing(wizard') THEN MountForm(v) ELSE UnmountForm
      BY <2>1, <2>2, <2>5, <2>7, FormMoves DEF Abandon, MountForm, UnmountForm, Reviewing
    <2> QED BY <2>3, <2>6, <2>7
  <1>3. ASSUME NEW l \in Lookups, DetailsFail(l)
        PROVE  CreateTypeInv'
    <2>1. page # "new" /\ UNCHANGED page
      BY <1>3 DEF DetailsFail
    <2>2. lookups' \in [Lookups -> Details \cup {NoDetails}]
      BY <1>3, LookupsType DEF DetailsFail
    <2>3. wizard' = [wizard EXCEPT !.step = 2, !.busy = FALSE]
      BY <1>3 DEF DetailsFail
    <2>4. wizard' = [input |-> wizard.input, shown |-> wizard.shown, choices |-> wizard.choices,
                     step |-> 2, busy |-> FALSE]
      BY <1>1, <2>3 DEF Wizards
    <2>5. wizard' \in Wizards /\ wizard'.shown = wizard.shown /\ ~Reviewing(wizard')
      BY <1>1, <2>4 DEF Wizards, Reviewing
    <2>6. busy = TRUE => wizard.shown # NoDetails
      BY <2>1 DEF Reviewing
    <2>7. UnmountForm /\ Abandon
      BY <1>3 DEF DetailsFail
    <2>8. /\ mounted' = FALSE /\ busy' = FALSE /\ preview' = Nothing /\ timer' = Nothing
          /\ orphan' = (orphan \/ busy)
      BY <2>7 DEF UnmountForm, Abandon
    <2>9. orphan' \in BOOLEAN /\ (orphan' = TRUE => wizard'.shown # NoDetails)
      BY <2>5, <2>6, <2>8
    <2> QED BY <2>1, <2>2, <2>5, <2>8, <2>9, FormMoves
  <1>4. CASE OrphanAnswer
    <2>1. page # "new" /\ UNCHANGED <<page, lookups>> /\ wizard.shown # NoDetails /\ orphan' = FALSE
      BY <1>4 DEF OrphanAnswer
    <2>2. CASE UNCHANGED <<wizard, formVars>>
      BY <2>1, <2>2, FormMoves DEF formVars
    <2>3. CASE /\ wizard' = [wizard EXCEPT !.step = 4]
               /\ IF mounted THEN UNCHANGED formVars ELSE MountForm(initial)
      <3>1. wizard' \in Wizards /\ Reviewing(wizard')
        BY <1>1, <2>1, <2>3 DEF Wizards, Reviewing
      <3> QED BY <2>1, <2>3, <3>1, FormMoves DEF formVars, MountForm
    <2> QED BY <1>4, <2>2, <2>3 DEF OrphanAnswer
  <1>5. CASE CreateAnswer
    <2>1. mounted /\ UNCHANGED <<page, mounted, preview, timer, orphan, lookups>> /\ busy' = FALSE
      BY <1>5 DEF CreateAnswer
    <2>2. CASE page = "new"
      <3>1. wizard' = wizard
        BY <1>5, <2>2 DEF CreateAnswer
      <3> QED BY <2>1, <3>1, FormKeepsType DEF pageVars
    <2>3. CASE page # "new"
      <3>1. wizard' = [wizard EXCEPT !.step = 4] /\ Reviewing(wizard)
        BY <1>5, <2>1, <2>3 DEF CreateAnswer, CreatePageNames
      <3>2. wizard' \in Wizards /\ wizard'.shown = wizard.shown /\ Reviewing(wizard')
        BY <1>1, <3>1 DEF Wizards, Reviewing
      <3> QED BY <2>1, <2>3, <3>2, FormMoves
    <2> QED BY <2>2, <2>3
  <1> QED BY <1>2, <1>3, <1>4, <1>5

LEMMA CreateTypeStep ==
    ASSUME CreateTypeInv, CreateInv', CreateNext
    PROVE  CreateTypeInv'
  BY FormTypes, WizardType, AnswerType DEF CreateNext

-----------------------------------------------------------------------------
(***************************************************************************)
(* The pages together.  What belongs to the pages of the other kind stands *)
(* as at first.                                                            *)
(***************************************************************************)
PagesInv ==
    /\ page \in JobPages \cup CreatePageNames
    /\ CreateInv
    /\ page \in JobPages => UiInv
    /\ page \in CreatePageNames => FirstVisit /\ CreateTypeInv

uiVars == <<page, jobVars, formVars, orphan, wizard, lookups>>

LEMMA PagesInit == UiInit => PagesInv
  <1> SUFFICES ASSUME UiInit PROVE PagesInv
    OBVIOUS
  <1>1. CreateInv
    BY FirstFormInv DEF UiInit
  <1>2. page \in JobPages => UiInv
    BY InitInv DEF UiInit, Init
  <1>3. page \in CreatePageNames => FirstVisit /\ CreateTypeInv
    BY CreateTypeInit DEF UiInit
  <1> QED BY <1>1, <1>2, <1>3 DEF UiInit, PagesInv

LEMMA FirstVisitStays == FirstVisit /\ UNCHANGED jobVars => FirstVisit'
  BY DEF FirstVisit, jobVars, loadVars, shown, Free, NoList, NoRow, NoForm, NewPanel

LEMMA PagesStep == PagesInv /\ [UiNext]_uiVars => PagesInv'
  <1> SUFFICES ASSUME PagesInv, [UiNext]_uiVars PROVE PagesInv'
    OBVIOUS
  <1>1. CASE page \in JobPages /\ Next /\ UNCHANGED <<formVars, orphan, wizard, lookups>>
    <2>1. UiInv'
      BY <1>1, StepInv DEF PagesInv
    <2>2. page' \in JobPages
      BY <2>1 DEF UiInv, TypeOK
    <2>3. CreateInv'
      BY <1>1, OtherInv DEF PagesInv, formVars
    <2> QED BY <2>1, <2>2, <2>3 DEF PagesInv, JobPages, CreatePageNames
  <1>2. CASE page \in CreatePageNames /\ CreateNext /\ UNCHANGED jobVars
    <2>1. CreateInv'
      BY <1>2, CreateStepInv DEF PagesInv
    <2>2. CreateTypeInv'
      BY <1>2, <2>1, CreateTypeStep DEF PagesInv
    <2>3. page' \in CreatePageNames
      BY <2>2 DEF CreateTypeInv, CreateTypeOK
    <2>4. FirstVisit'
      BY <1>2, FirstVisitStays DEF PagesInv
    <2> QED BY <2>1, <2>2, <2>3, <2>4 DEF PagesInv, JobPages, CreatePageNames
  <1>3. CASE UNCHANGED uiVars
    <2>1. UNCHANGED vars /\ UNCHANGED jobVars /\ UNCHANGED createVars /\ UNCHANGED page
      BY <1>3 DEF uiVars, vars, jobVars, loadVars, shown, createVars, formVars, pageVars
    <2>2. CreateInv'
      BY <2>1, CreateStepInv DEF PagesInv
    <2>3. page \in JobPages => UiInv'
      BY <2>1, StepInv DEF PagesInv
    <2>4. page \in CreatePageNames => FirstVisit' /\ CreateTypeInv'
      <3>1. CreateTypeInv => CreateTypeInv'
        BY <2>1 DEF CreateTypeInv, CreateTypeOK, createVars, formVars, pageVars
      <3> QED BY <2>1, <3>1, FirstVisitStays DEF PagesInv
    <2> QED BY <2>1, <2>2, <2>3, <2>4 DEF PagesInv
  <1> QED BY <1>1, <1>2, <1>3 DEF UiNext

LEMMA PagesInvariant == UiSpec => []PagesInv
  BY PagesInit, PagesStep, PTL DEF UiSpec, uiVars

\* On every page the state stays well formed: a form is there exactly where its page, or the
\* step of the wizard, shows it, and a form that is gone has no timer and no POST of its own.
THEOREM PagesAreWellFormed == UiSpec => []UiTypeOK
  <1>1. PagesInv => UiTypeOK
    BY DEF PagesInv, UiTypeOK, UiInv, CreateTypeInv
  <1> QED BY <1>1, PagesInvariant, PTL

\* What JobsUi and CreatePages guarantee by themselves holds of the frontend: the form and
\* the panel follow the list, a DROP was ticked for its job, own saves are shown, buttons come
\* back, a calculated next run time is that of its schedule, and a save writes what was edited.
THEOREM FrontendIsSafe ==
    UiSpec => /\ []UntouchedShowsBase
              /\ []PanelShowsListedRow
              /\ []DropTickedForThisJob
              /\ []OwnSaveShown
              /\ []BusyMeansInFlight
              /\ []NextRunOfSchedule
              /\ SavedOnlyAsEdited
  <1>1. PagesInv => /\ UntouchedShowsBase /\ PanelShowsListedRow /\ DropTickedForThisJob
                    /\ OwnSaveShown /\ BusyMeansInFlight /\ NextRunOfSchedule
    <2> SUFFICES ASSUME PagesInv
                 PROVE  /\ UntouchedShowsBase /\ PanelShowsListedRow /\ DropTickedForThisJob
                        /\ OwnSaveShown /\ BusyMeansInFlight /\ NextRunOfSchedule
      OBVIOUS
    <2>1. CASE page \in JobPages
      BY <2>1, UiInvShows DEF PagesInv, CreateInv, UiInv, TicksAreOwn
    <2>2. CASE page \in CreatePageNames
      <3>1. /\ form = NoForm /\ selected = NoRow /\ (\A c \in Calls : calls[c] = Free)
            /\ (\A j \in Jobs : owed[j] = 0) /\ (\E s \in Loads : loads[s] = [stage |-> "sent"])
            /\ panel = NewPanel(FALSE)
        BY <2>2 DEF PagesInv, FirstVisit
      <3>2. [stage |-> "sent"] # Free /\ ~NoForm.busy /\ ~NewPanel(FALSE).busy
        BY DEF Free, NoForm, NewPanel
      <3> QED BY <3>1, <3>2 DEF PagesInv, CreateInv, UntouchedShowsBase, PanelShowsListedRow,
              DropTickedForThisJob, OwnSaveShown, BusyMeansInFlight
    <2> QED BY <2>1, <2>2 DEF PagesInv
  <1>2. PagesInv /\ [UiNext]_uiVars => [\A c \in Calls : SaveStep(c) => SavedAsEdited(c)]_vars
    <2> SUFFICES ASSUME PagesInv, UiNext, NEW c \in Calls, SaveStep(c)
                 PROVE  SavedAsEdited(c)
      BY DEF uiVars, vars, jobVars, loadVars, shown
    <2>1. Next /\ UiInv
      BY DEF UiNext, jobVars, SaveStep, PagesInv
    <2> QED BY <2>1, SaveWritesAsEdited
  <1>3. UiSpec => [][\A c \in Calls : SaveStep(c) => SavedAsEdited(c)]_vars
    BY <1>2, PagesInvariant, PTL DEF UiSpec, uiVars
  <1> QED BY <1>1, <1>3, PagesInvariant, PTL DEF SavedOnlyAsEdited, SavedAsEdited
=============================================================================
