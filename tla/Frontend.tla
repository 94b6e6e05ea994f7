------------------------------ MODULE Frontend ------------------------------
(***************************************************************************)
(* The pages of the web frontend that change jobs, one of them mounted:    *)
(* those that show the jobs (JobsUi), among which the user moves, and      *)
(* those that create one (CreatePages).  Pages of the two kinds share no   *)
(* state but the database, and a page that creates jobs reads nothing of   *)
(* it that the others write: moving between the kinds is left out.         *)
(***************************************************************************)
EXTENDS JobsUi, CreatePages

jobVars == <<table, loadVars, shown, calls, owed>>

UiInit ==
    /\ page \in JobPages \cup CreatePageNames
    /\ FirstVisit
    /\ FirstForm

UiNext ==
    \/ page \in JobPages /\ Next /\ UNCHANGED <<formVars, orphan, wizard, lookups>>
    \/ page \in CreatePageNames /\ CreateNext /\ UNCHANGED jobVars

UiSpec == UiInit /\ [][UiNext]_<<page, jobVars, formVars, orphan, wizard, lookups>>

\* The state of each kind of page has its type on every page.
UiTypeOK ==
    /\ page \in JobPages => TypeOK
    /\ page \in CreatePageNames => CreateTypeOK
=============================================================================
