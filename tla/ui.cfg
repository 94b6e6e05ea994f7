SPECIFICATION UiSpec
CONSTANTS
    Jobs = {j1, j2}
    Fields = {"op", "keep"}
    Loads = {l1, l2}
    Calls = {c1}
    MaxVersion = 2
    Schedules = {s1, s2}
    Valid = {s1}
    Runnable = {s1}
    Default = s1
    Previews <- PreviewSlots
    Detected <- DetectedForms
    s1 = s1
    s2 = s2
    PgJobs = {a, b}
    Steps = {k}
    Lookups = {d}
SYMMETRY Symmetry
INVARIANTS
    UiTypeOK
    
    PanelShowsListedRow
    DropTickedForThisJob
    OwnSaveShown
    BusyMeansInFlight
    

    
