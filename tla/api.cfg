SPECIFICATION FairSpec
CONSTANTS
    Jobs = {j1}
    Targets = {a}
    Requests = {r1, r2}
    MaxVersion = 3
INVARIANTS
    AnnouncedIsPending
PROPERTIES
    UnconfirmedOnlyIfOvertaken
    SavedIsNoticed
