SPECIFICATION LiveSpec
CONSTANTS
    MaxSession = 2
    Count = 1
    Retries = 1
    MaxFaults = 1
    MaxBusy = 0
    Elements = {e1}
    MaxMessages = 1
    MaxSaves = 2
    MaxRequests = 1
    MaxLosses = 1
    Tabs = {t1, t2}
    Targets = {g1}
    MaxMoves = 1
    MaxSteers = 2
    Names = {"a", "b"}
    FileNames = {"index"}
    MaxScans = 1
INVARIANTS
    
    CompletionNotMissed
    FrozenOnlyWhileApplying
    OneSessionServes
    
    MessageNotLost
    

    
CHECK_DEADLOCK FALSE
