SPECIFICATION DispatchSpec
CONSTANTS
    j1 = j1
    j2 = j2
    Jobs = {j1, j2}
    MaxGen = 0
    Horizon = 1
    Reconcile = 1
    Slots = 1
    MaxEntries = 1
PROPERTIES
    DueIsHandled
