SPECIFICATION ShutdownSpec
CONSTANTS
    j1 = j1
    j2 = j2
    Jobs = {j1}
    MaxGen = 2
    Horizon = 1
    Reconcile = 1
    Slots = 1
    MaxEntries = 2
INVARIANTS
    ActiveNotQueued
    KeysAreTasks
    NoResubmission
    BreakerHidesNothingOpen
    TimersNotEarly
    NoLostWakeup
PROPERTIES
    NoStartAfterShutdown
    ShutdownStops
