SPECIFICATION FairSessionSpec
CONSTANTS
    Items <- NoItems
    Commands <- AllCommands
    ClockReadings = {"early"}
    SchedulerOutcomes = {TRUE}
    MaxEpoch = 2
    LastRetry = 0
    MaxQueue = 1
    UserCommands = {"begin-authorization"}
    MaxChannel = 3
    MaxEvents = 1
INVARIANTS
    VisibilityAgrees
    SnapshotAgrees
PROPERTIES
    HiddenPageFallsSilent
    DisplayDecides
CHECK_DEADLOCK FALSE
