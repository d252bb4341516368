SPECIFICATION SessionSpec
CONSTANTS
    Items <- NoItems
    Commands <- AllCommands
    ClockReadings = {"early"}
    SchedulerOutcomes = {TRUE}
    MaxEpoch = 2
    LastRetry = 0
    MaxQueue = 1
    UserCommands = {}
    MaxChannel = 3
    MaxEvents = 1
INVARIANT CallbackIsConsumed
CHECK_DEADLOCK FALSE
