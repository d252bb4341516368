SPECIFICATION FairSpec
CONSTANTS
    song = song
    Items <- MCItems
    Commands <- PageCommands
    ClockReadings = {"early", "due"}
    SchedulerOutcomes = {TRUE}
    MaxEpoch = 2
    LastRetry = 1
    MaxQueue = 1
INVARIANTS
    NotStranded
PROPERTIES
    OperationsEnd
    LogoutClearsStorage
    ShownPlaybackIsRefreshed
