SPECIFICATION Spec
CONSTANTS
    song = song
    Items <- MCItems
    Commands <- AllCommands
    ClockReadings <- AllClockReadings
    SchedulerOutcomes = {TRUE, FALSE}
    MaxEpoch = 3
    LastRetry = 2
    MaxQueue = 2
INVARIANTS
    QuietWhenSuspended
    CredentialMatchesState
    FlightBelongsToFrame
PROPERTIES
    AbortedWritesNothing
    NoSilentReconnect
