SPECIFICATION Spec
CONSTANTS
    Fresh = 1
    Stale = 3
    RequestDeadline = 1
    RetryDelays <- MCRetryDelays
    PollHint = 1
    LongestDelay = 2
    CollectLag = 1
    Outcomes = {"playing", "paused", "no-source", "unsupported"}
    MaxTime = 8
    MaxChannel = 1
    MaxEvents = 1
INVARIANTS
    HonestFreshness
    KeepsUp
    ShownIsRecent
    HiddenIsQuiet
CHECK_DEADLOCK FALSE
