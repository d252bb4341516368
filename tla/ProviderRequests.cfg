SPECIFICATION FairSpec
CONSTANTS
    song = song
    small = small
    large = large
    Items <- MCItems
    ArtworkUrls <- MCArtworkUrls
    MaxTimerDelay = 2500
    MaxLifetimeSeconds = 2
    Statuses = {200, 204, 304, 400, 401, 403, 408, 429, 500, 599}
    RetryAfters <- MCRetryAfters
    PollDocuments <- MCPollDocuments
    TokenDocuments <- MCTokenDocuments
INVARIANTS
    GuardedWhilePending
PROPERTIES
    ImplementsRequestPort
    EveryRequestEnds
