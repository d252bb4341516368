SPECIFICATION FairSpec
CONSTANT Processes = {process1, process2}
INVARIANTS
    HostHasItsEndpoint
PROPERTIES
    OnlyDeadSocketsRemoved
    EveryStopEnds
    OrphanExits
CHECK_DEADLOCK FALSE
