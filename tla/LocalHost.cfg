SPECIFICATION FairSpec
CONSTANTS
    Clients = {client1, client2}
    Calls = {call1, call2}
    MaxCalls = 1
    MaxControl = 2
INVARIANTS
    OneClientPaired
PROPERTIES
    ImplementsHostProcess
    StopsWhenAlone
CHECK_DEADLOCK FALSE
