\* Nothing fails but the pool: two requests can hold it and wait for each other
\* while the third, which charged a key of its own, needs a connection.
CONSTANTS
    Requests = {1, 2, 3}
    Keys = {1, 2, 3}
    None = 0
    MaxCrashes = 0
    Faults = FALSE
    MaxConns = 2
SPECIFICATION MCSpec
INVARIANTS ConnectionsReturned RetriesShareNoPool
PROPERTIES InProgressResolves ChargeIsAnnounced ImplementsGateway
CHECK_DEADLOCK FALSE
