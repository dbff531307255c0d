\* A handler that raises.
CONSTANTS
    None = None
    r1 = r1
    r2 = r2
    trace = trace
    Requests <- TwoRequests
    Callers <- OneCaller
    Incoming <- MCIncoming
    Endpoints <- AllEndpoints
    PoolSize = 1
    MaxQueries = 2
    MaxDelay = 1
    MaxOutages = 1
    MaxStarts = 1
SPECIFICATION Spec
INVARIANTS
    EveryResponseHasId
CHECK_DEADLOCK FALSE
