\* Two requests on one connection: boot, outages of Postgres, stop, kill and restart.
CONSTANTS
    None = None
    r1 = r1
    r2 = r2
    trace = trace
    Requests <- TwoRequests
    Callers <- OneCaller
    Incoming <- MCIncoming
    Endpoints <- AllEndpoints
    PoolSize = 1
    MaxQueries = 2
    MaxDelay = 1
    MaxOutages = 1
    MaxStarts = 1
SPECIFICATION FairSpec
INVARIANTS
    TypeOK
    PoolWhenReady
    PatientBoot
    ProbesAlwaysAnswer
    OneIdPerRequest
PROPERTIES
    BootEnds
    CallsEnd
    ShutdownEnds
CHECK_DEADLOCK FALSE
