SPECIFICATION PoolFairSpec
CONSTANTS
    Uploads = {a, b, c}
    Threads = {w}
    QueueSize = 1
    Stoppers = {s, t}
    NoUpload = NoUpload
    MaxPoolFaults = 1
INVARIANTS PermitsAccounted
PROPERTIES JobSettles StopEnds ImplementsService
CHECK_DEADLOCK FALSE
