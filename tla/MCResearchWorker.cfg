SPECIFICATION MCSpec
CONSTANTS
    NumRequests = 3
    Gated = {2}
    Workers = {w}
    Callers = {}
    Reviewers = {v}
    MaxFaults = 1
    Models = {m1, m2}
    NoModel = NoModel
    Backup = m2
    MaxSwitches = 1
INVARIANTS TraceIsTrue RequestIsServed
PROPERTIES WorkerServesAll
CHECK_DEADLOCK FALSE
