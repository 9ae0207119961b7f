SPECIFICATION Spec
CONSTANTS
    NumRequests = 1
    Gated = {}
    Workers = {w}
    Callers = {}
    Reviewers = {v}
    MaxFaults = 0
INVARIANTS NeverLeftHanging
