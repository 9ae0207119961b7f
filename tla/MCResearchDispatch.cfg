SPECIFICATION Spec
CONSTANTS
    NumRequests = 1
    Gated = {}
    Workers = {w}
    Callers = {c}
    Reviewers = {u, v}
    MaxFaults = 1
SYMMETRY SymReviewers
INVARIANTS  SerialAnsweredOnce SerialQuarantineIsReviewed
