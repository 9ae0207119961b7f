SPECIFICATION MCSpec
CONSTANTS
    Texts = {draft, one, two}
    Draft = draft
    Threads = {1, 2}
    MaxCalls = 6
    MaxFaults = 1
    Ids = {1, 2, 3}
    Asker = ann
    Other = oli
    Enough = 2
    RowLimit = 2
    Budget = 2
    MaxChanges = 2
INVARIANTS  ResolvedIsConfirmed SerialConfirmedOnce SerialVersionNamesOneText ShownWasServed AsksOnlyWhenUnknown
PROPERTIES DecisionsStand
CHECK_DEADLOCK FALSE
