SPECIFICATION FairSpec
CONSTANTS
    Users = {1, 2, 3}
    Topics = {tea}
    Early = {1}
    NoNeed = NoNeed
    NoUser = 0
    Cap = 1
    MaxCalls = 1
    MaxChanges = 1
    MaxFaults = 1
 
PROPERTIES GoneAreSilent NeedsAreMet
CHECK_DEADLOCK FALSE
