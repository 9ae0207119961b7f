SPECIFICATION FairSpec
CONSTANTS
    Members = {ini, mem}
    Leads = {}
    Admins = {adm}
    Initiator = ini
    Services = {}
    Requests = {1}
    Calls = {1, 2}
    Worker = worker
    Nobody = Nobody
    MaxCalls = 3
    MaxFaults = 1
INVARIANTS ChainOfCustody OfferedIsAccepted PublicationsAreReviewed
PROPERTIES SerialNoTakeover ReviewedIsPublished
CHECK_DEADLOCK FALSE
