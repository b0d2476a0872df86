\* A scan and a stub agent, two deliveries each, one cancel request, one fault.
SPECIFICATION FairSpec
CONSTANTS
    Jobs = {s1, g1}
    Scans = {s1}
    Requests = {c1}
    Quota = 1
    MaxAttempts = 2
    MaxFaults = 1
CHECK_DEADLOCK FALSE
INVARIANTS
    WorkIsPaid
    VerdictTellsTheWrites
PROPERTIES
    EveryJobGetsVerdict
    CancelInTimeStops
