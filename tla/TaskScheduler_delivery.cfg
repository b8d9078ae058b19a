\* Two workers and triggers on one task, one stop or restart: where the claims
\* go, and that threads that keep running make and settle them.
SPECIFICATION FairSpec
CONSTANTS
    TaskIds = {t1}
    Workers = {w1, w2}
    Clients = {c1}
    Schedules <- OnceAndInterval
    Types = {"scheduled"}
    Requests = {"trigger"}
    Outcomes = {"success"}
    QueueMax = 1
    MaxRetries = 0
    BatchSize = 1
    MaxRuns = 1
    MaxTime = 1
    MaxClaims = 2
    MaxRestarts = 1
    NoTask = NoTask
INVARIANTS
    OnceFiresOnce
PROPERTIES
    AtMostOnceDelivery
    DueIsClaimed
    ClaimIsSettled
    StopEnds
CHECK_DEADLOCK FALSE
