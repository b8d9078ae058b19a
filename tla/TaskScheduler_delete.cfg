\* A worker finishes an execution of a task deleted meanwhile.
SPECIFICATION Spec
CONSTANTS
    TaskIds = {t1}
    Workers = {w1}
    Clients = {c1}
    Schedules <- ManualAndInterval
    Types = {"manual"}
    Requests = {"trigger", "delete"}
    Outcomes = {"success"}
    QueueMax = 1
    MaxRetries = 0
    BatchSize = 1
    MaxRuns = 1
    MaxTime = 0
    MaxClaims = 0
    MaxRestarts = 0
    NoTask = NoTask
INVARIANTS
    DeletedStaysDeleted
CHECK_DEADLOCK FALSE
