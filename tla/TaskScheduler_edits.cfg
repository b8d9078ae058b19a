\* Edits against the poller and a worker: what stale saves do to the next run.
SPECIFICATION Spec
CONSTANTS
    TaskIds = {t1}
    Workers = {w1}
    Clients = {c1}
    Schedules <- ManualOnceAndInterval
    Types = {"manual", "scheduled"}
    Requests = {"update", "resume", "trigger", "delete"}
    Outcomes = {"success"}
    QueueMax = 1
    MaxRetries = 0
    BatchSize = 1
    MaxRuns = 1
    MaxTime = 1
    MaxClaims = 1
    MaxRestarts = 0
    NoTask = NoTask
SYMMETRY Symmetric
INVARIANTS
    ManualNeverArmed
    OnceAtItsInstant
CHECK_DEADLOCK FALSE
