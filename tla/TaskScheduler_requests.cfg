\* Requests, runs of no task, the poller and a worker that retries the flows of a
\* batch: what is stored of the runs behind a failed status, and what stale saves do
\* to the next run.
SPECIFICATION Spec
CONSTANTS
    TaskIds = {t1}
    Workers = {w1}
    Clients = {c1}
    Schedules <- ManualOnceAndInterval
    Types = {"manual", "batch"}
    Requests = {"update", "resume", "trigger", "retry", "delete", "run"}
    Outcomes = {"success", "failed", "canceled"}
    QueueMax = 1
    MaxRetries = 1
    BatchSize = 2
    MaxRuns = 2
    MaxTime = 1
    MaxClaims = 1
    MaxRestarts = 0
    NoTask = NoTask
CONSTRAINT BatchesOrEdits
SYMMETRY Symmetric
INVARIANTS
    TypeOK
    FailureIsBacked
    ManualNeverArmed
    OnceAtItsInstant
CHECK_DEADLOCK FALSE
