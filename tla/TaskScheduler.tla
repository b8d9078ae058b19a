---------------------------- MODULE TaskScheduler ----------------------------
(***************************************************************************)
(* The task runtime of the API service: task_service.py (TaskRuntime and   *)
(* the task operations) over task_repository.py.                           *)
(*                                                                         *)
(* One poller thread turns due tasks into queue entries, N worker threads  *)
(* execute entries, and request threads run the API operations.  They      *)
(* share the task repository (a dictionary behind a lock, persisted before *)
(* the lock is released) and an in-memory bounded queue.  The steps of     *)
(* this module are the critical sections of that lock and the operations   *)
(* of the queue; everything a thread remembers between two of them is in   *)
(* its own record, so that it may be stale.                                *)
(*                                                                         *)
(* The clock is an integer.  A value computed from the clock between two   *)
(* steps of a thread may use any instant between them; the later step      *)
(* chooses which.                                                          *)
(***************************************************************************)
EXTENDS Integers, Sequences, FiniteSets

CONSTANTS
    TaskIds,        \* identities of tasks; create_task never reuses one
    Workers,        \* worker threads (settings.max_concurrency())
    Clients,        \* request threads of the API
    Schedules,      \* the schedules a task may carry
    Types,          \* the task types that requests create
    Requests,       \* the kinds of request that clients issue
    Outcomes,       \* the statuses flows end with
    QueueMax,       \* Queue(maxsize=2000)
    MaxRetries,     \* retryPolicy.maxRetries
    BatchSize,      \* number of flows of a batch task
    MaxRuns,        \* RunRepository._max_records
    MaxTime,        \* bound: the clock stops here
    MaxClaims,      \* bound: no poll starts once this many claims are made
    MaxRestarts,    \* bound: number of times the process is retaken
    NoTask          \* the empty task id of a sentinel entry

Modes == {"manual", "once", "interval", "calendar"}
TaskTypes == {"manual", "scheduled", "batch"}
RequestKinds == {"update", "resume", "trigger", "retry", "delete", "run"}
RunStatuses == {"success", "failed", "canceled"}

\* TaskSchedule, as _validate_schedule lets it pass.
Schedule == {s \in [mode : Modes, arg : Nat] : s.mode = "calendar" => s.arg > 0}

ASSUME ConstantsAssumption ==
    /\ Schedules \subseteq Schedule
    /\ Types \subseteq TaskTypes
    /\ Requests \subseteq RequestKinds
    /\ Outcomes \subseteq RunStatuses
    /\ QueueMax \in Nat \ {0}
    /\ MaxRetries \in Nat
    /\ BatchSize \in Nat \ {0}
    /\ MaxRuns \in Nat \ {0}
    /\ MaxTime \in Nat
    /\ MaxClaims \in Nat
    /\ MaxRestarts \in Nat
    /\ NoTask \notin TaskIds
    /\ IsFiniteSet(Workers)

VARIABLES
    now,        \* the clock
    tasks,      \* task repository, memory and file: task id -> record
    runs,       \* run repository, memory and file, oldest run first
    queue,      \* TaskRuntime._queue
    phase,      \* "running", or "stopping" once _stop_event is set
    poller,     \* the poller thread
    worker,     \* worker threads: worker -> record
    client,     \* request threads: client -> record
    restarts,   \* processes taken after the first one
    \* What an observer remembers; the code keeps none of it.
    used,       \* identities given to tasks so far
    deleted,    \* tasks whose deletion was acknowledged
    claims,     \* number of claims made so far; claim n is the n-th
    taken,      \* claims whose entry a worker has looked up
    lost,       \* claims that no worker will ever see
    fired,      \* task id -> number of claims of that task
    crossed,    \* tasks that were given the next run of another schedule
    dropped     \* tasks with a failed run that newer runs pushed out

observed == <<used, deleted, claims, taken, lost, fired, crossed, dropped>>
vars == <<now, tasks, runs, queue, phase, poller, worker, client,
          restarts, observed>>
-----------------------------------------------------------------------------
(* Task records *)

None == -1                        \* nextRunAt = None
Time == Nat
Statuses == {"active", "paused", "disabled"}

\* A record with status "absent" stands for an id the repository lacks.
Task == [type : TaskTypes, status : Statuses \cup {"absent"},
         schedule : Schedule,
         nextRunAt : Time \cup {None}, lastStatus : RunStatuses \cup {"none"}]

ManualSchedule == [mode |-> "manual", arg |-> 0]
Absent == [type |-> "manual", status |-> "absent", schedule |-> ManualSchedule,
           nextRunAt |-> None, lastStatus |-> "none"]

Present(t) == tasks[t].status # "absent"

\* The run repository as "retry last failed" sees it: a stored run is the id
\* of the task it is a failed run of, or NoTask.
FailedRuns == {runs[i] : i \in DOMAIN runs} \ {NoTask}

\* _next_run_from_schedule.  "calendar" stands for daily, weekly, monthly
\* and cron: the first multiple of the period after the base instant.
NextRun(s, base) ==
    IF s.mode = "manual" THEN None
    ELSE IF s.mode = "once" THEN (IF s.arg > base THEN s.arg ELSE None)
    ELSE IF s.mode = "interval" THEN base + (IF s.arg > 1 THEN s.arg ELSE 1)
    ELSE base + s.arg - (base % s.arg)

\* The test shared by due_tasks and claim_due_task.
IsDue(task, at) ==
    /\ task.status = "active"
    /\ task.schedule.mode # "manual"
    /\ task.nextRunAt # None
    /\ task.nextRunAt <= at

\* _validate_task_payload: only a manual task may have a manual schedule.
LegalSchedule(type, s) == type = "manual" \/ s.mode # "manual"

FlowCount(type) == IF type = "batch" THEN BatchSize ELSE 1

(* Queue entries and threads *)

\* The claim number of an entry is an observation: 0 if no claim made it.
Entry == [task : TaskIds \cup {NoTask},
          trigger : {"manual", "scheduled", "retry"}, claim : Nat]
Sentinel == [task |-> NoTask, trigger |-> "manual", claim |-> 0]

Sleeping == [pc |-> "sleep", due |-> {}, at |-> 0, task |-> NoTask, claim |-> 0]
Poller == [pc : {"sleep", "claim", "enqueue", "exited", "dead"},
           due : SUBSET (TaskIds \X Schedule), at : Time,
           task : TaskIds \cup {NoTask}, claim : Nat]

Worker == [pc : {"idle", "read", "run", "write", "exited"},
           task : TaskIds \cup {NoTask}, claim : Nat, snap : Task,
           flow : Nat, attempt : Nat,
           last : RunStatuses \cup {"none"}]
IdleWorker == [pc |-> "idle", task |-> NoTask, claim |-> 0, snap |-> Absent,
               flow |-> 1, attempt |-> 0, last |-> "none"]

Client == [op : RequestKinds \cup {"none"}, task : TaskIds \cup {NoTask},
           snap : Task, at : Time, status : Statuses,
           schedule : Schedule]
IdleClient == [op |-> "none", task |-> NoTask, snap |-> Absent, at |-> 0,
               status |-> "active", schedule |-> ManualSchedule]
-----------------------------------------------------------------------------
Init ==
    /\ now = 0
    /\ tasks = [t \in TaskIds |-> Absent]
    /\ runs = <<>>
    /\ queue = <<>>
    /\ phase = "running"
    /\ poller = Sleeping
    /\ worker = [w \in Workers |-> IdleWorker]
    /\ client = [c \in Clients |-> IdleClient]
    /\ restarts = 0
    /\ used = {}
    /\ deleted = {}
    /\ claims = 0
    /\ taken = {}
    /\ lost = {}
    /\ fired = [t \in TaskIds |-> 0]
    /\ crossed = {}
    /\ dropped = {}

Tick ==
    /\ now < MaxTime
    /\ now' = now + 1
    /\ UNCHANGED <<tasks, runs, queue, phase, poller, worker, client,
                   restarts, observed>>
-----------------------------------------------------------------------------
(* API operations: get_task, a computation on the copy, then a save *)

\* create_task
CreateTask(t) ==
    /\ phase = "running"
    /\ t \notin used
    /\ \E type \in Types, s \in Schedules :
          /\ LegalSchedule(type, s)
          /\ tasks' = [tasks EXCEPT ![t] =
                [type |-> type, status |-> "active", schedule |-> s,
                 nextRunAt |-> IF type = "manual" THEN None ELSE NextRun(s, now),
                 lastStatus |-> "none"]]
    /\ used' = used \cup {t}
    /\ UNCHANGED <<now, runs, queue, phase, poller, worker, client,
                   restarts, deleted, claims, taken, lost, fired, crossed,
                   dropped>>

\* The request of client c reads task t and will save or queue later.
Begin(c, t, op, status, s) ==
    /\ phase = "running"
    /\ op \in Requests
    /\ client[c].op = "none"
    /\ Present(t)
    /\ client' = [client EXCEPT ![c] =
          [op |-> op, task |-> t, snap |-> tasks[t], at |-> now,
           status |-> status, schedule |-> s]]
    /\ UNCHANGED <<now, tasks, runs, queue, phase, poller, worker,
                   restarts, observed>>

\* update_task, pause_task, disable_task: the payload may name a status and
\* a schedule; what it does not name is taken from the copy, which here is
\* the same as naming the value the copy has.
BeginUpdate(c, t) ==
    \E status \in Statuses, s \in Schedules :
        /\ LegalSchedule(tasks[t].type, s)
        /\ Begin(c, t, "update", status, s)

BeginResume(c, t) == Begin(c, t, "resume", "active", tasks[t].schedule)

\* trigger_task rejects (409) a task that is not active.
BeginTrigger(c, t) ==
    /\ tasks[t].status = "active"
    /\ Begin(c, t, "trigger", "active", tasks[t].schedule)

\* retry_task_last_failed also wants a failed run of the task (404).
BeginRetry(c, t) ==
    /\ t \in FailedRuns
    /\ tasks[t].status = "active"
    /\ Begin(c, t, "retry", "active", tasks[t].schedule)

\* Deviation: the branch for manual schedules is missing.
UpdatedTaskUnchecked(r, base) ==
    [r.snap EXCEPT
        !.status = r.status,
        !.schedule = r.schedule,
        !.nextRunAt = IF r.snap.status = "active" THEN NextRun(r.schedule, base)
                      ELSE r.snap.nextRunAt]

\* Deviation: the next run is that of the schedule the copy has.
UpdatedTaskOldSchedule(r, base) ==
    [r.snap EXCEPT
        !.status = r.status,
        !.schedule = r.schedule,
        !.nextRunAt = IF r.schedule.mode = "manual" THEN None
                      ELSE IF r.snap.status = "active" THEN NextRun(r.snap.schedule, base)
                      ELSE r.snap.nextRunAt]

\* The record update_task saves.
UpdatedTask(r, base) ==
    [r.snap EXCEPT
        !.status = r.status,
        !.schedule = r.schedule,
        !.nextRunAt = IF r.schedule.mode = "manual" THEN None
                      ELSE IF r.snap.status = "active" THEN NextRun(r.schedule, base)
                      ELSE r.snap.nextRunAt]

\* The record resume_task saves.
ResumedTask(r, base) ==
    [r.snap EXCEPT
        !.status = "active",
        !.nextRunAt = IF r.snap.schedule.mode # "manual"
                      THEN NextRun(r.snap.schedule, base)
                      ELSE r.snap.nextRunAt]

\* An edit of a task that is not active: the next run of the old schedule
\* stays, and an update to "active" will not compute another.
KeepsOldNextRun(r) ==
    /\ r.snap.status # "active"
    /\ r.schedule.mode # "manual"
    /\ r.schedule # r.snap.schedule

\* TaskRepository.save adds the record even if the id is gone.
CommitUpdate(c) ==
    /\ client[c].op = "update"
    /\ \E base \in client[c].at .. now :
          tasks' = [tasks EXCEPT ![client[c].task] = UpdatedTask(client[c], base)]
    /\ client' = [client EXCEPT ![c] = IdleClient]
    /\ crossed' = IF KeepsOldNextRun(client[c]) THEN crossed \cup {client[c].task}
                  ELSE crossed
    /\ UNCHANGED <<now, runs, queue, phase, poller, worker, restarts,
                   used, deleted, claims, taken, lost, fired, dropped>>

CommitResume(c) ==
    /\ client[c].op = "resume"
    /\ \E base \in client[c].at .. now :
          tasks' = [tasks EXCEPT ![client[c].task] = ResumedTask(client[c], base)]
    /\ client' = [client EXCEPT ![c] = IdleClient]
    /\ UNCHANGED <<now, runs, queue, phase, poller, worker, restarts, observed>>

\* Deviation: the queue is unbounded.
CommitTriggerUnbounded(c) ==
    /\ client[c].op \in {"trigger", "retry"}
    /\ queue' = Append(queue, [task |-> client[c].task, claim |-> 0,
                        trigger |-> IF client[c].op = "retry" THEN "retry" ELSE "manual"])
    /\ client' = [client EXCEPT ![c] = IdleClient]
    /\ UNCHANGED <<now, tasks, runs, phase, poller, worker, restarts, observed>>

\* TaskRuntime.enqueue for a trigger; a full queue answers 429.
CommitTrigger(c) ==
    /\ client[c].op \in {"trigger", "retry"}
    /\ queue' = IF Len(queue) < QueueMax
                THEN Append(queue, [task |-> client[c].task, claim |-> 0,
                        trigger |-> IF client[c].op = "retry" THEN "retry" ELSE "manual"])
                ELSE queue
    /\ client' = [client EXCEPT ![c] = IdleClient]
    /\ UNCHANGED <<now, tasks, runs, phase, poller, worker, restarts, observed>>

\* delete_task
DeleteTask(t) ==
    /\ phase = "running"
    /\ "delete" \in Requests
    /\ Present(t)
    /\ tasks' = [tasks EXCEPT ![t] = Absent]
    /\ deleted' = deleted \cup {t}
    /\ UNCHANGED <<now, runs, queue, phase, poller, worker, client,
                   restarts, used, claims, taken, lost, fired, crossed, dropped>>
-----------------------------------------------------------------------------
(* The poller: _poll_loop *)

\* due_tasks: a snapshot; a poll that finds nothing due changes nothing.
PollDue ==
    /\ poller.pc = "sleep"
    /\ phase = "running"
    /\ claims < MaxClaims
    /\ \E t \in TaskIds : IsDue(tasks[t], now)
    /\ poller' = [Sleeping EXCEPT
          !.pc = "claim", !.at = now,
          !.due = {<<t, tasks[t].schedule>> : t \in {u \in TaskIds : IsDue(tasks[u], now)}}]
    /\ UNCHANGED <<now, tasks, runs, queue, phase, worker, client,
                   restarts, observed>>

\* Deviation: the loop is not left when the snapshot is used up.
PollerContinuesForever(due) ==
    [Sleeping EXCEPT !.pc = "claim", !.at = now, !.due = due]

\* The for loop goes on with the rest of the snapshot, or the poller sleeps.
PollerContinues(due) ==
    IF due = {} THEN Sleeping
    ELSE [Sleeping EXCEPT !.pc = "claim", !.at = now, !.due = due]

\* claim_due_task: the next run follows from the schedule of the snapshot
\* at an instant base, the record is re-read at an instant seen.
ClaimDue ==
    /\ poller.pc = "claim"
    /\ \E d \in poller.due, base \in poller.at .. now :
          \E seen \in base .. now :
              LET t == d[1] IN
              IF IsDue(tasks[t], seen)
              THEN /\ tasks' = [tasks EXCEPT ![t].nextRunAt = NextRun(d[2], base)]
                   /\ claims' = claims + 1
                   /\ fired' = [fired EXCEPT ![t] = @ + 1]
                   /\ crossed' = IF d[2] = tasks[t].schedule THEN crossed
                                 ELSE crossed \cup {t}
                   /\ poller' = [poller EXCEPT !.pc = "enqueue", !.task = t,
                                    !.claim = claims + 1, !.due = @ \ {d}]
              ELSE /\ poller' = PollerContinues(poller.due \ {d})
                   /\ UNCHANGED <<tasks, claims, fired, crossed>>
    /\ UNCHANGED <<now, runs, queue, phase, worker, client, restarts,
                   used, deleted, taken, lost, dropped>>

\* enqueue; a full queue raises HTTPException, nothing in the loop catches
\* it, and the poller thread ends.
EnqueueClaim ==
    /\ poller.pc = "enqueue"
    /\ IF Len(queue) < QueueMax
       THEN /\ queue' = Append(queue, [task |-> poller.task, trigger |-> "scheduled",
                                       claim |-> poller.claim])
            /\ poller' = PollerContinues(poller.due)
            /\ UNCHANGED lost
       ELSE /\ lost' = lost \cup {poller.claim}
            /\ poller' = [Sleeping EXCEPT !.pc = "dead"]
            /\ UNCHANGED queue
    /\ UNCHANGED <<now, tasks, runs, phase, worker, client, restarts,
                   used, deleted, claims, taken, fired, crossed, dropped>>

PollerExits ==
    /\ phase = "stopping"
    /\ poller.pc = "sleep"
    /\ poller' = [Sleeping EXCEPT !.pc = "exited"]
    /\ UNCHANGED <<now, tasks, runs, queue, phase, worker, client,
                   restarts, observed>>
-----------------------------------------------------------------------------
(* The workers: _worker_loop and execute_task_now *)

\* Deviation: a worker thread ends after one entry.
AtLoopHeadOnce == [IdleWorker EXCEPT !.pc = "exited"]

\* A worker back at the loop head looks at _stop_event before it waits again.
AtLoopHead == IF phase = "stopping" THEN [IdleWorker EXCEPT !.pc = "exited"]
                                    ELSE IdleWorker

\* Deviation: the entry is read and not removed.
TakeEntryPeeking(w) ==
    /\ worker[w].pc = "idle"
    /\ queue # <<>>
    /\ worker' = [worker EXCEPT ![w] =
          IF Head(queue).task = NoTask THEN AtLoopHead
          ELSE [IdleWorker EXCEPT !.pc = "read", !.task = Head(queue).task,
                                  !.claim = Head(queue).claim]]
    /\ queue' \in {queue, Tail(queue)}
    /\ UNCHANGED <<now, tasks, runs, phase, poller, client, restarts, observed>>

\* queue.get; a worker already waiting gets an entry even after stop().
TakeEntry(w) ==
    /\ worker[w].pc = "idle"
    /\ queue # <<>>
    /\ queue' = Tail(queue)
    /\ worker' = [worker EXCEPT ![w] =
          IF Head(queue).task = NoTask THEN AtLoopHead
          ELSE [IdleWorker EXCEPT !.pc = "read", !.task = Head(queue).task,
                                  !.claim = Head(queue).claim]]
    /\ UNCHANGED <<now, tasks, runs, phase, poller, client, restarts, observed>>

\* Deviation: queue.get without a timeout never comes back by itself.
WorkerExitsNever(w) ==
    /\ worker[w].pc = "unreachable"
    /\ UNCHANGED vars

\* The get timeout lets an idle worker see _stop_event.
WorkerExits(w) ==
    /\ phase = "stopping"
    /\ worker[w].pc = "idle"
    /\ worker' = [worker EXCEPT ![w] = AtLoopHead]
    /\ UNCHANGED <<now, tasks, runs, queue, phase, poller, client,
                   restarts, observed>>

\* execute_task_now drops an entry whose task is gone or not active.
ReadTask(w) ==
    /\ worker[w].pc = "read"
    /\ LET task == tasks[worker[w].task] IN
       worker' = [worker EXCEPT ![w] =
          IF task.status # "active" THEN AtLoopHead
          ELSE [@ EXCEPT !.pc = "run", !.snap = task]]
    /\ taken' = taken \cup ({worker[w].claim} \ {0})
    /\ UNCHANGED <<now, tasks, runs, queue, phase, poller, client,
                   restarts, used, deleted, claims, lost, fired, crossed,
                   dropped>>

\* One attempt of one flow, with its run stored.  An error of execute_flow
\* is stored as a failed run.  A failure with attempts left is retried, and
\* the next flow of a batch runs whatever became of this one.
AfterAttempt(job, outcome) ==
    LET tried == [job EXCEPT !.last = outcome] IN
    IF outcome # "success" /\ job.attempt < MaxRetries
    THEN [tried EXCEPT !.attempt = @ + 1]
    ELSE IF job.flow < FlowCount(job.snap.type)
    THEN [tried EXCEPT !.flow = @ + 1, !.attempt = 0]
    ELSE [tried EXCEPT !.pc = "write"]

\* Deviation: a run that ended in an error is not stored.
RunAttemptUnstored(w) ==
    /\ worker[w].pc = "run"
    /\ \E outcome \in Outcomes :
          worker' = [worker EXCEPT ![w] = AfterAttempt(@, outcome)]
    /\ UNCHANGED <<now, tasks, runs, queue, phase, poller, client, restarts,
                   observed>>

\* RunRepository.save of a new run: beyond MaxRuns the oldest goes.
SaveRun(run) ==
    IF Len(runs) < MaxRuns
    THEN runs' = Append(runs, run) /\ UNCHANGED dropped
    ELSE /\ runs' = Append(Tail(runs), run)
         /\ dropped' = dropped \cup ({Head(runs)} \ {NoTask})

RunAttempt(w) ==
    /\ worker[w].pc = "run"
    /\ \E outcome \in Outcomes :
          /\ worker' = [worker EXCEPT ![w] = AfterAttempt(@, outcome)]
          /\ SaveRun(IF outcome = "failed" THEN worker[w].task ELSE NoTask)
    /\ UNCHANGED <<now, tasks, queue, phase, poller, client, restarts,
                   used, deleted, claims, taken, lost, fired, crossed>>

\* start_run: a run of no task, which fills the same repository.
RunFlow ==
    /\ phase = "running"
    /\ "run" \in Requests
    /\ SaveRun(NoTask)
    /\ UNCHANGED <<now, tasks, queue, phase, poller, worker, client, restarts,
                   used, deleted, claims, taken, lost, fired, crossed>>

\* Deviation: the next run of a "once" task is kept.
ExecutedTaskRearmed(job) == [job.snap EXCEPT !.lastStatus = job.last]

\* The record execute_task_now saves: the copy it read before the runs.
ExecutedTask(job) ==
    [job.snap EXCEPT
        !.lastStatus = job.last,
        !.nextRunAt = IF job.snap.schedule.mode = "once" THEN None ELSE @]

WriteBack(w) ==
    /\ worker[w].pc = "write"
    /\ tasks' = [tasks EXCEPT ![worker[w].task] = ExecutedTask(worker[w])]
    /\ worker' = [worker EXCEPT ![w] = AtLoopHead]
    /\ UNCHANGED <<now, runs, queue, phase, poller, client, restarts, observed>>
-----------------------------------------------------------------------------
(* The process *)

\* The sentinels stop() adds: one per worker, as far as the queue has room.
Sentinels ==
    LET room == QueueMax - Len(queue)
        wanted == Cardinality(Workers)
    IN [i \in 1 .. (IF wanted < room THEN wanted ELSE room) |-> Sentinel]

\* stop(): sets _stop_event and wakes the workers.
Stop ==
    /\ phase = "running"
    /\ restarts < MaxRestarts
    /\ phase' = "stopping"
    /\ queue' = queue \o Sentinels
    /\ UNCHANGED <<now, tasks, runs, poller, worker, client, restarts, observed>>

ClaimsIn(q) == {q[i].claim : i \in DOMAIN q} \ {0}
QueuedClaims == ClaimsIn(queue)
HeldClaims == {worker[w].claim : w \in {v \in Workers : worker[v].pc = "read"}} \ {0}
PolledClaims == IF poller.pc = "enqueue" THEN {poller.claim} ELSE {}
PendingClaims == QueuedClaims \cup HeldClaims \cup PolledClaims

\* The process ends, by a crash or because stop() stopped waiting for its
\* threads, and a new one loads the task file.  Every change was persisted
\* before its lock was released, so only memory is lost.
Restart ==
    /\ restarts < MaxRestarts
    /\ restarts' = restarts + 1
    /\ phase' = "running"
    /\ queue' = <<>>
    /\ poller' = Sleeping
    /\ worker' = [w \in Workers |-> IdleWorker]
    /\ client' = [c \in Clients |-> IdleClient]
    /\ lost' = lost \cup PendingClaims
    /\ UNCHANGED <<now, tasks, runs, used, deleted, claims, taken, fired, crossed,
                   dropped>>
-----------------------------------------------------------------------------
Operation ==
    \/ \E t \in TaskIds : CreateTask(t) \/ DeleteTask(t)
    \/ RunFlow
    \/ \E c \in Clients, t \in TaskIds :
          \/ BeginUpdate(c, t)
          \/ BeginResume(c, t)
          \/ BeginTrigger(c, t)
          \/ BeginRetry(c, t)

Commit(c) == CommitUpdate(c) \/ CommitResume(c) \/ CommitTrigger(c)

PollerStep == PollDue \/ ClaimDue \/ EnqueueClaim \/ PollerExits

WorkerStep(w) ==
    \/ TakeEntry(w)
    \/ WorkerExits(w)
    \/ ReadTask(w)
    \/ RunAttempt(w)
    \/ WriteBack(w)

Next ==
    \/ Tick
    \/ Operation
    \/ \E c \in Clients : Commit(c)
    \/ PollerStep
    \/ \E w \in Workers : WorkerStep(w)
    \/ Stop
    \/ Restart

Spec == Init /\ [][Next]_vars

\* The operating system runs every thread, and a flow execution ends: each
\* of its steps has a timeout.  Nothing makes a client send a request, the
\* clock pass a given instant, or the process stop.
Fairness == WF_vars(PollerStep) /\ \A w \in Workers : WF_vars(WorkerStep(w))

FairSpec == Spec /\ Fairness
-----------------------------------------------------------------------------
(* Properties *)

\* Every variable has the shape the code gives it; the queue keeps its bound.
TypeOK ==
    /\ now \in Time
    /\ tasks \in [TaskIds -> Task]
    /\ runs \in Seq(TaskIds \cup {NoTask})
    /\ Len(runs) <= MaxRuns
    /\ queue \in Seq(Entry)
    /\ Len(queue) <= QueueMax
    /\ phase \in {"running", "stopping"}
    /\ poller \in Poller
    /\ worker \in [Workers -> Worker]
    /\ client \in [Clients -> Client]
    /\ restarts \in Nat
    /\ used \subseteq TaskIds
    /\ deleted \subseteq TaskIds
    /\ claims \in Nat
    /\ taken \subseteq Nat
    /\ lost \subseteq Nat
    /\ fired \in [TaskIds -> Nat]
    /\ crossed \subseteq TaskIds
    /\ dropped \subseteq TaskIds

\* A task whose schedule is manual has no next run, whatever stale copies
\* requests and workers save over each other: the poller may compute a next
\* run from a schedule that was edited meanwhile, but claim_due_task refuses
\* a record that is manual by then, and every save keeps the two as read or
\* clears the next run.  Other schedules have no such guarantee (see below).
ManualNeverArmed ==
    \A t \in TaskIds : tasks[t].schedule.mode = "manual" => tasks[t].nextRunAt = None

\* A "once" task is armed for its own instant or for none, whatever stale
\* copies are saved, unless the code has crossed two schedules: the poller
\* claimed it with the schedule of a snapshot while it was edited
\* (claim_due_task), or it was edited while it was not active (update_task
\* keeps the next run then).  Nothing else arms it for a foreign instant.
OnceAtItsInstant ==
    \A t \in TaskIds \ crossed :
        tasks[t].schedule.mode = "once" => tasks[t].nextRunAt \in {None, tasks[t].schedule.arg}

\* If the task record says that the last run failed, "retry last failed"
\* finds a failed run, or newer runs have pushed that out of the repository:
\* the run is stored before the record names it, on every path of
\* execute_task_now, and stale copies do not break it.
FailureIsBacked ==
    \A t \in TaskIds :
        tasks[t].lastStatus = "failed" => t \in FailedRuns \cup dropped

\* The runtime implements at-most-once delivery of claimed occurrences:
\* across stale polls, full queues, sentinels, stops and crashes.
Ledger == INSTANCE DeliveryLedger
            WITH accepted <- claims, pending <- PendingClaims
AtMostOnceDelivery == Ledger!Spec

\* Without edits by clients, a "once" task is claimed at most once: neither
\* a stale write-back (which clears the next run) nor a restart rearms it.
OnceFiresOnce ==
    \A t \in TaskIds : tasks[t].schedule.mode = "once" => fired[t] <= 1

\* An acknowledged deletion is final.
DeletedStaysDeleted == \A t \in deleted : ~Present(t)

\* A due task is claimed, or stops being due, as long as the poller lives
\* and nobody stops the process: no snapshot or race starves it.
DueIsClaimed ==
    \A t \in TaskIds :
        IsDue(tasks[t], now)
            ~> (~IsDue(tasks[t], now) \/ claims >= MaxClaims
                    \/ poller.pc = "dead" \/ phase = "stopping")

\* A claim reaches a worker, or is lost, unless the process is stopped.
ClaimIsSettled ==
    \A n \in 1 .. MaxClaims :
        (n <= claims) ~> (n \in taken \cup lost \/ phase = "stopping")

\* After stop() every worker and the poller end by themselves, sentinel or not.
StopEnds ==
    phase = "stopping" ~>
        \/ phase = "running"
        \/ /\ \A w \in Workers : worker[w].pc = "exited"
           /\ poller.pc \in {"exited", "dead"}
=============================================================================
