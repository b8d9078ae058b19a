------------------------ MODULE TaskScheduler_proofs ------------------------
(* Theorems about TaskScheduler, for all values of its constants. *)
EXTENDS TaskScheduler, FiniteSetTheorems, SequenceTheorems, TLAPS

\* The next run of a schedule is a later instant, or there is none.
LEMMA NextRunType ==
    ASSUME NEW s \in Schedule, NEW base \in Nat
    PROVE  /\ NextRun(s, base) \in Time \cup {None}
           /\ NextRun(s, base) # None => NextRun(s, base) > base
           /\ s.mode = "manual" => NextRun(s, base) = None
<1>1. CASE s.mode = "calendar"
  <2>1. s.arg \in Nat /\ s.arg > 0
    BY <1>1 DEF Schedule
  <2>2. base % s.arg \in 0 .. (s.arg - 1)
    BY <2>1
  <2>3. QED
    BY <1>1, <2>1, <2>2 DEF NextRun, Time, None
<1>2. CASE s.mode # "calendar"
  BY <1>2 DEF Schedule, Modes, NextRun, Time, None
<1>3. QED
  BY <1>1, <1>2

(***************************************************************************)
(* The inductive invariant.  A thread works on a copy of a task record it  *)
(* read earlier, so what holds of the repository must hold of every copy.  *)
(***************************************************************************)

\* A worker with a job and a request under way know a task, and not the
\* sentinel's empty id.
JobsNamed ==
    /\ \A w \in Workers : worker[w].pc \in {"read", "run", "write"} => worker[w].task \in TaskIds
    /\ \A c \in Clients : client[c].op # "none" => client[c].task \in TaskIds

Paired(task) == task.schedule.mode = "manual" => task.nextRunAt = None

CopiesPaired ==
    /\ \A t \in TaskIds : Paired(tasks[t])
    /\ \A w \in Workers : Paired(worker[w].snap)
    /\ \A c \in Clients : Paired(client[c].snap)

\* Tasks of which a failed run is stored, or was until newer runs came.
EverFailed == FailedRuns \cup dropped

CopiesBacked ==
    /\ \A t \in TaskIds : tasks[t].lastStatus = "failed" => t \in EverFailed
    /\ \A w \in Workers :
          "failed" \in {worker[w].last, worker[w].snap.lastStatus} => worker[w].task \in EverFailed
    /\ \A c \in Clients :
          client[c].snap.lastStatus = "failed" => client[c].task \in EverFailed

IInv == TypeOK /\ JobsNamed /\ CopiesPaired /\ CopiesBacked

USE DEF Time, None, Statuses, RunStatuses, TaskTypes, RequestKinds

LEMMA ConstantTypes ==
    /\ ManualSchedule \in Schedule
    /\ Absent \in Task
    /\ Sentinel \in Entry
    /\ Sleeping \in Poller
    /\ IdleWorker \in Worker
    /\ IdleClient \in Client
    /\ \A t \in TaskTypes : FlowCount(t) \in Nat
BY ConstantsAssumption DEF ManualSchedule, Schedule, Modes, Absent, Task, Sentinel,
   Entry, Sleeping, Poller, IdleWorker, Worker, IdleClient, Client, FlowCount

\* The records that requests save are task records, paired like the copies
\* they come from.
LEMMA RequestRecords ==
    ASSUME NEW r \in Client, NEW base \in Nat, Paired(r.snap)
    PROVE  /\ UpdatedTask(r, base) \in Task
           /\ Paired(UpdatedTask(r, base))
           /\ UpdatedTask(r, base).lastStatus = r.snap.lastStatus
           /\ ResumedTask(r, base) \in Task
           /\ Paired(ResumedTask(r, base))
           /\ ResumedTask(r, base).lastStatus = r.snap.lastStatus
<1>1. /\ r.snap \in Task
      /\ r.schedule \in Schedule
      /\ r.status \in Statuses
  BY DEF Client
<1>2. r.snap.schedule \in Schedule
  BY <1>1 DEF Task
<1>3. /\ NextRun(r.schedule, base) \in Time \cup {None}
      /\ NextRun(r.snap.schedule, base) \in Time \cup {None}
  BY <1>1, <1>2, NextRunType
<1>4. /\ UpdatedTask(r, base) \in Task
      /\ Paired(UpdatedTask(r, base))
      /\ UpdatedTask(r, base).lastStatus = r.snap.lastStatus
  BY <1>1, <1>3 DEF UpdatedTask, Task, Paired
<1>5. /\ ResumedTask(r, base) \in Task
      /\ Paired(ResumedTask(r, base))
      /\ ResumedTask(r, base).lastStatus = r.snap.lastStatus
  BY <1>1, <1>3 DEF ResumedTask, Task, Paired
<1>6. QED
  BY <1>4, <1>5

\* So is the record that a worker saves; its last status is the last run's.
LEMMA WorkerRecord ==
    ASSUME NEW job \in Worker, Paired(job.snap)
    PROVE  /\ ExecutedTask(job) \in Task
           /\ Paired(ExecutedTask(job))
           /\ ExecutedTask(job).lastStatus = job.last
BY DEF ExecutedTask, Worker, Task, Paired

LEMMA RunsKept == ASSUME UNCHANGED <<runs, dropped>> PROVE EverFailed' = EverFailed
BY DEF EverFailed, FailedRuns

LEMMA IInvInit == Init => IInv
BY ConstantTypes, ConstantsAssumption
   DEF Init, IInv, TypeOK, JobsNamed, CopiesPaired, CopiesBacked, Paired,
       Absent, ManualSchedule, IdleWorker, IdleClient

\* A new next run leaves the rest of a record alone.
LEMMA Rearmed ==
    ASSUME NEW r \in Task, NEW v \in Time \cup {None}
    PROVE  LET new == [r EXCEPT !.nextRunAt = v] IN
           /\ new \in Task
           /\ new.schedule = r.schedule
           /\ new.lastStatus = r.lastStatus
BY DEF Task

\* The records of the poller.
LEMMA PollerRecords ==
    ASSUME NEW due \in SUBSET (TaskIds \X Schedule), now \in Nat
    PROVE  /\ [Sleeping EXCEPT !.pc = "claim", !.at = now, !.due = due] \in Poller
           /\ PollerContinues(due) \in Poller
           /\ [Sleeping EXCEPT !.pc = "exited"] \in Poller
           /\ [Sleeping EXCEPT !.pc = "dead"] \in Poller
<1>1. [Sleeping EXCEPT !.pc = "claim", !.at = now, !.due = due] \in Poller
  BY DEF Sleeping, Poller
<1>2. /\ Sleeping \in Poller
      /\ [Sleeping EXCEPT !.pc = "exited"] \in Poller
      /\ [Sleeping EXCEPT !.pc = "dead"] \in Poller
  BY DEF Sleeping, Poller
<1>3. QED
  BY <1>1, <1>2 DEF PollerContinues

LEMMA PollerClaimed ==
    ASSUME NEW p \in Poller, NEW t \in TaskIds, NEW n \in Nat,
           NEW due \in SUBSET (TaskIds \X Schedule)
    PROVE  [p EXCEPT !.pc = "enqueue", !.task = t, !.claim = n, !.due = due] \in Poller
BY DEF Poller

\* The poller preserves the invariant: a claim changes the next run of a
\* task that is due, hence not manual.
LEMMA IInvPoller == IInv /\ PollerStep => IInv'
<1> SUFFICES ASSUME IInv, PollerStep PROVE IInv'
  OBVIOUS
<1>1. CASE PollDue
  <2> DEFINE due == {<<t, tasks[t].schedule>> : t \in {u \in TaskIds : IsDue(tasks[u], now)}}
  <2>1. \A t \in TaskIds : tasks[t].schedule \in Schedule
    BY DEF IInv, TypeOK, Task
  <2>2. due \in SUBSET (TaskIds \X Schedule)
    BY <2>1
  <2>3. now \in Nat
    BY DEF IInv, TypeOK
  <2>4. poller' = [Sleeping EXCEPT !.pc = "claim", !.at = now, !.due = due]
    BY <1>1 DEF PollDue
  <2>5. poller' \in Poller
    BY <2>2, <2>3, <2>4, PollerRecords
  <2>6. QED
    BY RunsKept, <1>1, <2>5 DEF PollDue, observed, IInv, TypeOK, JobsNamed, CopiesPaired,
       CopiesBacked, Paired
<1>2. CASE ClaimDue
  <2>1. PICK d \in poller.due, base \in poller.at .. now : \E seen \in base .. now :
           IF IsDue(tasks[d[1]], seen)
           THEN /\ tasks' = [tasks EXCEPT ![d[1]].nextRunAt = NextRun(d[2], base)]
                /\ claims' = claims + 1
                /\ fired' = [fired EXCEPT ![d[1]] = @ + 1]
                /\ crossed' = IF d[2] = tasks[d[1]].schedule THEN crossed
                              ELSE crossed \cup {d[1]}
                /\ poller' = [poller EXCEPT !.pc = "enqueue", !.task = d[1],
                                 !.claim = claims + 1, !.due = @ \ {d}]
           ELSE /\ poller' = PollerContinues(poller.due \ {d})
                /\ UNCHANGED <<tasks, claims, fired, crossed>>
    BY <1>2 DEF ClaimDue
  <2>2. PICK seen \in base .. now :
           IF IsDue(tasks[d[1]], seen)
           THEN /\ tasks' = [tasks EXCEPT ![d[1]].nextRunAt = NextRun(d[2], base)]
                /\ claims' = claims + 1
                /\ fired' = [fired EXCEPT ![d[1]] = @ + 1]
                /\ crossed' = IF d[2] = tasks[d[1]].schedule THEN crossed
                              ELSE crossed \cup {d[1]}
                /\ poller' = [poller EXCEPT !.pc = "enqueue", !.task = d[1],
                                 !.claim = claims + 1, !.due = @ \ {d}]
           ELSE /\ poller' = PollerContinues(poller.due \ {d})
                /\ UNCHANGED <<tasks, claims, fired, crossed>>
    BY <2>1
  <2>3. poller \in Poller /\ now \in Nat
    BY DEF IInv, TypeOK
  <2>4. poller.due \in SUBSET (TaskIds \X Schedule) /\ poller.at \in Nat
    BY <2>3 DEF Poller
  <2>5. d \in TaskIds \X Schedule /\ poller.due \ {d} \in SUBSET (TaskIds \X Schedule)
    BY <2>4
  <2>6. d[1] \in TaskIds /\ d[2] \in Schedule /\ base \in Nat
    BY <2>3, <2>4, <2>5
  <2>7. CASE IsDue(tasks[d[1]], seen)
    <3> DEFINE next == NextRun(d[2], base)
               new == [tasks[d[1]] EXCEPT !.nextRunAt = next]
    <3>1. next \in Time \cup {None}
      BY <2>6, NextRunType
    <3>2. tasks \in [TaskIds -> Task] /\ tasks[d[1]] \in Task
      BY <2>6 DEF IInv, TypeOK
    <3>3. /\ new \in Task
          /\ new.schedule = tasks[d[1]].schedule
          /\ new.lastStatus = tasks[d[1]].lastStatus
      BY <3>1, <3>2, Rearmed
    <3>4. tasks' = [tasks EXCEPT ![d[1]] = new]
      BY <2>2, <2>7
    <3> HIDE DEF next, new
    <3>5. /\ tasks' \in [TaskIds -> Task]
          /\ \A t \in TaskIds : tasks'[t].lastStatus = tasks[t].lastStatus
      BY <3>2, <3>3, <3>4
    <3>6. Paired(new)
      BY <2>7, <3>3 DEF Paired, IsDue
    <3>7. \A t \in TaskIds : Paired(tasks[t])
      BY DEF IInv, CopiesPaired
    <3>8. \A t \in TaskIds : Paired(tasks'[t])
      BY <3>2, <3>4, <3>6, <3>7
    <3>9. claims \in Nat /\ claims' = claims + 1
      BY <2>2, <2>7 DEF IInv, TypeOK
    <3>10. poller' = [poller EXCEPT !.pc = "enqueue", !.task = d[1],
                                    !.claim = claims + 1, !.due = poller.due \ {d}]
      BY <2>2, <2>7, <2>3
    <3>11. poller' \in Poller
      <4>1. claims + 1 \in Nat
        BY <3>9
      <4>2. [poller EXCEPT !.pc = "enqueue", !.task = d[1], !.claim = claims + 1,
                           !.due = poller.due \ {d}] \in Poller
        BY ONLY <2>3, <2>5, <2>6, <4>1, PollerClaimed, Zenon
      <4>3. QED
        BY <3>10, <4>2
    <3>12. fired' \in [TaskIds -> Nat]
      BY <2>2, <2>6, <2>7 DEF IInv, TypeOK
    <3>18. crossed' \subseteq TaskIds
      <4>1. crossed' \in {crossed, crossed \cup {d[1]}}
        BY <2>2, <2>7
      <4>2. QED
        BY <2>6, <4>1 DEF IInv, TypeOK
    <3>13. UNCHANGED <<now, runs, queue, phase, worker, client, restarts,
                       used, deleted, taken, lost, dropped>>
      BY <1>2 DEF ClaimDue
    <3>14. TypeOK'
      BY <3>5, <3>9, <3>11, <3>12, <3>13, <3>18 DEF IInv, TypeOK
    <3>15. JobsNamed' /\ CopiesPaired'
      BY <3>8, <3>13 DEF IInv, JobsNamed, CopiesPaired, Paired
    <3>16. CopiesBacked'
      BY RunsKept, <3>5, <3>13 DEF IInv, CopiesBacked
    <3>17. QED
      BY <3>14, <3>15, <3>16 DEF IInv
  <2>8. CASE ~IsDue(tasks[d[1]], seen)
    <3>1. poller' \in Poller
      BY <2>2, <2>3, <2>5, <2>8, PollerRecords
    <3>2. QED
      BY RunsKept, <1>2, <2>2, <2>8, <3>1 DEF ClaimDue, IInv, TypeOK, JobsNamed, CopiesPaired,
         CopiesBacked, Paired
  <2>9. QED
    BY <2>7, <2>8
<1>3. CASE EnqueueClaim
  <2>1. /\ poller \in Poller /\ now \in Nat /\ QueueMax \in Nat
        /\ queue \in Seq(Entry) /\ Len(queue) <= QueueMax /\ lost \subseteq Nat
    BY ConstantsAssumption DEF IInv, TypeOK
  <2>2. /\ poller.due \in SUBSET (TaskIds \X Schedule)
        /\ poller.claim \in Nat
        /\ [task |-> poller.task, trigger |-> "scheduled", claim |-> poller.claim] \in Entry
    BY <2>1 DEF Poller, Entry
  <2>3. poller' \in Poller
    BY <1>3, <2>1, <2>2, PollerRecords DEF EnqueueClaim
  <2>4. queue' \in Seq(Entry) /\ Len(queue') <= QueueMax /\ lost' \subseteq Nat
    <3> DEFINE e == [task |-> poller.task, trigger |-> "scheduled", claim |-> poller.claim]
    <3>1. \/ Len(queue) < QueueMax /\ queue' = Append(queue, e) /\ lost' = lost
          \/ lost' = lost \cup {poller.claim} /\ queue' = queue
      BY <1>3 DEF EnqueueClaim
    <3>2. e \in Entry
      BY <2>2
    <3> HIDE DEF e
    <3>3. lost' \subseteq Nat
      BY <2>1, <2>2, <3>1
    <3>4. CASE Len(queue) < QueueMax /\ queue' = Append(queue, e)
      <4>1. queue' \in Seq(Entry) /\ Len(queue') = Len(queue) + 1
        BY <2>1, <3>2, <3>4, AppendProperties
      <4>2. QED
        BY <2>1, <3>3, <3>4, <4>1
    <3>5. QED
      BY <2>1, <3>1, <3>3, <3>4
  <2>5. QED
    BY RunsKept, <1>3, <2>3, <2>4 DEF EnqueueClaim, IInv, TypeOK, JobsNamed, CopiesPaired,
       CopiesBacked, Paired
<1>4. CASE PollerExits
  <2>1. poller' \in Poller
    BY <1>4, PollerRecords DEF PollerExits, IInv, TypeOK
  <2>2. QED
    BY RunsKept, <1>4, <2>1 DEF PollerExits, observed, IInv, TypeOK, JobsNamed, CopiesPaired,
       CopiesBacked, Paired
<1>5. QED
  BY <1>1, <1>2, <1>3, <1>4 DEF PollerStep

\* Saving a good record keeps the repository good.
LEMMA TaskSaved ==
    ASSUME IInv, NEW t, NEW new \in Task, Paired(new),
           new.lastStatus = "failed" => t \in EverFailed
    PROVE  LET saved == [tasks EXCEPT ![t] = new] IN
           /\ saved \in [TaskIds -> Task]
           /\ \A u \in TaskIds : Paired(saved[u])
           /\ \A u \in TaskIds : saved[u].lastStatus = "failed" => u \in EverFailed
<1>1. tasks \in [TaskIds -> Task]
  BY DEF IInv, TypeOK
<1>2. \A u \in TaskIds : Paired(tasks[u]) /\ (tasks[u].lastStatus = "failed" => u \in EverFailed)
  BY DEF IInv, CopiesPaired, CopiesBacked
<1>3. QED
  BY <1>1, <1>2

\* Saving a run adds it to the repository or pushes the oldest one out; a task
\* with a failed run is not forgotten.
LEMMA RunSaved ==
    ASSUME TypeOK, NEW run \in TaskIds \cup {NoTask}, SaveRun(run)
    PROVE  /\ runs' \in Seq(TaskIds \cup {NoTask})
           /\ Len(runs') <= MaxRuns
           /\ dropped' \subseteq TaskIds
           /\ EverFailed' = EverFailed \cup ({run} \ {NoTask})
<1> DEFINE Ids == TaskIds \cup {NoTask}
           Held(s) == {s[i] : i \in 1 .. Len(s)}
<1>1. runs \in Seq(Ids) /\ Len(runs) \in Nat /\ Len(runs) <= MaxRuns /\ dropped \subseteq TaskIds
  BY LenProperties DEF TypeOK
<1>2. MaxRuns \in Nat \ {0} /\ run \in Ids
  BY ConstantsAssumption
<1>3. FailedRuns = Held(runs) \ {NoTask}
  BY <1>1, LenProperties DEF FailedRuns
<1>4. ASSUME NEW s \in Seq(Ids)
      PROVE  /\ Append(s, run) \in Seq(Ids)
             /\ Len(Append(s, run)) = Len(s) + 1
             /\ Held(Append(s, run)) = Held(s) \cup {run}
  <2>1. /\ Append(s, run) \in Seq(Ids) /\ Len(Append(s, run)) = Len(s) + 1
        /\ Append(s, run)[Len(s) + 1] = run
        /\ \A i \in 1 .. Len(s) : Append(s, run)[i] = s[i]
    BY <1>2, AppendProperties
  <2>2. Len(s) \in Nat
    BY LenProperties
  <2>3. 1 .. (Len(s) + 1) = (1 .. Len(s)) \cup {Len(s) + 1}
    BY <2>2
  <2>4. QED
    BY <2>1, <2>3
<1>5. CASE Len(runs) < MaxRuns
  <2>1. runs' = Append(runs, run) /\ dropped' = dropped
    BY <1>5 DEF SaveRun
  <2>2. /\ runs' \in Seq(Ids) /\ Len(runs') = Len(runs) + 1
        /\ Held(runs') = Held(runs) \cup {run}
    BY <1>1, <1>4, <2>1
  <2>3. FailedRuns' = Held(runs') \ {NoTask}
    BY <2>2, LenProperties DEF FailedRuns
  <2>4. EverFailed' = EverFailed \cup ({run} \ {NoTask})
    BY <1>3, <2>1, <2>2, <2>3 DEF EverFailed
  <2>5. QED
    BY <1>1, <1>2, <1>5, <2>1, <2>2, <2>4
<1>6. CASE ~(Len(runs) < MaxRuns)
  <2>1. runs' = Append(Tail(runs), run) /\ dropped' = dropped \cup ({Head(runs)} \ {NoTask})
    BY <1>6 DEF SaveRun
  <2>2. Len(runs) = MaxRuns /\ runs # <<>> /\ Len(runs) > 0
    BY <1>1, <1>2, <1>6
  <2>3. /\ Tail(runs) \in Seq(Ids) /\ Len(Tail(runs)) = Len(runs) - 1
        /\ \A i \in 1 .. Len(Tail(runs)) : Tail(runs)[i] = runs[i + 1]
        /\ Head(runs) = runs[1] /\ Head(runs) \in Ids
    BY <1>1, <2>2, HeadTailProperties
  <2>4. Held(runs) = Held(Tail(runs)) \cup {Head(runs)}
    <3>1. \A x : x \in Held(runs) => x \in Held(Tail(runs)) \cup {Head(runs)}
      <4>1. SUFFICES ASSUME NEW i \in 1 .. Len(runs)
                     PROVE  runs[i] \in Held(Tail(runs)) \cup {Head(runs)}
        OBVIOUS
      <4>2. CASE i = 1
        BY <2>3, <4>2
      <4>3. CASE i # 1
        <5>1. i - 1 \in 1 .. Len(Tail(runs)) /\ (i - 1) + 1 = i
          BY <1>1, <2>3, <4>3
        <5>2. Tail(runs)[i - 1] = runs[i]
          BY <2>3, <5>1
        <5>3. QED
          BY <5>1, <5>2
      <4>4. QED
        BY <4>2, <4>3
    <3>2. \A i \in 1 .. Len(Tail(runs)) : i + 1 \in 1 .. Len(runs)
      BY <1>1, <2>3
    <3>3. 1 \in 1 .. Len(runs)
      BY <1>1, <2>2
    <3>4. QED
      BY <2>3, <3>1, <3>2, <3>3
  <2>5. /\ runs' \in Seq(Ids) /\ Len(runs') = Len(Tail(runs)) + 1
        /\ Held(runs') = Held(Tail(runs)) \cup {run}
    BY <1>4, <2>1, <2>3
  <2>6. FailedRuns' = Held(runs') \ {NoTask}
    BY <2>5, LenProperties DEF FailedRuns
  <2> HIDE DEF Held
  <2>7. EverFailed' = EverFailed \cup ({run} \ {NoTask})
    BY <1>3, <2>1, <2>4, <2>5, <2>6 DEF EverFailed
  <2>8. dropped' \subseteq TaskIds
    BY <1>1, <2>1, <2>3
  <2>9. Len(runs') <= MaxRuns
    BY <1>1, <1>2, <2>2, <2>3, <2>5
  <2>10. QED
    BY <2>5, <2>7, <2>8, <2>9
<1>7. QED
  BY <1>5, <1>6

\* Requests preserve the invariant.
LEMMA IInvBegin ==
    ASSUME IInv, NEW c \in Clients, NEW t \in TaskIds, NEW op \in RequestKinds,
           NEW status \in Statuses, NEW s \in Schedule, Begin(c, t, op, status, s)
    PROVE  IInv'
<1> DEFINE r == [op |-> op, task |-> t, snap |-> tasks[t], at |-> now,
                 status |-> status, schedule |-> s]
<1>1. tasks[t] \in Task /\ now \in Nat
  BY DEF IInv, TypeOK
<1>2. r \in Client
  BY <1>1 DEF Client
<1>3. /\ Paired(tasks[t])
      /\ tasks[t].lastStatus = "failed" => t \in EverFailed
  BY DEF IInv, CopiesPaired, CopiesBacked
<1>4. /\ r.snap = tasks[t]
      /\ r.task = t
  OBVIOUS
<1>5. client' = [client EXCEPT ![c] = r]
  BY DEF Begin
<1> HIDE DEF r
<1>6. client' \in [Clients -> Client]
  BY <1>2, <1>5 DEF IInv, TypeOK
<1>7. \A k \in Clients : client'[k] = client[k] \/ (k = c /\ client'[k] = r)
  BY <1>5 DEF IInv, TypeOK
<1>8. UNCHANGED <<now, tasks, runs, queue, phase, poller, worker, restarts, observed>>
  BY DEF Begin
<1>9. TypeOK' /\ JobsNamed'
  BY <1>4, <1>6, <1>7, <1>8 DEF IInv, TypeOK, JobsNamed, observed
<1>10. CopiesPaired' /\ CopiesBacked'
  BY RunsKept, <1>3, <1>4, <1>7, <1>8 DEF IInv, CopiesPaired,
     CopiesBacked, Paired, observed
<1>11. QED
  BY <1>9, <1>10 DEF IInv

LEMMA IInvOperation == IInv /\ Operation => IInv'
<1> SUFFICES ASSUME IInv, Operation PROVE IInv'
  OBVIOUS
<1>1. ASSUME NEW t \in TaskIds, CreateTask(t) PROVE IInv'
  <2>1. PICK type \in Types, s \in Schedules :
           tasks' = [tasks EXCEPT ![t] =
                [type |-> type, status |-> "active", schedule |-> s,
                 nextRunAt |-> IF type = "manual" THEN None ELSE NextRun(s, now),
                 lastStatus |-> "none"]]
    BY <1>1 DEF CreateTask
  <2> DEFINE next == IF type = "manual" THEN None ELSE NextRun(s, now)
             new == [type |-> type, status |-> "active", schedule |-> s,
                     nextRunAt |-> next, lastStatus |-> "none"]
  <2>2. type \in TaskTypes /\ s \in Schedule /\ now \in Nat
    BY ConstantsAssumption DEF IInv, TypeOK
  <2>3. next \in Time \cup {None} /\ (s.mode = "manual" => next = None)
    BY <2>2, NextRunType
  <2> HIDE DEF next
  <2>4. new \in Task /\ Paired(new) /\ new.lastStatus = "none"
    BY <2>2, <2>3 DEF Task, Paired
  <2>5. tasks' = [tasks EXCEPT ![t] = new]
    BY <2>1 DEF next
  <2> HIDE DEF new
  <2>6. /\ tasks' \in [TaskIds -> Task]
        /\ \A u \in TaskIds : Paired(tasks'[u])
        /\ \A u \in TaskIds : tasks'[u].lastStatus = "failed" => u \in EverFailed
    BY <2>4, <2>5, TaskSaved
  <2>7. QED
    BY RunsKept, <1>1, <2>6 DEF CreateTask, IInv, TypeOK, JobsNamed, CopiesPaired,
       CopiesBacked, Paired
<1>2. ASSUME NEW t \in TaskIds, DeleteTask(t) PROVE IInv'
  <2>1. Absent \in Task /\ Paired(Absent) /\ Absent.lastStatus = "none"
    BY ConstantTypes DEF Absent, Paired
  <2>2. /\ tasks' \in [TaskIds -> Task]
        /\ \A u \in TaskIds : Paired(tasks'[u])
        /\ \A u \in TaskIds : tasks'[u].lastStatus = "failed" => u \in EverFailed
    BY <1>2, <2>1, TaskSaved DEF DeleteTask
  <2>3. QED
    BY RunsKept, <1>2, <2>2 DEF DeleteTask, IInv, TypeOK, JobsNamed, CopiesPaired,
       CopiesBacked, Paired
<1>5. ASSUME RunFlow PROVE IInv'
  <2>1. /\ runs' \in Seq(TaskIds \cup {NoTask}) /\ Len(runs') <= MaxRuns
        /\ dropped' \subseteq TaskIds
        /\ EverFailed' = EverFailed \cup ({NoTask} \ {NoTask})
    BY <1>5, RunSaved DEF RunFlow, IInv
  <2>2. EverFailed' = EverFailed
    BY <2>1
  <2>3. UNCHANGED <<now, tasks, queue, phase, poller, worker, client, restarts,
                    used, deleted, claims, taken, lost, fired, crossed>>
    BY <1>5 DEF RunFlow
  <2>4. TypeOK' /\ JobsNamed' /\ CopiesPaired'
    BY <2>1, <2>3 DEF IInv, TypeOK, JobsNamed, CopiesPaired, Paired
  <2>5. CopiesBacked'
    BY <2>2, <2>3 DEF IInv, CopiesBacked
  <2>6. QED
    BY <2>4, <2>5 DEF IInv
<1>3. ASSUME NEW c \in Clients, NEW t \in TaskIds,
             BeginUpdate(c, t) \/ BeginResume(c, t) \/ BeginTrigger(c, t) \/ BeginRetry(c, t)
      PROVE IInv'
  <2>1. tasks[t].schedule \in Schedule
    BY DEF IInv, TypeOK, Task
  <2>2. PICK op \in RequestKinds, status \in Statuses, s \in Schedule :
           Begin(c, t, op, status, s)
    BY <1>3, <2>1, ConstantsAssumption DEF BeginUpdate, BeginResume, BeginTrigger, BeginRetry
  <2>3. QED
    BY <2>2, IInvBegin
<1>4. QED
  BY <1>1, <1>2, <1>3, <1>5 DEF Operation

LEMMA IInvCommit ==
    ASSUME IInv, NEW c \in Clients, Commit(c)
    PROVE  IInv'
<1>1. /\ client[c] \in Client /\ client[c].at \in Nat /\ now \in Nat
      /\ client \in [Clients -> Client]
  BY DEF IInv, TypeOK, Client
<1>2. /\ Paired(client[c].snap)
      /\ client[c].snap.lastStatus = "failed" => client[c].task \in EverFailed
  BY DEF IInv, CopiesPaired, CopiesBacked
<1>3. /\ IdleClient \in Client /\ Paired(IdleClient.snap)
      /\ IdleClient.snap.lastStatus = "none" /\ IdleClient.op = "none"
  BY ConstantTypes DEF IdleClient, Absent, Paired
<1>4. client' = [client EXCEPT ![c] = IdleClient]
  BY DEF Commit, CommitUpdate, CommitResume, CommitTrigger
<1>5. /\ client' \in [Clients -> Client]
      /\ \A k \in Clients : client'[k] = client[k] \/ client'[k] = IdleClient
  BY <1>1, <1>3, <1>4
<1>6. CASE CommitUpdate(c) \/ CommitResume(c)
  <2>1. PICK base \in client[c].at .. now :
           \/ tasks' = [tasks EXCEPT ![client[c].task] = UpdatedTask(client[c], base)]
           \/ tasks' = [tasks EXCEPT ![client[c].task] = ResumedTask(client[c], base)]
    BY <1>6 DEF CommitUpdate, CommitResume
  <2>2. base \in Nat
    BY <1>1
  <2>3. PICK new : /\ tasks' = [tasks EXCEPT ![client[c].task] = new]
                   /\ new \in Task
                   /\ Paired(new)
                   /\ new.lastStatus = client[c].snap.lastStatus
    BY <1>1, <1>2, <2>1, <2>2, RequestRecords
  <2>4. /\ tasks' \in [TaskIds -> Task]
        /\ \A u \in TaskIds : Paired(tasks'[u])
        /\ \A u \in TaskIds : tasks'[u].lastStatus = "failed" => u \in EverFailed
    BY <1>2, <2>3, TaskSaved
  <2>5. UNCHANGED <<now, runs, queue, phase, poller, worker, restarts,
                    used, deleted, claims, taken, lost, fired, dropped>>
    BY <1>6 DEF CommitUpdate, CommitResume, observed
  <2>9. crossed' \subseteq TaskIds
    <3>1. client[c].op # "none" => client[c].task \in TaskIds
      BY DEF IInv, JobsNamed
    <3>2. QED
      BY <1>6, <3>1 DEF CommitUpdate, CommitResume, observed, IInv, TypeOK
  <2>6. TypeOK' /\ JobsNamed'
    BY <1>3, <1>5, <2>4, <2>5, <2>9 DEF IInv, TypeOK, JobsNamed
  <2>7. CopiesPaired' /\ CopiesBacked'
    BY RunsKept, <1>3, <1>5, <2>4, <2>5 DEF IInv, CopiesPaired,
       CopiesBacked, Paired
  <2>8. QED
    BY <2>6, <2>7 DEF IInv
<1>7. CASE CommitTrigger(c)
  <2> DEFINE entry == [task |-> client[c].task, claim |-> 0,
                       trigger |-> IF client[c].op = "retry" THEN "retry" ELSE "manual"]
  <2>1. entry \in Entry
    BY <1>1 DEF Entry, Client
  <2>2. queue' = (IF Len(queue) < QueueMax THEN Append(queue, entry) ELSE queue)
    BY <1>7 DEF CommitTrigger
  <2> HIDE DEF entry
  <2>3. queue' \in Seq(Entry) /\ Len(queue') <= QueueMax
    BY <2>1, <2>2, ConstantsAssumption DEF IInv, TypeOK
  <2>4. UNCHANGED <<now, tasks, runs, phase, poller, worker, restarts, observed>>
    BY <1>7 DEF CommitTrigger
  <2>5. TypeOK' /\ JobsNamed'
    BY <1>3, <1>5, <2>3, <2>4 DEF IInv, TypeOK, JobsNamed, observed
  <2>6. CopiesPaired' /\ CopiesBacked'
    BY RunsKept, <1>3, <1>5, <2>4 DEF IInv, CopiesPaired, CopiesBacked, Paired, observed
  <2>7. QED
    BY <2>5, <2>6 DEF IInv
<1>8. QED
  BY <1>6, <1>7 DEF Commit

\* A worker between two entries holds no copy.
LEMMA LoopHead ==
    /\ AtLoopHead \in Worker
    /\ AtLoopHead.pc \in {"idle", "exited"}
    /\ Paired(AtLoopHead.snap)
    /\ AtLoopHead.last = "none"
    /\ AtLoopHead.snap.lastStatus = "none"
<1>1. /\ IdleWorker \in Worker
      /\ [IdleWorker EXCEPT !.pc = "exited"] \in Worker
  BY ConstantTypes DEF IdleWorker, Worker
<1>2. QED
  BY <1>1 DEF AtLoopHead, IdleWorker, Absent, Paired

\* An attempt keeps the copy of the task and remembers its outcome.
LEMMA Attempt ==
    ASSUME NEW job \in Worker, NEW outcome \in RunStatuses
    PROVE  LET next == AfterAttempt(job, outcome) IN
           /\ next \in Worker
           /\ next.pc \in {job.pc, "write"}
           /\ next.task = job.task
           /\ next.snap = job.snap
           /\ next.last = outcome
<1> DEFINE tried == [job EXCEPT !.last = outcome]
           next == AfterAttempt(job, outcome)
<1>1. /\ tried \in Worker
      /\ tried.pc = job.pc /\ tried.task = job.task /\ tried.snap = job.snap
      /\ tried.last = outcome
  BY DEF Worker
<1>2. next \in {[tried EXCEPT !.attempt = @ + 1],
                [tried EXCEPT !.flow = @ + 1, !.attempt = 0],
                [tried EXCEPT !.pc = "write"]}
  BY DEF AfterAttempt
<1> HIDE DEF tried, next
<1>3. ASSUME next = [tried EXCEPT !.attempt = @ + 1] PROVE
      /\ next \in Worker /\ next.pc = tried.pc
      /\ next.task = tried.task /\ next.snap = tried.snap /\ next.last = tried.last
  BY <1>1, <1>3 DEF Worker
<1>4. ASSUME next = [tried EXCEPT !.flow = @ + 1, !.attempt = 0] PROVE
      /\ next \in Worker /\ next.pc = tried.pc
      /\ next.task = tried.task /\ next.snap = tried.snap /\ next.last = tried.last
  <2> DEFINE n == tried.flow + 1
             m == 0
  <2>1. n \in Nat /\ m \in Nat
    BY <1>1 DEF Worker
  <2>2. next = [tried EXCEPT !.flow = n, !.attempt = m]
    BY <1>4
  <2> HIDE DEF n, m
  <2>3. QED
    BY <1>1, <2>1, <2>2 DEF Worker
<1>5. ASSUME next = [tried EXCEPT !.pc = "write"] PROVE
      /\ next \in Worker /\ next.pc = "write"
      /\ next.task = tried.task /\ next.snap = tried.snap /\ next.last = tried.last
  BY <1>1, <1>5 DEF Worker
<1>6. QED
  BY <1>1, <1>2, <1>3, <1>4, <1>5 DEF next

\* What a step of one worker must establish about its own record.
LEMMA WorkerSaved ==
    ASSUME IInv, NEW w \in Workers, NEW job \in Worker, NEW failed,
           EverFailed \subseteq failed,
           job.pc \in {"read", "run", "write"} => job.task \in TaskIds,
           Paired(job.snap),
           "failed" \in {job.last, job.snap.lastStatus} => job.task \in failed,
           worker' = [worker EXCEPT ![w] = job],
           EverFailed' = failed,
           UNCHANGED <<tasks, client>>
    PROVE  /\ worker' \in [Workers -> Worker]
           /\ JobsNamed'
           /\ CopiesPaired'
           /\ CopiesBacked'
<1>1. worker \in [Workers -> Worker]
  BY DEF IInv, TypeOK
<1>2. /\ worker' \in [Workers -> Worker]
      /\ \A v \in Workers : worker'[v] = worker[v] \/ worker'[v] = job
  BY <1>1
<1>3. JobsNamed'
  BY <1>2 DEF IInv, JobsNamed
<1>4. CopiesPaired'
  BY <1>2 DEF IInv, CopiesPaired, Paired
<1>5. CopiesBacked'
  BY <1>2 DEF IInv, CopiesBacked
<1>6. QED
  BY <1>2, <1>3, <1>4, <1>5

LEMMA IInvWorker ==
    ASSUME IInv, NEW w \in Workers, WorkerStep(w)
    PROVE  IInv'
<1>1. /\ worker \in [Workers -> Worker] /\ worker[w] \in Worker
      /\ Paired(worker[w].snap)
      /\ "failed" \in {worker[w].last, worker[w].snap.lastStatus} => worker[w].task \in EverFailed
  BY DEF IInv, TypeOK, CopiesPaired, CopiesBacked
<1>2. CASE TakeEntry(w)
  <2> DEFINE job == IF Head(queue).task = NoTask THEN AtLoopHead
                    ELSE [IdleWorker EXCEPT !.pc = "read", !.task = Head(queue).task,
                                            !.claim = Head(queue).claim]
  <2>1. /\ Head(queue) \in Entry
        /\ Tail(queue) \in Seq(Entry)
        /\ Len(Tail(queue)) <= QueueMax
    BY <1>2, ConstantsAssumption DEF TakeEntry, IInv, TypeOK
  <2>2. ASSUME NEW t \in TaskIds, NEW n \in Nat
        PROVE  LET taking == [IdleWorker EXCEPT !.pc = "read", !.task = t, !.claim = n] IN
               /\ taking \in Worker
               /\ taking.task = t /\ Paired(taking.snap)
               /\ taking.last = "none" /\ taking.snap.lastStatus = "none"
    BY ConstantTypes DEF IdleWorker, Worker, Absent, Paired
  <2>3. Head(queue).task \in TaskIds \cup {NoTask} /\ Head(queue).claim \in Nat
    BY <2>1 DEF Entry
  <2>4. /\ job \in Worker
        /\ job.pc \in {"read", "run", "write"} => job.task \in TaskIds
        /\ Paired(job.snap)
        /\ job.last = "none" /\ job.snap.lastStatus = "none"
    BY <2>2, <2>3, LoopHead
  <2>5. worker' = [worker EXCEPT ![w] = job] /\ queue' = Tail(queue)
    BY <1>2 DEF TakeEntry
  <2> HIDE DEF job
  <2>6. UNCHANGED <<now, tasks, runs, phase, poller, client, restarts, observed>>
    BY <1>2 DEF TakeEntry
  <2>9. EverFailed' = EverFailed
    BY <2>6, RunsKept DEF observed
  <2>7. /\ worker' \in [Workers -> Worker]
        /\ JobsNamed' /\ CopiesPaired' /\ CopiesBacked'
    BY <1>1, <2>4, <2>5, <2>6, <2>9, WorkerSaved
  <2>8. QED
    BY <2>1, <2>5, <2>6, <2>7 DEF IInv, TypeOK, observed
<1>3. CASE WorkerExits(w)
  <2>1. /\ worker' = [worker EXCEPT ![w] = AtLoopHead]
        /\ UNCHANGED <<now, tasks, runs, queue, phase, poller, client, restarts,
                       observed>>
    BY <1>3 DEF WorkerExits
  <2>4. EverFailed' = EverFailed
    BY <2>1, RunsKept DEF observed
  <2>2. /\ worker' \in [Workers -> Worker]
        /\ JobsNamed' /\ CopiesPaired' /\ CopiesBacked'
    BY <1>1, <2>1, <2>4, LoopHead, WorkerSaved
  <2>3. QED
    BY <2>1, <2>2 DEF IInv, TypeOK, observed
<1>4. CASE ReadTask(w)
  <2> DEFINE task == tasks[worker[w].task]
             job == IF task.status # "active" THEN AtLoopHead
                    ELSE [worker[w] EXCEPT !.pc = "run", !.snap = task]
  <2>1. worker[w].task \in TaskIds
    BY <1>4 DEF ReadTask, IInv, JobsNamed
  <2>2. /\ task \in Task /\ Paired(task)
        /\ task.lastStatus = "failed" => worker[w].task \in EverFailed
    BY <2>1 DEF IInv, TypeOK, CopiesPaired, CopiesBacked
  <2>3. worker' = [worker EXCEPT ![w] = job]
    BY <1>1, <1>4 DEF ReadTask
  <2> HIDE DEF task
  <2>4. LET reading == [worker[w] EXCEPT !.pc = "run", !.snap = task] IN
        /\ reading \in Worker
        /\ reading.task = worker[w].task
        /\ reading.last = worker[w].last
        /\ reading.snap = task
    BY <1>1, <2>2 DEF Worker
  <2>5. /\ job \in Worker
        /\ job.pc \in {"read", "run", "write"} => job.task \in TaskIds
        /\ Paired(job.snap)
        /\ "failed" \in {job.last, job.snap.lastStatus} => job.task \in EverFailed
    BY <1>1, <2>1, <2>2, <2>4, LoopHead
  <2> HIDE DEF job
  <2>6. UNCHANGED <<now, tasks, runs, queue, phase, poller, client, restarts,
                    used, deleted, claims, lost, fired, crossed,
                    dropped>>
    BY <1>4 DEF ReadTask
  <2>10. EverFailed' = EverFailed
    BY <2>6, RunsKept
  <2>7. /\ worker' \in [Workers -> Worker]
        /\ JobsNamed' /\ CopiesPaired' /\ CopiesBacked'
    BY <1>1, <2>3, <2>5, <2>6, <2>10, WorkerSaved
  <2>8. taken' \subseteq Nat
    BY <1>1, <1>4 DEF ReadTask, Worker, IInv, TypeOK
  <2>9. QED
    BY <2>6, <2>7, <2>8 DEF IInv, TypeOK
<1>5. CASE RunAttempt(w)
  <2>1. PICK outcome \in Outcomes :
           /\ worker' = [worker EXCEPT ![w] = AfterAttempt(worker[w], outcome)]
           /\ SaveRun(IF outcome = "failed" THEN worker[w].task ELSE NoTask)
    BY <1>1, <1>5 DEF RunAttempt
  <2> DEFINE job == AfterAttempt(worker[w], outcome)
  <2>2. outcome \in RunStatuses /\ worker[w].task \in TaskIds /\ worker[w].pc = "run"
    BY <1>5, ConstantsAssumption DEF RunAttempt, IInv, JobsNamed
  <2>3. /\ job \in Worker
        /\ job.task = worker[w].task
        /\ job.snap = worker[w].snap
        /\ job.last = outcome
    BY <1>1, <2>2, Attempt
  <2>4. worker' = [worker EXCEPT ![w] = job]
    BY <2>1
  <2> HIDE DEF job
  <2> DEFINE run == IF outcome = "failed" THEN worker[w].task ELSE NoTask
  <2>5. /\ runs' \in Seq(TaskIds \cup {NoTask}) /\ Len(runs') <= MaxRuns
        /\ dropped' \subseteq TaskIds
        /\ EverFailed' = EverFailed \cup ({run} \ {NoTask})
    <3>1. run \in TaskIds \cup {NoTask} /\ SaveRun(run)
      BY <2>1, <2>2
    <3> HIDE DEF run
    <3>2. QED
      BY <3>1, RunSaved DEF IInv
  <2>9. "failed" \in {job.last, job.snap.lastStatus} => job.task \in EverFailed'
    BY <1>1, <2>2, <2>3, <2>5, ConstantsAssumption
  <2>6. UNCHANGED <<now, tasks, queue, phase, poller, client, restarts,
                    used, deleted, claims, taken, lost, fired, crossed>>
    BY <1>5 DEF RunAttempt
  <2>7. /\ worker' \in [Workers -> Worker]
        /\ JobsNamed' /\ CopiesPaired' /\ CopiesBacked'
    BY <1>1, <2>2, <2>3, <2>4, <2>5, <2>9, <2>6, WorkerSaved
  <2>8. QED
    BY <2>5, <2>6, <2>7 DEF IInv, TypeOK
<1>6. CASE WriteBack(w)
  <2>1. /\ tasks' = [tasks EXCEPT ![worker[w].task] = ExecutedTask(worker[w])]
        /\ worker' = [worker EXCEPT ![w] = AtLoopHead]
        /\ UNCHANGED <<now, runs, queue, phase, poller, client, restarts, observed>>
    BY <1>6 DEF WriteBack
  <2>2. /\ ExecutedTask(worker[w]) \in Task
        /\ Paired(ExecutedTask(worker[w]))
        /\ ExecutedTask(worker[w]).lastStatus = worker[w].last
    BY <1>1, WorkerRecord
  <2>3. /\ tasks' \in [TaskIds -> Task]
        /\ \A u \in TaskIds : Paired(tasks'[u])
        /\ \A u \in TaskIds : tasks'[u].lastStatus = "failed" => u \in EverFailed
    BY <1>1, <2>1, <2>2, TaskSaved
  <2>4. /\ worker' \in [Workers -> Worker]
        /\ \A v \in Workers : worker'[v] = worker[v] \/ worker'[v] = AtLoopHead
    BY <1>1, <2>1, LoopHead
  <2>5. TypeOK'
    BY <2>1, <2>3, <2>4 DEF IInv, TypeOK, observed
  <2>6. JobsNamed' /\ CopiesPaired' /\ CopiesBacked'
    BY RunsKept, <2>1, <2>3, <2>4, LoopHead DEF IInv, JobsNamed, CopiesPaired,
       CopiesBacked, Paired, observed
  <2>7. QED
    BY <2>5, <2>6 DEF IInv
<1>7. QED
  BY <1>2, <1>3, <1>4, <1>5, <1>6 DEF WorkerStep

\* The sentinels fit into the queue.
LEMMA SentinelsFit ==
    ASSUME TypeOK
    PROVE  /\ Sentinels \in Seq({Sentinel})
           /\ Len(queue) + Len(Sentinels) <= QueueMax
<1> DEFINE room == QueueMax - Len(queue)
           wanted == Cardinality(Workers)
           k == IF wanted < room THEN wanted ELSE room
<1>1. wanted \in Nat
  BY ConstantsAssumption, FS_CardinalityType
<1>2. Len(queue) \in Nat /\ QueueMax \in Nat /\ Len(queue) <= QueueMax
  BY ConstantsAssumption DEF TypeOK
<1>3. k \in Nat /\ Len(queue) + k <= QueueMax
  BY <1>1, <1>2
<1>4. Sentinels = [i \in 1 .. k |-> Sentinel]
  BY DEF Sentinels
<1> HIDE DEF k
<1>5. Sentinels \in [1 .. k -> {Sentinel}]
  BY <1>4
<1>6. Sentinels \in Seq({Sentinel})
  BY <1>3, <1>5, SeqDef
<1>7. Len(Sentinels) = k
  BY <1>3, <1>5, <1>6, LenProperties
<1>8. QED
  BY <1>3, <1>6, <1>7

LEMMA ClaimTypes ==
    ASSUME TypeOK
    PROVE  /\ QueuedClaims \subseteq Nat
           /\ HeldClaims \subseteq Nat
           /\ PolledClaims \subseteq Nat
<1>1. \A i \in DOMAIN queue : queue[i] \in Entry
  BY LenProperties, ElementOfSeq DEF TypeOK
<1>2. QueuedClaims \subseteq Nat
  BY <1>1 DEF QueuedClaims, ClaimsIn, Entry
<1>3. HeldClaims \subseteq Nat /\ PolledClaims \subseteq Nat
  BY DEF TypeOK, HeldClaims, PolledClaims, Poller, Worker
<1>4. QED
  BY <1>2, <1>3

\* Stop adds sentinels within the bound; a restart forgets all copies.
LEMMA IInvProcess == IInv /\ (Tick \/ Stop \/ Restart \/ UNCHANGED vars) => IInv'
<1> SUFFICES ASSUME IInv, Tick \/ Stop \/ Restart \/ UNCHANGED vars PROVE IInv'
  OBVIOUS
<1>1. CASE Tick
  BY RunsKept, <1>1 DEF Tick, observed, IInv, TypeOK, JobsNamed, CopiesPaired,
     CopiesBacked, Paired
<1>2. CASE Stop
  <2>1. /\ Sentinels \in Seq(Entry)
        /\ Len(queue) + Len(Sentinels) <= QueueMax
    BY SentinelsFit, ConstantTypes, SeqMonotonic DEF IInv
  <2>2. queue' \in Seq(Entry) /\ Len(queue') <= QueueMax
    BY <1>2, <2>1, ConcatProperties DEF Stop, IInv, TypeOK
  <2>3. QED
    BY RunsKept, <1>2, <2>2 DEF Stop, observed, IInv, TypeOK, JobsNamed,
       CopiesPaired, CopiesBacked, Paired
<1>3. CASE Restart
  <2>1. /\ worker' = [w \in Workers |-> IdleWorker]
        /\ client' = [c \in Clients |-> IdleClient]
        /\ poller' = Sleeping /\ queue' = <<>> /\ phase' = "running"
        /\ restarts' = restarts + 1
        /\ UNCHANGED <<now, tasks, runs, used, deleted, claims, taken, fired, crossed,
                      dropped>>
    BY <1>3 DEF Restart
  <2>2. /\ IdleWorker.pc = "idle" /\ IdleWorker.last = "none"
        /\ IdleWorker.snap = Absent /\ IdleClient.snap = Absent /\ IdleClient.op = "none"
        /\ Paired(Absent) /\ Absent.lastStatus = "none"
    BY DEF IdleWorker, IdleClient, Absent, Paired
  <2>3. /\ queue' \in Seq(Entry) /\ Len(queue') <= QueueMax
        /\ worker' \in [Workers -> Worker] /\ client' \in [Clients -> Client]
        /\ poller' \in Poller
    BY <2>1, ConstantTypes, ConstantsAssumption
  <2>4. lost' \subseteq Nat
    <3>1. TypeOK
      BY DEF IInv
    <3>2. QED
      BY <1>3, <3>1, ClaimTypes DEF Restart, PendingClaims, TypeOK
  <2>5. TypeOK'
    BY <2>1, <2>3, <2>4 DEF IInv, TypeOK
  <2>6. JobsNamed' /\ CopiesPaired' /\ CopiesBacked'
    BY RunsKept, <2>1, <2>2 DEF IInv, JobsNamed, CopiesPaired,
       CopiesBacked, Paired
  <2>7. QED
    BY <2>5, <2>6 DEF IInv
<1>4. CASE UNCHANGED vars
  BY RunsKept, <1>4 DEF vars, observed, IInv, TypeOK, JobsNamed, CopiesPaired,
     CopiesBacked, Paired
<1>5. QED
  BY <1>1, <1>2, <1>3, <1>4

LEMMA IInvStep == IInv /\ [Next]_vars => IInv'
BY IInvPoller, IInvOperation, IInvCommit, IInvWorker, IInvProcess DEF Next

LEMMA IInvHolds == Spec => []IInv
<1>1. Init => IInv
  BY IInvInit
<1>2. IInv /\ [Next]_vars => IInv'
  BY IInvStep
<1>3. QED
  BY <1>1, <1>2, PTL DEF Spec

\* Every variable keeps the shape the code gives it, and the queue its bound
\* (task_service.py TaskRuntime._queue).
THEOREM TypeCorrect == Spec => []TypeOK
BY IInvHolds, PTL DEF IInv

\* No interleaving of stale saves leaves a next run on a task with a manual
\* schedule (update_task, resume_task, execute_task_now, claim_due_task).
THEOREM ManualTasksUnarmed == Spec => []ManualNeverArmed
<1>1. IInv => ManualNeverArmed
  BY DEF IInv, CopiesPaired, Paired, ManualNeverArmed
<1>2. QED
  BY <1>1, IInvHolds, PTL

\* A task record never names a failed last run that was not stored: a failed
\* run of the task is in the repository, or newer runs have pushed it out
\* (execute_task_now, _build_failed_run, RunRepository.save).
THEOREM FailuresBacked == Spec => []FailureIsBacked
<1>1. IInv => FailureIsBacked
  BY DEF IInv, CopiesBacked, EverFailed, FailedRuns, FailureIsBacked
<1>2. QED
  BY <1>1, IInvHolds, PTL

(***************************************************************************)
(* The instant of a "once" task.  Like the pairing with manual schedules   *)
(* it must hold of every copy, and it is not kept by an edit of a task     *)
(* that is not active, nor by a claim with the schedule of a snapshot:     *)
(* both put the task into `crossed', where a later save of a stale copy    *)
(* cannot take it out again.                                               *)
(***************************************************************************)

Timed(task) == task.schedule.mode = "once" => task.nextRunAt \in {None, task.schedule.arg}

CopiesTimed ==
    /\ \A t \in TaskIds : t \in crossed \/ Timed(tasks[t])
    /\ \A w \in Workers : worker[w].task \in crossed \/ Timed(worker[w].snap)
    /\ \A c \in Clients : client[c].task \in crossed \/ Timed(client[c].snap)

\* The next run of a "once" schedule is its instant, whatever the base.
LEMMA OnceNextRun ==
    ASSUME NEW s, NEW base, s.mode = "once"
    PROVE  NextRun(s, base) \in {None, s.arg}
BY DEF NextRun

\* A step keeps the copies timed if whatever it writes is timed.
LEMMA TimedSaved ==
    ASSUME CopiesTimed, crossed \subseteq crossed',
           \A t \in TaskIds : tasks'[t] = tasks[t] \/ t \in crossed' \/ Timed(tasks'[t]),
           \A w \in Workers :
              \/ worker'[w].task = worker[w].task /\ worker'[w].snap = worker[w].snap
              \/ worker'[w].task \in crossed'
              \/ Timed(worker'[w].snap),
           \A c \in Clients :
              \/ client'[c] = client[c]
              \/ client'[c].task \in crossed'
              \/ Timed(client'[c].snap)
    PROVE  CopiesTimed'
BY DEF CopiesTimed, Timed

LEMMA TimedInit == Init => CopiesTimed
BY DEF Init, CopiesTimed, Timed, IdleWorker, IdleClient, Absent, ManualSchedule

\* Only a claim touches what is stored of a task.
LEMMA TimedPoller ==
    ASSUME IInv, CopiesTimed, PollerStep
    PROVE  CopiesTimed'
<1>1. UNCHANGED <<worker, client>>
  BY DEF PollerStep, PollDue, ClaimDue, EnqueueClaim, PollerExits
<1>2. CASE ClaimDue
  <2>1. PICK d, base, seen :
        /\ d \in poller.due
        /\ IF IsDue(tasks[d[1]], seen)
           THEN /\ tasks' = [tasks EXCEPT ![d[1]].nextRunAt = NextRun(d[2], base)]
                /\ crossed' = IF d[2] = tasks[d[1]].schedule THEN crossed
                              ELSE crossed \cup {d[1]}
           ELSE UNCHANGED <<tasks, crossed>>
    BY <1>2 DEF ClaimDue
  <2>2. CASE ~IsDue(tasks[d[1]], seen)
    BY <1>1, <2>1, <2>2, TimedSaved
  <2>3. CASE IsDue(tasks[d[1]], seen)
    <3> DEFINE new == [tasks[d[1]] EXCEPT !.nextRunAt = NextRun(d[2], base)]
    <3>1. d \in TaskIds \X Schedule
      BY <2>1 DEF IInv, TypeOK, Poller
    <3>2. d[1] \in TaskIds /\ tasks \in [TaskIds -> Task] /\ tasks[d[1]] \in Task
      BY <3>1 DEF IInv, TypeOK
    <3>3. tasks' = [tasks EXCEPT ![d[1]] = new]
      BY <2>1, <2>3
    <3>4. crossed \subseteq crossed' /\ (d[2] # tasks[d[1]].schedule => d[1] \in crossed')
      BY <2>1, <2>3
    <3>5. d[2] = tasks[d[1]].schedule => Timed(new)
      <4>1. /\ new.schedule = tasks[d[1]].schedule
            /\ new.nextRunAt = NextRun(d[2], base)
        BY <3>2 DEF Task
      <4> HIDE DEF new
      <4>2. QED
        BY <4>1, OnceNextRun DEF Timed
    <3> HIDE DEF new
    <3>6. \A t \in TaskIds : tasks'[t] = tasks[t] \/ t \in crossed' \/ Timed(tasks'[t])
      BY <3>2, <3>3, <3>4, <3>5
    <3>7. QED
      BY <1>1, <3>4, <3>6, TimedSaved
  <2>4. QED
    BY <2>2, <2>3
<1>3. CASE ~ClaimDue
  <2>1. UNCHANGED <<tasks, crossed>>
    BY <1>3 DEF PollerStep, PollDue, EnqueueClaim, PollerExits, observed
  <2>2. QED
    BY <1>1, <2>1, TimedSaved
<1>4. QED
  BY <1>2, <1>3

\* A request saves what it computed of its copy.
LEMMA TimedCommit ==
    ASSUME IInv, CopiesTimed, NEW c \in Clients, Commit(c)
    PROVE  CopiesTimed'
<1> DEFINE t == client[c].task
           r == client[c]
<1>1. /\ client \in [Clients -> Client] /\ tasks \in [TaskIds -> Task] /\ now \in Nat
      /\ r \in Client
  BY DEF IInv, TypeOK
<1>2. /\ client' = [client EXCEPT ![c] = IdleClient]
      /\ Timed(IdleClient.snap)
      /\ UNCHANGED worker
  BY DEF Commit, CommitUpdate, CommitResume, CommitTrigger, IdleClient, Absent,
         ManualSchedule, Timed
<1>3. t \in crossed \/ Timed(r.snap)
  BY DEF CopiesTimed
<1>4. \A k \in Clients : client'[k] = client[k] \/ Timed(client'[k].snap)
  BY <1>1, <1>2
<1>5. CASE CommitUpdate(c)
  <2>1. PICK base \in r.at .. now : tasks' = [tasks EXCEPT ![t] = UpdatedTask(r, base)]
    BY <1>5 DEF CommitUpdate
  <2>2. crossed' = IF KeepsOldNextRun(r) THEN crossed \cup {t} ELSE crossed
    BY <1>5 DEF CommitUpdate
  <2>3. /\ UpdatedTask(r, base).schedule = r.schedule
        /\ UpdatedTask(r, base).nextRunAt =
              IF r.schedule.mode = "manual" THEN None
              ELSE IF r.snap.status = "active" THEN NextRun(r.schedule, base)
              ELSE r.snap.nextRunAt
    BY <1>1 DEF UpdatedTask, Client, Task
  <2>4. t \in crossed' \/ Timed(UpdatedTask(r, base))
    <3>1. CASE r.schedule.mode = "manual" \/ r.snap.status = "active"
      BY <2>3, <3>1, OnceNextRun DEF Timed
    <3>2. CASE r.schedule.mode # "manual" /\ r.snap.status # "active" /\ r.schedule # r.snap.schedule
      BY <2>2, <3>2 DEF KeepsOldNextRun
    <3>3. CASE r.schedule.mode # "manual" /\ r.snap.status # "active" /\ r.schedule = r.snap.schedule
      BY <1>3, <2>2, <2>3, <3>3 DEF Timed
    <3>4. QED
      BY <3>1, <3>2, <3>3
  <2>5. crossed \subseteq crossed'
    BY <2>2
  <2> DEFINE new == UpdatedTask(r, base)
  <2> HIDE DEF new, r
  <2>6. \A u \in TaskIds : tasks'[u] = tasks[u] \/ u \in crossed' \/ Timed(tasks'[u])
    BY <1>1, <2>1, <2>4 DEF new
  <2>7. QED
    BY <1>2, <1>4, <2>5, <2>6, TimedSaved
<1>6. CASE CommitResume(c)
  <2>1. PICK base \in r.at .. now : tasks' = [tasks EXCEPT ![t] = ResumedTask(r, base)]
    BY <1>6 DEF CommitResume
  <2>2. crossed' = crossed
    BY <1>6 DEF CommitResume, observed
  <2>3. /\ ResumedTask(r, base).schedule = r.snap.schedule
        /\ ResumedTask(r, base).nextRunAt =
              IF r.snap.schedule.mode # "manual" THEN NextRun(r.snap.schedule, base)
              ELSE r.snap.nextRunAt
    BY <1>1 DEF ResumedTask, Client, Task
  <2>4. Timed(ResumedTask(r, base))
    BY <2>3, OnceNextRun DEF Timed
  <2> HIDE DEF r
  <2>5. \A u \in TaskIds : tasks'[u] = tasks[u] \/ u \in crossed' \/ Timed(tasks'[u])
    BY <1>1, <2>1, <2>4
  <2>6. QED
    BY <1>2, <1>4, <2>2, <2>5, TimedSaved
<1>7. CASE CommitTrigger(c)
  <2>1. UNCHANGED <<tasks, crossed>>
    BY <1>7 DEF CommitTrigger, observed
  <2>2. QED
    BY <1>2, <1>4, <2>1, TimedSaved
<1>8. QED
  BY <1>5, <1>6, <1>7 DEF Commit

\* A worker saves its copy; of a "once" schedule it clears the next run.
LEMMA TimedWorker ==
    ASSUME IInv, CopiesTimed, NEW w \in Workers, WorkerStep(w)
    PROVE  CopiesTimed'
<1>1. /\ worker \in [Workers -> Worker] /\ worker[w] \in Worker
      /\ tasks \in [TaskIds -> Task]
      /\ UNCHANGED <<client, crossed>>
  BY DEF IInv, TypeOK, WorkerStep, TakeEntry, WorkerExits, ReadTask, RunAttempt, WriteBack, observed
<1>2. Timed(AtLoopHead.snap) /\ Timed(IdleWorker.snap)
  BY DEF AtLoopHead, IdleWorker, Absent, ManualSchedule, Timed
<1>3. PICK job : /\ worker' = [worker EXCEPT ![w] = job]
                 /\ \/ job.task = worker[w].task /\ job.snap = worker[w].snap
                    \/ job.task \in crossed
                    \/ Timed(job.snap)
  <2>1. CASE TakeEntry(w)
    <3> DEFINE taking == [IdleWorker EXCEPT !.pc = "read", !.task = Head(queue).task,
                                            !.claim = Head(queue).claim]
    <3>1. taking.snap = IdleWorker.snap
      BY DEF IdleWorker
    <3>2. \/ worker' = [worker EXCEPT ![w] = AtLoopHead]
          \/ worker' = [worker EXCEPT ![w] = taking]
      BY <2>1 DEF TakeEntry
    <3> HIDE DEF taking
    <3>3. QED
      BY <1>2, <3>1, <3>2
  <2>2. CASE WorkerExits(w)
    BY <1>2, <2>2 DEF WorkerExits
  <2>3. CASE ReadTask(w)
    <3> DEFINE task == tasks[worker[w].task]
               reading == [worker[w] EXCEPT !.pc = "run", !.snap = task]
    <3>1. worker[w].task \in TaskIds
      BY <2>3 DEF ReadTask, IInv, JobsNamed
    <3>2. worker[w].task \in crossed \/ Timed(task)
      BY <3>1 DEF CopiesTimed
    <3>3. reading.task = worker[w].task /\ reading.snap = task
      BY <1>1 DEF Worker
    <3>4. \/ worker' = [worker EXCEPT ![w] = AtLoopHead]
          \/ worker' = [worker EXCEPT ![w] = reading]
      BY <1>1, <2>3 DEF ReadTask
    <3> HIDE DEF reading, task
    <3>5. QED
      BY <1>2, <3>2, <3>3, <3>4
  <2>4. CASE RunAttempt(w)
    <3>1. PICK outcome \in Outcomes : worker' = [worker EXCEPT ![w] = AfterAttempt(worker[w], outcome)]
      BY <2>4 DEF RunAttempt
    <3>2. outcome \in RunStatuses
      BY ConstantsAssumption
    <3> DEFINE job == AfterAttempt(worker[w], outcome)
    <3>3. job.task = worker[w].task /\ job.snap = worker[w].snap
      BY <1>1, <3>2, Attempt
    <3>4. worker' = [worker EXCEPT ![w] = job]
      BY <3>1
    <3> HIDE DEF job
    <3>5. QED
      BY <3>3, <3>4
  <2>5. CASE WriteBack(w)
    BY <1>2, <2>5 DEF WriteBack
  <2>6. QED
    BY <2>1, <2>2, <2>3, <2>4, <2>5 DEF WorkerStep
<1>4. \A v \in Workers : \/ worker'[v].task = worker[v].task /\ worker'[v].snap = worker[v].snap
                         \/ worker'[v].task \in crossed'
                         \/ Timed(worker'[v].snap)
  BY <1>1, <1>3
<1>5. \A t \in TaskIds : tasks'[t] = tasks[t] \/ t \in crossed' \/ Timed(tasks'[t])
  <2>1. CASE WriteBack(w)
    <3> DEFINE done == worker[w]
    <3>1. tasks' = [tasks EXCEPT ![done.task] = ExecutedTask(done)]
      BY <2>1 DEF WriteBack
    <3>2. /\ ExecutedTask(done).schedule = done.snap.schedule
          /\ ExecutedTask(done).nextRunAt =
                IF done.snap.schedule.mode = "once" THEN None ELSE done.snap.nextRunAt
      BY <1>1 DEF ExecutedTask, Worker, Task
    <3>3. Timed(ExecutedTask(done))
      BY <3>2 DEF Timed
    <3> HIDE DEF done
    <3>4. QED
      BY <1>1, <3>1, <3>3
  <2>2. CASE ~WriteBack(w)
    BY <2>2 DEF WorkerStep, TakeEntry, WorkerExits, ReadTask, RunAttempt
  <2>3. QED
    BY <2>1, <2>2
<1>6. QED
  BY <1>1, <1>4, <1>5, TimedSaved

\* New tasks are timed, and requests copy what is stored.
LEMMA TimedOperation ==
    ASSUME IInv, CopiesTimed, Operation
    PROVE  CopiesTimed'
<1>1. tasks \in [TaskIds -> Task] /\ client \in [Clients -> Client]
  BY DEF IInv, TypeOK
<1>2. ASSUME NEW t \in TaskIds, CreateTask(t) PROVE CopiesTimed'
  <2>1. PICK type \in Types, s \in Schedules :
           tasks' = [tasks EXCEPT ![t] =
                [type |-> type, status |-> "active", schedule |-> s,
                 nextRunAt |-> IF type = "manual" THEN None ELSE NextRun(s, now),
                 lastStatus |-> "none"]]
    BY <1>2 DEF CreateTask
  <2> DEFINE next == IF type = "manual" THEN None ELSE NextRun(s, now)
             new == [type |-> type, status |-> "active", schedule |-> s,
                     nextRunAt |-> next, lastStatus |-> "none"]
  <2>2. s.mode = "once" => next \in {None, s.arg}
    BY OnceNextRun
  <2>3. tasks' = [tasks EXCEPT ![t] = new]
    BY <2>1
  <2> HIDE DEF next
  <2>4. Timed(new)
    BY <2>2 DEF Timed
  <2> HIDE DEF new
  <2>5. \A u \in TaskIds : tasks'[u] = tasks[u] \/ Timed(tasks'[u])
    BY <1>1, <2>3, <2>4
  <2>6. UNCHANGED <<worker, client, crossed>>
    BY <1>2 DEF CreateTask
  <2>7. QED
    BY <2>5, <2>6, TimedSaved
<1>3. ASSUME NEW t \in TaskIds, DeleteTask(t) PROVE CopiesTimed'
  <2>1. Timed(Absent)
    BY DEF Absent, ManualSchedule, Timed
  <2>2. \A u \in TaskIds : tasks'[u] = tasks[u] \/ Timed(tasks'[u])
    BY <1>1, <1>3, <2>1 DEF DeleteTask
  <2>3. UNCHANGED <<worker, client, crossed>>
    BY <1>3 DEF DeleteTask
  <2>4. QED
    BY <2>2, <2>3, TimedSaved
<1>4. CASE RunFlow
  <2>1. UNCHANGED <<tasks, worker, client, crossed>>
    BY <1>4 DEF RunFlow
  <2>2. QED
    BY <2>1, TimedSaved
<1>5. ASSUME NEW c \in Clients, NEW t \in TaskIds, NEW op, NEW status, NEW s,
             Begin(c, t, op, status, s)
      PROVE  CopiesTimed'
  <2> DEFINE r == [op |-> op, task |-> t, snap |-> tasks[t], at |-> now,
                   status |-> status, schedule |-> s]
  <2>1. client' = [client EXCEPT ![c] = r]
    BY <1>5 DEF Begin
  <2>2. r.task \in crossed \/ Timed(r.snap)
    BY DEF CopiesTimed
  <2> HIDE DEF r
  <2>3. \A k \in Clients : client'[k] = client[k] \/ client'[k].task \in crossed \/ Timed(client'[k].snap)
    BY <1>1, <2>1, <2>2
  <2>4. UNCHANGED <<tasks, worker, crossed>>
    BY <1>5 DEF Begin, observed
  <2>5. QED
    BY <2>3, <2>4, TimedSaved
<1>6. QED
  BY <1>2, <1>3, <1>4, <1>5 DEF Operation, BeginUpdate, BeginResume, BeginTrigger, BeginRetry

LEMMA TimedStep ==
    ASSUME IInv, CopiesTimed, [Next]_vars
    PROVE  CopiesTimed'
<1>1. CASE Restart
  <2>1. /\ worker' = [w \in Workers |-> IdleWorker] /\ client' = [c \in Clients |-> IdleClient]
        /\ UNCHANGED <<tasks, crossed>>
        /\ Timed(IdleWorker.snap) /\ Timed(IdleClient.snap)
    BY <1>1 DEF Restart, IdleWorker, IdleClient, Absent, ManualSchedule, Timed
  <2>2. QED
    BY <2>1, TimedSaved
<1>2. CASE Tick \/ Stop \/ UNCHANGED vars
  <2>1. UNCHANGED <<tasks, worker, client, crossed>>
    BY <1>2 DEF Tick, Stop, vars, observed
  <2>2. QED
    BY <2>1, TimedSaved
<1>3. QED
  BY <1>1, <1>2, TimedPoller, TimedCommit, TimedWorker, TimedOperation DEF Next

\* A "once" task is armed for its own instant or for none unless two schedules
\* were crossed, whatever stale copies are saved (update_task, resume_task,
\* execute_task_now, claim_due_task).
THEOREM OnceKeepsItsInstant == Spec => []OnceAtItsInstant
<1>1. Init => IInv /\ CopiesTimed
  BY IInvInit, TimedInit
<1>2. IInv /\ CopiesTimed /\ [Next]_vars => IInv' /\ CopiesTimed'
  BY IInvStep, TimedStep
<1>3. CopiesTimed => OnceAtItsInstant
  BY DEF CopiesTimed, Timed, OnceAtItsInstant
<1>4. QED
  BY <1>1, <1>2, <1>3, PTL DEF Spec

(***************************************************************************)
(* Claims.  A claim moves from the poller to the queue, to a worker that   *)
(* has yet to look up its task, and is then taken; or it is lost.  That it *)
(* is in one place at a time needs more than ClaimsAccounted says: within  *)
(* the queue, and among the workers, no claim occurs twice.                *)
(***************************************************************************)

UniqueIn(q) == \A i, j \in DOMAIN q : i # j /\ q[i].claim = q[j].claim => q[i].claim = 0

UniqueHeld ==
    \A v, w \in Workers :
        v # w /\ worker[v].pc = "read" /\ worker[w].pc = "read" /\ worker[v].claim = worker[w].claim
            => worker[v].claim = 0

\* Every claim is with the poller, in the queue, with a worker that has not
\* looked the task up yet, taken, or lost.
ClaimsAccounted ==
    /\ PendingClaims \cup taken \cup lost = 1 .. claims
    /\ PendingClaims \cap (taken \cup lost) = {}
    /\ taken \cap lost = {}

OnePlace ==
    /\ UniqueIn(queue)
    /\ UniqueHeld
    /\ QueuedClaims \cap HeldClaims = {}
    /\ PolledClaims \cap (QueuedClaims \cup HeldClaims) = {}
    /\ poller.pc = "enqueue" => poller.claim # 0

\* An entry without a task is a sentinel, and no claim is in it.
FreeEntry == {e \in Entry : e.task = NoTask => e.claim = 0}

SentinelsFree ==
    /\ queue \in Seq(FreeEntry)
    /\ poller.pc = "enqueue" => poller.task # NoTask

CInv == IInv /\ SentinelsFree /\ OnePlace /\ ClaimsAccounted

\* Only a new claim puts the poller before its queue operation.
LEMMA PollerLeaves ==
    /\ \A due : PollerContinues(due).pc \in {"sleep", "claim"}
    /\ EnqueueClaim => poller'.pc # "enqueue"
<1>1. ASSUME NEW due PROVE PollerContinues(due).pc \in {"sleep", "claim"}
  BY DEF PollerContinues, Sleeping
<1>2. [Sleeping EXCEPT !.pc = "dead"].pc = "dead"
  BY DEF Sleeping
<1>3. EnqueueClaim => \/ poller' = PollerContinues(poller.due)
                      \/ poller' = [Sleeping EXCEPT !.pc = "dead"]
  BY DEF EnqueueClaim
<1>4. QED
  BY <1>1, <1>2, <1>3

LEMMA SentinelsStayFree == IInv /\ SentinelsFree /\ [Next]_vars => SentinelsFree'
<1> SUFFICES ASSUME IInv, SentinelsFree, [Next]_vars PROVE SentinelsFree'
  OBVIOUS
<1>1. /\ poller \in Poller /\ TypeOK /\ queue \in Seq(FreeEntry)
      /\ poller.pc = "enqueue" => poller.task # NoTask
  BY DEF IInv, TypeOK, SentinelsFree
<1>2. CASE PollDue \/ PollerExits
  BY <1>1, <1>2 DEF PollDue, PollerExits, Sleeping, SentinelsFree
<1>3. CASE ClaimDue
  <2>1. queue' = queue
    BY <1>3 DEF ClaimDue
  <2>2. PICK d \in poller.due :
           \/ poller' = [poller EXCEPT !.pc = "enqueue", !.task = d[1],
                             !.claim = claims + 1, !.due = @ \ {d}]
           \/ poller' = PollerContinues(poller.due \ {d})
    BY <1>3 DEF ClaimDue
  <2>3. d[1] # NoTask
    BY <1>1, ConstantsAssumption DEF Poller
  <2>4. PollerContinues(poller.due \ {d}).pc # "enqueue"
    BY DEF PollerContinues, Sleeping
  <2>5. CASE poller' = [poller EXCEPT !.pc = "enqueue", !.task = d[1],
                             !.claim = claims + 1, !.due = @ \ {d}]
    <3>1. poller'.task = d[1]
      BY <1>1, <2>5 DEF Poller
    <3>2. QED
      BY <1>1, <2>1, <2>3, <3>1 DEF SentinelsFree
  <2>6. QED
    BY <1>1, <2>1, <2>2, <2>4, <2>5 DEF SentinelsFree
<1>4. CASE EnqueueClaim
  <2>1. [task |-> poller.task, trigger |-> "scheduled", claim |-> poller.claim] \in FreeEntry
    BY <1>1, <1>4 DEF EnqueueClaim, Poller, Entry, FreeEntry
  <2>2. queue' \in Seq(FreeEntry)
    BY <1>1, <1>4, <2>1 DEF EnqueueClaim
  <2>3. poller'.pc # "enqueue"
    BY <1>4, PollerLeaves
  <2>4. QED
    BY <2>2, <2>3 DEF SentinelsFree
<1>5. ASSUME NEW c \in Clients, CommitTrigger(c)
      PROVE  SentinelsFree'
  <2> DEFINE entry == [task |-> client[c].task, claim |-> 0,
                       trigger |-> IF client[c].op = "retry" THEN "retry" ELSE "manual"]
  <2>1. entry \in FreeEntry
    BY <1>1 DEF TypeOK, Client, Entry, FreeEntry
  <2>2. queue' \in Seq(FreeEntry) /\ poller' = poller
    BY <1>1, <1>5, <2>1 DEF CommitTrigger
  <2>3. QED
    BY <1>1, <2>2 DEF SentinelsFree
<1>6. ASSUME NEW w \in Workers, TakeEntry(w)
      PROVE  SentinelsFree'
  <2>1. queue # <<>> /\ queue' = Tail(queue) /\ poller' = poller
    BY <1>6 DEF TakeEntry
  <2>2. Tail(queue) \in Seq(FreeEntry)
    BY <1>1, <2>1, HeadTailProperties
  <2>3. QED
    BY <1>1, <2>1, <2>2 DEF SentinelsFree
<1>7. CASE Stop
  <2>1. Sentinel \in FreeEntry
    BY ConstantTypes DEF FreeEntry, Sentinel
  <2>2. Sentinels \in Seq(FreeEntry)
    BY <1>1, <2>1, SentinelsFit, SeqMonotonic
  <2>3. queue' \in Seq(FreeEntry) /\ poller' = poller
    BY <1>1, <1>7, <2>2, ConcatProperties DEF Stop
  <2>4. QED
    BY <1>1, <2>3 DEF SentinelsFree
<1>8. CASE Restart
  BY <1>8, EmptySeq DEF Restart, Sleeping, SentinelsFree
<1>9. CASE UNCHANGED <<queue, poller>>
  BY <1>1, <1>9 DEF SentinelsFree
<1>10. Operation => UNCHANGED <<queue, poller>>
  BY DEF Operation, CreateTask, DeleteTask, RunFlow, BeginUpdate, BeginResume, BeginTrigger,
     BeginRetry, Begin
<1>11. ASSUME NEW w \in Workers, WorkerStep(w)
       PROVE  TakeEntry(w) \/ UNCHANGED <<queue, poller>>
  BY <1>11 DEF WorkerStep, WorkerExits, ReadTask, RunAttempt, WriteBack
<1>12. ASSUME NEW c \in Clients, Commit(c)
       PROVE  CommitTrigger(c) \/ UNCHANGED <<queue, poller>>
  BY <1>12 DEF Commit, CommitUpdate, CommitResume
<1>13. QED
  BY <1>2, <1>3, <1>4, <1>5, <1>6, <1>7, <1>8, <1>9, <1>10, <1>11, <1>12
     DEF Next, PollerStep, Tick, vars

\* An entry added to the queue adds its claim.
LEMMA ClaimsAppended ==
    ASSUME NEW q \in Seq(Entry), NEW e \in Entry
    PROVE  /\ ClaimsIn(Append(q, e)) = ClaimsIn(q) \cup ({e.claim} \ {0})
           /\ UniqueIn(q) /\ e.claim \notin ClaimsIn(q) => UniqueIn(Append(q, e))
<1> DEFINE new == Append(q, e)
<1>1. /\ Len(q) \in Nat /\ DOMAIN q = 1 .. Len(q)
      /\ DOMAIN new = 1 .. (Len(q) + 1)
      /\ \A i \in 1 .. Len(q) : new[i] = q[i]
      /\ new[Len(q) + 1] = e
  OBVIOUS
<1> HIDE DEF new
<1>2. ClaimsIn(new) = ClaimsIn(q) \cup ({e.claim} \ {0})
  <2>1. ASSUME NEW i \in DOMAIN new PROVE new[i].claim \in {q[k].claim : k \in DOMAIN q} \cup {e.claim}
    BY <1>1
  <2>2. ASSUME NEW i \in DOMAIN q PROVE q[i].claim \in {new[k].claim : k \in DOMAIN new}
    BY <1>1
  <2>3. e.claim \in {new[k].claim : k \in DOMAIN new}
    BY <1>1
  <2>4. QED
    BY <2>1, <2>2, <2>3 DEF ClaimsIn
<1>3. ASSUME UniqueIn(q), e.claim \notin ClaimsIn(q) PROVE UniqueIn(new)
  <2>1. \A i \in 1 .. Len(q) : q[i].claim = e.claim => e.claim = 0
    BY <1>1, <1>3 DEF ClaimsIn
  <2>2. QED
    BY <1>1, <1>3, <2>1 DEF UniqueIn
<1>4. QED
  BY <1>2, <1>3 DEF new

\* The entry taken from the queue takes its claim away.
LEMMA ClaimsTaken ==
    ASSUME NEW q \in Seq(Entry), q # <<>>, UniqueIn(q)
    PROVE  /\ ClaimsIn(Tail(q)) = ClaimsIn(q) \ {Head(q).claim}
           /\ Head(q).claim \in ClaimsIn(q) \cup {0}
           /\ UniqueIn(Tail(q))
<1> DEFINE rest == Tail(q)
<1>1. /\ Len(q) \in Nat /\ Len(q) > 0 /\ DOMAIN q = 1 .. Len(q)
      /\ DOMAIN rest = 1 .. (Len(q) - 1)
      /\ \A i \in 1 .. (Len(q) - 1) : rest[i] = q[i + 1]
      /\ Head(q) = q[1]
  BY HeadTailProperties, LenProperties, EmptySeq
<1> HIDE DEF rest
<1>2. ASSUME NEW i \in DOMAIN rest
      PROVE  rest[i].claim \in ClaimsIn(q) \cup {0} /\ (rest[i].claim = q[1].claim => rest[i].claim = 0)
  BY <1>1 DEF ClaimsIn, UniqueIn
<1>3. ASSUME NEW n \in ClaimsIn(q), n # q[1].claim
      PROVE  n \in ClaimsIn(rest)
  <2>1. PICK i \in 1 .. Len(q) : q[i].claim = n /\ n # 0
    BY <1>1 DEF ClaimsIn
  <2>2. i # 1 /\ i - 1 \in 1 .. (Len(q) - 1)
    BY <1>1, <1>3, <2>1
  <2>3. rest[i - 1] = q[i]
    BY <1>1, <2>2
  <2>4. QED
    BY <1>1, <2>1, <2>2, <2>3 DEF ClaimsIn
<1>4. ClaimsIn(rest) = ClaimsIn(q) \ {q[1].claim}
  <2>1. ASSUME NEW n \in ClaimsIn(rest)
        PROVE  n \in ClaimsIn(q) \ {q[1].claim}
    <3>1. PICK i \in DOMAIN rest : rest[i].claim = n /\ n # 0
      BY <2>1 DEF ClaimsIn
    <3>2. QED
      BY <1>2, <3>1
  <2>2. QED
    BY <1>3, <2>1
<1>5. Head(q).claim \in ClaimsIn(q) \cup {0}
  BY <1>1 DEF ClaimsIn
<1>6. UniqueIn(rest)
  <2>1. ASSUME NEW i \in DOMAIN rest, NEW j \in DOMAIN rest, i # j, rest[i].claim = rest[j].claim
        PROVE  rest[i].claim = 0
    <3>1. /\ i + 1 \in DOMAIN q /\ j + 1 \in DOMAIN q /\ i + 1 # j + 1
          /\ rest[i] = q[i + 1] /\ rest[j] = q[j + 1]
      BY <1>1, <2>1
    <3>2. QED
      BY <2>1, <3>1 DEF UniqueIn
  <2>2. QED
    BY <2>1 DEF UniqueIn
<1>7. QED
  BY <1>1, <1>4, <1>5, <1>6 DEF rest

\* Sentinels carry no claim.
LEMMA ClaimsOfSentinels ==
    ASSUME NEW q \in Seq(Entry), NEW more \in Seq({Sentinel})
    PROVE  /\ ClaimsIn(q \o more) = ClaimsIn(q)
           /\ UniqueIn(q) => UniqueIn(q \o more)
<1> DEFINE new == q \o more
<1>1. /\ Len(q) \in Nat /\ Len(more) \in Nat
      /\ DOMAIN q = 1 .. Len(q)
      /\ \A i \in 1 .. Len(more) : more[i] = Sentinel
  BY LenProperties, ElementOfSeq
<1>2. more \in Seq(Entry)
  BY ConstantTypes, SeqMonotonic
<1>3. /\ DOMAIN new = 1 .. (Len(q) + Len(more))
      /\ \A i \in DOMAIN new : new[i] = IF i <= Len(q) THEN q[i] ELSE more[i - Len(q)]
  BY <1>2, ConcatProperties, LenProperties
<1> HIDE DEF new
<1>4. \A i \in DOMAIN new : (i \in DOMAIN q /\ new[i] = q[i]) \/ new[i] = Sentinel
  BY <1>1, <1>3
<1>5. \A i \in DOMAIN q : i \in DOMAIN new /\ new[i] = q[i]
  BY <1>1, <1>3
<1>6. Sentinel.claim = 0
  BY DEF Sentinel
<1>7. ClaimsIn(new) = ClaimsIn(q)
  BY <1>4, <1>5, <1>6 DEF ClaimsIn
<1>8. UniqueIn(q) => UniqueIn(new)
  BY <1>4, <1>6 DEF UniqueIn
<1>9. QED
  BY <1>7, <1>8 DEF new

\* A step that touches no place a claim can be in.
LEMMA ClaimsUntouched ==
    ASSUME OnePlace, UNCHANGED <<queue, worker>>,
           poller'.pc = "enqueue" <=> poller.pc = "enqueue",
           poller.pc = "enqueue" => poller'.claim = poller.claim
    PROVE  OnePlace' /\ UNCHANGED PendingClaims
BY DEF OnePlace, UniqueHeld, UniqueIn, PendingClaims, QueuedClaims, ClaimsIn, HeldClaims, PolledClaims

\* A worker's step changes at most its own claim among the held ones.
LEMMA ClaimsHeld ==
    ASSUME TypeOK, UniqueHeld, NEW w \in Workers, NEW job,
           worker' = [worker EXCEPT ![w] = job]
    PROVE  /\ worker[w].pc # "read" /\ job.pc # "read"
                => HeldClaims' = HeldClaims /\ UniqueHeld'
           /\ worker[w].pc = "read" /\ job.pc # "read"
                => HeldClaims' = HeldClaims \ {worker[w].claim} /\ UniqueHeld'
           /\ worker[w].pc # "read" /\ job.pc = "read" /\ job.claim \notin HeldClaims
                => HeldClaims' = HeldClaims \cup ({job.claim} \ {0}) /\ UniqueHeld'
<1>1. /\ worker \in [Workers -> Worker]
      /\ worker'[w] = job
      /\ \A v \in Workers : v # w => worker'[v] = worker[v]
  BY DEF TypeOK
<1>2. ASSUME worker[w].pc # "read", job.pc # "read"
      PROVE  HeldClaims' = HeldClaims /\ UniqueHeld'
  BY <1>1, <1>2 DEF HeldClaims, UniqueHeld
<1>3. ASSUME worker[w].pc = "read", job.pc # "read"
      PROVE  HeldClaims' = HeldClaims \ {worker[w].claim} /\ UniqueHeld'
  <2>1. UniqueHeld'
    BY <1>1, <1>3 DEF UniqueHeld
  <2>2. ASSUME NEW v \in Workers, v # w, worker[v].pc = "read", worker[v].claim # 0
        PROVE  worker[v].claim # worker[w].claim
    BY <1>3, <2>2 DEF UniqueHeld
  <2>3. HeldClaims' = HeldClaims \ {worker[w].claim}
    BY <1>1, <1>3, <2>2 DEF HeldClaims
  <2>4. QED
    BY <2>1, <2>3
<1>4. ASSUME worker[w].pc # "read", job.pc = "read", job.claim \notin HeldClaims
      PROVE  HeldClaims' = HeldClaims \cup ({job.claim} \ {0}) /\ UniqueHeld'
  <2>1. HeldClaims' = HeldClaims \cup ({job.claim} \ {0})
    BY <1>1, <1>4 DEF HeldClaims
  <2>2. ASSUME NEW v \in Workers, v # w, worker[v].pc = "read", worker[v].claim = job.claim
        PROVE  job.claim = 0
    BY <1>4, <2>2 DEF HeldClaims
  <2>3. UniqueHeld'
    BY <1>1, <1>4, <2>2 DEF UniqueHeld
  <2>4. QED
    BY <2>1, <2>3
<1>5. QED
  BY <1>2, <1>3, <1>4

\* Every step is a step of the ledger, and keeps each claim in one place.
LEMMA LedgerPoller ==
    ASSUME CInv, PollerStep
    PROVE  OnePlace' /\ (Ledger!Next \/ UNCHANGED Ledger!ledger)
<1> USE DEF Ledger!ledger, PendingClaims
<1>1. /\ poller \in Poller /\ queue \in Seq(Entry) /\ claims \in Nat
      /\ poller.claim \in Nat
  BY DEF CInv, IInv, TypeOK, Poller
<1>2. OnePlace /\ ClaimsAccounted
  BY DEF CInv
<1>3. CASE PollDue \/ PollerExits
  <2>1. /\ poller'.pc # "enqueue" /\ poller.pc # "enqueue"
        /\ UNCHANGED <<queue, worker, claims, taken, lost>>
    BY <1>3 DEF PollDue, PollerExits, Sleeping, observed
  <2>2. QED
    BY <1>2, <2>1, ClaimsUntouched
<1>4. CASE ClaimDue
  <2>1. CASE /\ claims' = claims + 1
             /\ poller'.pc = "enqueue" /\ poller'.claim = claims + 1
    <3>1. UNCHANGED <<queue, worker, taken, lost>> /\ poller.pc = "claim"
      BY <1>4 DEF ClaimDue
    <3>2. claims + 1 \notin QueuedClaims \cup HeldClaims
      BY <1>1, <1>2 DEF ClaimsAccounted
    <3>3. PolledClaims = {} /\ PolledClaims' = {claims + 1}
          /\ QueuedClaims' = QueuedClaims /\ HeldClaims' = HeldClaims
      BY <2>1, <3>1 DEF PolledClaims, QueuedClaims, ClaimsIn, HeldClaims
    <3>4. OnePlace'
      BY <1>1, <1>2, <2>1, <3>1, <3>2, <3>3 DEF OnePlace, UniqueHeld, UniqueIn
    <3>5. Ledger!Accept({}) /\ {} \in SUBSET PendingClaims
      BY <2>1, <3>1, <3>3 DEF Ledger!Accept
    <3>6. QED
      BY <3>4, <3>5 DEF Ledger!Next
  <2>2. CASE poller'.pc # "enqueue" /\ claims' = claims
    <3>1. poller.pc # "enqueue" /\ UNCHANGED <<queue, worker, taken, lost>>
      BY <1>4 DEF ClaimDue
    <3>2. QED
      BY <1>2, <2>2, <3>1, ClaimsUntouched
  <2>3. \/ claims' = claims + 1 /\ poller'.pc = "enqueue" /\ poller'.claim = claims + 1
        \/ claims' = claims /\ poller'.pc # "enqueue"
    <3>1. PICK d \in poller.due :
             \/ /\ claims' = claims + 1
                /\ poller' = [poller EXCEPT !.pc = "enqueue", !.task = d[1],
                                 !.claim = claims + 1, !.due = @ \ {d}]
             \/ /\ poller' = PollerContinues(poller.due \ {d})
                /\ claims' = claims
      BY <1>4 DEF ClaimDue
    <3>2. ASSUME NEW due PROVE PollerContinues(due).pc # "enqueue"
      BY DEF PollerContinues, Sleeping
    <3>3. CASE poller' = [poller EXCEPT !.pc = "enqueue", !.task = d[1],
                                 !.claim = claims + 1, !.due = @ \ {d}]
      <4>1. poller'.pc = "enqueue" /\ poller'.claim = claims + 1
        BY <1>1, <3>3 DEF Poller
      <4>2. QED
        BY <3>1, <3>2, <4>1
    <3>4. QED
      BY <3>1, <3>2, <3>3
  <2>4. QED
    BY <2>1, <2>2, <2>3
<1>5. CASE EnqueueClaim
  <2> DEFINE e == [task |-> poller.task, trigger |-> "scheduled", claim |-> poller.claim]
  <2>1. /\ poller.pc = "enqueue" /\ poller.claim # 0
        /\ PolledClaims = {poller.claim}
        /\ poller.claim \notin QueuedClaims \cup HeldClaims
        /\ poller.claim \notin taken \cup lost
    BY <1>2, <1>5 DEF EnqueueClaim, OnePlace, PolledClaims, ClaimsAccounted
  <2>2. /\ poller'.pc # "enqueue" /\ PolledClaims' = {}
        /\ UNCHANGED <<worker, claims, taken>> /\ HeldClaims' = HeldClaims
    BY <1>5, PollerLeaves DEF EnqueueClaim, PolledClaims, HeldClaims
  <2>3. CASE Len(queue) < QueueMax
    <3>1. queue' = Append(queue, e) /\ lost' = lost
      BY <1>5, <2>3 DEF EnqueueClaim
    <3>2. e \in Entry /\ e.claim = poller.claim
      BY <1>1 DEF Entry, Poller
    <3>3. /\ QueuedClaims' = QueuedClaims \cup {poller.claim}
          /\ UniqueIn(queue')
      BY <1>1, <1>2, <2>1, <3>1, <3>2, ClaimsAppended DEF QueuedClaims, OnePlace
    <3>4. OnePlace'
      BY <1>2, <2>1, <2>2, <3>3 DEF OnePlace, UniqueHeld
    <3>5. PendingClaims' = PendingClaims
      BY <2>1, <2>2, <3>3
    <3>6. QED
      BY <2>2, <3>1, <3>4, <3>5
  <2>4. CASE ~(Len(queue) < QueueMax)
    <3>1. queue' = queue /\ lost' = lost \cup {poller.claim}
      BY <1>5, <2>4 DEF EnqueueClaim
    <3>2. QueuedClaims' = QueuedClaims
      BY <3>1 DEF QueuedClaims, ClaimsIn
    <3>3. OnePlace'
      BY <1>2, <2>2, <3>1, <3>2 DEF OnePlace, UniqueHeld, UniqueIn
    <3>4. PendingClaims' = PendingClaims \ {poller.claim}
      BY <2>1, <2>2, <3>2
    <3>5. Ledger!Lose({poller.claim}) /\ {poller.claim} \in SUBSET PendingClaims
      BY <2>1, <2>2, <3>1, <3>4 DEF Ledger!Lose
    <3>6. QED
      BY <3>3, <3>5 DEF Ledger!Next
  <2>5. QED
    BY <2>3, <2>4
<1>6. QED
  BY <1>3, <1>4, <1>5 DEF PollerStep

LEMMA LedgerWorker ==
    ASSUME CInv, NEW w \in Workers, WorkerStep(w)
    PROVE  OnePlace' /\ (Ledger!Next \/ UNCHANGED Ledger!ledger)
<1> USE DEF Ledger!ledger, PendingClaims
<1>1. /\ TypeOK /\ queue \in Seq(Entry) /\ worker[w] \in Worker /\ worker[w].claim \in Nat
  BY DEF CInv, IInv, TypeOK, Worker
<1>2. OnePlace /\ ClaimsAccounted /\ UniqueHeld /\ UniqueIn(queue)
  BY DEF CInv, OnePlace
<1>3. CASE TakeEntry(w)
  <2> DEFINE n == Head(queue).claim
             job == IF Head(queue).task = NoTask THEN AtLoopHead
                    ELSE [IdleWorker EXCEPT !.pc = "read", !.task = Head(queue).task,
                                            !.claim = Head(queue).claim]
  <2>1. /\ queue # <<>> /\ queue' = Tail(queue)
        /\ worker' = [worker EXCEPT ![w] = job] /\ worker[w].pc = "idle"
        /\ UNCHANGED <<poller, claims, taken, lost>>
    BY <1>3 DEF TakeEntry, observed
  <2>2. /\ QueuedClaims' = QueuedClaims \ {n}
        /\ n \in QueuedClaims \cup {0}
        /\ UniqueIn(queue')
    BY <1>1, <1>2, <2>1, ClaimsTaken DEF QueuedClaims
  <2>3. PolledClaims' = PolledClaims
    BY <2>1 DEF PolledClaims
  <2>4. CASE Head(queue).task # NoTask
    <3>1. job.pc = "read" /\ job.claim = n
      BY <2>4 DEF IdleWorker
    <3> HIDE DEF job
    <3>2. n \notin HeldClaims
      BY <1>2, <2>2 DEF OnePlace, HeldClaims
    <3>3. HeldClaims' = HeldClaims \cup ({n} \ {0}) /\ UniqueHeld'
      BY <1>1, <1>2, <2>1, <3>1, <3>2, ClaimsHeld
    <3>4. OnePlace'
      BY <1>2, <2>1, <2>2, <2>3, <3>3 DEF OnePlace
    <3>5. PendingClaims' = PendingClaims
      BY <2>2, <2>3, <3>3 DEF QueuedClaims, ClaimsIn
    <3>6. QED
      BY <2>1, <3>4, <3>5
  <2>5. CASE Head(queue).task = NoTask
    <3>1. job.pc # "read"
      BY <2>5 DEF AtLoopHead, IdleWorker
    <3> HIDE DEF job
    <3>2. HeldClaims' = HeldClaims /\ UniqueHeld'
      BY <1>1, <1>2, <2>1, <3>1, ClaimsHeld
    <3>3. n = 0
      <4>1. Head(queue) \in FreeEntry
        BY <2>1, HeadTailProperties DEF CInv, SentinelsFree
      <4>2. QED
        BY <2>5, <4>1 DEF FreeEntry
    <3>4. QED
      BY <1>2, <2>1, <2>2, <2>3, <3>2, <3>3 DEF OnePlace, QueuedClaims, ClaimsIn
  <2>6. QED
    BY <2>4, <2>5
<1>4. CASE WorkerExits(w) \/ RunAttempt(w) \/ WriteBack(w)
  <2>1. PICK job : worker' = [worker EXCEPT ![w] = job] /\ job.pc # "read"
    <3>1. AtLoopHead.pc # "read"
      BY DEF AtLoopHead, IdleWorker
    <3>2. ASSUME NEW outcome \in RunStatuses, worker[w].pc = "run"
          PROVE  AfterAttempt(worker[w], outcome).pc # "read"
      BY <1>1, <3>2, Attempt
    <3>3. CASE RunAttempt(w)
      <4>1. PICK outcome \in RunStatuses : worker' = [worker EXCEPT ![w] = AfterAttempt(worker[w], outcome)]
        BY <3>3, <1>1, ConstantsAssumption DEF RunAttempt, TypeOK
      <4>2. worker[w].pc = "run"
        BY <3>3 DEF RunAttempt
      <4>3. QED
        BY <3>2, <4>1, <4>2
    <3>4. QED
      BY <1>4, <3>1, <3>3 DEF WorkerExits, WriteBack
  <2>2. worker[w].pc # "read" /\ UNCHANGED <<queue, poller, claims, taken, lost>>
    BY <1>4 DEF WorkerExits, RunAttempt, WriteBack, observed
  <2>3. HeldClaims' = HeldClaims /\ UniqueHeld'
    BY <1>1, <1>2, <2>1, <2>2, ClaimsHeld
  <2>4. QED
    BY <1>2, <2>2, <2>3 DEF OnePlace, QueuedClaims, ClaimsIn, PolledClaims, UniqueIn
<1>5. CASE ReadTask(w)
  <2>1. PICK job : worker' = [worker EXCEPT ![w] = job] /\ job.pc # "read"
    <3>1. AtLoopHead.pc # "read"
      BY DEF AtLoopHead, IdleWorker
    <3>2. ASSUME NEW task PROVE [worker[w] EXCEPT !.pc = "run", !.snap = task].pc # "read"
      BY <1>1 DEF Worker
    <3>3. PICK task : worker' = [worker EXCEPT ![w] =
                          IF task.status # "active" THEN AtLoopHead
                          ELSE [worker[w] EXCEPT !.pc = "run", !.snap = task]]
      BY <1>1, <1>5 DEF ReadTask, TypeOK
    <3>4. QED
      BY <3>1, <3>2, <3>3
  <2>2. /\ worker[w].pc = "read" /\ UNCHANGED <<queue, poller, claims, lost>>
        /\ taken' = taken \cup ({worker[w].claim} \ {0})
    BY <1>5 DEF ReadTask
  <2>3. HeldClaims' = HeldClaims \ {worker[w].claim} /\ UniqueHeld'
    BY <1>1, <1>2, <2>1, <2>2, ClaimsHeld
  <2>4. QueuedClaims' = QueuedClaims /\ PolledClaims' = PolledClaims
    BY <2>2 DEF QueuedClaims, ClaimsIn, PolledClaims
  <2>5. OnePlace'
    BY <1>2, <2>2, <2>3, <2>4 DEF OnePlace, UniqueIn
  <2>6. CASE worker[w].claim = 0
    <3>1. PendingClaims' = PendingClaims /\ taken' = taken
      BY <2>2, <2>3, <2>4, <2>6 DEF HeldClaims
    <3>2. QED
      BY <2>2, <2>5, <3>1
  <2>7. CASE worker[w].claim # 0
    <3>1. worker[w].claim \in HeldClaims
      BY <2>2, <2>7 DEF HeldClaims
    <3>2. worker[w].claim \notin QueuedClaims \cup PolledClaims
      BY <1>2, <3>1 DEF OnePlace
    <3>3. Ledger!Take(worker[w].claim, {})
      BY <2>2, <2>3, <2>4, <2>7, <3>1, <3>2 DEF Ledger!Take
    <3>4. worker[w].claim \in PendingClaims \ {} /\ {} \in SUBSET PendingClaims
      BY <3>1
    <3>5. QED
      BY <2>5, <3>3, <3>4 DEF Ledger!Next
  <2>8. QED
    BY <2>6, <2>7
<1>6. QED
  BY <1>3, <1>4, <1>5 DEF WorkerStep
\* A stop adds sentinels only; a restart loses what was pending.
LEMMA LedgerProcess ==
    ASSUME CInv, Tick \/ Stop \/ Restart
    PROVE  OnePlace' /\ (Ledger!Next \/ UNCHANGED Ledger!ledger)
<1> USE DEF Ledger!ledger, PendingClaims
<1>1. TypeOK /\ OnePlace /\ queue \in Seq(Entry)
  BY DEF CInv, IInv, TypeOK
<1>2. CASE Tick
  <2>1. UNCHANGED <<queue, worker, poller, claims, taken, lost>>
    BY <1>2 DEF Tick, observed
  <2>2. QED
    BY <1>1, <2>1, ClaimsUntouched
<1>3. CASE Stop
  <2>1. /\ queue' = queue \o Sentinels /\ Sentinels \in Seq({Sentinel})
        /\ UNCHANGED <<worker, poller, claims, taken, lost>>
    BY <1>1, <1>3, SentinelsFit DEF Stop, observed
  <2>2. QueuedClaims' = QueuedClaims /\ UniqueIn(queue')
    BY <1>1, <2>1, ClaimsOfSentinels DEF QueuedClaims, OnePlace
  <2>3. HeldClaims' = HeldClaims /\ PolledClaims' = PolledClaims /\ UniqueHeld'
    BY <1>1, <2>1 DEF HeldClaims, PolledClaims, UniqueHeld, OnePlace
  <2>4. QED
    BY <1>1, <2>1, <2>2, <2>3 DEF OnePlace
<1>4. CASE Restart
  <2>1. /\ queue' = <<>> /\ poller' = Sleeping
        /\ worker' = [w \in Workers |-> IdleWorker]
        /\ lost' = lost \cup PendingClaims /\ UNCHANGED <<claims, taken>>
    BY <1>4 DEF Restart
  <2>2. QueuedClaims' = {} /\ UniqueIn(queue')
    BY <2>1 DEF QueuedClaims, ClaimsIn, UniqueIn
  <2>3. HeldClaims' = {} /\ UniqueHeld'
    BY <2>1 DEF HeldClaims, UniqueHeld, IdleWorker
  <2>4. PolledClaims' = {} /\ poller'.pc # "enqueue"
    BY <2>1 DEF PolledClaims, Sleeping
  <2>5. OnePlace'
    BY <2>2, <2>3, <2>4 DEF OnePlace
  <2>6. Ledger!Lose(PendingClaims) /\ PendingClaims \in SUBSET PendingClaims
    BY <2>1, <2>2, <2>3, <2>4 DEF Ledger!Lose
  <2>7. QED
    BY <2>5, <2>6 DEF Ledger!Next
<1>5. QED
  BY <1>2, <1>3, <1>4

\* Requests carry no claim.
LEMMA LedgerRequests ==
    ASSUME CInv, Operation \/ (\E c \in Clients : Commit(c)) \/ UNCHANGED vars
    PROVE  OnePlace' /\ (Ledger!Next \/ UNCHANGED Ledger!ledger)
<1> USE DEF Ledger!ledger, PendingClaims
<1>1. TypeOK /\ OnePlace /\ queue \in Seq(Entry) /\ UniqueIn(queue)
  BY DEF CInv, IInv, TypeOK, OnePlace
<1>2. CASE UNCHANGED <<queue, worker, poller, claims, taken, lost>>
  BY <1>1, <1>2, ClaimsUntouched
<1>3. ASSUME NEW c \in Clients, CommitTrigger(c)
      PROVE  OnePlace' /\ UNCHANGED Ledger!ledger
  <2> DEFINE entry == [task |-> client[c].task, claim |-> 0,
                       trigger |-> IF client[c].op = "retry" THEN "retry" ELSE "manual"]
  <2>1. entry \in Entry /\ entry.claim = 0
    BY <1>1 DEF TypeOK, Client, Entry
  <2>2. /\ queue' = IF Len(queue) < QueueMax THEN Append(queue, entry) ELSE queue
        /\ UNCHANGED <<worker, poller, claims, taken, lost>>
    BY <1>3 DEF CommitTrigger, observed
  <2> HIDE DEF entry
  <2>3. 0 \notin ClaimsIn(queue)
    BY DEF ClaimsIn
  <2>4. QueuedClaims' = QueuedClaims /\ UniqueIn(queue')
    <3>1. CASE queue' = queue
      BY <1>1, <3>1 DEF QueuedClaims, ClaimsIn, UniqueIn
    <3>2. CASE queue' = Append(queue, entry)
      <4>1. ClaimsIn(queue') = ClaimsIn(queue) \cup ({0} \ {0}) /\ UniqueIn(queue')
        BY <1>1, <2>1, <2>3, <3>2, ClaimsAppended
      <4>2. QED
        BY <4>1 DEF QueuedClaims
    <3>3. QED
      BY <2>2, <3>1, <3>2
  <2>5. HeldClaims' = HeldClaims /\ PolledClaims' = PolledClaims /\ UniqueHeld'
    BY <1>1, <2>2 DEF HeldClaims, PolledClaims, UniqueHeld, OnePlace
  <2>6. QED
    BY <1>1, <2>2, <2>4, <2>5 DEF OnePlace
<1>4. Operation => UNCHANGED <<queue, worker, poller, claims, taken, lost>>
  BY DEF Operation, CreateTask, DeleteTask, RunFlow, BeginUpdate, BeginResume, BeginTrigger,
     BeginRetry, Begin, observed
<1>5. ASSUME NEW c \in Clients, Commit(c)
      PROVE  CommitTrigger(c) \/ UNCHANGED <<queue, worker, poller, claims, taken, lost>>
  BY <1>5 DEF Commit, CommitUpdate, CommitResume, observed
<1>6. UNCHANGED vars => UNCHANGED <<queue, worker, poller, claims, taken, lost>>
  BY DEF vars, observed
<1>7. QED
  BY <1>2, <1>3, <1>4, <1>5, <1>6

LEMMA LedgerStep ==
    ASSUME CInv, [Next]_vars
    PROVE  OnePlace' /\ (Ledger!Next \/ UNCHANGED Ledger!ledger)
BY LedgerPoller, LedgerWorker, LedgerProcess, LedgerRequests DEF Next

\* The ledger itself keeps every claim in one of its three sets.
LEMMA LedgerPartition ==
    ASSUME ClaimsAccounted, claims \in Nat, Ledger!Next \/ UNCHANGED Ledger!ledger
    PROVE  ClaimsAccounted'
<1>1. ASSUME NEW L \in SUBSET PendingClaims, Ledger!Accept(L) PROVE ClaimsAccounted'
  BY <1>1 DEF Ledger!Accept, ClaimsAccounted
<1>2. ASSUME NEW L \in SUBSET PendingClaims, NEW n \in PendingClaims \ L, Ledger!Take(n, L)
      PROVE  ClaimsAccounted'
  BY <1>2 DEF Ledger!Take, ClaimsAccounted
<1>3. ASSUME NEW L \in SUBSET PendingClaims, Ledger!Lose(L) PROVE ClaimsAccounted'
  BY <1>3 DEF Ledger!Lose, ClaimsAccounted
<1>4. CASE UNCHANGED Ledger!ledger
  BY <1>4 DEF Ledger!ledger, ClaimsAccounted
<1>5. QED
  BY <1>1, <1>2, <1>3, <1>4 DEF Ledger!Next

LEMMA CInvInit == Init => CInv /\ Ledger!Init
<1> SUFFICES ASSUME Init PROVE CInv /\ Ledger!Init
  OBVIOUS
<1>1. IInv
  BY IInvInit
<1>2. QueuedClaims = {} /\ UniqueIn(queue) /\ queue \in Seq(FreeEntry)
  BY EmptySeq DEF Init, QueuedClaims, ClaimsIn, UniqueIn
<1>3. HeldClaims = {} /\ UniqueHeld
  BY DEF Init, HeldClaims, UniqueHeld, IdleWorker
<1>4. PolledClaims = {} /\ poller.pc # "enqueue"
  BY DEF Init, PolledClaims, Sleeping
<1>5. claims = 0 /\ taken = {} /\ lost = {}
  BY DEF Init
<1>6. ClaimsAccounted
  BY <1>2, <1>3, <1>4, <1>5 DEF ClaimsAccounted, PendingClaims
<1>7. Ledger!Init
  BY <1>2, <1>3, <1>4, <1>5 DEF Ledger!Init, PendingClaims
<1>8. QED
  BY <1>1, <1>2, <1>3, <1>4, <1>6, <1>7 DEF CInv, SentinelsFree, OnePlace

LEMMA CInvStep == CInv /\ [Next]_vars => CInv'
<1> SUFFICES ASSUME CInv, [Next]_vars PROVE CInv'
  OBVIOUS
<1>1. IInv' /\ SentinelsFree'
  BY IInvStep, SentinelsStayFree DEF CInv
<1>2. OnePlace' /\ (Ledger!Next \/ UNCHANGED Ledger!ledger)
  BY LedgerStep
<1>3. ClaimsAccounted'
  BY <1>2, LedgerPartition DEF CInv, IInv, TypeOK
<1>4. QED
  BY <1>1, <1>2, <1>3 DEF CInv

\* Every claim is pending, taken or lost, and never two of them: no entry is
\* duplicated and none disappears (claim_due_task, enqueue, _worker_loop).
LEMMA ClaimsInOnePlace == Spec => []ClaimsAccounted
<1>1. CInv => ClaimsAccounted
  BY DEF CInv
<1>2. QED
  BY <1>1, CInvInit, CInvStep, PTL DEF Spec

\* The runtime implements at-most-once delivery of claimed occurrences.
THEOREM ImplementsLedger == Spec => AtMostOnceDelivery
<1>1. CInv /\ [Next]_vars => [Ledger!Next]_(Ledger!ledger)
  BY LedgerStep
<1>2. QED
  BY <1>1, CInvInit, CInvStep, PTL DEF Spec, AtMostOnceDelivery, Ledger!Spec

(***************************************************************************)
(* A "once" task fires once.  Without edits a task keeps the schedule it   *)
(* was created with, in the repository and in every copy of it; once is    *)
(* the set of the tasks created with a "once" schedule.  Such a task is    *)
(* armed for the instant it names and for no other, and a claim, made at   *)
(* or after that instant, disarms it for good: a write-back may bring a    *)
(* deleted task back, but never an armed one.                              *)
(***************************************************************************)
IsOnce(s) == s.mode = "once"

OnceCopies(once) ==
    /\ \A t \in TaskIds : Present(t) => t \in used /\ (IsOnce(tasks[t].schedule) <=> t \in once)
    /\ \A w \in Workers : worker[w].pc \in {"run", "write"} =>
          worker[w].task \in used /\ (IsOnce(worker[w].snap.schedule) <=> worker[w].task \in once) /\ worker[w].snap.status = "active"
    /\ \A d \in poller.due : d[1] \in used /\ (IsOnce(d[2]) <=> d[1] \in once)

OnceArmed(once) ==
    /\ poller.at <= now
    /\ \A d \in poller.due : d[1] \in once => d[2].arg <= poller.at
    /\ \A t \in TaskIds : Present(t) /\ t \in once => tasks[t].nextRunAt \in {None, tasks[t].schedule.arg}
    /\ \A t \in TaskIds : ~ Present(t) => tasks[t] = Absent
    /\ \A t \in TaskIds : fired[t] > 0 => t \in used
    /\ \A t \in once : fired[t] <= 1 /\ (fired[t] = 1 => tasks[t].nextRunAt = None)

OnceInv == \E once \in SUBSET TaskIds : OnceCopies(once) /\ OnceArmed(once)

WithoutEdits == Requests \cap {"update", "resume"} = {}

LEMMA OnceCreated ==
    ASSUME IInv, NEW once \in SUBSET TaskIds, OnceCopies(once), OnceArmed(once),
           NEW t \in TaskIds, CreateTask(t)
    PROVE  OnceInv'
<1>1. PICK type \in Types, s \in Schedules :
        /\ LegalSchedule(type, s)
        /\ tasks' = [tasks EXCEPT ![t] =
              [type |-> type, status |-> "active", schedule |-> s,
               nextRunAt |-> IF type = "manual" THEN None ELSE NextRun(s, now),
               lastStatus |-> "none"]]
  BY DEF CreateTask
<1> DEFINE new == tasks'[t]
           one == IF IsOnce(s) THEN once \cup {t} ELSE once \ {t}
<1>2. /\ tasks \in [TaskIds -> Task] /\ fired \in [TaskIds -> Nat] /\ fired[t] \in Nat
      /\ now \in Nat /\ poller.at \in Nat
  BY DEF IInv, TypeOK, Poller
<1>3. /\ new.status = "active" /\ new.schedule = s
      /\ new.nextRunAt = (IF type = "manual" THEN None ELSE NextRun(s, now))
      /\ \A u \in TaskIds : u # t => tasks'[u] = tasks[u]
  BY <1>1, <1>2
<1>4. IsOnce(s) => new.nextRunAt \in {None, s.arg}
  BY <1>3 DEF IsOnce, NextRun
<1>5. t \notin used /\ used' = used \cup {t}
      /\ UNCHANGED <<now, poller, worker, fired>>
  BY DEF CreateTask
<1>6. fired[t] = 0
  BY <1>2, <1>5 DEF OnceArmed
<1> HIDE DEF new
<1>7. OnceCopies(one)'
  <2>1. ASSUME NEW u \in TaskIds, Present(u)' PROVE u \in used' /\ (IsOnce(tasks'[u].schedule) <=> u \in one)
    BY <1>3, <1>5, <2>1 DEF OnceCopies, Present, new
  <2>2. ASSUME NEW w \in Workers, worker[w].pc \in {"run", "write"}
        PROVE  /\ worker[w].task \in used' /\ (IsOnce(worker[w].snap.schedule) <=> worker[w].task \in one)
               /\ worker[w].snap.status = "active"
    BY <1>5, <2>2 DEF OnceCopies
  <2>3. ASSUME NEW d \in poller.due PROVE d[1] \in used' /\ (IsOnce(d[2]) <=> d[1] \in one)
    BY <1>5, <2>3 DEF OnceCopies
  <2> QED BY <1>5, <2>1, <2>2, <2>3 DEF OnceCopies
<1>8. OnceArmed(one)'
  <2>1. poller'.at <= now' /\ \A d \in poller'.due : d[1] \in one => d[2].arg <= poller'.at
    <3>1. \A d \in poller.due : d[1] # t
      BY <1>5 DEF OnceCopies
    <3> QED BY <1>5, <3>1 DEF OnceArmed
  <2>2. ASSUME NEW u \in TaskIds, Present(u)', u \in one
        PROVE  tasks'[u].nextRunAt \in {None, tasks'[u].schedule.arg}
    BY <1>3, <1>4, <2>2 DEF OnceArmed, Present, new
  <2>3. ASSUME NEW u \in TaskIds, ~ Present(u)' PROVE tasks'[u] = Absent
    BY <1>3, <2>3 DEF OnceArmed, Present, new
  <2>4. ASSUME NEW u \in TaskIds, fired'[u] > 0 PROVE u \in used'
    BY <1>5, <2>4 DEF OnceArmed
  <2>5. ASSUME NEW u \in one PROVE fired'[u] <= 1 /\ (fired'[u] = 1 => tasks'[u].nextRunAt = None)
    BY <1>3, <1>5, <1>6 DEF OnceArmed
  <2> QED BY <2>1, <2>2, <2>3, <2>4, <2>5 DEF OnceArmed
<1> QED BY <1>7, <1>8 DEF OnceInv

\* Nothing but the repository, the workers and the poller holds a schedule.
LEMMA OnceApart ==
    ASSUME NEW once, OnceCopies(once), OnceArmed(once), UNCHANGED <<now, tasks, worker, poller, used, fired>>
    PROVE  OnceCopies(once)' /\ OnceArmed(once)'
BY DEF OnceCopies, OnceArmed, Present

\* A worker that changes only what it is at.
LEMMA OnceWorker ==
    ASSUME IInv, NEW once, OnceCopies(once), OnceArmed(once), NEW w \in Workers, NEW job,
           worker' = [worker EXCEPT ![w] = job],
           job.pc \in {"run", "write"} =>
              job.task \in used /\ (IsOnce(job.snap.schedule) <=> job.task \in once) /\ job.snap.status = "active",
           UNCHANGED <<now, tasks, poller, used, fired>>
    PROVE  OnceCopies(once)' /\ OnceArmed(once)'
<1>1. worker \in [Workers -> Worker]
  BY DEF IInv, TypeOK
<1>2. worker'[w] = job /\ \A v \in Workers : v # w => worker'[v] = worker[v]
  BY <1>1
<1>3. OnceArmed(once)'
  BY DEF OnceArmed, Present
<1>4. ASSUME NEW v \in Workers, worker'[v].pc \in {"run", "write"}
      PROVE  /\ worker'[v].task \in used /\ (IsOnce(worker'[v].snap.schedule) <=> worker'[v].task \in once)
             /\ worker'[v].snap.status = "active"
  BY <1>2, <1>4 DEF OnceCopies
<1> QED BY <1>3, <1>4 DEF OnceCopies, Present

\* The record a worker writes back is one of its task and is not armed, so it
\* disarms nothing that fired and arms nothing.
LEMMA OnceWritten ==
    ASSUME IInv, NEW once \in SUBSET TaskIds, OnceCopies(once), OnceArmed(once),
           NEW w \in Workers, WriteBack(w)
    PROVE  OnceCopies(once)' /\ OnceArmed(once)'
<1> DEFINE t == worker[w].task
           new == ExecutedTask(worker[w])
<1>1. /\ worker \in [Workers -> Worker] /\ worker[w] \in Worker /\ worker[w].snap \in Task
      /\ worker[w].pc = "write" /\ t \in TaskIds /\ tasks \in [TaskIds -> Task]
  <2>1. worker \in [Workers -> Worker] /\ worker[w].pc = "write" /\ tasks \in [TaskIds -> Task]
    BY DEF IInv, TypeOK, WriteBack
  <2>2. t \in TaskIds
    BY <2>1 DEF IInv, JobsNamed
  <2> QED BY <2>1, <2>2 DEF Worker
<1>2. /\ t \in used /\ (IsOnce(worker[w].snap.schedule) <=> t \in once) /\ worker[w].snap.status = "active"
  BY <1>1 DEF OnceCopies
<1>3. /\ new.schedule = worker[w].snap.schedule /\ new.status = worker[w].snap.status
      /\ IsOnce(new.schedule) => new.nextRunAt = None
  BY <1>1 DEF ExecutedTask, Task, IsOnce
<1>4. /\ tasks' = [tasks EXCEPT ![t] = new] /\ worker' = [worker EXCEPT ![w] = AtLoopHead]
      /\ UNCHANGED <<now, poller, used, fired>>
  BY DEF WriteBack, observed
<1> HIDE DEF t, new
<1>5. tasks'[t] = new /\ \A u \in TaskIds : u # t => tasks'[u] = tasks[u]
  BY <1>1, <1>4
<1>6. worker'[w].pc \in {"idle", "exited"} /\ \A v \in Workers : v # w => worker'[v] = worker[v]
  BY <1>1, <1>4, LoopHead
<1>7. OnceCopies(once)'
  <2>1. ASSUME NEW u \in TaskIds, Present(u)' PROVE u \in used' /\ (IsOnce(tasks'[u].schedule) <=> u \in once)
    BY <1>2, <1>3, <1>4, <1>5, <2>1 DEF OnceCopies, Present, t
  <2>2. ASSUME NEW v \in Workers, worker'[v].pc \in {"run", "write"}
        PROVE  /\ worker'[v].task \in used' /\ (IsOnce(worker'[v].snap.schedule) <=> worker'[v].task \in once)
             /\ worker'[v].snap.status = "active"
    BY <1>4, <1>6, <2>2 DEF OnceCopies
  <2> QED BY <1>4, <2>1, <2>2 DEF OnceCopies
<1>8. OnceArmed(once)'
  <2>1. ASSUME NEW u \in TaskIds, Present(u)', u \in once
        PROVE  tasks'[u].nextRunAt \in {None, tasks'[u].schedule.arg}
    BY <1>2, <1>3, <1>5, <2>1 DEF OnceArmed, Present, t
  <2>2. ASSUME NEW u \in TaskIds, ~ Present(u)' PROVE tasks'[u] = Absent
    BY <1>2, <1>3, <1>5, <2>2 DEF OnceArmed, Present
  <2>3. ASSUME NEW u \in once PROVE fired'[u] <= 1 /\ (fired'[u] = 1 => tasks'[u].nextRunAt = None)
    BY <1>2, <1>3, <1>4, <1>5, <2>3 DEF OnceArmed, t
  <2> QED BY <1>4, <2>1, <2>2, <2>3 DEF OnceArmed
<1> QED BY <1>7, <1>8

LEMMA OnceWorkers ==
    ASSUME IInv, NEW once \in SUBSET TaskIds, OnceCopies(once), OnceArmed(once),
           NEW w \in Workers, WorkerStep(w)
    PROVE  OnceCopies(once)' /\ OnceArmed(once)'
<1>1. worker \in [Workers -> Worker] /\ worker[w] \in Worker
  BY DEF IInv, TypeOK
<1>2. CASE TakeEntry(w)
  <2> DEFINE job == IF Head(queue).task = NoTask THEN AtLoopHead
                    ELSE [IdleWorker EXCEPT !.pc = "read", !.task = Head(queue).task,
                                            !.claim = Head(queue).claim]
  <2>1. worker' = [worker EXCEPT ![w] = job] /\ UNCHANGED <<now, tasks, poller, used, fired>>
    BY <1>2 DEF TakeEntry, observed
  <2>2. job.pc \notin {"run", "write"}
    BY LoopHead DEF IdleWorker
  <2> HIDE DEF job
  <2> QED BY <2>1, <2>2, OnceWorker
<1>3. CASE WorkerExits(w)
  <2>1. /\ worker' = [worker EXCEPT ![w] = AtLoopHead] /\ UNCHANGED <<now, tasks, poller, used, fired>>
        /\ AtLoopHead.pc \notin {"run", "write"}
    BY <1>3, LoopHead DEF WorkerExits, observed
  <2> QED BY <2>1, OnceWorker
<1>4. CASE ReadTask(w)
  <2> DEFINE t == worker[w].task
             job == IF tasks[t].status # "active" THEN AtLoopHead
                    ELSE [worker[w] EXCEPT !.pc = "run", !.snap = tasks[t]]
  <2>1. worker' = [worker EXCEPT ![w] = job] /\ UNCHANGED <<now, tasks, poller, used, fired>>
    BY <1>1, <1>4 DEF ReadTask, observed
  <2>2. t \in TaskIds
    BY <1>4 DEF IInv, JobsNamed, ReadTask
  <2>3. job.pc \in {"run", "write"} =>
            job.task = t /\ job.snap = tasks[t] /\ tasks[t].status = "active" /\ Present(t)
    BY <1>1, LoopHead DEF Present, Worker
  <2>4. job.pc \in {"run", "write"} =>
            job.task \in used /\ (IsOnce(job.snap.schedule) <=> job.task \in once) /\ job.snap.status = "active"
    BY <2>2, <2>3 DEF OnceCopies
  <2> HIDE DEF job, t
  <2> QED BY <2>1, <2>4, OnceWorker
<1>5. CASE RunAttempt(w)
  <2>1. PICK outcome \in Outcomes : worker' = [worker EXCEPT ![w] = AfterAttempt(worker[w], outcome)]
    BY <1>1, <1>5 DEF RunAttempt
  <2> DEFINE job == AfterAttempt(worker[w], outcome)
  <2>2. job.task = worker[w].task /\ job.snap = worker[w].snap
    BY <1>1 DEF AfterAttempt, Worker
  <2>3. job.task \in used /\ (IsOnce(job.snap.schedule) <=> job.task \in once) /\ job.snap.status = "active"
    BY <1>5, <2>2 DEF OnceCopies, RunAttempt
  <2>4. UNCHANGED <<now, tasks, poller, used, fired>>
    BY <1>5 DEF RunAttempt, observed
  <2> HIDE DEF job
  <2> QED BY <2>1, <2>3, <2>4, OnceWorker DEF job
<1>6. CASE WriteBack(w)
  BY <1>6, OnceWritten
<1> QED BY <1>2, <1>3, <1>4, <1>5, <1>6 DEF WorkerStep

\* The poller goes on with a part of its snapshot, at a later instant.
LEMMA OncePolled ==
    ASSUME IInv, NEW once, OnceCopies(once), OnceArmed(once), NEW p,
           p.due \in SUBSET poller.due, p.due = {} \/ p.at \in poller.at .. now, p.at <= now, poller' = p,
           UNCHANGED <<now, tasks, worker, used, fired>>
    PROVE  OnceCopies(once)' /\ OnceArmed(once)'
<1>1. poller.at \in Nat /\ now \in Nat /\ poller.due \subseteq TaskIds \X Schedule
  BY DEF IInv, TypeOK, Poller
<1>2. ASSUME NEW d \in p.due PROVE d[1] \in once => d[2].arg <= p.at
  <2>1. d \in poller.due /\ d[2] \in Schedule /\ d[2].arg \in Nat
    BY <1>1, <1>2 DEF Schedule
  <2> QED BY <1>1, <1>2, <2>1 DEF OnceArmed
<1>3. OnceCopies(once)'
  BY DEF OnceCopies, Present
<1>4. OnceArmed(once)'
  BY <1>1, <1>2 DEF OnceArmed, Present
<1> QED BY <1>3, <1>4

LEMMA Continued ==
    ASSUME NEW due, now \in Nat
    PROVE  /\ PollerContinues(due).due = due
           /\ PollerContinues(due).at <= now
           /\ due # {} => PollerContinues(due).at = now
<1> DEFINE p == [Sleeping EXCEPT !.pc = "claim", !.at = now, !.due = due]
<1>1. due = {} => PollerContinues(due) = Sleeping
  BY DEF PollerContinues
<1>2. due # {} => PollerContinues(due) = p
  BY DEF PollerContinues
<1>3. Sleeping.due = {} /\ Sleeping.at = 0
  BY DEF Sleeping
<1>4. p.due = due /\ p.at = now
  BY DEF Sleeping
<1> HIDE DEF p
<1>5. CASE due = {}
  BY <1>1, <1>3, <1>5
<1>6. CASE due # {}
  BY <1>2, <1>4, <1>6
<1> QED BY <1>5, <1>6

\* The snapshot holds the schedules of tasks that are due: a "once" task that
\* is in it was armed for an instant that has passed.
LEMMA OnceListed ==
    ASSUME IInv, NEW once, OnceCopies(once), OnceArmed(once), PollDue
    PROVE  OnceCopies(once)' /\ OnceArmed(once)'
<1> DEFINE all == {<<t, tasks[t].schedule>> : t \in {u \in TaskIds : IsDue(tasks[u], now)}}
<1>1. /\ poller'.due = all /\ poller'.at = now
      /\ UNCHANGED <<now, tasks, worker, used, fired>> /\ now \in Nat
  BY DEF PollDue, Sleeping, observed, IInv, TypeOK
<1>2. ASSUME NEW d \in all
      PROVE  /\ d[1] \in used /\ (IsOnce(d[2]) <=> d[1] \in once)
             /\ d[1] \in once => d[2].arg <= now
  <2>1. PICK t \in TaskIds : IsDue(tasks[t], now) /\ d = <<t, tasks[t].schedule>>
    OBVIOUS
  <2>2. Present(t) /\ tasks[t].nextRunAt # None /\ tasks[t].nextRunAt <= now
    BY <2>1 DEF IsDue, Present
  <2>3. t \in once => tasks[t].nextRunAt = tasks[t].schedule.arg
    BY <2>2 DEF OnceArmed
  <2> QED BY <2>1, <2>2, <2>3 DEF OnceCopies
<1> HIDE DEF all
<1>3. OnceCopies(once)'
  BY <1>1, <1>2 DEF OnceCopies, Present
<1>4. OnceArmed(once)'
  BY <1>1, <1>2 DEF OnceArmed, Present
<1> QED BY <1>3, <1>4

\* A claim computes the next run from the schedule of the snapshot, at an
\* instant not before the one it names.
LEMMA OnceClaimed ==
    ASSUME IInv, NEW once \in SUBSET TaskIds, OnceCopies(once), OnceArmed(once),
           NEW d \in poller.due, NEW base \in poller.at .. now, NEW seen \in base .. now,
           IsDue(tasks[d[1]], seen),
           tasks' = [tasks EXCEPT ![d[1]].nextRunAt = NextRun(d[2], base)],
           fired' = [fired EXCEPT ![d[1]] = @ + 1],
           poller'.due \in SUBSET poller.due, poller'.at = poller.at,
           UNCHANGED <<now, worker, used>>
    PROVE  OnceCopies(once)' /\ OnceArmed(once)'
<1> DEFINE t == d[1]
<1>1. /\ d \in TaskIds \X Schedule /\ t \in TaskIds /\ d[2] \in Schedule /\ d[2].arg \in Nat
      /\ tasks \in [TaskIds -> Task] /\ fired \in [TaskIds -> Nat]
      /\ base \in Nat /\ poller.at \in Nat /\ now \in Nat
  <2>1. /\ poller.due \subseteq TaskIds \X Schedule /\ poller.at \in Nat /\ now \in Nat
        /\ tasks \in [TaskIds -> Task] /\ fired \in [TaskIds -> Nat]
    BY DEF IInv, TypeOK, Poller
  <2> QED BY <2>1 DEF Schedule
<1> DEFINE new == [tasks[t] EXCEPT !.nextRunAt = NextRun(d[2], base)]
<1>2. /\ tasks'[t] = new /\ \A u \in TaskIds : u # t => tasks'[u] = tasks[u]
      /\ fired'[t] = fired[t] + 1 /\ \A u \in TaskIds : u # t => fired'[u] = fired[u]
      /\ fired[t] \in Nat
  BY <1>1
<1>3. /\ new.status = "active" /\ tasks[t].status = "active" /\ new.schedule = tasks[t].schedule
      /\ new.nextRunAt = NextRun(d[2], base)
      /\ tasks[t].nextRunAt # None
  <2>1. tasks[t] \in Task /\ tasks[t].status = "active" /\ tasks[t].nextRunAt # None
    BY <1>1 DEF IsDue
  <2>2. new.status = tasks[t].status /\ new.schedule = tasks[t].schedule /\ new.nextRunAt = NextRun(d[2], base)
    BY <2>1 DEF Task
  <2> QED BY <2>1, <2>2
<1> HIDE DEF new
<1>4. t \in once => NextRun(d[2], base) = None /\ fired[t] = 0
  <2> SUFFICES ASSUME t \in once PROVE NextRun(d[2], base) = None /\ fired[t] = 0
    OBVIOUS
  <2>1. IsOnce(d[2]) /\ d[2].arg <= poller.at
    BY DEF OnceCopies, OnceArmed
  <2>2. ~ (d[2].arg > base)
    BY <1>1, <2>1
  <2>3. NextRun(d[2], base) = None
    BY <2>1, <2>2 DEF NextRun, IsOnce
  <2>4. fired[t] <= 1 /\ fired[t] # 1
    BY <1>3 DEF OnceArmed
  <2> QED BY <1>2, <2>3, <2>4
<1>5. t \in used
  BY DEF OnceCopies
<1> HIDE DEF t
<1>6. OnceCopies(once)'
  <2>1. ASSUME NEW u \in TaskIds, Present(u)' PROVE u \in used' /\ (IsOnce(tasks'[u].schedule) <=> u \in once)
    BY <1>2, <1>3, <2>1 DEF OnceCopies, Present
  <2> QED BY <2>1 DEF OnceCopies
<1>7. OnceArmed(once)'
  <2>1. poller'.at <= now' /\ \A e \in poller'.due : e[1] \in once => e[2].arg <= poller'.at
    BY DEF OnceArmed
  <2>2. ASSUME NEW u \in TaskIds, Present(u)', u \in once
        PROVE  tasks'[u].nextRunAt \in {None, tasks'[u].schedule.arg}
    BY <1>2, <1>3, <1>4, <2>2 DEF OnceArmed, Present
  <2>3. ASSUME NEW u \in TaskIds, ~ Present(u)' PROVE tasks'[u] = Absent
    BY <1>2, <1>3, <2>3 DEF OnceArmed, Present
  <2>4. ASSUME NEW u \in TaskIds, fired'[u] > 0 PROVE u \in used'
    BY <1>2, <1>5, <2>4 DEF OnceArmed
  <2>5. ASSUME NEW u \in once PROVE fired'[u] <= 1 /\ (fired'[u] = 1 => tasks'[u].nextRunAt = None)
    BY <1>2, <1>3, <1>4, <2>5 DEF OnceArmed
  <2> QED BY <2>1, <2>2, <2>3, <2>4, <2>5 DEF OnceArmed
<1> QED BY <1>6, <1>7

LEMMA OncePoller ==
    ASSUME IInv, NEW once \in SUBSET TaskIds, OnceCopies(once), OnceArmed(once), PollerStep
    PROVE  OnceCopies(once)' /\ OnceArmed(once)'
<1>1. poller \in Poller /\ now \in Nat /\ poller.at \in Nat /\ poller.at <= now
  BY DEF IInv, TypeOK, Poller, OnceArmed
<1>2. CASE PollDue
  BY <1>2, OnceListed
<1>3. CASE ClaimDue
  <2>5. PICK d \in poller.due, base \in poller.at .. now : \E seen \in base .. now :
          IF IsDue(tasks[d[1]], seen)
          THEN /\ tasks' = [tasks EXCEPT ![d[1]].nextRunAt = NextRun(d[2], base)]
               /\ fired' = [fired EXCEPT ![d[1]] = @ + 1]
               /\ poller' = [poller EXCEPT !.pc = "enqueue", !.task = d[1],
                                !.claim = claims + 1, !.due = @ \ {d}]
          ELSE poller' = PollerContinues(poller.due \ {d}) /\ UNCHANGED <<tasks, fired>>
    BY <1>3 DEF ClaimDue
  <2>1. PICK seen \in base .. now :
          IF IsDue(tasks[d[1]], seen)
          THEN /\ tasks' = [tasks EXCEPT ![d[1]].nextRunAt = NextRun(d[2], base)]
               /\ fired' = [fired EXCEPT ![d[1]] = @ + 1]
               /\ poller' = [poller EXCEPT !.pc = "enqueue", !.task = d[1],
                                !.claim = claims + 1, !.due = @ \ {d}]
          ELSE poller' = PollerContinues(poller.due \ {d}) /\ UNCHANGED <<tasks, fired>>
    BY <2>5
  <2>2. UNCHANGED <<now, worker, used>>
    BY <1>3 DEF ClaimDue
  <2>3. CASE IsDue(tasks[d[1]], seen)
    <3>1. /\ tasks' = [tasks EXCEPT ![d[1]].nextRunAt = NextRun(d[2], base)]
          /\ fired' = [fired EXCEPT ![d[1]] = @ + 1]
          /\ poller' = [poller EXCEPT !.pc = "enqueue", !.task = d[1],
                           !.claim = claims + 1, !.due = @ \ {d}]
      BY <2>1, <2>3
    <3>2. poller'.due \in SUBSET poller.due /\ poller'.at = poller.at
      BY <1>1, <3>1 DEF Poller
    <3> QED BY <2>2, <2>3, <3>1, <3>2, OnceClaimed
  <2>4. CASE ~ IsDue(tasks[d[1]], seen)
    <3>1. poller' = PollerContinues(poller.due \ {d}) /\ UNCHANGED <<now, tasks, worker, used, fired>>
      BY <2>1, <2>2, <2>4
    <3>2. /\ PollerContinues(poller.due \ {d}).due \in SUBSET poller.due
          /\ PollerContinues(poller.due \ {d}).at <= now
          /\ PollerContinues(poller.due \ {d}).due = {} \/ PollerContinues(poller.due \ {d}).at \in poller.at .. now
      BY <1>1, Continued
    <3> QED BY <3>1, <3>2, OncePolled
  <2> QED BY <2>3, <2>4
<1>4. CASE EnqueueClaim
  <2>1. UNCHANGED <<now, tasks, worker, used, fired>>
    BY <1>4 DEF EnqueueClaim
  <2>2. poller' = PollerContinues(poller.due) \/ poller' = [Sleeping EXCEPT !.pc = "dead"]
    BY <1>4 DEF EnqueueClaim
  <2>3. /\ poller'.due \in SUBSET poller.due /\ poller'.at <= now
        /\ poller'.due = {} \/ poller'.at \in poller.at .. now
    BY <1>1, <2>2, Continued DEF Sleeping
  <2> QED BY <2>1, <2>3, OncePolled
<1>5. CASE PollerExits
  <2>1. /\ UNCHANGED <<now, tasks, worker, used, fired>>
        /\ poller'.due = {} /\ poller'.at <= now
    BY <1>1, <1>5 DEF PollerExits, Sleeping, observed
  <2> QED BY <2>1, OncePolled
<1> QED BY <1>2, <1>3, <1>4, <1>5 DEF PollerStep

LEMMA OnceDeleted ==
    ASSUME IInv, NEW once, OnceCopies(once), OnceArmed(once), NEW t \in TaskIds, DeleteTask(t)
    PROVE  OnceCopies(once)' /\ OnceArmed(once)'
<1>1. /\ tasks' = [tasks EXCEPT ![t] = Absent] /\ UNCHANGED <<now, worker, poller, used, fired>>
      /\ tasks \in [TaskIds -> Task]
  BY DEF DeleteTask, IInv, TypeOK
<1>2. /\ tasks'[t] = Absent /\ \A u \in TaskIds : u # t => tasks'[u] = tasks[u]
      /\ Absent.status = "absent" /\ Absent.nextRunAt = None
  BY <1>1 DEF Absent
<1>3. \A u \in TaskIds : Present(u)' => u # t /\ Present(u) /\ tasks'[u] = tasks[u]
  BY <1>2 DEF Present
<1>4. OnceCopies(once)'
  BY <1>1, <1>3 DEF OnceCopies
<1>5. OnceArmed(once)'
  <2>1. ASSUME NEW u \in TaskIds, ~ Present(u)' PROVE tasks'[u] = Absent
    BY <1>2, <2>1 DEF OnceArmed, Present
  <2>2. ASSUME NEW u \in TaskIds, Present(u)', u \in once
        PROVE  tasks'[u].nextRunAt \in {None, tasks'[u].schedule.arg}
    BY <1>3, <2>2 DEF OnceArmed
  <2>3. \A u \in once : u \in TaskIds \/ tasks'[u] = tasks[u]
    BY <1>1
  <2>4. ASSUME NEW u \in once PROVE fired'[u] <= 1 /\ (fired'[u] = 1 => tasks'[u].nextRunAt = None)
    BY <1>1, <1>2, <2>3, <2>4 DEF OnceArmed
  <2> QED BY <1>1, <2>1, <2>2, <2>4 DEF OnceArmed
<1> QED BY <1>4, <1>5

\* No client is about to save a task.
NoEdits == \A c \in Clients : client[c].op \notin {"update", "resume"}

LEMMA NothingEdited ==
    ASSUME IInv, WithoutEdits, NoEdits, [Next]_vars
    PROVE  /\ NoEdits'
           /\ ~ \E c \in Clients : CommitUpdate(c) \/ CommitResume(c)
           /\ ~ \E c \in Clients, t \in TaskIds : BeginUpdate(c, t) \/ BeginResume(c, t)
<1>1. client \in [Clients -> Client]
  BY DEF IInv, TypeOK
<1>2. ~ \E c \in Clients : CommitUpdate(c) \/ CommitResume(c)
  BY DEF NoEdits, CommitUpdate, CommitResume
<1>3. ASSUME NEW c \in Clients, NEW t, NEW op, NEW status, NEW s, Begin(c, t, op, status, s)
      PROVE  op \notin {"update", "resume"} /\ NoEdits'
  <2>1. op \in Requests /\ op \notin {"update", "resume"}
    BY <1>3 DEF Begin, WithoutEdits
  <2> DEFINE r == [op |-> op, task |-> t, snap |-> tasks[t], at |-> now, status |-> status, schedule |-> s]
  <2>2. client' = [client EXCEPT ![c] = r] /\ r.op = op
    BY <1>3 DEF Begin
  <2> HIDE DEF r
  <2>3. \A d \in Clients : client'[d].op = IF d = c THEN op ELSE client[d].op
    BY <1>1, <2>2
  <2> QED BY <2>1, <2>3 DEF NoEdits
<1>4. ~ \E c \in Clients, t \in TaskIds : BeginUpdate(c, t) \/ BeginResume(c, t)
  BY <1>3 DEF BeginUpdate, BeginResume
<1>5. NoEdits'
  <2>1. CASE Operation
    <3>1. CASE \E t \in TaskIds : CreateTask(t) \/ DeleteTask(t)
      BY <3>1 DEF CreateTask, DeleteTask, NoEdits
    <3>2. CASE \E c \in Clients, t \in TaskIds : BeginTrigger(c, t) \/ BeginRetry(c, t)
      BY <1>3, <3>2 DEF BeginTrigger, BeginRetry
    <3>3. CASE RunFlow
      BY <3>3 DEF RunFlow, NoEdits
    <3> QED BY <1>4, <2>1, <3>1, <3>2, <3>3 DEF Operation
  <2>2. CASE \E c \in Clients : CommitTrigger(c)
    <3>1. PICK c \in Clients : client' = [client EXCEPT ![c] = IdleClient]
      BY <2>2 DEF CommitTrigger
    <3>2. IdleClient.op = "none"
      BY DEF IdleClient
    <3> QED BY <1>1, <3>1, <3>2 DEF NoEdits
  <2>3. CASE Restart
    <3>1. client' = [c \in Clients |-> IdleClient] /\ IdleClient.op = "none"
      BY <2>3 DEF Restart, IdleClient
    <3> QED BY <3>1 DEF NoEdits
  <2>4. CASE Tick \/ PollerStep \/ (\E w \in Workers : WorkerStep(w)) \/ Stop \/ UNCHANGED vars
    <3>1. UNCHANGED client
      BY <2>4 DEF Tick, PollerStep, PollDue, ClaimDue, EnqueueClaim, PollerExits, WorkerStep, TakeEntry,
                  WorkerExits, ReadTask, RunAttempt, WriteBack, Stop, vars
    <3> QED BY <3>1 DEF NoEdits
  <2> QED BY <1>2, <2>1, <2>2, <2>3, <2>4 DEF Next, Commit
<1> QED BY <1>2, <1>4, <1>5

LEMMA OnceStep ==
    ASSUME IInv, WithoutEdits, NoEdits, OnceInv, [Next]_vars
    PROVE  OnceInv'
<1>1. PICK once \in SUBSET TaskIds : OnceCopies(once) /\ OnceArmed(once)
  BY DEF OnceInv
<1>2. SUFFICES (\E t \in TaskIds : CreateTask(t)) \/ (OnceCopies(once)' /\ OnceArmed(once)')
  BY <1>1, OnceCreated DEF OnceInv
<1>3. now \in Nat /\ poller.at \in Nat
  BY DEF IInv, TypeOK, Poller
<1>4. CASE Tick
  <2>1. now' = now + 1 /\ UNCHANGED <<tasks, worker, poller, used, fired>>
    BY <1>4 DEF Tick, observed
  <2>2. OnceCopies(once)'
    BY <1>1, <2>1 DEF OnceCopies, Present
  <2>3. OnceArmed(once)'
    BY <1>1, <1>3, <2>1 DEF OnceArmed, Present
  <2> QED BY <2>2, <2>3
<1>5. CASE Operation
  <2>1. CASE \E t \in TaskIds : DeleteTask(t)
    BY <1>1, <2>1, OnceDeleted
  <2>2. CASE \E c \in Clients, t \in TaskIds : BeginTrigger(c, t) \/ BeginRetry(c, t)
    <3>1. UNCHANGED <<now, tasks, worker, poller, used, fired>>
      BY <2>2 DEF BeginTrigger, BeginRetry, Begin, observed
    <3> QED BY <1>1, <3>1, OnceApart
  <2>3. CASE RunFlow
    <3>1. UNCHANGED <<now, tasks, worker, poller, used, fired>>
      BY <2>3 DEF RunFlow
    <3> QED BY <1>1, <3>1, OnceApart
  <2> QED BY <1>5, <2>1, <2>2, <2>3, NothingEdited DEF Operation
<1>6. CASE \E c \in Clients : Commit(c)
  <2>1. UNCHANGED <<now, tasks, worker, poller, used, fired>>
    BY <1>6, NothingEdited DEF Commit, CommitTrigger, observed
  <2> QED BY <1>1, <2>1, OnceApart
<1>7. CASE PollerStep
  BY <1>1, <1>7, OncePoller
<1>8. CASE \E w \in Workers : WorkerStep(w)
  BY <1>1, <1>8, OnceWorkers
<1>9. CASE Restart
  <2>1. /\ worker' = [w \in Workers |-> IdleWorker] /\ poller' = Sleeping
        /\ UNCHANGED <<now, tasks, used, fired>>
        /\ Sleeping.due = {} /\ Sleeping.at = 0 /\ IdleWorker.pc = "idle"
    BY <1>9 DEF Restart, Sleeping, IdleWorker
  <2>2. OnceCopies(once)'
    BY <1>1, <2>1 DEF OnceCopies, Present
  <2>3. OnceArmed(once)'
    BY <1>1, <1>3, <2>1 DEF OnceArmed, Present
  <2> QED BY <2>2, <2>3
<1>10. CASE Stop \/ UNCHANGED vars
  <2>1. UNCHANGED <<now, tasks, worker, poller, used, fired>>
    BY <1>10 DEF Stop, vars, observed
  <2> QED BY <1>1, <2>1, OnceApart
<1> QED BY <1>4, <1>5, <1>6, <1>7, <1>8, <1>9, <1>10 DEF Next

LEMMA OnceInit == Init => NoEdits /\ OnceInv
<1> SUFFICES ASSUME Init PROVE NoEdits /\ OnceInv
  OBVIOUS
<1>1. \A t \in TaskIds : tasks[t] = Absent /\ ~ Present(t) /\ fired[t] = 0
  BY DEF Init, Absent, Present
<1>2. /\ poller.due = {} /\ poller.at <= now
      /\ \A w \in Workers : worker[w].pc = "idle"
      /\ \A c \in Clients : client[c].op = "none"
  BY DEF Init, Sleeping, IdleWorker, IdleClient
<1>3. OnceCopies({}) /\ OnceArmed({})
  BY <1>1, <1>2 DEF OnceCopies, OnceArmed
<1> QED BY <1>2, <1>3 DEF NoEdits, OnceInv

\* OnceFiresOnce: as long as clients do not edit tasks (an edit may rearm a
\* task, as it should), a "once" task is claimed at most once, whatever
\* triggers, retries, deletions, stale write-backs, stops and crashes happen.
THEOREM OnceClaimedOnce == ASSUME WithoutEdits PROVE Spec => []OnceFiresOnce
<1>1. IInv /\ OnceInv => OnceFiresOnce
  <2> SUFFICES ASSUME IInv, NEW once \in SUBSET TaskIds, OnceCopies(once), OnceArmed(once),
                      NEW t \in TaskIds, tasks[t].schedule.mode = "once"
               PROVE  fired[t] <= 1
    BY DEF OnceInv, OnceFiresOnce
  <2>1. Present(t)
    BY DEF OnceArmed, Absent, ManualSchedule
  <2> QED BY <2>1 DEF OnceCopies, OnceArmed, IsOnce
<1>2. IInv /\ NoEdits /\ OnceInv /\ [Next]_vars => (NoEdits /\ OnceInv)'
  BY NothingEdited, OnceStep
<1> QED BY <1>1, <1>2, OnceInit, IInvHolds, PTL DEF Spec
=============================================================================
