-------------------------- MODULE MCTaskScheduler --------------------------
(* Instances of TaskScheduler for TLC. *)
EXTENDS TaskScheduler, TLC

Manual == [mode |-> "manual", arg |-> 0]
Once1 == [mode |-> "once", arg |-> 1]
Every1 == [mode |-> "interval", arg |-> 1]

ManualAndInterval == {Manual, Every1}
ManualOnceAndInterval == {Manual, Once1, Every1}
OnceAndInterval == {Once1, Every1}

\* Batches on an interval, whose runs end in any way; or else tasks that take every
\* schedule, whose runs succeed.
BatchesOrEdits ==
    \A t \in TaskIds :
        CASE tasks[t].type = "batch" -> tasks[t].schedule = Every1
          [] tasks[t].type = "manual" /\ tasks[t].status # "absent" ->
                /\ runs \in {<<>>, <<NoTask>>}
                /\ \A w \in Workers : worker[w].last \in {"none", "success"}
          [] OTHER -> TRUE

\* Task ids, threads and requests are interchangeable.
Symmetric == Permutations(TaskIds) \cup Permutations(Workers) \cup Permutations(Clients)
=============================================================================
