------------------------- MODULE DesktopSupervisor -------------------------
(***************************************************************************)
(* The desktop shell as keeper of the API process: main.rs of the Tauri    *)
(* application.                                                            *)
(*                                                                         *)
(* AppRuntime is behind one mutex.  Commands of the window, the shutdown   *)
(* and the supervisor thread hold it for a whole operation, so a step of   *)
(* this module is one critical section; between two of its own the         *)
(* supervisor sleeps.  The API process lives beside all that: it boots,    *)
(* binds its port, hangs, recovers and dies whenever it likes.             *)
(*                                                                         *)
(* Left out: the agent probe, which only displays the answer of the same   *)
(* health check; api_managed_by_desktop, which is set and cleared together *)
(* with api_pid; a missing sidecar binary, which leaves nothing to keep.   *)
(***************************************************************************)
EXTENDS Naturals, FiniteSets

CONSTANTS
    Ports,          \* ports within reach of select_available_api_port
    Threshold,      \* SUPERVISOR_FAILURE_THRESHOLD
    MaxRestarts,    \* SUPERVISOR_MAX_RESTARTS
    MaxCommands,    \* bound: commands of the window
    MaxFaults       \* bound: crashes, hangs, failing kills and failing spawns

ASSUME DesktopAssumption ==
    /\ Ports # {} /\ IsFiniteSet(Ports)
    /\ Threshold \in Nat \ {0}
    /\ MaxRestarts \in Nat
    /\ MaxCommands \in Nat
    /\ MaxFaults \in Nat

VARIABLES
    runtime,        \* AppRuntime
    proc,           \* the API processes spawned so far, by the order of spawning
    supervisor,     \* where the supervisor thread is
    shuttingDown,   \* RuntimeControl.shutting_down
    phase,          \* of the shell
    commands,       \* commands so far
    faults,         \* faults so far
    \* What an observer remembers.
    stopped         \* the services were stopped last, by the window or the shutdown

machine == <<runtime, proc, faults>>
vars == <<machine, supervisor, shuttingDown, phase, commands, stopped>>
-----------------------------------------------------------------------------
NoPid == 0
Pids == 1 .. (1 + MaxCommands + MaxRestarts)
Alive(ps, i) == ps[i].state \in {"booting", "ready", "hung"}

\* A process that boots has not bound its port yet.
Ready(ps, p) == \E i \in Pids : ps[i].state = "ready" /\ ps[i].port = p
CanBind(ps, p) == \A i \in Pids : ps[i].state \in {"ready", "hung"} => ps[i].port # p

\* select_available_api_port: the port itself, another one, or in despair it.
Available(ps, p) ==
    IF CanBind(ps, p) THEN {p}
    ELSE LET free == {q \in Ports : CanBind(ps, q)} IN IF free = {} THEN {p} ELSE free

Spawned(ps) == {i \in Pids : ps[i].state # "none"}
NextPid == Cardinality(Spawned(proc)) + 1

\* terminate_process, which may fail.  What there was is kept or killed.
Kills(ps, pid, f) ==
    {[proc |-> [i \in Pids |-> IF i = pid THEN [ps[i] EXCEPT !.state = "dead"] ELSE ps[i]],
      faults |-> f]}
    \cup IF pid # NoPid /\ f < MaxFaults THEN {[proc |-> ps, faults |-> f + 1]} ELSE {}

Outcome(r, ps, f) == [runtime |-> r, proc |-> ps, faults |-> f]

\* A process for port p: it cannot be spawned, or boots for longer than
\* wait_api_ready waits, or is ready.
SpawnsAt(r, ps, f, p) ==
    LET there    == [r EXCEPT !.port = p]
        next     == [there EXCEPT !.pid = NextPid]
        As(st)   == [ps EXCEPT ![NextPid] = [state |-> st, port |-> p]]
    IN  {Outcome(next, As("booting"), f)}
        \cup (IF f < MaxFaults
              THEN {Outcome([there EXCEPT !.status = "error"], ps, f + 1)} ELSE {})
        \cup (IF CanBind(ps, p)
              THEN {Outcome([next EXCEPT !.status = "ready", !.failures = 0], As("ready"), f)}
              ELSE {})

\* What start_services_internal makes of runtime r and processes ps.  A server
\* that answers on the port is taken for somebody else's.
Starts(r, ps, f) ==
    LET begun == [r EXCEPT !.supervised = TRUE, !.status = "starting"] IN
    IF Ready(ps, r.port)
    THEN {Outcome([begun EXCEPT !.pid = NoPid, !.status = "ready", !.failures = 0], ps, f)}
    ELSE UNION {SpawnsAt(begun, ps, f, p) : p \in Available(ps, r.port)}

\* What restart_api_internal makes of them.
Restarts(r, ps, f) ==
    UNION {UNION {Starts([r EXCEPT !.port = p, !.pid = NoPid, !.restarts = @ + 1,
                                   !.failures = 0, !.status = "restarting"],
                         k.proc, k.faults)
                    : p \in Available(k.proc, r.port)}
             : k \in Kills(ps, r.pid, f)}

\* What stop_services_internal makes of them.
Stops(r, ps, f) ==
    {Outcome([r EXCEPT !.supervised = FALSE, !.pid = NoPid, !.status = "idle",
                       !.failures = 0], k.proc, k.faults)
       : k \in Kills(ps, r.pid, f)}

\* One of these outcomes comes about.
Becomes(outcomes) ==
    \E o \in outcomes :
        /\ runtime' = o.runtime
        /\ proc' = o.proc
        /\ faults' = o.faults

Init ==
    /\ \E p \in Ports :
        /\ runtime = [status |-> "idle", port |-> p, pid |-> NoPid, supervised |-> TRUE,
                      restarts |-> 0, failures |-> 0]
        /\ proc = [i \in Pids |-> [state |-> "none", port |-> p]]
    /\ supervisor = "none"
    /\ shuttingDown = FALSE
    /\ phase = "setup"
    /\ commands = 0
    /\ faults = 0
    /\ stopped = FALSE
-----------------------------------------------------------------------------
(* The main thread: setup, commands of the window, shutdown *)

\* configure_runtime_paths chose a free port; the supervisor starts last.
Setup ==
    /\ phase = "setup"
    /\ Becomes(Starts(runtime, proc, faults))
    /\ phase' = "up"
    /\ supervisor' = "sleep"
    /\ UNCHANGED <<shuttingDown, commands, stopped>>

Command ==
    /\ phase = "up" /\ commands < MaxCommands
    /\ commands' = commands + 1
    /\ UNCHANGED <<supervisor, shuttingDown, phase>>

\* start_services; beside a process that lives, it forgets that process.
StartCommand ==
    /\ Command
    /\ Becomes(Starts(runtime, proc, faults))
    /\ stopped' = FALSE

\* restart_services
RestartCommand ==
    /\ Command
    /\ Becomes(Restarts(runtime, proc, faults))
    /\ stopped' = FALSE

\* stop_services
StopCommand ==
    /\ Command
    /\ Becomes(Stops(runtime, proc, faults))
    /\ stopped' = TRUE

\* shutdown_and_exit raises the flag before it asks for the mutex, ...
Shutdown ==
    /\ phase = "up" /\ ~shuttingDown
    /\ shuttingDown' = TRUE
    /\ phase' = "stopping"
    /\ UNCHANGED <<machine, supervisor, commands, stopped>>

\* ... and stops the services only if it knows of a process.
ShutdownStops ==
    /\ phase = "stopping"
    /\ IF runtime.pid # NoPid THEN Becomes(Stops(runtime, proc, faults)) /\ stopped' = TRUE
       ELSE UNCHANGED <<machine, stopped>>
    /\ phase' = "leaving"
    /\ UNCHANGED <<supervisor, shuttingDown, commands>>

\* exit(0) takes effect, whatever the supervisor is doing.
Exit ==
    /\ phase = "leaving"
    /\ phase' = "gone"
    /\ supervisor' = "ended"
    /\ UNCHANGED <<machine, shuttingDown, commands, stopped>>
-----------------------------------------------------------------------------
(* The supervisor thread: supervision_loop *)

LooksAtFlag(from, to) ==
    /\ supervisor = from
    /\ supervisor' = IF shuttingDown THEN "ended" ELSE to
    /\ UNCHANGED <<machine, shuttingDown, phase, commands, stopped>>

SupervisorPolls == LooksAtFlag("sleep", "assess")

\* Failures are only compared with the threshold: counting stops there.
FailuresNow == IF runtime.failures < Threshold THEN runtime.failures + 1 ELSE Threshold

\* assess_api_health
SupervisorAssesses ==
    /\ supervisor = "assess"
    /\ \/ /\ ~runtime.supervised
          /\ supervisor' = "sleep"
          /\ UNCHANGED runtime
       \/ /\ runtime.supervised /\ Ready(proc, runtime.port)
          /\ runtime' = [runtime EXCEPT !.status = "ready", !.failures = 0]
          /\ supervisor' = "sleep"
       \/ /\ runtime.supervised /\ ~Ready(proc, runtime.port)
          /\ FailuresNow < Threshold
          /\ runtime' = [runtime EXCEPT !.status = "unhealthy", !.failures = FailuresNow]
          /\ supervisor' = "sleep"
       \/ /\ runtime.supervised /\ ~Ready(proc, runtime.port)
          /\ FailuresNow >= Threshold /\ runtime.restarts >= MaxRestarts
          /\ runtime' = [runtime EXCEPT !.status = "error", !.failures = FailuresNow]
          /\ supervisor' = "sleep"
       \/ /\ runtime.supervised /\ ~Ready(proc, runtime.port)
          /\ FailuresNow >= Threshold /\ runtime.restarts < MaxRestarts
          /\ runtime' = [runtime EXCEPT !.status = "restarting", !.failures = FailuresNow]
          /\ supervisor' = "backoff"
    /\ UNCHANGED <<proc, faults, shuttingDown, phase, commands, stopped>>

\* Mutant of SupervisorWakes: the decision is lost over the sleep.
SupervisorWakesAnew == LooksAtFlag("backoff", "sleep")

SupervisorWakes == LooksAtFlag("backoff", "restart")

\* Mutant of SupervisorRestarts: what was decided before the sleep is done.
SupervisorRestartsBlindly ==
    /\ supervisor = "restart"
    /\ Becomes(Restarts(runtime, proc, faults))
    /\ supervisor' = "sleep"
    /\ UNCHANGED <<shuttingDown, phase, commands, stopped>>

\* After the sleep supervision may be off or the API well again.
SupervisorRestarts ==
    /\ supervisor = "restart"
    /\ IF runtime.supervised /\ ~Ready(proc, runtime.port)
       THEN Becomes(Restarts(runtime, proc, faults))
       ELSE UNCHANGED machine
    /\ supervisor' = "sleep"
    /\ UNCHANGED <<shuttingDown, phase, commands, stopped>>
-----------------------------------------------------------------------------
(* The API processes *)

Turns(i, state, fault) ==
    /\ proc' = [proc EXCEPT ![i].state = state]
    /\ faults' = faults + fault
    /\ UNCHANGED <<runtime, supervisor, shuttingDown, phase, commands, stopped>>

\* A process whose port is taken gives up.
Boots(i) ==
    /\ proc[i].state = "booting"
    /\ Turns(i, IF CanBind(proc, proc[i].port) THEN "ready" ELSE "dead", 0)

Hangs(i) == proc[i].state = "ready" /\ faults < MaxFaults /\ Turns(i, "hung", 1)
Recovers(i) == proc[i].state = "hung" /\ Turns(i, "ready", 0)
Crashes(i) == Alive(proc, i) /\ faults < MaxFaults /\ Turns(i, "dead", 1)
-----------------------------------------------------------------------------
SupervisorStep ==
    SupervisorPolls \/ SupervisorAssesses \/ SupervisorWakes \/ SupervisorRestarts

Next ==
    \/ Setup \/ StartCommand \/ RestartCommand \/ StopCommand
    \/ Shutdown \/ ShutdownStops \/ Exit
    \/ SupervisorStep
    \/ \E i \in Pids : Boots(i) \/ Hangs(i) \/ Recovers(i) \/ Crashes(i)

Spec == Init /\ [][Next]_vars

\* The threads of the shell run; nothing makes a process boot or recover.
FairSpec == Spec /\ WF_vars(SupervisorStep) /\ WF_vars(Setup)
-----------------------------------------------------------------------------
(* Properties *)

\* After the services were stopped, by stop_services or by the shutdown, nothing
\* is spawned until the window asks for it, not even by a supervisor that had
\* decided to restart the API before the stop.
StoppedStaysStopped ==
    [][Spawned(proc') # Spawned(proc) => ~stopped']_vars

\* An API that does not answer answers again, or the restarts are used up,
\* unless supervision is switched off or the shell shuts down.
ApiIsKept ==
    (phase = "up" /\ runtime.supervised /\ ~Ready(proc, runtime.port))
        ~> \/ Ready(proc, runtime.port) \/ runtime.restarts >= MaxRestarts
           \/ ~runtime.supervised \/ shuttingDown
=============================================================================
