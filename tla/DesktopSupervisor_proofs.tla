----------------------- MODULE DesktopSupervisor_proofs -----------------------
(* Theorems about DesktopSupervisor, for any ports, thresholds and bounds. *)
EXTENDS DesktopSupervisor, FiniteSetTheorems, TLAPS

Runtime == [status : {"idle", "starting", "ready", "unhealthy", "error", "restarting"},
            port : Ports, pid : Nat, supervised : BOOLEAN, restarts : Nat, failures : Nat]
Process == [state : {"none", "booting", "ready", "hung", "dead"}, port : Ports]
Processes == [Pids -> Process]

TypeOK ==
    /\ runtime \in Runtime
    /\ proc \in Processes
    /\ supervisor \in {"none", "sleep", "assess", "backoff", "restart", "ended"}
    /\ shuttingDown \in BOOLEAN
    /\ phase \in {"setup", "up", "stopping", "leaving", "gone"}
    /\ commands \in 0 .. MaxCommands
    /\ faults \in 0 .. MaxFaults
    /\ stopped \in BOOLEAN

(***************************************************************************)
(* What is killed was spawned, and what is spawned is new: pids are given  *)
(* one by one, and never run out, because the supervisor decides for a     *)
(* restart only while restarts are left.                                   *)
(***************************************************************************)

\* Beside those of setup and commands, the supervisor has caused this many
\* spawns at least.
Spawns(k) == k - commands - (IF phase = "setup" THEN 0 ELSE 1)

Counted(k) ==
    /\ Spawned(proc) = 1 .. k
    /\ Spawns(k) <= runtime.restarts
    /\ Spawns(k) <= MaxRestarts
    /\ supervisor \in {"backoff", "restart"} => Spawns(k) < MaxRestarts

SpawnsCounted == \E k \in 0 .. (1 + MaxCommands + MaxRestarts) : Counted(k)

PidKnown == runtime.pid = NoPid \/ runtime.pid \in Spawned(proc)

\* Before setup nothing has happened; and a stop switches supervision off.
Fresh == phase = "setup" =>
            commands = 0 /\ runtime.restarts = 0 /\ ~stopped /\ supervisor = "none"
StopHolds == stopped => ~runtime.supervised

IInv == TypeOK /\ SpawnsCounted /\ PidKnown /\ Fresh /\ StopHolds
-----------------------------------------------------------------------------
LEMMA PidRange == Pids = 1 .. (1 + MaxCommands + MaxRestarts) /\ MaxCommands \in Nat /\ MaxRestarts \in Nat
BY DesktopAssumption DEF Pids

\* A good triple of runtime, processes and faults, with k processes spawned.
Good(r, ps, f, k) ==
    /\ r \in Runtime
    /\ ps \in Processes
    /\ f \in 0 .. MaxFaults
    /\ Spawned(ps) = 1 .. k
    /\ r.pid = NoPid \/ r.pid \in Spawned(ps)

\* The same of an outcome; it may have one more.
Result(o, k) == Good(o.runtime, o.proc, o.faults, k)

LEMMA AvailablePort ==
    ASSUME NEW ps \in Processes, NEW p \in Ports
    PROVE  Available(ps, p) \subseteq Ports
BY DEF Available

LEMMA KillsKeep ==
    ASSUME NEW r, NEW ps, NEW f, NEW k \in Nat, Good(r, ps, f, k), NEW x \in Kills(ps, r.pid, f)
    PROVE  x.proc \in Processes /\ x.faults \in 0 .. MaxFaults /\ Spawned(x.proc) = 1 .. k
<1> DEFINE killed == [i \in Pids |-> IF i = r.pid THEN [ps[i] EXCEPT !.state = "dead"] ELSE ps[i]]
<1>1. /\ r.pid \in Nat /\ f \in Nat /\ MaxFaults \in Nat /\ f <= MaxFaults /\ ps \in Processes
      /\ Spawned(ps) = 1 .. k
      /\ r.pid # NoPid => r.pid \in Spawned(ps)
  BY DesktopAssumption DEF Good, Runtime
<1>2. killed \in Processes
  BY <1>1 DEF Processes, Process
<1>3. Spawned(killed) = Spawned(ps)
  <2>1. \A i \in Pids : i = r.pid => i \in Spawned(ps)
    BY <1>1, PidRange DEF NoPid
  <2>2. \A i \in Pids : killed[i].state # "none" <=> ps[i].state # "none"
    BY <1>1, <2>1 DEF Processes, Process, Spawned
  <2>3. QED
    BY <2>2 DEF Spawned
<1> HIDE DEF killed
<1>4. \/ x.proc = killed /\ x.faults = f
      \/ x.proc = ps /\ x.faults = f + 1 /\ f < MaxFaults
  BY DEF Kills, killed
<1>5. QED
  BY <1>1, <1>2, <1>3, <1>4

\* Whatever spawning at a port makes of a good triple is good.
LEMMA SpawnsAtGood ==
    ASSUME NEW r, NEW ps, NEW f, NEW k \in Nat, Good(r, ps, f, k), k + 1 \in Pids,
           Spawned(proc) = 1 .. k, NEW p \in Ports, NEW o \in SpawnsAt(r, ps, f, p)
    PROVE  /\ Result(o, k) \/ Result(o, k + 1)
           /\ o.runtime.restarts = r.restarts /\ o.runtime.supervised = r.supervised
<1>1. NextPid = k + 1
  <2>1. Cardinality(1 .. k) = k
    BY FS_Interval
  <2>2. QED
    BY <2>1 DEF NextPid
<1> DEFINE there == [r EXCEPT !.port = p]
           next == [there EXCEPT !.pid = k + 1]
           As(st) == [ps EXCEPT ![k + 1] = [state |-> st, port |-> p]]
<1>2. /\ r \in Runtime /\ ps \in Processes /\ f \in 0 .. MaxFaults /\ MaxFaults \in Nat
      /\ Spawned(ps) = 1 .. k
  BY DesktopAssumption DEF Good
<1>3. /\ there \in Runtime /\ there.pid = r.pid /\ there.restarts = r.restarts
      /\ there.supervised = r.supervised
  BY <1>2 DEF Runtime
<1> HIDE DEF there
<1>4. /\ next \in Runtime /\ next.pid = k + 1 /\ next.restarts = r.restarts
      /\ next.supervised = r.supervised
  BY <1>3 DEF Runtime
<1>5. ASSUME NEW st \in {"booting", "ready"}
      PROVE  As(st) \in Processes /\ Spawned(As(st)) = 1 .. (k + 1)
  <2>1. As(st) \in Processes
    BY <1>2 DEF Processes, Process
  <2>2. \A i \in Pids : i \in Spawned(As(st)) <=> i \in Spawned(ps) \/ i = k + 1
    BY <1>2 DEF Processes, Process, Spawned
  <2>3. \A i \in 1 .. (k + 1) : i \in Pids
    BY PidRange
  <2>4. Spawned(As(st)) \subseteq Pids /\ Spawned(ps) \subseteq Pids
    BY DEF Spawned
  <2>5. 1 .. (k + 1) = (1 .. k) \cup {k + 1}
    OBVIOUS
  <2>6. QED
    BY <1>2, <2>1, <2>2, <2>3, <2>4, <2>5
<1>6. \/ o = Outcome(next, As("booting"), f)
      \/ f < MaxFaults /\ o = Outcome([there EXCEPT !.status = "error"], ps, f + 1)
      \/ o = Outcome([next EXCEPT !.status = "ready", !.failures = 0], As("ready"), f)
  BY <1>1 DEF SpawnsAt, there
<1> HIDE DEF next, As
<1>7. CASE o = Outcome(next, As("booting"), f)
  BY <1>2, <1>4, <1>5, <1>7 DEF Outcome, Result, Good
<1>8. CASE f < MaxFaults /\ o = Outcome([there EXCEPT !.status = "error"], ps, f + 1)
  <2> DEFINE failed == [there EXCEPT !.status = "error"]
  <2>1. /\ failed \in Runtime /\ failed.pid = r.pid /\ failed.restarts = r.restarts
        /\ failed.supervised = r.supervised
    BY <1>3 DEF Runtime
  <2> HIDE DEF failed
  <2>2. o = Outcome(failed, ps, f + 1) /\ f + 1 \in 0 .. MaxFaults
    BY <1>2, <1>8 DEF failed
  <2>3. QED
    BY <1>2, <2>1, <2>2 DEF Outcome, Result, Good
<1>9. CASE o = Outcome([next EXCEPT !.status = "ready", !.failures = 0], As("ready"), f)
  <2> DEFINE ready == [next EXCEPT !.status = "ready", !.failures = 0]
  <2>1. /\ ready \in Runtime /\ ready.pid = k + 1 /\ ready.restarts = r.restarts
        /\ ready.supervised = r.supervised
    BY <1>4 DEF Runtime
  <2> HIDE DEF ready
  <2>2. o = Outcome(ready, As("ready"), f)
    BY <1>9 DEF ready
  <2>3. QED
    BY <1>2, <1>5, <2>1, <2>2 DEF Outcome, Result, Good
<1>10. QED
  BY <1>6, <1>7, <1>8, <1>9

\* The three internal functions of the shell, from good to good.
LEMMA StartsGood ==
    ASSUME NEW r, NEW ps, NEW f, NEW k \in Nat, Good(r, ps, f, k), k + 1 \in Pids,
           Spawned(proc) = 1 .. k, NEW o \in Starts(r, ps, f)
    PROVE  /\ Result(o, k) \/ Result(o, k + 1)
           /\ o.runtime.restarts = r.restarts
<1> DEFINE begun == [r EXCEPT !.supervised = TRUE, !.status = "starting"]
           found == [begun EXCEPT !.pid = NoPid, !.status = "ready", !.failures = 0]
<1>1. r \in Runtime /\ ps \in Processes
  BY DEF Good
<1>2. /\ begun \in Runtime /\ begun.pid = r.pid /\ begun.restarts = r.restarts /\ begun.port = r.port
      /\ begun.port \in Ports
  BY <1>1 DEF Runtime
<1>3. found \in Runtime /\ found.pid = NoPid /\ found.restarts = r.restarts
  BY <1>1 DEF Runtime, NoPid
<1>4. \/ o = Outcome(found, ps, f)
      \/ \E p \in Available(ps, r.port) : o \in SpawnsAt(begun, ps, f, p)
  BY DEF Starts
<1> HIDE DEF begun, found
<1>5. CASE o = Outcome(found, ps, f)
  BY <1>3, <1>5 DEF Outcome, Result, Good
<1>6. CASE \E p \in Available(ps, r.port) : o \in SpawnsAt(begun, ps, f, p)
  <2>1. Good(begun, ps, f, k)
    BY <1>2 DEF Good
  <2>2. PICK p \in Ports : o \in SpawnsAt(begun, ps, f, p)
    BY <1>1, <1>2, <1>6, AvailablePort
  <2>3. QED
    BY <1>2, <2>1, <2>2, SpawnsAtGood
<1>7. QED
  BY <1>4, <1>5, <1>6

LEMMA RestartsGood ==
    ASSUME NEW r, NEW ps, NEW f, NEW k \in Nat, Good(r, ps, f, k), k + 1 \in Pids,
           Spawned(proc) = 1 .. k, NEW o \in Restarts(r, ps, f)
    PROVE  /\ Result(o, k) \/ Result(o, k + 1)
           /\ o.runtime.restarts = r.restarts + 1
<1>1. r \in Runtime /\ ps \in Processes /\ r.port \in Ports
  BY DEF Good, Runtime
<1> DEFINE Again(p) == [r EXCEPT !.port = p, !.pid = NoPid, !.restarts = @ + 1,
                                 !.failures = 0, !.status = "restarting"]
           From(x) == UNION {Starts(Again(p), x.proc, x.faults) : p \in Available(x.proc, r.port)}
<1>2. PICK x \in Kills(ps, r.pid, f) : o \in From(x)
  <2>1. o \in UNION {From(x) : x \in Kills(ps, r.pid, f)}
    BY DEF Restarts
  <2> HIDE DEF From
  <2>2. QED
    BY <2>1
<1>3. x.proc \in Processes /\ x.faults \in 0 .. MaxFaults /\ Spawned(x.proc) = 1 .. k
  BY KillsKeep
<1>4. PICK p \in Available(x.proc, r.port) : o \in Starts(Again(p), x.proc, x.faults)
  <2> HIDE DEF Again
  <2>1. QED
    BY <1>2
<1>5. p \in Ports
  BY <1>1, <1>3, AvailablePort
<1> DEFINE again == Again(p)
<1>6. again \in Runtime /\ again.pid = NoPid /\ again.restarts = r.restarts + 1
  <2>1. r.restarts \in Nat
    BY <1>1 DEF Runtime
  <2>2. [r EXCEPT !.port = p, !.pid = 0] \in Runtime
    BY <1>1, <1>5 DEF Runtime
  <2> DEFINE moved == [r EXCEPT !.port = p, !.pid = 0]
  <2>3. moved.restarts = r.restarts /\ moved.pid = 0
    BY <1>1 DEF Runtime
  <2>4. again = [moved EXCEPT !.restarts = r.restarts + 1, !.failures = 0, !.status = "restarting"]
    BY <1>1 DEF NoPid, Runtime
  <2>5. moved \in Runtime
    BY <2>2
  <2> HIDE DEF moved, again
  <2>6. again \in Runtime
    <3>1. r.restarts + 1 \in Nat
      BY <2>1
    <3> DEFINE n == r.restarts + 1
    <3>2. n \in Nat /\ again = [moved EXCEPT !.restarts = n, !.failures = 0, !.status = "restarting"]
      BY <2>4, <3>1
    <3> HIDE DEF n
    <3>3. QED
      BY <2>5, <3>2 DEF Runtime
  <2>7. again.pid = moved.pid /\ again.restarts = r.restarts + 1
    BY <2>4, <2>5 DEF Runtime
  <2>8. QED
    BY <2>3, <2>6, <2>7 DEF NoPid
<1>7. o \in Starts(again, x.proc, x.faults)
  BY <1>4
<1> HIDE DEF again
<1>8. Good(again, x.proc, x.faults, k)
  BY <1>3, <1>6 DEF Good
<1>9. QED
  BY <1>6, <1>7, <1>8, StartsGood

LEMMA StopsGood ==
    ASSUME NEW r, NEW ps, NEW f, NEW k \in Nat, Good(r, ps, f, k), NEW o \in Stops(r, ps, f)
    PROVE  Result(o, k) /\ ~o.runtime.supervised /\ o.runtime.restarts = r.restarts
<1> DEFINE over == [r EXCEPT !.supervised = FALSE, !.pid = NoPid, !.status = "idle", !.failures = 0]
<1>1. r \in Runtime
  BY DEF Good
<1>2. over \in Runtime /\ over.pid = NoPid /\ ~over.supervised /\ over.restarts = r.restarts
  BY <1>1 DEF Runtime, NoPid
<1>3. PICK x \in Kills(ps, r.pid, f) : o = Outcome(over, x.proc, x.faults)
  BY DEF Stops
<1>4. x.proc \in Processes /\ x.faults \in 0 .. MaxFaults /\ Spawned(x.proc) = 1 .. k
  BY KillsKeep
<1> HIDE DEF over
<1>5. QED
  BY <1>2, <1>3, <1>4 DEF Outcome, Result, Good

-----------------------------------------------------------------------------
(* What the steps preserve *)

LEMMA Initially == Init => IInv
<1> SUFFICES ASSUME Init PROVE IInv
  OBVIOUS
<1>1. PICK p \in Ports :
        /\ runtime = [status |-> "idle", port |-> p, pid |-> NoPid, supervised |-> TRUE,
                      restarts |-> 0, failures |-> 0]
        /\ proc = [i \in Pids |-> [state |-> "none", port |-> p]]
  BY DEF Init
<1>2. runtime \in Runtime /\ proc \in Processes
  BY <1>1 DEF Runtime, Processes, Process, NoPid
<1>3. Spawned(proc) = {}
  BY <1>1 DEF Spawned
<1>4. TypeOK
  <2>1. 0 \in 0 .. MaxCommands /\ 0 \in 0 .. MaxFaults
    BY DesktopAssumption
  <2>2. /\ supervisor = "none" /\ shuttingDown = FALSE /\ phase = "setup" /\ commands = 0
        /\ faults = 0 /\ stopped = FALSE
    BY DEF Init
  <2>3. QED
    BY <1>2, <2>1, <2>2 DEF TypeOK
<1>5. Counted(0)
  <2>1. 1 .. 0 = {}
    OBVIOUS
  <2>2. QED
    BY <1>1, <1>3, <2>1, DesktopAssumption DEF Init, Counted, Spawns
<1>6. SpawnsCounted
  BY <1>5, DesktopAssumption DEF SpawnsCounted
<1>7. PidKnown /\ Fresh /\ StopHolds
  BY <1>1 DEF Init, PidKnown, Fresh, StopHolds
<1>8. QED
  BY <1>4, <1>6, <1>7 DEF IInv

\* The current triple is good, and there is a pid for a process that the shell,
\* the window, or a supervisor that decided so, may spawn.
LEMMA NowGood ==
    ASSUME IInv, NEW k \in 0 .. (1 + MaxCommands + MaxRestarts), Counted(k)
    PROVE  /\ k \in Nat
           /\ Good(runtime, proc, faults, k)
           /\ Spawned(proc) = 1 .. k
           /\ \/ phase = "setup" /\ k = 0
              \/ phase # "setup" /\ commands < MaxCommands
              \/ supervisor = "restart"
              => k + 1 \in Pids
<1>1. k \in Nat /\ commands \in Nat /\ commands <= MaxCommands /\ MaxCommands \in Nat
      /\ MaxRestarts \in Nat
  BY DesktopAssumption DEF IInv, TypeOK
<1>2. Good(runtime, proc, faults, k) /\ Spawned(proc) = 1 .. k
  BY DEF IInv, TypeOK, PidKnown, Counted, Good
<1>3. Spawns(k) <= MaxRestarts /\ (supervisor = "restart" => Spawns(k) < MaxRestarts)
  BY DEF Counted
<1>4. supervisor = "restart" => phase # "setup"
  BY DEF IInv, Fresh
<1>5. phase # "setup" => Spawns(k) = k - commands - 1
  BY DEF Spawns
<1>6. QED
  BY <1>1, <1>2, <1>3, <1>4, <1>5, PidRange

\* An outcome that comes about leaves the runtime and the processes in order.
LEMMA BecomesGood ==
    ASSUME NEW o, NEW k \in Nat, Result(o, k),
           runtime' = o.runtime, proc' = o.proc, faults' = o.faults
    PROVE  /\ runtime' \in Runtime /\ proc' \in Processes /\ faults' \in 0 .. MaxFaults
           /\ PidKnown' /\ Spawned(proc)' = 1 .. k /\ k \in 0 .. (1 + MaxCommands + MaxRestarts)
<1>1. runtime' \in Runtime /\ proc' \in Processes /\ faults' \in 0 .. MaxFaults
  BY DEF Result, Good
<1>2. Spawned(proc)' = 1 .. k
  BY DEF Result, Good, Spawned
<1>3. PidKnown'
  BY DEF Result, Good, PidKnown, Spawned
<1>4. k \in 0 .. (1 + MaxCommands + MaxRestarts)
  <2>1. k = 0 \/ k \in 1 .. k
    OBVIOUS
  <2>2. k = 0 \/ k \in Pids
    BY <1>2, <2>1 DEF Spawned
  <2>3. QED
    BY <2>2, PidRange
<1>5. QED
  BY <1>1, <1>2, <1>3, <1>4

LEMMA SetupKeeps == IInv /\ Setup => IInv'
<1> SUFFICES ASSUME IInv, Setup PROVE IInv'
  OBVIOUS
<1>1. PICK k \in 0 .. (1 + MaxCommands + MaxRestarts) : Counted(k)
  BY DEF IInv, SpawnsCounted
<1>2. phase = "setup" /\ commands = 0 /\ runtime.restarts = 0 /\ ~stopped
  BY DEF IInv, Fresh, Setup
<1>3. k = 0
  BY <1>1, <1>2 DEF Counted, Spawns
<1>4. PICK o \in Starts(runtime, proc, faults) :
          runtime' = o.runtime /\ proc' = o.proc /\ faults' = o.faults
  BY DEF Setup, Becomes
<1>5. (Result(o, 0) \/ Result(o, 1)) /\ o.runtime.restarts = 0
  BY <1>1, <1>2, <1>3, NowGood, StartsGood
<1>6. PICK j \in {0, 1} : Result(o, j)
  BY <1>5
<1>7. /\ runtime' \in Runtime /\ proc' \in Processes /\ faults' \in 0 .. MaxFaults
      /\ PidKnown' /\ Spawned(proc)' = 1 .. j /\ j \in 0 .. (1 + MaxCommands + MaxRestarts)
  BY <1>4, <1>6, BecomesGood
<1>8. phase' = "up" /\ supervisor' = "sleep" /\ commands' = 0 /\ ~stopped'
      /\ UNCHANGED <<shuttingDown, commands, stopped>>
  BY <1>2 DEF Setup
<1>9. Counted(j)'
  BY <1>4, <1>5, <1>7, <1>8, DesktopAssumption DEF Counted, Spawns
<1>10. TypeOK'
  BY <1>7, <1>8 DEF IInv, TypeOK
<1>11. SpawnsCounted'
  BY <1>7, <1>9 DEF SpawnsCounted
<1>12. QED
  BY <1>7, <1>8, <1>10, <1>11 DEF IInv, Fresh, StopHolds

\* Window commands: one more of them, and at most one more process.
LEMMA CommandKeeps ==
    ASSUME IInv, Command, NEW k \in 0 .. (1 + MaxCommands + MaxRestarts), Counted(k),
           NEW j \in {k, k + 1}, NEW o, Result(o, j), o.runtime.restarts >= runtime.restarts,
           runtime' = o.runtime, proc' = o.proc, faults' = o.faults,
           stopped' \in BOOLEAN, stopped' => ~runtime'.supervised
    PROVE  IInv'
<1>1. /\ runtime' \in Runtime /\ proc' \in Processes /\ faults' \in 0 .. MaxFaults
      /\ PidKnown' /\ Spawned(proc)' = 1 .. j /\ j \in 0 .. (1 + MaxCommands + MaxRestarts)
  BY BecomesGood
<1>2. /\ phase = "up" /\ phase' = "up" /\ commands < MaxCommands /\ commands' = commands + 1
      /\ supervisor' = supervisor /\ shuttingDown' = shuttingDown
  BY DEF Command
<1>3. /\ commands \in Nat /\ MaxCommands \in Nat /\ MaxRestarts \in Nat /\ k \in Nat
      /\ runtime.restarts \in Nat /\ runtime'.restarts \in Nat
      /\ runtime'.restarts >= runtime.restarts
  BY <1>1, DesktopAssumption DEF IInv, TypeOK, Runtime
<1>4. Spawns(j)' <= Spawns(k)
  BY <1>2, <1>3 DEF Spawns
<1>5. Spawns(j)' \in Int /\ Spawns(k) \in Int
  BY <1>2, <1>3 DEF Spawns
<1>6. Counted(j)'
  BY <1>1, <1>2, <1>3, <1>4, <1>5 DEF Counted
<1>7. TypeOK'
  BY <1>1, <1>2, <1>3 DEF IInv, TypeOK
<1>8. SpawnsCounted'
  BY <1>1, <1>6 DEF SpawnsCounted
<1>9. QED
  BY <1>1, <1>2, <1>7, <1>8 DEF IInv, Fresh, StopHolds

LEMMA CommandsKeep == IInv /\ (StartCommand \/ RestartCommand \/ StopCommand) => IInv'
<1> SUFFICES ASSUME IInv, StartCommand \/ RestartCommand \/ StopCommand PROVE IInv'
  OBVIOUS
<1>1. PICK k \in 0 .. (1 + MaxCommands + MaxRestarts) : Counted(k)
  BY DEF IInv, SpawnsCounted
<1>2. Command /\ phase # "setup" /\ commands < MaxCommands
  BY DEF StartCommand, RestartCommand, StopCommand, Command
<1>3. /\ k \in Nat /\ Good(runtime, proc, faults, k) /\ Spawned(proc) = 1 .. k /\ k + 1 \in Pids
      /\ runtime.restarts \in Nat
  BY <1>1, <1>2, NowGood DEF IInv, TypeOK, Runtime
<1>4. CASE StartCommand
  <2>1. PICK o \in Starts(runtime, proc, faults) :
            runtime' = o.runtime /\ proc' = o.proc /\ faults' = o.faults
    BY <1>4 DEF StartCommand, Becomes
  <2>2. o.runtime.restarts = runtime.restarts /\ (Result(o, k) \/ Result(o, k + 1))
    BY <1>3, StartsGood
  <2>3. stopped' = FALSE
    BY <1>4 DEF StartCommand
  <2>4. o.runtime.restarts >= runtime.restarts
    BY <1>3, <2>2
  <2>5. QED
    BY <1>1, <1>2, <2>1, <2>2, <2>3, <2>4, CommandKeeps
<1>5. CASE RestartCommand
  <2>1. PICK o \in Restarts(runtime, proc, faults) :
            runtime' = o.runtime /\ proc' = o.proc /\ faults' = o.faults
    BY <1>5 DEF RestartCommand, Becomes
  <2>2. o.runtime.restarts = runtime.restarts + 1 /\ (Result(o, k) \/ Result(o, k + 1))
    BY <1>3, RestartsGood
  <2>3. stopped' = FALSE
    BY <1>5 DEF RestartCommand
  <2>4. o.runtime.restarts >= runtime.restarts
    BY <1>3, <2>2
  <2>5. QED
    BY <1>1, <1>2, <2>1, <2>2, <2>3, <2>4, CommandKeeps
<1>6. CASE StopCommand
  <2>1. PICK o \in Stops(runtime, proc, faults) :
            runtime' = o.runtime /\ proc' = o.proc /\ faults' = o.faults
    BY <1>6 DEF StopCommand, Becomes
  <2>2. o.runtime.restarts = runtime.restarts /\ Result(o, k) /\ ~o.runtime.supervised
    BY <1>3, StopsGood
  <2>3. stopped' = TRUE
    BY <1>6 DEF StopCommand
  <2>4. o.runtime.restarts >= runtime.restarts
    BY <1>3, <2>2
  <2>5. QED
    BY <1>1, <1>2, <2>1, <2>2, <2>3, <2>4, CommandKeeps
<1>7. QED
  BY <1>4, <1>5, <1>6

\* Where nothing is spawned and nothing becomes of the runtime but what the
\* supervisor notes in it.
LEMMA NothingSpawned ==
    ASSUME IInv, TypeOK', Spawned(proc)' = Spawned(proc), commands' = commands,
           phase # "setup", phase' # "setup", runtime'.restarts = runtime.restarts,
           runtime'.pid \in {NoPid, runtime.pid},
           supervisor' \in {"backoff", "restart"} =>
               supervisor \in {"backoff", "restart"} \/ runtime.restarts < MaxRestarts,
           stopped' => ~runtime'.supervised
    PROVE  IInv'
<1>1. PICK k \in 0 .. (1 + MaxCommands + MaxRestarts) : Counted(k)
  BY DEF IInv, SpawnsCounted
<1>2. Spawns(k)' = Spawns(k)
  BY DEF Spawns
<1>3. /\ runtime.restarts \in Nat /\ MaxRestarts \in Nat /\ k \in Nat /\ commands \in Nat
  BY DesktopAssumption DEF IInv, TypeOK, Runtime
<1>4. Spawns(k) \in Int
  BY <1>3 DEF Spawns
<1>5. Counted(k)'
  BY <1>1, <1>2, <1>3, <1>4 DEF Counted
<1>6. SpawnsCounted'
  BY <1>5 DEF SpawnsCounted
<1>7. PidKnown'
  BY DEF IInv, PidKnown
<1>8. QED
  BY <1>6, <1>7 DEF IInv, Fresh, StopHolds

LEMMA ShutdownKeeps == IInv /\ (Shutdown \/ ShutdownStops \/ Exit) => IInv'
<1> SUFFICES ASSUME IInv, Shutdown \/ ShutdownStops \/ Exit PROVE IInv'
  OBVIOUS
<1>1. CASE Shutdown
  <2>1. TypeOK'
    BY <1>1 DEF IInv, TypeOK, Shutdown, machine
  <2>2. QED
    BY <1>1, <2>1, NothingSpawned DEF IInv, StopHolds, Shutdown, machine, Spawned
<1>2. CASE Exit
  <2>1. TypeOK'
    BY <1>2 DEF IInv, TypeOK, Exit, machine
  <2>2. QED
    BY <1>2, <2>1, NothingSpawned DEF IInv, StopHolds, Exit, machine, Spawned
<1>3. CASE ShutdownStops /\ runtime.pid = NoPid
  <2>1. TypeOK'
    BY <1>3 DEF IInv, TypeOK, ShutdownStops, machine
  <2>2. QED
    BY <1>3, <2>1, NothingSpawned DEF IInv, StopHolds, ShutdownStops, machine, Spawned
<1>4. CASE ShutdownStops /\ runtime.pid # NoPid
  <2>1. PICK k \in 0 .. (1 + MaxCommands + MaxRestarts) : Counted(k)
    BY DEF IInv, SpawnsCounted
  <2>2. k \in Nat /\ Good(runtime, proc, faults, k) /\ Spawned(proc) = 1 .. k
    BY <2>1, NowGood
  <2>3. PICK o \in Stops(runtime, proc, faults) :
            runtime' = o.runtime /\ proc' = o.proc /\ faults' = o.faults
    BY <1>4 DEF ShutdownStops, Becomes
  <2>4. o.runtime.restarts = runtime.restarts /\ Result(o, k) /\ ~o.runtime.supervised
    BY <2>2, StopsGood
  <2>5. /\ runtime' \in Runtime /\ proc' \in Processes /\ faults' \in 0 .. MaxFaults
        /\ PidKnown' /\ Spawned(proc)' = 1 .. k
    BY <2>2, <2>3, <2>4, BecomesGood
  <2>6. /\ phase = "stopping" /\ phase' = "leaving" /\ stopped' = TRUE
        /\ UNCHANGED <<supervisor, shuttingDown, commands>>
    BY <1>4 DEF ShutdownStops
  <2>7. TypeOK'
    BY <2>5, <2>6 DEF IInv, TypeOK
  <2>8. Counted(k)'
    BY <2>1, <2>3, <2>4, <2>5, <2>6 DEF Counted, Spawns
  <2>9. QED
    BY <2>3, <2>4, <2>5, <2>6, <2>7, <2>8 DEF IInv, SpawnsCounted, Fresh, StopHolds
<1>5. QED
  BY <1>1, <1>2, <1>3, <1>4

LEMMA SupervisorLooks == IInv /\ (SupervisorPolls \/ SupervisorWakes) => IInv'
<1> SUFFICES ASSUME IInv, SupervisorPolls \/ SupervisorWakes PROVE IInv'
  OBVIOUS
<1>1. UNCHANGED <<machine, shuttingDown, phase, commands, stopped>>
  BY DEF SupervisorPolls, SupervisorWakes, LooksAtFlag
<1>2. \/ supervisor = "sleep" /\ supervisor' \in {"ended", "assess"}
      \/ supervisor = "backoff" /\ supervisor' \in {"ended", "restart"}
  BY DEF SupervisorPolls, SupervisorWakes, LooksAtFlag
<1>3. TypeOK'
  BY <1>1, <1>2 DEF IInv, TypeOK, machine
<1>4. phase # "setup"
  BY <1>2 DEF IInv, Fresh
<1>5. Spawned(proc)' = Spawned(proc)
  BY <1>1 DEF machine, Spawned
<1>6. runtime' = runtime
  BY <1>1 DEF machine
<1>7. QED
  BY <1>1, <1>2, <1>3, <1>4, <1>5, <1>6, NothingSpawned DEF IInv, StopHolds

LEMMA SupervisorNotes == IInv /\ SupervisorAssesses => IInv'
<1> SUFFICES ASSUME IInv, SupervisorAssesses PROVE IInv'
  OBVIOUS
<1>1. supervisor = "assess" /\ UNCHANGED <<proc, faults, shuttingDown, phase, commands, stopped>>
  BY DEF SupervisorAssesses
<1>2. runtime \in Runtime /\ FailuresNow \in Nat
  BY DesktopAssumption DEF IInv, TypeOK, Runtime, FailuresNow
<1>3. \/ supervisor' = "sleep" /\ runtime' = runtime
      \/ /\ supervisor' = "sleep" /\ runtime.supervised
         /\ runtime' = [runtime EXCEPT !.status = "ready", !.failures = 0]
      \/ /\ supervisor' = "sleep" /\ runtime.supervised
         /\ \E st \in {"unhealthy", "error"} :
               runtime' = [runtime EXCEPT !.status = st, !.failures = FailuresNow]
      \/ /\ supervisor' = "backoff" /\ runtime.supervised /\ runtime.restarts < MaxRestarts
         /\ runtime' = [runtime EXCEPT !.status = "restarting", !.failures = FailuresNow]
  <2> HIDE DEF FailuresNow
  <2>1. QED
    BY DEF SupervisorAssesses
<1> HIDE DEF FailuresNow
<1>4. /\ runtime' \in Runtime /\ runtime'.restarts = runtime.restarts
      /\ runtime'.pid = runtime.pid /\ runtime'.supervised = runtime.supervised
      /\ supervisor' \in {"sleep", "backoff"}
      /\ supervisor' = "backoff" => runtime.restarts < MaxRestarts
  <2> DEFINE Noted(st, n) == [runtime EXCEPT !.status = st, !.failures = n]
  <2>1. ASSUME NEW st \in {"ready", "unhealthy", "error", "restarting"}, NEW n \in Nat
        PROVE  /\ Noted(st, n) \in Runtime /\ Noted(st, n).restarts = runtime.restarts
               /\ Noted(st, n).pid = runtime.pid
               /\ Noted(st, n).supervised = runtime.supervised
    BY <1>2 DEF Runtime
  <2>2. \/ runtime' = runtime
        \/ \E st \in {"ready", "unhealthy", "error", "restarting"}, n \in Nat :
              runtime' = Noted(st, n)
    BY <1>2, <1>3
  <2> HIDE DEF Noted
  <2>3. QED
    BY <1>2, <1>3, <2>1, <2>2
<1>5. TypeOK'
  BY <1>1, <1>4 DEF IInv, TypeOK
<1>6. phase # "setup"
  BY <1>1 DEF IInv, Fresh
<1>7. Spawned(proc)' = Spawned(proc)
  BY <1>1 DEF Spawned
<1>8. QED
  BY <1>1, <1>4, <1>5, <1>6, <1>7, NothingSpawned DEF IInv, StopHolds

LEMMA SupervisorActs == IInv /\ SupervisorRestarts => IInv'
<1> SUFFICES ASSUME IInv, SupervisorRestarts PROVE IInv'
  OBVIOUS
<1>1. /\ supervisor = "restart" /\ supervisor' = "sleep"
      /\ UNCHANGED <<shuttingDown, phase, commands, stopped>>
  BY DEF SupervisorRestarts
<1>2. phase # "setup"
  BY <1>1 DEF IInv, Fresh
<1>3. CASE UNCHANGED machine
  <2>1. TypeOK'
    BY <1>1, <1>3 DEF IInv, TypeOK, machine
  <2>2. QED
    BY <1>1, <1>2, <1>3, <2>1, NothingSpawned DEF IInv, StopHolds, machine, Spawned
<1>4. CASE runtime.supervised /\ Becomes(Restarts(runtime, proc, faults))
  <2>1. PICK k \in 0 .. (1 + MaxCommands + MaxRestarts) : Counted(k)
    BY DEF IInv, SpawnsCounted
  <2>2. k \in Nat /\ Good(runtime, proc, faults, k) /\ Spawned(proc) = 1 .. k /\ k + 1 \in Pids
    BY <1>1, <2>1, NowGood
  <2>3. PICK o \in Restarts(runtime, proc, faults) :
            runtime' = o.runtime /\ proc' = o.proc /\ faults' = o.faults
    BY <1>4 DEF Becomes
  <2>4. o.runtime.restarts = runtime.restarts + 1 /\ (Result(o, k) \/ Result(o, k + 1))
    BY <2>2, RestartsGood
  <2>5. PICK j \in {k, k + 1} : Result(o, j)
    BY <2>4
  <2>6. /\ runtime' \in Runtime /\ proc' \in Processes /\ faults' \in 0 .. MaxFaults
        /\ PidKnown' /\ Spawned(proc)' = 1 .. j /\ j \in 0 .. (1 + MaxCommands + MaxRestarts)
    BY <2>2, <2>3, <2>5, BecomesGood
  <2>7. TypeOK'
    BY <1>1, <2>6 DEF IInv, TypeOK
  <2>8. /\ Spawns(k) < MaxRestarts /\ Spawns(k) <= runtime.restarts
        /\ commands \in Nat /\ MaxRestarts \in Nat /\ runtime.restarts \in Nat
    BY <1>1, <2>1, DesktopAssumption DEF Counted, IInv, TypeOK, Runtime
  <2>9. Spawns(j)' <= Spawns(k) + 1 /\ Spawns(j)' \in Int /\ Spawns(k) \in Int
    BY <1>1, <1>2, <2>2, <2>8 DEF Spawns
  <2>10. Counted(j)'
    BY <1>1, <2>3, <2>4, <2>6, <2>8, <2>9 DEF Counted
  <2>11. ~stopped'
    BY <1>1, <1>4 DEF IInv, StopHolds
  <2>12. QED
    BY <1>1, <1>2, <2>6, <2>7, <2>10, <2>11 DEF IInv, SpawnsCounted, Fresh, StopHolds
<1>5. QED
  BY <1>3, <1>4 DEF SupervisorRestarts

\* A process changes its state, but none comes into being.
LEMMA ProcessesTurn ==
    ASSUME TypeOK, NEW i \in Pids, Boots(i) \/ Hangs(i) \/ Recovers(i) \/ Crashes(i)
    PROVE  /\ proc' \in Processes /\ faults' \in 0 .. MaxFaults
           /\ Spawned(proc)' = Spawned(proc)
           /\ UNCHANGED <<runtime, supervisor, shuttingDown, phase, commands, stopped>>
<1>1. PICK st \in {"ready", "hung", "dead"}, fault \in {0, 1} :
          /\ Turns(i, st, fault) /\ proc[i].state # "none"
          /\ fault = 1 => faults < MaxFaults
  BY DEF Boots, Hangs, Recovers, Crashes, Alive
<1>2. proc' = [proc EXCEPT ![i].state = st] /\ faults' = faults + fault
      /\ UNCHANGED <<runtime, supervisor, shuttingDown, phase, commands, stopped>>
  BY <1>1 DEF Turns
<1>3. proc \in Processes /\ faults \in 0 .. MaxFaults /\ MaxFaults \in Nat
  BY DesktopAssumption DEF TypeOK
<1>4. proc' \in Processes
  BY <1>2, <1>3 DEF Processes, Process
<1>5. \A p \in Pids : proc'[p].state # "none" <=> proc[p].state # "none"
  BY <1>1, <1>2, <1>3 DEF Processes, Process
<1>6. Spawned(proc)' = Spawned(proc)
  BY <1>5 DEF Spawned
<1>7. faults' \in 0 .. MaxFaults
  BY <1>1, <1>2, <1>3
<1>8. QED
  BY <1>2, <1>4, <1>6, <1>7

LEMMA ProcessesKeep ==
    IInv /\ (\E i \in Pids : Boots(i) \/ Hangs(i) \/ Recovers(i) \/ Crashes(i)) => IInv'
<1> SUFFICES ASSUME IInv, NEW i \in Pids, Boots(i) \/ Hangs(i) \/ Recovers(i) \/ Crashes(i)
             PROVE  IInv'
  OBVIOUS
<1>1. /\ proc' \in Processes /\ faults' \in 0 .. MaxFaults
      /\ Spawned(proc)' = Spawned(proc)
      /\ UNCHANGED <<runtime, supervisor, shuttingDown, phase, commands, stopped>>
  BY ProcessesTurn DEF IInv
<1>2. TypeOK'
  BY <1>1 DEF IInv, TypeOK
<1>3. SpawnsCounted'
  BY <1>1 DEF IInv, SpawnsCounted, Counted, Spawns
<1>4. QED
  BY <1>1, <1>2, <1>3 DEF IInv, PidKnown, Fresh, StopHolds

\* The invariant holds in every behaviour, whatever the processes do.
THEOREM Inductive == Spec => []IInv
<1>1. IInv /\ [Next]_vars => IInv'
  <2> SUFFICES ASSUME IInv, [Next]_vars PROVE IInv'
    OBVIOUS
  <2>1. CASE UNCHANGED vars
    BY <2>1 DEF vars, machine, IInv, TypeOK, SpawnsCounted, Counted, Spawns, Spawned,
                PidKnown, Fresh, StopHolds
  <2>2. CASE Next
    BY <2>2, SetupKeeps, CommandsKeep, ShutdownKeeps, SupervisorLooks, SupervisorNotes,
       SupervisorActs, ProcessesKeep DEF Next, SupervisorStep
  <2>3. QED
    BY <2>1, <2>2
<1>2. QED
  BY <1>1, Initially, PTL DEF Spec

\* StoppedStaysStopped: once stop_services or the shutdown has stopped the API,
\* no step spawns a process before the window asks for one.  What was spawned
\* before stays spawned, and the supervisor that decided before the stop finds
\* supervision switched off.
THEOREM NoSpawnAfterStop == Spec => StoppedStaysStopped
<1>1. IInv /\ [Next]_vars => [Spawned(proc') # Spawned(proc) => ~stopped']_vars
  <2> SUFFICES ASSUME IInv, Next, stopped' PROVE Spawned(proc') = Spawned(proc)
    BY DEF Spawned
  <2> DEFINE Same == Spawned(proc') = Spawned(proc)
  <2>1. ASSUME UNCHANGED proc PROVE Same
    BY <2>1
  <2>2. PICK k \in 0 .. (1 + MaxCommands + MaxRestarts) : Counted(k)
    BY DEF IInv, SpawnsCounted
  <2>3. k \in Nat /\ Good(runtime, proc, faults, k) /\ Spawned(proc) = 1 .. k
    BY <2>2, NowGood
  <2>4. ASSUME Becomes(Stops(runtime, proc, faults)) PROVE Same
    <3>1. PICK o \in Stops(runtime, proc, faults) : proc' = o.proc
      BY <2>4 DEF Becomes
    <3>2. Result(o, k)
      BY <2>3, StopsGood
    <3>3. QED
      BY <2>3, <3>1, <3>2 DEF Result, Good
  <2>5. ASSUME NEW i \in Pids, Boots(i) \/ Hangs(i) \/ Recovers(i) \/ Crashes(i)
        PROVE  Same
    BY <2>5, ProcessesTurn DEF IInv, Spawned
  <2>6. CASE Setup \/ StartCommand \/ RestartCommand
    BY <2>6 DEF Setup, StartCommand, RestartCommand, IInv, Fresh
  <2>7. CASE StopCommand
    BY <2>4, <2>7 DEF StopCommand
  <2>8. CASE Shutdown \/ ShutdownStops \/ Exit
    BY <2>1, <2>4, <2>8 DEF Shutdown, ShutdownStops, Exit, machine
  <2>9. CASE SupervisorPolls \/ SupervisorAssesses \/ SupervisorWakes
    BY <2>1, <2>9 DEF SupervisorPolls, SupervisorAssesses, SupervisorWakes, LooksAtFlag, machine
  <2>10. CASE SupervisorRestarts
    BY <2>1, <2>10 DEF SupervisorRestarts, IInv, StopHolds, machine
  <2>11. QED
    BY <2>5, <2>6, <2>7, <2>8, <2>9, <2>10 DEF Next, SupervisorStep
<1>2. QED
  BY <1>1, Inductive, PTL DEF Spec, StoppedStaysStopped
=============================================================================
