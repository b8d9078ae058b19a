---------------------------- MODULE NativePicker ----------------------------
(***************************************************************************)
(* Native picker sessions and results: native_picker_service.py over the   *)
(* sqlite tables of native_picker_repository.py.                           *)
(*                                                                         *)
(* Two kinds of process run this code on the same database: the API        *)
(* process, with several request threads that share a service lock and a   *)
(* repository lock, and native hosts (native_host.py), single threads that *)
(* the browser starts.  Nothing but the database joins them.  A step is    *)
(* one repository call, which is one transaction, except that pull_result  *)
(* selects and updates in two.                                             *)
(***************************************************************************)
EXTENDS Integers, FiniteSets

CONSTANTS
    Sessions,       \* identities of sessions; each is used once
    Threads,        \* request threads of the API process
    Hosts,          \* native host processes
    Timeout,        \* timeoutMs of every session
    Free,           \* the holder of a lock nobody holds
    MaxTime,        \* bound: the clock stops here
    MaxMessages,    \* bound: number of messages and cancel requests
    MaxCrashes      \* bound: number of times a process dies

Procs == Threads \cup Hosts

ASSUME ConstantsAssumption ==
    /\ Threads \cap Hosts = {}
    /\ Free \notin Procs
    /\ Timeout \in Nat \ {0}
    /\ MaxTime \in Nat
    /\ MaxMessages \in Nat
    /\ MaxCrashes \in Nat

VARIABLES
    now,
    status,     \* native_picker_sessions: session -> status
    expiresAt,  \* session -> instant
    result,     \* native_picker_results: session -> row
    proc,       \* request thread or native host -> what it is doing
    apiLock,    \* NativePickerService._lock of the API process
    dbLock,     \* NativePickerRepository._lock, while pull_result holds it
    messages,   \* messages and cancel requests so far
    crashes,    \* processes that died so far
    \* What an observer remembers.
    stored,     \* number of results stored; the n-th is called n
    pulled,     \* results handed to the designer
    lost,       \* results nobody will get
    decided,    \* session -> locked saves that ended it
    hosted      \* sessions a native host has had a message for

observed == <<stored, pulled, lost, decided, hosted>>
tables == <<status, expiresAt, result>>
vars == <<now, tables, proc, apiLock, dbLock, messages, crashes, observed>>
-----------------------------------------------------------------------------
Terminal == {"succeeded", "failed", "cancelled", "timeout"}
MessageTypes == {"session_ready", "pick_result", "error", "cancel", "touch"}

\* A row with result 0 stands for a session without a row.
NoRow == [result |-> 0, consumed |-> FALSE]
Unconsumed(s) == result[s].result # 0 /\ ~result[s].consumed

\* seen: the records read and not yet checked, as pairs of session and status.
Idle == [pc |-> "idle", op |-> "none", seen |-> {}, picked |-> 0]

Present == {s \in Sessions : status[s] # "absent"}
Read(S) == {<<s, status[s]>> : s \in S}

\* What a message makes of the session; "touch" stands for the types that
\* only log an event (heartbeat, ack, session_create) and for results that
\* do not validate.
Target(op) ==
    IF op = "session_ready" THEN "ready"
    ELSE IF op = "pick_result" THEN "succeeded"
    ELSE IF op = "error" THEN "failed"
    ELSE "cancelled"

\* A native host has a repository lock of its own, which it never waits for.
DbFree(p) == p \in Hosts \/ dbLock \in {Free, p}
ServiceFree(p) == p \in Hosts \/ apiLock = Free

Init ==
    /\ now = 0
    /\ status = [s \in Sessions |-> "absent"]
    /\ expiresAt = [s \in Sessions |-> 0]
    /\ result = [s \in Sessions |-> NoRow]
    /\ proc = [p \in Procs |-> Idle]
    /\ apiLock = Free
    /\ dbLock = Free
    /\ messages = 0
    /\ crashes = 0
    /\ stored = 0
    /\ pulled = {}
    /\ lost = {}
    /\ decided = [s \in Sessions |-> 0]
    /\ hosted = {}

Tick ==
    /\ now < MaxTime
    /\ now' = now + 1
    /\ UNCHANGED <<tables, proc, apiLock, dbLock, messages, crashes, observed>>
-----------------------------------------------------------------------------
(* Requests and messages *)

\* create_session
CreateSession(s) ==
    /\ status[s] = "absent"
    /\ apiLock = Free
    /\ dbLock = Free
    /\ status' = [status EXCEPT ![s] = "pending"]
    /\ expiresAt' = [expiresAt EXCEPT ![s] = now + Timeout]
    /\ UNCHANGED <<now, result, proc, apiLock, dbLock, messages, crashes, observed>>

\* get_session reads one record, list_sessions all; neither takes the lock.
Query(p, S) ==
    /\ proc[p].pc = "idle"
    /\ dbLock = Free
    /\ S # {}
    /\ S \subseteq Present
    /\ proc' = [proc EXCEPT ![p] = [Idle EXCEPT !.pc = "check", !.op = "query",
                                                !.seen = Read(S)]]
    /\ UNCHANGED <<now, tables, apiLock, dbLock, messages, crashes, observed>>

\* Deviation: the service lock is not taken.
BeginMessageUnlocked(p, s, type) ==
    /\ proc[p].pc = "idle"
    /\ DbFree(p)
    /\ s \in Present
    /\ messages < MaxMessages
    /\ messages' = messages + 1
    /\ hosted' = IF p \in Hosts THEN hosted \cup {s} ELSE hosted
    /\ proc' = [proc EXCEPT ![p] = [Idle EXCEPT !.pc = "check", !.op = type,
                                                !.seen = Read({s})]]
    /\ UNCHANGED <<now, tables, apiLock, dbLock, crashes, stored, pulled, lost, decided>>

\* handle_message, and cancel_session as a message of type "cancel": take
\* the lock and read the session.
BeginMessage(p, s, type) ==
    /\ proc[p].pc = "idle"
    /\ ServiceFree(p)
    /\ DbFree(p)
    /\ s \in Present
    /\ messages < MaxMessages
    /\ messages' = messages + 1
    /\ hosted' = IF p \in Hosts THEN hosted \cup {s} ELSE hosted
    /\ apiLock' = IF p \in Threads THEN p ELSE apiLock
    /\ proc' = [proc EXCEPT ![p] = [Idle EXCEPT !.pc = "check", !.op = type,
                                                !.seen = Read({s})]]
    /\ UNCHANGED <<now, tables, dbLock, crashes, stored, pulled, lost, decided>>

Release(p) == apiLock' = IF apiLock = p THEN Free ELSE apiLock

\* What p does after the expiry check found session s in status st.
AfterCheck(p, s, st) ==
    LET rest == {r \in proc[p].seen : r[1] # s} IN
    IF proc[p].op = "query"
    THEN /\ proc' = [proc EXCEPT ![p] = IF rest = {} THEN Idle ELSE [@ EXCEPT !.seen = rest]]
         /\ UNCHANGED apiLock
    ELSE IF st \in Terminal \/ proc[p].op = "touch"
    THEN /\ proc' = [proc EXCEPT ![p] = Idle]
         /\ Release(p)
    ELSE /\ proc' = [proc EXCEPT ![p].pc = "act"]
         /\ UNCHANGED apiLock

\* Deviation: the timeout is reported to the caller and not saved.
CheckExpiryUnsaved(p) ==
    /\ proc[p].pc = "check"
    /\ DbFree(p)
    /\ \E r \in proc[p].seen :
          IF r[2] \notin Terminal /\ expiresAt[r[1]] <= now
          THEN AfterCheck(p, r[1], "timeout")
          ELSE AfterCheck(p, r[1], r[2])
    /\ UNCHANGED <<now, tables, dbLock, messages, crashes, observed>>

\* _mark_timeout_if_needed decides by the record that was read, and saves it.
CheckExpiry(p) ==
    /\ proc[p].pc = "check"
    /\ DbFree(p)
    /\ \E r \in proc[p].seen :
          IF r[2] \notin Terminal /\ expiresAt[r[1]] <= now
          THEN /\ status' = [status EXCEPT ![r[1]] = "timeout"]
               /\ AfterCheck(p, r[1], "timeout")
          ELSE /\ UNCHANGED status
               /\ AfterCheck(p, r[1], r[2])
    /\ UNCHANGED <<now, expiresAt, result, dbLock, messages, crashes, observed>>

\* Deviation: the handler is done once the transition is saved.
SaveTransitionOnly(p) ==
    /\ proc[p].pc = "act"
    /\ DbFree(p)
    /\ \E r \in proc[p].seen :
          status' = [status EXCEPT ![r[1]] = Target(proc[p].op)]
    /\ proc' = [proc EXCEPT ![p] = Idle]
    /\ Release(p)
    /\ UNCHANGED <<now, expiresAt, result, dbLock, messages, crashes, observed>>

\* _save_transition
SaveTransition(p) ==
    /\ proc[p].pc = "act"
    /\ DbFree(p)
    /\ \E r \in proc[p].seen :
          LET s == r[1] IN
          /\ status' = [status EXCEPT ![s] = Target(proc[p].op)]
          /\ decided' = [decided EXCEPT ![s] = IF proc[p].op = "session_ready" THEN @ ELSE @ + 1]
    /\ IF proc[p].op = "pick_result"
       THEN /\ proc' = [proc EXCEPT ![p].pc = "store"]
            /\ UNCHANGED apiLock
       ELSE /\ proc' = [proc EXCEPT ![p] = Idle]
            /\ Release(p)
    /\ UNCHANGED <<now, expiresAt, result, dbLock, messages, crashes, stored, pulled, lost, hosted>>

\* Results in the hands of pull_result, between its select and its update.
InHand == {proc[p].picked : p \in {q \in Procs : proc[q].pc = "mark"}}

\* save_result after the transition: the row is replaced, unconsumed again.
StoreResult(p) ==
    /\ proc[p].pc = "store"
    /\ DbFree(p)
    /\ \E r \in proc[p].seen :
          LET s == r[1] IN
          /\ result' = [result EXCEPT ![s] = [result |-> stored + 1, consumed |-> FALSE]]
          /\ lost' = lost \cup (IF Unconsumed(s) THEN {result[s].result} \ InHand ELSE {})
    /\ stored' = stored + 1
    /\ proc' = [proc EXCEPT ![p] = Idle]
    /\ Release(p)
    /\ UNCHANGED <<now, status, expiresAt, dbLock, messages, crashes, pulled, decided, hosted>>
-----------------------------------------------------------------------------
(* pull_result *)

\* Deviation: pull_result does not hold the repository lock.
SelectResultUnlocked(p, s) ==
    /\ proc[p].pc = "idle"
    /\ Unconsumed(s)
    /\ proc' = [proc EXCEPT ![p] = [Idle EXCEPT !.pc = "mark", !.op = "pull",
                                       !.seen = Read({s}), !.picked = result[s].result]]
    /\ UNCHANGED <<now, tables, apiLock, dbLock, messages, crashes, observed>>

\* The row of a session, or of any session when none is named; a pull that
\* finds no row changes nothing.
SelectResult(p, s) ==
    /\ proc[p].pc = "idle"
    /\ dbLock = Free
    /\ Unconsumed(s)
    /\ dbLock' = p
    /\ proc' = [proc EXCEPT ![p] = [Idle EXCEPT !.pc = "mark", !.op = "pull",
                                       !.seen = Read({s}), !.picked = result[s].result]]
    /\ UNCHANGED <<now, tables, apiLock, messages, crashes, observed>>

\* The update names the session only: a result stored since is consumed
\* with the one that was read.
MarkConsumed(p) ==
    /\ proc[p].pc = "mark"
    /\ \E r \in proc[p].seen :
          LET s == r[1] IN
          /\ result' = [result EXCEPT ![s].consumed = TRUE]
          /\ lost' = lost \cup (IF Unconsumed(s) THEN {result[s].result} \ {proc[p].picked} ELSE {})
    /\ pulled' = pulled \cup {proc[p].picked}
    /\ proc' = [proc EXCEPT ![p] = Idle]
    /\ dbLock' = IF dbLock = p THEN Free ELSE dbLock
    /\ UNCHANGED <<now, status, expiresAt, apiLock, messages, crashes, stored, decided, hosted>>
-----------------------------------------------------------------------------
(* Processes die; the database stays *)

\* The browser ends a native host when its port closes.
HostDies(h) ==
    /\ crashes < MaxCrashes
    /\ proc[h].pc # "idle"
    /\ crashes' = crashes + 1
    /\ proc' = [proc EXCEPT ![h] = Idle]
    /\ UNCHANGED <<now, tables, apiLock, dbLock, messages, observed>>

TableResults == {result[s].result : s \in {t \in Sessions : Unconsumed(t)}}

ApiRestarts ==
    /\ crashes < MaxCrashes
    /\ crashes' = crashes + 1
    /\ proc' = [p \in Procs |-> IF p \in Threads THEN Idle ELSE proc[p]]
    /\ apiLock' = Free
    /\ dbLock' = Free
    /\ lost' = lost \cup (InHand \ TableResults)
    /\ UNCHANGED <<now, tables, messages, stored, pulled, decided, hosted>>

ProcStep(p) ==
    \/ CheckExpiry(p)
    \/ SaveTransition(p)
    \/ StoreResult(p)
    \/ MarkConsumed(p)

Next ==
    \/ Tick
    \/ \E s \in Sessions : CreateSession(s)
    \/ \E p \in Threads, s \in Sessions : Query(p, {s}) \/ Query(p, Present)
    \/ \E p \in Procs, s \in Sessions, type \in MessageTypes : BeginMessage(p, s, type)
    \/ \E p \in Procs : ProcStep(p)
    \/ \E p \in Threads, s \in Sessions : SelectResult(p, s)
    \/ \E h \in Hosts : HostDies(h)
    \/ ApiRestarts

Spec == Init /\ [][Next]_vars

\* Processes run, and the extension and the designer poll the list of sessions.
Fairness ==
    /\ \A p \in Procs : WF_vars(ProcStep(p))
    /\ WF_vars(\E p \in Threads : Query(p, Present))

FairSpec == Spec /\ Fairness
-----------------------------------------------------------------------------
(* Properties *)

\* A result is handed out at most once, although the row it is in may be
\* written again, marked by name, and marked for another result.
Ledger == INSTANCE DeliveryLedger
            WITH accepted <- stored, pending <- InHand \cup TableResults,
                 taken <- pulled
AtMostOncePull == Ledger!Spec

\* A session whose messages all go to the API process is ended by at most one
\* message or cancel request, and so gets at most one result; a timeout saved
\* by a query that does not take the lock may only add to that.
OneDecision == \A s \in Sessions \ hosted : decided[s] <= 1

\* An expired session ends for good, even if a request that was checked
\* before the deadline saves its own status after a query timed it out.
Expired(s) == status[s] # "absent" /\ expiresAt[s] <= now
ExpiredEnds == \A s \in Sessions : Expired(s) ~> [](status[s] \in Terminal)

\* A session that succeeded has its result stored soon after, so a designer
\* that polls pull_result gets it, if no process dies in between.
SucceededIsStored ==
    \A s \in Sessions : status[s] = "succeeded" ~> result[s].result # 0 \/ crashes > 0
=============================================================================
