------------------------- MODULE NativePicker_proofs -------------------------
(* Theorems about NativePicker, for any sessions, threads and hosts. *)
EXTENDS NativePicker, TLAPS

Statuses == Terminal \cup {"absent", "pending", "ready"}
Row == [result : Nat, consumed : BOOLEAN]
Record == Sessions \X Statuses
Proc == [pc : {"idle", "check", "act", "store", "mark"},
         op : MessageTypes \cup {"none", "query", "pull"},
         seen : SUBSET Record,
         picked : Nat]

TypeOK ==
    /\ now \in Nat
    /\ status \in [Sessions -> Statuses]
    /\ expiresAt \in [Sessions -> Nat]
    /\ result \in [Sessions -> Row]
    /\ proc \in [Procs -> Proc]
    /\ apiLock \in Threads \cup {Free}
    /\ dbLock \in Threads \cup {Free}
    /\ messages \in Nat
    /\ crashes \in Nat
    /\ stored \in Nat
    /\ pulled \subseteq Nat
    /\ lost \subseteq Nat
    /\ decided \in [Sessions -> Nat]
    /\ hosted \subseteq Sessions

(***************************************************************************)
(* One decision: the service lock is held from the reading of a session to *)
(* the saving of the transition, so what was read is still true then; only *)
(* a timeout may come between, and it decides nothing.                     *)
(***************************************************************************)

\* p handles a message: it has read its session and not saved yet.
Handling(p) == proc[p].pc = "act" \/ (proc[p].pc = "check" /\ proc[p].op # "query")

HandlersLock == \A p \in Threads : Handling(p) \/ proc[p].pc = "store" => apiLock = p

\* A host handles only sessions it has had a message for.
HostsKnown == \A h \in Hosts : \A r \in proc[h].seen : r[1] \in hosted

\* A message that may still end its session is the first to do so.
Undecided ==
    \A p \in Procs : \A r \in proc[p].seen :
        Handling(p) /\ r[1] \notin hosted /\ (proc[p].pc = "act" \/ r[2] \notin Terminal)
            => decided[r[1]] = 0

Settled ==
    \A s \in Sessions \ hosted :
        /\ decided[s] <= 1
        /\ decided[s] = 1 => status[s] \in Terminal

\* Only a query reads several sessions at once.
OneRead ==
    \A p \in Procs : proc[p].op # "query" => \A q, r \in proc[p].seen : q = r

DInv == TypeOK /\ HandlersLock /\ HostsKnown /\ Undecided /\ OneRead /\ Settled

(***************************************************************************)
(* One pull: the repository lock is held between select and update.        *)
(***************************************************************************)

Marking(p) == proc[p].pc = "mark"

PullersLock == \A p \in Procs : Marking(p) => p \in Threads /\ dbLock = p

\* Every row has a number of its own.
RowsDiffer ==
    /\ \A s \in Sessions : result[s].result <= stored
    /\ \A s, t \in Sessions : result[s].result = result[t].result => s = t \/ result[s].result = 0

\* What is in hand is still in its row, or in none.
HandFits ==
    \A p \in Procs : Marking(p) =>
        /\ proc[p].picked \in 1 .. stored
        /\ proc[p].seen # {}
        /\ \A r \in proc[p].seen :
              proc[p].picked \in TableResults => proc[p].picked = result[r[1]].result

PInv == TypeOK /\ PullersLock /\ RowsDiffer /\ HandFits

USE DEF Procs, Handling, Marking
-----------------------------------------------------------------------------
(* Records *)

LEMMA Records ==
    ASSUME TypeOK
    PROVE  /\ Idle \in Proc
           /\ Idle.seen = {} /\ Idle.pc = "idle"
           /\ \A S \in SUBSET Sessions : Read(S) \in SUBSET Record
           /\ \A S \in SUBSET Sessions : \A r \in Read(S) : r[1] \in S /\ r[2] = status[r[1]]
           /\ Present \in SUBSET Sessions
BY DEF TypeOK, Idle, Proc, Read, Record, Present

\* The records of a process that has read sessions.
LEMMA CheckRecord ==
    ASSUME NEW S \in SUBSET Record, NEW op \in MessageTypes \cup {"query"}
    PROVE  LET new == [Idle EXCEPT !.pc = "check", !.op = op, !.seen = S] IN
           new \in Proc /\ new.pc = "check" /\ new.op = op /\ new.seen = S
BY DEF Idle, Proc

LEMMA MarkRecord ==
    ASSUME NEW S \in SUBSET Record, NEW n \in Nat
    PROVE  LET new == [Idle EXCEPT !.pc = "mark", !.op = "pull", !.seen = S, !.picked = n] IN
           new \in Proc /\ new.pc = "mark" /\ new.seen = S /\ new.picked = n
BY DEF Idle, Proc

\* What is known of a process after a step that changes one.
LEMMA ProcUpdate ==
    ASSUME TypeOK, NEW p \in Procs, NEW new \in Proc,
           proc' = [proc EXCEPT ![p] = new]
    PROVE  /\ proc' \in [Procs -> Proc]
           /\ proc'[p] = new
           /\ \A q \in Procs : q # p => proc'[q] = proc[q]
BY DEF TypeOK

\* The two outcomes of AfterCheck for a process: what it does next, and what
\* becomes of the service lock.
LEMMA AfterCheckOutcome ==
    ASSUME TypeOK, NEW p \in Procs, NEW s \in Sessions, NEW st \in Statuses,
           AfterCheck(p, s, st)
    PROVE  \E new \in Proc :
              /\ proc' = [proc EXCEPT ![p] = new]
              /\ \/ /\ new = Idle
                    /\ apiLock' = apiLock \/ (proc[p].op # "query" /\ Release(p))
                 \/ /\ proc[p].op = "query" /\ new.op = "query" /\ new.pc = proc[p].pc
                    /\ new.seen \subseteq proc[p].seen
                    /\ apiLock' = apiLock
                 \/ /\ proc[p].op # "query" /\ new.pc = "act" /\ new.op = proc[p].op
                    /\ new.seen = proc[p].seen /\ st \notin Terminal
                    /\ apiLock' = apiLock
<1> DEFINE q == proc[p]
           rest == {r \in q.seen : r[1] # s}
<1>1. q \in Proc /\ q.seen \in SUBSET Record /\ rest \in SUBSET Record /\ rest \subseteq q.seen
  BY DEF TypeOK, Proc
<1>2. Idle \in Proc
  BY Records
<1>3. /\ [q EXCEPT !.seen = rest] \in Proc
      /\ [q EXCEPT !.seen = rest].pc = q.pc
      /\ [q EXCEPT !.seen = rest].op = q.op
      /\ [q EXCEPT !.seen = rest].seen = rest
  <2> HIDE DEF q, rest
  <2>1. QED
    BY <1>1 DEF Proc
<1>4. /\ [q EXCEPT !.pc = "act"] \in Proc
      /\ [q EXCEPT !.pc = "act"].pc = "act"
      /\ [q EXCEPT !.pc = "act"].op = q.op
      /\ [q EXCEPT !.pc = "act"].seen = q.seen
  <2> HIDE DEF q
  <2>1. QED
    BY <1>1 DEF Proc
<1>5. CASE q.op = "query" /\ rest = {}
  BY <1>2, <1>5 DEF AfterCheck
<1>6. CASE q.op = "query" /\ rest # {}
  <2>1. proc' = [proc EXCEPT ![p] = [q EXCEPT !.seen = rest]] /\ apiLock' = apiLock
    BY <1>6 DEF AfterCheck
  <2>2. QED
    BY <1>1, <1>3, <1>6, <2>1
<1>7. CASE q.op # "query" /\ (st \in Terminal \/ q.op = "touch")
  BY <1>2, <1>7 DEF AfterCheck
<1>8. CASE q.op # "query" /\ ~(st \in Terminal \/ q.op = "touch")
  <2>1. proc' = [proc EXCEPT ![p] = [q EXCEPT !.pc = "act"]] /\ apiLock' = apiLock
    BY <1>8 DEF AfterCheck, TypeOK
  <2>2. QED
    BY <1>4, <1>8, <2>1
<1>9. QED
  BY <1>5, <1>6, <1>7, <1>8

LEMMA Released == ASSUME TypeOK, NEW p, Release(p) PROVE apiLock' \in Threads \cup {Free}
BY DEF TypeOK, Release

-----------------------------------------------------------------------------
(* Every step preserves the invariant *)

IInv == DInv /\ PInv

LEMMA IInvInit == Init => IInv
BY ConstantsAssumption DEF Init, IInv, DInv, PInv, TypeOK, HandlersLock, HostsKnown, Undecided,
   OneRead, Settled, PullersLock, RowsDiffer, HandFits, NoRow, Row, Statuses, Idle, Proc, Terminal,
   MessageTypes, Record

LEMMA IInvTick == IInv /\ Tick => IInv'
BY DEF Tick, tables, observed, IInv, DInv, PInv, TypeOK, HandlersLock, HostsKnown, Undecided,
   OneRead, Settled, PullersLock, RowsDiffer, HandFits, TableResults, Unconsumed

LEMMA IInvCreate == ASSUME IInv, NEW s \in Sessions, CreateSession(s) PROVE IInv'
<1> USE DEF CreateSession, observed
<1>1. TypeOK'
  BY ConstantsAssumption DEF IInv, DInv, TypeOK, Statuses
<1>2. Settled'
  BY DEF IInv, DInv, TypeOK, Settled, Terminal
<1>3. HandlersLock' /\ HostsKnown' /\ Undecided' /\ OneRead'
  BY DEF IInv, DInv, HandlersLock, HostsKnown, Undecided, OneRead
<1>4. PullersLock' /\ RowsDiffer' /\ HandFits'
  BY DEF IInv, PInv, PullersLock, RowsDiffer, HandFits, TableResults, Unconsumed
<1>5. QED
  BY <1>1, <1>2, <1>3, <1>4 DEF IInv, DInv, PInv

\* A process reads sessions, for a query or a message.
LEMMA IInvQuery ==
    ASSUME IInv, NEW p \in Threads, NEW S \in SUBSET Sessions, Query(p, S)
    PROVE  IInv'
<1> DEFINE new == [Idle EXCEPT !.pc = "check", !.op = "query", !.seen = Read(S)]
<1>1. /\ TypeOK
      /\ p \in Procs /\ p \notin Hosts
      /\ proc' = [proc EXCEPT ![p] = new]
      /\ UNCHANGED <<now, tables, apiLock, dbLock, messages, crashes, observed>>
  BY ConstantsAssumption DEF IInv, DInv, Query
<1>2. new \in Proc /\ new.pc = "check" /\ new.op = "query"
  <2>1. Read(S) \in SUBSET Record
    BY <1>1, Records
  <2>2. QED
    BY <2>1, CheckRecord
<1> HIDE DEF new
<1>3. /\ proc' \in [Procs -> Proc]
      /\ proc'[p] = new
      /\ \A q \in Procs : q # p => proc'[q] = proc[q]
  BY <1>1, <1>2, ProcUpdate
<1>4. TypeOK'
  BY <1>1, <1>3 DEF TypeOK, tables, observed
<1>5. HandlersLock' /\ HostsKnown' /\ Undecided' /\ OneRead' /\ Settled'
  BY <1>1, <1>2, <1>3 DEF IInv, DInv, HandlersLock, HostsKnown, Undecided, OneRead, Settled, tables, observed
<1>6. PullersLock' /\ RowsDiffer' /\ HandFits'
  BY <1>1, <1>2, <1>3 DEF IInv, PInv, PullersLock, RowsDiffer, HandFits, TableResults, Unconsumed,
     tables, observed
<1>7. QED
  BY <1>4, <1>5, <1>6 DEF IInv, DInv, PInv

LEMMA IInvBegin ==
    ASSUME IInv, NEW p \in Procs, NEW s \in Sessions, NEW type \in MessageTypes,
           BeginMessage(p, s, type)
    PROVE  IInv'
<1> DEFINE new == [Idle EXCEPT !.pc = "check", !.op = type, !.seen = Read({s})]
<1>1. /\ TypeOK
      /\ proc' = [proc EXCEPT ![p] = new]
      /\ p \in Hosts \/ (p \in Threads /\ apiLock = Free /\ apiLock' = p)
      /\ p \in Hosts => p \notin Threads /\ apiLock' = apiLock /\ hosted' = hosted \cup {s}
      /\ p \in Threads => p \notin Hosts /\ hosted' = hosted
      /\ messages' = messages + 1
      /\ s \in Present
      /\ UNCHANGED <<now, tables, dbLock, crashes, stored, pulled, lost, decided>>
  BY ConstantsAssumption DEF IInv, DInv, BeginMessage, ServiceFree
<1>2. new \in Proc /\ new.pc = "check" /\ new.op = type /\ new.seen = Read({s})
  <2>1. Read({s}) \in SUBSET Record
    BY <1>1, Records
  <2>2. QED
    BY <2>1, CheckRecord
<1>3. /\ \A r \in Read({s}) : r[1] = s /\ r[2] = status[s]
      /\ \A q, r \in Read({s}) : q = r
  BY DEF Read
<1> HIDE DEF new
<1>4. /\ proc' \in [Procs -> Proc]
      /\ proc'[p] = new
      /\ \A q \in Procs : q # p => proc'[q] = proc[q]
  BY <1>1, <1>2, ProcUpdate
<1>5. TypeOK'
  BY <1>1, <1>4 DEF TypeOK, tables
<1>6. HandlersLock'
  BY <1>1, <1>2, <1>4, ConstantsAssumption DEF IInv, DInv, HandlersLock
<1>7. HostsKnown'
  BY <1>1, <1>2, <1>3, <1>4 DEF IInv, DInv, HostsKnown
<1>8. Undecided'
  <2>1. ASSUME NEW q \in Procs, NEW r \in proc'[q].seen, q # p,
               r[1] \notin hosted', Handling(q)', proc'[q].pc = "act" \/ r[2] \notin Terminal
        PROVE  decided'[r[1]] = 0
    BY <1>1, <1>4, <2>1 DEF IInv, DInv, Undecided
  <2>2. ASSUME NEW r \in proc'[p].seen,
               r[1] \notin hosted', proc'[p].pc = "act" \/ r[2] \notin Terminal
        PROVE  decided'[r[1]] = 0
    <3>1. r[1] = s /\ status[s] \notin Terminal /\ s \notin hosted
      BY <1>1, <1>2, <1>3, <1>4, <2>2
    <3>2. decided[s] <= 1 /\ decided[s] # 1 /\ decided[s] \in Nat
      BY <1>1, <3>1 DEF IInv, DInv, Settled, TypeOK
    <3>3. QED
      BY <1>1, <3>1, <3>2
  <2>3. QED
    BY <2>1, <2>2 DEF Undecided
<1>9. Settled'
  BY <1>1 DEF IInv, DInv, Settled, tables
<1>10. OneRead'
  BY <1>2, <1>3, <1>4 DEF IInv, DInv, OneRead
<1>11. PullersLock' /\ RowsDiffer' /\ HandFits'
  BY <1>1, <1>2, <1>4 DEF IInv, PInv, PullersLock, RowsDiffer, HandFits, TableResults, Unconsumed,
     tables
<1>12. QED
  BY <1>5, <1>6, <1>7, <1>8, <1>9, <1>10, <1>11 DEF IInv, DInv, PInv

\* The expiry check: a session may be timed out, and a message that found its
\* session alive goes on to save a transition.
LEMMA IInvCheck == ASSUME IInv, NEW p \in Procs, CheckExpiry(p) PROVE IInv'
<1>1. /\ TypeOK
      /\ proc[p].pc = "check"
      /\ UNCHANGED <<now, expiresAt, result, dbLock, messages, crashes, observed>>
  BY DEF IInv, DInv, CheckExpiry
<1>2. PICK r \in proc[p].seen :
          IF r[2] \notin Terminal /\ expiresAt[r[1]] <= now
          THEN /\ status' = [status EXCEPT ![r[1]] = "timeout"]
               /\ AfterCheck(p, r[1], "timeout")
          ELSE /\ UNCHANGED status
               /\ AfterCheck(p, r[1], r[2])
  BY DEF CheckExpiry
<1>3. /\ r \in Record /\ r[1] \in Sessions /\ r[2] \in Statuses
      /\ "timeout" \in Terminal /\ "timeout" \in Statuses
  BY <1>1 DEF TypeOK, Proc, Record, Terminal, Statuses
<1>4. \E st \in Statuses : AfterCheck(p, r[1], st) /\ (st = r[2] \/ st = "timeout")
  BY <1>2, <1>3
<1>5. PICK st \in Statuses : AfterCheck(p, r[1], st) /\ (st = r[2] \/ st = "timeout")
  BY <1>4
<1>6. PICK new \in Proc :
              /\ proc' = [proc EXCEPT ![p] = new]
              /\ \/ /\ new = Idle
                    /\ apiLock' = apiLock \/ (proc[p].op # "query" /\ Release(p))
                 \/ /\ proc[p].op = "query" /\ new.op = "query" /\ new.pc = proc[p].pc
                    /\ new.seen \subseteq proc[p].seen
                    /\ apiLock' = apiLock
                 \/ /\ proc[p].op # "query" /\ new.pc = "act" /\ new.op = proc[p].op
                    /\ new.seen = proc[p].seen /\ st \notin Terminal
                    /\ apiLock' = apiLock
  BY <1>1, <1>3, <1>5, AfterCheckOutcome
<1>7. /\ proc' \in [Procs -> Proc]
      /\ proc'[p] = new
      /\ \A q \in Procs : q # p => proc'[q] = proc[q]
  BY <1>1, <1>6, ProcUpdate
<1>8. Idle.pc = "idle" /\ Idle.seen = {}
  BY DEF Idle
<1>9. apiLock' \in Threads \cup {Free}
  BY <1>1, <1>6 DEF TypeOK, Release
<1>10. /\ status' \in [Sessions -> Statuses]
       /\ \A s \in Sessions : status'[s] = status[s] \/ status'[s] \in Terminal
  BY <1>1, <1>2, <1>3 DEF TypeOK
<1>11. TypeOK'
  BY <1>1, <1>7, <1>9, <1>10 DEF TypeOK, observed
<1>12. HandlersLock'
  <2>1. ASSUME NEW q \in Threads, q # p, Handling(q)' \/ proc'[q].pc = "store"
        PROVE  apiLock' = q
    <3>1. apiLock = q /\ q # Free
      BY <1>7, <2>1, ConstantsAssumption DEF IInv, DInv, HandlersLock
    <3>2. QED
      BY <1>6, <2>1, <3>1 DEF Release
  <2>2. ASSUME p \in Threads, Handling(p)' \/ proc'[p].pc = "store"
        PROVE  apiLock' = p
    <3>1. proc[p].op # "query" /\ apiLock' = apiLock
      BY <1>1, <1>6, <1>7, <1>8, <2>2
    <3>2. QED
      BY <1>1, <2>2, <3>1 DEF IInv, DInv, HandlersLock
  <2>3. QED
    BY <2>1, <2>2 DEF HandlersLock
<1>13. proc'[p].seen \subseteq proc[p].seen
  BY <1>6, <1>7, <1>8
<1>14. HostsKnown'
  BY <1>1, <1>7, <1>13 DEF IInv, DInv, HostsKnown, observed
<1>15. Undecided'
  <2>1. ASSUME NEW q \in Procs, NEW x \in proc'[q].seen, q # p,
               x[1] \notin hosted', Handling(q)', proc'[q].pc = "act" \/ x[2] \notin Terminal
        PROVE  decided'[x[1]] = 0
    BY <1>1, <1>7, <2>1 DEF IInv, DInv, Undecided, observed
  <2>2. ASSUME NEW x \in proc'[p].seen, x[1] \notin hosted', Handling(p)',
               proc'[p].pc = "act" \/ x[2] \notin Terminal
        PROVE  decided'[x[1]] = 0
    <3>1. CASE x[2] \notin Terminal
      BY <1>1, <1>6, <1>7, <1>8, <1>13, <2>2, <3>1 DEF IInv, DInv, Undecided, observed
    <3>2. CASE x[2] \in Terminal
      <4>1. st \notin Terminal /\ st = r[2] /\ proc[p].op # "query"
        BY <1>1, <1>3, <1>5, <1>6, <1>7, <1>8, <2>2, <3>2
      <4>2. \A y, z \in proc[p].seen : y = z
        BY <1>1, <4>1 DEF IInv, DInv, OneRead
      <4>3. QED
        BY <1>13, <3>2, <4>1, <4>2
    <3>3. QED
      BY <3>1, <3>2
  <2>3. QED
    BY <2>1, <2>2 DEF Undecided
<1>16. OneRead'
  BY <1>1, <1>6, <1>7, <1>8 DEF IInv, DInv, OneRead
<1>17. Settled'
  BY <1>1, <1>10 DEF IInv, DInv, Settled, observed
<1>18. PullersLock' /\ RowsDiffer' /\ HandFits'
  BY <1>1, <1>6, <1>7, <1>8 DEF IInv, PInv, PullersLock, RowsDiffer, HandFits, TableResults,
     Unconsumed, observed
<1>19. QED
  BY <1>11, <1>12, <1>14, <1>15, <1>16, <1>17, <1>18 DEF IInv, DInv, PInv

\* The transition: a message that ends its session has found it undecided.
LEMMA IInvSave == ASSUME IInv, NEW p \in Procs, SaveTransition(p) PROVE IInv'
<1>1. /\ TypeOK
      /\ proc[p].pc = "act"
      /\ UNCHANGED <<now, expiresAt, result, dbLock, messages, crashes, stored, pulled, lost, hosted>>
  BY DEF IInv, DInv, SaveTransition
<1>2. PICK r \in proc[p].seen :
          /\ status' = [status EXCEPT ![r[1]] = Target(proc[p].op)]
          /\ decided' = [decided EXCEPT ![r[1]] = IF proc[p].op = "session_ready" THEN @ ELSE @ + 1]
  BY DEF SaveTransition
<1>3. r[1] \in Sessions
  BY <1>1 DEF TypeOK, Proc, Record
<1>4. /\ Target(proc[p].op) \in Statuses
      /\ proc[p].op # "session_ready" => Target(proc[p].op) \in Terminal
  BY DEF Target, Statuses, Terminal
<1> DEFINE kept == [proc[p] EXCEPT !.pc = "store"]
<1>5. kept \in Proc /\ kept.pc = "store" /\ kept.op = proc[p].op /\ kept.seen = proc[p].seen
  BY <1>1 DEF TypeOK, Proc
<1>6. Idle \in Proc /\ Idle.pc = "idle" /\ Idle.seen = {}
  BY <1>1, Records
<1> HIDE DEF kept
<1>7. \/ proc' = [proc EXCEPT ![p] = kept] /\ apiLock' = apiLock
      \/ proc' = [proc EXCEPT ![p] = Idle] /\ Release(p)
  BY <1>1 DEF SaveTransition, kept, TypeOK
<1>8. PICK new \in {kept, Idle} :
          /\ proc' = [proc EXCEPT ![p] = new]
          /\ \/ new = kept /\ apiLock' = apiLock
             \/ new = Idle /\ Release(p)
  BY <1>7
<1>9. new \in Proc
  BY <1>5, <1>6
<1>10. /\ proc' \in [Procs -> Proc]
       /\ proc'[p] = new
       /\ \A q \in Procs : q # p => proc'[q] = proc[q]
  BY <1>1, <1>8, <1>9, ProcUpdate
<1>11. apiLock' \in Threads \cup {Free}
  BY <1>1, <1>8 DEF TypeOK, Release
<1>12. /\ status' \in [Sessions -> Statuses] /\ decided' \in [Sessions -> Nat]
       /\ \A s \in Sessions : s # r[1] => status'[s] = status[s] /\ decided'[s] = decided[s]
       /\ status'[r[1]] = Target(proc[p].op)
       /\ decided'[r[1]] = IF proc[p].op = "session_ready" THEN decided[r[1]] ELSE decided[r[1]] + 1
  BY <1>1, <1>2, <1>3, <1>4 DEF TypeOK
<1>13. TypeOK'
  BY <1>1, <1>10, <1>11, <1>12 DEF TypeOK
<1>14. HandlersLock'
  <2>1. ASSUME NEW q \in Threads, q # p, Handling(q)' \/ proc'[q].pc = "store"
        PROVE  apiLock' = q
    <3>1. apiLock = q /\ q # Free
      BY <1>10, <2>1, ConstantsAssumption DEF IInv, DInv, HandlersLock
    <3>2. QED
      BY <1>8, <2>1, <3>1 DEF Release
  <2>2. ASSUME p \in Threads, Handling(p)' \/ proc'[p].pc = "store"
        PROVE  apiLock' = p
    <3>1. apiLock' = apiLock
      BY <1>6, <1>8, <1>10, <2>2
    <3>2. QED
      BY <1>1, <2>2, <3>1 DEF IInv, DInv, HandlersLock
  <2>3. QED
    BY <2>1, <2>2 DEF HandlersLock
<1>15. HostsKnown' /\ OneRead'
  BY <1>1, <1>5, <1>6, <1>10 DEF IInv, DInv, HostsKnown, OneRead
<1>16. r[1] \notin hosted => decided[r[1]] = 0 /\ p \in Threads
  BY <1>1 DEF IInv, DInv, Undecided, HostsKnown
<1>17. Undecided'
  <2>1. ASSUME NEW q \in Procs, NEW x \in proc'[q].seen,
               x[1] \notin hosted', Handling(q)', proc'[q].pc = "act" \/ x[2] \notin Terminal
        PROVE  decided'[x[1]] = 0
    <3>1. q # p
      BY <1>5, <1>6, <1>8, <1>10, <2>1
    <3>2. /\ proc'[q] = proc[q] /\ x \in proc[q].seen /\ x[1] \notin hosted
          /\ decided[x[1]] = 0 /\ x[1] \in Sessions
      BY <1>1, <1>10, <2>1, <3>1 DEF IInv, DInv, Undecided, TypeOK, Proc, Record
    <3>3. CASE x[1] = r[1]
      <4>1. p \in Threads /\ q \in Threads
        BY <1>16, <3>2, <3>3 DEF IInv, DInv, HostsKnown
      <4>2. apiLock = p /\ apiLock = q
        BY <1>1, <2>1, <3>2, <4>1 DEF IInv, DInv, HandlersLock
      <4>3. QED
        BY <3>1, <4>2
    <3>4. CASE x[1] # r[1]
      BY <1>12, <3>2, <3>4
    <3>5. QED
      BY <3>3, <3>4
  <2>2. QED
    BY <2>1 DEF Undecided
<1>18. Settled'
  <2>1. ASSUME NEW s \in Sessions, s \notin hosted
        PROVE  decided'[s] <= 1 /\ (decided'[s] = 1 => status'[s] \in Terminal)
    <3>1. CASE s = r[1]
      BY <1>4, <1>12, <1>16, <2>1, <3>1
    <3>2. CASE s # r[1]
      BY <1>12, <2>1, <3>2 DEF IInv, DInv, Settled
    <3>3. QED
      BY <3>1, <3>2
  <2>2. QED
    BY <1>1, <2>1 DEF Settled
<1>19. PullersLock' /\ RowsDiffer' /\ HandFits'
  BY <1>1, <1>5, <1>6, <1>8, <1>10 DEF IInv, PInv, PullersLock, RowsDiffer, HandFits, TableResults,
     Unconsumed
<1>20. QED
  BY <1>13, <1>14, <1>15, <1>17, <1>18, <1>19 DEF IInv, DInv, PInv

\* A process that becomes idle keeps what concerns processes.
LEMMA BecomesIdle ==
    ASSUME DInv, NEW p \in Procs, proc' = [proc EXCEPT ![p] = Idle],
           apiLock' = apiLock \/ Release(p),
           UNCHANGED <<status, decided, hosted>>
    PROVE  /\ proc' \in [Procs -> Proc]
           /\ proc'[p] = Idle
           /\ \A q \in Procs : q # p => proc'[q] = proc[q]
           /\ apiLock' \in Threads \cup {Free}
           /\ HandlersLock' /\ HostsKnown' /\ Undecided' /\ OneRead' /\ Settled'
<1>1. TypeOK /\ Idle \in Proc /\ Idle.pc = "idle" /\ Idle.seen = {}
  BY Records DEF DInv
<1>2. /\ proc' \in [Procs -> Proc]
      /\ proc'[p] = Idle
      /\ \A q \in Procs : q # p => proc'[q] = proc[q]
  BY <1>1, ProcUpdate
<1>3. apiLock' \in Threads \cup {Free}
  BY <1>1 DEF TypeOK, Release
<1>4. HandlersLock'
  BY <1>1, <1>2, ConstantsAssumption DEF DInv, HandlersLock, Release
<1>5. HostsKnown' /\ OneRead' /\ Undecided' /\ Settled'
  BY <1>1, <1>2 DEF DInv, HostsKnown, OneRead, Undecided, Settled
<1>6. QED
  BY <1>2, <1>3, <1>4, <1>5

LEMMA IInvStore == ASSUME IInv, NEW p \in Procs, StoreResult(p) PROVE IInv'
<1>1. /\ TypeOK /\ DInv
      /\ proc[p].pc = "store"
      /\ stored' = stored + 1
      /\ proc' = [proc EXCEPT ![p] = Idle]
      /\ Release(p)
      /\ UNCHANGED <<now, status, expiresAt, dbLock, messages, crashes, pulled, decided, hosted>>
  BY DEF IInv, DInv, StoreResult
<1>2. PICK r \in proc[p].seen :
          /\ result' = [result EXCEPT ![r[1]] = [result |-> stored + 1, consumed |-> FALSE]]
          /\ lost' = lost \cup (IF Unconsumed(r[1]) THEN {result[r[1]].result} \ InHand ELSE {})
  BY DEF StoreResult
<1>3. r[1] \in Sessions
  BY <1>1 DEF TypeOK, Proc, Record
<1>4. /\ result' \in [Sessions -> Row]
      /\ result'[r[1]].result = stored + 1
      /\ \A s \in Sessions : s # r[1] => result'[s] = result[s]
  BY <1>1, <1>2, <1>3 DEF TypeOK, Row
<1>5. /\ proc' \in [Procs -> Proc]
      /\ proc'[p] = Idle
      /\ \A q \in Procs : q # p => proc'[q] = proc[q]
      /\ apiLock' \in Threads \cup {Free}
      /\ HandlersLock' /\ HostsKnown' /\ Undecided' /\ OneRead' /\ Settled'
  BY <1>1, BecomesIdle
<1>6. TypeOK'
  <2>1. result[r[1]].result \in Nat /\ lost \subseteq Nat
    BY <1>1, <1>3 DEF TypeOK, Row
  <2>2. lost' \subseteq Nat
    BY <1>2, <2>1
  <2>3. QED
    BY <1>1, <1>4, <1>5, <2>2 DEF TypeOK
<1>7. RowsDiffer'
  <2>1. /\ stored \in Nat /\ stored' = stored + 1
        /\ \A s \in Sessions : result[s].result \in Nat /\ result[s].result <= stored
    BY <1>1 DEF IInv, PInv, RowsDiffer, TypeOK, Row
  <2>2. ASSUME NEW s \in Sessions PROVE result'[s].result <= stored'
    BY <1>4, <2>1
  <2>3. ASSUME NEW s \in Sessions, NEW t \in Sessions, result'[s].result = result'[t].result
        PROVE  s = t \/ result'[s].result = 0
    BY <1>4, <2>1, <2>3 DEF IInv, PInv, RowsDiffer
  <2>4. QED
    BY <2>2, <2>3 DEF RowsDiffer
<1>8. PullersLock'
  BY <1>1, <1>5 DEF IInv, PInv, PullersLock, Idle
<1>9. HandFits'
  <2>1. ASSUME NEW q \in Procs, proc'[q].pc = "mark"
        PROVE  /\ proc'[q].picked \in 1 .. stored'
               /\ proc'[q].seen # {}
               /\ \A x \in proc'[q].seen :
                     proc'[q].picked \in TableResults' => proc'[q].picked = result'[x[1]].result
    <3>1. q # p /\ proc'[q] = proc[q] /\ proc[q].pc = "mark"
      BY <1>5, <2>1 DEF Idle
    <3>2. proc[q].picked \in 1 .. stored /\ stored \in Nat /\ proc[q].seen # {}
      BY <1>1, <3>1 DEF IInv, PInv, HandFits, TypeOK
    <3>3. ASSUME NEW x \in proc[q].seen, proc[q].picked \in TableResults'
          PROVE  proc[q].picked = result'[x[1]].result
      <4>1. PICK t \in Sessions : Unconsumed(t)' /\ result'[t].result = proc[q].picked
        BY <3>3 DEF TableResults
      <4>2. t # r[1]
        BY <1>4, <3>2, <4>1
      <4>3. Unconsumed(t) /\ result[t].result = proc[q].picked
        BY <1>4, <4>1, <4>2 DEF Unconsumed
      <4>4. proc[q].picked = result[x[1]].result /\ x[1] \in Sessions
        BY <1>1, <3>1, <4>3 DEF IInv, PInv, HandFits, TableResults, TypeOK, Proc, Record
      <4>5. x[1] = t
        BY <3>2, <4>3, <4>4 DEF IInv, PInv, RowsDiffer
      <4>6. QED
        BY <4>1, <4>5
    <3>4. QED
      BY <1>1, <3>1, <3>2, <3>3
  <2>2. QED
    BY <2>1 DEF HandFits
<1>10. QED
  BY <1>5, <1>6, <1>7, <1>8, <1>9 DEF IInv, DInv, PInv

LEMMA IInvSelect ==
    ASSUME IInv, NEW p \in Threads, NEW s \in Sessions, SelectResult(p, s)
    PROVE  IInv'
<1> DEFINE here == Read({s})
           n == result[s].result
           new == [Idle EXCEPT !.pc = "mark", !.op = "pull", !.seen = here, !.picked = n]
<1>1. /\ TypeOK /\ p \in Procs /\ p \notin Hosts /\ p # Free
      /\ Unconsumed(s) /\ dbLock = Free /\ dbLock' = p
      /\ proc' = [proc EXCEPT ![p] = new]
      /\ proc[p].pc = "idle"
      /\ UNCHANGED <<now, tables, apiLock, messages, crashes, observed>>
  BY ConstantsAssumption DEF IInv, DInv, SelectResult
<1>2. new \in Proc /\ new.pc = "mark" /\ new.seen = here /\ new.picked = n
  <2>1. here \in SUBSET Record
    BY <1>1, Records
  <2>2. n \in Nat
    BY <1>1 DEF TypeOK, Row
  <2> HIDE DEF here, n
  <2>3. QED
    BY <2>1, <2>2, MarkRecord
<1>3. /\ \A r \in Read({s}) : r[1] = s
      /\ \A q, r \in Read({s}) : q = r
      /\ Read({s}) # {}
  <2>1. <<s, status[s]>> \in Read({s})
    BY DEF Read
  <2>2. \A r \in Read({s}) : r = <<s, status[s]>>
    BY DEF Read
  <2>3. QED
    BY <2>1, <2>2
<1> HIDE DEF new
<1>4. /\ proc' \in [Procs -> Proc]
      /\ proc'[p] = new
      /\ \A q \in Procs : q # p => proc'[q] = proc[q]
  BY <1>1, <1>2, ProcUpdate
<1>5. TypeOK'
  BY <1>1, <1>4 DEF TypeOK, tables, observed
<1>6. HandlersLock' /\ HostsKnown' /\ Undecided' /\ OneRead' /\ Settled'
  <2>1. HandlersLock' /\ Undecided' /\ Settled'
    BY <1>1, <1>2, <1>4 DEF IInv, DInv, HandlersLock, Undecided, Settled, tables, observed
  <2>2. HostsKnown'
    BY <1>1, <1>4 DEF IInv, DInv, HostsKnown, observed
  <2>3. OneRead'
    <3>1. \A q, r \in new.seen : q = r
      BY <1>2, <1>3
    <3>2. OneRead
      BY DEF IInv, DInv
    <3>3. ASSUME NEW u \in Procs, proc'[u].op # "query", NEW q \in proc'[u].seen, NEW r \in proc'[u].seen
          PROVE  q = r
      <4>1. CASE u = p
        BY <1>4, <3>1, <3>3, <4>1
      <4>2. CASE u # p
        <5>1. proc'[u] = proc[u]
          BY <1>4, <4>2
        <5>2. QED
          BY <3>2, <3>3, <5>1 DEF OneRead
      <4>3. QED
        BY <4>1, <4>2
    <3>4. QED
      BY <3>3 DEF OneRead
  <2>4. QED
    BY <2>1, <2>2, <2>3
<1>7. PullersLock' /\ RowsDiffer'
  BY <1>1, <1>4, ConstantsAssumption DEF IInv, PInv, PullersLock, RowsDiffer, tables, observed
<1>8. TableResults' = TableResults /\ stored' = stored /\ result' = result
  BY <1>1 DEF TableResults, Unconsumed, tables, observed
<1>9. result[s].result \in 1 .. stored
  BY <1>1 DEF IInv, PInv, RowsDiffer, TypeOK, Row, Unconsumed
<1>10. HandFits'
  <2>1. HandFits
    BY DEF IInv, PInv
  <2>2. ASSUME NEW u \in Procs, Marking(u)'
        PROVE  /\ proc'[u].picked \in 1 .. stored
               /\ proc'[u].seen # {}
               /\ \A r \in proc'[u].seen :
                     proc'[u].picked \in TableResults => proc'[u].picked = result[r[1]].result
    <3>1. CASE u = p
      BY <1>2, <1>3, <1>4, <1>9, <3>1
    <3>2. CASE u # p
      <4>1. proc'[u] = proc[u]
        BY <1>4, <3>2
      <4>2. Marking(u)
        BY <2>2, <4>1 DEF Marking
      <4>3. QED
        BY <2>1, <4>1, <4>2 DEF HandFits
    <3>3. QED
      BY <3>1, <3>2
  <2>3. QED
    BY <1>8, <2>2 DEF HandFits
<1>11. QED
  BY <1>5, <1>6, <1>7, <1>10 DEF IInv, DInv, PInv

LEMMA IInvMark == ASSUME IInv, NEW p \in Procs, MarkConsumed(p) PROVE IInv'
<1>1. /\ TypeOK /\ DInv
      /\ proc[p].pc = "mark"
      /\ pulled' = pulled \cup {proc[p].picked}
      /\ proc' = [proc EXCEPT ![p] = Idle]
      /\ dbLock' = IF dbLock = p THEN Free ELSE dbLock
      /\ UNCHANGED <<now, status, expiresAt, apiLock, messages, crashes, stored, decided, hosted>>
  BY DEF IInv, DInv, MarkConsumed
<1>2. PICK r \in proc[p].seen :
          /\ result' = [result EXCEPT ![r[1]].consumed = TRUE]
          /\ lost' = lost \cup (IF Unconsumed(r[1]) THEN {result[r[1]].result} \ {proc[p].picked} ELSE {})
  BY DEF MarkConsumed
<1>3. r[1] \in Sessions /\ proc[p].picked \in Nat
  BY <1>1 DEF TypeOK, Proc, Record
<1>4. /\ result' \in [Sessions -> Row]
      /\ \A s \in Sessions : result'[s].result = result[s].result
      /\ \A s \in Sessions : s # r[1] => result'[s] = result[s]
      /\ result'[r[1]].consumed = TRUE
  BY <1>1, <1>2, <1>3 DEF TypeOK, Row
<1>5. /\ proc' \in [Procs -> Proc]
      /\ proc'[p] = Idle
      /\ \A q \in Procs : q # p => proc'[q] = proc[q]
      /\ apiLock' \in Threads \cup {Free}
      /\ HandlersLock' /\ HostsKnown' /\ Undecided' /\ OneRead' /\ Settled'
  BY <1>1, BecomesIdle
<1>6. TypeOK'
  BY <1>1, <1>2, <1>3, <1>4, <1>5 DEF TypeOK, Row
<1>7. \A q \in Procs : proc'[q].pc # "mark"
  BY <1>1, <1>5 DEF IInv, PInv, PullersLock, Idle
<1>8. PullersLock' /\ HandFits'
  BY <1>7 DEF PullersLock, HandFits
<1>9. RowsDiffer'
  BY <1>1, <1>4 DEF IInv, PInv, RowsDiffer
<1>10. QED
  BY <1>5, <1>6, <1>8, <1>9 DEF IInv, DInv, PInv

LEMMA IInvHostDies == ASSUME IInv, NEW h \in Hosts, HostDies(h) PROVE IInv'
<1>1. /\ TypeOK /\ DInv /\ h \in Procs
      /\ crashes' = crashes + 1
      /\ proc' = [proc EXCEPT ![h] = Idle]
      /\ UNCHANGED <<now, tables, apiLock, dbLock, messages, observed>>
  BY DEF IInv, DInv, HostDies
<1>2. /\ proc' \in [Procs -> Proc]
      /\ proc'[h] = Idle
      /\ \A q \in Procs : q # h => proc'[q] = proc[q]
      /\ HandlersLock' /\ HostsKnown' /\ Undecided' /\ OneRead' /\ Settled'
  BY <1>1, BecomesIdle DEF tables, observed
<1>3. TypeOK'
  BY <1>1, <1>2 DEF TypeOK, tables, observed
<1>4. PullersLock' /\ RowsDiffer' /\ HandFits'
  BY <1>1, <1>2 DEF IInv, PInv, PullersLock, RowsDiffer, HandFits, TableResults, Unconsumed,
     Idle, tables, observed
<1>5. QED
  BY <1>2, <1>3, <1>4 DEF IInv, DInv, PInv

LEMMA IInvRestart == IInv /\ ApiRestarts => IInv'
<1> SUFFICES ASSUME IInv, ApiRestarts PROVE IInv'
  OBVIOUS
<1>1. /\ TypeOK
      /\ proc' = [p \in Procs |-> IF p \in Threads THEN Idle ELSE proc[p]]
      /\ apiLock' = Free /\ dbLock' = Free
      /\ lost' = lost \cup (InHand \ TableResults)
      /\ crashes' = crashes + 1
      /\ UNCHANGED <<now, tables, messages, stored, pulled, decided, hosted>>
  BY DEF IInv, DInv, ApiRestarts
<1>2. Idle \in Proc /\ Idle.pc = "idle" /\ Idle.seen = {}
  BY <1>1, Records
<1>3. InHand \subseteq Nat
  BY <1>1 DEF InHand, TypeOK, Proc
<1>4. TypeOK'
  <2>1. proc' \in [Procs -> Proc]
    BY <1>1, <1>2 DEF TypeOK
  <2>2. lost' \subseteq Nat
    BY <1>1, <1>3 DEF TypeOK
  <2>3. QED
    BY <1>1, <2>1, <2>2 DEF TypeOK, tables
<1>5. HandlersLock' /\ HostsKnown' /\ Undecided' /\ OneRead' /\ Settled'
  BY <1>1, <1>2 DEF IInv, DInv, HandlersLock, HostsKnown, Undecided, OneRead, Settled, tables
<1>6. \A p \in Procs : proc'[p].pc # "mark"
  BY <1>1, <1>2 DEF IInv, PInv, PullersLock
<1>7. PullersLock' /\ RowsDiffer' /\ HandFits'
  BY <1>1, <1>6 DEF IInv, PInv, PullersLock, RowsDiffer, HandFits, tables
<1>8. QED
  BY <1>4, <1>5, <1>7 DEF IInv, DInv, PInv

LEMMA IInvNext == IInv /\ [Next]_vars => IInv'
<1> SUFFICES ASSUME IInv, [Next]_vars PROVE IInv'
  OBVIOUS
<1>1. CASE Tick
  BY <1>1, IInvTick
<1>2. CASE \E s \in Sessions : CreateSession(s)
  BY <1>2, IInvCreate
<1>3. CASE \E p \in Threads, s \in Sessions : Query(p, {s}) \/ Query(p, Present)
  <2>1. Present \in SUBSET Sessions /\ \A s \in Sessions : {s} \in SUBSET Sessions
    BY DEF Present
  <2>2. QED
    BY <1>3, <2>1, IInvQuery
<1>4. CASE \E p \in Procs, s \in Sessions, type \in MessageTypes : BeginMessage(p, s, type)
  BY <1>4, IInvBegin
<1>5. CASE \E p \in Procs : ProcStep(p)
  BY <1>5, IInvCheck, IInvSave, IInvStore, IInvMark DEF ProcStep
<1>6. CASE \E p \in Threads, s \in Sessions : SelectResult(p, s)
  BY <1>6, IInvSelect
<1>7. CASE \E h \in Hosts : HostDies(h)
  BY <1>7, IInvHostDies
<1>8. CASE ApiRestarts
  BY <1>8, IInvRestart
<1>9. CASE UNCHANGED vars
  BY <1>9 DEF vars, tables, observed, IInv, DInv, PInv, TypeOK, HandlersLock, HostsKnown, Undecided,
     OneRead, Settled, PullersLock, RowsDiffer, HandFits, TableResults, Unconsumed
<1>10. QED
  BY <1>1, <1>2, <1>3, <1>4, <1>5, <1>6, <1>7, <1>8, <1>9 DEF Next

LEMMA Inductive == Spec => []IInv
BY IInvInit, IInvNext, PTL DEF Spec

\* A session whose messages all go to the API process is decided at most once:
\* the service lock makes the check and the transition one.
THEOREM DecidedOnce == Spec => []OneDecision
<1>1. IInv => OneDecision
  BY DEF IInv, DInv, Settled, OneDecision
<1>2. QED
  BY <1>1, Inductive, PTL

-----------------------------------------------------------------------------
(* The results implement DeliveryLedger *)

Pending == InHand \cup TableResults

LEMMA HandKept ==
    ASSUME \A q \in Procs : /\ Marking(q)' <=> Marking(q)
                            /\ Marking(q) => proc'[q].picked = proc[q].picked
    PROVE  InHand' = InHand
BY DEF InHand

\* A step that leaves hands and rows alone leaves the ledger alone.
LEMMA LedgerKept ==
    ASSUME InHand' = InHand, UNCHANGED <<result, stored, pulled, lost>>
    PROVE  UNCHANGED <<stored, InHand \cup TableResults, pulled, lost>>
BY DEF TableResults, Unconsumed

\* Storing a result accepts it, and loses the one in the row unless
\* somebody has that one in hand.
LEMMA LedgerStore == ASSUME IInv, NEW p \in Procs, StoreResult(p) PROVE Ledger!Next
<1>1. /\ TypeOK /\ DInv
      /\ proc[p].pc = "store"
      /\ stored' = stored + 1
      /\ proc' = [proc EXCEPT ![p] = Idle]
      /\ pulled' = pulled
  BY DEF IInv, DInv, StoreResult
<1>2. PICK r \in proc[p].seen :
          /\ result' = [result EXCEPT ![r[1]] = [result |-> stored + 1, consumed |-> FALSE]]
          /\ lost' = lost \cup (IF Unconsumed(r[1]) THEN {result[r[1]].result} \ InHand ELSE {})
  BY DEF StoreResult
<1>3. r[1] \in Sessions
  BY <1>1 DEF TypeOK, Proc, Record
<1> DEFINE L == IF Unconsumed(r[1]) THEN {result[r[1]].result} \ InHand ELSE {}
           old == IF Unconsumed(r[1]) THEN {result[r[1]].result} ELSE {}
<1>4. InHand' = InHand
  BY <1>1, HandKept DEF TypeOK, Idle
<1>5. /\ Unconsumed(r[1])'
      /\ result'[r[1]].result = stored + 1
      /\ \A s \in Sessions : s # r[1] => (Unconsumed(s)' <=> Unconsumed(s)) /\ result'[s] = result[s]
  BY <1>1, <1>2, <1>3 DEF TypeOK, Unconsumed
<1>6. \A s \in Sessions : Unconsumed(s) /\ s # r[1] => result[s].result \notin old
  BY <1>3 DEF IInv, PInv, RowsDiffer, Unconsumed
<1>7. TableResults' = (TableResults \ old) \cup {stored + 1}
  <2>1. TableResults' = {result'[s].result : s \in {t \in Sessions : Unconsumed(t)'}}
    BY DEF TableResults
  <2>2. TableResults = {result[s].result : s \in {t \in Sessions : Unconsumed(t)}}
    BY DEF TableResults
  <2>3. ASSUME NEW x \in TableResults' PROVE x \in (TableResults \ old) \cup {stored + 1}
    <3>1. PICK s \in Sessions : Unconsumed(s)' /\ x = result'[s].result
      BY <2>1
    <3>2. QED
      BY <1>5, <1>6, <2>2, <3>1
  <2>4. ASSUME NEW x \in (TableResults \ old) \cup {stored + 1} PROVE x \in TableResults'
    <3>1. CASE x = stored + 1
      BY <1>3, <1>5, <2>1, <3>1
    <3>2. CASE x \in TableResults \ old
      <4>1. PICK s \in Sessions : Unconsumed(s) /\ x = result[s].result
        BY <2>2, <3>2
      <4>2. s # r[1]
        BY <3>2, <4>1
      <4>3. QED
        BY <1>5, <2>1, <4>1, <4>2
    <3>3. QED
      BY <2>4, <3>1, <3>2
  <2>5. QED
    BY <2>3, <2>4
<1>8. old \subseteq TableResults /\ L = old \ InHand
  BY <1>3 DEF TableResults
<1> HIDE DEF L, old
<1>9. L \in SUBSET Pending
  BY <1>8 DEF Pending
<1>10. (InHand \cup TableResults)' = ((InHand \cup TableResults) \ L) \cup {stored + 1}
  BY <1>4, <1>7, <1>8
<1>11. lost' = lost \cup L
  BY <1>2 DEF L
<1>12. Ledger!Accept(L)
  BY <1>1, <1>9, <1>10, <1>11 DEF Ledger!Accept, Pending
<1>13. QED
  BY <1>9, <1>12 DEF Ledger!Next, Pending

\* Marking a row takes the result in hand, and loses one stored meanwhile.
LEMMA LedgerMark == ASSUME IInv, NEW p \in Procs, MarkConsumed(p) PROVE Ledger!Next
<1>1. /\ TypeOK
      /\ proc[p].pc = "mark"
      /\ pulled' = pulled \cup {proc[p].picked}
      /\ proc' = [proc EXCEPT ![p] = Idle]
      /\ stored' = stored
  BY DEF IInv, DInv, MarkConsumed
<1>2. PICK r \in proc[p].seen :
          /\ result' = [result EXCEPT ![r[1]].consumed = TRUE]
          /\ lost' = lost \cup (IF Unconsumed(r[1]) THEN {result[r[1]].result} \ {proc[p].picked} ELSE {})
  BY DEF MarkConsumed
<1> DEFINE n == proc[p].picked
           old == IF Unconsumed(r[1]) THEN {result[r[1]].result} ELSE {}
           L == old \ {n}
<1>3. r[1] \in Sessions /\ n \in 1 .. stored
  BY <1>1 DEF IInv, PInv, HandFits, TypeOK, Proc, Record
<1>4. \A q \in Procs : proc[q].pc = "mark" => q = p
  BY <1>1 DEF IInv, PInv, PullersLock
<1>5. InHand = {n}
  BY <1>1, <1>4 DEF InHand
<1>6. InHand' = {}
  BY <1>1, <1>4 DEF InHand, TypeOK, Idle
<1>7. /\ ~Unconsumed(r[1])'
      /\ \A s \in Sessions : s # r[1] => (Unconsumed(s)' <=> Unconsumed(s)) /\ result'[s] = result[s]
  BY <1>1, <1>2, <1>3 DEF TypeOK, Row, Unconsumed
<1>8. \A s \in Sessions : Unconsumed(s) /\ s # r[1] => result[s].result \notin old \cup {n}
  <2>1. n \in TableResults => n = result[r[1]].result
    BY <1>1 DEF IInv, PInv, HandFits
  <2>2. ASSUME NEW s \in Sessions, Unconsumed(s), s # r[1] PROVE result[s].result \notin old \cup {n}
    <3>1. result[s].result # result[r[1]].result /\ result[s].result \in TableResults
      BY <1>3, <2>2 DEF IInv, PInv, RowsDiffer, Unconsumed, TableResults
    <3>2. QED
      BY <2>1, <3>1
  <2>3. QED
    BY <2>2
<1>9. TableResults' = TableResults \ (old \cup {n})
  <2>1. TableResults' = {result'[s].result : s \in {t \in Sessions : Unconsumed(t)'}}
    BY DEF TableResults
  <2>2. TableResults = {result[s].result : s \in {t \in Sessions : Unconsumed(t)}}
    BY DEF TableResults
  <2>3. ASSUME NEW x \in TableResults' PROVE x \in TableResults \ (old \cup {n})
    <3>1. PICK s \in Sessions : Unconsumed(s)' /\ x = result'[s].result
      BY <2>1
    <3>2. s # r[1] /\ Unconsumed(s) /\ x = result[s].result
      BY <1>7, <3>1
    <3>3. QED
      BY <1>8, <2>2, <3>2
  <2>4. ASSUME NEW x \in TableResults \ (old \cup {n}) PROVE x \in TableResults'
    <3>1. PICK s \in Sessions : Unconsumed(s) /\ x = result[s].result
      BY <2>2
    <3>2. s # r[1]
      BY <2>4, <3>1
    <3>3. QED
      BY <1>7, <2>1, <3>1, <3>2
  <2>5. QED
    BY <2>3, <2>4
<1>10. old \subseteq TableResults
  BY <1>3 DEF TableResults
<1>11. lost' = lost \cup L
  BY <1>2
<1>12. pulled' = pulled \cup {n} /\ stored' = stored
  BY <1>1
<1> HIDE DEF n, old
<1>13. L \in SUBSET Pending /\ n \in Pending \ L
  BY <1>5, <1>10 DEF Pending
<1>14. (InHand \cup TableResults)' = (InHand \cup TableResults) \ (L \cup {n})
  BY <1>5, <1>6, <1>9
<1>15. Ledger!Take(n, L)
  BY <1>11, <1>12, <1>13, <1>14 DEF Ledger!Take, Pending
<1>16. QED
  BY <1>13, <1>15 DEF Ledger!Next, Pending

\* A result that is selected is in its row as well: nothing moves yet.
LEMMA LedgerSelect ==
    ASSUME IInv, NEW p \in Threads, NEW s \in Sessions, SelectResult(p, s)
    PROVE  UNCHANGED <<stored, InHand \cup TableResults, pulled, lost>>
<1> DEFINE here == Read({s})
           n == result[s].result
           new == [Idle EXCEPT !.pc = "mark", !.op = "pull", !.seen = here, !.picked = n]
<1>1. /\ TypeOK /\ p \in Procs /\ dbLock = Free /\ Free \notin Procs
      /\ proc' = [proc EXCEPT ![p] = new]
      /\ UNCHANGED <<result, stored, pulled, lost>>
      /\ n \in TableResults
  BY ConstantsAssumption DEF IInv, DInv, SelectResult, TableResults, tables, observed
<1>2. new.pc = "mark" /\ new.picked = n
  <2> HIDE DEF here, n
  <2>1. QED
    BY DEF Idle
<1> HIDE DEF new, n
<1>3. InHand = {}
  BY <1>1 DEF IInv, PInv, PullersLock, InHand
<1>4. InHand' \subseteq {n}
  <2>1. \A q \in Procs : proc[q].pc # "mark"
    BY <1>1 DEF IInv, PInv, PullersLock
  <2>2. \A q \in Procs : proc'[q].pc = "mark" => proc'[q].picked = n
    BY <1>1, <1>2, <2>1 DEF TypeOK
  <2>3. QED
    BY <2>2 DEF InHand
<1>5. TableResults' = TableResults
  BY <1>1 DEF TableResults, Unconsumed
<1>6. QED
  BY <1>1, <1>3, <1>4, <1>5

\* A restart of the API loses a result that was in hand and no longer in a row.
LEMMA LedgerRestart == IInv /\ ApiRestarts => Ledger!Next
<1> SUFFICES ASSUME IInv, ApiRestarts PROVE Ledger!Next
  OBVIOUS
<1>1. /\ proc' = [p \in Procs |-> IF p \in Threads THEN Idle ELSE proc[p]]
      /\ lost' = lost \cup (InHand \ TableResults)
      /\ UNCHANGED <<result, stored, pulled>>
  BY DEF ApiRestarts, tables
<1>2. InHand' = {}
  BY <1>1 DEF IInv, PInv, PullersLock, InHand, Idle
<1>3. TableResults' = TableResults
  BY <1>1 DEF TableResults, Unconsumed
<1> DEFINE L == InHand \ TableResults
<1>4. L \in SUBSET Pending
  BY DEF Pending
<1>5. (InHand \cup TableResults)' = (InHand \cup TableResults) \ L
  BY <1>2, <1>3
<1>6. Ledger!Lose(L)
  BY <1>1, <1>4, <1>5 DEF Ledger!Lose, Pending
<1>7. QED
  BY <1>4, <1>6 DEF Ledger!Next, Pending

\* The other steps of processes do not touch results.
LEMMA LedgerOthers ==
    ASSUME IInv, NEW p \in Procs,
           \/ \E S \in SUBSET Sessions : Query(p, S)
           \/ \E s \in Sessions, type \in MessageTypes : BeginMessage(p, s, type)
           \/ CheckExpiry(p)
           \/ SaveTransition(p)
           \/ p \in Hosts /\ HostDies(p)
    PROVE  UNCHANGED <<stored, InHand \cup TableResults, pulled, lost>>
<1>1. TypeOK
  BY DEF IInv, DInv
<1>2. CASE \E S \in SUBSET Sessions : Query(p, S)
  <2>1. PICK S \in SUBSET Sessions : Query(p, S)
    BY <1>2
  <2>2. /\ UNCHANGED <<result, stored, pulled, lost>>
        /\ proc[p].pc = "idle"
        /\ proc' = [proc EXCEPT ![p] = [Idle EXCEPT !.pc = "check", !.op = "query", !.seen = Read(S)]]
    BY <2>1 DEF Query, tables, observed
  <2>3. Read(S) \in SUBSET Record
    BY <1>1, Records
  <2>4. [Idle EXCEPT !.pc = "check", !.op = "query", !.seen = Read(S)].pc = "check"
    BY <2>3, CheckRecord
  <2>5. InHand' = InHand
    BY <1>1, <2>2, <2>4, HandKept DEF TypeOK
  <2>6. QED
    BY <2>2, <2>5, LedgerKept
<1>3. CASE \E s \in Sessions, type \in MessageTypes : BeginMessage(p, s, type)
  <2>1. PICK s \in Sessions, type \in MessageTypes : BeginMessage(p, s, type)
    BY <1>3
  <2>2. /\ UNCHANGED <<result, stored, pulled, lost>>
        /\ proc[p].pc = "idle"
        /\ proc' = [proc EXCEPT ![p] = [Idle EXCEPT !.pc = "check", !.op = type, !.seen = Read({s})]]
    BY <2>1 DEF BeginMessage, tables
  <2>3. Read({s}) \in SUBSET Record
    BY <1>1, Records
  <2>4. [Idle EXCEPT !.pc = "check", !.op = type, !.seen = Read({s})].pc = "check"
    BY <2>3, CheckRecord
  <2>5. InHand' = InHand
    BY <1>1, <2>2, <2>4, HandKept DEF TypeOK
  <2>6. QED
    BY <2>2, <2>5, LedgerKept
<1>4. CASE CheckExpiry(p)
  <2>1. /\ UNCHANGED <<result, stored, pulled, lost>>
        /\ proc[p].pc = "check"
        /\ \E s \in Sessions, st \in Statuses : AfterCheck(p, s, st)
    <3>1. PICK r \in proc[p].seen : AfterCheck(p, r[1], "timeout") \/ AfterCheck(p, r[1], r[2])
      BY <1>4 DEF CheckExpiry
    <3>2. r[1] \in Sessions /\ r[2] \in Statuses /\ "timeout" \in Statuses
      BY <1>1 DEF TypeOK, Proc, Record, Statuses, Terminal
    <3>3. QED
      BY <1>4, <3>1, <3>2 DEF CheckExpiry, observed
  <2>2. PICK new \in Proc : proc' = [proc EXCEPT ![p] = new] /\ new.pc \in {"idle", "check", "act"}
    BY <1>1, <2>1, AfterCheckOutcome DEF Idle
  <2>3. InHand' = InHand
    BY <1>1, <2>1, <2>2, HandKept DEF TypeOK
  <2>4. QED
    BY <2>1, <2>3, LedgerKept
<1>5. CASE SaveTransition(p)
  <2>1. /\ UNCHANGED <<result, stored, pulled, lost>>
        /\ proc[p].pc = "act"
        /\ proc' = [proc EXCEPT ![p].pc = "store"] \/ proc' = [proc EXCEPT ![p] = Idle]
    BY <1>5 DEF SaveTransition
  <2>2. \A q \in Procs : ~Marking(p)' /\ (q # p => proc'[q] = proc[q])
    BY <1>1, <2>1 DEF TypeOK, Proc, Idle
  <2>3. InHand' = InHand
    BY <2>1, <2>2, HandKept
  <2>4. QED
    BY <2>1, <2>3, LedgerKept
<1>6. CASE p \in Hosts /\ HostDies(p)
  <2>1. /\ UNCHANGED <<result, stored, pulled, lost>>
        /\ proc' = [proc EXCEPT ![p] = Idle]
    BY <1>6 DEF HostDies, tables, observed
  <2>2. ~Marking(p)
    BY <1>6, ConstantsAssumption DEF IInv, PInv, PullersLock
  <2>3. InHand' = InHand
    BY <1>1, <2>1, <2>2, HandKept DEF TypeOK, Idle
  <2>4. QED
    BY <2>1, <2>3, LedgerKept
<1>7. QED
  BY <1>2, <1>3, <1>4, <1>5, <1>6

LEMMA LedgerStep == IInv /\ [Next]_vars => [Ledger!Next]_<<stored, InHand \cup TableResults, pulled, lost>>
<1> SUFFICES ASSUME IInv, [Next]_vars
             PROVE  Ledger!Next \/ UNCHANGED <<stored, InHand \cup TableResults, pulled, lost>>
  OBVIOUS
<1>1. CASE Tick \/ UNCHANGED vars
  <2>1. UNCHANGED <<proc, result, stored, pulled, lost>>
    BY <1>1 DEF Tick, vars, tables, observed
  <2>2. InHand' = InHand
    BY <2>1 DEF InHand
  <2>3. QED
    BY <2>1, <2>2, LedgerKept
<1>2. CASE \E s \in Sessions : CreateSession(s)
  <2>1. UNCHANGED <<proc, result, stored, pulled, lost>>
    BY <1>2 DEF CreateSession, observed
  <2>2. InHand' = InHand
    BY <2>1 DEF InHand
  <2>3. QED
    BY <2>1, <2>2, LedgerKept
<1>3. CASE \E p \in Threads, s \in Sessions : Query(p, {s}) \/ Query(p, Present)
  <2>1. Present \in SUBSET Sessions /\ \A s \in Sessions : {s} \in SUBSET Sessions
    BY DEF Present
  <2>2. QED
    BY <1>3, <2>1, LedgerOthers
<1>4. CASE \E p \in Procs, s \in Sessions, type \in MessageTypes : BeginMessage(p, s, type)
  BY <1>4, LedgerOthers
<1>5. CASE \E p \in Procs : ProcStep(p)
  BY <1>5, LedgerOthers, LedgerStore, LedgerMark DEF ProcStep
<1>6. CASE \E p \in Threads, s \in Sessions : SelectResult(p, s)
  BY <1>6, LedgerSelect
<1>7. CASE \E h \in Hosts : HostDies(h)
  BY <1>7, LedgerOthers
<1>8. CASE ApiRestarts
  BY <1>8, LedgerRestart
<1>9. QED
  BY <1>1, <1>2, <1>3, <1>4, <1>5, <1>6, <1>7, <1>8 DEF Next

\* Whatever is stored again, marked by name or lost with a process, a result
\* is handed to the designer at most once.
THEOREM PulledAtMostOnce == Spec => AtMostOncePull
<1>1. Init => Ledger!Init
  BY DEF Init, Ledger!Init, InHand, TableResults, Unconsumed, NoRow, Idle
<1>2. QED
  BY <1>1, LedgerStep, Inductive, PTL DEF Spec, AtMostOncePull, Ledger!Spec, Ledger!ledger

=============================================================================
