------------------------- MODULE NativePipeline_proofs -------------------------
(* Theorems about NativePipeline and PickerDesigner, for any tabs, nodes and    *)
(* bounds.                                                                      *)
EXTENDS NativePipeline, FiniteSetTheorems, SequenceTheorems, WellFoundedInduction, TLAPS

\* The sessions the service has created so far; whatever the worker remembers
\* is of these.
Created == {s \in Sessions : status[s] # "absent"}

MapsOf(C) ==
    { m \in [ byId : [Sessions -> Tabs \union {NoTab}], byTab : [Tabs -> C \union {0}],
              completed : SUBSET Sessions, mode : [Tabs -> C \union {0, Extension}] ] :
        \A s \in Sessions : m.byId[s] # NoTab => s \in C }

EnvelopesOf(C) ==
    [ type : {"session_ready", "pick_result", "error", "cancel"}, session : C \union {0},
      tab : Tabs \union {NoTab}, pick : Nat, then : {"nothing", "answer", "lastAnswer", "clear", "attach"},
      stage : {"http", "again", "rebind", "host", "list", "done"},
      ack : {"none", "ok", "terminal", "invalid", "notFound", "noHost"},
      valid : BOOLEAN, hit : BOOLEAN ]

PollsOf(C) ==
    [phase : {"idle", "act", "tab", "wait"}, live : SUBSET C, session : C \union {0},
     tab : Tabs \union {NoTab}]

ArmingOf(C) == [session : C, tab : Tabs]

Calls ==
    [kind : {"start", "cancel", "get", "pull"}, session : Sessions \union {0},
     node : Nodes \union {NoNode},
     answer : {"none", "ok", "error", "found", "empty", "absent", "pending", "ready"} \union Terminal]

ServiceTyped ==
    /\ status \in [Sessions -> {"absent", "pending", "ready"} \union Terminal]
    /\ nodeOf \in [Sessions -> Nodes \union {NoNode}]
    /\ result \in [Sessions -> Nat]
    /\ taken \in SUBSET Sessions

DesignerTyped ==
    /\ nodes \in SUBSET Nodes
    /\ current \in Sessions \union {0}
    /\ timer \in [session : Sessions, node : Nodes] \union {NoTimer}
    /\ calls \in SUBSET Calls
    /\ written \in Seq([node : Nodes, session : Sessions])

WorkerTyped ==
    /\ tabs \in [Tabs -> {"open", "loading", "closed"}]
    /\ Maps \in MapsOf(Created)
    /\ poll \in PollsOf(Created)
    /\ poll.phase = "tab" => poll.session # 0 /\ poll.tab # NoTab
    /\ arming \in SUBSET ArmingOf(Created)
    /\ sends \in SUBSET EnvelopesOf(Created)
    /\ picks \in Seq([tab : Tabs, mode : Sessions \union {Extension},
                      told : {"nothing", "ok", "no"}])
    /\ hosted \in {"unknown", Home, Other, NoApi}

TypeOK == ServiceTyped /\ DesignerTyped /\ WorkerTyped

(***************************************************************************)
(* The designer's side: who asks for a session asks for the node it was    *)
(* created for; a result that is found is taken, and on its way or written *)
(* once.                                                                   *)
(***************************************************************************)

IsFor(s, n) == s \in Created /\ nodeOf[s] = n

CallGood(c) ==
    /\ c.kind = "start" => c.node \in Nodes
    /\ c.kind = "start" /\ c.answer = "ok" => IsFor(c.session, c.node)
    /\ c.kind \in {"get", "pull"} => c.node \in Nodes /\ IsFor(c.session, c.node)
    /\ c.kind = "pull" /\ c.answer = "found" =>
          /\ c.session \in taken /\ result[c.session] # 0
          /\ \A i \in DOMAIN written : written[i].session # c.session

WrittenGood ==
    /\ \A i \in DOMAIN written :
          /\ IsFor(written[i].session, written[i].node)
          /\ written[i].session \in taken /\ result[written[i].session] # 0
    /\ \A i, j \in DOMAIN written : written[i].session = written[j].session => i = j

DesignerInv ==
    /\ \A c \in calls : CallGood(c)
    /\ timer # NoTimer => IsFor(timer.session, timer.node)
    /\ WrittenGood

(***************************************************************************)
(* The worker's side: what an envelope knows of its pick.                  *)
(***************************************************************************)

EnvelopeGood(e) ==
    /\ e.stage # "list" => e.session # 0
    /\ e.tab = NoTab => e.then = "attach"
    /\ e.type = "pick_result" <=> e.then \in {"answer", "lastAnswer"}
    /\ e.type = "pick_result" <=> e.pick # 0
    /\ e.pick <= Len(picks)
    /\ e.ack = "ok" => e.stage = "done"
    /\ e.ack = "ok" /\ e.pick # 0 => result[e.session] = e.pick
    /\ e.pick # 0 /\ e.stage \in {"host", "done"} /\ e.ack # "ok" => e.hit \/ ~ e.valid \/ ~ Live(e.session)

\* As long as the host is not found to work on other tables, a pick is sent
\* to one session only.
SentToOne(e) ==
    hosted # Other =>
        /\ e.stage = "done" => e.ack # "notFound"
        /\ e.pick # 0 => \A s \in Sessions : result[s] = e.pick => e.stage # "list" /\ e.session = s

SendsInv ==
    /\ \A e \in sends : EnvelopeGood(e) /\ SentToOne(e)
    /\ \A e, f \in sends : e.pick # 0 /\ e.pick = f.pick => e = f

ResultsInv ==
    \A s \in Sessions : result[s] # 0 => status[s] = "succeeded" /\ result[s] <= Len(picks)

IInv == TypeOK /\ DesignerInv /\ SendsInv /\ ResultsInv /\ OkIsStored /\ StoredOnce

-----------------------------------------------------------------------------
(* Lemmas about sets of sessions, and about the maps of the worker.            *)

\* A set of sessions that is not empty has a first and a last one.
LEMMA Extremes ==
    ASSUME NEW S, S \subseteq Sessions, S # {}
    PROVE  /\ \E s \in S : \A r \in S : s <= r
           /\ \E s \in S : \A r \in S : s >= r
<1>1. S \subseteq Nat /\ \A s \in S : s \in 1..MaxSessions
  BY BoundsAssumption DEF Sessions
<1>2. \E s \in S : \A r \in S : ~ (<<r, s>> \in OpToRel(<, Nat))
  BY <1>1, WFMin, NatLessThanWellFounded
<1>3. \A r, s \in Nat : <<r, s>> \in OpToRel(<, Nat) <=> r < s
  BY DEF OpToRel
<1>4. \E s \in S : \A r \in S : s <= r
  <2>1. PICK s \in S : \A r \in S : ~ (<<r, s>> \in OpToRel(<, Nat))
    BY <1>2
  <2>2. \A r \in S : r \in Nat /\ s \in Nat /\ ~ (r < s)
    BY <1>1, <1>3, <2>1
  <2> QED BY <2>2
<1> DEFINE N == {n \in Nat : \E s \in S : n = MaxSessions - s}
<1>5. N # {} /\ N \subseteq Nat
  <2>1. PICK s \in S : TRUE
    OBVIOUS
  <2>2. MaxSessions - s \in N
    BY <1>1, <2>1, BoundsAssumption
  <2> QED BY <2>2
<1>6. \E n \in N : \A m \in N : ~ (<<m, n>> \in OpToRel(<, Nat))
  BY <1>5, WFMin, NatLessThanWellFounded
<1>7. PICK n \in N : \A m \in N : n <= m
  <2>1. PICK n \in N : \A m \in N : ~ (<<m, n>> \in OpToRel(<, Nat))
    BY <1>6
  <2>2. \A m \in N : m \in Nat /\ n \in Nat /\ ~ (m < n)
    BY <1>3, <1>5, <2>1
  <2>3. \A m \in N : n <= m
    BY <2>2
  <2> QED BY <2>1, <2>3
<1>8. PICK s \in S : n = MaxSessions - s
  BY <1>7
<1>9. \A r \in S : s >= r
  <2> TAKE r \in S
  <2>1. MaxSessions - r \in N
    BY <1>1, BoundsAssumption
  <2> QED BY <1>1, <1>7, <1>8, <2>1, BoundsAssumption
<1> QED BY <1>4, <1>8, <1>9

LEMMA OldestIn ==
    ASSUME NEW S, S \subseteq Sessions, S # {}
    PROVE  (CHOOSE s \in S : \A r \in S : s <= r) \in S
<1> DEFINE First(s) == \A r \in S : s <= r
<1>1. \E s \in S : First(s)
  BY Extremes
<1> HIDE DEF First
<1>2. (CHOOSE s \in S : First(s)) \in S
  BY <1>1
<1> QED BY <1>2 DEF First

LEMMA NewestIn ==
    ASSUME NEW S, S \subseteq Sessions, S # {}
    PROVE  (CHOOSE s \in S : \A r \in S : s >= r) \in S
<1> DEFINE Last(s) == \A r \in S : s >= r
<1>1. \E s \in S : Last(s)
  BY Extremes
<1> HIDE DEF Last
<1>2. (CHOOSE s \in S : Last(s)) \in S
  BY <1>1
<1> QED BY <1>2 DEF Last

LEMMA MapsFields ==
    ASSUME NEW C, C \subseteq Sessions, NEW m \in MapsOf(C)
    PROVE  /\ m.byId \in [Sessions -> Tabs \union {NoTab}]
           /\ m.byTab \in [Tabs -> C \union {0}]
           /\ m.completed \in SUBSET Sessions
           /\ m.mode \in [Tabs -> C \union {0, Extension}]
           /\ \A s \in Sessions : m.byId[s] # NoTab => s \in C
           /\ m = [byId |-> m.byId, byTab |-> m.byTab, completed |-> m.completed, mode |-> m.mode]
BY DEF MapsOf

LEMMA MapsMade ==
    ASSUME NEW C, NEW bi \in [Sessions -> Tabs \union {NoTab}], NEW bt \in [Tabs -> C \union {0}],
           NEW co \in SUBSET Sessions, NEW mo \in [Tabs -> C \union {0, Extension}],
           \A s \in Sessions : bi[s] # NoTab => s \in C
    PROVE  [byId |-> bi, byTab |-> bt, completed |-> co, mode |-> mo] \in MapsOf(C)
BY DEF MapsOf

LEMMA ClearedIn ==
    ASSUME NEW C, C \subseteq Sessions, NEW m \in MapsOf(C), NEW s \in Sessions
    PROVE  Cleared(s, m) \in MapsOf(C)
<1> DEFINE bi == [m.byId EXCEPT ![s] = NoTab]
           bt == IF m.byId[s] = NoTab THEN m.byTab ELSE [m.byTab EXCEPT ![m.byId[s]] = 0]
           mo == IF m.byId[s] = NoTab THEN m.mode ELSE [m.mode EXCEPT ![m.byId[s]] = 0]
           co == m.completed \union {s}
<1>1. Cleared(s, m) = [byId |-> bi, byTab |-> bt, completed |-> co, mode |-> mo]
  <2>1. Cleared(s, m) = [m EXCEPT !.completed = co, !.byId = bi, !.byTab = bt, !.mode = mo]
    BY DEF Cleared
  <2> HIDE DEF bi, bt, mo, co
  <2> QED BY <2>1 DEF MapsOf
<1>2. bi \in [Sessions -> Tabs \union {NoTab}] /\ \A r \in Sessions : bi[r] # NoTab => r \in C
  BY MapsFields
<1>3. bt \in [Tabs -> C \union {0}]
  BY MapsFields
<1>4. mo \in [Tabs -> C \union {0, Extension}]
  BY MapsFields
<1>5. co \in SUBSET Sessions
  BY MapsFields
<1> HIDE DEF bi, bt, mo, co
<1> QED BY <1>1, <1>2, <1>3, <1>4, <1>5 DEF MapsOf

LEMMA BoundIn ==
    ASSUME NEW C, C \subseteq Sessions, NEW m \in MapsOf(C), NEW s \in C, NEW t \in Tabs \union {NoTab}
    PROVE  Bound(t, s, m) \in MapsOf(C)
<1> DEFINE bi == [m.byId EXCEPT ![s] = t]
           bt == [m.byTab EXCEPT ![t] = s]
<1>1. Bound(t, s, m) = [byId |-> bi, byTab |-> bt, completed |-> m.completed, mode |-> m.mode]
  <2>1. Bound(t, s, m) = [m EXCEPT !.byId = bi, !.byTab = bt]
    BY DEF Bound
  <2> HIDE DEF bi, bt
  <2> QED BY <2>1 DEF MapsOf
<1>2. bi \in [Sessions -> Tabs \union {NoTab}] /\ \A r \in Sessions : bi[r] # NoTab => r \in C
  BY MapsFields
<1>3. bt \in [Tabs -> C \union {0}]
  BY MapsFields
<1>4. m.completed \in SUBSET Sessions /\ m.mode \in [Tabs -> C \union {0, Extension}]
  BY MapsFields
<1> HIDE DEF bi, bt
<1> QED BY <1>1, <1>2, <1>3, <1>4 DEF MapsOf

LEMMA ModeOff ==
    ASSUME NEW C, C \subseteq Sessions, NEW m \in MapsOf(C), NEW t
    PROVE  [m EXCEPT !.mode[t] = 0] \in MapsOf(C)
<1> DEFINE mo == [m.mode EXCEPT ![t] = 0]
<1>1. [m EXCEPT !.mode[t] = 0] = [byId |-> m.byId, byTab |-> m.byTab, completed |-> m.completed, mode |-> mo]
  BY DEF MapsOf
<1>2. mo \in [Tabs -> C \union {0, Extension}]
  BY MapsFields
<1> HIDE DEF mo
<1> QED BY <1>1, <1>2, MapsFields DEF MapsOf

LEMMA DroppedIn ==
    ASSUME NEW C, C \subseteq Sessions, NEW m \in MapsOf(C), NEW s, NEW t
    PROVE  [m EXCEPT !.byTab[t] = 0, !.byId[s] = NoTab] \in MapsOf(C)
<1> DEFINE bi == [m.byId EXCEPT ![s] = NoTab]
           bt == [m.byTab EXCEPT ![t] = 0]
           d == [m EXCEPT !.byTab[t] = 0, !.byId[s] = NoTab]
<1>1. d = [byId |-> bi, byTab |-> bt, completed |-> m.completed, mode |-> m.mode]
  <2>1. d = [m EXCEPT !.byId = bi, !.byTab = bt]
    OBVIOUS
  <2> HIDE DEF bi, bt, d
  <2> QED BY <2>1 DEF MapsOf
<1>2. bi \in [Sessions -> Tabs \union {NoTab}] /\ \A r \in Sessions : bi[r] # NoTab => r \in C
  BY MapsFields
<1>3. bt \in [Tabs -> C \union {0}]
  BY MapsFields
<1>4. m.completed \in SUBSET Sessions /\ m.mode \in [Tabs -> C \union {0, Extension}]
  BY MapsFields
<1> HIDE DEF bi, bt, d
<1>5. d \in MapsOf(C)
  BY <1>1, <1>2, <1>3, <1>4 DEF MapsOf
<1> QED BY <1>5 DEF d

LEMMA FoundIn ==
    ASSUME NEW C, C \subseteq Sessions, NEW m \in MapsOf(C), NEW t \in Tabs
    PROVE  FindByTab(t, m) \in C \union {0}
<1>0. m.byTab \in [Tabs -> C \union {0}] /\ \A s \in Sessions : m.byId[s] # NoTab => s \in C
  BY MapsFields
<1> DEFINE held == {s \in Sessions : m.byId[s] = t}
<1>1. held \subseteq C
  BY <1>0, TabsAssumption
<1>2. CASE m.byTab[t] # 0
  BY <1>0, <1>2 DEF FindByTab
<1>3. CASE m.byTab[t] = 0 /\ held = {}
  BY <1>3 DEF FindByTab
<1>4. CASE m.byTab[t] = 0 /\ held # {}
  <2>1. FindByTab(t, m) = CHOOSE s \in held : \A r \in held : s <= r
    BY <1>4 DEF FindByTab
  <2>2. held \subseteq Sessions
    OBVIOUS
  <2> HIDE DEF held
  <2>3. (CHOOSE s \in held : \A r \in held : s <= r) \in held
    BY <1>4, <2>2, OldestIn
  <2> QED BY <1>1, <2>1, <2>3
<1> QED BY <1>2, <1>3, <1>4

LEMMA ResolvedIn ==
    ASSUME NEW C, C \subseteq Sessions, NEW m \in MapsOf(C), NEW t \in Tabs
    PROVE  /\ ResolveInMemory(t, m).session \in C \union {0}
           /\ ResolveInMemory(t, m).maps \in MapsOf(C)
<1> DEFINE mine == FindByTab(t, m)
           there == {s \in Sessions : m.byId[s] # NoTab} \ m.completed
           bt == [m.byTab EXCEPT ![t] = mine]
<1>0. mine \in C \union {0}
  BY FoundIn
<1>1. CASE mine # 0
  <2>1. ResolveInMemory(t, m) = [session |-> mine, maps |-> [m EXCEPT !.byTab = bt]]
    BY <1>1 DEF ResolveInMemory
  <2>2. bt \in [Tabs -> C \union {0}]
    BY <1>0, MapsFields
  <2> HIDE DEF bt, mine
  <2>3. [m EXCEPT !.byTab = bt] = [byId |-> m.byId, byTab |-> bt, completed |-> m.completed, mode |-> m.mode]
    BY DEF MapsOf
  <2>4. [m EXCEPT !.byTab = bt] \in MapsOf(C)
    BY <2>2, <2>3, MapsFields DEF MapsOf
  <2> QED BY <1>0, <2>1, <2>4
<1>2. CASE mine = 0 /\ Cardinality(there) = 1
  <2> DEFINE s == CHOOSE s \in there : TRUE
  <2>1. ResolveInMemory(t, m) = [session |-> s, maps |-> Bound(t, s, m)]
    BY <1>2 DEF ResolveInMemory
  <2>2. there \subseteq C
    BY MapsFields
  <2>3. there # {}
    BY <1>2, FS_EmptySet
  <2>4. s \in there
    BY <2>3
  <2> HIDE DEF s
  <2>5. Bound(t, s, m) \in MapsOf(C)
    BY <2>2, <2>4, BoundIn
  <2> QED BY <2>1, <2>2, <2>4, <2>5
<1>3. CASE mine = 0 /\ Cardinality(there) # 1
  BY <1>3 DEF ResolveInMemory
<1> QED BY <1>1, <1>2, <1>3

LEMMA ListedIn ==
    ASSUME NEW S, S \subseteq Sessions, NEW t
    PROVE  ResolveByList(t, S) \in S \union {0}
<1> DEFINE named == {s \in S : diagTab[s] = t}
<1>1. CASE named # {}
  <2>1. ResolveByList(t, S) = CHOOSE s \in named : \A r \in named : s >= r
    BY <1>1 DEF ResolveByList
  <2>2. named \subseteq Sessions /\ named \subseteq S
    OBVIOUS
  <2> HIDE DEF named
  <2> QED BY <1>1, <2>1, <2>2, NewestIn
<1>2. CASE named = {} /\ Cardinality(S) = 1
  <2>1. S # {}
    BY <1>2, FS_EmptySet
  <2>2. ResolveByList(t, S) = CHOOSE s \in S : TRUE
    BY <1>2 DEF ResolveByList
  <2> QED BY <2>1, <2>2
<1>3. CASE named = {} /\ Cardinality(S) # 1
  BY <1>3 DEF ResolveByList
<1> QED BY <1>1, <1>2, <1>3

LEMMA AfterToldIn ==
    ASSUME NEW C, C \subseteq Sessions, NEW m \in MapsOf(C), NEW t, NEW answer
    PROVE  AfterTold(m, t, answer) \in MapsOf(C)
BY ModeOff DEF AfterTold

LEMMA BecomeIn ==
    ASSUME NEW C, C \subseteq Sessions, NEW m \in MapsOf(C), Become(m)
    PROVE  Maps' = m
BY MapsFields DEF Become, Maps

\* What is of some sessions is of more sessions as well.
LEMMA OfMore ==
    ASSUME NEW C, NEW D, C \subseteq D, D \subseteq Sessions
    PROVE  /\ MapsOf(C) \subseteq MapsOf(D)
           /\ EnvelopesOf(C) \subseteq EnvelopesOf(D)
           /\ PollsOf(C) \subseteq PollsOf(D)
           /\ ArmingOf(C) \subseteq ArmingOf(D)
<1>0. C \subseteq Sessions
  OBVIOUS
<1>1. MapsOf(C) \subseteq MapsOf(D)
  <2> SUFFICES ASSUME NEW m \in MapsOf(C) PROVE m \in MapsOf(D)
    OBVIOUS
  <2>0. USE <1>0
  <2> DEFINE bi == m.byId
             bt == m.byTab
             co == m.completed
             mo == m.mode
  <2>1. m = [byId |-> bi, byTab |-> bt, completed |-> co, mode |-> mo]
    BY MapsFields
  <2>2. bi \in [Sessions -> Tabs \union {NoTab}] /\ \A s \in Sessions : bi[s] # NoTab => s \in D
    BY MapsFields
  <2>3. bt \in [Tabs -> D \union {0}]
    BY MapsFields
  <2>4. co \in SUBSET Sessions
    BY MapsFields
  <2>5. mo \in [Tabs -> D \union {0, Extension}]
    BY MapsFields
  <2> HIDE DEF bi, bt, co, mo
  <2>6. [byId |-> bi, byTab |-> bt, completed |-> co, mode |-> mo] \in MapsOf(D)
    BY <2>2, <2>3, <2>4, <2>5, MapsMade
  <2> QED BY <2>1, <2>6
<1>2. EnvelopesOf(C) \subseteq EnvelopesOf(D)
  <2> SUFFICES ASSUME NEW e \in EnvelopesOf(C) PROVE e \in EnvelopesOf(D)
    OBVIOUS
  <2> QED BY DEF EnvelopesOf
<1>3. PollsOf(C) \subseteq PollsOf(D)
  BY DEF PollsOf
<1>4. ArmingOf(C) \subseteq ArmingOf(D)
  BY DEF ArmingOf
<1> QED BY <1>1, <1>2, <1>3, <1>4

\* The message of a page becomes one envelope, for a session or for the list.
LEMMA Dispatched ==
    ASSUME NEW C, C \subseteq Sessions, NEW m \in MapsOf(C), NEW e \in EnvelopesOf(C),
           NEW t \in Tabs, NEW others, e.stage = "http", Dispatch(e, t, m, others)
    PROVE  /\ Maps' \in MapsOf(C)
           /\ \E x \in EnvelopesOf(C) :
                /\ sends' = others \union {x}
                /\ x.type = e.type /\ x.tab = e.tab /\ x.pick = e.pick /\ x.then = e.then
                /\ x.ack = e.ack /\ x.valid = e.valid /\ x.hit = e.hit
                /\ x.stage \in {"http", "list"} /\ (x.stage # "list" => x.session # 0)
<1> DEFINE found == ResolveInMemory(t, m)
<1>1. found.session \in C \union {0} /\ found.maps \in MapsOf(C)
  BY ResolvedIn
<1>2. CASE e.session # 0
  <2>1. sends' = others \union {e} /\ Become(m)
    BY <1>2 DEF Dispatch
  <2> QED BY <1>2, <2>1, BecomeIn
<1>3. CASE e.session = 0 /\ found.session # 0
  <2> DEFINE s == found.session
  <2>1. sends' = others \union {[e EXCEPT !.session = s]} /\ Become(found.maps)
    BY <1>3 DEF Dispatch
  <2>2. Maps' \in MapsOf(C)
    BY <1>1, <2>1, BecomeIn
  <2>3. s \in C /\ s # 0
    BY <1>1, <1>3
  <2> HIDE DEF s
  <2> DEFINE x == [e EXCEPT !.session = s]
  <2>4. x \in EnvelopesOf(C) /\ x.session = s /\ x.type = e.type /\ x.tab = e.tab /\ x.pick = e.pick
        /\ x.then = e.then /\ x.ack = e.ack /\ x.valid = e.valid /\ x.hit = e.hit /\ x.stage = "http"
    BY <2>3 DEF EnvelopesOf
  <2> HIDE DEF x
  <2>5. sends' = others \union {x}
    BY <2>1 DEF x
  <2> QED BY <2>2, <2>3, <2>4, <2>5
<1>4. CASE e.session = 0 /\ found.session = 0
  <2>1. sends' = others \union {[e EXCEPT !.stage = "list"]} /\ Become(found.maps)
    BY <1>4 DEF Dispatch
  <2>2. Maps' \in MapsOf(C)
    BY <1>1, <2>1, BecomeIn
  <2> DEFINE x == [e EXCEPT !.stage = "list"]
  <2>4. x \in EnvelopesOf(C) /\ x.type = e.type /\ x.tab = e.tab /\ x.pick = e.pick
        /\ x.then = e.then /\ x.ack = e.ack /\ x.valid = e.valid /\ x.hit = e.hit /\ x.stage = "list"
    BY DEF EnvelopesOf
  <2> HIDE DEF x
  <2>5. sends' = others \union {x}
    BY <2>1 DEF x
  <2> QED BY <2>2, <2>4, <2>5
<1> QED BY <1>2, <1>3, <1>4

-----------------------------------------------------------------------------
(* What a step does to the service: at most one pick becomes the result of    *)
(* one session that had none.                                                 *)

ServiceStep(p, s) ==
    /\ ServiceTyped'
    /\ Created \subseteq Created'
    /\ \A r \in Created : nodeOf'[r] = nodeOf[r] /\ (~ Live(r) => ~ Live(r)')
    /\ \A r \in Sessions : result'[r] = result[r] \/ (r = s /\ result'[r] = p /\ result[r] = 0)
    /\ \A r \in Sessions : result'[r] # 0 => status'[r] = "succeeded"
    /\ taken \subseteq taken'

LEMMA ServiceStill ==
    ASSUME ServiceTyped, ResultsInv, UNCHANGED service, NEW p, NEW s
    PROVE  ServiceStep(p, s)
<1>1. status' = status /\ nodeOf' = nodeOf /\ result' = result /\ taken' = taken
  BY DEF service
<1>2. Created' = Created
  BY <1>1 DEF Created
<1> QED BY <1>1, <1>2 DEF ServiceStep, ServiceTyped, ResultsInv, Live

LEMMA HeardStep ==
    ASSUME ServiceTyped, ResultsInv, NEW e \in EnvelopesOf(Created), e.session # 0,
           e.type = "pick_result" <=> e.pick # 0, Heard(e)
    PROVE  /\ ServiceStep(e.pick, e.session)
           /\ Accepts(e) /\ e.pick # 0 => result'[e.session] = e.pick
<1> DEFINE s == e.session
           v == CASE e.type = "session_ready" -> "ready"
                  [] e.type = "pick_result" -> "succeeded"
                  [] e.type = "error" -> "failed"
                  [] e.type = "cancel" -> "cancelled"
<1>1. s \in Created /\ s \in Sessions /\ e.type \in {"session_ready", "pick_result", "error", "cancel"} /\ e.pick \in Nat
  BY DEF EnvelopesOf, Created
<1>2. v \in {"ready", "succeeded", "failed", "cancelled"} /\ (e.type = "pick_result" => v = "succeeded")
  <2>1. CASE e.type = "session_ready"
    <3>1. v = "ready"
      BY <2>1, Zenon
    <3> HIDE DEF v
    <3> QED BY <2>1, <3>1
  <2>2. CASE e.type = "pick_result"
    <3>1. v = "succeeded"
      BY <2>2, Zenon
    <3> HIDE DEF v
    <3> QED BY <2>2, <3>1
  <2>3. CASE e.type = "error"
    <3>1. v = "failed"
      BY <2>3, Zenon
    <3> HIDE DEF v
    <3> QED BY <2>3, <3>1
  <2>4. CASE e.type = "cancel"
    <3>1. v = "cancelled"
      BY <2>4, Zenon
    <3> HIDE DEF v
    <3> QED BY <2>4, <3>1
  <2> HIDE DEF v
  <2> QED BY <1>1, <2>1, <2>2, <2>3, <2>4
<1>3. status' = (IF ~ Accepts(e) THEN status ELSE [status EXCEPT ![s] = v])
  BY DEF Heard
<1>4. result' = IF Accepts(e) /\ e.type = "pick_result" THEN [result EXCEPT ![s] = e.pick] ELSE result
  BY Zenon DEF Heard
<1>5. nodeOf' = nodeOf /\ taken' = taken
  BY Zenon DEF Heard
<1> HIDE DEF v, s
<1>6. CASE ~ Accepts(e)
  <2>1. UNCHANGED service
    BY <1>3, <1>4, <1>5, <1>6 DEF service
  <2> QED BY <1>6, <2>1, ServiceStill DEF s
<1>7. CASE Accepts(e)
  <2>1. Live(s) /\ result[s] = 0 /\ status[s] # "absent"
    BY <1>1, <1>7 DEF Accepts, s, ResultsInv, Live
  <2>2. status' = [status EXCEPT ![s] = v]
    BY <1>3, <1>7
  <2>3. status' \in [Sessions -> {"absent", "pending", "ready"} \union Terminal]
    BY <1>2, <2>2 DEF ServiceTyped, Terminal
  <2>4. result' \in [Sessions -> Nat]
    BY <1>1, <1>4 DEF ServiceTyped
  <2>5. ServiceTyped'
    BY <1>5, <2>3, <2>4 DEF ServiceTyped
  <2>6. Created \subseteq Created'
    BY <1>2, <2>2 DEF Created, ServiceTyped
  <2>7. \A r \in Created : nodeOf'[r] = nodeOf[r] /\ (~ Live(r) => ~ Live(r)')
    BY <1>2, <1>5, <2>1, <2>2 DEF Created, ServiceTyped, Live
  <2>8. \A r \in Sessions : result'[r] = result[r] \/ (r = s /\ result'[r] = e.pick /\ result[r] = 0)
    BY <1>1, <1>4, <2>1 DEF ServiceTyped
  <2>9. \A r \in Sessions : result'[r] # 0 => status'[r] = "succeeded"
    <3> TAKE r \in Sessions
    <3>1. CASE r # s
      BY <1>4, <2>2, <3>1 DEF ServiceTyped, ResultsInv
    <3>2. CASE r = s /\ e.type = "pick_result"
      BY <1>1, <1>2, <2>2, <3>2 DEF ServiceTyped
    <3>3. CASE r = s /\ e.type # "pick_result"
      BY <1>1, <1>4, <2>1, <3>3 DEF ServiceTyped
    <3> QED BY <3>1, <3>2, <3>3
  <2>10. e.pick # 0 => result'[s] = e.pick
    BY <1>1, <1>4, <1>7 DEF ServiceTyped
  <2> QED BY <1>5, <2>5, <2>6, <2>7, <2>8, <2>9, <2>10 DEF ServiceStep, s
<1> QED BY <1>6, <1>7

\* What the worker remembers, and the designer's own state, are not disturbed
\* by the service.
LEMMA StillTyped ==
    ASSUME WorkerTyped, NEW p, NEW s, ServiceStep(p, s)
    PROVE  /\ Maps \in MapsOf(Created')
           /\ poll \in PollsOf(Created')
           /\ arming \in SUBSET ArmingOf(Created')
           /\ sends \in SUBSET EnvelopesOf(Created')
<1>1. Created \subseteq Created' /\ Created' \subseteq Sessions
  BY DEF ServiceStep, Created
<1> QED BY <1>1, OfMore DEF WorkerTyped

LEMMA DesignerStill ==
    ASSUME DesignerTyped, DesignerInv, NEW p, NEW s, ServiceStep(p, s), UNCHANGED designerVars
    PROVE  DesignerTyped' /\ DesignerInv'
<1>1. nodes' = nodes /\ current' = current /\ timer' = timer /\ calls' = calls /\ written' = written
  BY DEF designerVars, refs
<1>2. DesignerTyped'
  BY <1>1 DEF DesignerTyped
<1>3. \A r, n : IsFor(r, n) => IsFor(r, n)' /\ r \in Sessions
  BY DEF IsFor, ServiceStep, Created
<1>4. \A r \in Sessions : result[r] # 0 => result'[r] = result[r]
  BY DEF ServiceStep
<1>5. \A r : r \in taken => r \in taken'
  BY DEF ServiceStep
<1>6. \A c \in calls' : CallGood(c)'
  <2> SUFFICES ASSUME NEW c \in calls PROVE CallGood(c)'
    BY <1>1
  <2>1. CallGood(c)
    BY DEF DesignerInv
  <2> QED BY <1>1, <1>3, <1>4, <1>5, <2>1 DEF CallGood
<1>7. timer' # NoTimer => IsFor(timer.session, timer.node)'
  BY <1>1, <1>3 DEF DesignerInv
<1>8. WrittenGood'
  BY <1>1, <1>3, <1>4, <1>5 DEF DesignerInv, WrittenGood
<1> QED BY <1>1, <1>2, <1>6, <1>7, <1>8 DEF DesignerInv

-----------------------------------------------------------------------------
(* Envelopes on their way.                                                     *)

\* An envelope for another pick is as good as it was, whatever the step did to
\* the service.
LEMMA OthersStayGood ==
    ASSUME TypeOK, SendsInv, ResultsInv, NEW p \in Nat, NEW s, ServiceStep(p, s),
           Len(picks') \in Nat, Len(picks) <= Len(picks'), hosted' # Other => hosted # Other,
           NEW x \in sends, p # 0 => x.pick # p
    PROVE  EnvelopeGood(x)' /\ SentToOne(x)'
<1>1. EnvelopeGood(x) /\ SentToOne(x)
  BY DEF SendsInv
<1>2. x \in EnvelopesOf(Created) /\ Len(picks) \in Nat
  BY DEF TypeOK, WorkerTyped
<1>3. x.pick \in Nat /\ x.session \in Created \union {0} /\ Created \subseteq Sessions
  BY <1>2 DEF EnvelopesOf, Created
<1>4. \A r \in Sessions : result[r] \in Nat
  BY DEF TypeOK, ServiceTyped
<1>5. x.ack = "ok" /\ x.pick # 0 => result'[x.session] = x.pick
  <2> HAVE x.ack = "ok" /\ x.pick # 0
  <2>1. result[x.session] = x.pick /\ x.session \in Sessions
    BY <1>1, <1>3 DEF EnvelopeGood
  <2> QED BY <1>4, <2>1 DEF ServiceStep
<1>6. x.session # 0 /\ ~ Live(x.session) => ~ Live(x.session)'
  BY <1>3 DEF ServiceStep
<1>7. EnvelopeGood(x)'
  BY <1>1, <1>2, <1>3, <1>5, <1>6 DEF EnvelopeGood
<1>8. SentToOne(x)'
  <2> SUFFICES ASSUME hosted' # Other
               PROVE  /\ x.stage = "done" => x.ack # "notFound"
                      /\ x.pick # 0 => \A r \in Sessions : result'[r] = x.pick => x.stage # "list" /\ x.session = r
    BY DEF SentToOne
  <2>1. hosted # Other
    OBVIOUS
  <2>2. ASSUME NEW r \in Sessions, x.pick # 0, result'[r] = x.pick PROVE result[r] = x.pick
    BY <2>2 DEF ServiceStep
  <2> QED BY <1>1, <2>1, <2>2 DEF SentToOne
<1> QED BY <1>7, <1>8

\* The results of a step are in order when the pick it stored is one of the
\* picks, and is nobody else's result.
LEMMA ResultsStay ==
    ASSUME TypeOK, ResultsInv, OkIsStored, StoredOnce, NEW p \in Nat, NEW s, ServiceStep(p, s),
           p <= Len(picks), hosted' # Other => hosted # Other,
           hosted # Other /\ p # 0 => \A r \in Sessions : result[r] = p => r = s,
           Len(picks') \in Nat, Len(picks) <= Len(picks')
    PROVE  /\ ResultsInv' /\ StoredOnce'
           /\ picks' = picks => OkIsStored'
<1>0. /\ \A r \in Sessions : result[r] \in Nat /\ result'[r] \in Nat
      /\ Len(picks) \in Nat
  BY DEF TypeOK, ServiceStep, ServiceTyped, WorkerTyped
<1>1. ResultsInv'
  BY <1>0 DEF ResultsInv, ServiceStep
<1>2. StoredOnce'
  <2> SUFFICES ASSUME hosted' # Other, NEW q \in Sessions, NEW r \in Sessions, q # r, result'[q] # 0
               PROVE  result'[q] # result'[r]
    BY DEF StoredOnce
  <2>1. hosted # Other
    OBVIOUS
  <2>2. CASE result'[q] = result[q] /\ result'[r] = result[r]
    BY <2>1, <2>2 DEF StoredOnce
  <2>3. CASE result'[q] # result[q]
    <3>1. q = s /\ result'[q] = p /\ result'[r] = result[r] /\ p # 0
      BY <2>3 DEF ServiceStep
    <3> QED BY <2>1, <3>1
  <2>4. CASE result'[r] # result[r]
    <3>1. r = s /\ result'[r] = p /\ result'[q] = result[q]
      BY <2>4 DEF ServiceStep
    <3> QED BY <2>1, <3>1
  <2> QED BY <2>2, <2>3, <2>4
<1>3. ASSUME picks' = picks PROVE OkIsStored'
  <2>0. DOMAIN picks = 1..Len(picks)
    BY DEF TypeOK, WorkerTyped
  <2>1. \A r \in Sessions : result[r] # 0 => result'[r] = result[r]
    BY DEF ServiceStep
  <2>2. ASSUME NEW q \in DOMAIN picks, picks[q].told = "ok"
        PROVE  \E r \in Sessions : result'[r] = q
    <3>1. PICK r \in Sessions : result[r] = q
      BY <2>2 DEF OkIsStored
    <3>2. q # 0
      BY <1>0, <2>0
    <3> QED BY <2>1, <3>1, <3>2
  <2> QED BY <1>3, <2>2 DEF OkIsStored
<1> QED BY <1>1, <1>2, <1>3

\* One envelope is replaced by what became of it.
LEMMA SendsReplaced ==
    ASSUME TypeOK, SendsInv, ResultsInv, NEW e \in sends, ServiceStep(e.pick, e.session),
           Len(picks') \in Nat, Len(picks) <= Len(picks'), hosted' # Other => hosted # Other,
           NEW x, x.pick = e.pick, EnvelopeGood(x)' /\ SentToOne(x)',
           sends' \subseteq (sends \ {e}) \union {x}
    PROVE  SendsInv'
<1>0. e.pick \in Nat
  BY DEF TypeOK, WorkerTyped, EnvelopesOf
<1>1. ASSUME NEW y \in sends \ {e} PROVE (EnvelopeGood(y)' /\ SentToOne(y)') /\ (e.pick # 0 => y.pick # e.pick)
  <2>1. e.pick # 0 => y.pick # e.pick
    BY DEF SendsInv
  <2> QED BY <1>0, <2>1, OthersStayGood
<1>2. \A y \in sends' : EnvelopeGood(y)' /\ SentToOne(y)'
  BY <1>1
<1>3. \A y, z \in sends' : y.pick # 0 /\ y.pick = z.pick => y = z
  <2> TAKE y, z \in sends'
  <2>1. CASE y \in sends \ {e} /\ z \in sends \ {e}
    BY <2>1 DEF SendsInv
  <2>2. CASE y = x
    BY <1>1, <2>2
  <2>3. CASE z = x
    BY <1>1, <2>3
  <2> QED BY <2>1, <2>2, <2>3
<1> QED BY <1>2, <1>3 DEF SendsInv

LEMMA Moves ==
    ASSUME NEW C, NEW e \in EnvelopesOf(C), NEW stage \in {"again", "rebind", "host", "done"},
           NEW ack \in {"none", "ok", "terminal", "invalid", "notFound", "noHost"}, MovesTo(e, stage, ack)
    PROVE  \E x \in EnvelopesOf(C) :
              /\ sends' \subseteq (sends \ {e}) \union {x}
              /\ x.type = e.type /\ x.session = e.session /\ x.tab = e.tab /\ x.pick = e.pick /\ x.then = e.then
              /\ x.stage = stage /\ x.ack = ack /\ x.valid = e.valid /\ x.hit = (e.hit \/ ack = "none")
<1> DEFINE hit == e.hit \/ ack = "none"
           x == [e EXCEPT !.stage = stage, !.ack = ack, !.hit = hit]
<1>1. sends' \subseteq (sends \ {e}) \union {x}
  BY DEF MovesTo
<1>2. hit \in BOOLEAN
  BY DEF EnvelopesOf
<1> HIDE DEF hit
<1>3. /\ x \in EnvelopesOf(C)
      /\ x.type = e.type /\ x.session = e.session /\ x.tab = e.tab /\ x.pick = e.pick /\ x.then = e.then
      /\ x.stage = stage /\ x.ack = ack /\ x.valid = e.valid /\ x.hit = hit
  BY <1>2 DEF EnvelopesOf
<1> HIDE DEF x
<1> QED BY <1>1, <1>3 DEF hit

\* An answer, or a failure on the way, brings an envelope to its next stage.
LEMMA SendMoves ==
    ASSUME TypeOK, SendsInv, ResultsInv, OkIsStored, StoredOnce,
           NEW e \in sends, e.stage # "list",
           NEW stage \in {"again", "rebind", "host", "done"},
           NEW ack \in {"none", "ok", "terminal", "invalid", "notFound", "noHost"}, MovesTo(e, stage, ack),
           ServiceStep(e.pick, e.session), picks' = picks, hosted' # Other => hosted # Other,
           ack = "ok" => stage = "done",
           ack = "ok" /\ e.pick # 0 => result'[e.session] = e.pick,
           e.pick # 0 /\ stage \in {"host", "done"} /\ ack # "ok" => e.hit \/ ack = "none" \/ ~ e.valid \/ ~ Live(e.session)',
           hosted' # Other /\ stage = "done" => ack # "notFound"
    PROVE  SendsInv' /\ ResultsInv' /\ OkIsStored' /\ StoredOnce' /\ sends' \in SUBSET EnvelopesOf(Created')
<1>0. e \in EnvelopesOf(Created') /\ sends \subseteq EnvelopesOf(Created') /\ Len(picks) \in Nat /\ e.pick \in Nat
  BY StillTyped DEF TypeOK, WorkerTyped, EnvelopesOf
<1>1. EnvelopeGood(e) /\ SentToOne(e)
  BY DEF SendsInv
<1>2. PICK x \in EnvelopesOf(Created') :
        /\ sends' \subseteq (sends \ {e}) \union {x}
        /\ x.type = e.type /\ x.session = e.session /\ x.tab = e.tab /\ x.pick = e.pick /\ x.then = e.then
        /\ x.stage = stage /\ x.ack = ack /\ x.valid = e.valid /\ x.hit = (e.hit \/ ack = "none")
  BY <1>0, Moves
<1>3. EnvelopeGood(x)'
  BY <1>1, <1>2 DEF EnvelopeGood
<1>4. SentToOne(x)'
  <2> SUFFICES ASSUME hosted' # Other, x.pick # 0, NEW r \in Sessions, result'[r] = x.pick
               PROVE  x.session = r
    BY <1>2 DEF SentToOne
  <2>1. hosted # Other
    OBVIOUS
  <2>2. CASE result[r] = x.pick
    BY <1>1, <1>2, <2>1, <2>2 DEF SentToOne
  <2>3. CASE result[r] # x.pick
    BY <1>2, <2>3 DEF ServiceStep
  <2> QED BY <2>2, <2>3
<1>5. SendsInv'
  BY <1>0, <1>2, <1>3, <1>4, SendsReplaced
<1>6. hosted # Other /\ e.pick # 0 => \A r \in Sessions : result[r] = e.pick => r = e.session
  BY <1>1 DEF SentToOne
<1>7. e.pick <= Len(picks)
  BY <1>1 DEF EnvelopeGood
<1>8. ResultsInv' /\ OkIsStored' /\ StoredOnce'
  BY <1>0, <1>6, <1>7, ResultsStay
<1> QED BY <1>0, <1>2, <1>5, <1>8

Acks == {"none", "ok", "terminal", "invalid", "notFound", "noHost"}

\* The outcomes of one request of an envelope: heard and answered, heard and
\* not answered, not heard.
LEMMA HeardOrNot ==
    ASSUME IInv, NEW e \in sends, e.stage # "list", Heard(e) \/ Unheard
    PROVE  /\ ServiceStep(e.pick, e.session)
           /\ Heard(e) /\ Ack(e) = "ok" /\ e.pick # 0 => result'[e.session] = e.pick
           /\ Heard(e) /\ Ack(e) # "ok" => ~ e.valid \/ ~ Live(e.session)'
           /\ Ack(e) \in {"ok", "terminal", "invalid"}
           /\ e.stage = "host" => e.ack # "ok" /\ (e.pick # 0 => e.hit \/ ~ e.valid \/ ~ Live(e.session)')
<1>1. e \in EnvelopesOf(Created) /\ EnvelopeGood(e) /\ ServiceTyped /\ ResultsInv
  BY DEF IInv, TypeOK, WorkerTyped, SendsInv
<1>2. e.session # 0 /\ (e.type = "pick_result" <=> e.pick # 0) /\ e.session \in Created
  BY <1>1 DEF EnvelopeGood, EnvelopesOf
<1>3. ASSUME Heard(e)
      PROVE  ServiceStep(e.pick, e.session) /\ (Accepts(e) /\ e.pick # 0 => result'[e.session] = e.pick)
  BY <1>1, <1>2, <1>3, HeardStep
<1>4. ASSUME Unheard PROVE ServiceStep(e.pick, e.session)
  BY <1>1, <1>4, ServiceStill DEF Unheard
<1>5. ServiceStep(e.pick, e.session)
  BY <1>3, <1>4
<1>6. ~ Live(e.session) => ~ Live(e.session)'
  BY <1>2, <1>5 DEF ServiceStep
<1>7. Ack(e) = (IF ~ Live(e.session) THEN "terminal" ELSE IF e.valid THEN "ok" ELSE "invalid")
  BY DEF Ack
<1>8. e.stage = "host" => e.ack # "ok" /\ (e.pick # 0 => e.hit \/ ~ e.valid \/ ~ Live(e.session))
  BY <1>1 DEF EnvelopeGood
<1>9. Accepts(e) <=> Ack(e) = "ok"
  BY <1>7 DEF Accepts
<1> QED BY <1>3, <1>5, <1>6, <1>7, <1>8, <1>9

\* An envelope that goes on with nothing else changed keeps the invariant.
LEMMA OnlySends ==
    ASSUME IInv, NEW e \in sends, ServiceStep(e.pick, e.session),
           UNCHANGED <<designerVars, tabs, mode, picks, maps, poll, arming>>,
           hosted' \in {"unknown", Home, Other, NoApi},
           SendsInv' /\ ResultsInv' /\ OkIsStored' /\ StoredOnce' /\ sends' \in SUBSET EnvelopesOf(Created')
    PROVE  IInv'
<1>1. DesignerTyped' /\ DesignerInv'
  BY DesignerStill DEF IInv, TypeOK
<1>2. ServiceTyped'
  BY DEF ServiceStep
<1>3. /\ tabs' = tabs /\ picks' = picks /\ poll' = poll /\ arming' = arming
      /\ mode' = mode /\ byId' = byId /\ byTab' = byTab /\ completed' = completed
  BY DEF maps
<1>4. Maps' = Maps
  BY <1>3 DEF Maps
<1>5. /\ Maps \in MapsOf(Created') /\ poll \in PollsOf(Created') /\ arming \in SUBSET ArmingOf(Created')
  BY StillTyped DEF IInv, TypeOK
<1>6. WorkerTyped'
  BY <1>3, <1>4, <1>5 DEF WorkerTyped, IInv, TypeOK
<1> QED BY <1>1, <1>2, <1>6 DEF IInv, TypeOK

\* One request and what the answer does to the envelope.
LEMMA HttpMoves ==
    ASSUME IInv, NEW e \in sends, e.stage \in {"http", "again"}, Heard(e) \/ Unheard,
           NEW ack \in Acks, AfterHttp(e, ack), picks' = picks, hosted' = hosted,
           \/ Heard(e) /\ ack = Ack(e)
           \/ ack \in {"none", "notFound"}
    PROVE  SendsInv' /\ ResultsInv' /\ OkIsStored' /\ StoredOnce' /\ sends' \in SUBSET EnvelopesOf(Created')
<1> DEFINE stage == IF ack = "ok" THEN "done" ELSE IF ack = "notFound" THEN "rebind" ELSE "host"
<1>1. MovesTo(e, stage, ack) /\ stage \in {"again", "rebind", "host", "done"}
  BY DEF AfterHttp
<1>2. /\ ServiceStep(e.pick, e.session)
      /\ Heard(e) /\ Ack(e) = "ok" /\ e.pick # 0 => result'[e.session] = e.pick
      /\ Heard(e) /\ Ack(e) # "ok" => ~ e.valid \/ ~ Live(e.session)'
      /\ Ack(e) \in {"ok", "terminal", "invalid"}
  BY HeardOrNot
<1>3. /\ stage = "host" => ack \notin {"ok", "notFound"}
      /\ stage = "done" => ack = "ok"
      /\ ack = "ok" => stage = "done"
  OBVIOUS
<1> HIDE DEF stage
<1>4. ack = "ok" /\ e.pick # 0 => result'[e.session] = e.pick
  BY <1>2
<1>5. e.pick # 0 /\ stage \in {"host", "done"} /\ ack # "ok" => e.hit \/ ack = "none" \/ ~ e.valid \/ ~ Live(e.session)'
  BY <1>2, <1>3
<1>6. hosted' # Other /\ stage = "done" => ack # "notFound"
  BY <1>3
<1> QED BY <1>1, <1>2, <1>3, <1>4, <1>5, <1>6, SendMoves DEF IInv, Acks

LEMMA SendHttpKeeps ==
    ASSUME IInv, NEW e \in sends, SendHttp(e)
    PROVE  IInv'
<1>1. e.stage = "http" /\ picks' = picks /\ hosted' = hosted
      /\ UNCHANGED <<designerVars, tabs, mode, picks, maps, poll, arming>>
  BY DEF SendHttp
<1>2. \/ Heard(e) /\ AfterHttp(e, Ack(e))
      \/ Unheard /\ AfterHttp(e, "notFound")
      \/ (Heard(e) \/ Unheard) /\ MovesTo(e, "again", "none")
  BY DEF SendHttp, SendTo
<1>3. Heard(e) \/ Unheard
  BY <1>2
<1>4. ServiceStep(e.pick, e.session) /\ Ack(e) \in Acks
  BY <1>1, <1>3, HeardOrNot DEF Acks
<1>5. SendsInv' /\ ResultsInv' /\ OkIsStored' /\ StoredOnce' /\ sends' \in SUBSET EnvelopesOf(Created')
  <2>1. CASE Heard(e) /\ AfterHttp(e, Ack(e))
    BY <1>1, <1>4, <2>1, HttpMoves
  <2>2. CASE Unheard /\ AfterHttp(e, "notFound")
    BY <1>1, <2>2, HttpMoves DEF Acks
  <2>3. CASE (Heard(e) \/ Unheard) /\ MovesTo(e, "again", "none")
    BY <1>1, <1>4, <2>3, SendMoves DEF IInv
  <2> QED BY <1>2, <2>1, <2>2, <2>3
<1>6. hosted \in {"unknown", Home, Other, NoApi}
  BY DEF IInv, TypeOK, WorkerTyped
<1> QED BY <1>1, <1>4, <1>5, <1>6, OnlySends

LEMMA SendHttpAgainKeeps ==
    ASSUME IInv, NEW e \in sends, SendHttpAgain(e)
    PROVE  IInv'
<1>1. e.stage = "again" /\ picks' = picks /\ hosted' = hosted
      /\ UNCHANGED <<designerVars, tabs, mode, picks, maps, poll, arming>>
  BY DEF SendHttpAgain
<1>2. \/ Heard(e) /\ AfterHttp(e, Ack(e))
      \/ Unheard /\ AfterHttp(e, "notFound")
      \/ Unheard /\ AfterHttp(e, "none")
  BY DEF SendHttpAgain, SendTo
<1>3. Heard(e) \/ Unheard
  BY <1>2
<1>4. ServiceStep(e.pick, e.session) /\ Ack(e) \in Acks
  BY <1>1, <1>3, HeardOrNot DEF Acks
<1>5. SendsInv' /\ ResultsInv' /\ OkIsStored' /\ StoredOnce' /\ sends' \in SUBSET EnvelopesOf(Created')
  BY <1>1, <1>2, <1>4, HttpMoves DEF Acks
<1>6. hosted \in {"unknown", Home, Other, NoApi}
  BY DEF IInv, TypeOK, WorkerTyped
<1> QED BY <1>1, <1>4, <1>5, <1>6, OnlySends

LEMMA RebindKeeps ==
    ASSUME IInv, NEW e \in sends, Rebind(e)
    PROVE  IInv'
<1>1. e.stage = "rebind" /\ picks' = picks /\ hosted' = hosted
      /\ UNCHANGED <<designerVars, tabs, mode, picks, maps, poll, arming>>
  BY DEF Rebind
<1>2. \/ Heard(e) /\ MovesTo(e, "done", Ack(e))
      \/ (Heard(e) \/ Unheard) /\ MovesTo(e, "host", "none")
  BY DEF Rebind, SendTo, Home, Other
<1>3. Heard(e) \/ Unheard
  BY <1>2
<1>4. /\ ServiceStep(e.pick, e.session)
      /\ Heard(e) /\ Ack(e) = "ok" /\ e.pick # 0 => result'[e.session] = e.pick
      /\ Heard(e) /\ Ack(e) # "ok" => ~ e.valid \/ ~ Live(e.session)'
      /\ Ack(e) \in {"ok", "terminal", "invalid"}
  BY <1>1, <1>3, HeardOrNot
<1>5. SendsInv' /\ ResultsInv' /\ OkIsStored' /\ StoredOnce' /\ sends' \in SUBSET EnvelopesOf(Created')
  <2>1. CASE Heard(e) /\ MovesTo(e, "done", Ack(e))
    BY <1>1, <1>4, <2>1, SendMoves DEF IInv
  <2>2. CASE MovesTo(e, "host", "none")
    BY <1>1, <1>4, <2>2, SendMoves DEF IInv
  <2> QED BY <1>2, <2>1, <2>2
<1>6. hosted \in {"unknown", Home, Other, NoApi}
  BY DEF IInv, TypeOK, WorkerTyped
<1> QED BY <1>1, <1>4, <1>5, <1>6, OnlySends

LEMMA SendHostKeeps ==
    ASSUME IInv, NEW e \in sends, SendHost(e)
    PROVE  IInv'
<1>1. e.stage = "host" /\ picks' = picks
      /\ UNCHANGED <<designerVars, tabs, mode, picks, maps, poll, arming>>
  BY DEF SendHost
<1>2. \/ hosted' = Home /\ Heard(e) /\ MovesTo(e, "done", Ack(e))
      \/ hosted' = Home /\ Heard(e) /\ MovesTo(e, "done", "none")
      \/ hosted' = Other /\ Unheard /\ MovesTo(e, "done", "notFound")
      \/ hosted' = NoApi /\ Unheard /\ MovesTo(e, "done", "noHost")
  BY DEF SendHost
<1>3. Heard(e) \/ Unheard
  BY <1>2
<1>4. /\ ServiceStep(e.pick, e.session)
      /\ Heard(e) /\ Ack(e) = "ok" /\ e.pick # 0 => result'[e.session] = e.pick
      /\ Heard(e) /\ Ack(e) # "ok" => ~ e.valid \/ ~ Live(e.session)'
      /\ Ack(e) \in {"ok", "terminal", "invalid"}
      /\ e.pick # 0 => e.hit \/ ~ e.valid \/ ~ Live(e.session)'
  BY <1>1, <1>3, HeardOrNot
<1>5. hosted' # Other => hosted # Other
  <2>1. hosted' \in (IF hosted = "unknown" THEN {Home, Other, NoApi} ELSE {hosted})
    BY DEF SendHost
  <2> QED BY <2>1 DEF Other
<1>6. SendsInv' /\ ResultsInv' /\ OkIsStored' /\ StoredOnce' /\ sends' \in SUBSET EnvelopesOf(Created')
  <2>1. CASE Heard(e) /\ MovesTo(e, "done", Ack(e))
    BY <1>1, <1>4, <1>5, <2>1, SendMoves DEF IInv
  <2>2. CASE MovesTo(e, "done", "none")
    BY <1>1, <1>4, <1>5, <2>2, SendMoves DEF IInv
  <2>3. CASE hosted' = Other /\ MovesTo(e, "done", "notFound")
    BY <1>1, <1>4, <1>5, <2>3, SendMoves DEF IInv
  <2>4. CASE MovesTo(e, "done", "noHost")
    BY <1>1, <1>4, <1>5, <2>4, SendMoves DEF IInv
  <2> QED BY <1>2, <2>1, <2>2, <2>3, <2>4
<1>7. hosted' \in {"unknown", Home, Other, NoApi}
  BY <1>2
<1> QED BY <1>1, <1>4, <1>6, <1>7, OnlySends

-----------------------------------------------------------------------------
(* Steps of the worker and of the pages, which leave the service alone.        *)

LEMMA Quiet ==
    ASSUME IInv, UNCHANGED service, UNCHANGED designerVars, hosted' = hosted,
           Len(picks') \in Nat, Len(picks) <= Len(picks')
    PROVE  /\ Created' = Created
           /\ ServiceTyped' /\ DesignerTyped' /\ DesignerInv' /\ ResultsInv' /\ StoredOnce'
           /\ picks' = picks => OkIsStored'
           /\ \A x \in sends : EnvelopeGood(x)' /\ SentToOne(x)'
<1>0. ServiceStep(0, 0)
  BY ServiceStill DEF IInv, TypeOK
<1>1. Created' = Created
  BY DEF Created, service
<1>2. DesignerTyped' /\ DesignerInv'
  BY <1>0, DesignerStill DEF IInv, TypeOK
<1>3. Len(picks) \in Nat
  BY DEF IInv, TypeOK, WorkerTyped
<1>4. ResultsInv' /\ StoredOnce' /\ (picks' = picks => OkIsStored')
  BY <1>0, <1>3, ResultsStay DEF IInv
<1>5. \A x \in sends : EnvelopeGood(x)' /\ SentToOne(x)'
  BY <1>0, OthersStayGood DEF IInv
<1> QED BY <1>0, <1>1, <1>2, <1>4, <1>5 DEF ServiceStep

\* Envelopes stay or go, and one is new.
LEMMA SendsAdded ==
    ASSUME SendsInv, \A y \in sends : EnvelopeGood(y)' /\ SentToOne(y)',
           NEW x, EnvelopeGood(x)' /\ SentToOne(x)',
           sends' \subseteq sends \union {x},
           x.pick # 0 => \A y \in sends' \ {x} : y.pick # x.pick
    PROVE  SendsInv'
<1>1. \A y \in sends' : EnvelopeGood(y)' /\ SentToOne(y)'
  OBVIOUS
<1>2. \A y, z \in sends' : y.pick # 0 /\ y.pick = z.pick => y = z
  BY DEF SendsInv
<1> QED BY <1>1, <1>2 DEF SendsInv

LEMMA SendsGone ==
    ASSUME SendsInv, \A y \in sends : EnvelopeGood(y)' /\ SentToOne(y)', sends' \subseteq sends
    PROVE  SendsInv'
BY DEF SendsInv

LEMMA EnvelopeIn ==
    ASSUME NEW C, NEW type \in {"session_ready", "pick_result", "error", "cancel"}, NEW s \in C \union {0},
           NEW t \in Tabs \union {NoTab}, NEW pick \in Nat,
           NEW then \in {"nothing", "answer", "lastAnswer", "clear", "attach"}
    PROVE  /\ Envelope(type, s, t, pick, then) \in EnvelopesOf(C)
           /\ Envelope(type, s, t, pick, then) =
                 [type |-> type, session |-> s, tab |-> t, pick |-> pick, then |-> then,
                  stage |-> "http", ack |-> "none", valid |-> TRUE, hit |-> FALSE]
BY DEF Envelope, EnvelopesOf

\* A message about a session that carries no pick.
LEMMA PlainEnvelope ==
    ASSUME NEW C, NEW type \in {"session_ready", "error", "cancel"}, NEW s \in C, s # 0,
           NEW t \in Tabs \union {NoTab}, NEW then \in {"nothing", "clear", "attach"},
           t = NoTab => then = "attach", Len(picks') \in Nat,
           NEW x, x = Envelope(type, s, t, 0, then)
    PROVE  x \in EnvelopesOf(C) /\ x.pick = 0 /\ x.type = type /\ x.session = s /\ EnvelopeGood(x)' /\ SentToOne(x)'
<1>1. x \in EnvelopesOf(C)
  BY EnvelopeIn
<1>2. x = [type |-> type, session |-> s, tab |-> t, pick |-> 0, then |-> then,
           stage |-> "http", ack |-> "none", valid |-> TRUE, hit |-> FALSE]
  BY DEF Envelope
<1>3. EnvelopeGood(x)'
  BY <1>2 DEF EnvelopeGood
<1>4. SentToOne(x)'
  BY <1>2 DEF SentToOne
<1> QED BY <1>1, <1>2, <1>3, <1>4

LEMMA PicksTyped ==
    ASSUME IInv
    PROVE  /\ Len(picks) \in Nat /\ DOMAIN picks = 1..Len(picks)
           /\ \A p \in 1..Len(picks) : picks[p] \in [tab : Tabs, mode : Sessions \union {Extension}, told : {"nothing", "ok", "no"}]
<1> DEFINE P == [tab : Tabs, mode : Sessions \union {Extension}, told : {"nothing", "ok", "no"}]
<1>1. picks \in Seq(P)
  BY DEF IInv, TypeOK, WorkerTyped
<1> HIDE DEF P
<1>2. Len(picks) \in Nat /\ DOMAIN picks = 1..Len(picks) /\ \A p \in 1..Len(picks) : picks[p] \in P
  BY <1>1
<1> QED BY <1>2 DEF P

\* The page learns what became of its pick; that it was taken, only when it is
\* a result.
LEMMA ToldFine ==
    ASSUME IInv, NEW p \in 0..Len(picks), NEW answer \in {"ok", "no"}, Told(p, answer), result' = result,
           answer = "ok" /\ p # 0 => \E s \in Sessions : result[s] = p
    PROVE  /\ Len(picks') = Len(picks)
           /\ picks' \in Seq([tab : Tabs, mode : Sessions \union {Extension}, told : {"nothing", "ok", "no"}])
           /\ OkIsStored'
<1> DEFINE P == [tab : Tabs, mode : Sessions \union {Extension}, told : {"nothing", "ok", "no"}]
<1>0. Len(picks) \in Nat /\ DOMAIN picks = 1..Len(picks) /\ picks \in Seq(P) /\ \A q \in 1..Len(picks) : picks[q] \in P
  BY PicksTyped DEF IInv, TypeOK, WorkerTyped
<1>1. CASE p = 0
  BY <1>0, <1>1 DEF Told, IInv, OkIsStored
<1>2. CASE p # 0
  <2> DEFINE x == [picks[p] EXCEPT !.told = answer]
  <2>1. p \in 1..Len(picks)
    BY <1>0, <1>2
  <2>2. x \in P /\ x.told = answer
    BY <1>0, <2>1
  <2>3. picks' = [picks EXCEPT ![p] = x]
    BY <1>2 DEF Told
  <2> HIDE DEF x, P
  <2>4. picks' \in Seq(P) /\ Len(picks') = Len(picks) /\ DOMAIN picks' = DOMAIN picks
    BY <1>0, <2>1, <2>2, <2>3
  <2>5. \A q \in DOMAIN picks : picks'[q] = IF q = p THEN x ELSE picks[q]
    BY <1>0, <2>3
  <2>6. OkIsStored'
    <3> SUFFICES ASSUME NEW q \in DOMAIN picks, picks'[q].told = "ok"
                 PROVE  \E s \in Sessions : result[s] = q
      BY <2>4 DEF OkIsStored
    <3>1. CASE q = p
      BY <1>2, <2>2, <2>5, <3>1
    <3>2. CASE q # p
      BY <2>5, <3>2 DEF IInv, OkIsStored
    <3> QED BY <3>1, <3>2
  <2> QED BY <2>4, <2>6 DEF P
<1> QED BY <1>1, <1>2

LEMMA NextIn ==
    ASSUME NEW C, NEW S \in SUBSET C
    PROVE  NextCandidate(S) \in PollsOf(C) /\ NextCandidate(S).phase # "tab"
BY DEF NextCandidate, IdlePoll, PollsOf

\* The parts of the invariant that a step of the worker disturbs.
LEMMA WorkerKeeps ==
    ASSUME IInv, UNCHANGED service, UNCHANGED designerVars, hosted' = hosted,
           tabs' \in [Tabs -> {"open", "loading", "closed"}], Maps' \in MapsOf(Created),
           poll' \in PollsOf(Created), poll'.phase = "tab" => poll'.session # 0 /\ poll'.tab # NoTab,
           arming' \in SUBSET ArmingOf(Created), sends' \in SUBSET EnvelopesOf(Created),
           picks' \in Seq([tab : Tabs, mode : Sessions \union {Extension}, told : {"nothing", "ok", "no"}]),
           Len(picks) <= Len(picks'), SendsInv', OkIsStored'
    PROVE  IInv'
<1>1. Len(picks') \in Nat
  OBVIOUS
<1>2. Created' = Created /\ ServiceTyped' /\ DesignerTyped' /\ DesignerInv' /\ ResultsInv' /\ StoredOnce'
  BY <1>1, Quiet
<1>3. hosted \in {"unknown", Home, Other, NoApi}
  BY DEF IInv, TypeOK, WorkerTyped
<1>4. WorkerTyped'
  BY <1>2, <1>3 DEF WorkerTyped
<1> QED BY <1>2, <1>4 DEF IInv, TypeOK

LEMMA ListReturnsKeeps ==
    ASSUME IInv, NEW e \in sends, NEW a, ListReturns(e, a)
    PROVE  IInv'
<1> DEFINE listed == ListedLive(a) \ completed
           s == ResolveByList(e.tab, listed)
<1>1. /\ e.stage = "list" /\ UNCHANGED <<service, designerVars, tabs, poll, arming, hosted>>
      /\ UNCHANGED service /\ UNCHANGED designerVars /\ hosted' = hosted /\ tabs' = tabs
      /\ poll' = poll /\ arming' = arming /\ result' = result
  BY DEF ListReturns, service
<1>2. e \in EnvelopesOf(Created) /\ EnvelopeGood(e) /\ SentToOne(e) /\ Maps \in MapsOf(Created)
      /\ Created \subseteq Sessions
  BY DEF IInv, TypeOK, WorkerTyped, SendsInv, Created
<1>3. listed \subseteq Created
  BY DEF ListedLive, Live, Created
<1>4. s \in Created \union {0}
  BY <1>2, <1>3, ListedIn
<1>5. e.pick \in 0..Len(picks) /\ e.tab \in Tabs \union {NoTab} /\ Len(picks) \in Nat
  BY <1>2, PicksTyped DEF EnvelopeGood, EnvelopesOf
<1>6. \/ s = 0 /\ sends' = sends \ {e} /\ Told(e.pick, "no") /\ UNCHANGED <<maps, mode>>
      \/ s # 0 /\ Become(Bound(e.tab, s, Maps)) /\ UNCHANGED picks
           /\ sends' = (sends \ {e}) \union {[e EXCEPT !.session = s, !.stage = "http"]}
  BY DEF ListReturns
<1> HIDE DEF s
<1>7. Maps' \in MapsOf(Created) /\ Len(picks') = Len(picks) /\ OkIsStored'
      /\ picks' \in Seq([tab : Tabs, mode : Sessions \union {Extension}, told : {"nothing", "ok", "no"}])
  <2>1. CASE Told(e.pick, "no") /\ UNCHANGED <<maps, mode>>
    <3>1. Maps' = Maps
      BY <2>1 DEF Maps, maps
    <3> QED BY <1>1, <1>2, <1>5, <2>1, <3>1, ToldFine
  <2>2. CASE s # 0 /\ Become(Bound(e.tab, s, Maps)) /\ UNCHANGED picks
    <3>1. Bound(e.tab, s, Maps) \in MapsOf(Created)
      BY <1>2, <1>4, <1>5, <2>2, BoundIn
    <3>2. Maps' \in MapsOf(Created)
      BY <1>2, <2>2, <3>1, BecomeIn
    <3>3. Len(picks') \in Nat /\ Len(picks) <= Len(picks')
      BY <1>5, <2>2
    <3>4. OkIsStored'
      BY <1>1, <2>2, <3>3, Quiet
    <3> QED BY <2>2, <3>2, <3>4 DEF IInv, TypeOK, WorkerTyped
  <2> QED BY <1>6, <2>1, <2>2
<1>8. Len(picks') \in Nat /\ Len(picks) <= Len(picks')
  BY <1>5, <1>7
<1>9. \A y \in sends : EnvelopeGood(y)' /\ SentToOne(y)'
  BY <1>1, <1>8, Quiet
<1>10. SendsInv' /\ sends' \in SUBSET EnvelopesOf(Created)
  <2>1. CASE sends' = sends \ {e}
    BY <1>9, <2>1, SendsGone DEF IInv, TypeOK, WorkerTyped
  <2>2. CASE s # 0 /\ sends' = (sends \ {e}) \union {[e EXCEPT !.session = s, !.stage = "http"]}
    <3>0. PICK x \in EnvelopesOf(Created) : x = [e EXCEPT !.session = s, !.stage = "http"]
      BY <1>2, <1>4 DEF EnvelopesOf
    <3>1. /\ x.session = s /\ x.stage = "http" /\ x.pick = e.pick /\ x.type = e.type
          /\ x.then = e.then /\ x.ack = e.ack /\ x.tab = e.tab /\ x.hit = e.hit
      BY <1>2, <3>0 DEF EnvelopesOf
    <3>2. sends' \subseteq sends \union {x} /\ \A y \in sends' \ {x} : y \in sends /\ y # e
      BY <2>2, <3>0
    <3>3. EnvelopeGood(x)'
      BY <1>1, <1>2, <1>7, <2>2, <3>1 DEF EnvelopeGood
    <3>4. SentToOne(x)'
      BY <1>1, <1>2, <3>1 DEF SentToOne
    <3>5. x.pick # 0 => \A y \in sends' \ {x} : y.pick # x.pick
      BY <3>1, <3>2 DEF IInv, SendsInv
    <3>6. SendsInv'
      BY <1>9, <3>2, <3>3, <3>4, <3>5, SendsAdded DEF IInv
    <3> QED BY <3>1, <3>2, <3>6 DEF IInv, TypeOK, WorkerTyped
  <2> QED BY <1>6, <2>1, <2>2
<1> QED BY <1>1, <1>7, <1>8, <1>10, WorkerKeeps DEF IInv, TypeOK, WorkerTyped

LEMMA PickAnsweredKeeps ==
    ASSUME IInv, NEW e \in sends, PickAnswered(e)
    PROVE  IInv'
<1> DEFINE dropped == [Maps EXCEPT !.byTab[e.tab] = 0, !.byId[e.session] = NoTab]
           retry == [Envelope("pick_result", 0, e.tab, e.pick, "lastAnswer") EXCEPT !.valid = e.valid]
<1>1. /\ e.stage = "done" /\ e.then \in {"answer", "lastAnswer"}
      /\ UNCHANGED service /\ UNCHANGED designerVars /\ hosted' = hosted /\ tabs' = tabs
      /\ poll' = poll /\ arming' = arming /\ result' = result
  BY DEF PickAnswered, service
<1>2. e \in EnvelopesOf(Created) /\ EnvelopeGood(e) /\ SentToOne(e) /\ Maps \in MapsOf(Created)
      /\ Created \subseteq Sessions
  BY DEF IInv, TypeOK, WorkerTyped, SendsInv, Created
<1>3. e.pick \in 1..Len(picks) /\ e.pick \in 0..Len(picks) /\ e.pick \in Nat /\ e.tab \in Tabs /\ Len(picks) \in Nat /\ e.session \in Created
  BY <1>1, <1>2, PicksTyped DEF EnvelopeGood, EnvelopesOf
<1>4. CASE e.ack = "ok"
  <2>1. Become(AfterTold(Cleared(e.session, Maps), e.tab, "ok")) /\ Told(e.pick, "ok") /\ sends' = sends \ {e}
    BY <1>4 DEF PickAnswered
  <2>2. Maps' \in MapsOf(Created)
    BY <1>2, <1>3, <2>1, ClearedIn, AfterToldIn, BecomeIn
  <2>3. \E s \in Sessions : result[s] = e.pick
    BY <1>2, <1>3, <1>4 DEF EnvelopeGood
  <2>4. Len(picks') = Len(picks) /\ OkIsStored'
        /\ picks' \in Seq([tab : Tabs, mode : Sessions \union {Extension}, told : {"nothing", "ok", "no"}])
    BY <1>1, <1>3, <2>1, <2>3, ToldFine
  <2>5. \A y \in sends : EnvelopeGood(y)' /\ SentToOne(y)'
    BY <1>1, <1>3, <2>4, Quiet
  <2>6. SendsInv'
    BY <2>1, <2>5, SendsGone DEF IInv
  <2> QED BY <1>1, <1>3, <2>1, <2>2, <2>4, <2>6, WorkerKeeps DEF IInv, TypeOK, WorkerTyped
<1>5. CASE e.ack = "notFound" /\ e.then = "answer"
  <2>1. Dispatch(retry, e.tab, dropped, sends \ {e}) /\ picks' = picks
    BY <1>5 DEF PickAnswered, IsSessionNotFoundAck
  <2>2. dropped \in MapsOf(Created)
    BY <1>2, DroppedIn
  <2>3. retry \in EnvelopesOf(Created)
        /\ retry = [type |-> "pick_result", session |-> 0, tab |-> e.tab, pick |-> e.pick, then |-> "lastAnswer",
                    stage |-> "http", ack |-> "none", valid |-> e.valid, hit |-> FALSE]
    <3>1. e.tab \in Tabs \union {NoTab} /\ 0 \in Created \union {0} /\ e.valid \in BOOLEAN
      BY <1>2, <1>3 DEF EnvelopesOf
    <3>2. retry = [Envelope("pick_result", 0, e.tab, e.pick, "lastAnswer") EXCEPT !.valid = e.valid]
      OBVIOUS
    <3> HIDE DEF retry
    <3> QED BY <1>3, <3>1, <3>2 DEF Envelope, EnvelopesOf
  <2> HIDE DEF dropped, retry
  <2>4. retry.stage = "http"
    BY <2>3
  <2>5. Maps' \in MapsOf(Created)
        /\ \E x \in EnvelopesOf(Created) :
             /\ sends' = (sends \ {e}) \union {x}
             /\ x.type = retry.type /\ x.tab = retry.tab /\ x.pick = retry.pick /\ x.then = retry.then
             /\ x.ack = retry.ack /\ x.hit = retry.hit
             /\ x.stage \in {"http", "list"} /\ (x.stage # "list" => x.session # 0)
    <3>1. Dispatch(retry, e.tab, dropped, sends \ {e})
      BY <2>1
    <3>2. e.tab \in Tabs /\ Created \subseteq Sessions /\ retry \in EnvelopesOf(Created)
      BY <1>2, <1>3, <2>3
    <3> QED BY <2>2, <2>4, <3>1, <3>2, Dispatched
  <2>6. PICK x \in EnvelopesOf(Created) :
             /\ sends' = (sends \ {e}) \union {x}
             /\ x.type = retry.type /\ x.tab = retry.tab /\ x.pick = retry.pick /\ x.then = retry.then
             /\ x.ack = retry.ack /\ x.hit = retry.hit
             /\ x.stage \in {"http", "list"} /\ (x.stage # "list" => x.session # 0)
    BY <2>5
  <2>7. x.type = "pick_result" /\ x.tab = e.tab /\ x.pick = e.pick /\ x.then = "lastAnswer" /\ x.ack = "none"
    BY <2>3, <2>6
  <2>8. hosted = Other
    BY <1>1, <1>2, <1>5 DEF SentToOne
  <2>9. EnvelopeGood(x)'
    BY <1>3, <2>1, <2>6, <2>7, TabsAssumption DEF EnvelopeGood
  <2>10. SentToOne(x)'
    BY <1>1, <2>8 DEF SentToOne
  <2>11. \A y \in sends : EnvelopeGood(y)' /\ SentToOne(y)'
    BY <1>1, <1>3, <2>1, Quiet
  <2>12. x.pick # 0 => \A y \in sends' \ {x} : y.pick # x.pick
    BY <2>6, <2>7 DEF IInv, SendsInv
  <2>13. SendsInv'
    BY <2>6, <2>9, <2>10, <2>11, <2>12, SendsAdded DEF IInv
  <2>14. OkIsStored'
    BY <1>1, <1>3, <2>1, Quiet
  <2>15. sends' \in SUBSET EnvelopesOf(Created)
    BY <2>6 DEF IInv, TypeOK, WorkerTyped
  <2> QED BY <1>1, <1>3, <2>1, <2>5, <2>13, <2>14, <2>15, WorkerKeeps DEF IInv, TypeOK, WorkerTyped
<1>6. CASE e.ack # "ok" /\ ~ (e.ack = "notFound" /\ e.then = "answer")
  <2>1. Told(e.pick, "no") /\ sends' = sends \ {e} /\ UNCHANGED <<maps, mode>>
    BY <1>6 DEF PickAnswered, IsSessionNotFoundAck
  <2>2. Maps' = Maps
    BY <2>1 DEF Maps, maps
  <2>4. Len(picks') = Len(picks) /\ OkIsStored'
        /\ picks' \in Seq([tab : Tabs, mode : Sessions \union {Extension}, told : {"nothing", "ok", "no"}])
    BY <1>1, <1>3, <2>1, ToldFine
  <2>5. \A y \in sends : EnvelopeGood(y)' /\ SentToOne(y)'
    BY <1>1, <1>3, <2>4, Quiet
  <2>6. SendsInv'
    BY <2>1, <2>5, SendsGone DEF IInv
  <2> QED BY <1>1, <1>2, <1>3, <2>1, <2>2, <2>4, <2>6, WorkerKeeps DEF IInv, TypeOK, WorkerTyped
<1> QED BY <1>4, <1>5, <1>6

LEMMA SendEndsKeeps ==
    ASSUME IInv, NEW e \in sends, SendEnds(e)
    PROVE  IInv'
<1>1. /\ e.stage = "done" /\ sends' = sends \ {e} /\ Become(Cleared(e.session, Maps))
      /\ poll' = (IF e.then = "attach" THEN NextCandidate(poll.live) ELSE poll)
      /\ UNCHANGED service /\ UNCHANGED designerVars /\ hosted' = hosted /\ tabs' = tabs
      /\ picks' = picks /\ arming' = arming
  BY DEF SendEnds
<1>2. e \in EnvelopesOf(Created) /\ EnvelopeGood(e) /\ Maps \in MapsOf(Created) /\ Created \subseteq Sessions
      /\ poll \in PollsOf(Created)
  BY DEF IInv, TypeOK, WorkerTyped, SendsInv, Created
<1>3. e.session \in Sessions
  BY <1>1, <1>2 DEF EnvelopeGood, EnvelopesOf
<1>4. Maps' \in MapsOf(Created)
  BY <1>1, <1>2, <1>3, ClearedIn, BecomeIn
<1>5. poll.live \in SUBSET Created
  BY <1>2 DEF PollsOf
<1>6. poll' \in PollsOf(Created) /\ (poll'.phase = "tab" => poll'.session # 0 /\ poll'.tab # NoTab)
  <2>1. CASE e.then = "attach"
    BY <1>1, <1>5, <2>1, NextIn
  <2>2. CASE e.then # "attach"
    BY <1>1, <2>2 DEF IInv, TypeOK, WorkerTyped
  <2> QED BY <2>1, <2>2
<1>7. Len(picks) \in Nat /\ Len(picks') \in Nat /\ Len(picks) <= Len(picks')
  BY <1>1, PicksTyped
<1>8. OkIsStored' /\ \A y \in sends : EnvelopeGood(y)' /\ SentToOne(y)'
  BY <1>1, <1>7, Quiet
<1>9. SendsInv'
  BY <1>1, <1>8, SendsGone DEF IInv
<1> QED BY <1>1, <1>4, <1>6, <1>7, <1>8, <1>9, WorkerKeeps DEF IInv, TypeOK, WorkerTyped

LEMMA PollKeeps ==
    ASSUME IInv, NEW a, PollNativePickerSessions(a)
    PROVE  IInv'
<1> DEFINE over == Active \ ListedLive(a)
           bi == [s \in Sessions |-> IF s \in over THEN NoTab ELSE byId[s]]
           bt == [t \in Tabs |-> IF \E s \in over : byId[s] = t THEN 0 ELSE byTab[t]]
           co == completed \union over
           mo == [t \in Tabs |-> IF \E s \in over : byId[s] = t THEN 0 ELSE mode[t]]
           live == ListedLive(a) \ co
<1>1. /\ byId' = bi /\ byTab' = bt /\ completed' = co /\ mode' = mo
      /\ poll' = NextCandidate(live)
      /\ UNCHANGED service /\ UNCHANGED designerVars /\ hosted' = hosted /\ tabs' = tabs
      /\ picks' = picks /\ arming' = arming /\ sends' = sends
  BY DEF PollNativePickerSessions, Become
<1>2. /\ byId \in [Sessions -> Tabs \union {NoTab}] /\ byTab \in [Tabs -> Created \union {0}]
      /\ completed \in SUBSET Sessions /\ mode \in [Tabs -> Created \union {0, Extension}]
      /\ \A s \in Sessions : byId[s] # NoTab => s \in Created
  <2>1. Maps \in MapsOf(Created) /\ Created \subseteq Sessions
    BY DEF IInv, TypeOK, WorkerTyped, Created
  <2> QED BY <2>1, MapsFields DEF Maps
<1>3. over \subseteq Sessions
  BY DEF Active
<1>4. live \in SUBSET Created
  BY DEF ListedLive, Live, Created
<1> HIDE DEF over
<1>5. bi \in [Sessions -> Tabs \union {NoTab}] /\ \A s \in Sessions : bi[s] # NoTab => s \in Created
  BY <1>2
<1>6. bt \in [Tabs -> Created \union {0}]
  BY <1>2
<1>7. mo \in [Tabs -> Created \union {0, Extension}]
  BY <1>2
<1>8. co \in SUBSET Sessions
  BY <1>2, <1>3
<1> HIDE DEF bi, bt, co, mo, live
<1>9. Maps' \in MapsOf(Created)
  <2>1. Maps' = [byId |-> bi, byTab |-> bt, completed |-> co, mode |-> mo]
    BY <1>1 DEF Maps
  <2> QED BY <1>5, <1>6, <1>7, <1>8, <2>1 DEF MapsOf
<1>10. poll' \in PollsOf(Created) /\ poll'.phase # "tab"
  BY <1>1, <1>4, NextIn
<1>11. Len(picks) \in Nat /\ Len(picks') \in Nat /\ Len(picks) <= Len(picks')
  BY <1>1, PicksTyped
<1>12. OkIsStored' /\ \A y \in sends : EnvelopeGood(y)' /\ SentToOne(y)'
  BY <1>1, <1>11, Quiet
<1>13. SendsInv'
  BY <1>1, <1>12, SendsGone DEF IInv
<1> QED BY <1>1, <1>9, <1>10, <1>11, <1>12, <1>13, WorkerKeeps DEF IInv, TypeOK, WorkerTyped

\* A step that adds an envelope without a pick, or none, and no pick.
LEMMA PlainSends ==
    ASSUME IInv, UNCHANGED service, UNCHANGED designerVars, hosted' = hosted, picks' = picks,
           \/ sends' = sends
           \/ \E x \in EnvelopesOf(Created) :
                 sends' = sends \union {x} /\ x.pick = 0 /\ EnvelopeGood(x)' /\ SentToOne(x)'
    PROVE  /\ SendsInv' /\ OkIsStored' /\ sends' \in SUBSET EnvelopesOf(Created)
           /\ Len(picks) <= Len(picks')
           /\ picks' \in Seq([tab : Tabs, mode : Sessions \union {Extension}, told : {"nothing", "ok", "no"}])
<1>1. Len(picks) \in Nat /\ Len(picks') \in Nat /\ Len(picks) <= Len(picks')
  BY PicksTyped
<1>2. OkIsStored' /\ \A y \in sends : EnvelopeGood(y)' /\ SentToOne(y)'
  BY <1>1, Quiet
<1>3. CASE sends' = sends
  BY <1>1, <1>2, <1>3, SendsGone DEF IInv, TypeOK, WorkerTyped
<1>4. CASE sends' # sends
  <2>1. PICK x \in EnvelopesOf(Created) :
            sends' = sends \union {x} /\ x.pick = 0 /\ EnvelopeGood(x)' /\ SentToOne(x)'
    BY <1>4
  <2>2. SendsInv'
    BY <1>2, <2>1, SendsAdded DEF IInv
  <2> QED BY <1>1, <1>2, <2>1, <2>2 DEF IInv, TypeOK, WorkerTyped
<1> QED BY <1>3, <1>4

LEMMA AttachFailsSends ==
    ASSUME IInv, NEW s \in Created, AttachFails(s), picks' = picks
    PROVE  /\ \E x \in EnvelopesOf(Created) :
                 sends' = sends \union {x} /\ x.pick = 0 /\ EnvelopeGood(x)' /\ SentToOne(x)'
           /\ poll' \in PollsOf(Created) /\ poll'.phase # "tab"
<1>1. Len(picks') \in Nat /\ s # 0
  BY PicksTyped DEF Created, Sessions
<1>2. PICK x : x = Envelope("error", s, NoTab, 0, "attach")
  OBVIOUS
<1>3. x \in EnvelopesOf(Created) /\ x.pick = 0 /\ EnvelopeGood(x)' /\ SentToOne(x)'
  BY <1>1, <1>2, PlainEnvelope
<1>4. sends' = sends \union {x}
  BY <1>2 DEF AttachFails
<1>5. poll \in PollsOf(Created)
  BY DEF IInv, TypeOK, WorkerTyped
<1>6. poll' = [poll EXCEPT !.phase = "wait", !.live = @ \ {s}]
  BY DEF AttachFails
<1>7. poll' \in PollsOf(Created) /\ poll'.phase # "tab"
  BY <1>5, <1>6 DEF PollsOf
<1> QED BY <1>3, <1>4, <1>7

LEMMA ActivateKeeps ==
    ASSUME IInv, Activate
    PROVE  IInv'
<1> DEFINE s == CHOOSE s \in poll.live : \A r \in poll.live : s >= r
           attachable == {t \in Tabs : tabs[t] # "closed"}
<1>1. /\ poll.live # {}
      /\ UNCHANGED service /\ UNCHANGED designerVars /\ hosted' = hosted /\ tabs' = tabs
      /\ picks' = picks /\ arming' = arming /\ Maps' = Maps
  BY DEF Activate, Maps, maps
<1>2. poll \in PollsOf(Created) /\ poll.live \subseteq Created /\ Created \subseteq Sessions
  BY DEF IInv, TypeOK, WorkerTyped, PollsOf, Created
<1>3. s \in Created /\ s # 0
  <2>1. s \in poll.live
    BY <1>1, <1>2, NewestIn
  <2> HIDE DEF s
  <2> QED BY <1>2, <2>1 DEF Sessions
<1>4. \/ poll' = NextCandidate(poll.live \ {s}) /\ sends' = sends
      \/ AttachFails(s)
      \/ /\ \E t \in attachable : poll' = [poll EXCEPT !.phase = "tab", !.session = s, !.tab = t]
         /\ sends' = sends
  BY DEF Activate
<1> HIDE DEF s
<1>5. /\ poll' \in PollsOf(Created) /\ (poll'.phase = "tab" => poll'.session # 0 /\ poll'.tab # NoTab)
      /\ \/ sends' = sends
         \/ \E x \in EnvelopesOf(Created) :
                 sends' = sends \union {x} /\ x.pick = 0 /\ EnvelopeGood(x)' /\ SentToOne(x)'
  <2>1. CASE poll' = NextCandidate(poll.live \ {s}) /\ sends' = sends
    BY <1>2, <2>1, NextIn
  <2>2. CASE AttachFails(s)
    BY <1>1, <1>3, <2>2, AttachFailsSends
  <2>3. CASE (\E t \in attachable : poll' = [poll EXCEPT !.phase = "tab", !.session = s, !.tab = t]) /\ sends' = sends
    <3>1. PICK t \in Tabs : poll' = [poll EXCEPT !.phase = "tab", !.session = s, !.tab = t]
      BY <2>3
    <3>2. poll' \in PollsOf(Created) /\ poll'.session = s /\ poll'.tab = t
      BY <1>2, <1>3, <3>1 DEF PollsOf
    <3> QED BY <1>3, <2>3, <3>2, TabsAssumption
  <2> QED BY <1>4, <2>1, <2>2, <2>3
<1> QED BY <1>1, <1>5, PlainSends, WorkerKeeps DEF IInv, TypeOK, WorkerTyped

LEMMA ActivatedKeeps ==
    ASSUME IInv, Activated
    PROVE  IInv'
<1> DEFINE s == poll.session
           t == poll.tab
<1>1. /\ poll.phase = "tab"
      /\ UNCHANGED service /\ UNCHANGED designerVars /\ hosted' = hosted /\ tabs' = tabs
      /\ picks' = picks
  BY DEF Activated
<1>2. poll \in PollsOf(Created) /\ poll.live \subseteq Created /\ Created \subseteq Sessions
      /\ Maps \in MapsOf(Created) /\ arming \in SUBSET ArmingOf(Created)
  BY DEF IInv, TypeOK, WorkerTyped, PollsOf, Created
<1>3. s \in Created /\ t \in Tabs
  BY <1>1, <1>2 DEF PollsOf, IInv, TypeOK, WorkerTyped
<1>4. \/ AttachFails(s) /\ UNCHANGED <<maps, mode, arming>>
      \/ /\ Become(Bound(t, s, Maps))
         /\ arming' = arming \union {[session |-> s, tab |-> t]}
         /\ poll' = NextCandidate(poll.live \ {s})
         /\ sends' = sends
  BY DEF Activated
<1> HIDE DEF s, t
<1>5. CASE AttachFails(s) /\ UNCHANGED <<maps, mode, arming>>
  <2>1. Maps' = Maps /\ arming' = arming
    BY <1>5 DEF Maps, maps
  <2>2. /\ \E x \in EnvelopesOf(Created) :
                 sends' = sends \union {x} /\ x.pick = 0 /\ EnvelopeGood(x)' /\ SentToOne(x)'
        /\ poll' \in PollsOf(Created) /\ poll'.phase # "tab"
    BY <1>1, <1>3, <1>5, AttachFailsSends
  <2> QED BY <1>1, <1>2, <2>1, <2>2, PlainSends, WorkerKeeps DEF IInv, TypeOK, WorkerTyped
<1>6. CASE /\ Become(Bound(t, s, Maps))
           /\ arming' = arming \union {[session |-> s, tab |-> t]}
           /\ poll' = NextCandidate(poll.live \ {s})
           /\ sends' = sends
  <2>1. Maps' \in MapsOf(Created)
    BY <1>2, <1>3, <1>6, BoundIn, BecomeIn
  <2>2. arming' \in SUBSET ArmingOf(Created)
    BY <1>2, <1>3, <1>6 DEF ArmingOf
  <2>3. poll' \in PollsOf(Created) /\ poll'.phase # "tab"
    BY <1>2, <1>6, NextIn
  <2> QED BY <1>1, <1>6, <2>1, <2>2, <2>3, PlainSends, WorkerKeeps DEF IInv, TypeOK, WorkerTyped
<1> QED BY <1>4, <1>5, <1>6

LEMMA ArmGivesUpKeeps ==
    ASSUME IInv, NEW a \in arming, ArmGivesUp(a)
    PROVE  IInv'
<1>1. /\ UNCHANGED service /\ UNCHANGED designerVars /\ hosted' = hosted /\ tabs' = tabs
      /\ picks' = picks /\ Maps' = Maps /\ poll' = poll /\ arming' = arming \ {a}
      /\ sends' = sends \union {Envelope("error", a.session, a.tab, 0, "clear")}
  BY DEF ArmGivesUp, Maps, maps
<1>2. a.session \in Created /\ a.tab \in Tabs /\ a.session # 0
  BY DEF IInv, TypeOK, WorkerTyped, ArmingOf, Created, Sessions
<1>3. PICK x : x = Envelope("error", a.session, a.tab, 0, "clear")
  OBVIOUS
<1>4. Len(picks') \in Nat
  BY <1>1, PicksTyped
<1>5. x \in EnvelopesOf(Created) /\ x.pick = 0 /\ EnvelopeGood(x)' /\ SentToOne(x)'
  BY <1>2, <1>3, <1>4, PlainEnvelope, TabsAssumption
<1>6. sends' = sends \union {x}
  BY <1>1, <1>3
<1> QED BY <1>1, <1>5, <1>6, PlainSends, WorkerKeeps DEF IInv, TypeOK, WorkerTyped

LEMMA ArmTabKeeps ==
    ASSUME IInv, NEW a \in arming, ArmTab(a)
    PROVE  IInv'
<1>1. /\ UNCHANGED designerVars /\ hosted' = hosted /\ tabs' = tabs
      /\ picks' = picks /\ poll' = poll /\ sends' = sends /\ arming' = arming \ {a}
      /\ byId' = byId /\ byTab' = byTab /\ completed' = completed
      /\ mode' = [mode EXCEPT ![a.tab] = a.session]
      /\ (Heard(Envelope("session_ready", a.session, a.tab, 0, "nothing")) \/ Unheard)
  BY DEF ArmTab, maps
<1>2. a.session \in Created /\ a.tab \in Tabs /\ a.session # 0 /\ Created \subseteq Sessions
      /\ Maps \in MapsOf(Created) /\ ServiceTyped /\ ResultsInv
  BY DEF IInv, TypeOK, WorkerTyped, ArmingOf, Created, Sessions
<1>3. PICK e : e = Envelope("session_ready", a.session, a.tab, 0, "nothing")
  OBVIOUS
<1>4. e \in EnvelopesOf(Created) /\ e.type = "session_ready" /\ e.pick = 0 /\ e.session = a.session
  BY <1>2, <1>3 DEF Envelope, EnvelopesOf
<1>5. ServiceStep(0, a.session)
  <2>1. CASE Heard(e)
    BY <1>2, <1>4, <2>1, HeardStep
  <2>2. CASE Unheard
    BY <1>2, <2>2, ServiceStill DEF Unheard
  <2> QED BY <1>1, <1>3, <2>1, <2>2
<1>6. /\ Maps \in MapsOf(Created') /\ poll \in PollsOf(Created') /\ arming \in SUBSET ArmingOf(Created')
      /\ sends \in SUBSET EnvelopesOf(Created') /\ Created \subseteq Created' /\ Created' \subseteq Sessions
  BY <1>5, StillTyped DEF IInv, TypeOK, ServiceStep, Created
<1>7. Maps' \in MapsOf(Created')
  <2> DEFINE mo == [mode EXCEPT ![a.tab] = a.session]
  <2>1. /\ byId \in [Sessions -> Tabs \union {NoTab}] /\ byTab \in [Tabs -> Created' \union {0}]
        /\ completed \in SUBSET Sessions /\ mode \in [Tabs -> Created' \union {0, Extension}]
        /\ \A s \in Sessions : byId[s] # NoTab => s \in Created'
    BY <1>6, MapsFields DEF Maps
  <2>2. mo \in [Tabs -> Created' \union {0, Extension}]
    BY <1>2, <1>6, <2>1
  <2>3. Maps' = [byId |-> byId, byTab |-> byTab, completed |-> completed, mode |-> mo]
    BY <1>1 DEF Maps
  <2> HIDE DEF mo
  <2> QED BY <2>1, <2>2, <2>3 DEF MapsOf
<1>8. Len(picks) \in Nat /\ Len(picks') \in Nat /\ Len(picks) <= Len(picks')
  BY <1>1, PicksTyped
<1>9. \A y \in sends : EnvelopeGood(y)' /\ SentToOne(y)'
  BY <1>1, <1>5, <1>8, OthersStayGood DEF IInv
<1>10. SendsInv'
  BY <1>1, <1>9, SendsGone DEF IInv
<1>11. ResultsInv' /\ StoredOnce' /\ OkIsStored'
  BY <1>1, <1>5, <1>8, ResultsStay DEF IInv
<1>12. DesignerTyped' /\ DesignerInv' /\ ServiceTyped'
  BY <1>1, <1>5, DesignerStill DEF IInv, TypeOK, ServiceStep
<1>13. WorkerTyped'
  BY <1>1, <1>6, <1>7 DEF WorkerTyped, IInv, TypeOK
<1> QED BY <1>10, <1>11, <1>12, <1>13 DEF IInv, TypeOK

LEMMA NamedIn ==
    ASSUME IInv, NEW t \in Tabs
    PROVE  /\ Maps \in MapsOf(Created) /\ Created \subseteq Sessions
           /\ mode \in [Tabs -> Created \union {0, Extension}] /\ Named(t) \in Created \union {0}
<1>1. Maps \in MapsOf(Created) /\ Created \subseteq Sessions
  BY DEF IInv, TypeOK, WorkerTyped, Created
<1>2. mode \in [Tabs -> Created \union {0, Extension}]
  BY <1>1, MapsFields DEF Maps
<1> QED BY <1>1, <1>2 DEF Named

LEMMA PickKeeps ==
    ASSUME IInv, NEW t \in Tabs, Pick(t)
    PROVE  IInv'
<1> DEFINE P == [tab : Tabs, mode : Sessions \union {Extension}, told : {"nothing", "ok", "no"}]
           entry == [tab |-> t, mode |-> mode[t], told |-> "nothing"]
           p == Len(picks) + 1
<1>1. /\ UNCHANGED service /\ UNCHANGED designerVars /\ hosted' = hosted /\ tabs' = tabs
      /\ poll' = poll /\ arming' = arming /\ picks' = Append(picks, entry) /\ mode[t] # 0
      /\ \E valid \in BOOLEAN :
            Dispatch([Envelope("pick_result", Named(t), t, p, "answer") EXCEPT !.valid = valid], t, Maps, sends)
      /\ result' = result
  BY DEF Pick, service
<1>2. /\ Maps \in MapsOf(Created) /\ Created \subseteq Sessions
      /\ mode \in [Tabs -> Created \union {0, Extension}] /\ Named(t) \in Created \union {0}
  BY NamedIn
<1>3. picks \in Seq(P) /\ Len(picks) \in Nat /\ entry \in P /\ entry.told = "nothing"
  BY <1>1, <1>2 DEF IInv, TypeOK, WorkerTyped
<1> HIDE DEF P, entry
<1>4. picks' \in Seq(P) /\ Len(picks') = p /\ p \in Nat /\ p > 0 /\ Len(picks) <= Len(picks') /\ Len(picks) < p
      /\ \A q \in 1..p : picks'[q] = IF q = p THEN entry ELSE picks[q]
  BY <1>1, <1>3
<1>5. PICK e : /\ \E valid \in BOOLEAN : e = [Envelope("pick_result", Named(t), t, p, "answer") EXCEPT !.valid = valid]
               /\ Dispatch(e, t, Maps, sends)
  BY <1>1
<1>6. /\ e \in EnvelopesOf(Created) /\ e.type = "pick_result" /\ e.session = Named(t) /\ e.tab = t /\ e.pick = p
      /\ e.then = "answer" /\ e.stage = "http" /\ e.ack = "none" /\ e.hit = FALSE
  BY <1>2, <1>4, <1>5 DEF Envelope, EnvelopesOf
<1> HIDE DEF p
<1>7. Dispatch(e, t, Maps, sends) /\ e.stage = "http"
  BY <1>5, <1>6
<1>8. Maps' \in MapsOf(Created) /\ \E x \in EnvelopesOf(Created) :
                /\ sends' = sends \union {x}
                /\ x.type = e.type /\ x.tab = e.tab /\ x.pick = e.pick /\ x.then = e.then
                /\ x.ack = e.ack /\ x.valid = e.valid /\ x.hit = e.hit
                /\ x.stage \in {"http", "list"} /\ (x.stage # "list" => x.session # 0)
  <2>1. Maps \in MapsOf(Created) /\ Created \subseteq Sessions
    BY <1>2
  <2>2. e \in EnvelopesOf(Created)
    BY <1>6
  <2> QED BY <1>7, <2>1, <2>2, Dispatched
<1>9. PICK x \in EnvelopesOf(Created) :
                /\ sends' = sends \union {x}
                /\ x.type = e.type /\ x.tab = e.tab /\ x.pick = e.pick /\ x.then = e.then
                /\ x.ack = e.ack /\ x.valid = e.valid /\ x.hit = e.hit
                /\ x.stage \in {"http", "list"} /\ (x.stage # "list" => x.session # 0)
  BY <1>8
<1>10. x.type = "pick_result" /\ x.tab = t /\ x.pick = p /\ x.then = "answer" /\ x.ack = "none"
  BY <1>6, <1>9
<1>11. EnvelopeGood(x)'
  BY <1>4, <1>9, <1>10, TabsAssumption DEF EnvelopeGood
<1>12. SentToOne(x)'
  <2>1. \A s \in Sessions : result'[s] # p
    <3> TAKE s \in Sessions
    <3>1. result[s] \in Nat /\ (result[s] # 0 => result[s] <= Len(picks))
      BY DEF IInv, ResultsInv, TypeOK, ServiceTyped
    <3> QED BY <1>1, <1>3, <1>4, <3>1
  <2> QED BY <1>9, <1>10, <2>1 DEF SentToOne
<1>13. Len(picks') \in Nat
  BY <1>4
<1>14. \A y \in sends : EnvelopeGood(y)' /\ SentToOne(y)'
  BY <1>1, <1>4, <1>13, Quiet
<1>15. \A y \in sends' \ {x} : y.pick # x.pick
  <2> TAKE y \in sends' \ {x}
  <2>1. y \in sends /\ y.pick \in Nat /\ y.pick <= Len(picks)
    BY <1>9 DEF IInv, SendsInv, EnvelopeGood, TypeOK, WorkerTyped, EnvelopesOf
  <2> QED BY <1>3, <1>4, <1>10, <2>1
<1>16. SendsInv' /\ sends' \in SUBSET EnvelopesOf(Created)
  BY <1>9, <1>11, <1>12, <1>14, <1>15, SendsAdded DEF IInv, TypeOK, WorkerTyped
<1>17. OkIsStored'
  <2>1. DOMAIN picks' = 1..p /\ DOMAIN picks = 1..Len(picks)
    BY <1>3, <1>4
  <2> SUFFICES ASSUME NEW q \in 1..p, picks'[q].told = "ok"
               PROVE  \E s \in Sessions : result[s] = q
    BY <1>1, <2>1 DEF OkIsStored
  <2>2. q # p
    BY <1>3, <1>4
  <2>3. q \in 1..Len(picks) /\ picks[q].told = "ok"
    BY <1>3, <1>4, <2>2 DEF p
  <2> QED BY <2>1, <2>3 DEF IInv, OkIsStored
<1> QED BY <1>1, <1>4, <1>8, <1>16, <1>17, WorkerKeeps DEF IInv, TypeOK, WorkerTyped, P

LEMMA CancelPickKeeps ==
    ASSUME IInv, NEW t \in Tabs, CancelPick(t)
    PROVE  IInv'
<1>1. /\ UNCHANGED service /\ UNCHANGED designerVars /\ hosted' = hosted /\ tabs' = tabs
      /\ poll' = poll /\ arming' = arming /\ picks' = picks
      /\ Dispatch(Envelope("cancel", Named(t), t, 0, "clear"), t, [Maps EXCEPT !.mode[t] = 0], sends)
  BY DEF CancelPick
<1>2. /\ Maps \in MapsOf(Created) /\ Created \subseteq Sessions /\ Named(t) \in Created \union {0}
  BY NamedIn
<1>3. PICK e : e = Envelope("cancel", Named(t), t, 0, "clear")
  OBVIOUS
<1>4. e \in EnvelopesOf(Created) /\ e = [type |-> "cancel", session |-> Named(t), tab |-> t, pick |-> 0, then |-> "clear",
                  stage |-> "http", ack |-> "none", valid |-> TRUE, hit |-> FALSE]
  BY <1>2, <1>3 DEF Envelope, EnvelopesOf
<1>5. PICK m \in MapsOf(Created) : m = [Maps EXCEPT !.mode[t] = 0]
  BY <1>2, ModeOff
<1>6. Dispatch(e, t, m, sends) /\ e.stage = "http"
  BY <1>1, <1>3, <1>4, <1>5
<1>7. Maps' \in MapsOf(Created) /\ \E x \in EnvelopesOf(Created) :
                /\ sends' = sends \union {x}
                /\ x.type = e.type /\ x.tab = e.tab /\ x.pick = e.pick /\ x.then = e.then
                /\ x.ack = e.ack /\ x.valid = e.valid /\ x.hit = e.hit
                /\ x.stage \in {"http", "list"} /\ (x.stage # "list" => x.session # 0)
  <2>1. Created \subseteq Sessions
    BY <1>2
  <2>2. e \in EnvelopesOf(Created)
    BY <1>4
  <2> QED BY <1>6, <2>1, <2>2, Dispatched
<1>8. PICK x \in EnvelopesOf(Created) :
                /\ sends' = sends \union {x}
                /\ x.type = e.type /\ x.tab = e.tab /\ x.pick = e.pick /\ x.then = e.then
                /\ x.ack = e.ack /\ x.valid = e.valid /\ x.hit = e.hit
                /\ x.stage \in {"http", "list"} /\ (x.stage # "list" => x.session # 0)
  BY <1>7
<1>9. x.type = "cancel" /\ x.tab = t /\ x.pick = 0 /\ x.then = "clear" /\ x.ack = "none"
  BY <1>4, <1>8
<1>10. Len(picks') \in Nat
  BY <1>1, PicksTyped
<1>11. EnvelopeGood(x)'
  BY <1>8, <1>9, <1>10, TabsAssumption DEF EnvelopeGood
<1>12. SentToOne(x)'
  BY <1>8, <1>9 DEF SentToOne
<1> QED BY <1>1, <1>7, <1>8, <1>9, <1>11, <1>12, PlainSends, WorkerKeeps DEF IInv, TypeOK, WorkerTyped

LEMMA BrowserKeeps ==
    ASSUME IInv, NEW t \in Tabs,
           Navigate(t) \/ PageLoads(t) \/ CloseTab(t) \/ ExtensionStrands(t)
    PROVE  IInv'
<1>1. /\ UNCHANGED service /\ UNCHANGED designerVars /\ hosted' = hosted
      /\ picks' = picks /\ arming' = arming /\ poll' = poll
  BY DEF Navigate, PageLoads, CloseTab, ExtensionStrands, workerVars
<1>2. tabs' \in [Tabs -> {"open", "loading", "closed"}]
  BY DEF Navigate, PageLoads, CloseTab, ExtensionStrands, IInv, TypeOK, WorkerTyped
<1>3. /\ Maps \in MapsOf(Created) /\ Created \subseteq Sessions /\ 0 \notin Created
      /\ mode \in [Tabs -> Created \union {0, Extension}] /\ FindByTab(t, Maps) \in Created \union {0}
  BY NamedIn, FoundIn DEF Created, Sessions
<1>4. /\ byId \in [Sessions -> Tabs \union {NoTab}] /\ byTab \in [Tabs -> Created \union {0}]
      /\ completed \in SUBSET Sessions
      /\ \A s \in Sessions : byId[s] # NoTab => s \in Created
  BY <1>3, MapsFields DEF Maps
<1>5. \A bt \in [Tabs -> Created \union {0}], mo \in [Tabs -> Created \union {0, Extension}] :
         [byId |-> byId, byTab |-> bt, completed |-> completed, mode |-> mo] \in MapsOf(Created)
  BY <1>3, <1>4, MapsMade
<1>6. CASE Navigate(t) \/ ExtensionStrands(t)
  <2>1. /\ byId' = byId /\ byTab' = byTab /\ completed' = completed /\ sends' = sends
        /\ mode' \in [Tabs -> Created \union {0, Extension}]
    BY <1>3, <1>6 DEF Navigate, ExtensionStrands, workerVars, maps
  <2>2. Maps' = [byId |-> byId, byTab |-> byTab, completed |-> completed, mode |-> mode']
    BY <2>1 DEF Maps
  <2>3. Maps' \in MapsOf(Created)
    BY <1>4, <1>5, <2>1, <2>2
  <2> QED BY <1>1, <1>2, <2>1, <2>3, PlainSends, WorkerKeeps DEF IInv, TypeOK, WorkerTyped
<1>7. CASE PageLoads(t)
  <2> DEFINE s == FindByTab(t, Maps)
  <2>1. /\ byId' = byId /\ completed' = completed /\ sends' = sends
        /\ byTab' = [byTab EXCEPT ![t] = s] /\ mode' = [mode EXCEPT ![t] = s]
    BY <1>7 DEF PageLoads
  <2> HIDE DEF s
  <2>2. byTab' \in [Tabs -> Created \union {0}] /\ mode' \in [Tabs -> Created \union {0, Extension}]
    BY <1>3, <1>4, <2>1 DEF s
  <2>3. Maps' = [byId |-> byId, byTab |-> byTab', completed |-> completed, mode |-> mode']
    BY <2>1 DEF Maps
  <2>4. Maps' \in MapsOf(Created)
    BY <1>5, <2>2, <2>3
  <2> QED BY <1>1, <1>2, <2>1, <2>4, PlainSends, WorkerKeeps DEF IInv, TypeOK, WorkerTyped
<1>8. CASE CloseTab(t)
  <2> DEFINE s == FindByTab(t, Maps)
             gone == [Maps EXCEPT !.mode[t] = 0]
  <2>1. \/ s = 0 /\ Become(gone) /\ sends' = sends
        \/ s # 0 /\ Become(Cleared(s, gone)) /\ sends' = sends \union {Envelope("cancel", s, t, 0, "nothing")}
    BY <1>8 DEF CloseTab
  <2>2. gone \in MapsOf(Created)
    BY <1>3, ModeOff
  <2> HIDE DEF gone, s
  <2>3. Maps' \in MapsOf(Created)
    BY <1>3, <2>1, <2>2, ClearedIn, BecomeIn DEF s
  <2>4. \/ sends' = sends
        \/ \E x \in EnvelopesOf(Created) :
                 sends' = sends \union {x} /\ x.pick = 0 /\ EnvelopeGood(x)' /\ SentToOne(x)'
    <3>1. CASE sends' = sends
      BY <3>1
    <3>2. CASE s # 0 /\ sends' = sends \union {Envelope("cancel", s, t, 0, "nothing")}
      <4>1. PICK x : x = Envelope("cancel", s, t, 0, "nothing")
        OBVIOUS
      <4>2. s \in Created /\ Len(picks') \in Nat
        BY <1>1, <1>3, <3>2, PicksTyped DEF s
      <4>3. x \in EnvelopesOf(Created) /\ x.pick = 0 /\ EnvelopeGood(x)' /\ SentToOne(x)'
        BY <3>2, <4>1, <4>2, PlainEnvelope, TabsAssumption
      <4> QED BY <3>2, <4>1, <4>3
    <3> QED BY <2>1, <3>1, <3>2
  <2> QED BY <1>1, <1>2, <2>3, <2>4, PlainSends, WorkerKeeps DEF IInv, TypeOK, WorkerTyped
<1> QED BY <1>6, <1>7, <1>8

-----------------------------------------------------------------------------
(* Steps of the designer, whose requests are served at once or later.          *)

LEMMA DesignerFrame ==
    ASSUME IInv, ServiceStep(0, 0), UNCHANGED <<tabs, mode, picks, workerVars>>,
           DesignerTyped', DesignerInv'
    PROVE  IInv'
<1>1. /\ tabs' = tabs /\ picks' = picks /\ Maps' = Maps /\ poll' = poll /\ arming' = arming /\ sends' = sends
      /\ hosted' = hosted
  BY DEF workerVars, maps, Maps
<1>2. /\ Maps \in MapsOf(Created') /\ poll \in PollsOf(Created') /\ arming \in SUBSET ArmingOf(Created')
      /\ sends \in SUBSET EnvelopesOf(Created')
  BY StillTyped DEF IInv, TypeOK
<1>3. Len(picks) \in Nat /\ Len(picks') \in Nat /\ Len(picks) <= Len(picks')
  BY <1>1, PicksTyped
<1>4. \A y \in sends : EnvelopeGood(y)' /\ SentToOne(y)'
  BY <1>1, <1>3, OthersStayGood DEF IInv
<1>5. SendsInv'
  BY <1>1, <1>4, SendsGone DEF IInv
<1>6. ResultsInv' /\ StoredOnce' /\ OkIsStored'
  BY <1>1, <1>3, ResultsStay DEF IInv
<1>7. ServiceTyped'
  BY DEF ServiceStep
<1>8. WorkerTyped'
  BY <1>1, <1>2 DEF WorkerTyped, IInv, TypeOK
<1> QED BY <1>5, <1>6, <1>7, <1>8 DEF IInv, TypeOK

LEMMA CallKept ==
    ASSUME DesignerInv, ServiceStep(0, 0), NEW c \in calls,
           c.kind = "pull" /\ c.answer = "found" => \A i \in DOMAIN written' : written'[i].session # c.session
    PROVE  CallGood(c)'
<1>1. \A r, n : IsFor(r, n) => IsFor(r, n)' /\ r \in Sessions
  BY DEF IsFor, ServiceStep, Created
<1>2. \A r \in Sessions : result[r] # 0 => result'[r] = result[r]
  BY DEF ServiceStep
<1>3. \A r : r \in taken => r \in taken'
  BY DEF ServiceStep
<1>4. CallGood(c)
  BY DEF DesignerInv
<1> QED BY <1>1, <1>2, <1>3, <1>4 DEF CallGood

LEMMA WrittenKept ==
    ASSUME DesignerInv, ServiceStep(0, 0), written' = written
    PROVE  WrittenGood'
<1>1. \A r, n : IsFor(r, n) => IsFor(r, n)' /\ r \in Sessions
  BY DEF IsFor, ServiceStep, Created
<1>2. \A r \in Sessions : result[r] # 0 => result'[r] = result[r]
  BY DEF ServiceStep
<1>3. \A r : r \in taken => r \in taken'
  BY DEF ServiceStep
<1> QED BY <1>1, <1>2, <1>3 DEF DesignerInv, WrittenGood

\* Requests go, or one comes; nothing is written, and the timer is for what it
\* was, or stopped.
LEMMA DesignerKeeps ==
    ASSUME IInv, ServiceStep(0, 0), UNCHANGED <<tabs, mode, picks, workerVars>>, written' = written,
           nodes' \in SUBSET Nodes, current' \in Sessions \union {0},
           timer' \in [session : Sessions, node : Nodes] \union {NoTimer},
           (timer # NoTimer => IsFor(timer.session, timer.node))',
           \/ calls' \subseteq calls
           \/ \E d \in Calls : calls' \subseteq calls \union {d} /\ CallGood(d)'
    PROVE  IInv'
<1>1. \A c \in calls : CallGood(c)'
  <2> TAKE c \in calls
  <2>1. c.kind = "pull" /\ c.answer = "found" => \A i \in DOMAIN written' : written'[i].session # c.session
    BY DEF IInv, DesignerInv, CallGood
  <2> QED BY <2>1, CallKept DEF IInv
<1>2. calls' \subseteq Calls /\ \A c \in calls' : CallGood(c)'
  <2>1. calls \subseteq Calls
    BY DEF IInv, TypeOK, DesignerTyped
  <2> QED BY <1>1, <2>1
<1>3. WrittenGood'
  BY WrittenKept DEF IInv
<1>4. DesignerInv'
  BY <1>2, <1>3 DEF DesignerInv
<1>5. DesignerTyped'
  BY <1>2 DEF DesignerTyped, IInv, TypeOK
<1> QED BY <1>4, <1>5, DesignerFrame

LEMMA CallIn ==
    ASSUME NEW kind \in {"start", "cancel", "get", "pull"}, NEW s \in Sessions \union {0}, NEW n \in Nodes \union {NoNode},
           NEW answer \in {"none", "ok", "error", "found", "empty", "absent", "pending", "ready"} \union Terminal
    PROVE  /\ Call(kind, s, n, answer) \in Calls
           /\ Call(kind, s, n, answer) = [kind |-> kind, session |-> s, node |-> n, answer |-> answer]
BY DEF Call, Calls

LEMMA DesignerTypes ==
    ASSUME IInv
    PROVE  /\ nodes \subseteq Nodes /\ current \in Sessions \union {0} /\ Created \subseteq Sessions
           /\ timer \in [session : Sessions, node : Nodes] \union {NoTimer}
           /\ timer # NoTimer => IsFor(timer.session, timer.node)
           /\ NoTimer \in [session : Sessions, node : Nodes] \union {NoTimer}
           /\ \A c \in calls :
                 /\ CallGood(c) /\ c \in Calls
                 /\ c.session \in Sessions \union {0} /\ c.node \in Nodes \union {NoNode}
                 /\ c = [kind |-> c.kind, session |-> c.session, node |-> c.node, answer |-> c.answer]
BY DEF IInv, TypeOK, DesignerTyped, DesignerInv, Created, Calls

LEMMA ActsKeep ==
    ASSUME IInv, UNCHANGED <<tabs, mode, picks, workerVars>>,
           NEW n \in Nodes, StartDesktopNativePicker(n) \/ DeleteNode(n) \/ Unmount
    PROVE  IInv'
<1>1. UNCHANGED service /\ written' = written
  BY DEF StartDesktopNativePicker, DeleteNode, Unmount
<1>2. ServiceStep(0, 0)
  BY <1>1, ServiceStill DEF IInv, TypeOK
<1>3. timer # NoTimer => timer.session \in Created' /\ nodeOf'[timer.session] = timer.node
  BY <1>2 DEF IInv, DesignerInv, IsFor, ServiceStep
<1>4. nodes' \in SUBSET Nodes /\ current' \in Sessions \union {0} /\ timer' \in {timer, NoTimer}
  BY DesignerTypes DEF StartDesktopNativePicker, DeleteNode, Unmount, refs, StopNativePickerPolling
<1>5. \/ calls' \subseteq calls
      \/ \E d \in Calls : calls' \subseteq calls \union {d} /\ CallGood(d)'
  <2>1. CASE calls' = calls \union {Call("start", 0, n, "none")}
    <3>1. PICK d \in Calls : d = Call("start", 0, n, "none")
      BY CallIn
    <3>2. d.kind = "start" /\ d.node \in Nodes /\ d.answer = "none"
      BY <3>1 DEF Call
    <3>3. CallGood(d)'
      BY <3>2 DEF CallGood
    <3> QED BY <2>1, <3>1, <3>3
  <2>2. CASE \E m \in Nodes \union {NoNode} : calls' = calls \union {Call("cancel", current, m, "none")}
    <3>1. PICK m \in Nodes \union {NoNode} : calls' = calls \union {Call("cancel", current, m, "none")}
      BY <2>2
    <3>2. PICK d \in Calls : d = Call("cancel", current, m, "none")
      BY CallIn, DesignerTypes
    <3>3. d.kind = "cancel"
      BY <3>2 DEF Call
    <3>4. CallGood(d)'
      BY <3>3 DEF CallGood
    <3> QED BY <3>1, <3>2, <3>4
  <2>3. CASE calls' = calls
    BY <2>3
  <2> QED BY <2>1, <2>2, <2>3 DEF StartDesktopNativePicker, DeleteNode, Unmount, BeginStart
<1>6. /\ timer' \in [session : Sessions, node : Nodes] \union {NoTimer}
      /\ (timer # NoTimer => IsFor(timer.session, timer.node))'
  <2>1. CASE timer' = timer
    BY <1>3, <2>1, DesignerTypes DEF IsFor
  <2>2. CASE timer' = NoTimer
    BY <2>2
  <2> QED BY <1>4, <2>1, <2>2
<1> QED BY <1>1, <1>2, <1>4, <1>5, <1>6, DesignerKeeps

\* The service has what it had, and perhaps one result more was taken.
LEMMA TakenGrows ==
    ASSUME IInv, status' = status, nodeOf' = nodeOf, result' = result,
           taken \subseteq taken', taken' \in SUBSET Sessions
    PROVE  ServiceStep(0, 0) /\ Created' = Created
<1>1. Created' = Created
  BY DEF Created
<1> QED BY <1>1 DEF IInv, TypeOK, ServiceStep, ServiceTyped, ResultsInv, Live

LEMMA TimerKept ==
    ASSUME IInv, ServiceStep(0, 0), timer' \in {timer, NoTimer}
    PROVE  /\ timer' \in [session : Sessions, node : Nodes] \union {NoTimer}
           /\ (timer # NoTimer => IsFor(timer.session, timer.node))'
<1>1. timer # NoTimer => timer.session \in Created' /\ nodeOf'[timer.session] = timer.node
  BY DEF IInv, DesignerInv, IsFor, ServiceStep
<1>2. CASE timer' = timer
  BY <1>1, <1>2, DesignerTypes DEF IsFor
<1>3. CASE timer' = NoTimer
  BY <1>3
<1> QED BY <1>2, <1>3

LEMMA CreateSessionKeeps ==
    ASSUME IInv, UNCHANGED <<tabs, mode, picks, workerVars>>,
           NEW c \in calls, NEW s \in Sessions, CreateSession(c, s)
    PROVE  IInv'
<1>1. /\ c.kind = "start" /\ status[s] = "absent" /\ result' = result /\ taken' = taken
      /\ nodes' = nodes /\ current' = current /\ timer' = timer /\ written' = written
  BY DEF CreateSession, refs
<1>2. /\ \/ status' = status /\ nodeOf' = nodeOf
         \/ status' = [status EXCEPT ![s] = "pending"] /\ nodeOf' = [nodeOf EXCEPT ![s] = c.node]
      /\ \/ /\ calls' = (calls \ {c}) \union {[c EXCEPT !.answer = "ok", !.session = s]}
            /\ status' = [status EXCEPT ![s] = "pending"] /\ nodeOf' = [nodeOf EXCEPT ![s] = c.node]
         \/ calls' = (calls \ {c}) \union {[c EXCEPT !.answer = "error", !.session = s]}
  BY DEF CreateSession, Answered
<1>3. c \in Calls /\ CallGood(c) /\ c.node \in Nodes
  BY <1>1, DesignerTypes DEF CallGood
<1>4. ServiceTyped /\ ResultsInv /\ result[s] = 0
  BY <1>1 DEF IInv, TypeOK, ResultsInv
<1>5. ServiceStep(0, 0)
  <2>1. CASE status' = status /\ nodeOf' = nodeOf
    BY <1>1, <1>4, <2>1, ServiceStill DEF service
  <2>2. CASE status' = [status EXCEPT ![s] = "pending"] /\ nodeOf' = [nodeOf EXCEPT ![s] = c.node]
    <3>1. ServiceTyped'
      BY <1>1, <1>3, <1>4, <2>2 DEF ServiceTyped
    <3>2. Created \subseteq Created' /\ \A r \in Created : r # s
      BY <1>1, <1>4, <2>2 DEF Created, ServiceTyped
    <3>3. \A r \in Created : nodeOf'[r] = nodeOf[r] /\ (~ Live(r) => ~ Live(r)')
      BY <1>4, <2>2, <3>2 DEF Created, ServiceTyped, Live
    <3>4. \A r \in Sessions : result'[r] # 0 => status'[r] = "succeeded"
      BY <1>1, <1>4, <2>2 DEF ServiceTyped, ResultsInv
    <3> QED BY <1>1, <3>1, <3>2, <3>3, <3>4 DEF ServiceStep
  <2> QED BY <1>2, <2>1, <2>2
<1>6. \E d \in Calls : calls' \subseteq calls \union {d} /\ CallGood(d)'
  <2>1. CASE /\ calls' = (calls \ {c}) \union {[c EXCEPT !.answer = "ok", !.session = s]}
             /\ status' = [status EXCEPT ![s] = "pending"] /\ nodeOf' = [nodeOf EXCEPT ![s] = c.node]
    <3>1. PICK d \in Calls : d = [c EXCEPT !.answer = "ok", !.session = s]
      BY <1>3 DEF Calls
    <3>2. d.kind = "start" /\ d.session = s /\ d.node = c.node /\ d.answer = "ok"
      BY <1>1, <1>3, <3>1 DEF Calls
    <3>3. s \in Created' /\ nodeOf'[s] = c.node
      BY <1>4, <2>1 DEF Created, ServiceTyped
    <3>4. CallGood(d)'
      BY <1>3, <3>2, <3>3 DEF CallGood, IsFor
    <3> QED BY <2>1, <3>1, <3>4
  <2>2. CASE calls' = (calls \ {c}) \union {[c EXCEPT !.answer = "error", !.session = s]}
    <3>1. PICK d \in Calls : d = [c EXCEPT !.answer = "error", !.session = s]
      BY <1>3 DEF Calls
    <3>2. d.kind = "start" /\ d.session = s /\ d.node = c.node /\ d.answer = "error"
      BY <1>1, <1>3, <3>1 DEF Calls
    <3>4. CallGood(d)'
      BY <1>3, <3>2 DEF CallGood
    <3> QED BY <2>2, <3>1, <3>4
  <2> QED BY <1>2, <2>1, <2>2
<1>7. /\ timer' \in [session : Sessions, node : Nodes] \union {NoTimer}
      /\ (timer # NoTimer => IsFor(timer.session, timer.node))'
  BY <1>1, <1>5, TimerKept
<1>8. nodes' \in SUBSET Nodes /\ current' \in Sessions \union {0}
  BY <1>1, DesignerTypes
<1> QED BY <1>1, <1>5, <1>6, <1>7, <1>8, DesignerKeeps

LEMMA CancelSessionKeeps ==
    ASSUME IInv, UNCHANGED <<tabs, mode, picks, workerVars>>, NEW c \in calls, CancelSession(c)
    PROVE  IInv'
<1>1. /\ c.kind = "cancel" /\ nodeOf' = nodeOf /\ result' = result /\ taken' = taken
      /\ nodes' = nodes /\ current' = current /\ timer' = timer /\ written' = written
  BY DEF CancelSession, refs
<1> DEFINE s == c.session
<1>2. /\ \/ status' = status
         \/ Live(s) /\ status' = [status EXCEPT ![s] = "cancelled"]
      /\ \E answer \in {"ok", "error"} : calls' = (calls \ {c}) \union {[c EXCEPT !.answer = answer]}
  BY DEF CancelSession, Answered
<1>3. c \in Calls /\ s \in Sessions \union {0} /\ c.node \in Nodes \union {NoNode}
  BY DesignerTypes
<1>4. ServiceTyped /\ ResultsInv
  BY DEF IInv, TypeOK
<1> HIDE DEF s
<1>5. ServiceStep(0, 0)
  <2>1. CASE status' = status
    BY <1>1, <1>4, <2>1, ServiceStill DEF service
  <2>2. CASE s \in Sessions /\ Live(s) /\ status' = [status EXCEPT ![s] = "cancelled"]
    <3>0. s \in Created /\ result[s] = 0
      BY <1>4, <2>2 DEF Created, Live, ResultsInv
    <3>1. ServiceTyped'
      BY <1>1, <1>4, <2>2 DEF ServiceTyped, Terminal
    <3>2. Created \subseteq Created'
      BY <1>4, <2>2 DEF Created, ServiceTyped
    <3>3. \A r \in Created : nodeOf'[r] = nodeOf[r] /\ (~ Live(r) => ~ Live(r)')
      BY <1>1, <1>4, <2>2 DEF Created, ServiceTyped, Live
    <3>4. \A r \in Sessions : result'[r] # 0 => status'[r] = "succeeded"
      BY <1>1, <1>4, <2>2, <3>0 DEF ServiceTyped, ResultsInv
    <3> QED BY <1>1, <3>1, <3>2, <3>3, <3>4 DEF ServiceStep
  <2>3. CASE s \notin Sessions /\ status' = [status EXCEPT ![s] = "cancelled"]
    <3>1. status' = status
      BY <1>4, <2>3 DEF ServiceTyped
    <3> QED BY <2>1, <3>1
  <2> QED BY <1>2, <2>1, <2>2, <2>3
<1>6. \E d \in Calls : calls' \subseteq calls \union {d} /\ CallGood(d)'
  <2>1. PICK answer \in {"ok", "error"} : calls' = (calls \ {c}) \union {[c EXCEPT !.answer = answer]}
    BY <1>2
  <2>2. PICK d \in Calls : d = [c EXCEPT !.answer = answer]
    BY <1>3 DEF Calls
  <2>3. d.kind = "cancel"
    BY <1>1, <1>3, <2>2 DEF Calls
  <2>4. CallGood(d)'
    BY <2>3 DEF CallGood
  <2> QED BY <2>1, <2>2, <2>4
<1>7. /\ timer' \in [session : Sessions, node : Nodes] \union {NoTimer}
      /\ (timer # NoTimer => IsFor(timer.session, timer.node))'
  BY <1>1, <1>5, TimerKept
<1>8. nodes' \in SUBSET Nodes /\ current' \in Sessions \union {0}
  BY <1>1, DesignerTypes
<1> QED BY <1>1, <1>5, <1>6, <1>7, <1>8, DesignerKeeps

LEMMA CancelReturnsKeeps ==
    ASSUME IInv, UNCHANGED <<tabs, mode, picks, workerVars>>, NEW c \in calls, CancelReturns(c)
    PROVE  IInv'
<1>1. UNCHANGED service /\ nodes' = nodes /\ current' = current /\ timer' = timer /\ written' = written
  BY DEF CancelReturns
<1>2. ServiceStep(0, 0)
  BY <1>1, ServiceStill DEF IInv, TypeOK
<1>3. \/ calls' \subseteq calls
      \/ \E d \in Calls : calls' \subseteq calls \union {d} /\ CallGood(d)'
  <2>1. CASE c.node = NoNode
    BY <2>1 DEF CancelReturns
  <2>2. CASE c.node # NoNode
    <3>1. calls' = (calls \ {c}) \union {Call("start", 0, c.node, "none")}
      BY <2>2 DEF CancelReturns, BeginStart
    <3>2. c.node \in Nodes
      BY <2>2, DesignerTypes
    <3>3. PICK d \in Calls : d = Call("start", 0, c.node, "none")
      BY <3>2, CallIn
    <3>4. d.kind = "start" /\ d.node \in Nodes /\ d.answer = "none"
      BY <3>2, <3>3 DEF Call
    <3>5. CallGood(d)'
      BY <3>4 DEF CallGood
    <3> QED BY <3>1, <3>3, <3>5
  <2> QED BY <2>1, <2>2
<1>4. /\ timer' \in [session : Sessions, node : Nodes] \union {NoTimer}
      /\ (timer # NoTimer => IsFor(timer.session, timer.node))'
  BY <1>1, <1>2, TimerKept
<1>5. nodes' \in SUBSET Nodes /\ current' \in Sessions \union {0}
  BY <1>1, DesignerTypes
<1> QED BY <1>1, <1>2, <1>3, <1>4, <1>5, DesignerKeeps

LEMMA StartReturnsKeeps ==
    ASSUME IInv, UNCHANGED <<tabs, mode, picks, workerVars>>, NEW c \in calls, StartReturns(c)
    PROVE  IInv'
<1>1. UNCHANGED service /\ nodes' = nodes /\ written' = written /\ calls' = calls \ {c} /\ c.kind = "start"
  BY DEF StartReturns
<1>2. ServiceStep(0, 0)
  BY <1>1, ServiceStill DEF IInv, TypeOK
<1>3. nodes' \in SUBSET Nodes
  BY <1>1, DesignerTypes
<1>4. CASE c.answer = "ok"
  <2>1. current' = c.session /\ timer' = [session |-> c.session, node |-> c.node]
    BY <1>4 DEF StartReturns
  <2>2. IsFor(c.session, c.node) /\ c.node \in Nodes /\ c.session \in Created /\ c.session \in Sessions
    BY <1>1, <1>4, DesignerTypes DEF CallGood, IsFor
  <2>3. timer' \in [session : Sessions, node : Nodes] \union {NoTimer}
        /\ timer'.session = c.session /\ timer'.node = c.node
    BY <2>1, <2>2
  <2>4. c.session \in Created' /\ nodeOf'[c.session] = c.node
    BY <1>2, <2>2 DEF IsFor, ServiceStep
  <2>5. (timer # NoTimer => IsFor(timer.session, timer.node))'
    BY <2>3, <2>4 DEF IsFor
  <2> QED BY <1>1, <1>2, <1>3, <2>1, <2>2, <2>3, <2>5, DesignerKeeps
<1>5. CASE c.answer # "ok"
  <2>1. current' = current /\ timer' = timer
    BY <1>5 DEF StartReturns
  <2>2. /\ timer' \in [session : Sessions, node : Nodes] \union {NoTimer}
        /\ (timer # NoTimer => IsFor(timer.session, timer.node))'
    BY <1>2, <2>1, TimerKept
  <2>3. current' \in Sessions \union {0}
    BY <2>1, DesignerTypes
  <2> QED BY <1>1, <1>2, <1>3, <2>2, <2>3, DesignerKeeps
<1> QED BY <1>4, <1>5

LEMMA PollTickKeeps ==
    ASSUME IInv, UNCHANGED <<tabs, mode, picks, workerVars>>, PollNativePickerSession
    PROVE  IInv'
<1>1. UNCHANGED service /\ nodes' = nodes /\ written' = written /\ timer # NoTimer
  BY DEF PollNativePickerSession
<1>2. ServiceStep(0, 0)
  BY <1>1, ServiceStill DEF IInv, TypeOK
<1>3. /\ \/ current' = current /\ timer' = timer
         \/ current' = 0 /\ timer' = NoTimer
      /\ \/ calls' = calls
         \/ \E answer \in {status[timer.session], "error"} :
               calls' = calls \union Travels(Call("get", timer.session, timer.node, answer))
  BY DEF PollNativePickerSession, Answered, EndOfPoll, StopNativePickerPolling, refs
<1>4. /\ timer' \in [session : Sessions, node : Nodes] \union {NoTimer}
      /\ (timer # NoTimer => IsFor(timer.session, timer.node))'
  BY <1>2, <1>3, TimerKept
<1>5. \/ calls' \subseteq calls
      \/ \E d \in Calls : calls' \subseteq calls \union {d} /\ CallGood(d)'
  <2>1. CASE calls' = calls
    BY <2>1
  <2>2. CASE \E answer \in {status[timer.session], "error"} :
               calls' = calls \union Travels(Call("get", timer.session, timer.node, answer))
    <3>1. PICK answer \in {status[timer.session], "error"} :
               calls' = calls \union Travels(Call("get", timer.session, timer.node, answer))
      BY <2>2
    <3>2. timer.session \in Sessions /\ timer.node \in Nodes /\ IsFor(timer.session, timer.node)
      BY <1>1, DesignerTypes
    <3>3. answer \in {"none", "ok", "error", "found", "empty", "absent", "pending", "ready"} \union Terminal
      BY <3>1, <3>2 DEF IInv, TypeOK, ServiceTyped
    <3>4. PICK d \in Calls : d = Call("get", timer.session, timer.node, answer)
      BY <3>2, <3>3, CallIn
    <3>5. d.kind = "get" /\ d.session = timer.session /\ d.node = timer.node
      BY <3>4 DEF Call
    <3>6. d.session \in Created' /\ nodeOf'[d.session] = d.node /\ d.node \in Nodes
      BY <1>2, <3>2, <3>5 DEF IsFor, ServiceStep
    <3>7. CallGood(d)'
      BY <3>5, <3>6 DEF CallGood, IsFor
    <3>8. calls' \subseteq calls \union {d}
      BY <3>1, <3>4 DEF Travels
    <3> QED BY <3>7, <3>8
  <2> QED BY <1>3, <2>1, <2>2
<1>6. nodes' \in SUBSET Nodes /\ current' \in Sessions \union {0}
  BY <1>1, <1>3, DesignerTypes
<1> QED BY <1>1, <1>2, <1>4, <1>5, <1>6, DesignerKeeps

LEMMA GetReturnsKeeps ==
    ASSUME IInv, UNCHANGED <<tabs, mode, picks, workerVars>>, NEW c \in calls, GetReturns(c)
    PROVE  IInv'
<1> DEFINE there == result[c.session] # 0 /\ c.session \notin taken
           found == IF there THEN "found" ELSE "empty"
<1>1. /\ c.kind = "get" /\ status' = status /\ nodeOf' = nodeOf /\ result' = result
      /\ nodes' = nodes /\ written' = written
  BY DEF GetReturns
<1>2. c.node \in Nodes /\ IsFor(c.session, c.node) /\ c.session \in Created /\ c.session \in Sessions
  BY <1>1, DesignerTypes DEF CallGood, IsFor
<1>3. \/ /\ current' = 0 /\ timer' = NoTimer /\ taken' = taken /\ calls' = calls \ {c}
      \/ /\ current' = current /\ timer' = timer
         /\ \/ /\ calls' = (calls \ {c}) \union Travels(Call("pull", c.session, c.node, found))
               /\ taken' = IF there THEN taken \union {c.session} ELSE taken
            \/ /\ calls' = (calls \ {c}) \union Travels(Call("pull", c.session, c.node, "error"))
               /\ taken' \in {taken, taken \union {c.session}}
  BY DEF GetReturns, Answered, EndOfPoll, StopNativePickerPolling, refs
<1> HIDE DEF found
<1>4. taken \subseteq taken' /\ taken' \in SUBSET Sessions
  BY <1>2, <1>3 DEF IInv, TypeOK, ServiceTyped
<1>5. ServiceStep(0, 0) /\ Created' = Created
  BY <1>1, <1>4, TakenGrows
<1>6. /\ timer' \in [session : Sessions, node : Nodes] \union {NoTimer}
      /\ (timer # NoTimer => IsFor(timer.session, timer.node))'
  BY <1>3, <1>5, TimerKept
<1>7. nodes' \in SUBSET Nodes /\ current' \in Sessions \union {0}
  BY <1>1, <1>3, DesignerTypes
<1>8. ASSUME NEW answer \in {"found", "empty", "error"},
             calls' = (calls \ {c}) \union Travels(Call("pull", c.session, c.node, answer)),
             answer = "found" => there /\ c.session \in taken'
      PROVE  \E d \in Calls : calls' \subseteq calls \union {d} /\ CallGood(d)'
  <2>1. PICK d \in Calls : d = Call("pull", c.session, c.node, answer)
    BY <1>2, CallIn
  <2>2. d.kind = "pull" /\ d.session = c.session /\ d.node = c.node /\ d.answer = answer
    BY <2>1 DEF Call
  <2>3. c.session \in Created' /\ nodeOf'[c.session] = c.node
    BY <1>1, <1>2, <1>5 DEF IsFor
  <2>4. there => \A i \in DOMAIN written : written[i].session # c.session
    BY DEF IInv, DesignerInv, WrittenGood
  <2>5. CallGood(d)'
    BY <1>1, <1>2, <1>8, <2>2, <2>3, <2>4 DEF CallGood, IsFor
  <2>6. calls' \subseteq calls \union {d}
    BY <1>8, <2>1 DEF Travels
  <2> QED BY <2>5, <2>6
<1>9. \/ calls' \subseteq calls
      \/ \E d \in Calls : calls' \subseteq calls \union {d} /\ CallGood(d)'
  <2>1. CASE calls' = calls \ {c}
    BY <2>1
  <2>2. CASE /\ calls' = (calls \ {c}) \union Travels(Call("pull", c.session, c.node, found))
             /\ taken' = IF there THEN taken \union {c.session} ELSE taken
    <3>1. found \in {"found", "empty", "error"} /\ (found = "found" => there)
      BY DEF found
    <3>2. PICK answer \in {"found", "empty", "error"} : answer = found
      BY <3>1
    <3> QED BY <1>8, <2>2, <3>1, <3>2
  <2>3. CASE calls' = (calls \ {c}) \union Travels(Call("pull", c.session, c.node, "error"))
    BY <1>8, <2>3
  <2> QED BY <1>3, <2>1, <2>2, <2>3
<1> QED BY <1>1, <1>5, <1>6, <1>7, <1>9, DesignerKeeps

LEMMA PullReturnsKeeps ==
    ASSUME IInv, UNCHANGED <<tabs, mode, picks, workerVars>>, NEW c \in calls, PullReturns(c)
    PROVE  IInv'
<1> DEFINE Entries == [node : Nodes, session : Sessions]
           entry == [node |-> c.node, session |-> c.session]
<1>1. /\ c.kind = "pull" /\ UNCHANGED service /\ nodes' = nodes /\ calls' = calls \ {c}
      /\ current' = 0 /\ timer' = NoTimer
      /\ \/ written' = written
         \/ c.answer = "found" /\ written' = Append(written, entry)
  BY DEF PullReturns, EndOfPoll, StopNativePickerPolling, WriteSelector
<1>2. ServiceStep(0, 0)
  BY <1>1, ServiceStill DEF IInv, TypeOK
<1>3. nodes' \in SUBSET Nodes /\ current' \in Sessions \union {0}
  BY <1>1, DesignerTypes
<1>4. /\ timer' \in [session : Sessions, node : Nodes] \union {NoTimer}
      /\ (timer # NoTimer => IsFor(timer.session, timer.node))'
  BY <1>1, <1>2, TimerKept
<1>5. CASE written' = written
  BY <1>1, <1>2, <1>3, <1>4, <1>5, DesignerKeeps
<1>6. CASE c.answer = "found" /\ written' = Append(written, entry)
  <2>1. /\ IsFor(c.session, c.node) /\ c.node \in Nodes /\ c.session \in taken /\ result[c.session] # 0
        /\ \A i \in DOMAIN written : written[i].session # c.session
        /\ c.session \in Created /\ c.session \in Sessions
    BY <1>1, <1>6, DesignerTypes DEF CallGood, IsFor
  <2>2. written \in Seq(Entries) /\ entry \in Entries /\ entry.session = c.session /\ entry.node = c.node
    BY <2>1 DEF IInv, TypeOK, DesignerTyped
  <2> HIDE DEF Entries, entry
  <2> DEFINE n == Len(written) + 1
  <2>3. /\ written' \in Seq(Entries) /\ DOMAIN written' = 1..n /\ n \in Nat /\ DOMAIN written = 1..Len(written)
        /\ Len(written) \in Nat
        /\ \A i \in 1..n : written'[i] = IF i = n THEN entry ELSE written[i]
    BY <1>6, <2>2
  <2>4. \A i \in 1..n : i # n => i \in DOMAIN written
    BY <2>3
  <2> HIDE DEF n
  <2>5. WrittenGood'
    <3>1. WrittenGood /\ UNCHANGED service /\ Created' = Created
      BY <1>1 DEF IInv, DesignerInv, Created, service
    <3>2. ASSUME NEW i \in 1..n
          PROVE  /\ written'[i].session \in Created' /\ nodeOf'[written'[i].session] = written'[i].node
                 /\ written'[i].session \in taken' /\ result'[written'[i].session] # 0
      <4>1. CASE i = n
        BY <2>1, <2>2, <2>3, <3>1, <4>1 DEF IsFor, service
      <4>2. CASE i # n
        BY <2>3, <2>4, <3>1, <4>2 DEF WrittenGood, IsFor, service
      <4> QED BY <4>1, <4>2
    <3>3. ASSUME NEW i \in 1..n, NEW j \in 1..n, written'[i].session = written'[j].session PROVE i = j
      <4>1. CASE i # n /\ j # n
        BY <2>3, <2>4, <3>1, <3>3, <4>1 DEF WrittenGood
      <4>2. CASE i = n /\ j # n
        BY <2>1, <2>2, <2>3, <2>4, <3>3, <4>2
      <4>3. CASE i # n /\ j = n
        BY <2>1, <2>2, <2>3, <2>4, <3>3, <4>3
      <4> QED BY <4>1, <4>2, <4>3
    <3> QED BY <2>3, <3>2, <3>3 DEF WrittenGood, IsFor
  <2>6. \A d \in calls' : CallGood(d)'
    <3> SUFFICES ASSUME NEW d \in calls, d # c PROVE CallGood(d)'
      BY <1>1
    <3>1. ASSUME d.kind = "pull", d.answer = "found", NEW i \in DOMAIN written'
          PROVE  written'[i].session # d.session
      <4>1. d.session # c.session
        <5> SUFFICES ASSUME d.session = c.session PROVE FALSE
          OBVIOUS
        <5>1. IsFor(d.session, d.node)
          BY <3>1, DesignerTypes DEF CallGood
        <5>2. d.node = c.node
          BY <2>1, <5>1 DEF IsFor
        <5>3. d = [kind |-> d.kind, session |-> d.session, node |-> d.node, answer |-> d.answer]
              /\ c = [kind |-> c.kind, session |-> c.session, node |-> c.node, answer |-> c.answer]
          BY DesignerTypes
        <5> QED BY <1>1, <1>6, <3>1, <5>2, <5>3
      <4>2. CASE i = n
        BY <2>2, <2>3, <4>1, <4>2
      <4>3. CASE i # n
        <5>1. i \in DOMAIN written /\ written'[i] = written[i]
          BY <2>3, <2>4, <3>1, <4>3
        <5> QED BY <3>1, <5>1, DesignerTypes DEF CallGood
      <4> QED BY <4>2, <4>3
    <3> QED BY <1>2, <3>1, CallKept DEF IInv
  <2>7. DesignerInv'
    BY <1>4, <2>5, <2>6 DEF DesignerInv
  <2>8. DesignerTyped'
    BY <1>1, <1>3, <1>4, <2>3 DEF DesignerTyped, IInv, TypeOK, Entries
  <2> QED BY <1>2, <2>7, <2>8, DesignerFrame
<1> QED BY <1>1, <1>5, <1>6

-----------------------------------------------------------------------------
(* The theorems.                                                               *)

LEMMA InitHolds == Init => IInv
<1> SUFFICES ASSUME Init PROVE IInv
  OBVIOUS
<1>1. /\ status = [s \in Sessions |-> "absent"] /\ nodeOf = [s \in Sessions |-> NoNode]
      /\ result = [s \in Sessions |-> 0] /\ taken = {} /\ nodes = Nodes /\ current = 0 /\ timer = NoTimer
      /\ calls = {} /\ written = <<>>
      /\ tabs = [t \in Tabs |-> "open"] /\ mode = [t \in Tabs |-> 0] /\ picks = <<>>
      /\ byId = [s \in Sessions |-> NoTab] /\ byTab = [t \in Tabs |-> 0] /\ completed = {}
      /\ poll = IdlePoll /\ arming = {} /\ sends = {} /\ hosted = "unknown"
  BY DEF Init, DesignerInit
<1>2. ServiceTyped /\ ResultsInv /\ StoredOnce
  BY <1>1 DEF ServiceTyped, ResultsInv, StoredOnce
<1>3. DesignerTyped
  BY <1>1 DEF DesignerTyped
<1>4. DesignerInv
  BY <1>1 DEF DesignerInv, WrittenGood
<1>5. SendsInv
  BY <1>1 DEF SendsInv
<1>6. OkIsStored
  BY <1>1 DEF OkIsStored
<1>7. Maps \in MapsOf(Created)
  BY <1>1 DEF Maps, MapsOf
<1>8. poll \in PollsOf(Created) /\ poll.phase # "tab"
  BY <1>1 DEF IdlePoll, PollsOf
<1>9. picks \in Seq([tab : Tabs, mode : Sessions \union {Extension}, told : {"nothing", "ok", "no"}])
  BY <1>1
<1>10. WorkerTyped
  BY <1>1, <1>7, <1>8, <1>9 DEF WorkerTyped
<1> QED BY <1>2, <1>3, <1>4, <1>5, <1>6, <1>10 DEF IInv, TypeOK

LEMMA NextKeeps == IInv /\ [Next]_vars => IInv'
<1> SUFFICES ASSUME IInv, [Next]_vars PROVE IInv'
  OBVIOUS
<1>1. CASE Designer
  <2>1. UNCHANGED <<tabs, mode, picks, workerVars>>
    BY <1>1 DEF Designer
  <2>2. CASE DesignerActs
    BY <2>1, <2>2, ActsKeep DEF DesignerActs
  <2>3. CASE DesignerGoesOn
    BY <2>1, <2>3, CreateSessionKeeps, CancelSessionKeeps, CancelReturnsKeeps, StartReturnsKeeps,
       GetReturnsKeeps, PullReturnsKeeps, PollTickKeeps DEF DesignerGoesOn
  <2> QED BY <1>1, <2>2, <2>3 DEF Designer
<1>2. CASE SendsGoOn
  BY <1>2, SendHttpKeeps, SendHttpAgainKeeps, RebindKeeps, SendHostKeeps, ListReturnsKeeps,
     PickAnsweredKeeps, SendEndsKeeps DEF SendsGoOn
<1>3. CASE Polls
  BY <1>3, PollKeeps, ActivateKeeps, ActivatedKeeps DEF Polls
<1>4. CASE ArmingGoesOn
  BY <1>4, ArmTabKeeps, ArmGivesUpKeeps DEF ArmingGoesOn
<1>5. CASE BrowserActs
  BY <1>5, PickKeeps, CancelPickKeeps, BrowserKeeps DEF BrowserActs
<1>6. CASE \E t \in Tabs : PageLoads(t)
  BY <1>6, BrowserKeeps
<1>7. CASE UNCHANGED vars
  <2>1. UNCHANGED service /\ UNCHANGED designerVars /\ UNCHANGED <<tabs, mode, picks, workerVars>>
    BY <1>7 DEF vars
  <2>2. ServiceStep(0, 0)
    BY <2>1, ServiceStill DEF IInv, TypeOK
  <2>3. DesignerTyped' /\ DesignerInv'
    BY <2>1, <2>2, DesignerStill DEF IInv, TypeOK
  <2> QED BY <2>1, <2>2, <2>3, DesignerFrame
<1> QED BY <1>1, <1>2, <1>3, <1>4, <1>5, <1>6, <1>7 DEF Next

\* The tables and maps of the two sides fit together in every reachable state:
\* who was started for which node, and what every envelope knows of its pick.
THEOREM Inductive == Spec => []IInv
<1>1. Init => IInv
  BY InitHolds
<1>2. IInv /\ [Next]_vars => IInv'
  BY NextKeeps
<1> QED BY <1>1, <1>2, PTL DEF Spec

\* A page is told that its pick was taken only when the service has it, by
\* whichever of the ways of sendNativePickerEnvelope the answer came.
THEOREM OkMeansStored == Spec => []OkIsStored
<1>1. IInv => OkIsStored
  BY DEF IInv
<1> QED BY <1>1, Inductive, PTL

\* However often a pick is sent, it is the result of one session, as long as
\* the native host is not found to work on the tables of another service.
THEOREM PickStoredOnce == Spec => []StoredOnce
<1>1. IInv => StoredOnce
  BY DEF IInv
<1> QED BY <1>1, Inductive, PTL

\* Whatever is written into a node is the result of a session started for this
\* node, and it is written once, however requests of the designer overlap.
THEOREM WritesFit == Spec => []WrittenWhereStarted
<1>1. IInv => WrittenWhereStarted
  <2> SUFFICES ASSUME IInv, NEW i \in DOMAIN written
               PROVE  /\ nodeOf[written[i].session] = written[i].node /\ result[written[i].session] # 0
                      /\ \A j \in DOMAIN written : written[j].session = written[i].session => i = j
    BY DEF WrittenWhereStarted
  <2> QED BY DEF IInv, DesignerInv, WrittenGood, IsFor
<1> QED BY <1>1, Inductive, PTL

\* A pick is refused only when its session is over, none was found for it, the
\* service cannot read it, or a request failed on the way.
THEOREM RefusalsJustified == Spec => RefusedWithReason
<1> DEFINE Refused(f) == f.pick # 0 /\ picks[f.pick].mode # Extension
                         /\ picks'[f.pick].told = "no" /\ picks[f.pick].told # "no"
           Reason(f) == f.hit \/ f.stage = "list" \/ ~ f.valid \/ ~ Live(f.session)
<1>1. IInv /\ [Next]_vars => (\A f \in sends : Refused(f) => Reason(f)) \/ UNCHANGED vars
  <2> SUFFICES ASSUME IInv, Next, NEW f \in sends, Refused(f) PROVE Reason(f)
    OBVIOUS
  <2>1. EnvelopeGood(f) /\ SendsInv /\ f \in EnvelopesOf(Created)
    BY DEF IInv, SendsInv, TypeOK, WorkerTyped
  <2>2. f.pick \in 1..Len(picks) /\ Len(picks) \in Nat /\ DOMAIN picks = 1..Len(picks)
    BY <2>1, PicksTyped DEF EnvelopeGood, EnvelopesOf
  <2>3. ASSUME NEW e \in sends, NEW answer, Told(e.pick, answer) PROVE e = f
    <3>1. e.pick = f.pick
      BY <2>2, <2>3 DEF Told
    <3> QED BY <2>1, <3>1 DEF SendsInv
  <2>4. CASE \E e \in sends, a \in {Home, Other} : ListReturns(e, a)
    <3>1. PICK e \in sends, a \in {Home, Other} : ListReturns(e, a)
      BY <2>4
    <3>2. e.stage = "list" /\ (Told(e.pick, "no") \/ picks' = picks)
      BY <3>1 DEF ListReturns
    <3> QED BY <2>3, <3>2
  <2>5. CASE \E e \in sends : PickAnswered(e)
    <3>1. PICK e \in sends : PickAnswered(e)
      BY <2>5
    <3>2. e.stage = "done"
      BY <3>1 DEF PickAnswered
    <3>3. CASE e.ack = "ok"
      <4>1. Told(e.pick, "ok")
        BY <3>1, <3>3 DEF PickAnswered
      <4>2. e = f
        BY <2>3, <4>1
      <4>3. picks'[f.pick].told # "no"
        BY <2>2, <4>1, <4>2, PicksTyped DEF Told
      <4> QED BY <4>3
    <3>4. CASE e.ack # "ok"
      <4>1. Told(e.pick, "no") \/ picks' = picks
        BY <3>1, <3>4 DEF PickAnswered
      <4>2. e = f
        BY <2>3, <4>1
      <4> QED BY <2>1, <3>2, <3>4, <4>2 DEF EnvelopeGood
    <3> QED BY <3>3, <3>4
  <2>6. CASE \E t \in Tabs : Pick(t)
    <3>1. PICK entry : picks' = Append(picks, entry)
      BY <2>6 DEF Pick
    <3>2. picks'[f.pick] = picks[f.pick]
      BY <2>2, <3>1 DEF IInv, TypeOK, WorkerTyped
    <3> QED BY <3>2
  <2>7. CASE picks' = picks
    BY <2>7
  <2>8. SendsGoOn => \/ \E e \in sends, a \in {Home, Other} : ListReturns(e, a)
                     \/ \E e \in sends : PickAnswered(e)
                     \/ picks' = picks
    BY DEF SendsGoOn, SendHttp, SendHttpAgain, Rebind, SendHost, SendEnds
  <2>9. Designer \/ Polls \/ ArmingGoesOn \/ (\E t \in Tabs : PageLoads(t)) => picks' = picks
    BY DEF Designer, Polls, PollNativePickerSessions, Activate, Activated, ArmingGoesOn, ArmTab, ArmGivesUp, PageLoads
  <2>10. BrowserActs => (\E t \in Tabs : Pick(t)) \/ picks' = picks
    BY DEF BrowserActs, CancelPick, Navigate, CloseTab, ExtensionStrands
  <2> QED BY <2>4, <2>5, <2>6, <2>7, <2>8, <2>9, <2>10 DEF Next
<1>2. IInv /\ [Next]_vars =>
       [\A e \in sends :
          (e.pick # 0 /\ picks[e.pick].mode # Extension /\ picks'[e.pick].told = "no" /\ picks[e.pick].told # "no")
              => e.hit \/ e.stage = "list" \/ ~ e.valid \/ ~ Live(e.session)]_vars
  BY <1>1
<1> QED BY <1>2, Inductive, PTL DEF Spec, RefusedWithReason
=============================================================================
