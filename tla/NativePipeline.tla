---------------------------- MODULE NativePipeline ----------------------------
(* The native part of the extension's worker (background.js), between the     *)
(* designer and its service (PickerDesigner) and the tabs of the browser.     *)
(*                                                                            *)
(* The worker lists the sessions of the service, arms a tab for the newest    *)
(* one, and carries the tab's pick back. It finds the service by scanning     *)
(* ports, may meet another API there, sends again when an answer does not     *)
(* come, and falls back on the native host, which works on the same tables.   *)
(* Every await is a place where other handlers run: poll, arming and sends    *)
(* hold what is suspended there. A message to a tab takes no time here.       *)
EXTENDS PickerDesigner

VARIABLES
    tabs,           \* per tab: "open", "loading", "closed"
    mode,           \* per tab: 0 when not picking, the session it picks for,
                    \* or Extension when the extension's own session armed it
    picks,          \* what users picked: tab, mode and what the page was told
    diagTab,        \* session -> the tab its session_ready named
    byId,           \* sessionById: session -> tab
    byTab,          \* sessionIdByTab: tab -> session, 0 for none
    completed,      \* completedSessionIds
    base,           \* apiBase
    storedPort,     \* nativePickerApiPort of the extension's storage
    poll,           \* the run of pollNativePickerSessions under way
    arming,         \* armNativePickerWhenReady runs under way
    sends,          \* envelopes under way
    hosted          \* whose tables the native host works on, once that shows

maps == <<byId, byTab, completed>>
api == <<base, storedPort>>
workerVars == <<diagTab, maps, api, poll, arming, sends, hosted>>
vars == <<service, designerVars, acts, faults, tabs, mode, picks, workerVars>>

NoTab == "noTab"
NoApi == "noApi"
Extension == -1

ASSUME TabsAssumption == NoTab \notin Tabs

IdlePoll == [phase |-> "idle", live |-> {}, session |-> 0, tab |-> NoTab]

\* The poll has the candidates S left to activate.
NextCandidate(S) == IF S = {} THEN IdlePoll ELSE [IdlePoll EXCEPT !.phase = "act", !.live = S]

Init ==
    /\ DesignerInit
    /\ tabs = [t \in Tabs |-> "open"]
    /\ mode = [t \in Tabs |-> 0]
    /\ picks = <<>>
    /\ diagTab = [s \in Sessions |-> NoTab]
    /\ byId = [s \in Sessions |-> NoTab]
    /\ byTab = [t \in Tabs |-> 0]
    /\ completed = {}
    /\ base = NoApi /\ storedPort = NoApi
    /\ poll = IdlePoll /\ arming = {} /\ sends = {}
    /\ hosted = "unknown"

Active == {s \in Sessions : byId[s] # NoTab}

----------------------------------------------------------------------------
(* Asking an API *)

\* listNativePickerApiPortCandidates: the stored port first, then the default.
\* A request that fails finds the other API while this one is away.
FirstApi == IF storedPort = NoApi THEN Home ELSE storedPort

\* resolveNativePickerApiBase, as long as nothing fails.
ApiBase == IF base = NoApi THEN FirstApi ELSE base

RememberBase(a) == base' = a /\ storedPort' = IF a = NoApi THEN storedPort ELSE a

\* fetchNativePickerApi of a GET: a base that does not answer is resolved anew.
Asks(a) == \/ a = ApiBase /\ RememberBase(a) /\ UNCHANGED faults
           \/ a = Other /\ ApiBase = Home /\ Fault /\ RememberBase(a)

\* handle_message of the service: what becomes of the session and the answer.
\* A result it cannot read is refused, and the session lives on.
Accepts(e) == Live(e.session) /\ e.valid

Heard(e) ==
    /\ status' = IF ~ Accepts(e) THEN status
                 ELSE [status EXCEPT ![e.session] =
                        CASE e.type = "session_ready" -> "ready"
                          [] e.type = "pick_result" -> "succeeded"
                          [] e.type = "error" -> "failed"
                          [] e.type = "cancel" -> "cancelled"]
    /\ result' = IF Accepts(e) /\ e.type = "pick_result"
                 THEN [result EXCEPT ![e.session] = e.pick] ELSE result
    /\ diagTab' = IF Accepts(e) /\ e.type = "session_ready"
                  THEN [diagTab EXCEPT ![e.session] = e.tab] ELSE diagTab
    /\ UNCHANGED <<nodeOf, taken>>

Unheard == UNCHANGED <<service, diagTab>>
Ack(e) == IF ~ Live(e.session) THEN "terminal" ELSE IF e.valid THEN "ok" ELSE "invalid"

\* One request of an envelope to an API, which answers. The other one does not
\* know the session.
SendTo(a, e, Then(_)) ==
    \/ a = Home /\ Heard(e) /\ Then(Ack(e))
    \/ a = Other /\ Unheard /\ Then("notFound")

----------------------------------------------------------------------------
(* Sending an envelope *)

\* then says what the sender does with the answer; pick, the pick it is about;
\* valid, whether its payload is one the service can read; hit, whether
\* something failed on the way.
Envelope(type, s, t, pick, then) ==
    [type |-> type, session |-> s, tab |-> t, pick |-> pick, then |-> then,
     stage |-> "http", ack |-> "none", valid |-> TRUE, hit |-> FALSE]

\* After the last answer nothing is left of an envelope nobody waits for.
MovesTo(e, stage, ack) ==
    sends' = (sends \ {e}) \union
             (IF stage = "done" /\ e.then = "nothing" THEN {}
              ELSE {[e EXCEPT !.stage = stage, !.ack = ack, !.hit = @ \/ ack = "none"]})

\* What comes next after an HTTP answer.
AfterHttp(e, ack) ==
    MovesTo(e, IF ack = "ok" THEN "done" ELSE IF ack = "notFound" THEN "rebind" ELSE "host", ack)

\* Deviation: a request that failed counts as answered.
SendHttpOnce(e) ==
    /\ e \in sends /\ e.stage = "http"
    /\ LET Then(ack) == AfterHttp(e, ack) /\ RememberBase(ApiBase)
       IN  \/ SendTo(ApiBase, e, Then) /\ UNCHANGED faults
           \/ Fault /\ AfterHttp(e, "ok") /\ RememberBase(NoApi) /\ Unheard
    /\ UNCHANGED <<designerVars, acts, tabs, mode, picks, maps, poll, arming, hosted>>

\* sendEnvelopeViaHttp: the first request; or it fails, heard or not, and the
\* base is forgotten.
SendHttp(e) ==
    /\ e \in sends /\ e.stage = "http"
    /\ LET Then(ack) == AfterHttp(e, ack) /\ RememberBase(ApiBase)
       IN  \/ SendTo(ApiBase, e, Then) /\ UNCHANGED faults
           \/ /\ Fault /\ MovesTo(e, "again", "none") /\ RememberBase(NoApi)
              /\ (ApiBase = Home /\ Heard(e)) \/ Unheard
    /\ UNCHANGED <<designerVars, acts, tabs, mode, picks, maps, poll, arming, hosted>>

\* doRequest(true): the API is back, or another one answers, or none does.
SendHttpAgain(e) ==
    /\ e \in sends /\ e.stage = "again"
    /\ \/ \E a \in {FirstApi, Other} :
               LET Then(ack) == AfterHttp(e, ack) /\ RememberBase(a) IN SendTo(a, e, Then)
       \/ AfterHttp(e, "none") /\ Unheard /\ UNCHANGED api
    /\ UNCHANGED <<designerVars, acts, faults, tabs, mode, picks, maps, poll, arming, hosted>>

\* Deviation: a session that is not known is not looked for elsewhere.
RebindNever(e) ==
    /\ e \in sends /\ e.stage = "rebind"
    /\ MovesTo(e, "host", e.ack)
    /\ Unheard
    /\ UNCHANGED <<designerVars, acts, faults, tabs, mode, picks, maps, api, poll, arming, hosted>>

\* resolveNativePickerApiBaseBySessionId finds the API that has the session,
\* and the envelope is sent to it; or this fails, heard or not, and the host
\* is tried.
Rebind(e) ==
    /\ e \in sends /\ e.stage = "rebind"
    /\ LET Then(ack) == MovesTo(e, "done", ack) /\ RememberBase(Home)
       IN  \/ SendTo(Home, e, Then) /\ UNCHANGED faults
           \/ Fault /\ MovesTo(e, "host", "none") /\ (Heard(e) \/ Unheard) /\ UNCHANGED api
    /\ UNCHANGED <<designerVars, acts, tabs, mode, picks, maps, poll, arming, hosted>>

\* sendEnvelopeViaNativeHost: the host answers, or works and does not answer
\* in time, or is not installed, or works on the tables of another API.
SendHost(e) ==
    /\ e \in sends /\ e.stage = "host"
    /\ hosted' \in (IF hosted = "unknown" THEN {Home, Other, NoApi} ELSE {hosted})
    /\ \/ hosted' = Home /\ Heard(e) /\ MovesTo(e, "done", Ack(e)) /\ UNCHANGED faults
       \/ hosted' = Home /\ Fault /\ Heard(e) /\ MovesTo(e, "done", "none")
       \/ hosted' = Other /\ Unheard /\ MovesTo(e, "done", "notFound") /\ UNCHANGED faults
       \/ hosted' = NoApi /\ Unheard /\ MovesTo(e, "done", "noHost") /\ UNCHANGED faults
    /\ UNCHANGED <<designerVars, acts, tabs, mode, picks, maps, api, poll, arming>>

----------------------------------------------------------------------------
(* The worker's maps *)

\* clearNativeSession, with the maps and modes the handler has so far.
Cleared(s, m) ==
    [m EXCEPT !.completed = @ \union {s}, !.byId[s] = NoTab,
              !.byTab = IF m.byId[s] = NoTab THEN @ ELSE [@ EXCEPT ![m.byId[s]] = 0],
              !.mode = IF m.byId[s] = NoTab THEN @ ELSE [@ EXCEPT ![m.byId[s]] = 0]]

Maps == [byId |-> byId, byTab |-> byTab, completed |-> completed, mode |-> mode]

Become(m) ==
    /\ byId' = m.byId /\ byTab' = m.byTab /\ completed' = m.completed /\ mode' = m.mode

\* findNativeSessionIdByTab
FindByTab(t, m) ==
    LET held == {s \in Sessions : m.byId[s] = t}
    IN  IF m.byTab[t] # 0 THEN m.byTab[t]
        ELSE IF held = {} THEN 0 ELSE CHOOSE s \in held : \A r \in held : s <= r

Bound(t, s, m) == [m EXCEPT !.byId[s] = t, !.byTab[t] = s]

\* resolveNativeSessionIdForTab without the service: the tab's session, or
\* the only one there is, which is the tab's from now on.
ResolveInMemory(t, m) ==
    LET mine == FindByTab(t, m)
        there == {s \in Sessions : m.byId[s] # NoTab} \ m.completed
    IN  IF mine # 0 THEN [session |-> mine, maps |-> [m EXCEPT !.byTab[t] = mine]]
        ELSE IF Cardinality(there) = 1
             THEN LET s == CHOOSE s \in there : TRUE IN [session |-> s, maps |-> Bound(t, s, m)]
        ELSE [session |-> 0, maps |-> m]

\* What an API lists, as far as it is not over; the other one's are not ours.
ListedLive(a) == IF a = Home THEN {s \in Sessions : Live(s)} ELSE {}

\* ... and with it: the live session that named the tab, or the only one.
ResolveByList(t, listed) ==
    LET named == {s \in listed : diagTab[s] = t}
    IN  IF named # {} THEN CHOOSE s \in named : \A r \in named : s >= r
        ELSE IF Cardinality(listed) = 1 THEN CHOOSE s \in listed : TRUE ELSE 0

\* Deviation: a session that is over counts as one that is not known.
IsNotFoundOrOver(ack) == ack \in {"notFound", "terminal"}

IsSessionNotFoundAck(ack) == ack = "notFound"

\* What the page does with the answer to its pick.
Told(p, answer) == picks' = IF p = 0 THEN picks ELSE [picks EXCEPT ![p].told = answer]
AfterTold(m, t, answer) ==
    IF answer = "ok" /\ tabs[t] # "closed" THEN [m EXCEPT !.mode[t] = 0] ELSE m

----------------------------------------------------------------------------
(* What a page sends *)

\* The message of a page reaches the worker: it names its session, or one is
\* looked for, at last in the list of the service.
Dispatch(e, t, m, others) ==
    LET found == ResolveInMemory(t, m)
    IN  IF e.session # 0 THEN sends' = others \union {e} /\ Become(m)
        ELSE /\ Become(found.maps)
             /\ sends' = others \union
                    {IF found.session # 0 THEN [e EXCEPT !.session = found.session]
                     ELSE [e EXCEPT !.stage = "list"]}

Named(t) == IF mode[t] = Extension THEN 0 ELSE mode[t]

\* The user confirms an element: the page waits for the answer in its mode.
\* PickerResult may refuse what the page made of the element.
Pick(t) ==
    /\ Act /\ tabs[t] = "open" /\ mode[t] # 0
    /\ picks' = Append(picks, [tab |-> t, mode |-> mode[t], told |-> "nothing"])
    /\ \E valid \in BOOLEAN :
           LET e == Envelope("pick_result", Named(t), t, Len(picks) + 1, "answer")
           IN  Dispatch([e EXCEPT !.valid = valid], t, Maps, sends)
    /\ UNCHANGED <<service, designerVars, faults, tabs, diagTab, api, poll, arming, hosted>>

\* The user gives up. (A page that fails sends an error, which ends the
\* session as well.)
CancelPick(t) ==
    /\ Act /\ tabs[t] = "open" /\ mode[t] # 0
    /\ Dispatch(Envelope("cancel", Named(t), t, 0, "clear"), t, [Maps EXCEPT !.mode[t] = 0], sends)
    /\ UNCHANGED <<service, designerVars, faults, tabs, picks, diagTab, api, poll, arming, hosted>>

\* The list is there; it may name no session.
ListReturns(e, a) ==
    /\ e \in sends /\ e.stage = "list"
    /\ Asks(a)
    /\ LET s == ResolveByList(e.tab, ListedLive(a) \ completed)
       IN  IF s = 0
           THEN sends' = sends \ {e} /\ Told(e.pick, "no") /\ UNCHANGED <<maps, mode>>
           ELSE /\ Become(Bound(e.tab, s, Maps))
                /\ sends' = (sends \ {e}) \union {[e EXCEPT !.session = s, !.stage = "http"]}
                /\ UNCHANGED picks
    /\ UNCHANGED <<service, designerVars, acts, tabs, diagTab, poll, arming, hosted>>

\* handleNativePickedMessage has its answer. A session nobody knows is
\* dropped, and the pick is sent once more for the one found instead.
PickAnswered(e) ==
    /\ e \in sends /\ e.stage = "done" /\ e.then \in {"answer", "lastAnswer"}
    /\ LET dropped == [Maps EXCEPT !.byTab[e.tab] = 0, !.byId[e.session] = NoTab]
           retry == [Envelope("pick_result", 0, e.tab, e.pick, "lastAnswer") EXCEPT !.valid = e.valid]
       IN  IF e.ack = "ok"
           THEN /\ Become(AfterTold(Cleared(e.session, Maps), e.tab, "ok"))
                /\ Told(e.pick, "ok") /\ sends' = sends \ {e}
           ELSE IF IsSessionNotFoundAck(e.ack) /\ e.then = "answer"
                THEN Dispatch(retry, e.tab, dropped, sends \ {e}) /\ UNCHANGED picks
                ELSE /\ Told(e.pick, "no")
                     /\ sends' = sends \ {e} /\ UNCHANGED <<maps, mode>>
    /\ UNCHANGED <<service, designerVars, acts, faults, tabs, diagTab, api, poll, arming, hosted>>

\* An envelope that is not a pick was sent: its session may be cleared, and
\* the poll goes on that waited for it.
SendEnds(e) ==
    /\ e \in sends /\ e.stage = "done" /\ e.then \in {"clear", "attach"}
    /\ sends' = sends \ {e}
    /\ Become(Cleared(e.session, Maps))
    /\ poll' = IF e.then = "attach" THEN NextCandidate(poll.live) ELSE poll
    /\ UNCHANGED <<service, designerVars, acts, faults, tabs, picks, diagTab, api, arming, hosted>>

----------------------------------------------------------------------------
(* Polling the service, and arming a tab *)

\* pollNativePickerSessions, which does not run twice at once: sessions that
\* are over, or not in the list, are cleared; the others that were never
\* cleared are activated one by one.
PollNativePickerSessions(a) ==
    /\ poll.phase = "idle"
    /\ Asks(a)
    /\ LET over == Active \ ListedLive(a)
           m == [byId |-> [s \in Sessions |-> IF s \in over THEN NoTab ELSE byId[s]],
                 byTab |-> [t \in Tabs |-> IF \E s \in over : byId[s] = t THEN 0 ELSE byTab[t]],
                 completed |-> completed \union over,
                 mode |-> [t \in Tabs |-> IF \E s \in over : byId[s] = t THEN 0 ELSE mode[t]]]
       IN  Become(m) /\ poll' = NextCandidate(ListedLive(a) \ m.completed)
    /\ UNCHANGED <<service, designerVars, acts, tabs, picks, diagTab, arming, sends, hosted>>

AttachFails(s) ==
    /\ sends' = sends \union {Envelope("error", s, NoTab, 0, "attach")}
    /\ poll' = [poll EXCEPT !.phase = "wait", !.live = @ \ {s}]

\* activateNativeSession up to its first await, for the newest candidate left.
\* pickAttachableTabForSession takes the focused tab, or else another one.
Activate ==
    /\ poll.phase = "act" /\ poll.live # {}
    /\ LET s == CHOOSE s \in poll.live : \A r \in poll.live : s >= r
           attachable == {t \in Tabs : tabs[t] # "closed"}
       IN  IF Active # {} THEN poll' = NextCandidate(poll.live \ {s}) /\ UNCHANGED sends
           ELSE IF attachable = {} THEN AttachFails(s)
           ELSE /\ \E t \in attachable :
                        poll' = [poll EXCEPT !.phase = "tab", !.session = s, !.tab = t]
                /\ UNCHANGED sends
    /\ UNCHANGED <<service, designerVars, acts, faults, tabs, mode, picks, diagTab, maps, api, arming, hosted>>

\* The tab is in front, or it went.
Activated ==
    /\ poll.phase = "tab"
    /\ LET s == poll.session
           t == poll.tab
       IN  IF tabs[t] = "closed" THEN AttachFails(s) /\ UNCHANGED <<maps, mode, arming>>
           ELSE /\ Become(Bound(t, s, Maps))
                /\ arming' = arming \union {[session |-> s, tab |-> t]}
                /\ poll' = NextCandidate(poll.live \ {s})
                /\ UNCHANGED sends
    /\ UNCHANGED <<service, designerVars, acts, faults, tabs, picks, diagTab, api, hosted>>

\* armNativePickerWhenReady reaches the page, whose session it then is,
\* whether the worker still has the session or not. The service is told, and
\* no more comes of it; told again, by the ways of an envelope, it does no more.
ArmTab(a) ==
    /\ a \in arming /\ tabs[a.tab] = "open"
    /\ arming' = arming \ {a}
    /\ mode' = [mode EXCEPT ![a.tab] = a.session]
    /\ \/ Heard(Envelope("session_ready", a.session, a.tab, 0, "nothing")) /\ UNCHANGED faults
       \/ Fault /\ Unheard
    /\ UNCHANGED <<designerVars, acts, tabs, picks, maps, api, poll, sends, hosted>>

\* The last try failed as well.
ArmGivesUp(a) ==
    /\ a \in arming /\ tabs[a.tab] # "open"
    /\ arming' = arming \ {a}
    /\ sends' = sends \union {Envelope("error", a.session, a.tab, 0, "clear")}
    /\ UNCHANGED <<service, designerVars, acts, faults, tabs, mode, picks, diagTab, maps, api, poll, hosted>>

----------------------------------------------------------------------------
(* The browser, and the extension's own session *)

Navigate(t) ==
    /\ Act /\ tabs[t] = "open"
    /\ tabs' = [tabs EXCEPT ![t] = "loading"]
    /\ mode' = [mode EXCEPT ![t] = 0]
    /\ UNCHANGED <<service, designerVars, faults, picks, workerVars>>

\* RECORDER_PICKER_STATUS: the new page asks whether it is to pick.
PageLoads(t) ==
    /\ tabs[t] = "loading"
    /\ tabs' = [tabs EXCEPT ![t] = "open"]
    /\ LET s == FindByTab(t, Maps)
       IN  /\ mode' = [mode EXCEPT ![t] = s]
           /\ byTab' = [byTab EXCEPT ![t] = s]
    /\ UNCHANGED <<service, designerVars, acts, faults, picks, diagTab, byId, completed, api, poll, arming, sends, hosted>>

\* tabs.onRemoved
CloseTab(t) ==
    /\ Act /\ tabs[t] # "closed"
    /\ tabs' = [tabs EXCEPT ![t] = "closed"]
    /\ LET s == FindByTab(t, Maps)
           gone == [Maps EXCEPT !.mode[t] = 0]
       IN  IF s = 0 THEN Become(gone) /\ UNCHANGED sends
           ELSE /\ Become(Cleared(s, gone))
                /\ sends' = sends \union {Envelope("cancel", s, t, 0, "nothing")}
    /\ UNCHANGED <<service, designerVars, faults, picks, diagTab, api, poll, arming, hosted>>

\* RecorderExtension shows how a tab is left in pick mode without a session.
ExtensionStrands(t) ==
    /\ Act /\ tabs[t] = "open" /\ mode[t] = 0
    /\ mode' = [mode EXCEPT ![t] = Extension]
    /\ UNCHANGED <<service, designerVars, faults, tabs, picks, workerVars>>

----------------------------------------------------------------------------
SendsGoOn == \E e \in sends :
    SendHttp(e) \/ SendHttpAgain(e) \/ Rebind(e) \/ SendHost(e) \/ (\E a \in {Home, Other} : ListReturns(e, a)) \/ PickAnswered(e) \/ SendEnds(e)
Polls == (\E a \in {Home, Other} : PollNativePickerSessions(a)) \/ Activate \/ Activated
ArmingGoesOn == \E a \in arming : ArmTab(a) \/ ArmGivesUp(a)
BrowserActs == \E t \in Tabs : Pick(t) \/ CancelPick(t) \/ Navigate(t) \/ CloseTab(t) \/ ExtensionStrands(t)

Designer == (DesignerActs \/ DesignerGoesOn) /\ UNCHANGED <<tabs, mode, picks, workerVars>>

Next ==
    \/ Designer \/ SendsGoOn \/ Polls \/ ArmingGoesOn \/ BrowserActs
    \/ \E t \in Tabs : PageLoads(t)

Spec == Init /\ [][Next]_vars

----------------------------------------------------------------------------
(* Properties *)

\* The page is told that its pick was taken only when the service has it
\* (sendNativePickerEnvelope's many ways to an answer).
OkIsStored == \A p \in DOMAIN picks : picks[p].told = "ok" => \E s \in Sessions : result[s] = p

\* However often it is sent, a pick becomes the result of one session. (A host
\* that works on other tables answers that the session is not known, whatever
\* the API had said, and the pick is sent to the next session as well.)
StoredOnce ==
    hosted # Other => \A r, s \in Sessions : r # s /\ result[r] # 0 => result[r] # result[s]

\* A pick of a page armed for a session is refused for no other reason than
\* that the session is over, that the service cannot read the pick, or that an
\* API failed on the way: an API that does not know the session is left for the
\* one that does. (A pick sent once more finds no session when its own is over.)
RefusedWithReason ==
    [][\A e \in sends :
        (e.pick # 0 /\ picks[e.pick].mode # Extension /\ picks'[e.pick].told = "no" /\ picks[e.pick].told # "no")
            => e.hit \/ e.stage = "list" \/ ~ e.valid \/ ~ Live(e.session)]_vars

\* What the native picker writes into a node is the result of a session that
\* was started for this node, and is written once.
WrittenWhereStarted ==
    \A i \in DOMAIN written :
        LET s == written[i].session
        IN  s # 0 => /\ nodeOf[s] = written[i].node /\ result[s] # 0
                     /\ \A j \in DOMAIN written : written[j].session = s => i = j
=============================================================================
