-------------------------- MODULE RecorderExtension --------------------------
(* The background worker of the recorder extension (background.js) and the    *)
(* content scripts of its tabs (PageFrames): recording, and picking an        *)
(* element for a node of the designer, which runs in a tab of its own.        *)
(*                                                                            *)
(* Messages are queued: pages[t].out is on its way from the frames of tab t to *)
(* the worker, inbox[t] from the worker to each of them, where a message      *)
(* meets no listener until the script of the frame has started; requests and  *)
(* mail travel between the designer's page and the worker. Opening the tab of *)
(* a pick takes several callbacks, and arming it retries; both are sets of    *)
(* what is under way. Picks of a tab that the session is not about go to the  *)
(* native part (NativePipeline), of which only the answer, the tabs it has a  *)
(* session for and the arming and disarming of tabs show here.                *)
EXTENDS PageFrames

CONSTANTS
    Tabs,           \* web tabs; an id is used once
    Nodes,          \* nodes of the designer a pick is made for
    MaxKept,        \* addEvent keeps the last 1200 events of a tab
    Scenes          \* bound: the tabs whose pages have a frame inside, and how
                    \* often each actor acts

Actors == {"designer", "user", "browser", "recorder", "native"}

ASSUME MaxKeptAssumption == MaxKept \in Nat \ {0}

VARIABLES
    phase,          \* per tab: "unborn", "open", "closed", "gone"
    pages,          \* per tab: its page
    inbox,          \* per tab and frame: messages of the worker to it
    designer,       \* the designer's tab: "open", "closed", "gone"
    nodes,          \* flowRef.current.nodes
    target,         \* pickerTargetNodeIdRef.current, or NoNode
    requests,       \* RECORDER_PICKER_START messages on their way to the worker
    mail,           \* messages of the worker to the designer
    session,        \* pickerSession: [target, node], or NoSession
    starting,       \* picks whose tab is being brought to the front
    arming,         \* tabs armPickerWhenReady tries to reach
    native,         \* tabs the native part has a session for
    recording,      \* recorderStateByTab: "absent", "on", "off"
    events,         \* recorderEventsByTab: a sequence, or Absent
    lastTab,        \* lastRecorderTabId, or NoTab
    openedFor,      \* history: the node a tab was opened for, or NoNode
    later,          \* history: the nodes picks were started for after the tab's
    loose,          \* history: tabs put in pick mode, or left in it, without a
                    \* session of the extension's own
    written,        \* history: results written into nodes
    offered,        \* history: the latest payload given to the designer
    acts            \* how often each actor may still act

designing == <<designer, nodes, target, requests, mail>>
picking == <<session, starting, arming, native>>
recorded == <<recording, events, lastTab>>
history == <<openedFor, later, loose, written, offered>>
vars == <<phase, pages, inbox, designing, picking, recorded, history, acts>>

NoTab == "noTab"
NoNode == "noNode"
NoSession == [target |-> NoTab, node |-> NoNode]
Absent == <<"absent">>

ASSUME TabsAssumption == NoTab \notin Tabs
ASSUME NodesAssumption == NoNode \notin Nodes

NoMessages == [f \in Frames |-> <<>>]

Init ==
    /\ phase = [t \in Tabs |-> "unborn"]
    /\ \E scene \in Scenes :
          /\ pages = [t \in Tabs |-> FreshPage(t \in scene.framed)]
          /\ acts = scene.acts
    /\ inbox = [t \in Tabs |-> NoMessages]
    /\ designer = "open" /\ nodes = Nodes /\ target = NoNode
    /\ requests = <<>> /\ mail = <<>>
    /\ session = NoSession /\ starting = {} /\ arming = {} /\ native = {}
    /\ recording = [t \in Tabs |-> "absent"]
    /\ events = [t \in Tabs |-> Absent]
    /\ lastTab = NoTab
    /\ openedFor = [t \in Tabs |-> NoNode] /\ later = [t \in Tabs |-> {}]
    /\ loose = {} /\ written = <<>>
    /\ offered = [tab |-> NoTab, events |-> <<>>]

Act(actor) == acts[actor] > 0 /\ acts' = [acts EXCEPT ![actor] = @ - 1]

\* The inbox after a message to a frame, and after chrome.tabs.sendMessage to a
\* tab, which goes to every frame whose script listens.
SentTo(boxes, t, f, message) ==
    IF pages[t].started[f] THEN [boxes EXCEPT ![t][f] = Append(@, message)] ELSE boxes
Sent(boxes, t, message) ==
    IF t \in Tabs THEN SentTo(SentTo(boxes, t, "top", message), t, "child", message) ELSE boxes

\* The mail after a message to the page of the designer.
Mailed(queue, message) == IF designer = "open" THEN Append(queue, message) ELSE queue
PickerError == [type |-> "error", tab |-> NoTab, node |-> NoNode]

SendPickerMode(on) == [type |-> "pick", on |-> on]
SendToggle(on) == [type |-> "toggle", on |-> on]

----------------------------------------------------------------------------
(* The browser *)

\* A tab of the user; the session of a pick opens others.
OpenTab(t) ==
    /\ Act("browser") /\ phase[t] = "unborn"
    /\ phase' = [phase EXCEPT ![t] = "open"]
    /\ UNCHANGED <<pages, inbox, designing, picking, recorded, history>>

\* The content script starts in one of the frames of the tab.
LoadFrame(t, f) ==
    /\ phase[t] = "open" /\ ~ pages[t].started[f] /\ (f = "child" => pages[t].framed)
    /\ pages' = [pages EXCEPT ![t] = StartScript(@, f)]
    /\ UNCHANGED <<phase, inbox, designing, picking, recorded, history, acts>>

\* The tab, or the frame inside, loads another page: what was on its way to
\* the old one is lost.
Navigate(t, f) ==
    /\ Act("browser") /\ pages[t].started[f]
    /\ pages' = [pages EXCEPT ![t] = Unloaded(@, f)]
    /\ inbox' = [inbox EXCEPT ![t] = IF f = "top" THEN NoMessages ELSE [@ EXCEPT ![f] = <<>>]]
    /\ UNCHANGED <<phase, designing, picking, recorded, history>>

CloseTab(t) ==
    /\ Act("browser") /\ phase[t] = "open"
    /\ phase' = [phase EXCEPT ![t] = "closed"]
    /\ pages' = [pages EXCEPT ![t] = Unloaded(@, "top")]
    /\ inbox' = [inbox EXCEPT ![t] = NoMessages]
    /\ UNCHANGED <<designing, picking, recorded, history>>

CloseDesigner ==
    /\ Act("browser") /\ designer = "open"
    /\ designer' = "closed" /\ mail' = <<>>
    /\ UNCHANGED <<phase, pages, inbox, nodes, target, requests, picking, recorded, history>>

\* The service worker is stopped and started again: it kept all in memory.
WorkerRestarts ==
    /\ Act("browser")
    /\ session' = NoSession /\ starting' = {} /\ arming' = {} /\ native' = {}
    /\ recording' = [t \in Tabs |-> "absent"]
    /\ events' = [t \in Tabs |-> Absent]
    /\ lastTab' = NoTab
    /\ loose' = loose \union ({session.target} \ {NoTab})
    /\ UNCHANGED <<phase, pages, inbox, designing, openedFor, later, written, offered>>

----------------------------------------------------------------------------
(* The designer *)

\* Deviation: the node of a pick that is still open is kept.
KeepsOlderTarget(node) ==
    /\ Act("designer") /\ designer = "open" /\ node \in nodes
    /\ target' = (IF target = NoNode THEN node ELSE target)
    /\ requests' = Append(requests, node)
    /\ later' = [t \in Tabs |-> IF openedFor[t] = NoNode THEN {} ELSE later[t] \union {node}]
    /\ UNCHANGED <<phase, pages, inbox, designer, nodes, mail, picking, recorded, openedFor, loose, written, offered>>

\* startElementPicker, and the message of the page passed on to the worker.
StartElementPicker(node) ==
    /\ Act("designer") /\ designer = "open" /\ node \in nodes
    /\ target' = node
    /\ requests' = Append(requests, node)
    /\ later' = [t \in Tabs |-> IF openedFor[t] = NoNode THEN {} ELSE later[t] \union {node}]
    /\ UNCHANGED <<phase, pages, inbox, designer, nodes, mail, picking, recorded, openedFor, loose, written, offered>>

RemoveNode(node) ==
    /\ Act("designer") /\ designer = "open" /\ node \in nodes
    /\ nodes' = nodes \ {node}
    /\ UNCHANGED <<phase, pages, inbox, designer, target, requests, mail, picking, recorded, history>>

\* RECORDER_PICK_RESULT: the result goes to the node the designer waits for,
\* or else to the one the message names, whichever there is; it may be one
\* that cannot be used.
OnPickResult(m) ==
    LET node == IF target \in nodes THEN target ELSE m.node
    IN  /\ m.type = "result"
        /\ \/ node \notin nodes /\ UNCHANGED <<target, written>>
           \/ /\ node \in nodes /\ target' = NoNode
              /\ \/ written' = Append(written, [tab |-> m.tab, node |-> node])
                 \/ UNCHANGED written

\* RECORDER_PICKER_ERROR
OnPickerError(m) == m.type = "error" /\ target' = NoNode /\ UNCHANGED written

DesignerReceives ==
    /\ mail # <<>>
    /\ mail' = Tail(mail)
    /\ OnPickResult(Head(mail)) \/ OnPickerError(Head(mail))
    /\ UNCHANGED <<phase, pages, inbox, designer, nodes, requests, picking, recorded, openedFor, later, loose, offered, acts>>

----------------------------------------------------------------------------
(* The session of a pick *)

\* Deviation: the tab of the session is not told.
ClearPickerSilently(boxes) ==
    /\ session' = NoSession
    /\ inbox' = boxes
    /\ mail' = IF session = NoSession THEN mail ELSE Mailed(mail, PickerError)

\* clearPickerSession with an error, onto the boxes the handler has filled.
ClearPickerSession(boxes) ==
    /\ session' = NoSession
    /\ inbox' = IF session = NoSession THEN boxes ELSE Sent(boxes, session.target, SendPickerMode(FALSE))
    /\ mail' = IF session = NoSession THEN mail ELSE Mailed(mail, PickerError)

\* RECORDER_PICKER_START: the previous session ends, and a tab is made.
PickerStart(t) ==
    /\ requests # <<>> /\ requests' = Tail(requests)
    /\ ClearPickerSession(inbox)
    /\ phase[t] = "unborn" /\ phase' = [phase EXCEPT ![t] = "open"]
    /\ starting' = starting \union {[target |-> t, node |-> Head(requests)]}
    /\ openedFor' = [openedFor EXCEPT ![t] = Head(requests)]
    /\ later' = [later EXCEPT ![t] = ToSet(Tail(requests))]
    /\ UNCHANGED <<pages, designer, nodes, target, arming, native, recorded, loose, written, offered, acts>>

\* ... or cannot be made.
PickerStartFails ==
    /\ requests # <<>> /\ requests' = Tail(requests)
    /\ session' = NoSession
    /\ inbox' = IF session = NoSession THEN inbox ELSE Sent(inbox, session.target, SendPickerMode(FALSE))
    /\ mail' = Mailed(IF session = NoSession THEN mail ELSE Mailed(mail, PickerError), PickerError)
    /\ UNCHANGED <<phase, pages, designer, nodes, target, starting, arming, native, recorded, history, acts>>

\* The tab is in front, or could not be brought there: it is the session's,
\* in the place of a session there may be.
PickerStarted(s) ==
    /\ s \in starting
    /\ starting' = starting \ {s}
    /\ session' = s
    /\ arming' = arming \union {s.target}
    /\ loose' = loose \union ({session.target} \ {NoTab})
    /\ UNCHANGED <<phase, pages, inbox, designing, native, recorded, openedFor, later, written, offered, acts>>

Listens(t) == \E f \in Frames : pages[t].started[f]

\* armPickerWhenReady reaches a frame of the page, or tries again (no step), or
\* gives up after twenty times, and then ends the session there is, whichever
\* it is. That it arms a tab the session is no longer about is not noticed.
ArmPicker(t) ==
    /\ t \in arming /\ Listens(t)
    /\ arming' = arming \ {t}
    /\ inbox' = Sent(inbox, t, SendPickerMode(TRUE))
    /\ loose' = IF session.target = t THEN loose ELSE loose \union {t}
    /\ UNCHANGED <<phase, pages, designing, session, starting, native, recorded, openedFor, later, written, offered, acts>>

ArmGivesUp(t) ==
    /\ t \in arming /\ ~ Listens(t)
    /\ arming' = arming \ {t}
    /\ ClearPickerSession(inbox)
    /\ UNCHANGED <<phase, pages, designer, nodes, target, requests, starting, native, recorded, history, acts>>

\* The native part has a session for a tab and puts it in pick mode, or is
\* done with it.
NativeArms(t, on) ==
    /\ Act("native") /\ Listens(t)
    /\ inbox' = Sent(inbox, t, SendPickerMode(on))
    /\ native' = IF on THEN native \union {t} ELSE native \ {t}
    /\ loose' = IF on THEN loose \union {t} ELSE loose
    /\ UNCHANGED <<phase, pages, designing, session, starting, arming, recorded, openedFor, later, written, offered>>

\* tabs.onRemoved for a web tab, and for the designer's.
TabRemoved(t) ==
    /\ phase[t] = "closed"
    /\ phase' = [phase EXCEPT ![t] = "gone"]
    /\ session' = IF session.target = t THEN NoSession ELSE session
    /\ mail' = IF session.target = t THEN Mailed(mail, PickerError) ELSE mail
    /\ native' = native \ {t}
    /\ recording' = [recording EXCEPT ![t] = "absent"]
    /\ events' = [events EXCEPT ![t] = Absent]
    /\ lastTab' = IF lastTab = t THEN NoTab ELSE lastTab
    /\ UNCHANGED <<pages, inbox, designer, nodes, target, requests, starting, arming, history, acts>>

DesignerRemoved ==
    /\ designer = "closed" /\ designer' = "gone"
    /\ ClearPickerSession(inbox)
    /\ UNCHANGED <<phase, pages, nodes, target, requests, starting, arming, native, recorded, history, acts>>

----------------------------------------------------------------------------
(* Recordings *)

\* ensureTabState and addEvent, of the events kept for a tab.
Known(list) == IF list = Absent THEN <<>> ELSE list
EnsureRecording(t) == IF recording[t] = "absent" THEN "off" ELSE recording[t]

AddEvent(list, event) ==
    LET all == Append(Known(list), event)
    IN  IF Len(all) > MaxKept THEN SubSeq(all, Len(all) - MaxKept + 1, Len(all)) ELSE all

\* findLatestTabId; among tabs with equally many events the oldest entry of
\* the map, here any.
LatestTabs ==
    LET known == { t \in Tabs : events[t] # Absent }
    IN  IF lastTab \in known THEN {lastTab}
        ELSE { t \in known : \A u \in known : Len(events[t]) >= Len(events[u]) }

\* The popup's buttons, for the tab in front.
RecorderStart(t) ==
    /\ Act("recorder") /\ phase[t] = "open"
    /\ recording' = [recording EXCEPT ![t] = "on"]
    /\ events' = [events EXCEPT ![t] = Known(@)]
    /\ lastTab' = t
    /\ inbox' = Sent(inbox, t, SendToggle(TRUE))
    /\ UNCHANGED <<phase, pages, designing, picking, history>>

RecorderStop(t) ==
    /\ Act("recorder") /\ phase[t] = "open"
    /\ recording' = [recording EXCEPT ![t] = "off"]
    /\ events' = [events EXCEPT ![t] = Known(@)]
    /\ inbox' = Sent(inbox, t, SendToggle(FALSE))
    /\ UNCHANGED <<phase, pages, designing, picking, lastTab, history>>

RecorderClear(t) ==
    /\ Act("recorder") /\ phase[t] = "open"
    /\ events' = [events EXCEPT ![t] = <<>>]
    /\ UNCHANGED <<phase, pages, inbox, designing, picking, recording, lastTab, history>>

BuildPayload(t) == [tab |-> t, events |-> Known(events[t])]

\* The designer pulls the latest recording, or the popup pushes it to the
\* designer's tab; buildPayload knows the tab from then on. With nothing to
\* pull the designer is told of an error, as it is of a pick's.
Offer ==
    /\ Act("recorder") /\ designer = "open"
    /\ \/ /\ \E t \in LatestTabs :
               /\ offered' = BuildPayload(t)
               /\ recording' = [recording EXCEPT ![t] = EnsureRecording(t)]
               /\ events' = [events EXCEPT ![t] = Known(@)]
          /\ UNCHANGED mail
       \/ LatestTabs = {} /\ mail' = Mailed(mail, PickerError) /\ UNCHANGED <<offered, recording, events>>
    /\ UNCHANGED <<phase, pages, inbox, designer, nodes, target, requests, picking, lastTab, openedFor, later, loose, written>>

----------------------------------------------------------------------------
(* Messages of the frames reach the worker *)

\* Deviation: whether the tab records is not asked.
TakesAnyEvent(t, f, m) ==
    /\ m.type = "event"
    /\ events' = [events EXCEPT ![t] = AddEvent(@, m.action)]
    /\ lastTab' = t
    /\ UNCHANGED <<inbox, session, mail, recording, loose>>

OnRecorderEvent(t, f, m) ==
    /\ m.type = "event"
    /\ recording' = [recording EXCEPT ![t] = EnsureRecording(t)]
    /\ events' = [events EXCEPT ![t] = IF recording[t] = "on" THEN AddEvent(@, m.action) ELSE Known(@)]
    /\ lastTab' = IF recording[t] = "on" THEN t ELSE lastTab
    /\ UNCHANGED <<inbox, session, mail, loose>>

\* RECORDER_PICKER_STATUS of a frame whose script has started: the answer is
\* for this frame.
OnPickerStatus(t, f, m) ==
    /\ m.type = "status"
    /\ inbox' = IF session.target = t \/ t \in native THEN SentTo(inbox, t, f, SendPickerMode(TRUE)) ELSE inbox
    /\ UNCHANGED <<session, mail, recorded, loose>>

Answered(boxes, t, f, m, ok) == IF m.waits THEN SentTo(boxes, t, f, [type |-> "answer", ok |-> ok]) ELSE boxes

\* pushPickerResultToRequester
PushPickerResultToRequester(t) == mail' = Mailed(mail, [type |-> "result", tab |-> t, node |-> session.node])

\* RECORDER_PICKED: the session's tab has picked, or some other tab has, and
\* then the native part answers.
OnPicked(t, f, m) ==
    /\ m.type = "picked"
    /\ \/ /\ session.target = t
          /\ PushPickerResultToRequester(t)
          /\ session' = NoSession
          /\ inbox' = Answered(Sent(inbox, t, SendPickerMode(FALSE)), t, f, m, TRUE)
       \/ /\ session.target # t
          /\ \E ok \in BOOLEAN : inbox' = Answered(inbox, t, f, m, ok)
          /\ UNCHANGED <<session, mail>>
    /\ UNCHANGED <<recorded, loose>>

OnPickCanceled(t, f, m) ==
    /\ m.type = "canceled"
    /\ IF session.target = t THEN ClearPickerSession(inbox) ELSE UNCHANGED <<session, inbox, mail>>
    /\ UNCHANGED <<recorded, loose>>

WorkerReceives(t, f) ==
    LET m == Head(pages[t].out[f])
    IN  /\ pages[t].out[f] # <<>>
        /\ pages' = [pages EXCEPT ![t].out[f] = Tail(@)]
        /\ \/ OnRecorderEvent(t, f, m) \/ OnPickerStatus(t, f, m)
           \/ OnPicked(t, f, m) \/ OnPickCanceled(t, f, m)
        /\ UNCHANGED <<phase, designer, nodes, target, requests, starting, arming, native,
                       openedFor, later, written, offered, acts>>

----------------------------------------------------------------------------
(* The pages *)

PageBecomes(t, p) ==
    /\ p # pages[t]
    /\ pages' = [pages EXCEPT ![t] = p]

FrameReceives(t, f) ==
    LET m == Head(inbox[t][f])
    IN  /\ inbox[t][f] # <<>>
        /\ pages' = [pages EXCEPT ![t] =
                        CASE m.type = "pick" -> OnPickMode(@, f, m.on)
                          [] m.type = "toggle" -> OnRecorderToggle(@, f, m.on)
                          [] m.type = "answer" -> OnPickAnswer(@, m.ok)]
        /\ inbox' = [inbox EXCEPT ![t][f] = Tail(@)]
        /\ UNCHANGED <<phase, designing, picking, recorded, history, acts>>

FramesTalk(t) ==
    /\ \/ pages[t].up # <<>> /\ PageBecomes(t, OnFrameSync(pages[t], Head(pages[t].up)))
       \/ pages[t].down # <<>> /\ PageBecomes(t, OnFrameCommand(pages[t], Head(pages[t].down)))
    /\ UNCHANGED <<phase, inbox, designing, picking, recorded, history, acts>>

UserActs(t, f) ==
    /\ Act("user")
    /\ \/ PageBecomes(t, OnClick(pages[t], f))
       \/ PageBecomes(t, OnPickMouseMove(pages[t], f, FALSE))
       \/ PageBecomes(t, OnPickKeydown(pages[t], f, "Escape"))
       \/ PageBecomes(t, OnPickKeydown(pages[t], f, "Enter"))
       \/ f = "top" /\ pages[t].on[f] /\
            \/ PageBecomes(t, RequestPickConfirm(pages[t], f))
            \/ PageBecomes(t, SkipButton(pages[t]))
            \/ pages[t].framed /\ PageBecomes(t, OnPickMouseMove(pages[t], f, TRUE))
            \/ pages[t].framed /\ PageBecomes(t, OnPickClick(pages[t], f, TRUE))
    /\ UNCHANGED <<phase, inbox, designing, picking, recorded, history>>

Next ==
    \/ \E t \in Tabs :
        \/ OpenTab(t) \/ CloseTab(t)
        \/ PickerStart(t) \/ ArmPicker(t) \/ ArmGivesUp(t) \/ TabRemoved(t)
        \/ RecorderStart(t) \/ RecorderStop(t) \/ RecorderClear(t)
        \/ FramesTalk(t)
        \/ \E on \in BOOLEAN : NativeArms(t, on)
        \/ \E f \in Frames :
            LoadFrame(t, f) \/ Navigate(t, f) \/ WorkerReceives(t, f) \/ FrameReceives(t, f) \/ UserActs(t, f)
    \/ \E node \in Nodes : StartElementPicker(node) \/ RemoveNode(node)
    \/ \E s \in starting : PickerStarted(s)
    \/ DesignerReceives \/ PickerStartFails
    \/ CloseDesigner \/ DesignerRemoved \/ WorkerRestarts \/ Offer

Spec == Init /\ [][Next]_vars

----------------------------------------------------------------------------
(* Properties *)

\* What was picked in a tab is written into a node at most once, and into the
\* node the tab was opened for, unless the designer had started another pick
\* after it: the designer prefers the node it waits for to the one the result
\* names, so that a result that is overtaken lands in the node of the later
\* pick. It never lands in the node of an earlier one, or of none.
ResultForItsNode ==
    /\ \A i \in DOMAIN written :
           LET w == written[i] IN w.node = openedFor[w.tab] \/ w.node \in later[w.tab]
    /\ \A i, j \in DOMAIN written : written[i].tab = written[j].tab => i = j

\* The recording that is offered to the designer is not of a tab that is
\* gone, unless it is empty: an event that was on its way when its tab was
\* closed does not bring a recording back.
OfferedFromOpenTab ==
    [][ offered' # offered /\ offered'.events # <<>> => phase[offered'.tab] # "gone" ]_vars

\* A page picks for a session. Once the session is not about it any more, and
\* nothing is on its way to its frames or from the top frame to the one inside,
\* neither of them picks, in whatever order their scripts started and messages
\* of the worker and of the other frame reached each of them. Excepted are the
\* pages that pick mode was left in without a session: armed late or natively,
\* or forgotten when the worker restarted or a later start took the place.
PickModeEnds ==
    \A t \in Tabs :
        session.target # t /\ t \notin loose /\ inbox[t] = NoMessages /\ pages[t].down = <<>>
            => \A f \in Frames : ~ pages[t].on[f]
=============================================================================
