---------------------------- MODULE PickerDesigner ----------------------------
(* Picking an element from the designer (useDesignerState.ts), and what it     *)
(* asks of the native picker service: a session is started for a node, polled *)
(* until it is over, and its result is pulled and written into the node.      *)
(* NativePipeline adds the other side, the extension's worker and its tabs.   *)
(*                                                                            *)
(* A request is a member of calls until its continuation has run; any number  *)
(* are under way. One that changes nothing in the service, or what nobody     *)
(* else changes, carries its answer from the start, the others are served at  *)
(* any moment. The service (NativePicker) shows as its two tables.            *)
EXTENDS Integers, Sequences, FiniteSets

CONSTANTS
    Nodes,          \* nodes of the open flow
    Tabs,           \* web tabs of the browser
    MaxSessions,    \* bound: sessions of the service
    MaxActs,        \* bound: what the user does
    MaxFaults       \* bound: answers lost, and stops of a service

ASSUME BoundsAssumption == MaxSessions \in Nat /\ MaxActs \in Nat /\ MaxFaults \in Nat

Sessions == 1..MaxSessions      \* in the order of their creation
Home == "home"                  \* the API the designer talks to
Other == "other"                \* another one on a port the extension scans
NoNode == "noNode"
NoTimer == [session |-> 0, node |-> NoNode]
Terminal == {"succeeded", "failed", "cancelled", "timeout"}

VARIABLES
    status,         \* the service's sessions
    nodeOf,         \* session -> the node it is for
    result,         \* session -> the pick stored for it, 0 for none
    taken,          \* results that were pulled
    nodes,          \* nodes the flow still has
    target,         \* pickerTargetNodeIdRef
    current,        \* nativePickerSessionIdRef, 0 for null
    timer,          \* the poll timer and what its ticks poll
    calls,          \* requests whose continuation has not run
    written,        \* history: what was written into nodes
    acts, faults

service == <<status, nodeOf, result, taken>>
refs == <<target, current, timer>>
designerVars == <<nodes, refs, calls, written>>

DesignerInit ==
    /\ status = [s \in Sessions |-> "absent"]
    /\ nodeOf = [s \in Sessions |-> NoNode]
    /\ result = [s \in Sessions |-> 0] /\ taken = {}
    /\ nodes = Nodes
    /\ target = NoNode /\ current = 0 /\ timer = NoTimer
    /\ calls = {} /\ written = <<>>
    /\ acts = 0 /\ faults = 0

Act == acts < MaxActs /\ acts' = acts + 1
Fault == faults < MaxFaults /\ faults' = faults + 1

Live(s) == status[s] \in {"pending", "ready"}
Call(kind, s, n, answer) == [kind |-> kind, session |-> s, node |-> n, answer |-> answer]

----------------------------------------------------------------------------
(* The service *)

\* apiPost and apiGet: the answer; or an error, when the API was not reached,
\* or did what it was asked and fetchWithTimeout had given up. Done says that
\* it did it, Left that it did not.
Answered(ok, Then(_), Done, Left) ==
    \/ Then(ok) /\ Done /\ UNCHANGED faults
    \/ Fault /\ Then("error") /\ (Done \/ Left)

\* create_session, when the request to start one arrives.
CreateSession(c, s) ==
    /\ c \in calls /\ c.kind = "start" /\ c.answer = "none"
    /\ status[s] = "absent" /\ \A r \in Sessions : r < s => status[r] # "absent"
    /\ LET Then(answer) == calls' = (calls \ {c}) \union {[c EXCEPT !.answer = answer, !.session = s]}
           Created == /\ status' = [status EXCEPT ![s] = "pending"]
                      /\ nodeOf' = [nodeOf EXCEPT ![s] = c.node]
       IN  Answered("ok", Then, Created, UNCHANGED <<status, nodeOf>>)
    /\ UNCHANGED <<result, taken, nodes, refs, written, acts>>

\* cancel_session, when the request to cancel one arrives, if it does; the
\* answer is not looked at.
CancelSession(c) ==
    /\ c \in calls /\ c.kind = "cancel" /\ c.answer = "none"
    /\ LET Then(answer) == calls' = (calls \ {c}) \union {[c EXCEPT !.answer = answer]}
           Over == IF Live(c.session) THEN [status EXCEPT ![c.session] = "cancelled"] ELSE status
       IN  Answered("ok", Then, status' = Over, UNCHANGED status)
    /\ UNCHANGED <<nodeOf, result, taken, nodes, refs, written, acts>>

----------------------------------------------------------------------------
(* Starting a pick *)

StopNativePickerPolling == timer' = NoTimer

\* cancelActiveNativePickerSession has returned. (A host that cannot be
\* registered ends the start as an API that does not answer does.)
BeginStart(n, pending) ==
    /\ target' = n
    /\ calls' = pending \union {Call("start", 0, n, "none")}

\* startElementPicker, in its native mode to its first request: the
\* active session is cancelled before another is started.
StartDesktopNativePicker(n) ==
    /\ Act /\ n \in nodes
    /\ IF current = 0
       THEN BeginStart(n, calls) /\ UNCHANGED <<current, timer>>
       ELSE /\ StopNativePickerPolling
            /\ current' = 0
            /\ calls' = calls \union {Call("cancel", current, n, "none")}
            /\ UNCHANGED target
    /\ UNCHANGED <<service, nodes, written, faults>>

\* cancelActiveNativePickerSession, called as the designer is left.
Unmount ==
    /\ Act /\ current # 0
    /\ StopNativePickerPolling
    /\ current' = 0
    /\ calls' = calls \union {Call("cancel", current, NoNode, "none")}
    /\ UNCHANGED <<service, nodes, target, written, faults>>

\* Whether the cancellation was heard or not, the next session is started.
CancelReturns(c) ==
    /\ c \in calls /\ c.kind = "cancel" /\ c.answer # "none"
    /\ IF c.node = NoNode THEN calls' = calls \ {c} /\ UNCHANGED target
       ELSE BeginStart(c.node, calls \ {c})
    /\ UNCHANGED <<service, nodes, current, timer, written, acts, faults>>

StartReturns(c) ==
    /\ c \in calls /\ c.kind = "start" /\ c.answer # "none"
    /\ IF c.answer = "ok"
       THEN /\ current' = c.session
            /\ timer' = [session |-> c.session, node |-> c.node]
            /\ UNCHANGED target
       ELSE target' = NoNode /\ UNCHANGED <<current, timer>>
    /\ calls' = calls \ {c}
    /\ UNCHANGED <<service, nodes, written, acts, faults>>

----------------------------------------------------------------------------
(* Polling, and writing the result *)

\* What every way out of a poll does.
EndOfPoll ==
    /\ StopNativePickerPolling
    /\ current' = 0 /\ target' = NoNode

\* An answer after which nothing happens is not told.
Travels(c) == IF c.answer \in {"pending", "ready", "empty"} THEN {} ELSE {c}

\* A tick of the timer: the node went meanwhile, or the session is asked for.
\* (Bound: one such question is under way, though ticks do not wait for it.)
PollNativePickerSession ==
    /\ timer # NoTimer
    /\ IF timer.node \in nodes
       THEN /\ \A c \in calls : c.kind = "get" => c.session # timer.session
            /\ LET Then(answer) == calls' = calls \union Travels(Call("get", timer.session, timer.node, answer))
               IN  Answered(status[timer.session], Then, TRUE, TRUE) /\ UNCHANGED refs
       ELSE EndOfPoll /\ UNCHANGED <<calls, faults>>
    /\ UNCHANGED <<service, nodes, written, acts>>

\* The answer to a tick: of a session that succeeded the result is pulled,
\* which the service hands out once.
GetReturns(c) ==
    /\ c \in calls /\ c.kind = "get"
    /\ IF c.answer = "succeeded"
       THEN LET there == result[c.session] # 0 /\ c.session \notin taken
                Then(answer) == calls' = (calls \ {c}) \union Travels(Call("pull", c.session, c.node, answer))
                Taken == taken' = IF there THEN taken \union {c.session} ELSE taken
            IN  /\ Answered(IF there THEN "found" ELSE "empty", Then, Taken, UNCHANGED taken)
                /\ UNCHANGED refs
       ELSE /\ EndOfPoll
            /\ calls' = calls \ {c}
            /\ UNCHANGED <<taken, faults>>
    /\ UNCHANGED <<status, nodeOf, result, nodes, written, acts>>

\* Only a node that is there is changed by updateFlow.
WriteSelector(n, entry) == written' = IF n \in nodes THEN Append(written, entry) ELSE written

\* Deviation: the result goes to the node the designer aims at by now.
PullReturnsToTarget(c) ==
    /\ c \in calls /\ c.kind = "pull"
    /\ calls' = calls \ {c}
    /\ EndOfPoll
    /\ IF c.answer = "found"
       THEN WriteSelector(target, [node |-> target, session |-> c.session]) ELSE UNCHANGED written
    /\ UNCHANGED <<service, nodes, acts, faults>>

\* The session is not compared with the current one.
PullReturns(c) ==
    /\ c \in calls /\ c.kind = "pull"
    /\ calls' = calls \ {c}
    /\ EndOfPoll
    /\ IF c.answer = "found"
       THEN WriteSelector(c.node, [node |-> c.node, session |-> c.session]) ELSE UNCHANGED written
    /\ UNCHANGED <<service, nodes, acts, faults>>

DeleteNode(n) ==
    /\ Act /\ n \in nodes
    /\ nodes' = nodes \ {n}
    /\ UNCHANGED <<service, refs, calls, written, faults>>

DesignerActs == \E n \in Nodes :
    StartDesktopNativePicker(n) \/ DeleteNode(n) \/ Unmount

DesignerGoesOn ==
    \/ \E c \in calls : \E s \in Sessions :
            CreateSession(c, s) \/ CancelSession(c) \/ CancelReturns(c) \/ StartReturns(c) \/ GetReturns(c) \/ PullReturns(c)
    \/ PollNativePickerSession
=============================================================================
