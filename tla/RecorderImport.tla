---------------------------- MODULE RecorderImport ---------------------------
(* From a recording to a flow (utils/recorder.ts): events are filtered and    *)
(* ordered, quick repeated inputs merged, a chain of nodes made of them, and  *)
(* the chain replaces the current flow or is appended to it.                  *)
(*                                                                            *)
(* A raw event is [action, selector, time, value, url], a flow is the one of  *)
(* FlowShape, whose nodes the mapping extends with the event they replay      *)
(* (field "of"; a wait has its duration). Times are milliseconds.             *)
EXTENDS FlowShape

SupportedActions == {"navigate", "click", "input", "select"}
WaitInsertThreshold == 1500
LongestWait == 5000
MergeWindow == 800

\* Deviation: the order in which events arrived is kept.
ArrivalOrder(raw) == SelectSeq(raw, LAMBDA e : e.action \in SupportedActions)

\* normalizeRecorderPayload: unsupported actions are dropped, the rest is
\* sorted by time; Array.sort is stable.
NormalizeRecorderPayload(raw) ==
    LET events == SelectSeq(raw, LAMBDA e : e.action \in SupportedActions)
        Rank(i) == Cardinality({ j \in DOMAIN events :
                        \/ events[j].time < events[i].time
                        \/ events[j].time = events[i].time /\ j <= i })
    IN  [r \in DOMAIN events |-> events[CHOOSE i \in DOMAIN events : Rank(i) = r]]

\* Deviation: an input within the window of the latest one is dropped.
KeepsFirstInput(acc, e) ==
    IF e.action = "input" /\ \E l \in acc.last : l.selector = e.selector /\ e.time - l.time <= MergeWindow
    THEN acc
    ELSE [events |-> Append(acc.events, e),
          last |-> acc.last \union {[selector |-> e.selector, index |-> Len(acc.events) + 1,
                                     time |-> e.time]}]

\* compactRecorderEvents: `last` gives, for a selector, the place and the time
\* of its latest input; an input that follows it within the window takes its
\* place.
CompactStep(acc, e) ==
    LET latest == { l \in acc.last : l.selector = e.selector }
        Remember(i) == (acc.last \ latest)
                         \union {[selector |-> e.selector, index |-> i, time |-> e.time]}
    IN  IF e.action # "input"
        THEN [acc EXCEPT !.events = Append(@, e)]
        ELSE IF \E l \in latest : e.time - l.time <= MergeWindow
        THEN LET l == CHOOSE l \in latest : TRUE
             IN  [events |-> [acc.events EXCEPT ![l.index] = e], last |-> Remember(l.index)]
        ELSE [events |-> Append(acc.events, e), last |-> Remember(Len(acc.events) + 1)]

CompactRecorderEvents(events) ==
    FoldLeft(CompactStep, [events |-> <<>>, last |-> {}], events).events

\* The page of a recording without a navigation is opened first; the event
\* made for it bears the time of the export.
OpensItsPage(events, exportedAt) ==
    LET known == { i \in DOMAIN events : events[i].url # "" }
    IN  IF known = {} \/ \E i \in DOMAIN events : events[i].action = "navigate"
        THEN events
        ELSE Cons([ action |-> "navigate", selector |-> "window.location", time |-> exportedAt,
                    value |-> "", url |-> FirstOf(events, known).url ], events)

NodeOf(event, i) ==
    CASE event.action = "navigate" -> NewNode(<<"rec_nav", i>>, "navigate")
      [] event.action = "click" -> NewNode(<<"rec_click", i>>, "click")
      [] OTHER -> NewNode(<<"rec_input", i>>, "input")

\* attachNode: the node goes to the end of the chain.
AttachNode(flow, node, of) ==
    LET id == UniqueId(node.id, Ids(flow.nodes))
    IN  [ nodes |-> Append(flow.nodes, [node EXCEPT !.id = id]),
          edges |-> Append(flow.edges,
                       [ id |-> UniqueId(<<"edge", Len(flow.edges) + 1>>, Ids(flow.edges)),
                         src |-> Last(flow.nodes).id, dst |-> id, cond |-> "" ]),
          of |-> Append(flow.of, of),
          lastTime |-> flow.lastTime ]

\* Deviation: a navigation without an address is mapped like the others, and
\* pauses are not kept.
MapsEmptyNavigation(flow, i, event) ==
    AttachNode([flow EXCEPT !.lastTime = event.time], NodeOf(event, i), event)

\* One event: a wait when the pause before it was long, then its node; a
\* navigation without an address has no node.
MapEvent(flow, i, event) ==
    LET pause == event.time - flow.lastTime
        waited == IF flow.lastTime > 0 /\ pause > WaitInsertThreshold
                  THEN AttachNode(flow, NewNode(<<"rec_wait", i>>, "wait"),
                                  IF pause < LongestWait THEN pause ELSE LongestWait)
                  ELSE flow
        timed == [waited EXCEPT !.lastTime = event.time]
    IN  IF event.action = "navigate" /\ event.url = "" THEN timed
        ELSE AttachNode(timed, NodeOf(event, i), event)

MapRecorderPayload(payload, exportedAt) ==
    LET events == OpensItsPage(CompactRecorderEvents(payload), exportedAt)
        start == [ nodes |-> <<NewNode(<<"rec_start">>, "start")>>, edges |-> <<>>,
                   of |-> <<"start">>, lastTime |-> 0 ]
        mapped == FoldLeft(LAMBDA flow, i : MapEvent(flow, i - 1, events[i]), start,
                           [i \in DOMAIN events |-> i])
    IN  AttachNode(mapped, NewNode(<<"rec_end">>, "end"), "end")

\* The flow alone, without the events its nodes came from.
FlowOf(mapped) == [nodes |-> mapped.nodes, edges |-> mapped.edges]

----------------------------------------------------------------------------
(* applyRecorderImportByStrategy *)

\* Nodes or edges with ids free in `used`, one after the other, and the new
\* id of each old one.
Renamed(items, used) ==
    FoldLeft(LAMBDA acc, x : LET id == UniqueId(x.id, acc.used)
                             IN  [ used |-> acc.used \union {id},
                                   items |-> Append(acc.items, [x EXCEPT !.id = id]) ],
             [used |-> used, items |-> <<>>], items).items

Redirected(edges, old, new) ==
    LET At(id) == IF id \in Ids(old) THEN new[CHOOSE i \in DOMAIN old : old[i].id = id].id ELSE id
    IN  [i \in DOMAIN edges |-> [edges[i] EXCEPT !.src = At(@), !.dst = At(@)]]

\* Deviation: new ids for the nodes, old ones in the edges.
ForgetsEdges(incoming, base) ==
    [ nodes |-> Renamed(incoming.nodes, Ids(base.nodes)),
      edges |-> Renamed(incoming.edges, Ids(base.edges)) ]

\* replace (and preview, which shows the result and leaves the flow alone):
\* the mapped flow with ids that the current one does not use.
EnsureUniqueFlowIds(incoming, base) ==
    LET nodes == Renamed(incoming.nodes, Ids(base.nodes))
    IN  [ nodes |-> nodes,
          edges |-> Redirected(Renamed(incoming.edges, Ids(base.edges)), incoming.nodes, nodes) ]

\* Deviation: the recorded nodes keep their ids.
AppendsOldIds(current, incoming, selected, now) ==
    LET actions == SelectSeq(incoming.nodes, LAMBDA n : n.type \notin {"start", "end"})
    IN  [ nodes |-> current.nodes \o actions,
          edges |-> current.edges \o
              SelectSeq(incoming.edges, LAMBDA e : {e.src, e.dst} \subseteq Ids(actions)) ]

\* append: the recorded actions join the flow, the first one behind the
\* selected node. With no node selected the code takes the last node that is
\* no end, after the recorded nodes were pushed: the last of them.
AppendMappedFlow(current, incoming, selected, now) ==
    LET isAction == { i \in DOMAIN incoming.nodes : incoming.nodes[i].type \notin {"start", "end"} }
        actions == Places(incoming.nodes, isAction)
        added == Renamed(actions, Ids(current.nodes))
        isInner == { i \in DOMAIN incoming.edges :
                        {incoming.edges[i].src, incoming.edges[i].dst} \subseteq Ids(actions) }
        inner == Places(incoming.edges, isInner)
        nodes == current.nodes \o added
        edges == current.edges \o Redirected(Renamed(inner, Ids(current.edges)), actions, added)
        chosen == { i \in DOMAIN nodes : nodes[i].id = selected /\ nodes[i].type # "end" }
        anchor == IF chosen # {} THEN FirstOf(nodes, chosen)
                  ELSE LastOf(nodes, { i \in DOMAIN nodes : nodes[i].type # "end" })
        ended == IF OfType(nodes, "end") # {} THEN nodes
                 ELSE Append(nodes, NewNode(UniqueId(<<"n_end">>, Ids(nodes)), "end"))
        end == FirstOf(ended, OfType(ended, "end"))
        Link(id, src, dst) == [id |-> id, src |-> src, dst |-> dst, cond |-> ""]
    IN  IF actions = <<>> THEN current
        ELSE [ nodes |-> ended,
               edges |-> edges \o
                   << Link(UniqueId(<<"edge_append", now>>, Ids(edges)), anchor.id, added[1].id),
                      Link(UniqueId(<<"edge_append_end", now>>, Ids(edges)),
                           Last(added).id, end.id) >> ]

ApplyRecorderImport(strategy, current, incoming, selected, now) ==
    CASE strategy = "preview" -> current
      [] strategy = "replace" -> EnsureUniqueFlowIds(incoming, current)
      [] strategy = "append" -> AppendMappedFlow(current, incoming, selected, now)
=============================================================================
