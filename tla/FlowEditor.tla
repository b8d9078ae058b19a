------------------------------ MODULE FlowEditor -----------------------------
(* The designer's canvas: the flow being edited and the selection, and the    *)
(* operations of useDesignerState.ts the canvas, the node panel, the edge     *)
(* panel and the recorder panel offer, each behind the guards of the view     *)
(* that calls it (ReactFlowCanvas.tsx, NodePanel.tsx, EdgePanel.tsx).         *)
(*                                                                            *)
(* One user works on it: an operation reads the flow of the last render and   *)
(* React renders between two operations, so each is one step, with the effect *)
(* that clears a selection whose object is gone.                              *)
EXTENDS RecorderImport

CONSTANTS
    Types,          \* the node types in play
    Conditions,     \* what a user types as the condition of an edge
    CaseLists,      \* the values a user gives a switch's cases
    Recordings,     \* mapped recordings (flows) to import
    LoadedFlows,    \* flows the editor is opened with
    MaxNodes,       \* bound: nodes of a flow
    MaxEdges,       \* bound: edges of a flow
    MaxEdits,       \* bound: operations that change the flow
    Gap             \* the time between two operations

\* A document's lists and ids are finite; an id of two parts is a prefix and a
\* number, one of D.
IsTuple(s) == Len(s) \in Nat /\ s = [i \in 1 .. Len(s) |-> s[i]]
Dated(id, D) == Len(id) = 2 => id[2] \in D
IsId(id) == IsTuple(id) /\ Dated(id, 0 .. Gap - 1)

IsNode(x) == x = [id |-> x.id, type |-> x.type, cases |-> x.cases] /\ IsId(x.id)
IsEdge(x) == x = [id |-> x.id, src |-> x.src, dst |-> x.dst, cond |-> x.cond] /\ IsId(x.id)

\* The clock is ahead of every number in an id that is not made of the time: of
\* those of documents written before, and of counts of nodes and edges.
ASSUME EditorAssumption ==
    /\ MaxNodes \in Nat /\ MaxEdges \in Nat
    /\ Gap \in Nat /\ Gap > 2 * MaxNodes + 1 /\ Gap > 2 * MaxEdges + 1

\* Any document may be opened: blanks, missing and repeated ids, edges without
\* ends. Its flow is within the bounds.
ASSUME LoadedAssumption ==
    \A f \in LoadedFlows :
        /\ IsTuple(f.nodes) /\ \A i \in DOMAIN f.nodes : f.nodes[i] = Blank \/ IsNode(f.nodes[i])
        /\ IsTuple(f.edges) /\ \A i \in DOMAIN f.edges : f.edges[i] = Blank \/ IsEdge(f.edges[i])
        /\ Len(NormalizeFlowStructure(f).nodes) <= MaxNodes
        /\ Len(NormalizeFlowStructure(f).edges) <= MaxEdges

ASSUME CasesAssumption == \A c \in CaseLists : IsTuple(c)

\* A mapped recording is a chain: its edges join its nodes.
ASSUME RecordingsAssumption ==
    \A r \in Recordings :
        /\ IsTuple(r.nodes) /\ \A i \in DOMAIN r.nodes : IsNode(r.nodes[i]) /\ r.nodes[i].id # Blank
        /\ IsTuple(r.edges) /\ \A i \in DOMAIN r.edges : IsEdge(r.edges[i])
        /\ Joined(r)

VARIABLES
    flow,           \* [nodes, edges]
    selectedNode,   \* an id, or None
    selectedEdge,   \* an id, or None
    now             \* the clock, in edits; ids are made of it

vars == <<flow, selectedNode, selectedEdge, now>>

(* Date.now(), from which ids are made. An operation takes far less time than *)
(* the user's next one: the edges an operation makes are numbered upwards     *)
(* from its time, Gap apart from the next operation's.                        *)
Time == Gap * (now + 1)

Init ==
    /\ flow \in { NormalizeFlowStructure(f) : f \in LoadedFlows }
    /\ selectedNode = None /\ selectedEdge = None
    /\ now = 0

Node(f, id) == f.nodes[CHOOSE i \in DOMAIN f.nodes : f.nodes[i].id = id]
Edge(f, id) == f.edges[CHOOSE i \in DOMAIN f.edges : f.edges[i].id = id]
Outgoing(f, id) == { i \in DOMAIN f.edges : f.edges[i].src = id }
Without(s, id) == Places(s, { i \in DOMAIN s : s[i].id # id })

\* createEdge and the appendEdge of both add operations: an edge that joins
\* two nodes already joined is not added.
CreateEdge(src, dst, index, cond) == [id |-> <<"edge", index>>, src |-> src, dst |-> dst, cond |-> cond]

AppendEdge(edges, src, dst, cond) ==
    IF \E i \in DOMAIN edges : edges[i].src = src /\ edges[i].dst = dst THEN edges
    ELSE Append(edges, CreateEdge(src, dst, Time + Len(edges), cond))

\* The flow becomes f, and the effect clears a selection that f does not have.
Become(f, node, edge) ==
    /\ now < MaxEdits /\ now' = now + 1
    /\ Len(f.nodes) <= MaxNodes /\ Len(f.edges) <= MaxEdges
    /\ flow' = f
    /\ selectedNode' = IF node \in Ids(f.nodes) THEN node ELSE None
    /\ selectedEdge' = IF edge \in Ids(f.edges) THEN edge ELSE None

----------------------------------------------------------------------------
(* Selection *)

SelectNode ==
    /\ now < MaxEdits
    /\ \E id \in Ids(flow.nodes) \union {None} :
        /\ selectedNode' = id /\ selectedEdge' = None
        /\ UNCHANGED <<flow, now>>

SelectEdge ==
    /\ now < MaxEdits
    /\ \E id \in Ids(flow.edges) :
        /\ selectedEdge' = id /\ selectedNode' = None
        /\ UNCHANGED <<flow, now>>

----------------------------------------------------------------------------
(* Nodes *)

\* The node a new one is put behind: the selected node, or the last of the
\* document that is no end.
AnchorNode ==
    LET open == { i \in DOMAIN flow.nodes : flow.nodes[i].type # "end" }
    IN  IF selectedNode # None /\ Node(flow, selectedNode).type # "end" THEN selectedNode
        ELSE IF open = {} THEN None ELSE LastOf(flow.nodes, open).id

FirstEnd == IF OfType(flow.nodes, "end") = {} THEN None
            ELSE FirstOf(flow.nodes, OfType(flow.nodes, "end")).id

\* The edge a new node is put into: the one to the end node, or the first.
PreferredOutgoing(anchor) ==
    LET out == Outgoing(flow, anchor)
        toEnd == { i \in out : flow.edges[i].dst = FirstEnd }
    IN  FirstOf(flow.edges, IF toEnd # {} THEN toEnd ELSE out)

\* Deviation: the edge that is split is not continued behind the new node.
EdgesCutAtNode(id, type) ==
    LET out == Outgoing(flow, AnchorNode)
        rest == IF out = {} THEN flow.edges ELSE Without(flow.edges, PreferredOutgoing(AnchorNode).id)
    IN  IF AnchorNode = None THEN flow.edges ELSE AppendEdge(rest, AnchorNode, id, "")

\* The edges after addNode: the new node goes between its anchor and what
\* followed it, an end node only behind its anchor.
EdgesWithNode(id, type) ==
    LET out == Outgoing(flow, AnchorNode)
        split == PreferredOutgoing(AnchorNode)
        behind == AppendEdge(flow.edges, AnchorNode, id, "")
    IN  CASE AnchorNode = None -> IF type # "end" /\ FirstEnd # None
                                  THEN AppendEdge(flow.edges, id, FirstEnd, "") ELSE flow.edges
          [] AnchorNode # None /\ type = "end" -> behind
          [] AnchorNode # None /\ type # "end" /\ out # {} ->
                AppendEdge(AppendEdge(Without(flow.edges, split.id), AnchorNode, id, ""),
                           id, split.dst, split.cond)
          [] OTHER -> IF FirstEnd # None THEN AppendEdge(behind, id, FirstEnd, "") ELSE behind

AddNode(type) ==
    LET node == NewNode(<<type, Time>>, type)
    IN  /\ Become([ nodes |-> Append(flow.nodes, node), edges |-> EdgesWithNode(node.id, type) ],
                  node.id, None)

\* Branch nodes and ends have no quick-add button; its menu, and the one of
\* an edge, offer every type but start.
HasQuickAdd(id) == Node(flow, id).type \notin BranchTypes \union {"end"}
OfferedTypes(menu) == IF menu = "canvas" THEN Types ELSE Types \ {"start"}

AddNodeFromSource(source, type) ==
    LET id == <<type, Time>>
        out == Outgoing(flow, source)
        only == FirstOf(flow.edges, out)
        behind == AppendEdge(flow.edges, source, id, "")
        edges == CASE type = "end" -> behind
                   [] type # "end" /\ Cardinality(out) = 1 ->
                        AppendEdge(AppendEdge(Without(flow.edges, only.id), source, id, ""),
                                   id, only.dst, only.cond)
                   [] type # "end" /\ out = {} /\ FirstEnd # None -> AppendEdge(behind, id, FirstEnd, "")
                   [] OTHER -> behind
    IN  /\ HasQuickAdd(source)
        /\ Become([nodes |-> Append(flow.nodes, NewNode(id, type)), edges |-> edges], id, None)

\* The plus on an edge; the condition of the edge goes to the second half.
InsertNodeOnEdge(edgeId, type) ==
    LET edge == Edge(flow, edgeId)
        id == <<type, Time>>
    IN  Become([ nodes |-> Append(flow.nodes, NewNode(id, type)),
                 edges |-> Without(flow.edges, edgeId)
                             \o << CreateEdge(edge.src, id, Time, ""),
                                   CreateEdge(id, edge.dst, Time + 1, edge.cond) >> ],
               id, None)

\* Deviation: only the edges that leave the node are removed with it.
RemoveNodeAndItsOutgoing(id) ==
    /\ Become([ nodes |-> Without(flow.nodes, id),
                edges |-> SelectSeq(flow.edges, LAMBDA e : e.src # id) ],
              IF selectedNode = id THEN None ELSE selectedNode, selectedEdge)

RemoveNode(id) ==
    LET others == { i \in DOMAIN flow.edges : id \notin {flow.edges[i].src, flow.edges[i].dst} }
    IN  Become([nodes |-> Without(flow.nodes, id), edges |-> Places(flow.edges, others)],
               IF selectedNode = id THEN None ELSE selectedNode, selectedEdge)

\* The panel shows the selected node. Its type list holds every type; the
\* configuration, and the edges, stay as they are.
UpdateNodeType(type) ==
    LET At(n) == IF n.id = selectedNode THEN [n EXCEPT !.type = type] ELSE n
    IN  /\ selectedNode # None
        /\ Become([flow EXCEPT !.nodes = [i \in DOMAIN @ |-> At(@[i])]], selectedNode, selectedEdge)

\* Deviation: the edges of removed cases stay.
UpdateCasesAlone(raw) ==
    LET cases == NormalizeSwitchCaseOptions(raw)
        At(n) == IF n.id = selectedNode THEN [n EXCEPT !.cases = cases] ELSE n
    IN  /\ selectedNode # None /\ Node(flow, selectedNode).type = "switchCase"
        /\ Become([flow EXCEPT !.nodes = [i \in DOMAIN @ |-> At(@[i])]], selectedNode, selectedEdge)

\* updateNodeConfig and replaceNodeConfig, on the one setting the graph
\* depends on.
UpdateNodeCases(raw) ==
    LET cases == NormalizeSwitchCaseOptions(raw)
        At(n) == IF n.id = selectedNode THEN [n EXCEPT !.cases = cases] ELSE n
    IN  /\ selectedNode # None /\ Node(flow, selectedNode).type = "switchCase"
        /\ Become([ nodes |-> [i \in DOMAIN flow.nodes |-> At(flow.nodes[i])],
                    edges |-> PruneSwitchCaseOutgoingEdges(flow.edges, selectedNode, cases) ],
                  selectedNode, selectedEdge)

----------------------------------------------------------------------------
(* Edges *)

\* isValidConnection and the guards of addEdge: a connection starts at a port
\* of its source, and a port of a branch node has one edge.
MayConnect(source, target, port) ==
    /\ source # target
    /\ Node(flow, source).type # "end" /\ Node(flow, target).type # "start"
    /\ port \in Handles(Node(flow, source))
    /\ \A i \in Outgoing(flow, source) :
          IF port = "" THEN flow.edges[i].dst # target ELSE flow.edges[i].cond # port

AddEdge(source, target, port) ==
    LET edge == CreateEdge(source, target, Time, port)
    IN  /\ MayConnect(source, target, port)
        /\ Become([flow EXCEPT !.edges = Append(@, edge)], None, edge.id)

\* The edge panel shows the selected edge: any condition may be typed.
UpdateEdge(cond) ==
    LET At(e) == IF e.id = selectedEdge THEN [e EXCEPT !.cond = cond] ELSE e
    IN  /\ selectedEdge # None
        /\ Become([flow EXCEPT !.edges = [i \in DOMAIN @ |-> At(@[i])]], selectedNode, selectedEdge)

RemoveEdge ==
    /\ selectedEdge # None
    /\ Become([flow EXCEPT !.edges = Without(@, selectedEdge)], selectedNode, None)

----------------------------------------------------------------------------
(* The whole flow *)

\* Validating, running or opening a flow normalises it first.
Normalize ==
    /\ Become(NormalizeFlowStructure(flow), selectedNode, selectedEdge)

LoadFlow(f) ==
    /\ Become(NormalizeFlowStructure(f), None, None)

ImportRecording(strategy, recording) ==
    LET f == ApplyRecorderImport(strategy, flow, recording, selectedNode, Time)
    IN  IF strategy = "preview" THEN UNCHANGED vars
        ELSE Become(f, IF f.nodes = <<>> THEN None ELSE f.nodes[1].id, None)

Next ==
    \/ SelectNode \/ SelectEdge \/ RemoveEdge \/ Normalize
    \/ \E type \in Types : UpdateNodeType(type)
    \/ \E type \in OfferedTypes("canvas") : AddNode(type)
    \/ \E type \in OfferedTypes("source"), id \in Ids(flow.nodes) : AddNodeFromSource(id, type)
    \/ \E type \in OfferedTypes("edge"), id \in Ids(flow.edges) : InsertNodeOnEdge(id, type)
    \/ \E id \in Ids(flow.nodes) : RemoveNode(id)
    \/ \E source, target \in Ids(flow.nodes) :
          \E port \in Handles(Node(flow, source)) : AddEdge(source, target, port)
    \/ \E cases \in CaseLists : UpdateNodeCases(cases)
    \/ \E cond \in Conditions : UpdateEdge(cond)
    \/ \E f \in LoadedFlows : LoadFlow(f)
    \/ \E strategy \in {"replace", "append", "preview"}, r \in Recordings :
          ImportRecording(strategy, r)

Spec == Init /\ [][Next]_vars

\* The edges that leave a switch leave it at its ports.
PortsListed(f) ==
    \A i \in DOMAIN f.nodes : f.nodes[i].type = "switchCase" =>
        \A k \in Outgoing(f, f.nodes[i].id) : f.edges[k].cond \in Handles(f.nodes[i])

\* Opening a document replaces the flow by what the document holds. Documents
\* without an edge at a lost port, and without a node that is cut off:
DocumentsListPorts == \A f \in LoadedFlows : PortsListed(NormalizeFlowStructure(f))

DocumentsAreConnected ==
    \A f \in LoadedFlows :
        LET opened == NormalizeFlowStructure(f)
        IN  Ids(opened.nodes) \subseteq Reached(opened)

----------------------------------------------------------------------------
(* Properties *)

\* Whatever is added, removed, imported or opened, in whatever order: every
\* edge joins two nodes of the flow, and no two nodes, or edges, share an id.
FlowIntact == Joined(flow) /\ Distinct(flow.nodes) /\ Distinct(flow.edges)

\* Adding a node (from the menu, a quick-add button or on an edge) or a
\* recording cuts nothing off: what could be reached from a start node still
\* can.
AddingCutsNothing ==
    [][ Ids(flow.nodes) \subseteq Ids(flow'.nodes) /\ Len(flow.nodes) < Len(flow'.nodes)
        => Reached(flow) \subseteq Reached(flow') ]_vars

\* When the cases of a switch change, no edge is left at a port that is gone.
NoEdgeAtLostPort ==
    [][ \A i \in DOMAIN flow.nodes, j \in DOMAIN flow'.nodes :
            /\ flow.nodes[i].id = flow'.nodes[j].id
            /\ flow.nodes[i].type = "switchCase" /\ flow'.nodes[j].type = "switchCase"
            /\ flow.nodes[i].cases # flow'.nodes[j].cases
            => \A k \in Outgoing(flow', flow.nodes[i].id) :
                    flow'.edges[k].cond \in Handles(flow'.nodes[j]) ]_vars

\* The import says "已将录制结果追加到当前流程" (useDesignerState.ts:1844): the
\* recorded steps are part of the current flow, a walk from its start gets to
\* them when it got everywhere before.
ImportIsReached ==
    [][ Reached(flow) = Ids(flow.nodes) /\ Len(flow'.nodes) > Len(flow.nodes)
        => Reached(flow') = Ids(flow'.nodes) ]_vars
=============================================================================
