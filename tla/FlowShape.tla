------------------------------ MODULE FlowShape ------------------------------
(* The flow document of the designer and the pure functions on it: branch     *)
(* ports, unique ids, and the normalisation every flow passes before it is    *)
(* shown, validated or run (useDesignerState.ts, utils/flow.ts).              *)
(*                                                                            *)
(* A flow is [nodes, edges], two sequences in document order. An id is a      *)
(* tuple of the parts of the code's string: `click_17` is <<"click", 17>>,    *)
(* the suffix uniqueId adds is one more part, and Blank is the empty string.  *)
(* Labels, configuration and canvas positions are left out; the one part of   *)
(* the configuration the graph depends on, the cases of a switch, is kept.    *)
EXTENDS Integers, Sequences, FiniteSets, SequencesExt

CONSTANT MaxCases       \* normalizeSwitchCaseOptions keeps 8 cases

ASSUME MaxCasesAssumption == MaxCases \in Nat \ {0}

Blank == <<>>
None == <<"none">>      \* null, for a node or an edge

BranchTypes == {"if", "loop", "switchCase", "rowLocate"}

Ids(s) == { s[i].id : i \in DOMAIN s }
OfType(nodes, type) == { i \in DOMAIN nodes : nodes[i].type = type }

\* Array.find: the first element of s with a property of its index set I.
FirstOf(s, I) == s[CHOOSE i \in I : \A j \in I : i <= j]
LastOf(s, I) == s[CHOOSE i \in I : \A j \in I : i >= j]

\* Array.filter: the elements of s at the places of I, in their order.
Places(s, I) ==
    FoldLeft(LAMBDA kept, i : IF i \in I THEN Append(kept, s[i]) ELSE kept, <<>>,
             [i \in DOMAIN s |-> i])

----------------------------------------------------------------------------
(* Ids *)

Suffixed(base, from, used) ==
    LET free == { n \in from .. from + Cardinality(used) : Append(base, n) \notin used }
    IN  Append(base, CHOOSE n \in free : \A m \in free : n <= m)

UniqueId(base, used) ==
    IF base \in used THEN Suffixed(base, 2, used) ELSE base

\* Deviation: any non-blank id is kept.
KeepsDuplicateIds(raw, prefix, used) ==
    IF raw # Blank THEN raw ELSE Suffixed(<<prefix>>, Cardinality(used) + 1, used)

EnsureUniqueId(raw, prefix, used) ==
    IF raw # Blank /\ raw \notin used
    THEN raw ELSE Suffixed(<<prefix>>, Cardinality(used) + 1, used)

----------------------------------------------------------------------------
(* Branch ports *)

DefaultLast(cases) ==
    IF Contains(cases, "default") THEN cases ELSE Append(cases, "default")

NormalizeSwitchCaseOptions(raw) ==
    LET deduped == FoldLeft(LAMBDA seen, c : IF c = "" \/ Contains(seen, c) THEN seen
                                             ELSE Append(seen, c), <<>>, raw)
        all == DefaultLast(deduped)
    IN  IF Len(all) <= MaxCases THEN all ELSE SubSeq(all, 1, MaxCases)

Handles(node) ==
    CASE node.type = "if" -> {"true", "false"}
      [] node.type = "loop" -> {"body", "exit"}
      [] node.type = "rowLocate" -> {"found", "notFound"}
      [] node.type = "switchCase" -> ToSet(NormalizeSwitchCaseOptions(node.cases))
      [] OTHER -> {""}

\* The outgoing edges a switch keeps when its cases become `cases`: those of
\* a listed case, the first of each.
PruneSwitchCaseOutgoingEdges(edges, source, cases) ==
    LET Kept(i) == \/ edges[i].src # source
                   \/ /\ edges[i].cond \in ToSet(cases)
                      /\ \A j \in 1 .. i - 1 : ~ ( /\ edges[j].src = source
                                                   /\ edges[j].cond = edges[i].cond )
    IN  Places(edges, { i \in DOMAIN edges : Kept(i) })

----------------------------------------------------------------------------
(* normalizeFlowStructure. A raw element is a record, or Blank for anything   *)
(* that is not an object.                                                     *)

NormalNode(acc, raw) ==
    IF raw = Blank THEN acc
    ELSE LET type == IF raw.type = "" THEN "wait" ELSE raw.type
         IN  Append(acc, [raw EXCEPT !.type = type,
                                     !.id = EnsureUniqueId(raw.id, type, Ids(acc))])

NewNode(id, type) == [id |-> id, type |-> type, cases |-> <<>>]

WithStart(nodes) ==
    IF OfType(nodes, "start") # {} THEN nodes
    ELSE Cons(NewNode(EnsureUniqueId(<<"n_start">>, "start", Ids(nodes)), "start"), nodes)

WithEnd(nodes) ==
    IF OfType(nodes, "end") # {} THEN nodes
    ELSE Append(nodes, NewNode(EnsureUniqueId(<<"n_end">>, "end", Ids(nodes)), "end"))

NormalNodes(raw) == WithEnd(WithStart(FoldLeft(NormalNode, <<>>, raw)))

\* Deviation: an edge whose ends are nodes is kept, a loop on one node too.
KeepsSelfLoops(raw, nodes) ==
    SelectSeq(raw, LAMBDA edge : edge # Blank /\ {edge.src, edge.dst} \subseteq Ids(nodes))

NormalEdges(raw, nodes) ==
    LET Keep(acc, edge) ==
            IF \/ edge = Blank
               \/ edge.src \in {Blank, edge.dst} \/ edge.dst = Blank
               \/ ~ {edge.src, edge.dst} \subseteq Ids(nodes)
            THEN acc
            ELSE Append(acc, [edge EXCEPT !.id = EnsureUniqueId(edge.id, "edge", Ids(acc))])
        kept == FoldLeft(Keep, <<>>, raw)
    IN  IF kept # <<>> THEN kept
        ELSE << [ id |-> <<"e_start_end">>,
                  src |-> FirstOf(nodes, OfType(nodes, "start")).id,
                  dst |-> FirstOf(nodes, OfType(nodes, "end")).id,
                  cond |-> "" ] >>

NormalizeFlowStructure(flow) ==
    LET nodes == NormalNodes(flow.nodes)
    IN  [nodes |-> nodes, edges |-> NormalEdges(flow.edges, nodes)]

----------------------------------------------------------------------------
(* What a flow has to be *)

Distinct(s) == \A i, j \in DOMAIN s : s[i].id = s[j].id => i = j

Joined(flow) ==
    \A i \in DOMAIN flow.edges : {flow.edges[i].src, flow.edges[i].dst} \subseteq Ids(flow.nodes)

\* The nodes a walk along the edges reaches from the start nodes: one step
\* from what is reached so far, as often as there are nodes.
Reached(flow) ==
    LET starts == { flow.nodes[i].id : i \in OfType(flow.nodes, "start") }
        Onwards(S, node) ==
            S \union { flow.edges[i].dst : i \in { j \in DOMAIN flow.edges : flow.edges[j].src \in S } }
    IN  FoldLeft(Onwards, starts, flow.nodes)

Whole(flow) ==
    /\ Distinct(flow.nodes) /\ Distinct(flow.edges)
    /\ Joined(flow)
    /\ \A i \in DOMAIN flow.edges : flow.edges[i].src # flow.edges[i].dst
    /\ OfType(flow.nodes, "start") # {} /\ OfType(flow.nodes, "end") # {}
    /\ flow.edges # <<>>
=============================================================================
