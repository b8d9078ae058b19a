----------------------------- MODULE FlowGraph -----------------------------
(***************************************************************************)
(* Flows as graphs: the checks of the API (_validate_graph), the plan of   *)
(* the agent (build_plan) and the choice of the next node (registry.py).   *)
(*                                                                         *)
(* A flow is a record of type, a function from node ids to node types;     *)
(* edges, a sequence of [source, target, cond] in the order of the edge    *)
(* ids; and config, what the executor of each node reads.  Ids that occur  *)
(* twice and edges to nodes that do not exist have no place in that shape. *)
(***************************************************************************)
EXTENDS Naturals, Sequences, FiniteSets

CONSTANT None   \* no node, no condition

Branching == {"if", "loop", "switchCase", "rowLocate"}
NodeTypes == Branching \cup {"start", "end", "action", "tryCatch", "parallel", "break", "continue"}

NodesOf(f) == DOMAIN f.type
OfType(f, t) == {n \in NodesOf(f) : f.type[n] = t}
EdgesFrom(f, n) == {i \in DOMAIN f.edges : f.edges[i].source = n}
Targets(f, n) == {f.edges[i].target : i \in EdgesFrom(f, n)}
Incoming(f, n) == {i \in DOMAIN f.edges : f.edges[i].target = n}

IsFlow(f) ==
    /\ f = [type |-> f.type, edges |-> f.edges, config |-> f.config,
             body |-> f.body, structured |-> f.structured]
    /\ f.type \in [NodesOf(f) -> NodeTypes]
    /\ None \notin NodesOf(f)
    /\ DOMAIN f.edges \subseteq Nat
    /\ \A i \in DOMAIN f.edges : {f.edges[i].source, f.edges[i].target} \subseteq NodesOf(f)

\* The nodes that n leads to without passing through those of avoided: they
\* are in every set of nodes with n that has no edge out of it.
ReachableAvoiding(f, n, avoided) ==
    LET closed == {S \in SUBSET NodesOf(f) :
                     {n} \ avoided \subseteq S /\ \A m \in S : Targets(f, m) \ avoided \subseteq S}
    IN  {m \in NodesOf(f) : \A S \in closed : m \in S}
-----------------------------------------------------------------------------
(* _validate_graph *)

\* Conditions of which a node of the type may have one edge at most.
Exclusive(t) ==
    IF t = "if" THEN {"true", "false"}
    ELSE IF t = "loop" THEN {"body", "exit"}
    ELSE {"found", "notfound"}

DuplicatedBranch(f, n) ==
    \E i, j \in DOMAIN f.edges :
        /\ i # j
        /\ f.edges[i].source = n /\ f.edges[j].source = n
        /\ f.edges[i].cond = f.edges[j].cond
        /\ f.edges[i].cond # None
        /\ f.type[n] \in Branching
        /\ f.type[n] = "switchCase" \/ f.edges[i].cond \in Exclusive(f.type[n])

\* Mutant of Valid: nodes that lead nowhere pass.
ValidDeadEnds(f) ==
    /\ Cardinality(OfType(f, "start")) = 1
    /\ OfType(f, "end") # {}
    /\ \A n \in OfType(f, "start") :
        Incoming(f, n) = {} /\ ReachableAvoiding(f, n, {}) = NodesOf(f)
    /\ \A n \in NodesOf(f) :
        /\ f.type[n] = "end" => Targets(f, n) = {}
        /\ ~DuplicatedBranch(f, n)

Valid(f) ==
    /\ Cardinality(OfType(f, "start")) = 1
    /\ OfType(f, "end") # {}
    /\ \A n \in OfType(f, "start") :
        Incoming(f, n) = {} /\ ReachableAvoiding(f, n, {}) = NodesOf(f)
    /\ \A n \in NodesOf(f) :
        /\ f.type[n] = "end" <=> Targets(f, n) = {}
        /\ ~DuplicatedBranch(f, n)
-----------------------------------------------------------------------------
(* build_plan and the choice of the next node *)

\* What is left of build_plan's checks in this shape.
Plannable(f) == Cardinality(OfType(f, "start")) = 1
StartOf(f) == CHOOSE n \in OfType(f, "start") : TRUE

\* The executors get the outgoing edges in order: here their indices.
FirstTarget(f, out) ==
    IF out = {} THEN None ELSE f.edges[CHOOSE i \in out : \A j \in out : i <= j].target

\* _next_default takes the first edge, whatever its condition.
NextDefault(f, out) == FirstTarget(f, out)

\* _next_by_condition
NextByCondition(f, out, want) ==
    LET When(cond) == {i \in out : f.edges[i].cond = cond}
    IN  FirstTarget(f, IF When(want) # {} THEN When(want) ELSE When(None))

\* _next_by_condition(...) or _next_default(...), the idiom of the executors.
Route(f, out, want) ==
    LET n == NextByCondition(f, out, want)
    IN  IF n # None THEN n ELSE NextDefault(f, out)

\* _resolve_error_edge
ErrorEdge(f, out) == FirstTarget(f, {i \in out : f.edges[i].cond \in {"catch", "error"}})

\* What a branching node may ask for; a case of a switch may match nothing.
Wants(f, n) ==
    LET t == f.type[n] IN
    IF t = "if" THEN {"true", "false"}
    ELSE IF t = "rowLocate" THEN {"found", "notfound"}
    ELSE IF t = "tryCatch" THEN {"try"}
    ELSE IF t = "parallel" THEN {"main"}
    ELSE ({"default"} \cup {f.edges[i].cond : i \in EdgesFrom(f, n)})
            \ {None}
-----------------------------------------------------------------------------
(* Structure, which no check of the code asks for *)

\* The nodes between a loop and itself.
Body(f, l) ==
    LET entry == NextByCondition(f, EdgesFrom(f, l), "body")
    IN  IF entry \in NodesOf(f) THEN ReachableAvoiding(f, entry, {l}) ELSE {}

\* The loops a node is in.
Enclosing(f, n) == {l \in OfType(f, "loop") : n \in Body(f, l)}
Innermost(f, n) == {l \in Enclosing(f, n) : \A k \in Enclosing(f, n) : l \in Body(f, k) \cup {k}}

\* Loops are entered and left at the loop node, have somewhere else to go when
\* they are done, and lie in one another or apart; break and continue lead
\* straight to the loop they are in and name it or nothing.
Structured(f) ==
    /\ \A l \in OfType(f, "loop") :
        /\ Body(f, l) \cap (OfType(f, "start") \cup OfType(f, "end")) = {}
        /\ \A i \in DOMAIN f.edges :
            /\ f.edges[i].target \in Body(f, l)
                => f.edges[i].source \in Body(f, l)
                   \/ (f.edges[i].source = l /\ f.edges[i].cond = "body")
            /\ f.edges[i].source = l => f.edges[i].cond \in {"body", "exit"}
        /\ Route(f, EdgesFrom(f, l), "exit") \in NodesOf(f) \ (Body(f, l) \cup {l})
        /\ l \in UNION {Targets(f, n) : n \in Body(f, l)}
    /\ \A k, l \in OfType(f, "loop") : k # l =>
        \/ Body(f, k) \subseteq Body(f, l)
        \/ Body(f, l) \subseteq Body(f, k)
        \/ Body(f, k) \cap Body(f, l) = {}
    /\ \A n \in OfType(f, "break") \cup OfType(f, "continue") :
        /\ Targets(f, n) = Innermost(f, n)
        /\ Innermost(f, n) # {}
        /\ f.config[n].loopId \in Innermost(f, n) \cup {None}
=============================================================================
