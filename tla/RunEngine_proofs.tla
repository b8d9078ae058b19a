-------------------------- MODULE RunEngine_proofs --------------------------
(***************************************************************************)
(* Theorems about RunEngine, for every flow and every run of it.           *)
(***************************************************************************)
EXTENDS RunEngine, FiniteSetTheorems, SequenceTheorems, WellFoundedInduction, NaturalsInduction, TLAPS

(***************************************************************************)
(* What the proofs need of the flow: the edges join its nodes, and of a    *)
(* structured one, where its edges lead.                                   *)
(***************************************************************************)
Wired ==
    /\ flow.type \in [NodesOf(flow) -> NodeTypes]
    /\ None \notin NodesOf(flow)
    /\ DOMAIN flow.edges \subseteq Nat
    /\ \A i \in DOMAIN flow.edges : flow.edges[i].source \in NodesOf(flow) /\ flow.edges[i].target \in NodesOf(flow)
    /\ \A n \in NodesOf(flow) : flow.config[n].items \subseteq Nat

\* No edge enters or leaves the body of a loop except at the loop.
BodiesClosed ==
    /\ \A l \in Loops : flow.body[l] \subseteq NodesOf(flow) /\ l \notin flow.body[l]
    /\ \A l \in Loops, i \in DOMAIN flow.edges :
        /\ flow.edges[i].source \in flow.body[l] => flow.edges[i].target \in flow.body[l] \cup {l}
        /\ flow.edges[i].target \in flow.body[l] => flow.edges[i].source \in flow.body[l] \cup {l}
    /\ \A l \in Loops, n \in NodesOf(flow) : flow.type[n] = "start" => n \notin flow.body[l]

LoopsLead ==
    \A l \in Loops :
        /\ Route(flow, EdgesFrom(flow, l), "body") \in flow.body[l]
        /\ Route(flow, EdgesFrom(flow, l), "exit") \in NodesOf(flow) \ (flow.body[l] \cup {l})

\* Nearest(n, l): l is the loop around n that is inside of all the others.
Nearest(n, l) == l \in Around(n) /\ \A k \in Around(n) : l \in flow.body[k] \cup {k}

JumpsLead ==
    \A n \in NodesOf(flow) : flow.type[n] \in {"break", "continue"} =>
        /\ Targets(flow, n) # {}
        /\ \A t \in Targets(flow, n) : Nearest(n, t)
        /\ flow.config[n].loopId # None => Nearest(n, flow.config[n].loopId)

FlowFits == Wired /\ (flow.structured => BodiesClosed /\ LoopsLead /\ JumpsLead)

(***************************************************************************)
(* The inductive invariant.                                                *)
(***************************************************************************)
Counted ==
    /\ counter \in [Loops -> Nat]
    /\ passes \in [Loops -> Nat]
    /\ items \in [Loops -> Nat \cup {None}]

\* Where the run is.
Located ==
    /\ pc \in {"submit", "head", "execute", "done"}
    /\ pc = "submit" =>
        /\ current = None /\ stack = <<>> /\ breakTarget = None
        /\ \A l \in Loops : counter[l] = 0 /\ passes[l] = 0 /\ items[l] = None
    /\ current \in NodesOf(flow) \cup {None}
    /\ pc \in {"head", "execute"} => current # None

\* A run that the API started is of a valid flow.
ApiValid == via = "api" => ~ stuck /\ (pc \in {"head", "execute"} => Valid(flow))

\* A loop over a source has begun no more passes than it has items.
WithinItems ==
    \A l \in Loops : flow.config[l].source =>
        IF items[l] = None THEN counter[l] = 0 ELSE counter[l] <= items[l]

\* Each loop on the stack is inside of those before it, and of no other.
Stacked(s) ==
    /\ s \in Seq(Loops)
    /\ \A i \in DOMAIN s : Around(s[i]) = {s[m] : m \in 1 .. i - 1}

\* The stack holds the loops around the current node, and the node itself if
\* it is a loop that is come back to.
StackFits == Stacked(stack) /\ {stack[i] : i \in DOMAIN stack} \ {current} = Around(current)

\* What is remembered of loop l when the run is at n, which is final if over.
Remembers(l, n, over) ==
    IF n \in flow.body[l] THEN counter[l] = passes[l]
    ELSE IF n = l THEN over \/ counter[l] = passes[l]
    ELSE counter[l] = 0 /\ items[l] = None /\ breakTarget # l

LoopsFit ==
    flow.structured /\ current # None =>
        StackFits /\ \A l \in Loops : Remembers(l, current, pc = "done")

IInv == FlowFits /\ Counted /\ Located /\ ApiValid /\ WithinItems /\ LoopsFit

(***************************************************************************)
(* The graph.                                                              *)
(***************************************************************************)
LEMMA LeastIndex ==
    ASSUME NEW I \in SUBSET Nat, I # {}
    PROVE  (CHOOSE i \in I : \A j \in I : i <= j) \in I
<1>1. PICK m \in I : \A j \in I : ~ (<<j, m>> \in OpToRel(<, Nat))
  BY WFMin, NatLessThanWellFounded
<1>2. \A j \in I : m <= j
  <2> SUFFICES ASSUME NEW j \in I PROVE m <= j
    OBVIOUS
  <2>1. ~ (j < m)
    BY <1>1 DEF OpToRel
  <2> QED BY <2>1
<1>3. \E i \in I : \A j \in I : i <= j
  BY <1>2
<1> QED BY <1>3

\* The executors go along an edge if they are given one.
LEMMA FirstIsTarget ==
    ASSUME NEW f, NEW out, out \subseteq DOMAIN f.edges, DOMAIN f.edges \subseteq Nat
    PROVE  /\ out = {} => FirstTarget(f, out) = None
           /\ out # {} => \E i \in out : FirstTarget(f, out) = f.edges[i].target
<1>1. ASSUME out # {}
      PROVE  \E i \in out : FirstTarget(f, out) = f.edges[i].target
  <2> DEFINE least == CHOOSE i \in out : \A j \in out : i <= j
  <2>1. least \in out
    BY <1>1, LeastIndex
  <2>2. FirstTarget(f, out) = f.edges[least].target
    BY <1>1 DEF FirstTarget
  <2> HIDE DEF least
  <2> QED BY <2>1, <2>2
<1> QED BY <1>1 DEF FirstTarget

\* A choice by condition goes along an edge, or nowhere.
LEMMA RouteIsTarget ==
    ASSUME NEW f, NEW n, NEW want, DOMAIN f.edges \subseteq Nat,
           \A i \in DOMAIN f.edges : f.edges[i].target # None
    PROVE  /\ NextByCondition(f, EdgesFrom(f, n), want) \in Targets(f, n) \cup {None}
           /\ Route(f, EdgesFrom(f, n), want) \in Targets(f, n) \cup {None}
           /\ NextDefault(f, EdgesFrom(f, n)) \in Targets(f, n) \cup {None}
           /\ ErrorEdge(f, EdgesFrom(f, n)) \in Targets(f, n) \cup {None}
           /\ Targets(f, n) # {} =>
                NextDefault(f, EdgesFrom(f, n)) # None /\ Route(f, EdgesFrom(f, n), want) # None
<1> DEFINE out == EdgesFrom(f, n)
<1>1. out \subseteq DOMAIN f.edges /\ Targets(f, n) = {f.edges[i].target : i \in out}
  BY DEF EdgesFrom, Targets
<1> HIDE DEF out
<1>2. ASSUME NEW some \in SUBSET out
      PROVE  FirstTarget(f, some) \in Targets(f, n) \cup {None}
  <2>1. some \subseteq DOMAIN f.edges
    BY <1>1
  <2> QED BY <1>1, <2>1, FirstIsTarget
<1>3. NextDefault(f, out) \in Targets(f, n) \cup {None}
  BY <1>2 DEF NextDefault
<1>4. NextByCondition(f, out, want) \in Targets(f, n) \cup {None}
  <2> DEFINE When(cond) == {i \in out : f.edges[i].cond = cond}
             I == IF When(want) # {} THEN When(want) ELSE When(None)
  <2>1. NextByCondition(f, out, want) = FirstTarget(f, I)
    BY DEF NextByCondition
  <2>2. I \in SUBSET out
    OBVIOUS
  <2> HIDE DEF I
  <2> QED BY <1>2, <2>1, <2>2
<1>5. ErrorEdge(f, out) \in Targets(f, n) \cup {None}
  BY <1>2 DEF ErrorEdge
<1>6. Route(f, out, want) \in Targets(f, n) \cup {None}
  BY <1>3, <1>4 DEF Route
<1>7. Targets(f, n) # {} => NextDefault(f, out) # None
  <2> SUFFICES ASSUME Targets(f, n) # {} PROVE NextDefault(f, out) # None
    OBVIOUS
  <2>1. out # {}
    BY <1>1
  <2>2. \E i \in out : FirstTarget(f, out) = f.edges[i].target
    BY <1>1, <2>1, FirstIsTarget
  <2> QED BY <1>1, <2>2 DEF NextDefault
<1>8. Targets(f, n) # {} => Route(f, out, want) # None
  BY <1>7 DEF Route
<1> QED BY <1>3, <1>4, <1>5, <1>6, <1>7, <1>8 DEF out

\* What can be reached is closed under the edges, but for what is avoided.
LEMMA ReachedIsClosed ==
    ASSUME NEW f, NEW n \in NodesOf(f), NEW avoided,
           \A i \in DOMAIN f.edges : f.edges[i].target \in NodesOf(f)
    PROVE  LET R == ReachableAvoiding(f, n, avoided) IN
           /\ R \subseteq NodesOf(f) /\ R \cap avoided = {}
           /\ n \notin avoided => n \in R
           /\ n \in avoided => R = {}
           /\ \A i \in DOMAIN f.edges :
                f.edges[i].source \in R => f.edges[i].target \in R \cup avoided
<1> DEFINE closed == {S \in SUBSET NodesOf(f) :
                        {n} \ avoided \subseteq S /\ \A m \in S : Targets(f, m) \ avoided \subseteq S}
           R == ReachableAvoiding(f, n, avoided)
<1>1. R = {m \in NodesOf(f) : \A S \in closed : m \in S}
  BY DEF ReachableAvoiding
<1>2. \A m : Targets(f, m) \subseteq NodesOf(f)
  BY DEF Targets, EdgesFrom
<1> HIDE DEF R
<1>3. NodesOf(f) \ avoided \in closed
  BY <1>2
<1>4. ASSUME NEW i \in DOMAIN f.edges, f.edges[i].source \in R, f.edges[i].target \notin avoided
      PROVE  f.edges[i].target \in R
  <2> SUFFICES ASSUME NEW S \in closed PROVE f.edges[i].target \in S
    BY <1>1
  <2>1. f.edges[i].source \in S
    BY <1>1, <1>4
  <2>2. f.edges[i].target \in Targets(f, f.edges[i].source)
    BY DEF Targets, EdgesFrom
  <2>3. Targets(f, f.edges[i].source) \ avoided \subseteq S
    BY <2>1
  <2> QED BY <1>4, <2>2, <2>3
<1>5. n \notin avoided => n \in R
  BY <1>1
<1>6. R \subseteq NodesOf(f) /\ R \cap avoided = {}
  BY <1>1, <1>3
<1>7. n \in avoided => R = {}
  <2>1. n \in avoided => {} \in closed
    OBVIOUS
  <2> QED BY <1>1, <2>1
<1> QED BY <1>4, <1>5, <1>6, <1>7 DEF R

LEMMA BodyFacts ==
    ASSUME NEW f, IsFlow(f), Structured(f), NEW l \in OfType(f, "loop")
    PROVE  /\ Body(f, l) \subseteq NodesOf(f) /\ l \notin Body(f, l)
           /\ \A i \in DOMAIN f.edges :
                /\ f.edges[i].source \in Body(f, l) => f.edges[i].target \in Body(f, l) \cup {l}
                /\ f.edges[i].target \in Body(f, l) => f.edges[i].source \in Body(f, l) \cup {l}
           /\ Body(f, l) \cap OfType(f, "start") = {}
           /\ Route(f, EdgesFrom(f, l), "body") \in Body(f, l)
           /\ Route(f, EdgesFrom(f, l), "exit") \in NodesOf(f) \ (Body(f, l) \cup {l})
<1> DEFINE entry == NextByCondition(f, EdgesFrom(f, l), "body")
           B == Body(f, l)
<1>1. /\ B \cap (OfType(f, "start") \cup OfType(f, "end")) = {}
      /\ \A i \in DOMAIN f.edges :
            f.edges[i].target \in B =>
                f.edges[i].source \in B \/ (f.edges[i].source = l /\ f.edges[i].cond = "body")
      /\ Route(f, EdgesFrom(f, l), "exit") \in NodesOf(f) \ (B \cup {l})
      /\ l \in UNION {Targets(f, n) : n \in B}
  BY DEF Structured
<1>2. B = IF entry \in NodesOf(f) THEN ReachableAvoiding(f, entry, {l}) ELSE {}
  BY DEF Body
<1>3. \A i \in DOMAIN f.edges : f.edges[i].target \in NodesOf(f)
  BY DEF IsFlow
<1> HIDE DEF entry, B
<1>4. B # {}
  BY <1>1
<1>5. entry \in NodesOf(f) /\ B = ReachableAvoiding(f, entry, {l})
  BY <1>2, <1>4
<1>6. /\ B \subseteq NodesOf(f) /\ B \cap {l} = {}
      /\ entry \notin {l} => entry \in B
      /\ entry \in {l} => B = {}
      /\ \A i \in DOMAIN f.edges : f.edges[i].source \in B => f.edges[i].target \in B \cup {l}
  BY <1>3, <1>5, ReachedIsClosed
<1>7. entry \in B /\ entry # None
  BY <1>4, <1>5, <1>6 DEF IsFlow
<1>8. Route(f, EdgesFrom(f, l), "body") = entry
  BY <1>7 DEF Route, entry
<1> QED BY <1>1, <1>6, <1>7, <1>8 DEF B

LEMMA ShapedFacts ==
    ASSUME NEW f, IsFlow(f)
    PROVE  /\ Shaped(f).type = f.type /\ Shaped(f).edges = f.edges /\ Shaped(f).config = f.config
           /\ Shaped(f).body = [l \in OfType(f, "loop") |-> Body(f, l)]
           /\ Shaped(f).structured = Structured(f)
<1> DEFINE body == [l \in OfType(f, "loop") |-> Body(f, l)]
           structured == Structured(f)
<1>1. Shaped(f) = [f EXCEPT !.body = body, !.structured = structured]
  BY DEF Shaped
<1>2. f = [type |-> f.type, edges |-> f.edges, config |-> f.config,
           body |-> f.body, structured |-> f.structured]
  BY DEF IsFlow
<1> HIDE DEF body, structured
<1>3. Shaped(f) = [type |-> f.type, edges |-> f.edges, config |-> f.config,
                   body |-> body, structured |-> structured]
  BY <1>1, <1>2
<1> QED BY <1>3 DEF body, structured

\* Whatever is submitted, the flow of the run is one the proofs can rely on.
LEMMA FlowFitsInit == Init => FlowFits
<1> SUFFICES ASSUME Init PROVE FlowFits
  OBVIOUS
<1>1. PICK s \in Submissions : flow = Shaped(s[1])
  BY DEF Init
<1> DEFINE f == s[1]
<1>2. IsFlow(f) /\ \A n \in NodesOf(f) : f.config[n].items \subseteq Nat
  BY EngineAssumption
<1>3. flow = Shaped(f)
  BY <1>1
<1> HIDE DEF f
<1>4. /\ flow.type = f.type /\ flow.edges = f.edges /\ flow.config = f.config
      /\ flow.body = [l \in OfType(f, "loop") |-> Body(f, l)]
      /\ flow.structured = Structured(f)
  BY <1>2, <1>3, ShapedFacts
<1>5. NodesOf(flow) = NodesOf(f) /\ Loops = OfType(f, "loop") /\ Loops \subseteq NodesOf(f)
  BY <1>4 DEF NodesOf, Loops, OfType
<1>6. \A l \in Loops : flow.body[l] = Body(f, l)
  BY <1>4, <1>5
<1>7. \A n : EdgesFrom(flow, n) = EdgesFrom(f, n) /\ Targets(flow, n) = Targets(f, n)
  BY <1>4 DEF EdgesFrom, Targets
<1>8. \A n, want : Route(flow, EdgesFrom(flow, n), want) = Route(f, EdgesFrom(f, n), want)
  <2>1. \A out : FirstTarget(flow, out) = FirstTarget(f, out)
    BY <1>4 DEF FirstTarget
  <2>2. ASSUME NEW out, NEW want PROVE NextByCondition(flow, out, want) = NextByCondition(f, out, want)
    <3>1. \A cond : {i \in out : flow.edges[i].cond = cond} = {i \in out : f.edges[i].cond = cond}
      BY <1>4
    <3> QED BY <2>1, <3>1 DEF NextByCondition
  <2>3. \A out : NextDefault(flow, out) = NextDefault(f, out)
    BY <2>1 DEF NextDefault
  <2> QED BY <1>7, <2>2, <2>3 DEF Route
<1>9. Wired
  BY <1>2, <1>4, <1>5 DEF Wired, IsFlow
<1>10. ASSUME Structured(f) PROVE BodiesClosed
  <2>1. ASSUME NEW l \in Loops
        PROVE  /\ flow.body[l] \subseteq NodesOf(flow) /\ l \notin flow.body[l]
               /\ \A i \in DOMAIN flow.edges :
                    /\ flow.edges[i].source \in flow.body[l] => flow.edges[i].target \in flow.body[l] \cup {l}
                    /\ flow.edges[i].target \in flow.body[l] => flow.edges[i].source \in flow.body[l] \cup {l}
               /\ flow.body[l] \cap OfType(f, "start") = {}
    BY <1>2, <1>4, <1>5, <1>6, <1>10, BodyFacts
  <2>2. \A n \in NodesOf(flow) : flow.type[n] = "start" => n \in OfType(f, "start")
    BY <1>4, <1>5 DEF OfType
  <2> QED BY <2>1, <2>2 DEF BodiesClosed
<1>11. ASSUME Structured(f) PROVE LoopsLead
  <2>1. ASSUME NEW l \in Loops
        PROVE  /\ Route(f, EdgesFrom(f, l), "body") \in Body(f, l)
               /\ Route(f, EdgesFrom(f, l), "exit") \in NodesOf(f) \ (Body(f, l) \cup {l})
    BY <1>2, <1>5, <1>11, BodyFacts
  <2> QED BY <1>5, <1>6, <1>8, <2>1 DEF LoopsLead
<1>12. ASSUME Structured(f) PROVE JumpsLead
  <2>1. ASSUME NEW n, NEW t \in Innermost(f, n) PROVE Nearest(n, t)
    BY <1>5, <1>6, <2>1 DEF Innermost, Enclosing, Nearest, Around
  <2>2. ASSUME NEW n \in NodesOf(flow), flow.type[n] \in {"break", "continue"}
        PROVE  /\ Targets(f, n) = Innermost(f, n) /\ Innermost(f, n) # {}
               /\ f.config[n].loopId \in Innermost(f, n) \cup {None}
    <3>1. n \in OfType(f, "break") \cup OfType(f, "continue")
      BY <1>4, <1>5, <2>2 DEF OfType
    <3> QED BY <1>12, <3>1 DEF Structured
  <2> QED BY <1>4, <1>7, <2>1, <2>2 DEF JumpsLead
<1> QED BY <1>4, <1>9, <1>10, <1>11, <1>12 DEF FlowFits

(***************************************************************************)
(* The stack.                                                              *)
(***************************************************************************)
LEMMA NotAroundItself == FlowFits /\ flow.structured => \A l \in Loops : l \notin Around(l)
BY DEF FlowFits, BodiesClosed, Around

LEMMA StackedOnce ==
    ASSUME FlowFits, flow.structured, NEW s, Stacked(s), NEW i \in DOMAIN s, NEW j \in DOMAIN s, s[i] = s[j]
    PROVE  i = j
<1>1. s \in Seq(Loops) /\ DOMAIN s = 1 .. Len(s) /\ Len(s) \in Nat
  BY DEF Stacked
<1>2. ASSUME NEW k \in DOMAIN s, NEW m \in DOMAIN s, k < m PROVE s[k] # s[m]
  <2>1. s[m] \in Loops
    BY <1>1
  <2>2. Around(s[m]) = {s[q] : q \in 1 .. m - 1}
    BY DEF Stacked
  <2>3. k \in 1 .. m - 1
    BY <1>1, <1>2
  <2> QED BY <2>1, <2>2, <2>3, NotAroundItself
<1> QED BY <1>1, <1>2

\* A loop that puts itself on the stack is the last one there, on top of the
\* loops around it.
LEMMA EnteredFits ==
    ASSUME FlowFits, flow.structured, NEW l \in Loops, current = l, StackFits
    PROVE  /\ Stacked(Entered(l))
           /\ Len(Entered(l)) \in Nat \ {0} /\ Entered(l)[Len(Entered(l))] = l
           /\ \A i \in 1 .. Len(Entered(l)) - 1 : Entered(l)[i] # l
           /\ {Entered(l)[i] : i \in 1 .. Len(Entered(l)) - 1} = Around(l)
           /\ {Entered(l)[i] : i \in DOMAIN Entered(l)} = Around(l) \cup {l}
<1> DEFINE top == Len(stack)
           e == Entered(l)
<1>1. /\ stack \in Seq(Loops) /\ top \in Nat /\ DOMAIN stack = 1 .. top
      /\ Stacked(stack) /\ {stack[i] : i \in DOMAIN stack} \ {l} = Around(l)
      /\ \A i \in DOMAIN stack : stack[i] \in Loops /\ Around(stack[i]) = {stack[m] : m \in 1 .. i - 1}
  BY DEF StackFits, Stacked
<1>2. l \notin Around(l)
  BY NotAroundItself
<1> SUFFICES /\ Stacked(e) /\ Len(e) \in Nat \ {0} /\ e[Len(e)] = l
             /\ {e[i] : i \in 1 .. Len(e) - 1} = Around(l)
  <2> HIDE DEF e
  <2>1. e \in Seq(Loops) /\ DOMAIN e = 1 .. Len(e) /\ Len(e) \in Nat \ {0}
    BY DEF Stacked
  <2>2. \A i \in 1 .. Len(e) - 1 : e[i] # l
    BY <1>2
  <2>3. {e[i] : i \in DOMAIN e} = Around(l) \cup {l}
    <3>1. \A i \in DOMAIN e : i \in 1 .. Len(e) - 1 \/ i = Len(e)
      BY <2>1
    <3>2. Len(e) \in DOMAIN e /\ 1 .. Len(e) - 1 \subseteq DOMAIN e
      BY <2>1
    <3> QED BY <3>1, <3>2
  <2> QED BY <2>2, <2>3 DEF e
<1>3. CASE stack # <<>> /\ stack[top] = l
  <2>1. e = stack /\ top # 0 /\ top \in DOMAIN stack
    BY <1>1, <1>3 DEF Entered
  <2>2. Around(l) = {stack[m] : m \in 1 .. top - 1}
    BY <1>1, <1>3, <2>1
  <2> HIDE DEF e
  <2> QED BY <1>1, <1>3, <2>1, <2>2
<1>4. CASE ~ (stack # <<>> /\ stack[top] = l)
  <2>1. e = Append(stack, l)
    BY <1>4 DEF Entered
  <2>2. /\ e \in Seq(Loops) /\ Len(e) = top + 1 /\ e[top + 1] = l
        /\ \A i \in 1 .. top : e[i] = stack[i]
    BY <1>1, <2>1
  <2> HIDE DEF e
  <2>3. ASSUME NEW i \in DOMAIN stack PROVE stack[i] # l
    <3> SUFFICES ASSUME stack[i] = l PROVE FALSE
      OBVIOUS
    <3>1. top \in DOMAIN stack /\ i \in 1 .. top - 1
      BY <1>1, <1>4
    <3>2. stack[top] # l
      BY <1>1, <3>1, StackedOnce
    <3>3. stack[top] \in Around(stack[i])
      BY <1>1, <3>1, <3>2
    <3>4. PICK m \in 1 .. i - 1 : stack[m] = stack[top]
      BY <1>1, <3>3
    <3>5. m \in DOMAIN stack /\ m # top
      <4>1. top \in Nat /\ DOMAIN stack = 1 .. top
        BY <1>1
      <4> HIDE DEF top
      <4>2. i \in Int /\ m \in Int /\ 1 <= m /\ m <= i - 1 /\ i <= top - 1
        BY <3>1, <4>1
      <4>3. m \in 1 .. top /\ m # top
        BY <4>1, <4>2
      <4> QED BY <4>1, <4>3
    <3>6. Stacked(stack) /\ top \in DOMAIN stack /\ m \in DOMAIN stack /\ stack[m] = stack[top]
      BY <1>1, <3>1, <3>4, <3>5
    <3> HIDE DEF top
    <3>7. m = top
      BY <3>6, StackedOnce
    <3> QED BY <3>5, <3>7
  <2>4. {e[i] : i \in 1 .. top} = Around(l)
    BY <1>1, <2>2, <2>3
  <2>5. Stacked(e)
    <3> SUFFICES ASSUME NEW i \in 1 .. top + 1
                 PROVE  Around(e[i]) = {e[m] : m \in 1 .. i - 1}
      BY <1>1, <2>2 DEF Stacked
    <3>1. CASE i = top + 1
      <4>1. i - 1 = top
        BY <1>1, <3>1
      <4> QED BY <2>2, <2>4, <3>1, <4>1
    <3>2. CASE i # top + 1
      <4>1. i \in DOMAIN stack /\ e[i] = stack[i] /\ \A m \in 1 .. i - 1 : e[m] = stack[m]
        BY <1>1, <2>2, <3>2
      <4>2. Around(stack[i]) = {stack[m] : m \in 1 .. i - 1}
        BY <1>1, <4>1
      <4> QED BY <4>1, <4>2
    <3> QED BY <3>1, <3>2
  <2>6. Len(e) \in Nat \ {0} /\ e[Len(e)] = l /\ Len(e) - 1 = top
    BY <1>1, <2>2
  <2> QED BY <2>4, <2>5, <2>6
<1> QED BY <1>3, <1>4

\* Taken off, it leaves the loops around it.
LEMMA WithoutLast ==
    ASSUME NEW S, NEW s \in Seq(S), NEW x, Len(s) # 0, s[Len(s)] = x,
           \A i \in 1 .. Len(s) - 1 : s[i] # x
    PROVE  Without(s, x) = [i \in 1 .. Len(s) - 1 |-> s[i]]
<1> DEFINE n == Len(s) - 1
           kept == {i \in DOMAIN s : s[i] # x}
           Nth(k) == CHOOSE i \in kept : Cardinality({j \in kept : j <= i}) = k
<1>1. Len(s) \in Nat \ {0} /\ n \in Nat /\ DOMAIN s = 1 .. n + 1
  OBVIOUS
<1>2. kept = 1 .. n
  <2> HIDE DEF n
  <2>1. Len(s) = n + 1
    BY <1>1 DEF n
  <2> QED BY <1>1, <2>1
<1>3. Cardinality(kept) = n
  <2> HIDE DEF kept, n
  <2>1. Cardinality(1 .. n) = n
    BY <1>1, FS_Interval
  <2> QED BY <1>2, <2>1
<1>4. ASSUME NEW i \in kept PROVE Cardinality({j \in kept : j <= i}) = i
  <2>1. i \in 1 .. n /\ i \in Nat /\ i >= 1
    BY <1>1, <1>2
  <2> HIDE DEF n
  <2>2. {j \in kept : j <= i} = 1 .. i
    BY <1>1, <1>2, <2>1
  <2>3. Cardinality(1 .. i) = i
    BY <2>1, FS_Interval
  <2> QED BY <2>2, <2>3
<1>5. ASSUME NEW k \in 1 .. n PROVE Nth(k) = k
  <2>1. k \in kept /\ Cardinality({j \in kept : j <= k}) = k
    BY <1>2, <1>4, <1>5
  <2>2. \A i \in kept : Cardinality({j \in kept : j <= i}) = k => i = k
    BY <1>4
  <2> HIDE DEF kept
  <2> QED BY <2>1, <2>2
<1>6. Without(s, x) = [k \in 1 .. Cardinality(kept) |-> s[Nth(k)]]
  BY DEF Without
<1> HIDE DEF Nth, kept, n
<1>7. Without(s, x) = [k \in 1 .. n |-> s[k]]
  BY <1>3, <1>5, <1>6
<1> QED BY <1>7 DEF n

LEMMA LeftFits ==
    ASSUME FlowFits, flow.structured, NEW l \in Loops, current = l, StackFits
    PROVE  LET s == Without(Entered(l), l) IN
           Stacked(s) /\ {s[i] : i \in DOMAIN s} = Around(l)
<1> DEFINE e == Entered(l)
           n == Len(e) - 1
           s == Without(e, l)
<1>1. /\ Stacked(e) /\ Len(e) \in Nat \ {0} /\ e[Len(e)] = l
      /\ \A i \in 1 .. n : e[i] # l
      /\ {e[i] : i \in 1 .. n} = Around(l)
  BY EnteredFits
<1>2. e \in Seq(Loops)
  BY <1>1 DEF Stacked
<1>3. s = [i \in 1 .. n |-> e[i]]
  <2> HIDE DEF e
  <2> QED BY <1>1, <1>2, WithoutLast
<1> HIDE DEF e, s
<1>4. n \in Nat /\ DOMAIN e = 1 .. n + 1
  BY <1>1, <1>2
<1> HIDE DEF n
<1>5. s \in Seq(Loops) /\ DOMAIN s = 1 .. n /\ \A i \in 1 .. n : s[i] = e[i]
  BY <1>2, <1>3, <1>4
<1>6. ASSUME NEW i \in 1 .. n PROVE Around(s[i]) = {s[m] : m \in 1 .. i - 1}
  <2>1. i \in DOMAIN e /\ 1 .. i - 1 \subseteq 1 .. n
    BY <1>4
  <2>2. Around(e[i]) = {e[m] : m \in 1 .. i - 1}
    BY <1>1, <2>1 DEF Stacked
  <2> QED BY <1>5, <2>1, <2>2
<1> QED BY <1>1, <1>5, <1>6 DEF Stacked, s, e

(***************************************************************************)
(* Steps along an edge.                                                    *)
(***************************************************************************)
\* What LoopsFit asks of the state after a step.
LEMMA LoopsFitNext ==
    ASSUME UNCHANGED flow,
           flow.structured /\ current' # None =>
              /\ Stacked(stack') /\ {stack'[i] : i \in DOMAIN stack'} \ {current'} = Around(current')
              /\ \A l \in Loops :
                   IF current' \in flow.body[l] THEN counter'[l] = passes'[l]
                   ELSE IF current' = l THEN pc' = "done" \/ counter'[l] = passes'[l]
                   ELSE counter'[l] = 0 /\ items'[l] = None /\ breakTarget' # l
    PROVE  LoopsFit'
<1>1. Loops' = Loops /\ flow' = flow
  BY DEF Loops, OfType, NodesOf
<1>2. \A n : {l \in Loops' : n \in flow'.body[l]} = Around(n)
  BY <1>1 DEF Around
<1> SUFFICES ASSUME flow'.structured, current' # None
             PROVE  StackFits' /\ \A l \in Loops' : Remembers(l, current, pc = "done")'
  BY DEF LoopsFit
<1>3. StackFits'
  <2>1. stack' \in Seq(Loops') /\ \A i \in DOMAIN stack' : Around(stack'[i]) = {stack'[m] : m \in 1 .. i - 1}
    BY <1>1 DEF Stacked
  <2>2. \A i \in DOMAIN stack' : {l \in Loops' : stack'[i] \in flow'.body[l]} = {stack'[m] : m \in 1 .. i - 1}
    BY <1>2, <2>1
  <2>3. {stack'[i] : i \in DOMAIN stack'} \ {current'} = {l \in Loops' : current' \in flow'.body[l]}
    BY <1>1, <1>2
  <2> QED BY <2>1, <2>2, <2>3 DEF StackFits, Stacked, Around
<1>4. \A l \in Loops' : Remembers(l, current, pc = "done")'
  BY <1>1 DEF Remembers
<1> QED BY <1>3, <1>4

\* The loops around both ends of an edge are the same, but for the ends.
LEMMA AroundTarget ==
    ASSUME FlowFits, flow.structured, NEW c \in NodesOf(flow), NEW t \in Targets(flow, c)
    PROVE  /\ t \in NodesOf(flow) /\ t # None
           /\ \A k \in Loops : k # t /\ k # c => (t \in flow.body[k] <=> c \in flow.body[k])
           /\ \A k \in Loops : k \notin flow.body[k]
<1>1. PICK i \in DOMAIN flow.edges : flow.edges[i].source = c /\ flow.edges[i].target = t
  BY DEF Targets, EdgesFrom
<1>2. t \in NodesOf(flow) /\ t # None
  BY <1>1 DEF FlowFits, Wired
<1>3. \A k \in Loops : /\ c \in flow.body[k] => t \in flow.body[k] \cup {k}
                       /\ t \in flow.body[k] => c \in flow.body[k] \cup {k}
  BY <1>1 DEF FlowFits, BodiesClosed
<1> QED BY <1>2, <1>3 DEF FlowFits, BodiesClosed

LEMMA OnlyOneNearest ==
    ASSUME FlowFits, flow.structured, StackFits, current \notin Loops,
           NEW l, NEW k, Nearest(current, l), Nearest(current, k)
    PROVE  l = k
<1> SUFFICES ASSUME l # k PROVE FALSE
  OBVIOUS
<1>1. /\ l \in Loops /\ k \in Loops /\ k \in Around(l) /\ l \in Around(k)
      /\ l \in Around(current) /\ k \in Around(current)
  BY DEF Nearest, Around
<1>2. /\ Stacked(stack) /\ DOMAIN stack = 1 .. Len(stack) /\ Len(stack) \in Nat
      /\ {stack[i] : i \in DOMAIN stack} \ {current} = Around(current)
      /\ \A i \in DOMAIN stack : Around(stack[i]) = {stack[m] : m \in 1 .. i - 1}
  BY DEF StackFits, Stacked
<1>3. PICK i \in DOMAIN stack : stack[i] = l
  BY <1>1, <1>2
<1>4. PICK j \in DOMAIN stack : stack[j] = k
  BY <1>1, <1>2
<1>5. ASSUME NEW a \in DOMAIN stack, NEW b \in DOMAIN stack, stack[a] \in Around(stack[b]) PROVE a < b
  <2>1. PICK m \in 1 .. b - 1 : stack[m] = stack[a]
    BY <1>2, <1>5
  <2>2. m \in DOMAIN stack /\ m < b
    BY <1>2, <2>1
  <2>3. m = a
    BY <1>2, <2>1, <2>2, StackedOnce
  <2> QED BY <2>2, <2>3
<1>6. i < j /\ j < i
  BY <1>1, <1>3, <1>4, <1>5
<1> QED BY <1>2, <1>6

\* The loop on top of the stack is the nearest.
LEMMA TopIsNearest ==
    ASSUME FlowFits, flow.structured, StackFits, current \notin Loops, Around(current) # {}
    PROVE  stack # <<>> /\ Nearest(current, stack[Len(stack)])
<1> DEFINE top == Len(stack)
<1>1. /\ stack \in Seq(Loops) /\ DOMAIN stack = 1 .. top /\ top \in Nat
      /\ {stack[i] : i \in DOMAIN stack} \ {current} = Around(current)
      /\ \A i \in DOMAIN stack : Around(stack[i]) = {stack[m] : m \in 1 .. i - 1} /\ stack[i] \in Loops
  BY DEF StackFits, Stacked
<1>2. stack # <<>> /\ top \in DOMAIN stack
  BY <1>1
<1>3. stack[top] \in Around(current)
  BY <1>1, <1>2
<1> HIDE DEF top
<1>4. ASSUME NEW k \in Around(current) PROVE stack[top] \in flow.body[k] \cup {k}
  <2>1. PICK i \in DOMAIN stack : stack[i] = k
    BY <1>1, <1>4
  <2>2. CASE i = top
    BY <2>1, <2>2
  <2>3. CASE i # top
    <3>1. i \in 1 .. top - 1
      BY <1>1, <2>3
    <3>2. k \in Around(stack[top])
      BY <1>1, <1>2, <2>1, <3>1
    <3> QED BY <3>2 DEF Around
  <2> QED BY <2>2, <2>3
<1> QED BY <1>2, <1>3, <1>4 DEF Nearest, top

\* A node that is no loop hands over: what is remembered stays true.  A break
\* request made here is one of the nearest loop, where the run is at next.
LEMMA PlainProceeds ==
    ASSUME IInv, current \in NodesOf(flow), flow.type[current] # "loop",
           NEW n \in Targets(flow, current) \cup {None}, UNCHANGED <<flow, stack, counter, items>>,
           (n # None /\ GoTo(n, passes)) \/ (pc' = "done" /\ passes' = passes /\ current' = current),
           flow.structured => \A l \in Loops : breakTarget' = l =>
                breakTarget = l \/ (l \in Around(current) /\ (pc' = "done" \/ n = l))
    PROVE  LoopsFit'
<1> SUFFICES ASSUME flow.structured
             PROVE  /\ Stacked(stack')
                    /\ {stack'[i] : i \in DOMAIN stack'} \ {current'} = Around(current')
                    /\ \A l \in Loops :
                         IF current' \in flow.body[l] THEN counter'[l] = passes'[l]
                         ELSE IF current' = l THEN pc' = "done" \/ counter'[l] = passes'[l]
                         ELSE counter'[l] = 0 /\ items'[l] = None /\ breakTarget' # l
  BY LoopsFitNext
<1>1. /\ FlowFits /\ current # None /\ current \notin Loops
      /\ passes \in [Loops -> Nat] /\ stack' = stack
      /\ Stacked(stack) /\ {stack[i] : i \in DOMAIN stack} \ {current} = Around(current)
      /\ \A l \in Loops : Remembers(l, current, pc = "done")
  BY DEF IInv, FlowFits, Wired, LoopsFit, StackFits, Counted, Loops, OfType
<1>2. {stack[i] : i \in DOMAIN stack} = Around(current)
  BY <1>1 DEF Stacked
<1>3. \A l \in Loops : IF current \in flow.body[l] THEN counter[l] = passes[l]
                       ELSE counter[l] = 0 /\ items[l] = None /\ breakTarget # l
  BY <1>1 DEF Remembers
<1>4. CASE pc' = "done" /\ passes' = passes /\ current' = current
  <2>1. \A l \in Loops : breakTarget' = l => breakTarget = l \/ current \in flow.body[l]
    BY DEF Around
  <2> QED BY <1>1, <1>3, <1>4, <2>1
<1>5. CASE n # None /\ GoTo(n, passes)
  <2>1. /\ n \in Targets(flow, current)
        /\ current' = n /\ pc' = "head"
        /\ passes' = IF n \in Loops /\ current \notin flow.body[n] \cup {n}
                     THEN [passes EXCEPT ![n] = 0] ELSE passes
    BY <1>5 DEF GoTo
  <2>2. /\ n \in NodesOf(flow) /\ n # None
        /\ \A k \in Loops : k # n => (n \in flow.body[k] <=> current \in flow.body[k])
        /\ \A k \in Loops : k \notin flow.body[k]
    BY <1>1, <2>1, AroundTarget
  <2>3. Around(n) = Around(current) \ {n}
    BY <2>2 DEF Around
  <2>4. \A l \in Loops : passes'[l] = IF l = n /\ current \notin flow.body[n] THEN 0 ELSE passes[l]
    BY <1>1, <2>1
  <2>5. ASSUME NEW l \in Loops
        PROVE  IF n \in flow.body[l] THEN counter[l] = passes'[l]
               ELSE IF n = l THEN counter[l] = passes'[l]
               ELSE counter[l] = 0 /\ items[l] = None /\ breakTarget' # l
    <3>1. CASE n \in flow.body[l]
      BY <1>3, <2>2, <2>4, <3>1
    <3>2. CASE n = l
      BY <1>3, <2>2, <2>4, <3>2
    <3>3. CASE n \notin flow.body[l] /\ n # l
      <4>1. current \notin flow.body[l]
        BY <2>2, <3>3
      <4>2. l \notin Around(current) /\ breakTarget # l
        BY <1>3, <4>1 DEF Around
      <4> QED BY <1>3, <3>3, <4>1, <4>2
    <3> QED BY <2>2, <3>1, <3>2, <3>3
  <2> QED BY <1>1, <1>2, <2>1, <2>3, <2>5
<1> QED BY <1>4, <1>5

LEMMA Proceeds ==
    ASSUME NEW n, NEW begun, Proceed(n, begun)
    PROVE  (n # None /\ GoTo(n, begun)) \/ (pc' = "done" /\ passes' = begun /\ current' = current)
<1>1. ASSUME NEW outcome, End(outcome) PROVE pc' = "done"
  BY <1>1 DEF End
<1>2. CASE flow.type[current] = "end"
  BY <1>1, <1>2, Zenon DEF Proceed
<1> DEFINE pauses == options.pauseAfterEachNode \/ current \in options.breakpointNodeIds
<1>3. CASE flow.type[current] # "end"
  <2>1. IF pauses
        THEN End("canceled") /\ passes' = begun /\ UNCHANGED <<current, stuck>>
        ELSE IF n = None
        THEN End("failed") /\ stuck' = TRUE /\ passes' = begun /\ UNCHANGED current
        ELSE GoTo(n, begun)
    BY <1>3, Zenon DEF Proceed
  <2> HIDE DEF pauses
  <2>2. CASE pauses
    BY <1>1, <2>1, <2>2, Zenon
  <2>3. CASE ~ pauses /\ n = None
    BY <1>1, <2>1, <2>3, Zenon
  <2>4. CASE ~ pauses /\ n # None
    BY <2>1, <2>4, Zenon
  <2> QED BY <2>2, <2>3, <2>4
<1> QED BY <1>2, <1>3

LEMMA LoopRoutes ==
    ASSUME FlowFits, current \in Loops, NEW want
    PROVE  /\ current \in NodesOf(flow)
           /\ Route(flow, Outgoing, want) \in Targets(flow, current) \cup {None}
           /\ flow.structured =>
                /\ Route(flow, Outgoing, "body") \in flow.body[current] \cap Targets(flow, current)
                /\ Route(flow, Outgoing, "exit") \in Targets(flow, current) \ (flow.body[current] \cup {current})
<1>1. current \in NodesOf(flow)
  BY DEF Loops, OfType
<1>2. \A i \in DOMAIN flow.edges : flow.edges[i].target # None
  BY DEF FlowFits, Wired
<1>3. \A w : Route(flow, Outgoing, w) \in Targets(flow, current) \cup {None}
  BY <1>2, RouteIsTarget DEF FlowFits, Wired, Outgoing
<1>4. flow.structured => None \notin flow.body[current] /\ None \notin NodesOf(flow)
  BY DEF FlowFits, Wired, BodiesClosed
<1>5. flow.structured =>
        /\ Route(flow, Outgoing, "body") \in flow.body[current]
        /\ Route(flow, Outgoing, "exit") \in NodesOf(flow) \ (flow.body[current] \cup {current})
  BY DEF FlowFits, LoopsLead, Outgoing
<1> QED BY <1>1, <1>3, <1>4, <1>5

\* A loop that is over leaves nothing behind.
LEMMA LoopLeaves ==
    ASSUME IInv, current \in Loops, pc = "execute", LeaveLoop(current), UNCHANGED flow,
           breakTarget' \in {breakTarget, None}, breakTarget' # current
    PROVE  LoopsFit'
<1> DEFINE l == current
           n == Route(flow, Outgoing, "exit")
           s == Without(Entered(l), l)
<1> SUFFICES ASSUME flow.structured
             PROVE  /\ Stacked(stack')
                    /\ {stack'[i] : i \in DOMAIN stack'} \ {current'} = Around(current')
                    /\ \A k \in Loops :
                         IF current' \in flow.body[k] THEN counter'[k] = passes'[k]
                         ELSE IF current' = k THEN pc' = "done" \/ counter'[k] = passes'[k]
                         ELSE counter'[k] = 0 /\ items'[k] = None /\ breakTarget' # k
  BY LoopsFitNext
<1>1. /\ FlowFits /\ StackFits /\ l \in NodesOf(flow) /\ l # None /\ pc # "done"
      /\ \A k \in Loops : Remembers(k, l, FALSE)
  <2>1. FlowFits /\ current \in NodesOf(flow) /\ current # None
    BY DEF IInv, FlowFits, Wired, Loops, OfType
  <2>2. StackFits /\ \A k \in Loops : Remembers(k, current, pc = "done")
    BY <2>1 DEF IInv, LoopsFit
  <2> QED BY <2>1, <2>2 DEF Remembers
<1>2. Stacked(s) /\ {s[i] : i \in DOMAIN s} = Around(l)
  BY <1>1, LeftFits
<1>3. /\ counter' = [counter EXCEPT ![l] = 0] /\ items' = [items EXCEPT ![l] = None]
      /\ stack' = s /\ Proceed(n, passes)
      /\ counter \in [Loops -> Nat] /\ items \in [Loops -> Nat \cup {None}] /\ passes \in [Loops -> Nat]
  BY DEF LeaveLoop, IInv, Counted
<1>4. /\ counter'[l] = 0 /\ items'[l] = None
      /\ \A k \in Loops : k # l => counter'[k] = counter[k] /\ items'[k] = items[k]
  BY <1>3
<1>5. \A k \in Loops : k # l => IF l \in flow.body[k] THEN counter[k] = passes[k]
                                ELSE counter[k] = 0 /\ items[k] = None /\ breakTarget' # k
  BY <1>1 DEF Remembers, Loops, OfType, FlowFits, Wired
<1>6. n \in Targets(flow, l) \ (flow.body[l] \cup {l})
  BY <1>1, LoopRoutes
<1>7. l \notin Around(l) /\ \A k \in Loops : k \notin flow.body[k]
  BY <1>1, NotAroundItself DEF FlowFits, BodiesClosed
<1>8. (n # None /\ GoTo(n, passes)) \/ (pc' = "done" /\ passes' = passes /\ current' = l)
  BY <1>3, Proceeds
<1> HIDE DEF s, n
<1>9. CASE pc' = "done" /\ passes' = passes /\ current' = l
  <2>1. \A k \in Loops : k # l => IF l \in flow.body[k] THEN counter'[k] = passes'[k]
                                  ELSE counter'[k] = 0 /\ items'[k] = None /\ breakTarget' # k
    BY <1>4, <1>5, <1>9
  <2>2. {s[i] : i \in DOMAIN s} \ {l} = Around(l)
    BY <1>2, <1>7
  <2> QED BY <1>2, <1>3, <1>7, <1>9, <2>1, <2>2
<1>10. CASE n # None /\ GoTo(n, passes)
  <2>1. /\ current' = n
        /\ passes' = IF n \in Loops /\ l \notin flow.body[n] \cup {n}
                     THEN [passes EXCEPT ![n] = 0] ELSE passes
    BY <1>10 DEF GoTo
  <2>2. \A k \in Loops : k # n /\ k # l => (n \in flow.body[k] <=> l \in flow.body[k])
    BY <1>1, <1>6, AroundTarget
  <2>3. Around(n) = Around(l) \ {n}
    BY <1>6, <1>7, <2>2 DEF Around
  <2>4. \A k \in Loops : passes'[k] = IF k = n /\ l \notin flow.body[n] THEN 0 ELSE passes[k]
    BY <1>3, <1>6, <2>1
  <2>5. ASSUME NEW k \in Loops
        PROVE  IF n \in flow.body[k] THEN counter'[k] = passes'[k]
               ELSE IF n = k THEN counter'[k] = passes'[k]
               ELSE counter'[k] = 0 /\ items'[k] = None /\ breakTarget' # k
    <3>1. CASE k = l
      BY <1>4, <1>6, <3>1
    <3>2. CASE k # l /\ k = n
      BY <1>4, <1>5, <1>7, <2>4, <3>2
    <3>3. CASE k # l /\ k # n
      BY <1>4, <1>5, <2>2, <2>4, <3>3
    <3> QED BY <3>1, <3>2, <3>3
  <2> QED BY <1>2, <1>3, <2>1, <2>3, <2>5
<1> QED BY <1>8, <1>9, <1>10

\* A pass is counted where it is remembered.
LEMMA LoopBegins ==
    ASSUME IInv, current \in Loops, pc = "execute", NEW length \in Nat \cup {None}, BeginPass(current, length),
           UNCHANGED <<flow, breakTarget>>
    PROVE  LoopsFit'
<1> DEFINE l == current
           n == Route(flow, Outgoing, "body")
           s == Entered(l)
           begun == [passes EXCEPT ![l] = @ + 1]
<1> SUFFICES ASSUME flow.structured
             PROVE  /\ Stacked(stack')
                    /\ {stack'[i] : i \in DOMAIN stack'} \ {current'} = Around(current')
                    /\ \A k \in Loops :
                         IF current' \in flow.body[k] THEN counter'[k] = passes'[k]
                         ELSE IF current' = k THEN pc' = "done" \/ counter'[k] = passes'[k]
                         ELSE counter'[k] = 0 /\ items'[k] = None /\ breakTarget' # k
  BY LoopsFitNext
<1>1. /\ FlowFits /\ StackFits /\ l \in NodesOf(flow) /\ l # None /\ pc # "done"
      /\ \A k \in Loops : Remembers(k, l, FALSE)
  <2>1. FlowFits /\ current \in NodesOf(flow) /\ current # None
    BY DEF IInv, FlowFits, Wired, Loops, OfType
  <2>2. StackFits /\ \A k \in Loops : Remembers(k, current, pc = "done")
    BY <2>1 DEF IInv, LoopsFit
  <2> QED BY <2>1, <2>2 DEF Remembers
<1>2. Stacked(s) /\ {s[i] : i \in DOMAIN s} = Around(l) \cup {l}
  BY <1>1, EnteredFits
<1>3. /\ counter' = [counter EXCEPT ![l] = @ + 1] /\ items' = [items EXCEPT ![l] = length]
      /\ stack' = s /\ Proceed(n, begun)
      /\ counter \in [Loops -> Nat] /\ items \in [Loops -> Nat \cup {None}] /\ passes \in [Loops -> Nat]
  BY DEF BeginPass, IInv, Counted
<1>4. /\ counter'[l] = counter[l] + 1 /\ begun \in [Loops -> Nat] /\ begun[l] = passes[l] + 1
      /\ \A k \in Loops : k # l => counter'[k] = counter[k] /\ items'[k] = items[k] /\ begun[k] = passes[k]
  BY <1>3
<1>5. \A k \in Loops : k # l => IF l \in flow.body[k] THEN counter[k] = passes[k]
                                ELSE counter[k] = 0 /\ items[k] = None /\ breakTarget' # k
  BY <1>1 DEF Remembers
<1>6. n \in Targets(flow, l) \cap flow.body[l]
  BY <1>1, LoopRoutes
<1>7. l \notin Around(l) /\ \A k \in Loops : k \notin flow.body[k]
  BY <1>1, NotAroundItself DEF FlowFits, BodiesClosed
<1>8. (n # None /\ GoTo(n, begun)) \/ (pc' = "done" /\ passes' = begun /\ current' = l)
  BY <1>3, Proceeds
<1>11. counter'[l] = begun[l]
  BY <1>1, <1>4, <1>7 DEF Remembers
<1> HIDE DEF s, n, begun
<1>9. CASE pc' = "done" /\ passes' = begun /\ current' = l
  <2>1. \A k \in Loops : k # l => IF l \in flow.body[k] THEN counter'[k] = passes'[k]
                                  ELSE counter'[k] = 0 /\ items'[k] = None /\ breakTarget' # k
    BY <1>4, <1>5, <1>9
  <2>2. {s[i] : i \in DOMAIN s} \ {l} = Around(l)
    BY <1>2, <1>7
  <2> QED BY <1>2, <1>3, <1>7, <1>9, <2>1, <2>2
<1>10. CASE n # None /\ GoTo(n, begun)
  <2>1. /\ current' = n
        /\ passes' = IF n \in Loops /\ l \notin flow.body[n] \cup {n}
                     THEN [begun EXCEPT ![n] = 0] ELSE begun
    BY <1>10 DEF GoTo
  <2>2. \A k \in Loops : k # n /\ k # l => (n \in flow.body[k] <=> l \in flow.body[k])
    BY <1>1, <1>6, AroundTarget
  <2>3. Around(n) = (Around(l) \cup {l}) \ {n}
    BY <1>6, <1>7, <2>2 DEF Around
  <2>4. \A k \in Loops : passes'[k] = IF k = n /\ l \notin flow.body[n] \cup {n} THEN 0 ELSE begun[k]
    BY <1>4, <2>1
  <2>5. ASSUME NEW k \in Loops
        PROVE  IF n \in flow.body[k] THEN counter'[k] = passes'[k]
               ELSE IF n = k THEN counter'[k] = passes'[k]
               ELSE counter'[k] = 0 /\ items'[k] = None /\ breakTarget' # k
    <3>1. CASE k = l
      BY <1>6, <1>7, <1>11, <2>4, <3>1
    <3>2. CASE k # l /\ k = n
      BY <1>4, <1>5, <1>7, <2>4, <3>2
    <3>3. CASE k # l /\ k # n
      BY <1>4, <1>5, <2>2, <2>4, <3>3
    <3> QED BY <3>1, <3>2, <3>3
  <2> QED BY <1>2, <1>3, <2>1, <2>3, <2>5
<1> QED BY <1>8, <1>9, <1>10

(***************************************************************************)
(* The steps.                                                              *)
(***************************************************************************)
LEMMA FlowKept == ASSUME FlowFits, UNCHANGED flow PROVE FlowFits'
BY DEF FlowFits, Wired, BodiesClosed, LoopsLead, JumpsLead, Nearest, Around, Loops, OfType, NodesOf

LEMMA AtNode == IInv /\ pc = "execute" => current \in NodesOf(flow) /\ current # None
BY DEF IInv, Located

\* Nothing in the engine finds a node of a valid flow that leads nowhere.
LEMMA Unstuck ==
    ASSUME IInv, pc = "execute", NEW n, Targets(flow, current) # {} => n # None, NEW begun, Proceed(n, begun),
           via = "api"
    PROVE  stuck' = stuck
<1>1. flow.type[current] # "end" => n # None
  BY AtNode DEF IInv, ApiValid, Valid
<1> DEFINE pauses == options.pauseAfterEachNode \/ current \in options.breakpointNodeIds
<1>2. CASE flow.type[current] = "end"
  BY <1>2, Zenon DEF Proceed
<1>3. CASE flow.type[current] # "end"
  <2>1. IF pauses
        THEN End("canceled") /\ passes' = begun /\ UNCHANGED <<current, stuck>>
        ELSE IF n = None
        THEN End("failed") /\ stuck' = TRUE /\ passes' = begun /\ UNCHANGED current
        ELSE GoTo(n, begun)
    BY <1>3, Zenon DEF Proceed
  <2> HIDE DEF pauses
  <2>2. CASE pauses
    BY <2>1, <2>2, Zenon
  <2>3. CASE ~ pauses
    <3>1. GoTo(n, begun)
      BY <1>1, <1>3, <2>1, <2>3, Zenon
    <3> QED BY <3>1 DEF GoTo
  <2> QED BY <2>2, <2>3
<1> QED BY <1>2, <1>3

LEMMA HandedOver ==
    ASSUME IInv, pc = "execute", NEW n \in Targets(flow, current) \cup {None}, UNCHANGED submitted,
           NEW begun \in [Loops -> Nat],
           (n # None /\ GoTo(n, begun)) \/ (pc' = "done" /\ passes' = begun /\ current' = current),
           via = "api" => stuck' = stuck
    PROVE  Located' /\ ApiValid' /\ passes' \in [Loops -> Nat] /\ current \in NodesOf(flow)
<1>1. current \in NodesOf(flow) /\ current # None /\ flow' = flow /\ via' = via
  BY AtNode DEF submitted
<1>2. ASSUME n # None PROVE n \in NodesOf(flow)
  <2>1. n \in Targets(flow, current)
    BY <1>2
  <2> QED BY <2>1 DEF Targets, EdgesFrom, IInv, FlowFits, Wired
<1>3. CASE n # None /\ GoTo(n, begun)
  <2>1. /\ pc' = "head" /\ current' = n
        /\ passes' \in {begun, [begun EXCEPT ![n] = 0]}
    BY <1>3 DEF GoTo
  <2>2. passes' \in [Loops -> Nat]
    BY <2>1
  <2>3. Located'
    BY <1>1, <1>2, <1>3, <2>1 DEF Located, NodesOf
  <2>4. ApiValid'
    BY <1>1, <2>1 DEF IInv, ApiValid
  <2> QED BY <1>1, <2>2, <2>3, <2>4
<1>4. CASE pc' = "done" /\ passes' = begun /\ current' = current
  <2>1. Located'
    BY <1>1, <1>4 DEF Located, NodesOf
  <2>2. ApiValid'
    BY <1>1, <1>4 DEF IInv, ApiValid
  <2> QED BY <1>1, <1>4, <2>1, <2>2
<1> QED BY <1>3, <1>4

\* A step of a node that is no loop.
LEMMA NodeStep ==
    ASSUME IInv, pc = "execute", flow.type[current] # "loop", NEW n \in Targets(flow, current) \cup {None},
           UNCHANGED <<submitted, stack, counter, items>>,
           (n # None /\ GoTo(n, passes)) \/ (pc' = "done" /\ passes' = passes /\ current' = current),
           via = "api" => stuck' = stuck,
           flow.structured => \A l \in Loops : breakTarget' = l =>
                breakTarget = l \/ (l \in Around(current) /\ (pc' = "done" \/ n = l))
    PROVE  IInv'
<1>1. passes \in [Loops -> Nat] /\ flow' = flow /\ Loops' = Loops
  BY DEF IInv, Counted, submitted, Loops, OfType, NodesOf
<1>2. Located' /\ ApiValid' /\ passes' \in [Loops -> Nat] /\ current \in NodesOf(flow)
  BY <1>1, HandedOver
<1>3. LoopsFit'
  BY <1>1, <1>2, PlainProceeds
<1>4. FlowFits' /\ Counted' /\ WithinItems'
  <2>1. FlowFits'
    BY <1>1, FlowKept DEF IInv
  <2>2. Counted'
    BY <1>1, <1>2 DEF IInv, Counted
  <2>3. WithinItems'
    BY <1>1 DEF IInv, WithinItems
  <2> QED BY <2>1, <2>2, <2>3
<1> QED BY <1>2, <1>3, <1>4 DEF IInv

\* Where the executors lead.
LEMMA Leads ==
    ASSUME IInv, NEW want
    PROVE  /\ NextDefault(flow, Outgoing) \in Targets(flow, current) \cup {None}
           /\ Route(flow, Outgoing, want) \in Targets(flow, current) \cup {None}
           /\ ErrorEdge(flow, Outgoing) \in Targets(flow, current) \cup {None}
           /\ Targets(flow, current) # {} =>
                NextDefault(flow, Outgoing) # None /\ Route(flow, Outgoing, want) # None
<1>1. DOMAIN flow.edges \subseteq Nat /\ \A i \in DOMAIN flow.edges : flow.edges[i].target # None
  BY DEF IInv, FlowFits, Wired
<1> QED BY <1>1, RouteIsTarget DEF Outgoing

LEMMA PlainStep == ASSUME IInv, Plain \/ Branch PROVE IInv'
<1>1. PICK n : /\ n \in Targets(flow, current) \cup {None}
               /\ Targets(flow, current) # {} => n # None
               /\ Proceed(n, passes)
  <2>1. CASE Plain
    BY <2>1, Leads DEF Plain
  <2>2. CASE Branch
    <3>1. PICK want \in Wants(flow, current) : Proceed(Route(flow, Outgoing, want), passes)
      BY <2>2 DEF Branch
    <3> QED BY <3>1, Leads
  <2> QED BY <2>1, <2>2
<1>2. /\ pc = "execute" /\ flow.type[current] # "loop" /\ UNCHANGED <<submitted, loopState>>
  BY DEF Plain, Branch, Executes
<1>3. (n # None /\ GoTo(n, passes)) \/ (pc' = "done" /\ passes' = passes /\ current' = current)
  BY <1>1, Proceeds
<1>4. via = "api" => stuck' = stuck
  BY <1>1, <1>2, Unstuck
<1> QED BY <1>1, <1>2, <1>3, <1>4, NodeStep DEF loopState

\* A break names the nearest loop, and leads there.
LEMMA JumpStep == ASSUME IInv, Break \/ Continue PROVE IInv'
<1> DEFINE n == NextDefault(flow, Outgoing)
<1>1. /\ pc = "execute" /\ flow.type[current] \in {"break", "continue"}
      /\ Proceed(n, passes) /\ UNCHANGED <<submitted, stack, counter, items>>
      /\ breakTarget' \in {breakTarget, TargetLoop}
  BY DEF Break, Continue, Executes
<1>2. n \in Targets(flow, current) \cup {None} /\ (Targets(flow, current) # {} => n # None)
  BY Leads
<1> HIDE DEF n
<1>3. (n # None /\ GoTo(n, passes)) \/ (pc' = "done" /\ passes' = passes /\ current' = current)
  BY <1>1, Proceeds
<1>4. via = "api" => stuck' = stuck
  BY <1>1, <1>2, Unstuck
<1>5. ASSUME flow.structured PROVE Nearest(current, TargetLoop) /\ TargetLoop = n /\ n \in Around(current)
  <2>1. /\ current \in NodesOf(flow) /\ current # None /\ current \notin Loops
        /\ FlowFits /\ StackFits /\ JumpsLead
    BY <1>1, <1>5, AtNode DEF IInv, LoopsFit, FlowFits, Loops, OfType
  <2>2. n \in Targets(flow, current) /\ Nearest(current, n)
    BY <1>1, <1>2, <2>1 DEF JumpsLead
  <2>3. Nearest(current, TargetLoop)
    <3>1. CASE Config.loopId # None
      BY <1>1, <2>1, <3>1 DEF JumpsLead, TargetLoop, Config
    <3>2. CASE Config.loopId = None
      <4>1. Around(current) # {}
        BY <2>2 DEF Nearest
      <4>2. stack # <<>> /\ Nearest(current, stack[Len(stack)])
        BY <1>5, <2>1, <4>1, TopIsNearest
      <4> QED BY <3>2, <4>2 DEF TargetLoop
    <3> QED BY <3>1, <3>2
  <2>4. TargetLoop = n
    BY <1>5, <2>1, <2>2, <2>3, OnlyOneNearest
  <2> QED BY <2>2, <2>3, <2>4 DEF Nearest
<1>6. flow.structured => \A l \in Loops : breakTarget' = l =>
         breakTarget = l \/ (l \in Around(current) /\ (pc' = "done" \/ n = l))
  BY <1>1, <1>5
<1>7. flow.type[current] # "loop"
  BY <1>1
<1> QED BY <1>1, <1>2, <1>3, <1>4, <1>6, <1>7, NodeStep

\* What the steps of a loop do to the rest of the invariant.
LEMMA LoopHandsOver ==
    ASSUME IInv, pc = "execute", current \in Loops, UNCHANGED submitted,
           NEW want, NEW begun \in [Loops -> Nat], Proceed(Route(flow, Outgoing, want), begun)
    PROVE  FlowFits' /\ Located' /\ ApiValid' /\ passes' \in [Loops -> Nat]
<1> DEFINE n == Route(flow, Outgoing, want)
<1>1. n \in Targets(flow, current) \cup {None} /\ (Targets(flow, current) # {} => n # None)
  BY Leads
<1> HIDE DEF n
<1>2. (n # None /\ GoTo(n, begun)) \/ (pc' = "done" /\ passes' = begun /\ current' = current)
  BY Proceeds DEF n
<1>3. via = "api" => stuck' = stuck
  BY <1>1, Unstuck DEF n
<1>4. Located' /\ ApiValid' /\ passes' \in [Loops -> Nat]
  BY <1>1, <1>2, <1>3, HandedOver
<1>5. FlowFits'
  BY FlowKept DEF IInv, submitted
<1> QED BY <1>4, <1>5

LEMMA Leaving ==
    ASSUME IInv, pc = "execute", current \in Loops, LeaveLoop(current), UNCHANGED submitted,
           breakTarget' \in {breakTarget, None}, breakTarget' # current
    PROVE  IInv'
<1>1. /\ flow' = flow /\ Loops' = Loops
      /\ counter \in [Loops -> Nat] /\ items \in [Loops -> Nat \cup {None}] /\ passes \in [Loops -> Nat]
  BY DEF IInv, Counted, submitted, Loops, OfType, NodesOf
<1>2. /\ counter' = [counter EXCEPT ![current] = 0] /\ items' = [items EXCEPT ![current] = None]
      /\ Proceed(Route(flow, Outgoing, "exit"), passes)
  BY DEF LeaveLoop
<1>3. FlowFits' /\ Located' /\ ApiValid' /\ passes' \in [Loops -> Nat]
  BY <1>1, <1>2, LoopHandsOver
<1>4. LoopsFit'
  BY <1>1, LoopLeaves
<1>5. Counted'
  BY <1>1, <1>2, <1>3 DEF Counted
<1>6. WithinItems'
  BY <1>1, <1>2 DEF IInv, WithinItems
<1> QED BY <1>3, <1>4, <1>5, <1>6 DEF IInv

LEMMA Beginning ==
    ASSUME IInv, pc = "execute", current \in Loops, NEW length \in Nat \cup {None},
           BeginPass(current, length), UNCHANGED <<submitted, breakTarget>>,
           Config.source => length \in Nat /\ length # None /\ counter[current] < length
    PROVE  IInv'
<1>1. /\ flow' = flow /\ Loops' = Loops
      /\ counter \in [Loops -> Nat] /\ items \in [Loops -> Nat \cup {None}] /\ passes \in [Loops -> Nat]
  BY DEF IInv, Counted, submitted, Loops, OfType, NodesOf
<1> DEFINE begun == [passes EXCEPT ![current] = @ + 1]
<1>2. /\ counter' = [counter EXCEPT ![current] = @ + 1] /\ items' = [items EXCEPT ![current] = length]
      /\ Proceed(Route(flow, Outgoing, "body"), begun)
  BY DEF BeginPass
<1>3. begun \in [Loops -> Nat]
  BY <1>1
<1> HIDE DEF begun
<1>4. FlowFits' /\ Located' /\ ApiValid' /\ passes' \in [Loops -> Nat]
  BY <1>1, <1>2, <1>3, LoopHandsOver
<1>5. LoopsFit'
  BY <1>1, LoopBegins
<1>6. Counted'
  <2>1. counter' \in [Loops -> Nat]
    BY <1>1, <1>2
  <2>2. items' \in [Loops -> Nat \cup {None}]
    BY <1>1, <1>2
  <2> QED BY <1>1, <1>4, <2>1, <2>2 DEF Counted
<1>7. WithinItems'
  <2> SUFFICES ASSUME NEW l \in Loops, flow.config[l].source
               PROVE  IF items'[l] = None THEN counter'[l] = 0 ELSE counter'[l] <= items'[l]
    BY <1>1 DEF WithinItems
  <2>1. CASE l = current
    <3>1. counter'[l] = counter[l] + 1 /\ items'[l] = length
      BY <1>1, <1>2, <2>1
    <3>2. length \in Nat /\ length # None /\ counter[l] < length /\ counter[l] \in Nat
      BY <1>1, <2>1 DEF Config
    <3> QED BY <3>1, <3>2
  <2>2. CASE l # current
    <3>1. counter'[l] = counter[l] /\ items'[l] = items[l]
      BY <1>1, <1>2, <2>2
    <3> QED BY <3>1 DEF IInv, WithinItems
  <2> QED BY <2>1, <2>2
<1> QED BY <1>4, <1>5, <1>6, <1>7 DEF IInv

LEMMA AtLoop == IInv /\ Executes({"loop"}) => current \in Loops /\ current # None
BY AtNode DEF Executes, Loops, OfType

LEMMA BreaksStep == ASSUME IInv, LoopBreaks PROVE IInv'
<1>1. /\ pc = "execute" /\ UNCHANGED submitted /\ LeaveLoop(current) /\ breakTarget' = None
      /\ current \in Loops /\ current # None
  BY AtLoop DEF LoopBreaks, Executes
<1> QED BY <1>1, Leaving

LEMMA OverItemsStep == ASSUME IInv, LoopOverItems PROVE IInv'
<1>1. /\ pc = "execute" /\ UNCHANGED submitted /\ breakTarget' = breakTarget /\ breakTarget # current
      /\ current \in Loops /\ current # None /\ Config.source
  BY AtLoop DEF LoopOverItems, Executes, BreakPending
<1>2. PICK length \in IF items[current] # None THEN {items[current]} ELSE Config.items :
        IF counter[current] >= length THEN LeaveLoop(current) ELSE BeginPass(current, length)
  BY DEF LoopOverItems
<1>3. length \in Nat /\ length # None
  <2>1. items[current] \in Nat \cup {None} /\ Config.items \subseteq Nat
    BY <1>1 DEF IInv, Counted, FlowFits, Wired, Config, Loops, OfType
  <2> QED BY <1>2, <2>1, EngineAssumption
<1>4. CASE counter[current] >= length
  BY <1>1, <1>2, <1>4, Leaving
<1>5. CASE ~ (counter[current] >= length)
  <2>1. BeginPass(current, length)
    BY <1>2, <1>5
  <2>2. counter[current] < length
    BY <1>1, <1>3, <1>5 DEF IInv, Counted
  <2> QED BY <1>1, <1>3, <2>1, <2>2, Beginning
<1> QED BY <1>4, <1>5

LEMMA TimesStep == ASSUME IInv, LoopTimes PROVE IInv'
<1>1. /\ pc = "execute" /\ UNCHANGED submitted /\ breakTarget' = breakTarget /\ breakTarget # current
      /\ current \in Loops /\ current # None /\ ~ Config.source
  BY AtLoop DEF LoopTimes, Executes, BreakPending
<1>2. items[current] \in Nat \cup {None}
  BY <1>1 DEF IInv, Counted
<1>3. LeaveLoop(current) \/ BeginPass(current, items[current])
  BY DEF LoopTimes
<1>4. CASE LeaveLoop(current)
  BY <1>1, <1>4, Leaving
<1>5. CASE BeginPass(current, items[current])
  BY <1>1, <1>2, <1>5, Beginning
<1> QED BY <1>3, <1>4, <1>5

\* Steps that leave the run where it is, or end it.
LEMMA Stays ==
    ASSUME IInv, UNCHANGED <<submitted, current, loopState, passes, stuck>>,
           pc' \in {pc, "done"} \/ (pc = "head" /\ pc' = "execute")
    PROVE  IInv'
<1>1. /\ flow' = flow /\ via' = via /\ Loops' = Loops /\ NodesOf(flow') = NodesOf(flow)
      /\ UNCHANGED <<current, stack, counter, items, breakTarget, passes, stuck>>
  BY DEF submitted, loopState, Loops, OfType, NodesOf
<1>2. FlowFits'
  BY <1>1, FlowKept DEF IInv
<1>3. Counted' /\ WithinItems'
  BY <1>1 DEF IInv, Counted, WithinItems
<1>4. Located'
  BY <1>1 DEF IInv, Located
<1>5. ApiValid'
  BY <1>1 DEF IInv, ApiValid
<1>6. LoopsFit'
  <2> SUFFICES ASSUME flow.structured, current # None
               PROVE  /\ Stacked(stack') /\ {stack'[i] : i \in DOMAIN stack'} \ {current'} = Around(current')
                      /\ \A l \in Loops :
                           IF current' \in flow.body[l] THEN counter'[l] = passes'[l]
                           ELSE IF current' = l THEN pc' = "done" \/ counter'[l] = passes'[l]
                           ELSE counter'[l] = 0 /\ items'[l] = None /\ breakTarget' # l
    BY <1>1, LoopsFitNext
  <2>1. StackFits /\ \A l \in Loops : Remembers(l, current, pc = "done")
    BY DEF IInv, LoopsFit
  <2>2. pc = "done" => pc' = "done"
    OBVIOUS
  <2> QED BY <1>1, <2>1, <2>2 DEF StackFits, Remembers
<1> QED BY <1>2, <1>3, <1>4, <1>5, <1>6 DEF IInv

\* The run starts at a node that is no loop and in no loop.
LEMMA StartIsOutside ==
    ASSUME FlowFits, Plannable(flow)
    PROVE  /\ StartOf(flow) \in NodesOf(flow) /\ StartOf(flow) \notin Loops
           /\ flow.structured => Around(StartOf(flow)) = {}
<1>1. OfType(flow, "start") # {}
  BY FS_EmptySet DEF Plannable
<1>2. StartOf(flow) \in OfType(flow, "start")
  BY <1>1 DEF StartOf
<1>3. StartOf(flow) \in NodesOf(flow) /\ flow.type[StartOf(flow)] = "start"
  BY <1>2 DEF OfType
<1> QED BY <1>3 DEF Loops, OfType, Around, FlowFits, BodiesClosed

LEMMA SubmitStep == ASSUME IInv, Submit PROVE IInv'
<1>1. pc = "submit" /\ UNCHANGED <<submitted, loopState, passes, stuck>>
  BY DEF Submit
<1>2. \/ pc' = "done" /\ current' = current
      \/ /\ IF via = "api" THEN Valid(flow) ELSE Plannable(flow)
         /\ pc' = "head" /\ current' = StartOf(flow)
  BY DEF Submit, End
<1>3. CASE pc' = "done" /\ current' = current
  BY <1>1, <1>3, Stays
<1>4. CASE /\ IF via = "api" THEN Valid(flow) ELSE Plannable(flow)
           /\ pc' = "head" /\ current' = StartOf(flow)
  <2>1. /\ flow' = flow /\ via' = via /\ Loops' = Loops /\ NodesOf(flow') = NodesOf(flow)
        /\ UNCHANGED <<stack, counter, items, breakTarget, passes, stuck>>
    BY <1>1 DEF submitted, loopState, Loops, OfType, NodesOf
  <2>2. Plannable(flow) /\ (via = "api" => Valid(flow))
    BY <1>4 DEF Valid, Plannable
  <2>3. /\ current' \in NodesOf(flow) /\ current' \notin Loops /\ current' # None
        /\ flow.structured => Around(current') = {}
    BY <1>4, <2>2, StartIsOutside DEF IInv, FlowFits, Wired
  <2>4. /\ stack' = <<>> /\ breakTarget' = None
        /\ \A l \in Loops : counter'[l] = 0 /\ passes'[l] = 0 /\ items'[l] = None
    BY <1>1, <2>1 DEF IInv, Located
  <2>5. FlowFits'
    BY <2>1, FlowKept DEF IInv
  <2>6. Counted' /\ WithinItems'
    BY <2>1 DEF IInv, Counted, WithinItems
  <2>7. Located'
    BY <1>4, <2>1, <2>3 DEF Located
  <2>8. ApiValid'
    BY <2>1, <2>2 DEF IInv, ApiValid
  <2>9. LoopsFit'
    <3> SUFFICES ASSUME flow.structured
                 PROVE  /\ Stacked(stack') /\ {stack'[i] : i \in DOMAIN stack'} \ {current'} = Around(current')
                        /\ \A l \in Loops :
                             IF current' \in flow.body[l] THEN counter'[l] = passes'[l]
                             ELSE IF current' = l THEN pc' = "done" \/ counter'[l] = passes'[l]
                             ELSE counter'[l] = 0 /\ items'[l] = None /\ breakTarget' # l
      BY <2>1, LoopsFitNext
    <3>1. Stacked(stack') /\ {stack'[i] : i \in DOMAIN stack'} = {}
      BY <2>4 DEF Stacked
    <3>2. \A l \in Loops : current' \notin flow.body[l] /\ l # None
      BY <2>3 DEF Around, Loops, OfType, IInv, FlowFits, Wired
    <3> QED BY <2>3, <2>4, <3>1, <3>2
  <2> QED BY <2>5, <2>6, <2>7, <2>8, <2>9 DEF IInv
<1> QED BY <1>2, <1>3, <1>4

\* A failed node goes where its catch edge leads, or ends the run.
LEMMA FailsStep == ASSUME IInv, Fails PROVE IInv'
<1>1. /\ pc = "execute" /\ flow.type[current] # "loop"
      /\ UNCHANGED <<submitted, stack, counter, items, breakTarget, continueTarget>>
      /\ Retry \/ GiveUp
  BY DEF Fails, loopState
<1>2. CASE Retry
  BY <1>1, <1>2, Stays DEF Retry, loopState
<1>3. CASE GiveUp
  <2> DEFINE n == ErrorEdge(flow, Outgoing)
  <2>1. n \in Targets(flow, current) \cup {None}
    BY Leads
  <2>2. IF n # None THEN GoTo(n, passes) ELSE End("failed") /\ UNCHANGED <<current, stuck, passes>>
    BY <1>3, Zenon DEF GiveUp
  <2> HIDE DEF n
  <2>3. /\ (n # None /\ GoTo(n, passes)) \/ (pc' = "done" /\ passes' = passes /\ current' = current)
        /\ stuck' = stuck
    <3>1. CASE n # None
      <4>1. GoTo(n, passes)
        BY <2>2, <3>1, Zenon
      <4> QED BY <3>1, <4>1 DEF GoTo
    <3>2. CASE n = None
      <4>1. End("failed") /\ UNCHANGED <<current, stuck, passes>>
        BY <2>2, <3>2, Zenon
      <4> QED BY <4>1 DEF End
    <3> QED BY <3>1, <3>2
  <2> QED BY <1>1, <2>1, <2>3, NodeStep
<1> QED BY <1>1, <1>2, <1>3

LEMMA InitHolds == ASSUME Init PROVE IInv
<1>1. FlowFits
  BY FlowFitsInit
<1>2. /\ pc = "submit" /\ current = None /\ stack = <<>> /\ breakTarget = None /\ stuck = FALSE
      /\ counter = [l \in Loops |-> 0] /\ items = [l \in Loops |-> None] /\ passes = [l \in Loops |-> 0]
  BY DEF Init
<1>3. Counted
  BY <1>2 DEF Counted
<1>4. Located
  BY <1>2 DEF Located
<1>5. ApiValid
  BY <1>2 DEF ApiValid
<1>6. WithinItems
  BY <1>2 DEF WithinItems
<1>7. LoopsFit
  BY <1>2 DEF LoopsFit
<1> QED BY <1>1, <1>3, <1>4, <1>5, <1>6, <1>7 DEF IInv

LEMMA NextKeeps == ASSUME IInv, [Next]_vars PROVE IInv'
<1>1. CASE Submit
  BY <1>1, SubmitStep
<1>2. CASE TopOfLoop
  BY <1>2, Stays DEF TopOfLoop, End
<1>3. CASE Plain \/ Branch
  BY <1>3, PlainStep
<1>4. CASE Break \/ Continue
  BY <1>4, JumpStep
<1>5. CASE LoopBreaks
  BY <1>5, BreaksStep
<1>6. CASE LoopOverItems
  BY <1>6, OverItemsStep
<1>7. CASE LoopTimes
  BY <1>7, TimesStep
<1>8. CASE Fails
  BY <1>8, FailsStep
<1>9. CASE FallsBack
  BY <1>9, Stays DEF FallsBack
<1>10. CASE Unexpected
  BY <1>10, Stays DEF Unexpected, End
<1>11. CASE RequestCancel
  BY <1>11, Stays DEF RequestCancel
<1>12. CASE UNCHANGED vars
  BY <1>12, Stays DEF vars
<1> QED BY <1>1, <1>2, <1>3, <1>4, <1>5, <1>6, <1>7, <1>8, <1>9, <1>10, <1>11, <1>12 DEF Next, Engine

(***************************************************************************)
(* The theorems.                                                           *)
(***************************************************************************)

\* A run is at a node of its flow, no loop over a source counts beyond its
\* items, and the stack, the counters and the requests of the loops are those
\* of the current node.
THEOREM Inductive == Spec => []IInv
<1>1. Init => IInv
  BY InitHolds
<1>2. IInv /\ [Next]_vars => IInv'
  BY NextKeeps
<1> QED BY <1>1, <1>2, PTL DEF Spec

\* What the API's validation lets through never fails for want of a next node:
\* _validate_graph asks for as many edges as the executors need.
THEOREM ApiRunsAreNeverStuck == Spec => []NeverStuck
<1>1. IInv => NeverStuck
  BY DEF IInv, ApiValid, NeverStuck
<1> QED BY <1>1, Inductive, PTL

\* Wherever the run of a structured flow is, the loop stack nests as the loops
\* around the node do, and no loop remembers anything of an earlier visit,
\* whatever breaks, continues, retries and catch edges led there.
THEOREM LoopsAreRemembered == Spec => []LoopStateFits
<1>1. IInv => LoopStateFits
  <2> SUFFICES ASSUME IInv, flow.structured, current # None PROVE LoopStateFits
    BY DEF LoopStateFits, StackIsNesting, LoopsStartAfresh
  <2>1. /\ StackFits /\ \A l \in Loops : Remembers(l, current, pc = "done")
        /\ current \in NodesOf(flow)
    BY DEF IInv, LoopsFit, Located
  <2>2. StackIsNesting
    <3> SUFFICES ASSUME flow.type[current] # "loop"
                 PROVE  /\ {stack[i] : i \in DOMAIN stack} = Around(current)
                        /\ \A i, j \in DOMAIN stack : i < j => stack[j] \in flow.body[stack[i]]
      BY DEF StackIsNesting
    <3>1. /\ stack \in Seq(Loops) /\ DOMAIN stack = 1 .. Len(stack) /\ Len(stack) \in Nat
          /\ \A i \in DOMAIN stack : Around(stack[i]) = {stack[m] : m \in 1 .. i - 1}
          /\ {stack[i] : i \in DOMAIN stack} \ {current} = Around(current)
      BY <2>1 DEF StackFits, Stacked
    <3>2. {stack[i] : i \in DOMAIN stack} = Around(current)
      <4>1. current \notin Loops
        BY DEF Loops, OfType
      <4> QED BY <3>1, <4>1
    <3>3. ASSUME NEW i \in DOMAIN stack, NEW j \in DOMAIN stack, i < j
          PROVE  stack[j] \in flow.body[stack[i]]
      <4>1. stack[i] \in Around(stack[j])
        BY <3>1, <3>3
      <4> QED BY <4>1 DEF Around
    <3> QED BY <3>2, <3>3
  <2>3. LoopsStartAfresh
    BY <2>1 DEF LoopsStartAfresh, Remembers
  <2> QED BY <2>2, <2>3 DEF LoopStateFits
<1> QED BY <1>1, Inductive, PTL

\* A loop over a source that runs to its end has begun a pass for each item of
\* the source, no more and no fewer.
THEOREM EachItemHasItsPass == Spec => EveryItemOnce
<1>1. ASSUME IInv, LoopOverItems, flow.structured, pc' # "done", current' \notin flow.body[current]
      PROVE  passes[current] = IF items[current] = None THEN 0 ELSE items[current]
  <2> DEFINE l == current
  <2>1. /\ pc = "execute" /\ l \in Loops /\ l # None /\ Config.source
        /\ FlowFits /\ WithinItems /\ Remembers(l, l, FALSE) /\ l \notin flow.body[l]
    BY <1>1, AtLoop DEF LoopOverItems, Executes, IInv, LoopsFit, Remembers, FlowFits, BodiesClosed
  <2>2. counter[l] = passes[l] /\ counter[l] \in Nat /\ items[l] \in Nat \cup {None}
    BY <1>1, <2>1 DEF Remembers, IInv, Counted
  <2>3. PICK length \in IF items[l] # None THEN {items[l]} ELSE Config.items :
          IF counter[l] >= length THEN LeaveLoop(l) ELSE BeginPass(l, length)
    BY <1>1 DEF LoopOverItems
  <2>4. ~ BeginPass(l, length)
    <3> SUFFICES ASSUME BeginPass(l, length) PROVE FALSE
      OBVIOUS
    <3> DEFINE n == Route(flow, Outgoing, "body")
               begun == [passes EXCEPT ![l] = @ + 1]
    <3>1. Proceed(n, begun)
      BY DEF BeginPass
    <3>2. n \in flow.body[l]
      BY <1>1, <2>1, LoopRoutes
    <3> HIDE DEF n, begun
    <3>3. GoTo(n, begun)
      BY <1>1, <3>1, Proceeds
    <3> QED BY <1>1, <3>2, <3>3 DEF GoTo
  <2>5. counter[l] >= length
    BY <2>3, <2>4
  <2>6. CASE items[l] = None
    BY <2>1, <2>2, <2>6 DEF WithinItems, Config
  <2>7. CASE items[l] # None
    <3>1. length = items[l] /\ counter[l] <= items[l]
      BY <2>1, <2>3, <2>7 DEF WithinItems, Config
    <3> QED BY <2>2, <2>5, <2>7, <3>1
  <2> QED BY <2>6, <2>7
<1>2. IInv /\ [Next]_vars =>
        [\A l \in Loops :
           flow.structured /\ LoopOverItems /\ current = l /\ pc' # "done"
               /\ current' \notin flow.body[l]
                   => passes[l] = IF items[l] = None THEN 0 ELSE items[l]]_vars
  BY <1>1
<1> QED BY <1>2, Inductive, PTL DEF Spec, EveryItemOnce
=============================================================================
