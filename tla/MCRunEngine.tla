---------------------------- MODULE MCRunEngine ----------------------------
(* Flows for RunEngine. *)
EXTENDS RunEngine, TLC

Edge(s, t, c) == [source |-> s, target |-> t, cond |-> c]
Default == [retries |-> 0, fallback |-> TRUE, source |-> FALSE,
            items |-> {}, times |-> 1, loopId |-> None]
Over(lengths) == [Default EXCEPT !.source = TRUE, !.items = lengths]
Times(n) == [Default EXCEPT !.times = n]
Retrying(n) == [Default EXCEPT !.retries = n]

Flow(type, edges, special) ==
    [type |-> type, edges |-> edges, body |-> <<>>, structured |-> FALSE,
     config |-> special @@ [n \in DOMAIN type |-> Default]]

\* A loop in a loop, each with a break; the inner one with a continue, a catch
\* edge and a retry.  Sources of several lengths, or a number of times.
Nested(outer, inner, named) == Flow(
    [start |-> "start", outer |-> "loop", pick |-> "if", stop |-> "break",
     inner |-> "loop", act |-> "action", skip |-> "continue", choice |-> "if",
     quit |-> "break", end |-> "end"],
    <<Edge("start", "outer", None),
      Edge("outer", "pick", "body"), Edge("outer", "end", "exit"),
      Edge("pick", "inner", "true"), Edge("pick", "stop", "false"),
      Edge("stop", "outer", None),
      Edge("inner", "act", "body"), Edge("inner", "outer", "exit"),
      Edge("act", "choice", None), Edge("act", "skip", "catch"),
      Edge("skip", "inner", None),
      Edge("choice", "quit", "true"), Edge("choice", "inner", "false"),
      Edge("quit", "inner", None)>>,
    "outer" :> outer @@ "inner" :> inner @@ "act" :> Retrying(1)
        @@ "stop" :> [Default EXCEPT !.loopId = named])

NestedFlows ==
    {Nested(Over({0, 2, 3}), Over({0, 1, 2, 3}), None), Nested(Over({3}), Times(4), "outer"),
     Nested(Times(3), Over({0, 2}), None)}

\* Every way to wire two nodes between a start and an end.
Conditions(t) ==
    IF t = "if" THEN {"true", "false"}
    ELSE IF t = "loop" THEN {"body", "exit", None}
    ELSE IF t = "action" THEN {"catch", None}
    ELSE {None}

Wirings(n, t) ==
    LET one == {Edge(n, m, c) : m \in {"x", "y", "end"}, c \in Conditions(t)}
    IN  {<<e>> : e \in one} \cup (IF t = "break" THEN {} ELSE {<<e, d>> : e, d \in one})
            \cup (IF t = "action" THEN {<<>>} ELSE {})

SmallFlows(T, U) ==
    UNION {{Flow([start |-> "start", x |-> t, y |-> u, end |-> "end"],
                 <<Edge("start", "x", None)>> \o w \o v,
                 "x" :> [Default EXCEPT !.times = 2, !.retries = 1])
              : w \in Wirings("x", t), v \in Wirings("y", u)}
           : t \in T, u \in U}

\* No start; and branching nodes whose conditions leave out what they ask for.
OddFlows ==
    {Flow([x |-> "action", end |-> "end"], <<Edge("x", "end", None)>>, <<>>)}
    \cup {Flow([start |-> "start", x |-> t, y |-> "continue", z |-> "rowLocate", end |-> "end"],
               <<Edge("start", "x", None), Edge("x", "y", "other"), Edge("x", "z", None),
                 Edge("y", "x", None), Edge("z", "end", "found"), Edge("z", "y", "error")>>,
               <<>>)
            : t \in {"switchCase", "tryCatch", "parallel"}}

AllFlows == SmallFlows({"action", "loop"}, {"action", "if", "break"}) \cup OddFlows

Limit(n) == [maxSteps |-> n, breakpointNodeIds |-> {}, pauseAfterEachNode |-> FALSE,
             cancellable |-> FALSE]

\* Small flows, with circles of every kind; odd ones that pause and may be
\* canceled; nested loops with the steps they need.
AllSubmissions ==
    (AllFlows \X {[Limit(7) EXCEPT !.breakpointNodeIds = {"z"}]})
        \cup (OddFlows \X {[Limit(5) EXCEPT !.pauseAfterEachNode = pause, !.cancellable = TRUE]
                               : pause \in BOOLEAN})
        \cup (NestedFlows \X {Limit(30)})

=============================================================================
