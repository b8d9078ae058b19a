---------------------------- MODULE MCFlowEditor -----------------------------
(* Small instance of FlowEditor.                                              *)
EXTENDS FlowEditor

N(id, type, cases) == [id |-> <<id>>, type |-> type, cases |-> cases]
E(id, src, dst, cond) == [id |-> <<"e", id>>, src |-> <<src>>, dst |-> <<dst>>, cond |-> cond]

\* A straight flow, one with both branches of an if, one with a switch.
Straight == [ nodes |-> <<N("s", "start", <<>>), N("t", "end", <<>>)>>,
              edges |-> <<E(1, "s", "t", "")>> ]
Branching == [ nodes |-> <<N("s", "start", <<>>), N("q", "switchCase", <<"a", "default">>),
                           N("t", "end", <<>>)>>,
               edges |-> <<E(1, "s", "q", ""), E(2, "q", "t", "a")>> ]

MCTypes == {"end", "wait", "if"}
MCConditions == {"", "true"}
MCCaseLists == {<<"a">>, <<"b", "c">>}
MCLoadedFlows == {Straight, Branching}

Event(action, selector, time) ==
    [action |-> action, selector |-> selector, time |-> time, value |-> "", url |-> ""]
MCRecordings == { FlowOf(MapRecorderPayload(r, 9000)) :
                    r \in {<<Event("click", "x", 1000), Event("input", "y", 1100)>>} }

\* What the theorems about additions and ports ask of the documents.
ASSUME DocumentsListPorts /\ DocumentsAreConnected
=============================================================================
