----------------------------- MODULE RunEngine -----------------------------
(***************************************************************************)
(* One run of a flow: run_flow and _run_single_node of engine.py with the  *)
(* control nodes of registry.py.                                           *)
(*                                                                         *)
(* The engine is a loop over nodes.  An executor tells the next node or    *)
(* raises; loops keep a stack, counters and pending break and continue     *)
(* requests in the variables of the run.  What actions do to the page is   *)
(* reduced to whether they work.  A step is the head of the loop or one    *)
(* call of an executor.                                                    *)
(***************************************************************************)
EXTENDS FlowGraph

CONSTANTS
    Submissions         \* pairs of a flow and the options of its run

\* RunOptions, and whether should_cancel is given.
Options == [maxSteps : Nat, breakpointNodeIds : SUBSET STRING,
            pauseAfterEachNode : BOOLEAN, cancellable : BOOLEAN]

ASSUME EngineAssumption ==
    /\ None \notin Nat
    /\ \A s \in Submissions :
        /\ IsFlow(s[1]) /\ s[2] \in Options
        /\ \A n \in NodesOf(s[1]) : s[1].config[n].items \subseteq Nat

VARIABLES
    flow,           \* the flow, with the bodies of its loops and whether it is structured
    options,        \* of its run
    via,            \* "api", which validates flows, or "cli", which does not
    pc,             \* "submit", "head", "execute" or "done"
    status,         \* of the run
    current,        \* current_node_id
    steps,          \* nodes entered
    attempt,        \* attempt of _run_single_node
    browser,        \* context.browser_enabled
    cancel,         \* what should_cancel answers
    stack,          \* __loop_stack
    counter,        \* loop -> __loop_counter
    items,          \* loop -> length of __loop_items, None when there are none
    breakTarget,    \* __loop_break_target
    continueTarget, \* __loop_continue_target
    \* What an observer remembers.
    passes,         \* loop -> bodies begun since it was entered from outside
    stuck           \* the run failed for want of a next node

submitted == <<flow, options, via>>
loopState == <<stack, counter, items, breakTarget, continueTarget>>
vars == <<submitted, pc, status, current, steps, attempt, browser, cancel,
          loopState, passes, stuck>>
-----------------------------------------------------------------------------
AnyLoop == "*"      \* a break or continue outside of every loop

Loops == OfType(flow, "loop")
Config == flow.config[current]
Outgoing == EdgesFrom(flow, current)
BreakPending(l) == breakTarget \in {l, AnyLoop}

\* A flow together with what the properties need of it.
Shaped(f) == [f EXCEPT !.body = [l \in OfType(f, "loop") |-> Body(f, l)],
                       !.structured = Structured(f)]
Around(n) == {l \in Loops : n \in flow.body[l]}

Init ==
    /\ \E s \in Submissions : flow = Shaped(s[1]) /\ options = s[2]
    /\ via \in {"api", "cli"}
    /\ pc = "submit"
    /\ status = "pending"
    /\ current = None
    /\ steps = 0
    /\ attempt = 0
    /\ browser \in BOOLEAN
    /\ cancel = FALSE
    /\ stack = <<>>
    /\ counter = [l \in Loops |-> 0]
    /\ items = [l \in Loops |-> None]
    /\ breakTarget = None
    /\ continueTarget = None
    /\ passes = [l \in Loops |-> 0]
    /\ stuck = FALSE
-----------------------------------------------------------------------------
(* run_flow *)

\* The run ends.  A finished run is left alone: _transition raises.
End(outcome) ==
    /\ pc' = "done"
    /\ status' = IF status \in {"pending", "running"} THEN outcome ELSE "error"

\* execute_flow refuses an invalid flow; build_plan raises in a run that is
\* still pending.
Submit ==
    /\ pc = "submit"
    /\ \/ /\ via = "api" /\ ~Valid(flow)
          /\ pc' = "done"
          /\ UNCHANGED <<status, current>>
       \/ /\ via = "cli" /\ ~Plannable(flow)
          /\ End("failed")
          /\ UNCHANGED current
       \/ /\ IF via = "api" THEN Valid(flow) ELSE Plannable(flow)
          /\ pc' = "head"
          /\ status' = "running"
          /\ current' = StartOf(flow)
    /\ UNCHANGED <<submitted, steps, attempt, browser, cancel, loopState, passes, stuck>>

RequestCancel ==
    /\ options.cancellable /\ ~cancel /\ pc # "done"
    /\ cancel' = TRUE
    /\ UNCHANGED <<submitted, pc, status, current, steps, attempt, browser, loopState, passes, stuck>>

\* Mutant of TopOfLoop: steps are not counted.
TopOfLoopUncounted ==
    /\ pc = "head"
    /\ pc' = "execute"
    /\ attempt' = 1
    /\ UNCHANGED <<submitted, status, steps, current, browser, cancel, loopState, passes, stuck>>

\* The head of the loop: cancellation, then the step limit.
TopOfLoop ==
    /\ pc = "head"
    /\ \/ cancel /\ End("canceled") /\ UNCHANGED <<steps, attempt>>
       \/ ~cancel /\ steps >= options.maxSteps /\ End("failed") /\ UNCHANGED <<steps, attempt>>
       \/ /\ ~cancel /\ steps < options.maxSteps
          /\ pc' = "execute"
          /\ steps' = steps + 1
          /\ attempt' = 1
          /\ UNCHANGED status
    /\ UNCHANGED <<submitted, current, browser, cancel, loopState, passes, stuck>>

\* The next node, with the passes of a loop that is entered anew.
GoTo(n, begun) ==
    /\ current' = n
    /\ pc' = "head"
    /\ passes' = IF n \in Loops /\ current \notin flow.body[n] \cup {n}
                 THEN [begun EXCEPT ![n] = 0] ELSE begun
    /\ UNCHANGED <<status, stuck>>

\* An executor returned n: after the end the run is over, a breakpoint ends
\* it, and a node that leads nowhere fails it.
Proceed(n, begun) ==
    IF flow.type[current] = "end"
    THEN End("success") /\ passes' = begun /\ UNCHANGED <<current, stuck>>
    ELSE IF options.pauseAfterEachNode \/ current \in options.breakpointNodeIds
    THEN End("canceled") /\ passes' = begun /\ UNCHANGED <<current, stuck>>
    ELSE IF n = None
    THEN End("failed") /\ stuck' = TRUE /\ passes' = begun /\ UNCHANGED current
    ELSE GoTo(n, begun)

Executes(types) ==
    /\ pc = "execute"
    /\ flow.type[current] \in types
    /\ UNCHANGED <<submitted, steps, browser, cancel>>
-----------------------------------------------------------------------------
(* Executors *)

\* Nodes that go on along their first edge: start, end, and actions that work.
Plain ==
    /\ Executes({"start", "end", "action"})
    /\ Proceed(NextDefault(flow, Outgoing), passes)
    /\ UNCHANGED <<attempt, loopState>>

\* if, switchCase, rowLocate, tryCatch and parallel
Branch ==
    /\ Executes({"if", "switchCase", "rowLocate", "tryCatch", "parallel"})
    /\ \E want \in Wants(flow, current) : Proceed(Route(flow, Outgoing, want), passes)
    /\ UNCHANGED <<attempt, loopState>>

\* _break_node and _continue_node: the loop the node names, or the last one on
\* the stack.
TargetLoop ==
    IF Config.loopId # None THEN Config.loopId
    ELSE IF stack = <<>> THEN AnyLoop
    ELSE stack[Len(stack)]

Break ==
    /\ Executes({"break"})
    /\ breakTarget' = TargetLoop
    /\ Proceed(NextDefault(flow, Outgoing), passes)
    /\ UNCHANGED <<attempt, stack, counter, items, continueTarget>>

Continue ==
    /\ Executes({"continue"})
    /\ continueTarget' = TargetLoop
    /\ Proceed(NextDefault(flow, Outgoing), passes)
    /\ UNCHANGED <<attempt, stack, counter, items, breakTarget>>

\* _loop puts itself on the stack unless it is on top.
Entered(l) == IF stack # <<>> /\ stack[Len(stack)] = l THEN stack ELSE Append(stack, l)

\* A list without the elements that are x.
Without(s, x) ==
    LET kept   == {i \in DOMAIN s : s[i] # x}
        Nth(k) == CHOOSE i \in kept : Cardinality({j \in kept : j <= i}) = k
    IN  [k \in 1 .. Cardinality(kept) |-> s[Nth(k)]]

\* A loop that is over forgets its counter and its items and leaves the stack.
LeaveLoop(l) ==
    /\ counter' = [counter EXCEPT ![l] = 0]
    /\ items' = [items EXCEPT ![l] = None]
    /\ stack' = Without(Entered(l), l)
    /\ Proceed(Route(flow, Outgoing, "exit"), passes)

BeginPass(l, length) ==
    /\ counter' = [counter EXCEPT ![l] = @ + 1]
    /\ items' = [items EXCEPT ![l] = length]
    /\ stack' = Entered(l)
    /\ Proceed(Route(flow, Outgoing, "body"), [passes EXCEPT ![l] = @ + 1])

\* Mutant of LoopBreaks: the request stays.
LoopBreaksAgain ==
    /\ Executes({"loop"})
    /\ BreakPending(current)
    /\ LeaveLoop(current)
    /\ UNCHANGED <<attempt, continueTarget, breakTarget>>

LoopBreaks ==
    /\ Executes({"loop"})
    /\ BreakPending(current)
    /\ breakTarget' = None
    /\ LeaveLoop(current)
    /\ UNCHANGED <<attempt, continueTarget>>

\* Mutant of LoopOverItems: counted as LoopTimes counts.
LoopOverItemsShort ==
    /\ Executes({"loop"})
    /\ Config.source /\ ~BreakPending(current)
    /\ \E length \in IF items[current] # None THEN {items[current]} ELSE Config.items :
        IF counter[current] + 1 >= length THEN LeaveLoop(current) ELSE BeginPass(current, length)
    /\ continueTarget' = IF continueTarget \in {current, AnyLoop} THEN None ELSE continueTarget
    /\ UNCHANGED <<attempt, breakTarget>>

\* A loop over a source resolves it once, to a list of some length.
LoopOverItems ==
    /\ Executes({"loop"})
    /\ Config.source /\ ~BreakPending(current)
    /\ \E length \in IF items[current] # None THEN {items[current]} ELSE Config.items :
        IF counter[current] >= length THEN LeaveLoop(current) ELSE BeginPass(current, length)
    /\ continueTarget' = IF continueTarget \in {current, AnyLoop} THEN None ELSE continueTarget
    /\ UNCHANGED <<attempt, breakTarget>>

\* A loop with times counts before it compares.
LoopTimes ==
    /\ Executes({"loop"})
    /\ ~Config.source /\ ~BreakPending(current)
    /\ IF counter[current] + 1 >= Config.times
       THEN LeaveLoop(current) ELSE BeginPass(current, items[current])
    /\ continueTarget' = IF continueTarget \in {current, AnyLoop} THEN None ELSE continueTarget
    /\ UNCHANGED <<attempt, breakTarget>>
-----------------------------------------------------------------------------
(* Failures of an executor *)

\* The node is given up: its catch edge, or the end of the run.
GiveUp ==
    LET catch == ErrorEdge(flow, Outgoing) IN
    IF catch # None THEN GoTo(catch, passes)
    ELSE End("failed") /\ UNCHANGED <<current, stuck, passes>>

Retry ==
    /\ attempt' = attempt + 1
    /\ UNCHANGED <<pc, status, current, stuck, passes>>

\* An executor raised NodeExecutionError, or took longer than its timeout.
Fails ==
    /\ pc = "execute"
    /\ flow.type[current] \in {"action", "rowLocate"}
    /\ IF attempt <= Config.retries THEN Retry ELSE GiveUp /\ UNCHANGED attempt
    /\ UNCHANGED <<submitted, steps, browser, cancel, loopState>>

\* The browser did not start: the run goes on without one and the attempt does
\* not count, unless the node or the run forbids it.
FallsBack ==
    /\ pc = "execute"
    /\ flow.type[current] \in {"action", "rowLocate"} /\ browser /\ Config.fallback
    /\ browser' = FALSE
    /\ UNCHANGED <<submitted, pc, status, current, steps, attempt, cancel, loopState, passes, stuck>>

\* Any other exception ends the run at once.
Unexpected ==
    /\ pc = "execute"
    /\ flow.type[current] \in {"action", "rowLocate"}
    /\ End("failed")
    /\ UNCHANGED <<submitted, current, steps, attempt, browser,
                   cancel, loopState, passes, stuck>>
-----------------------------------------------------------------------------
Engine ==
    \/ Submit \/ TopOfLoop
    \/ Plain \/ Branch \/ Break \/ Continue \/ LoopBreaks \/ LoopOverItems \/ LoopTimes
    \/ Fails \/ FallsBack \/ Unexpected

Next == Engine \/ RequestCancel

Spec == Init /\ [][Next]_vars

\* Every executor returns: the browser calls and HTTP requests have timeouts.
FairSpec == Spec /\ WF_vars(Engine)
-----------------------------------------------------------------------------
(* Properties *)

\* A flow that the API lets through never fails for want of a next node: the
\* validator asks for enough edges for what the executors make of them.
NeverStuck == via = "api" => ~stuck

\* Every run ends, whatever circles the flow has and however executors fail.
RunEnds == <>(pc = "done")

\* In a structured flow, outside of loop nodes, the stack holds the loops around
\* the current node, outermost first: break and continue mean the innermost.
StackIsNesting ==
    flow.structured /\ current # None /\ flow.type[current] # "loop" =>
        /\ {stack[i] : i \in DOMAIN stack} = Around(current)
        /\ \A i, j \in DOMAIN stack : i < j => stack[j] \in flow.body[stack[i]]

\* In a structured flow no loop remembers anything of an earlier visit: inside
\* its body the counter is the number of passes begun, outside it is zero, no
\* items are kept and no break is pending.
LoopsStartAfresh ==
    flow.structured /\ current # None =>
        \A l \in Loops :
            IF current \in flow.body[l]
            THEN counter[l] = passes[l]
            ELSE current # l => counter[l] = 0 /\ items[l] = None /\ breakTarget # l

\* What the variables of the run say of the loops is true wherever the run is,
\* after any history of breaks, continues, failures and catch edges.
LoopStateFits == StackIsNesting /\ LoopsStartAfresh

\* A loop over a source that is not broken off begins as many passes as its
\* source had items, continue requests, failures and retries notwithstanding.
EveryItemOnce ==
    [][\A l \in Loops :
        flow.structured /\ LoopOverItems /\ current = l /\ pc' # "done"
            /\ current' \notin flow.body[l]
                => passes[l] = IF items[l] = None THEN 0 ELSE items[l]]_vars

=============================================================================
