# Verification of the RPA Flow platform

TLA+ models, TLC runs and TLAPS proofs for the code under `src/v2`. Paths below
are relative to `src/v2` unless they start with `src/`.

## 1. The system

The platform designs browser automations ("flows"), stores schedules for them,
runs them and lets a user pick page elements while designing. A desktop shell
starts a Python API as a child process and shows the designer, a React
application that keeps its flows in the browser's localStorage. The API runs
flows with the agent, in the same process. A browser extension records what a
user does and picks elements; it talks to the designer's page by messages, and
to the API over HTTP or through a native messaging host.

| Component | Source | State | Operations |
|---|---|---|---|
| Task scheduler | `services/api/app/services/task_service.py`, `repositories/task_repository.py`, `json_store.py` | task records (dictionary and file), bounded queue, stop event, poller and worker threads | create, update, pause, resume, disable, delete, trigger, retry; poll, claim, enqueue; execute; start, stop |
| Native picker service | `services/native_picker_service.py`, `repositories/native_picker_repository.py`, `native_host.py` | sqlite tables of sessions and results, shared by the API and native host processes | create, query, cancel, handle a message, pull a result |
| Agent engine | `apps/agent/agent/runtime/engine.py`, `planner.py`, `executors/registry.py` | current node, status, attempts, loop stack and counters in the variables of the run | run a node, retry, fall back, branch, loop, break, continue, catch, pause, cancel |
| Flow validation | `services/api/app/services/flow_validation.py` | none | validate the graph |
| Desktop shell | `apps/desktop/src-tauri/src/main.rs` | `AppRuntime` behind a mutex, the API process, a supervisor thread | start, stop, restart, supervise, shut down |
| Flow editor | `apps/designer/src/features/designer/` | flow, selection | add, insert, connect, retype, configure cases, remove, import a recording, load, normalise |
| Console and flow storage | `apps/designer/src/app/App.tsx`, `features/{flows,runs,tasks}`, `shared/storage/flowStore.ts`, `core/api/client.ts` | localStorage (catalog, records, versions), the page each window shows, requests under way | list, create, open, autosave, delete, save a version, roll back, run, self check, open from a run, turn pages |
| Recorder extension | `apps/recorder-extension/background.js`, `content.js`, `popup.js` | per tab recording state and events, one picker session; per frame pick mode and target | start and stop a recording, start a pick, hover, lock, confirm, cancel, offer a recording |
| Selectors of a pick | `content.js`, `useDesignerState.ts`, rule files | rules, frame path prefixes, target | load rules, resolve the target, list and rank selectors, merge frame paths, store |
| Native pick pipeline | `useDesignerState.ts`, `background.js`, `content.js` | the designer's session and target, the worker's maps of sessions and tabs, its API base | start, poll, pull, cancel; list, arm, send, rebind, fall back to the host |
| Run service | `services/run_service.py`, `repositories/run_repository.py`, `routers/runs.py` | the last 10,000 run records | execute a flow, save, list |
| Picker service, browser automation, security, flow schema, packaging | rest of the tree | | |

How they interact: request threads, the poller and the workers meet in
repositories whose locks cover one call, so nearly every decision in the API is
"read a record, compute, save a whole record", and may be stale by the time it
is saved. The API and the native host share nothing but a database. The shell
knows the API by a process id and a health check. The worker of the extension,
the scripts in the frames of a page, and the designer share nothing: all is
messages, and each `await` of the worker lets other handlers in. Windows of the
designer share localStorage and nothing tells one what another wrote.

What is hard, and what makes each part correct:

- **Scheduler**: stale saves from three kinds of thread; claims that are
  persisted before their queue entry exists; a queue at its limit; stop and
  crash. Correct: a claimed occurrence is executed at most once, due tasks are
  claimed, no stale save arms a manual task or lets a `once` task fire at a
  foreign instant (the code itself crosses schedules in two places, section 4),
  `stop` ends every thread.
- **Native picker**: two processes, one database, a lock in only one of them,
  timeouts written by queries. Correct: one decision per session, one handing
  out of a result, expired sessions end for good.
- **Engine**: loop state in variables that outlive the loop, and a validator in
  another package. Correct: loop state is that of the loops around the node,
  accepted flows never lack a next node, every run ends.
- **Shell**: a decision before a sleep and a deed after it. Correct: a stop
  holds, and an API that fails is restarted until the limit.
- **Flow editor**: a graph rewired by a dozen operations, each with its own
  rules for edges, ids made of the clock, imports that rename. Correct: edges
  join existing nodes, ids are unique, adding cuts nothing off, no edge hangs
  at a port that is gone.
- **Console**: a quota that lets one of two writes through, windows that
  overwrite each other, answers that come late or never, an editor that mends
  and saves what it opens. Correct: the catalog and the "saved" notice are true,
  opening a flow only mends it, the run console shows one run, its button comes back.
- **Extension**: picks that overlap, tabs that close, navigate or are still
  loading, frames that start and hear the worker each by itself. Correct: a pick
  reaches the node it was made for or that of a later pick, recordings of closed
  tabs stay gone, a page whose pick is over stops picking.
- **Selectors**: a frame path put together from what every window knows, four
  lists of selectors built from one another, rule files that users edit.
  Correct: the stored path is the true one, the stored selector the best on its
  list.
- **Pipeline**: two ways to send one pick, several API ports, sessions that
  overlap, an answer lost after the deed. Correct: what the page is told is
  true, a pick is stored once, and in the node its session was started for.

`PROJECT.json` lists these as hazards at their lines with the properties that
would catch them.

## 2. Modules and the code

Convention: a step is one critical section of the code (a repository call, a
queue operation, a section under a mutex, one handler of a script up to its
next `await`). What a thread remembers between two of its steps is in its own
record. Variables marked as history or under "what an observer remembers" are
written by the steps and read only by properties. Operators named as
"Deviation" or "Mutant of X" are wrong versions of X: checks substitute them to
see the properties fail; no action uses them.

- **`TaskScheduler`** models `TaskRuntime` and the task operations.
  `tasks` is the repository (an id that is missing has status `absent`),
  `runs` the run repository, which drops its oldest run beyond `MaxRuns` (10,000
  in the code) and in which `retry` looks for a failed run, `queue` the in-memory queue, `poller`, `worker` and `client` the threads. `PollDue` takes the
  snapshot of `due_tasks`, `ClaimDue` is `claim_due_task`, `EnqueueClaim` puts
  the entry or kills the poller. A worker takes an entry (`TakeEntry`), looks the task up (`ReadTask`),
  runs attempts of every flow, each with its run saved (`RunAttempt`, `SaveRun`), and
  saves the copy of the task it has read (`WriteBack`). `RunFlow` is a run of no task,
  which fills the same repository. A request reads (`Begin…`), then saves (`Commit…`).
  `Stop` and `Restart` end the process in order or by a crash. The clock is an
  integer; a value computed between two steps may use any instant between them.
  daily, weekly, monthly and cron schedules are one periodic mode. Of the history,
  `crossed` has the tasks of which the code itself stored a next run of another schedule,
  `dropped` those of which a failed run was pushed out of the repository.
- **`DeliveryLedger`** is the promise behind the queue, abstractly: a numbered
  claim is pending, then delivered or lost, at most one of these. `TaskScheduler`
  implements it with its poller, queue and workers (`AtMostOnceDelivery`), and
  `NativePicker` implements it with stored and pulled results (`AtMostOncePull`).
- **`NativePicker`** models sessions and results over sqlite. A step is one
  transaction; `pull_result` has two under the repository lock of its process.
  `proc` is what each request thread or host is at, `apiLock` the service lock,
  which hosts do not share.
- **`FlowGraph`** holds what is pure in the engine: the validator's graph checks, the
  plan, and the choice of the next edge, on graphs without malformed ids.
  `Body` and `Structured` are not in the code: they say what
  a properly nested flow is, and the properties of loops are about those.
- **`RunEngine`** models one run: `Submit` (through the API, which validates, or
  the command line, which does not), the head of the loop with its step limit,
  cancellation and pauses, and one call of an executor. Control nodes are
  modelled with their state; all others return or raise.
- **`DesktopSupervisor`** models `AppRuntime` (`runtime`), the processes spawned
  (`proc`), the supervisor thread and the shutdown. `Starts`, `Stops` and
  `Restarts` are the three internal functions as sets of outcomes, because
  `restart` calls `start`, and commands, setup and the supervisor call them.
- **`FlowShape`** is the flow document of the designer with the pure functions
  on it: ports of branch nodes, `uniqueId`, the cases of a switch,
  `normalizeFlowStructure`. An id is the tuple of the parts of the code's string.
- **`RecorderImport`** takes a recording to a flow: filter and sort events,
  merge quick inputs, map events to a chain with waits between, and replace the
  current flow or append to it with fresh ids.
- **`FlowEditor`** is the state of the editor and one action per operation that
  changes nodes or edges, behind the guards of the view that calls it (the
  canvas offers only what `isValidConnection` allows, the menu only its types).
  `Become` adds the effect that clears a stale selection.
- **`FlowStore`** is localStorage: a catalog, a record per flow, the versions;
  `saveFlow`, `deleteFlow`, `ensureSeedFlow` and `listFlows` as in the source,
  each growing write costing one unit of `room`. What a flow says is a number, its text; `Mends`
  is what `ensureBrowserDefaults` makes of each (`FlowShape` has `normalizeFlowStructure` in full).
- **`Console`** has the windows (`window[w]` is the page shown and its React
  state), the requests under way (`calls`), and of the API the runs and the
  number of tasks. An editor shows the mended record, and `ShowMended` and the autosave store it.
  `ValidateFlow` and `StartRun` mend and store the flow
  before they ask the API; `StartRun` and `StartSelfCheck` share the busy flag. A step is a handler with the effects it sets off; an effect that throws
  takes the window down, since there is no error boundary. `Served` is the API
  executing a request, `Returned` its answer or timeout.
- **`PageFrames`** maps a page (top frame and one frame inside) before a handler
  of `content.js` to the page after it: pick mode, hovering, locking,
  confirming, following a frame, and the recorder, with the messages between the frames.
  Each frame starts its script, asks the worker and hears it by itself.
- **`RecorderExtension`** adds the worker: its picker session, recordings per
  tab, opening and arming the tab of a pick with its retries, an inbox for each frame, routing
  of what pages send, tabs that close or navigate, a restart of the worker. The designer
  has its part: `StartElementPicker` sets the node it waits for, and `OnPickResult` prefers that
  to the node a result names.
- **`PickerRules`**, **`PickCandidates`**, **`FramePaths`**, **`PickTargets`** are the
  algorithms of a pick: normalisation of rule files; candidates, scores and
  ranking, and what the designer reads of them; description, merging and locator
  chains of frames; which element a pointer picks. Patterns are the values they
  recognise, a selector a tuple of language, attribute and value.
- **`PagePick`** composes them with the messages between all windows of a page:
  scripts start early or late, toggles arrive or meet no listener (`ToggleIsLost`), prefixes
  arrive, the user hovers and confirms at either window, the top forwards the pick, the designer
  stores it.
- **`PickerDesigner`** is the designer's side of a native pick (start, poll, pull,
  write, cancel, unmount, deletion of the node) over the service's two tables;
  **`NativePipeline`** extends it with the worker: polling, choosing and arming
  a tab, its maps of sessions and tabs, and the way of an envelope over
  HTTP, a second try, another API that knows the session, or the native host. The service's
  answer "invalid result" refuses a pick and leaves its session live.
- `MC…` modules hold instances: schedules, flows, scenes, symmetry.
- `…_proofs` modules hold the theorems of a module and their proofs: of
  `TaskScheduler`, `NativePicker`, `RunEngine` (with `FlowGraph`), `DesktopSupervisor`,
  `Console` (with `FlowStore`), `RecorderExtension` (with `PageFrames`), `NativePipeline`
  (with `PickerDesigner`) and `FlowEditor` (with `FlowShape` and `RecorderImport`).

Where two modules touch, each names the other's part: `RecorderExtension`
leaves picks of tabs it has no session for to `NativePipeline`, which takes a tab
that the former stranded in pick mode as an external step (`ExtensionStrands`);
`PagePick` leaves leaving pick mode and following the pointer between frames to
`PageFrames`; `PickerDesigner` takes a message to the service as one step, whose
races `NativePicker` has.

`map` in `PROJECT.json` gives the lines of every definition.

## 3. Runs

All runs switch deadlock checking off, because the counters that bound an
instance, finished threads, ended processes and finished picks all stop the system.

| Run | Instance | Shows |
|---|---|---|
| `sched_requests` | one task, worker and client; all requests; runs of no task; clock 0..1; a batch of two flows with one retry on an interval, over a repository for two runs; or a task that takes manual, once and interval schedules | stale saves never arm a manual task, and a `once` task only for its instant unless the code crossed two schedules; "failed" had its run stored, and loses it to newer runs only |
| `sched_delivery` | one task, two workers, triggers, a queue for one, two claims, one stop or crash, fairness | at-most-once delivery: every claim is pending, taken or lost; `once` fires once; due tasks are claimed or the poller is dead; a claim is settled; `stop` ends all threads though a full queue swallows sentinels |
| `sched_delete` | one task, a trigger and a delete | **violated**: a deleted task is saved again by a worker |
| `native_results` | one session, two API threads, a host, three messages, one crash, clock 0..1, fairness | one decision as long as no host takes part, no result handed out twice, expired sessions end for good, success has a result unless a process died |
| `engine_flows` | every wiring of two nodes (action or loop; action, if or break) between start and end, valid or not; flows with odd conditions, pauses and cancellation; nested loops of up to 3 and 4 passes, 30 steps; fairness | loop state is that of the loops around and starts afresh (`LoopStateFits`); accepted flows are never stuck; every item once; every run ends |
| `desktop_restarts` | two restarts, threshold 2, two commands, two faults, two ports, fairness | a stop holds against a supervisor that sleeps; an API that fails is restarted until the limit |
| `editor_edits` | a straight flow and one with a switch, three edits of any kind, up to 6 nodes and 7 edges, a recording of two events | the graph stays intact, additions cut nothing off, a changed switch keeps no edge at a lost port |
| `editor_import` | the same | **violated**: an import with no selection hangs on itself |
| `extension` | two tabs and nodes, two events kept; three scenes: three acts in the designer and two of the user; one pick, two acts of the user, one of the browser and one of the native part in a page of two frames; recordings with three acts of the recorder and three of the browser, one of the user and of the native part | a result lands in its tab's node or in that of a later pick, once; frames whose messages cross stop picking when the pick is over; what is offered as recording is of an open tab |
| `pipeline` | two sessions, tabs and nodes, three acts, one failing request, two APIs and the host | what the page is told is stored; a pick is stored once; a node gets the result of its session, once; a pick is refused only for a session that is over, an API that failed or a result the service cannot use |
| `page_picks` | every arrangement of up to three nested frames of two origins, alike and unlike; an element with every mix of naming attributes; four edited rule files; every view of three nested elements, named containers included; any order of messages; scripts of frames that start late | the true frame path (but below a lost toggle), a chain that fits it, the best selector, no generated one where a stable one is, a text field under the pointer loses only to what beats its lead |
| `console` | two windows, a sample and a draft, flows that need mending and flows that do not, five user actions, one step that meets the quota, one run, two tasks, fairness | listed flows exist, "saved" means stored, opening only mends the flow, one run on show, pages in range, the run button comes back |

Which module each run checks, with which configuration, and the properties it states:

| Run | Module and configuration | Properties |
|---|---|---|
| `sched_requests` | `MCTaskScheduler`, `TaskScheduler_requests.cfg` | `TypeOK`, `FailureIsBacked`, `ManualNeverArmed`, `OnceAtItsInstant` |
| `sched_delivery` | `MCTaskScheduler`, `TaskScheduler_delivery.cfg` | `OnceFiresOnce`, `AtMostOnceDelivery`, `DueIsClaimed`, `ClaimIsSettled`, `StopEnds` |
| `sched_delete` | `MCTaskScheduler`, `TaskScheduler_delete.cfg` | `DeletedStaysDeleted` |
| `native_results` | `MCNativePicker`, `NativePicker_results.cfg` | `OneDecision`, `AtMostOncePull`, `ExpiredEnds`, `SucceededIsStored` |
| `engine_flows` | `MCRunEngine`, `RunEngine_flows.cfg` | `LoopStateFits`, `NeverStuck`, `EveryItemOnce`, `RunEnds` |
| `desktop_restarts` | `MCDesktopSupervisor`, `DesktopSupervisor_restarts.cfg` | `StoppedStaysStopped`, `ApiIsKept` |
| `editor_edits` | `MCFlowEditor`, `FlowEditor_edits.cfg` | `FlowIntact`, `AddingCutsNothing`, `NoEdgeAtLostPort` |
| `editor_import` | `MCFlowEditor`, `FlowEditor_import.cfg` | `ImportIsReached` |
| `extension` | `MCRecorderExtension`, `RecorderExtension_scenes.cfg` | `ResultForItsNode`, `PickModeEnds`, `OfferedFromOpenTab` |
| `pipeline` | `MCNativePipeline`, `NativePipeline_picks.cfg` | `OkIsStored`, `StoredOnce`, `WrittenWhereStarted`, `RefusedWithReason` |
| `console` | `MCConsole`, `Console_pages.cfg` | `ListedFlowsExist`, `SavedMeansStored`, `OpeningKeepsTheFlow`, `ShownRunIsOne`, `PageInRange`, `RunButtonComesBack` |
| `page_picks` | `MCPagePick`, `PagePick_picks.cfg` | `FramePathRecovered`, `ChainFitsPath`, `StoredIsBest`, `StableIsPreferred`, `PointedFieldHasTheLead` |

### Bounds, and why they are enough

- Two threads meet in every race of the code, and a third (host, worker)
  where three kinds of thread write the same record. Names are interchangeable; runs with
  liveness use no symmetry.
- One task suffices where tasks do not touch each other's records. What they
  share is the queue, and a poll's snapshot of several tasks; those are covered
  for any number of tasks by the proofs. A queue for one entry is full
  after one claim or trigger, and two workers and a stop make two sentinels too many for it.
- A clock of one tick tells "before" from "after" a deadline; intervals of one
  make every tick due.
- Two nodes between start and end already make self loops, circles, dead ends, duplicated
  branches, loops without exit and bodies without a way back; the nested flow
  adds what needs depth. The step limit is cut so that each circle is entered
  twice, and a flow that circles for ever still meets it and ends, as `RunEnds` asks.
- One crash and one restart: recovery starts from any state
  and a second one would repeat the first, since nothing else is kept.
- Three edits: an operation that damages the graph does so on a state at most
  two operations away from a loaded one (an invented end node, a second edge,
  a branch), and four edits found nothing more while the properties were written.
- `Gap` 20 is the time between two of these operations, in the units the editor numbers
  ids by. It is larger than twice the nodes or edges of a flow, so that no id of one
  operation runs into those of the next; in the code it is a user's second against
  counts of nodes.
- `sched_requests` has two scenes, and a constraint keeps them apart
  (`BatchesOrEdits`): what fails and is retried does not touch next runs, and edits do
  not touch runs. A repository for two runs is full after one batch.
- Two tabs and two nodes make every overlap of two picks: three acts start both and
  a third or remove a node. The scenes of `extension` differ in who acts
  (`Scenes`): overlapping picks need no second frame, crossing messages
  of frames need one pick only, and recordings none; together they would be too many
  to enumerate, and the proofs have them together. Two sessions and one failure let each of the
  two ways of an envelope fail once, and both APIs answer.
- Three nested frames are the fewest with a window that is neither top nor
  picked; two origins decide what each script may see of the others; two frames
  are of any two of the three kinds, three of one kind or of all three. Elements have one
  attribute of each kind of candidate, with a stable, a generated or no value.
- Two windows make every overwriting of one by the other. Five actions create,
  edit, delete and reopen a flow across both; lists are opened in one of them,
  since they share nothing but the API. `VersionCap` 2 stands for 60, `MaxKept` 2 for 1200
  events: both cut the list as soon as it is longer.

### Fairness

- Scheduler: weak fairness of the poller's and each worker's steps. They
  are loops of running threads which block only on a queue with a timeout.
  Nothing is assumed of requests or the clock.
- Native picker: weak fairness of each process's started operation (a request
  runs to its end unless its process dies) and of queries about existing
  sessions, which the designer and the extension poll for.
- Engine: weak fairness of the engine's own steps, not of cancellation.
- Shell: weak fairness of the supervisor and of setup; none of an API process
  getting ready or recovering.
- Console: weak fairness of requests being served and of answers or timeouts
  coming back (`fetchWithTimeout`); none of what users do. The timer is cleared
  once the headers are there (`client.ts:87`): that the body then arrives is an
  assumption of `RunButtonComesBack`.
- Editor, extension, selectors and pipeline have safety properties only: nothing
  makes a user act, and several dead ends are in the code (section 4).

## 4. Findings

1. `sched_delete`: `execute_task_now` (`task_service.py:786`) saves the record it
   read before the runs; `TaskRepository.save` adds it when the task was deleted
   meanwhile.
2. `editor_import`: `appendMappedFlow` (`recorder.ts:478`) looks for its anchor
   after it pushed the recorded nodes; without a selection the recording is linked behind
   itself and no run reaches it, while the panel says it was appended.

Met while modelling, kept in the models and stated here; most are excepted by a named condition
of a property:

- *Scheduler*: `claim_due_task` stores a next run of the snapshot's schedule
  in a record whose schedule was edited meanwhile (`task_repository.py:94`), and an edit of a task
  that is not active keeps the next run of the old schedule (`task_service.py:626`); both
  are excepted in `OnceAtItsInstant` by `crossed`. The run repository keeps 10,000
  runs and drops the oldest (`run_repository.py:26`, 48-50), so that a task may show a failed
  last run which "retry last failed" answers with 404: `FailureIsBacked` excepts `dropped`.
- *Engine, service, shell*: a loop with `times` n runs its body n - 1 times
  (`registry.py:990`); `_next_default` follows a catch edge when it has the
  smallest id (`registry.py:594`); a query that read a session before its result was accepted
  saves a timeout over it (`native_picker_service.py:131`); `start_services`
  called while the shell's own API answers forgets its pid (`main.rs:925`).
- *Editor*: inserting on an edge of a branch puts the condition on the second
  half; `EdgePanel` and a change of type go around the guards of ports; an
  import that replaces the flow also changes its id.
- *Console*: opening a flow runs `ensureBrowserDefaults` on it and autosaves the result
  (`useDesignerState.ts:997`, 1007-1012), so that a flow whose start node is missing gets another one by
  being looked at, which is all `OpeningKeepsTheFlow` allows; a flow without nodes becomes the sample when it is reopened
  (`flowStore.ts:33`); rolling back to a version of another flow overwrites that
  flow's record (`useDesignerState.ts:2104`); windows overwrite each other's
  versions, and a quota hit there takes the window down (819); opening a run's
  flow overwrites the local one with an older, masked copy
  (`RunDetailPage.tsx:88`); a refresh after an action shows the page the list
  was on before (`TasksPage.tsx:139`); no code writes the status "published", so the guard
  against deleting published flows never holds (`FlowsPage.tsx:50`).
- *Extension*: two overlapping starts of a pick leave the first tab in pick
  mode, and the result of the earlier is written into the node of the later, because the
  designer prefers the node it waits for to the one the result names
  (`useDesignerState.ts:847-866`), which `ResultForItsNode` allows (`later`); after the pointer was in a frame, the top document cannot be picked until
  the frame gives up (`content.js:3414`); a confirmation the frame refuses leaves the top locked.
- *Selectors*: a toggle posted to a frame whose script has not started is lost
  (`content.js:288`), and the worker, which stops at the first answer (`background.js:219`),
  arms the frame later without the path above it, excepted in `FramePathRecovered`; frames of
  origins A, B, B make a segment twice (`content.js:2012`), excepted too; scripts that load rules at different
  times do too; a confirmation before the prefixes arrive gives a wrong path, and
  so does one after they arrived that the top sends with a path it was shown before
  (`requestPickConfirm`, `content.js:3266`: the stale path is put in front of the true
  one; frames that look different are needed to see it), both excepted by name; a
  test id that is not unique keeps its .99; XPaths by generated ids are not
  penalised; a container with a good name may be picked in place of the text field under
  the pointer, when it is better by the field's bonus (`content.js:2987`).
- *Pipeline*: a result the service finds invalid is refused while its session
  stays live (`native_picker_service.py:359`), which `RefusedWithReason` names as a reason; a tab that the extension's session left in pick mode delivers its pick to
  a native session of somebody else (`background.js:966`); a pick confirmed twice is
  refused in the page though it was stored; a native host of another
  installation makes a pick be stored twice, excepted in `StoredOnce`; an answer of an old
  poll stops the polling of a new session (`useDesignerState.ts:1614`).

## 5. Proofs

Each theorem holds for every value of the constants that satisfies the named
assumptions of its module: any number of tasks, threads, tabs, windows,
sessions, any flow, any clock. `Spec` is the specification the runs check,
without fairness.

| Theorem | States |
|---|---|
| `TaskScheduler_proofs!TypeCorrect` | `Spec => []TypeOK`, which includes the bound of the queue |
| `ManualTasksUnarmed`, `OnceKeepsItsInstant` | `[]ManualNeverArmed`, `[]OnceAtItsInstant` |
| `FailuresBacked` | `[]FailureIsBacked` |
| `ImplementsLedger` | `Spec => AtMostOnceDelivery`: the scheduler implements `DeliveryLedger` |
| `OnceClaimedOnce` | `[]OnceFiresOnce`, if clients neither update nor resume tasks |
| `NativePicker_proofs!DecidedOnce` | `[]OneDecision` |
| `PulledAtMostOnce` | `Spec => AtMostOncePull`: both processes and the designer implement `DeliveryLedger` |
| `RunEngine_proofs!ApiRunsAreNeverStuck` | `[]NeverStuck` |
| `LoopsAreRemembered` | `[]LoopStateFits` |
| `EachItemHasItsPass` | `EveryItemOnce` |
| `DesktopSupervisor_proofs!NoSpawnAfterStop` | `StoppedStaysStopped` |
| `Console_proofs!ListedCanBeOpened`, `SavedIsTrue` | `[]ListedFlowsExist`, `[]SavedMeansStored` |
| `OneRunShown`, `PagesInRange` | `[]ShownRunIsOne`, `[]PageInRange` |
| `OpeningOnlyMends` | `OpeningKeepsTheFlow` |
| `RecorderExtension_proofs!ResultsBelong` | `[]ResultForItsNode` |
| `PickModeIsLeft` | `[]PickModeEnds` |
| `OffersAreOpen` | `OfferedFromOpenTab` |
| `NativePipeline_proofs!OkMeansStored`, `PickStoredOnce` | `[]OkIsStored`, `[]StoredOnce` |
| `WritesFit` | `[]WrittenWhereStarted` |
| `RefusalsJustified` | `RefusedWithReason` |
| `FlowEditor_proofs!GraphStaysIntact` | `[]FlowIntact` |
| `PortsStayListed` | `DocumentsListPorts /\ Spec => NoEdgeAtLostPort` |
| `AdditionsCutNothing` | `DocumentsAreConnected /\ Spec => AddingCutsNothing` |

In each module `Inductive` (in `TaskScheduler_proofs`, `IInvHolds`) states that
the strengthening `IInv` holds in every reachable state. All others follow from it.

### Assumptions

`ConstantsAssumption` of the scheduler: schedules as `_validate_schedule` lets them
pass, a queue for at least one, finitely many workers, an empty id that no
task has. Of the native picker, and `DesktopAssumption`: processes are either threads of the API or
hosts, timeouts and thresholds are positive, the bounds are numbers, there are ports.
`EngineAssumption` and `IsFlow`: edges join nodes of the flow (both
`_validate_graph` and `build_plan` refuse others), options are numbers and sets of ids,
a source has a number of items. `IdsAssumption`,
`TextsAssumption`, `SampleHasNodes`, `MendsAssumption`, `CapAssumption`: drafts get fresh ids, the
sample has nodes, a flow without nodes is mended, the sample and what has been mended are not,
at least one version is kept. `MaxKeptAssumption`,
`TabsAssumption`, `NodesAssumption`, `BoundsAssumption`: a list keeps something, and the value that
stands for "none" is no tab and no window. `EditorAssumption`: the clock is ahead of every
number in an id that is not made of the time. `LoadedAssumption`: documents
are finite lists and within the bounds, and hold anything else: elements that are no objects,
missing and repeated ids, edges without ends. `CasesAssumption`: cases are lists.
`RecordingsAssumption`: a mapped recording has nodes with ids and edges between them, as
`mapRecorderPayloadToFlow` makes it. TLC evaluates them in every run.

Two theorems about the editor have a hypothesis, because opening a document
replaces the flow by what the document holds: an opened document has no edge at a lost
port (`DocumentsListPorts`), or no node that is cut off (`DocumentsAreConnected`).
`MCFlowEditor` has TLC evaluate both. Only the steps that open a document use them.

### Arguments

**Scheduler.** `ManualNeverArmed` speaks of the repository, but a save writes a copy
which a thread made long before, so it is not inductive. `IInv` strengthens
it: `TypeOK`; `JobsNamed` (a worker at a task knows which); `CopiesPaired`
(no record of a manual schedule that some thread has read or computed is armed, not only
no stored one); `CopiesBacked` (the same for "failed" and a run that is stored or was pushed out).
Each thread's steps keep `IInv` because a copy is taken from the repository, where it holds,
and changed by operations that keep the pairing. `NextRun` of a manual schedule
is never an instant, whatever base is used, which is why a claim with a stale
schedule does no harm: `claim_due_task` refuses records that are manual by
then. `OnceAtItsInstant` has no such guard to rest on: `CopiesTimed` says of every copy
that its `once` schedule is armed for its own instant or for none, unless the task is in
`crossed`, which is where a claim with an old snapshot and an edit of an inactive task put it. The ledger needs `CInv`: `IInv`, `SentinelsFree` (sentinels carry no claim),
`OnePlace` (a claim number occurs once among the poller, the queue entries and the
workers that have not looked it up) and `ClaimsAccounted` (pending, taken and lost claims
are disjoint, and are all there are). The refinement maps
pending claims to those in a thread or in the queue; the lemmas `LedgerPoller`,
`LedgerWorker`, `LedgerProcess` and `LedgerRequests` show that each action is a
ledger step or a stutter, `SentinelsFit` and `ClaimTypes` that
stops and restarts turn exactly the pending claims they drop into lost ones.
`OnceFiresOnce` needs `OnceInv`: there is a set of tasks such that every copy of a
record, wherever it is, is of a "once" task exactly if its id is in the set
(`OnceCopies`), and such a task is armed for its own instant or for none, for none
after it has fired, while a snapshot that is due is due at an instant that
has come (`OnceArmed`). That is why a snapshot the poller took before another claim does
not claim again. With edits a task is meant to be armed again, so the theorem
assumes `WithoutEdits`, as the requests of `sched_delivery` do.

**Native picker.** `DInv` is about decisions: a thread that has read a session and
will save a transition holds the service lock (`HandlersLock`), a message that may
still end a session is the first to do so unless a host takes part (`Undecided`), only
queries read several sessions (`OneRead`). `PInv` is about pulls: between
select and update `pull_result` holds the lock of its repository (`PullersLock`),
no two rows have the same result (`RowsDiffer`), and what a puller has selected is
still in its row or in none (`HandFits`). The ledger's pending claims are results in
a row that are not consumed.

**Engine.** `LoopStateFits` says what the stack holds away from loop nodes, and is
not inductive: a loop node finds on the stack itself or not, depending on where
the run came from. `IInv` says it for every node: the loops on the stack lie
each in those before and in no other (`Stacked`), and without the current node they
are the loops around it (`StackFits`); a counter is the number of passes for a loop around the
node and for the loop the run is at, and is zero with no items and no break pending
for all others (`Remembers`); no loop counts beyond its items (`WithinItems`). Of
the flow it needs `FlowFits`: no edge enters or leaves a body except at its loop
(`BodiesClosed`, from `ReachableAvoiding` being the least closed set), the loop's edges lead into
the body and out of it, and break and continue lead to the nearest loop. `FlowFitsInit` derives
these from `Structured`, so the theorems hold for all structured flows of any
size and nesting. A step along an edge then changes the loops around the node at most by
the edge's ends (`AroundTarget`), which are where the executors push, pop and count.
`LoopsFit` also covers catch edges: `BodiesClosed` keeps them within their loop.
`NeverStuck` needs only that a valid flow has an edge out of every node that is no end, and that
every executor's choice falls back to the first edge (`RouteIsTarget`).
An earlier `Structured` let the exit edge of a loop lead back to the loop. The proof
failed there, and a run with more steps showed why: such a loop starts again with the passes it
had. The definition now excludes it, and the run's small flows have seven steps.

**Shell.** `StoppedStaysStopped` follows from `StopHolds` (supervision is off after a
stop) and from what `Restarts` may do under the mutex; types need `SpawnsCounted`:
setup, commands and the restart budget bound the spawned processes, so a fresh pid is
always left.

**Console.** The first part of `Console_proofs` shows for each operation on localStorage, with every place
where the quota may cut it short, which flows it leaves as they were (`SameBut`) and that each
entry of the catalog has a record (`Backed`). The second part adds
`SaidGood` (an editor's "saved" is true while it was the last to write), `WindowGood` (of a page:
its number, run and confirmations), `CallGood` (a request that runs a flow belongs to a window that shows it as
under way) and that a window has one such request at a time. `OpeningOnlyMends` rests on `ensureBrowserDefaults`
being settled after one use (`MendsAssumption`), and `MendedShows` on what a handler that mends does to the page.

**Extension.** A tab opened for a pick goes one way, from being started to being the session's target
to a result in the mail to one in a node, and is at one place of it (`OneStage`); until the mail it
belongs to the node it was opened for. What the designer waits for then is that node or that of
a later pick (`TargetIsLast`, which also relates it to the last request under way).
`PickModeEnds` is about single frames whose messages cross, so `IInv` says of each queue what is left of it:
a queue is `Quiet` if nothing in it puts the frame in pick mode, and `Ends` if something that
ends it follows whatever does. `Ending`: in a page that no session is about, and in which no pick mode
was left (`loose`), the top frame's box ends or is quiet while it does not pick, and the frame inside has an
end on its way from the worker or the top, or does not pick. `Unheard`: a frame without a script does not
pick and gets no message. Each handler is `Calm` (it adds no pick mode) except `StartPickMode`.
`GoneIsSilent`: a tab that is gone records nothing and has nothing recorded.

**Pipeline.** `IInv` relates the maps, calls and envelopes to the service's tables:
whoever waits for a session waits for the node it was created for (`IsFor`), a result found by
a pull is taken and not written yet (`CallGood`), an envelope acknowledged "ok" is stored, and one
that has gone past its HTTP stages without was hit by a fault, cannot be used by the service, or its session
is over (`EnvelopeGood`);
a pick is sent by one envelope, and to one session until a foreign host turns up (`SentToOne`).

**Editor.** `FlowIntact` is not inductive: the ids of new nodes and edges are made of the clock,
and a flow may hold such an id already. `IInv` says that every number in an id is older than the next
operation, that nodes and edges are well-shaped with distinct ids (`Sound`), that edges are `Between`
nodes of the flow, and that the selected node is one of it. Documents have it after normalising, whatever they
hold (`NormalizedSound`); an import has it because `uniqueId` finds a free suffix among one more than
the ids in use (`UniqueIdIsFree`, by counting) and redirects its edges with its nodes
(`RedirectedAre`).
For ports, every node of the next flow is new or comes from one of this flow with its cases
(`NodesFrom`), unless a document is opened or the cases are what is changed (`NextFrom`);
this needs that no node has a blank id, which normalising would replace. Where cases change, the edges that are
kept leave at listed cases, and listing cases a second time, as the ports of a node do, loses none (`CasesTwice`).
For additions, `Reached` is shown to be the least set that holds the start nodes and that no edge leaves
(`ReachedLeast`, and `ReachedClosed` by counting: each step but the last gets to one
more node). It then suffices that every edge of the old flow leads where it led, directly or through
one node between (`Carried`), which each operation keeps in its own way: edges that are split
(`SplitCarries`), edges behind those there were, and normalising, which drops loops of a node on itself only.
The folds of the source (normalising, filtering, renaming, listing cases, walking) are
handled one by one: the equation that defines the fold has a solution (`FoldExists`), and what holds
of it is shown for each prefix by `UpTo`, induction up to a number for a set.

### What stays with TLC

- Liveness (`DueIsClaimed`, `ClaimIsSettled`, `StopEnds`, `ExpiredEnds`,
  `SucceededIsStored`, `RunEnds`, `ApiIsKept`, `RunButtonComesBack`): it needs fairness
  and `ENABLED`, which the prover does not handle.
- The five invariants of `PagePick`: sorting by score (`ByScore`), lists built from one another
  and functions recursive over the tree of windows (`BuildFramePathSegments`, `TruePath`)
  are defined on data of any depth, and what they compute for all of it needs an
  induction whose theorems take an operator as a parameter.
- `DeletedStaysDeleted` and `ImportIsReached`, which are violated.

## 6. Not modelled

- Pages and forms of the console that show or save one record with one request:
  the create and detail pages of tasks, the run list, dashboard, settings and
  security pages, `NodePanel`'s fields; rows of lists (only page and total);
  the task center panel, which nothing opens.
- Of the console further: the task center's own mending of a selected flow
  (`useDesignerState.ts:2000`), run records without a snapshot, the mode, label and time of
  versions, two identical requests under way at once; a handler's calls of localStorage are one step.
- Of the editor: configuration but for switch cases, positions, variables, the default
  cases a new switch is born with (`NewNode` has none). Of the engine's graph: a value that
  matches no case of a switch whose default edge exists beside an edge without condition (`Wants`).
- Of picks: truncation of texts, elements without size, wording of labels,
  rules that differ between windows, more than one synchronisation or confirmation
  under way, floating-point error of scores, input types that take no text and editable elements
  (`IsTextEntryElement`).
- Of the pipeline: minimising and restoring the window, expiry of sessions
  (`NativePicker` has it), a restart of the worker (`RecorderExtension` has
  it), a host that cannot be registered; fetching the list of sessions (20 at most) and using it
  are one step (`PollNative`), as are the parts of sending "session ready" (`ArmTab`).
- Calendar arithmetic of schedules and its preview: a next run is only "later".
- The event stream of the run service and the Playwright picker that older clients used: the
  designer calls neither.
- What actions do to pages: behaviour of the browser.
- Disk errors of the task file and the runs; per-node configuration checks and flow migration;
  lists, statistics and exports, which only read.
- Agent probe, tray, preferences and diagnostics of the shell; security,
  credentials and audit; packaging.

## 7. Plan

Modelled and checked: all modules above. Proved: every safety and action
property of the scheduler, the native picker, the engine, the shell, the editor, the console,
the extension and the pipeline that holds, and both refinements of
`DeliveryLedger`. What is left, in order of importance:

1. `PagePick`: that the prefixes the windows hand down are the true paths of
   their parents.
2. Calendar schedules against a reference definition; disk errors in
   `TaskScheduler`.
