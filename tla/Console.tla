------------------------------- MODULE Console -------------------------------
(* The designer's console (App.tsx and its pages) in several windows of one   *)
(* browser: they share localStorage (FlowStore), each shows one page at a     *)
(* time, and their requests to the API are answered in any order, late, or    *)
(* not at all (then fetchWithTimeout ends them).                              *)
(*                                                                            *)
(* A step is one handler with the React effects its state changes set off: an *)
(* effect that throws takes the whole window down (page "blank"), as there is *)
(* no error boundary. Answers for a page that was left change nothing.        *)
EXTENDS FlowStore, FiniteSets

CONSTANTS
    Windows,
    DraftIds,      \* ids createFlowDraft may make
    SelfCheckId,   \* the id of the offline self check's flow
    Edits,         \* texts a user may turn a flow into
    SecretTexts,   \* those with a value the API masks
    Events,        \* events of a run, without and with the keyword filter
    Listers,       \* bound: the windows in which lists are opened
    MaxMoves, MaxFull, MaxRuns, MaxTasks  \* bounds: user actions, steps that hit the quota, runs, tasks

ASSUME IdsAssumption == DraftIds \intersect {SampleId, SelfCheckId} = {} /\ SampleId # SelfCheckId

\* Texts are numbers; what matters of them is whether there are nodes and
\* secrets, and which are equal.
ASSUME TextsAssumption == SampleText \in Int /\ Edits \subseteq Int /\ \A text \in DOMAIN Mends : Mends[text] \in Int

\* No window is called like its absence; a run and the list of tasks have a length.
ASSUME BoundsAssumption == "nobody" \notin Windows /\ Events \in [BOOLEAN -> Nat] /\ MaxTasks \in Nat

VARIABLES
    disk,
    window,   \* what each window shows
    calls,    \* requests under way
    api,      \* the runs stored by the API (their flows) and the number of tasks
    known,    \* flow ids some window has opened
    writer,   \* the window that last wrote or deleted a record (history)
    moves, full
vars == <<disk, window, calls, api, known, writer, moves, full>>
count == <<moves, full>>

Nobody == "nobody"
FlowIds == {SampleId, SelfCheckId} \union DraftIds
Failed == -1

\* A window that has just come to a page.
Fresh(page) ==
    [page |-> page, flow |-> SampleFlow, autosave |-> "idle", versions |-> <<>>,
     running |-> FALSE, lastRunId |-> 0, runState |-> 0, runEvents |-> 0,
     listed |-> <<>>, confirm |-> {},
     run |-> 0, at |-> 1, size |-> 1, keyword |-> FALSE, total |-> 0, loading |-> FALSE]

\* Writes enough for any step.
Plenty == 6

\* The windows have been opened at the dashboard ("home"), the first of them
\* with an empty store.
Init ==
    /\ disk = ensureSeedFlow(EmptyDisk, Plenty)
    /\ window = [w \in Windows |-> Fresh("home")]
    /\ calls = {} /\ api = [runs |-> <<>>, tasks |-> MaxTasks]
    /\ known = {SampleId} /\ writer = [id \in FlowIds |-> Nobody]
    /\ moves = 0 /\ full = 0

Move == moves < MaxMoves /\ moves' = moves + 1

\* How many writes of a step fit.
Rooms == IF full < MaxFull THEN 0 .. Plenty ELSE {Plenty}
Spend(room, needed) == full' = IF room < needed THEN full + 1 ELSE full

\* Who wrote the records that differ from one disk to the next.
Wrote(w, ids) == writer' = [id \in FlowIds |-> IF id \in ids THEN w ELSE writer[id]]
WroteIf(w, room, id) == Wrote(w, IF room >= 1 THEN {id} ELSE {})

Shows(w, record) == window' = [window EXCEPT ![w] = record]

\* Leaving a page does not stop its requests, but nobody listens any more.
Left(w) ==
    { IF c.win = w THEN [c EXCEPT !.win = Nobody] ELSE c :
        c \in { d \in calls : d.win # w \/ (d.kind \in {"run", "act"} /\ d.outcome = "none") } }

Call(w, kind) ==
    [win |-> w, kind |-> kind, run |-> 0, id |-> SelfCheckId, text |-> SampleText,
     at |-> 1, size |-> 1, keyword |-> FALSE, total |-> 0, outcome |-> "none"]

----------------------------------------------------------------------------
(* The flow list *)

\* A window that went down is loaded again, at the dashboard: App seeds an empty
\* store.
Reload(w) ==
    /\ Move /\ window[w].page = "blank"
    /\ \E room \in Rooms :
        /\ disk' = ensureSeedFlow(disk, room)
        /\ Spend(room, IF NeedsSeed(disk) THEN 2 ELSE 0)
        /\ WroteIf(w, IF NeedsSeed(disk) THEN room ELSE 0, SampleId)
        /\ Shows(w, Fresh(IF NeedsSeed(disk) /\ ~ Saves(room) THEN "blank" ELSE "home"))
    /\ UNCHANGED <<calls, api, known>>

\* FlowsPage seeds an empty store too, while it renders.
OpenFlows(w) ==
    /\ Move /\ window[w].page \notin {"flows", "blank"}
    /\ \E room \in Rooms :
        LET seeded == ensureSeedFlow(disk, room)
            crashed == NeedsSeed(disk) /\ ~ Saves(room)
        IN  /\ disk' = seeded
            /\ Spend(room, IF NeedsSeed(disk) THEN 2 ELSE 0)
            /\ WroteIf(w, IF NeedsSeed(disk) THEN room ELSE 0, SampleId)
            /\ Shows(w, IF crashed THEN Fresh("blank")
                                   ELSE [Fresh("flows") EXCEPT !.listed = listFlows(seeded)])
    /\ calls' = Left(w)
    /\ UNCHANGED <<api, known>>

\* The list button; a save that throws leaves the old list on the page.
Refreshed(record, room, after) ==
    IF NeedsSeed(disk) /\ ~ Saves(room) THEN record ELSE [record EXCEPT !.listed = listFlows(after)]

RefreshFlows(w) ==
    /\ Move /\ window[w].page = "flows" /\ window[w].confirm = {}
    /\ \E room \in Rooms :
        /\ disk' = ensureSeedFlow(disk, room)
        /\ Spend(room, IF NeedsSeed(disk) THEN 2 ELSE 0)
        /\ WroteIf(w, IF NeedsSeed(disk) THEN room ELSE 0, SampleId)
        /\ Shows(w, Refreshed(window[w], room, disk'))
    /\ UNCHANGED <<calls, api, known>>

\* removeFlow up to its question; the question is modal.
AskDelete(w) ==
    /\ Move /\ window[w].page = "flows" /\ window[w].confirm = {}
    /\ \E k \in DOMAIN window[w].listed :
        Shows(w, [window[w] EXCEPT !.confirm = {window[w].listed[k]}])
    /\ UNCHANGED <<disk, calls, api, known, writer, full>>

CancelDelete(w) ==
    /\ Move /\ window[w].confirm # {}
    /\ Shows(w, [window[w] EXCEPT !.confirm = {}])
    /\ UNCHANGED <<disk, calls, api, known, writer, full>>

\* The rest of removeFlow, with the refresh after it.
ConfirmDelete(w) ==
    /\ Move
    /\ \E id \in window[w].confirm, room \in Rooms :
        LET deleted == deleteFlow(disk, id)
            seeds == NeedsSeed(deleted)
            after == ensureSeedFlow(deleted, room)
            closed == [window[w] EXCEPT !.confirm = {}]
        IN  /\ disk' = after
            /\ Spend(room, IF seeds THEN 2 ELSE 0)
            /\ Wrote(w, {id} \union IF seeds /\ room >= 1 THEN {SampleId} ELSE {})
            /\ Shows(w, IF seeds /\ ~ Saves(room) THEN closed
                        ELSE [closed EXCEPT !.listed = listFlows(after)])
    /\ UNCHANGED <<calls, api, known>>

----------------------------------------------------------------------------
(* The editor *)

\* Deviation: what is stored is not looked at.
AlwaysFallback(from, id) == Draft(id)

\* The record an editor of id starts from: FlowEditorPage saves a sample where
\* there is none to show.
InitialFlow(from, id) == IF Loads(from, id) THEN loadFlow(from, id) ELSE Draft(id)
FirstDisk(from, id, room) == IF Loads(from, id) THEN from ELSE saveFlow(from, Draft(id), room)
FirstRoom(from, id, room) == IF Loads(from, id) THEN room ELSE room - 2

\* Deviation: a save that throws goes unnoticed.
SaysSavedAnyway(record, room) == [record EXCEPT !.autosave = "saved"]

\* handleFlowChange: the save and what the page says of it.
Autosave(record, room) == [record EXCEPT !.autosave = IF Saves(room) THEN "saved" ELSE "error"]

\* The effects of a new initialFlow (setFlow of it, mended, and a clean run
\* console), and the autosave the new flow sets off.
ShowInitial(record, flow, room) ==
    Autosave([record EXCEPT !.flow = flow, !.lastRunId = 0, !.runState = 0, !.runEvents = 0], room)

\* FlowEditorPage for id, mounted or given another flow (the same component
\* stays when the user goes back from one editor to another: the versions and
\* a run under way stay too).
EditorOf(w, from, id, room) ==
    LET flow == ensureBrowserDefaults(InitialFlow(from, id))
        first == FirstDisk(from, id, room)
        rest == FirstRoom(from, id, room)
        stays == window[w].page = "editor"
        record == IF stays THEN window[w] ELSE [Fresh("editor") EXCEPT !.versions = from.versions]
    IN  IF rest < 0
        THEN disk' = first /\ Shows(w, Fresh("blank")) /\ calls' = Left(w)
        ELSE /\ disk' = saveFlow(first, flow, rest)
             /\ Shows(w, ShowInitial(record, flow, rest))
             /\ calls' = IF stays THEN calls ELSE Left(w)

\* From the list, the history, a bookmark, or /editor.
OpenEditor(w) ==
    /\ Move /\ window[w].page # "blank" /\ window[w].confirm = {}
    /\ \E id \in known \union { window[w].listed[k] : k \in DOMAIN window[w].listed }, room \in Rooms :
        /\ window[w].page = "editor" => window[w].flow.id # id
        /\ EditorOf(w, disk, id, room)
        /\ Spend(room, IF Loads(disk, id) THEN 2 ELSE 4)
        /\ WroteIf(w, room, id)
        /\ known' = known \union {id}
    /\ UNCHANGED api

\* createFlow of FlowsPage. A draft that could not be saved opens no editor.
CreateFlow(w) ==
    /\ Move /\ window[w].page = "flows" /\ window[w].confirm = {}
    /\ \E id \in DraftIds \ known, room \in Rooms :
        LET saved == saveFlow(disk, Draft(id), room)
        IN  /\ known' = known \union {id}
            /\ Spend(room, 4)
            /\ WroteIf(w, room, id)
            /\ IF Saves(room) THEN EditorOf(w, saved, id, room - 2)
                              ELSE disk' = saved /\ UNCHANGED <<window, calls>>
    /\ UNCHANGED api

\* Any of the editor's changes of its flow (FlowEditor's subject), with the
\* autosave effect.
Edit(w) ==
    /\ Move /\ window[w].page = "editor"
    /\ \E text \in Edits \ {window[w].flow.text}, room \in Rooms :
        LET flow == [window[w].flow EXCEPT !.text = text]
        IN  /\ disk' = saveFlow(disk, flow, room)
            /\ Spend(room, 2)
            /\ WroteIf(w, room, flow.id)
            /\ Shows(w, Autosave([window[w] EXCEPT !.flow = flow], room))
    /\ UNCHANGED <<calls, api, known>>

\* saveDraft and publishVersion. The effect that stores the versions may throw.
SaveVersion(w) ==
    /\ Move /\ window[w].page = "editor"
    /\ \E room \in Rooms :
        LET versions == AddVersion(window[w].versions, window[w].flow)
        IN  /\ disk' = saveVersionsToStorage(disk, versions, room)
            /\ Spend(room, 1)
            /\ Shows(w, IF room >= 1 THEN [window[w] EXCEPT !.versions = versions] ELSE Fresh("blank"))
            /\ calls' = IF room >= 1 THEN calls ELSE Left(w)
    /\ UNCHANGED <<api, known, writer>>

\* rollbackToVersion: the flow becomes the version's, which may be another
\* flow, and the autosave that follows writes that flow's record. When the
\* versions cannot be stored, the effects after that one do not run.
Rollback(w) ==
    /\ Move /\ window[w].page = "editor"
    /\ \E k \in DOMAIN window[w].versions, room \in Rooms :
        LET flow == window[w].versions[k]
            versions == AddVersion(window[w].versions, flow)
            stored == saveVersionsToStorage(disk, versions, room)
            shown == [window[w] EXCEPT !.flow = flow, !.versions = versions,
                                       !.lastRunId = 0, !.runState = 0, !.runEvents = 0]
        IN  /\ Spend(room, 3)
            /\ WroteIf(w, room - 1, flow.id)
            /\ disk' = saveFlow(stored, flow, room - 1)
            /\ Shows(w, IF room >= 1 THEN Autosave(shown, room - 1) ELSE Fresh("blank"))
            /\ calls' = IF room >= 1 THEN calls ELSE Left(w)
    /\ UNCHANGED <<api, known>>

----------------------------------------------------------------------------
(* Runs from the editor *)

\* Its content does not matter here, and neither does that each has an id of its own.
SelfCheckFlow == [id |-> SelfCheckId, text |-> SampleText]

\* setFlow(ensureBrowserDefaults(flow)) in a handler that shows "record", and
\* the autosave that follows where the flow has changed.
ShowMended(w, record, room) ==
    LET flow == ensureBrowserDefaults(window[w].flow)
        mended == flow # window[w].flow
    IN  /\ disk' = IF mended THEN saveFlow(disk, flow, room) ELSE disk
        /\ Spend(room, IF mended THEN 2 ELSE 0)
        /\ WroteIf(w, IF mended THEN room ELSE 0, flow.id)
        /\ Shows(w, IF mended THEN Autosave([record EXCEPT !.flow = flow], room) ELSE record)

\* validateFlow; what the API answers changes no flow.
ValidateFlow(w) ==
    /\ Move /\ window[w].page = "editor"
    /\ \E room \in Rooms : ShowMended(w, window[w], room)
    /\ UNCHANGED <<calls, api, known>>

RunCall(w, flow) == [Call(w, "run") EXCEPT !.id = flow.id, !.text = flow.text]

\* Deviation: the id of the last run stays on show.
KeepsLastRun(w) ==
    /\ Move /\ window[w].page = "editor" /\ ~ window[w].running
    /\ \E room \in Rooms : ShowMended(w, [window[w] EXCEPT !.running = TRUE], room)
    /\ calls' = calls \union {RunCall(w, ensureBrowserDefaults(window[w].flow))}
    /\ UNCHANGED <<api, known>>

\* runFlow up to its request; its button and the self check's are disabled
\* while a run is under way. What the last run showed stays, its id does not.
StartRun(w) ==
    /\ Move /\ window[w].page = "editor" /\ ~ window[w].running
    /\ \E room \in Rooms : ShowMended(w, [window[w] EXCEPT !.running = TRUE, !.lastRunId = 0], room)
    /\ calls' = calls \union {RunCall(w, ensureBrowserDefaults(window[w].flow))}
    /\ UNCHANGED <<api, known>>

\* runOfflineSelfCheck up to its request.
StartSelfCheck(w) ==
    /\ Move /\ window[w].page = "editor" /\ ~ window[w].running
    /\ calls' = calls \union {RunCall(w, SelfCheckFlow)}
    /\ Shows(w, [window[w] EXCEPT !.running = TRUE, !.lastRunId = 0])
    /\ UNCHANGED <<disk, api, known, writer, full>>

\* The API runs the flow and stores it, refuses it, or runs it for longer than
\* the window waits.
RunIsServed(c) ==
    /\ c.kind = "run" /\ c.outcome = "none"
    /\ \E outcome \in {"ok", "error"}, stored \in BOOLEAN :
        /\ stored => Len(api.runs) < MaxRuns
        /\ outcome = "ok" => stored
        /\ api' = IF stored THEN [api EXCEPT !.runs = Append(@, [id |-> c.id, text |-> c.text])] ELSE api
        /\ calls' = (calls \ {c}) \union
             IF c.win = Nobody THEN {}
             ELSE {[c EXCEPT !.outcome = outcome, !.run = IF outcome = "ok" THEN Len(api.runs) + 1 ELSE 0]}
    /\ UNCHANGED <<disk, window, known, writer, count>>

\* Deviation: the early return of a refusal skips setRunning(false).
RefusalKeepsRunning(c) ==
    /\ c.kind = "run" /\ c.outcome # "none"
    /\ IF c.outcome = "error"
       THEN /\ Shows(c.win, [window[c.win] EXCEPT !.runState = Failed])
            /\ calls' = calls \ {c}
       ELSE /\ Shows(c.win, [window[c.win] EXCEPT !.runState = c.run, !.lastRunId = c.run])
            /\ calls' = (calls \ {c}) \union {[Call(c.win, "events") EXCEPT !.run = c.run]}
    /\ UNCHANGED <<disk, api, known, writer, count>>

\* runFlow after its first await.
RunReturns(c) ==
    /\ c.kind = "run" /\ c.outcome # "none"
    /\ IF c.outcome = "error"
       THEN /\ Shows(c.win, [window[c.win] EXCEPT !.runState = Failed, !.running = FALSE])
            /\ calls' = calls \ {c}
       ELSE /\ Shows(c.win, [window[c.win] EXCEPT !.runState = c.run, !.lastRunId = c.run])
            /\ calls' = (calls \ {c}) \union {[Call(c.win, "events") EXCEPT !.run = c.run]}
    /\ UNCHANGED <<disk, api, known, writer, count>>

\* After its second: the events fetched, or those the run came with.
EventsReturn(c) ==
    /\ c.kind = "events"
    /\ Shows(c.win, [window[c.win] EXCEPT !.runEvents = c.run, !.running = FALSE])
    /\ calls' = calls \ {c}
    /\ UNCHANGED <<disk, api, known, writer, count>>

----------------------------------------------------------------------------
(* Pages of a list: the tasks, the events of a run *)

Pages(total, size) == IF total = 0 THEN 1 ELSE (total + size - 1) \div size

\* refresh, as a render with this page, size and filter made it.
Listing(w, view) ==
    [Call(w, "list") EXCEPT !.run = view.run, !.at = view.at, !.size = view.size, !.keyword = view.keyword]
Asks(w, view) ==
    /\ Shows(w, [view EXCEPT !.loading = TRUE])
    /\ calls' = calls \union {Listing(w, view)}
IsList(w) == window[w].page \in {"tasks", "run"}

OpenList(w) ==
    /\ Move /\ w \in Listers /\ window[w].page # "blank" /\ window[w].confirm = {}
    /\ \E run \in 0 .. Len(api.runs) :
        LET view == [Fresh(IF run = 0 THEN "tasks" ELSE "run") EXCEPT !.run = run]
        IN  /\ view.page # window[w].page
            /\ Shows(w, [view EXCEPT !.loading = TRUE])
            /\ calls' = Left(w) \union {Listing(w, view)}
    /\ UNCHANGED <<disk, api, known, writer, full>>

TurnPage(w) ==
    /\ Move /\ IsList(w) /\ ~ window[w].loading
    /\ \E at \in {window[w].at - 1, window[w].at + 1} :
        /\ at \in 1 .. Pages(window[w].total, window[w].size)
        /\ Asks(w, [window[w] EXCEPT !.at = at])
    /\ UNCHANGED <<disk, api, known, writer, full>>

\* The select of the page size; it is enabled while a list is loading.
SetPageSize(w) ==
    /\ Move /\ IsList(w)
    /\ Asks(w, [window[w] EXCEPT !.size = 3 - @, !.at = 1])
    /\ UNCHANGED <<disk, api, known, writer, full>>

\* A new keyword or level: one effect asks with the old page, the next one
\* turns to the first page, which asks again.
SetKeyword(w) ==
    /\ Move /\ window[w].page = "run"
    /\ LET view == [window[w] EXCEPT !.keyword = ~ @]
       IN  /\ Shows(w, [view EXCEPT !.at = 1, !.loading = TRUE])
           /\ calls' = calls \union {Listing(w, view), Listing(w, [view EXCEPT !.at = 1])}
    /\ UNCHANGED <<disk, api, known, writer, full>>

RefreshList(w) ==
    /\ Move /\ IsList(w) /\ ~ window[w].loading
    /\ Asks(w, window[w])
    /\ UNCHANGED <<disk, api, known, writer, full>>

\* trigger, pause, resume, disable, and remove once its question is answered:
\* the refresh that follows is the one of the page the user clicked on.
ActOnTask(w) ==
    /\ Move /\ window[w].page = "tasks" /\ window[w].total > 0
    /\ calls' = calls \union {[Listing(w, window[w]) EXCEPT !.kind = "act"]}
    /\ UNCHANGED <<disk, window, api, known, writer, full>>

ListIsServed(c) ==
    /\ c.kind = "list" /\ c.outcome = "none"
    /\ \E outcome \in {"ok", "error"} :
        calls' = (calls \ {c}) \union
            {[c EXCEPT !.outcome = outcome, !.total = IF c.run = 0 THEN api.tasks ELSE Events[c.keyword]]}
    /\ UNCHANGED <<disk, window, api, known, writer, count>>

\* A task acted on may be gone by then, and a delete takes it away.
ActIsServed(c) ==
    /\ c.kind = "act" /\ c.outcome = "none"
    /\ \E outcome \in {"ok", "error"}, deleted \in BOOLEAN :
        /\ deleted => api.tasks > 0
        /\ api' = IF deleted THEN [api EXCEPT !.tasks = @ - 1] ELSE api
        /\ calls' = (calls \ {c}) \union IF c.win = Nobody THEN {} ELSE {[c EXCEPT !.outcome = outcome]}
    /\ UNCHANGED <<disk, window, known, writer, count>>

\* Deviation: without the effect below.
StaysBeyond(view) == view

\* The effect that brings a page beyond the last one back, which asks again.
ClampPage(view) ==
    LET last == Pages(view.total, view.size)
    IN  IF view.at > last THEN [view EXCEPT !.at = last] ELSE view

\* refresh after its await: an answer is taken whatever has been asked since.
ListReturns(c) ==
    /\ c.kind = "list" /\ c.outcome # "none"
    /\ LET view == [window[c.win] EXCEPT !.loading = FALSE, !.total = IF c.outcome = "ok" THEN c.total ELSE @]
           clamped == ClampPage(view)
       IN  IF clamped.at # view.at
           THEN /\ Shows(c.win, [clamped EXCEPT !.loading = TRUE])
                /\ calls' = (calls \ {c}) \union {Listing(c.win, clamped)}
           ELSE Shows(c.win, view) /\ calls' = calls \ {c}
    /\ UNCHANGED <<disk, api, known, writer, count>>

ActReturns(c) ==
    /\ c.kind = "act" /\ c.outcome # "none"
    /\ IF c.outcome = "ok"
       THEN /\ Shows(c.win, [window[c.win] EXCEPT !.loading = TRUE])
            /\ calls' = (calls \ {c}) \union {[c EXCEPT !.kind = "list", !.outcome = "none"]}
       ELSE calls' = calls \ {c} /\ UNCHANGED window
    /\ UNCHANGED <<disk, api, known, writer, count>>

\* Other clients create tasks.
TaskAppears ==
    /\ Move /\ api.tasks < MaxTasks
    /\ api' = [api EXCEPT !.tasks = @ + 1]
    /\ UNCHANGED <<disk, window, calls, known, writer, full>>

\* The API stores a run's flow with its secrets masked.
Masked(text) == IF text \in SecretTexts THEN - text ELSE text

\* openFlowEditorFromRun: the snapshot of the run, once it is shown, takes the
\* place of the flow's record.
OpenEditorFromRun(w) ==
    /\ Move /\ window[w].page = "run" /\ window[w].total > 0
    /\ \E room \in Rooms :
        LET ran == api.runs[window[w].run]
            flow == [ran EXCEPT !.text = Masked(@)]
            saved == saveFlow(disk, flow, room)
        IN  /\ Spend(room, IF isRenderableFlow(flow.text) THEN 4 ELSE 6)
            /\ WroteIf(w, room, flow.id)
            /\ known' = known \union {flow.id}
            /\ IF Saves(room) THEN EditorOf(w, saved, flow.id, room - 2)
                              ELSE disk' = saved /\ UNCHANGED <<window, calls>>
    /\ UNCHANGED api

----------------------------------------------------------------------------
UserActs(w) ==
    \/ Reload(w) \/ OpenFlows(w) \/ RefreshFlows(w) \/ AskDelete(w) \/ CancelDelete(w) \/ ConfirmDelete(w)
    \/ OpenEditor(w) \/ CreateFlow(w) \/ Edit(w) \/ SaveVersion(w) \/ Rollback(w)
    \/ ValidateFlow(w) \/ StartRun(w) \/ StartSelfCheck(w)
    \/ OpenList(w) \/ TurnPage(w) \/ SetPageSize(w) \/ SetKeyword(w) \/ RefreshList(w)
    \/ ActOnTask(w) \/ OpenEditorFromRun(w)
Served == \E c \in calls : RunIsServed(c) \/ ListIsServed(c) \/ ActIsServed(c)
Returned == \E c \in calls : RunReturns(c) \/ EventsReturn(c) \/ ListReturns(c) \/ ActReturns(c)

Next == (\E w \in Windows : UserActs(w)) \/ Served \/ Returned \/ TaskAppears

\* Every request ends: with an answer, or by the timeout of fetchWithTimeout.
Spec == Init /\ [][Next]_vars /\ WF_vars(Served) /\ WF_vars(Returned)

----------------------------------------------------------------------------
(* Properties *)

\* A flow the catalog lists has a record, however the quota cut a save short and
\* whatever other windows saved and deleted meanwhile.
ListedFlowsExist == \A k \in DOMAIN disk.catalog : disk.catalog[k] \in DOMAIN disk.records

\* While an editor says "saved" and no other window wrote or deleted its flow
\* since, the record is the flow on its screen and the catalog lists it.
SavedMeansStored ==
    \A w \in Windows :
        LET flow == window[w].flow IN
        window[w].page = "editor" /\ window[w].autosave = "saved" /\ writer[flow.id] = w =>
            /\ flow.id \in DOMAIN disk.records
            /\ disk.records[flow.id] = flow.text
            /\ \E k \in DOMAIN disk.catalog : disk.catalog[k] = flow.id

\* Opening an editor shows the record there is, mended where it lacks something,
\* and the save that follows stores nothing else: a flow that needs no mending
\* is left as it was.
OpeningKeepsTheFlow ==
    [][ \A w \in Windows :
          LET id == window'[w].flow.id
              mended == ensureBrowserDefaults(loadFlow(disk, id))
          IN  OpenEditor(w) /\ window'[w].page = "editor" /\ Loads(disk, id) =>
                  /\ window'[w].flow = mended
                  /\ disk'.records[id] \in {disk.records[id], mended.text}
                  /\ window'[w].autosave = "saved" => disk'.records[id] = mended.text ]_vars

\* The run console never mixes two runs: where it offers a run by its id, the
\* state on show is that run's, and so are the events once it has ended.
ShownRunIsOne ==
    \A w \in Windows :
        window[w].lastRunId # 0 =>
            /\ window[w].runState = window[w].lastRunId
            /\ ~ window[w].running => window[w].runEvents = window[w].lastRunId

\* A page number is never beyond the last page of the total on show, although
\* the lists shrink and answers of earlier pages, sizes and filters come late.
PageInRange ==
    \A w \in Windows : IsList(w) => window[w].at \in 1 .. Pages(window[w].total, window[w].size)

\* A run button that was pressed can be pressed again: a refused, failed or
\* never answered run does not leave the editor "running".
RunButtonComesBack == \A w \in Windows : window[w].running ~> ~ window[w].running
=============================================================================
