------------------------------ MODULE PageFrames -----------------------------
(* The content script of one tab (content.js): the page picker and the event  *)
(* recorder, running in the top frame and in one frame inside it, which talk  *)
(* by postMessage. Each frame runs a script of its own: it starts by itself,  *)
(* and until then messages to it meet no listener.                            *)
(*                                                                            *)
(* A page is a record: has it a frame inside (framed); for each frame, has    *)
(* its script started, is the picker on, its state, has it a hovered and a    *)
(* locked element, does the recorder listen, and `out`, its messages on their *)
(* way to the background worker; for the top frame, which frame it follows    *)
(* (active) and whether it keeps to it (pinned). `up` and `down` are the      *)
(* messages on their way between the frames. Selectors, frame paths           *)
(* (PagePick) and all painting are left out, and a pick is known by the frame *)
(* it was made in. Every operator maps the page before a handler ran to the   *)
(* page after it.                                                             *)
EXTENDS Integers, Sequences, FiniteSets, SequencesExt

Frames == {"top", "child"}
PickerStates == {"idle", "inspecting", "locked", "picked", "cancelled"}

FreshPage(framed) ==
    [ framed |-> framed,
      started |-> [f \in Frames |-> FALSE],
      on |-> [f \in Frames |-> FALSE], state |-> [f \in Frames |-> "idle"],
      hover |-> [f \in Frames |-> FALSE], locked |-> [f \in Frames |-> FALSE],
      rec |-> [f \in Frames |-> FALSE],
      active |-> "none", pinned |-> FALSE,
      up |-> <<>>, down |-> <<>>, out |-> [f \in Frames |-> <<>>] ]

SendOut(p, f, message) == [p EXCEPT !.out[f] = Append(@, message)]

\* The script of a frame starts, and asks whether the tab is to be picked from.
StartScript(p, f) == SendOut([p EXCEPT !.started[f] = TRUE], f, [type |-> "status"])

\* What a document that goes has sent stays on its way, but nobody waits for
\* the answer any more.
Orphaned(queue) ==
    LET asked == SelectSeq(queue, LAMBDA m : m.type # "status")
    IN  [i \in DOMAIN asked |-> IF asked[i].type = "picked" THEN [asked[i] EXCEPT !.waits = FALSE] ELSE asked[i]]

\* A document goes with what its script knew; the top frame takes the frame
\* inside with it.
Unloaded(p, f) ==
    IF f = "top" THEN [FreshPage(p.framed) EXCEPT !.out = [g \in Frames |-> Orphaned(p.out[g])]]
    ELSE [p EXCEPT !.started[f] = FALSE, !.on[f] = FALSE, !.state[f] = "idle", !.hover[f] = FALSE,
                   !.locked[f] = FALSE, !.rec[f] = FALSE, !.down = <<>>, !.out[f] = Orphaned(@)]

----------------------------------------------------------------------------
(* Between the frames *)

SyncPickStateToTop(p, f, stage) ==
    IF f = "child" THEN [p EXCEPT !.up = Append(@, stage)] ELSE p

LockActiveFrame(p, f) == [p EXCEPT !.active = f, !.pinned = TRUE]
ReleaseActiveFrameLock(p) == [p EXCEPT !.pinned = FALSE]

ShouldIgnoreFrameSwitch(p, f) == p.pinned /\ p.active \notin {"none", f}

DispatchPickModeToChildFrames(p, f, enabled) ==
    IF f = "top" /\ p.framed THEN [p EXCEPT !.down = Append(@, IF enabled THEN "on" ELSE "off")] ELSE p

\* The top frame follows another one: its own pointer events are ignored.
FollowsOther(p, f) == f = "top" /\ p.active \notin {"none", "top"}

----------------------------------------------------------------------------
(* Starting and stopping *)

StartPickMode(p, f) ==
    LET told == DispatchPickModeToChildFrames(p, f, TRUE)
        shown == [told EXCEPT !.on[f] = TRUE, !.state[f] = "inspecting"]
    IN  IF p.on[f] THEN told
        ELSE IF f = "top" THEN ReleaseActiveFrameLock([shown EXCEPT !.active = "top"])
        ELSE shown

ClearPickState(p, f) == [p EXCEPT !.hover[f] = FALSE, !.locked[f] = FALSE]

StopPickMode(p, f, stage, broadcast) ==
    LET told == IF broadcast THEN DispatchPickModeToChildFrames(p, f, FALSE) ELSE p
        over == IF stage = "success" THEN "picked" ELSE "cancelled"
        hidden == ClearPickState([told EXCEPT !.on[f] = FALSE, !.state[f] = over], f)
    IN  IF ~ p.on[f] THEN told
        ELSE IF f = "top" THEN ReleaseActiveFrameLock([hidden EXCEPT !.active = "none"])
        ELSE hidden

NotifyPickError(p, f, stage) ==
    StopPickMode(SendOut(p, f, [type |-> "canceled", stage |-> stage]), f, stage, TRUE)

----------------------------------------------------------------------------
(* Choosing an element *)

LockPickTarget(p, f) ==
    LET held == [p EXCEPT !.locked[f] = TRUE, !.hover[f] = TRUE, !.state[f] = "locked"]
    IN  SyncPickStateToTop(IF f = "top" THEN LockActiveFrame(held, f) ELSE held, f, "locked")

UnlockPick(p, f) ==
    LET freed == [p EXCEPT !.locked[f] = FALSE, !.state[f] = "inspecting"]
    IN  SyncPickStateToTop(IF f = "top" THEN [ReleaseActiveFrameLock(freed) EXCEPT !.active = "top"]
                           ELSE freed, f, "unlocked")

\* The top frame submits its own pick and that of the frame inside.
SubmitPickedResult(p, from) == SendOut(p, "top", [type |-> "picked", from |-> from, waits |-> TRUE])

\* confirmPick: the frame inside hands its pick to the top frame and leaves
\* pick mode, the top frame sends a pick to the background and stays in it
\* until the answer.
ConfirmPick(p, f) ==
    LET picked == [p EXCEPT !.state[f] = "picked"]
    IN  IF ~ p.locked[f] /\ ~ p.hover[f] THEN p
        ELSE IF f = "top" THEN SubmitPickedResult(picked, f)
        ELSE StopPickMode([picked EXCEPT !.up = Append(@, "draft")], f, "success", FALSE)

\* The confirm button and the Enter key of the top frame act on the frame it
\* follows.
RequestPickConfirm(p, f) ==
    IF FollowsOther(p, f) THEN [p EXCEPT !.down = Append(@, "confirm")] ELSE ConfirmPick(p, f)

\* The unlock button of the toolbar, which only the top frame shows.
SkipButton(p) ==
    IF FollowsOther(p, "top")
    THEN ReleaseActiveFrameLock([p EXCEPT !.down = Append(@, "unlock"), !.state["top"] = "inspecting"])
    ELSE UnlockPick(p, "top")

----------------------------------------------------------------------------
(* The user's pointer and keys, where the picker listens *)

\* The pointer moves over an element, or in the top frame over the frame
\* inside it, which is no target.
OnPickMouseMove(p, f, overFrame) ==
    LET seen == [p EXCEPT !.hover[f] = ~ overFrame]
        followed == IF f = "top" THEN [seen EXCEPT !.active = "top"] ELSE seen
    IN  IF ~ p.on[f] \/ p.state[f] = "locked" \/ FollowsOther(p, f) THEN p
        ELSE IF overFrame THEN SyncPickStateToTop(seen, f, "hover")
        ELSE SyncPickStateToTop([followed EXCEPT !.state[f] = "inspecting"], f, "hover")

OnPickClick(p, f, overFrame) ==
    IF ~ p.on[f] \/ p.state[f] = "locked" \/ FollowsOther(p, f) THEN p
    ELSE IF overFrame THEN SyncPickStateToTop([p EXCEPT !.hover[f] = FALSE], f, "hover")
    ELSE LockPickTarget(p, f)

OnPickKeydown(p, f, key) ==
    IF ~ p.on[f] THEN p
    ELSE IF key = "Escape" THEN NotifyPickError(p, f, "cancelled")
    ELSE IF p.state[f] = "locked" THEN RequestPickConfirm(p, f) ELSE p

----------------------------------------------------------------------------
(* Messages between the frames arrive, each at a frame whose script runs *)

OnFrameSync(p, stage) ==
    LET q == [p EXCEPT !.up = Tail(@)]
        ignored == ShouldIgnoreFrameSwitch(q, "child")
    IN  IF ~ p.started["top"] THEN q
        ELSE CASE stage = "locked" ->
                    [IF ignored THEN q ELSE LockActiveFrame(q, "child") EXCEPT !.state["top"] = "locked"]
               [] stage = "unlocked" ->
                    [IF q.active \in {"none", "child"}
                     THEN [ReleaseActiveFrameLock(q) EXCEPT !.active = "child"] ELSE q
                       EXCEPT !.state["top"] = "inspecting"]
               [] stage = "hover" ->
                    [q EXCEPT !.state["top"] = "inspecting", !.active = IF ignored THEN @ ELSE "child"]
               [] stage = "draft" ->
                    SubmitPickedResult([q EXCEPT !.state["top"] = "picked"], "child")

OnFrameCommand(p, command) ==
    LET q == [p EXCEPT !.down = Tail(@)]
    IN  IF ~ p.started["child"] THEN q
        ELSE CASE command = "on" -> StartPickMode(q, "child")
               [] command = "off" -> StopPickMode(q, "child", "cancelled", TRUE)
               [] command = "confirm" -> ConfirmPick(q, "child")
               [] command = "unlock" -> IF q.locked["child"] THEN UnlockPick(q, "child") ELSE q

----------------------------------------------------------------------------
(* Messages of the background arrive, at each frame by itself *)

\* The answer to a submitted pick: refused, the toolbar waits for another
\* try; accepted, pick mode ends.
OnPickAnswer(p, ok) ==
    IF ok THEN StopPickMode(p, "top", "success", TRUE) ELSE [p EXCEPT !.state["top"] = "locked"]

OnPickMode(p, f, enabled) ==
    IF enabled THEN StartPickMode(p, f) ELSE StopPickMode(p, f, "cancelled", TRUE)

----------------------------------------------------------------------------
(* The recorder *)

\* sendEvent: a frame that records tells the background. (Repeated events
\* within DEDUPE_WINDOW_MS are not told here.)
SendEvent(p, f, action) ==
    IF p.rec[f] THEN SendOut(p, f, [type |-> "event", action |-> action]) ELSE p

StartRecording(p, f) ==
    IF p.rec[f] THEN p ELSE SendEvent([p EXCEPT !.rec[f] = TRUE], f, "navigate")

StopRecording(p, f) == [p EXCEPT !.rec[f] = FALSE]

OnRecorderToggle(p, f, enabled) == IF enabled THEN StartRecording(p, f) ELSE StopRecording(p, f)

\* A click of the user, which the picker takes when it is on.
OnClick(p, f) ==
    IF p.on[f] THEN OnPickClick(p, f, FALSE) ELSE SendEvent(p, f, "click")
=============================================================================
