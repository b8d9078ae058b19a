------------------------------ MODULE PagePick ------------------------------
(* One pick in a page of nested frames, from the start of pick mode to the    *)
(* selector the designer stores: the content scripts of all its windows       *)
(* (content.js) tell one another which frame they are in, one of them picks,  *)
(* the top one forwards the pick, and the designer reads it                   *)
(* (useDesignerState.ts).                                                     *)
(*                                                                            *)
(* A scene fixes the page (a site of FramePaths), the window the user picks   *)
(* in, and the view under the pointer there (PickTargets). Messages between two windows arrive in the     *)
(* order they were sent; those of different senders in any order; those to a  *)
(* window whose script has not started yet may meet no listener. Leaving      *)
(* pick mode, and which of the windows the top one follows when the pointer   *)
(* moves between them, are PageFrames' subject.                               *)
EXTENDS FramePaths

CONSTANT Scenes
VARIABLES
    scene,
    loaded,     \* pickerRuleState.loaded
    asleep,     \* windows whose script has not started
    toArm,      \* windows the worker has not told of pick mode yet
    prefix,     \* picker.framePathPrefix of each window
    inbox,      \* per window, the messages under way to it
    missed,     \* windows whose parent's last toggle met no listener (history)
    target,     \* the element hovered in scene.at, NoElement before
    topMeta,    \* the top window's picker.hoverMeta, its frame path (empty: none)
    followed,   \* activePickFrame
    picked,     \* what RECORDER_PICKED carried, None before
    hasty,      \* the top may have been shown a path that was not complete yet
    confirmed,  \* "no" until the user confirms; then whether every prefix had arrived
    config      \* what the designer stored, None before
page == <<scene, rules, loaded, asleep, toArm, prefix, inbox, missed>>
pick == <<target, topMeta, followed, picked, hasty, confirmed, config>>
vars == <<page, pick>>

None == [none |-> TRUE]
Rejected == [rejected |-> TRUE]
T == INSTANCE PickTargets
at == scene.at

Init ==
    /\ scene \in Scenes
    /\ rules = BuiltIn /\ loaded = (LoadedRules(scene.files) = BuiltIn)
    /\ asleep = scene.late /\ missed = {}
    /\ toArm = scene.windows
    /\ prefix = [w \in scene.windows |-> <<>>]
    /\ inbox = [w \in scene.windows |-> <<>>]
    /\ target = T!NoElement /\ topMeta = <<>> /\ followed = Top
    /\ picked = None /\ hasty = FALSE /\ confirmed = "no" /\ config = None

----------------------------------------------------------------------------
(* Pick mode reaches the windows *)

\* ensurePickerRulesLoaded, as the files arrive or cannot be read. (Files that
\* say what is built in count as loaded from the start.)
RulesArrive ==
    /\ ~ loaded
    /\ loaded' = TRUE
    /\ rules' \in {LoadedRules(scene.files), BuiltIn}
    /\ UNCHANGED <<scene, asleep, toArm, prefix, inbox, missed, pick>>

\* The content script of a frame that is slow to load: it adds its listeners
\* and asks the worker.
Start(w) ==
    /\ w \in asleep
    /\ asleep' = asleep \ {w}
    /\ UNCHANGED <<scene, rules, loaded, toArm, prefix, inbox, missed, pick>>

\* dispatchPickModeToChildFrames, to every frame of the window's document.
Dispatched(boxes, w, path) ==
    [ c \in DOMAIN boxes |->
        IF c \in Children(scene, w)
        THEN Append(boxes[c], [type |-> "toggle", from |-> w, path |-> Append(path, SegmentOf(scene, c))])
        ELSE boxes[c] ]

\* startPickMode: a prefix that is not empty replaces the one before.
StartPickMode(boxes, w, framePathPrefix) ==
    LET own == IF framePathPrefix # <<>> \/ w = Top THEN framePathPrefix ELSE prefix[w]
    IN  /\ prefix' = [prefix EXCEPT ![w] = own]
        /\ inbox' = Dispatched(boxes, w, own)

\* RECORDER_PICK_MODE, or the answer to a script's question as it starts.
\* armPickerWhenReady goes on until some script answers: the others ask.
Arm(w) ==
    /\ w \in toArm \ asleep
    /\ toArm' = toArm \ {w}
    /\ StartPickMode(inbox, w, <<>>)
    /\ UNCHANGED <<scene, rules, loaded, asleep, missed, pick>>

\* The messages that may come next: the oldest of each sender.
Deliverable(w) ==
    { i \in DOMAIN inbox[w] : \A j \in 1..i-1 : inbox[w][j].from # inbox[w][i].from }
Taken(w, i) == [inbox EXCEPT ![w] = RemoveAt(@, i)]

ToggleArrives(w) ==
    \E i \in Deliverable(w) :
        /\ w \notin asleep /\ inbox[w][i].type = "toggle"
        /\ StartPickMode(Taken(w, i), w, inbox[w][i].path)
        /\ missed' = missed \ {w}
        /\ UNCHANGED <<scene, rules, loaded, asleep, toArm, pick>>

\* postMessage to a document without the script: nobody sends it again.
ToggleIsLost(w) ==
    \E i \in Deliverable(w) :
        /\ w \in asleep /\ inbox[w][i].type = "toggle"
        /\ inbox' = Taken(w, i) /\ missed' = missed \cup {w}
        /\ UNCHANGED <<scene, rules, loaded, asleep, toArm, prefix, pick>>

----------------------------------------------------------------------------
(* The pick *)

InPickMode(w) == w \notin toArm
Post(boxes, to, message) == [boxes EXCEPT ![to] = Append(@, message)]

\* Every prefix that the picking window depends on is in place.
Settled ==
    LET onTheWay == Ancestors(scene, at) \cup {at}
    IN  /\ onTheWay \cap (toArm \cup missed) = {}
        /\ \A w \in onTheWay : \A i \in DOMAIN inbox[w] : inbox[w][i].type # "toggle"

\* onPickMouseMove over an element, over a frame's box (its meta has no path),
\* or over nothing that can be picked.
Hover ==
    /\ InPickMode(at) /\ confirmed = "no"
    /\ at = Top => followed = Top
    /\ \A i \in DOMAIN inbox[Top] : inbox[Top][i].type # "sync"     \* one at a time
    /\ LET element == T!ResolvePickTarget(scene.view)
           framePath == IF element = T!NoElement THEN <<>> ELSE FrameMeta(scene, at, prefix[at])
           pointed == scene.view.nest[scene.view.direct]
       IN  /\ element # T!NoElement \/ pointed.part = "frame"
           /\ target' = element
           /\ hasty' = (hasty \/ (~ Settled /\ ResolveFramePathByWindowRef(scene, at) = <<>>))
           /\ IF at = Top THEN topMeta' = framePath /\ UNCHANGED inbox
              ELSE /\ inbox' = Post(inbox, Top, [type |-> "sync", from |-> at, path |-> framePath])
                   /\ UNCHANGED topMeta
    /\ UNCHANGED <<scene, rules, loaded, asleep, missed, toArm, prefix, followed, picked, confirmed, config>>

\* RPA_PICK_SYNC at the top.
SyncArrives ==
    \E i \in Deliverable(Top) :
        LET m == inbox[Top][i] IN
        /\ m.type = "sync"
        /\ topMeta' = NormalizeSyncMeta(scene, m.path, m.from)
        /\ followed' = m.from
        /\ inbox' = Taken(Top, i)
        /\ UNCHANGED <<scene, rules, loaded, asleep, missed, toArm, prefix, target, picked, hasty, confirmed, config>>

\* The element a scene without a choice of targets describes.
Described == scene.view.nest[Len(scene.view.nest)]

PicksOf(e) ==
    LET legacy == BuildSelectorCandidates(e)
        candidates == BuildPlaywrightCandidates(e, legacy)
        first == IF candidates = <<>> THEN NoCandidate ELSE candidates[1]
    IN  [ selector |-> first.value, selectorType |-> first.type, selectorCandidates |-> candidates ]

\* buildPickPayload: computed anew, whatever the pointer showed before.
BuildPickPayload(w, own) ==
    LET path == MergeFramePathWithPrefix(FrameMeta(scene, w, own), own)
    IN  [ element |-> PicksOf(scene.view.nest[target]), framePath |-> path,
          chain |-> BuildFrameLocatorChain(path) ]

\* submitPickedResult, after normalizePickResultPayload.
Submit(payload, w) ==
    LET path == NormalizePickResultPath(scene, payload.framePath, w)
    IN  picked' = [ payload EXCEPT !.framePath = path, !.chain = BuildFrameLocatorChain(path) ]

\* confirmPick in the picking window, with `own` as its prefix; `known` says
\* that nothing of it was told too early.
ConfirmPick(boxes, own, known) ==
    /\ target # T!NoElement
    /\ confirmed = "no" /\ confirmed' = IF known THEN "settled" ELSE "early"
    /\ LET payload == BuildPickPayload(at, own)
       IN  IF at = Top THEN Submit(payload, Top) /\ inbox' = boxes
           ELSE /\ inbox' = Post(boxes, Top, [type |-> "draft", from |-> at, payload |-> payload])
                /\ UNCHANGED picked
    /\ target' = T!NoElement

\* The user clicks the element, or presses Enter in its window.
ConfirmHere ==
    /\ ConfirmPick(inbox, prefix[at], Settled)
    /\ UNCHANGED <<scene, rules, loaded, asleep, missed, toArm, prefix, topMeta, followed, hasty, config>>

\* requestPickConfirm at the top, for the window it follows.
ConfirmAtTop ==
    /\ followed # Top /\ picked = None
    /\ \A i \in DOMAIN inbox[followed] : inbox[followed][i].type # "confirm"    \* one at a time
    /\ LET derived == ResolveFramePathByWindowRef(scene, followed)
           path == IF derived # <<>> THEN derived ELSE topMeta
       IN  inbox' = Post(inbox, followed, [type |-> "confirm", from |-> Top, path |-> path])
    /\ UNCHANGED <<scene, rules, loaded, asleep, missed, toArm, prefix, pick>>

\* RPA_PICK_CMD_CONFIRM: the prefix it carries is kept, whatever comes of it.
ConfirmArrives ==
    \E i \in Deliverable(at) :
        LET m == inbox[at][i]
            own == IF m.path = <<>> THEN prefix[at] ELSE MergeFramePathWithPrefix(prefix[at], m.path)
        IN  /\ m.type = "confirm"
            /\ prefix' = [prefix EXCEPT ![at] = own]
            /\ IF target = T!NoElement
               THEN inbox' = Taken(at, i) /\ UNCHANGED <<target, picked, confirmed>>
               ELSE ConfirmPick(Taken(at, i), own, Settled /\ ~ hasty)
            /\ UNCHANGED <<scene, rules, loaded, asleep, missed, toArm, topMeta, followed, hasty, config>>

\* RPA_PICK_RESULT_DRAFT at the top.
DraftArrives ==
    \E i \in Deliverable(Top) :
        LET m == inbox[Top][i]
            path == NormalizePickResultPath(scene, m.payload.framePath, m.from)
        IN  /\ m.type = "draft"
            /\ topMeta' = path
            /\ Submit([m.payload EXCEPT !.framePath = path], m.from)
            /\ inbox' = Taken(Top, i)
            /\ UNCHANGED <<scene, rules, loaded, asleep, missed, toArm, prefix, target, followed, hasty, confirmed, config>>

\* buildPickerSelectorUpdate, and the node's config after RECORDER_PICK_RESULT.
PickerSelectorUpdate(payload) ==
    LET candidates == NormalizePickerCandidates(payload.selectorCandidates)
    IN  IF payload.selector = <<>> THEN Rejected
        ELSE [ selector |-> payload.selector,
               selectorType |-> NormalizePickerSelectorType(payload.selectorType,
                                    InferSelectorTypeFromValue(payload.selector)),
               selectorCandidates |-> candidates,
               playwrightPrimary |-> PrimaryOf(candidates) ]

DesignerReads ==
    /\ picked # None /\ config = None
    /\ config' = [ update |-> PickerSelectorUpdate(picked.element),
                   framePath |-> NormalizePickerFramePath(picked.framePath),
                   frameLocatorChain |-> NormalizePickerFrameLocatorChain(picked.chain) ]
    /\ UNCHANGED <<page, target, topMeta, followed, picked, hasty, confirmed>>

Next ==
    \/ RulesArrive
    \/ \E w \in scene.windows : Start(w) \/ Arm(w) \/ ToggleArrives(w) \/ ToggleIsLost(w)
    \/ Hover \/ SyncArrives
    \/ ConfirmHere \/ ConfirmAtTop \/ ConfirmArrives
    \/ DraftArrives \/ DesignerReads

Spec == Init /\ [][Next]_vars
----------------------------------------------------------------------------

\* README.md item 4 of the extension: a pick carries the path of its frame.
\* Once the prefixes have arrived, the path that leaves the page and the path
\* the designer stores are the frames from the top to the picked one, none
\* twice and none missing, whatever part of the way each script sees - with
\* three exceptions. A frame on the way whose script started after its parent's
\* toggle does not know what is above it (the worker arms it without a path).
\* The picking script climbed some of the way and was stopped by a foreign
\* window: it takes a part for the whole. And the top confirms with a path it
\* was shown before the prefixes arrived and cannot find itself: the script
\* puts it in front of the true one.
FramePathRecovered ==
    LET true == TruePath(scene, at)
    IN  BuildFramePathSegments(scene, at) \in {<<>>, true} =>
            /\ picked # None /\ confirmed = "settled" => picked.framePath = true
            /\ config # None /\ confirmed = "settled" => config.framePath = true

\* What the designer stores of the frames fits together: one locator for each
\* frame of the path, in its order, each going by the best selector on its
\* list, and by a generated value only where the frame has nothing else.
ChainFitsPath ==
    config # None =>
        /\ Len(config.frameLocatorChain) = Len(config.framePath)
        /\ \A i \in DOMAIN config.framePath :
              LET segment == config.framePath[i]
                  item == config.frameLocatorChain[i]
                  listed == item.selectorCandidates
              IN  /\ item.depth = i - 1 /\ item.crossOrigin = segment.crossOrigin
                  /\ ~ segment.crossOrigin =>
                        /\ item.primary = PrimaryOf(listed).value
                        /\ \A k \in DOMAIN listed : listed[k].score <= PrimaryOf(listed).score
                        /\ ~ Recognises(Fallback.tokenPatterns, item.primary[3])

\* The designer takes every pick, and the stored selector is the best the page
\* listed: exactly one candidate is marked primary, it is the one stored, its
\* language is the stored type, and none has a higher score - after four lists
\* were built from one another, under the rules of any rule file.
StoredIsBest ==
    config # None =>
        LET update == config.update
            listed == update.selectorCandidates
            best == PrimaryOf(listed)
        IN  /\ update # Rejected
            /\ Cardinality({ i \in DOMAIN listed : listed[i].primary }) = 1
            /\ update.selector = best.value /\ update.selectorType = best.type
            /\ update.playwrightPrimary = best
            /\ \A i \in DOMAIN listed : listed[i].score <= best.score

\* A generated id is no way to find an element again: it is stored only if no
\* listed selector names the element by something stable and finds just it.
\* (Rule files that no longer recognise it are not among the scenes.)
StableIsPreferred ==
    LET Generated(value) == Recognises(Fallback.tokenPatterns, value)
    IN  config # None /\ config.update # Rejected /\ Generated(config.update.selector[3]) =>
        ~ \E i \in DOMAIN config.update.selectorCandidates :
              LET c == config.update.selectorCandidates[i]
              IN  /\ c.value[3] # "" /\ ~ Generated(c.value[3])
                  /\ c.type = "css" => c.value[2] \notin Described.shared

\* The element of the event, those around it and those below it are weighed one
\* after another, and then the fields inside the best: in the end a text field
\* under the pointer has lost only to another one, or to an element that is
\* better by the .30 that such a field has in advance (.16 for a control). A
\* named container may be that.
PointedFieldHasTheLead ==
    target # T!NoElement =>
        LET nest == scene.view.nest
            Score(i) == T!ScorePickTargetCandidate(scene.view, i)
            advance == IF T!IsInteractiveTagName(nest[target].tag) THEN 16 ELSE 30
        IN  \A i \in 1..scene.view.deepest :
                T!Pickable(nest[i]) /\ T!IsTextEntryElement(nest[i]) =>
                    T!IsTextEntryElement(nest[target]) \/ Score(target) >= Score(i) + advance
=============================================================================
