------------------------ MODULE RecorderExtension_proofs ------------------------
(* Theorems about RecorderExtension and the pages of PageFrames, for any tabs, *)
(* nodes and bounds.                                                           *)
EXTENDS RecorderExtension, SequenceTheorems, TLAPS

ToTab == [type : {"pick", "toggle"}, on : BOOLEAN] \union [type : {"answer"}, ok : BOOLEAN]
ToDesigner == [type : {"result"}, tab : Tabs, node : Nodes] \union {PickerError}
Stages == {"locked", "unlocked", "hover", "draft"}
Commands == {"on", "off", "confirm", "unlock"}

\* A page; nothing is said of what it has sent to the worker.
IsPage(p) ==
    p \in [ framed : BOOLEAN, started : [Frames -> BOOLEAN],
            on : [Frames -> BOOLEAN], state : [Frames -> PickerStates],
            hover : [Frames -> BOOLEAN], locked : [Frames -> BOOLEAN], rec : [Frames -> BOOLEAN],
            active : Frames \union {"none"}, pinned : BOOLEAN,
            up : Seq(Stages), down : Seq(Commands), out : {p.out} ]

Target == [target : Tabs, node : Nodes]
Written == [tab : Tabs, node : Nodes]
Boxes == [Tabs -> [Frames -> Seq(ToTab)]]

PagesOK == DOMAIN pages = Tabs /\ \A t \in Tabs : IsPage(pages[t])

TypeOK ==
    /\ phase \in [Tabs -> {"unborn", "open", "closed", "gone"}]
    /\ PagesOK
    /\ inbox \in Boxes
    /\ nodes \subseteq Nodes /\ target \in Nodes \union {NoNode}
    /\ requests \in Seq(Nodes) /\ mail \in Seq(ToDesigner)
    /\ session \in Target \union {NoSession}
    /\ starting \in SUBSET Target
    /\ arming \in SUBSET Tabs
    /\ recording \in [Tabs -> {"absent", "on", "off"}]
    /\ DOMAIN events = Tabs
    /\ openedFor \in [Tabs -> Nodes \union {NoNode}]
    /\ later \in [Tabs -> SUBSET Nodes]
    /\ written \in Seq(Written)

(***************************************************************************)
(* A tab that a pick was started in goes one way: it is being brought to   *)
(* the front, then it is the session's, then its result is on its way to   *)
(* the designer, then it is written. It was opened for the node of the     *)
(* pick, and no other pick is started in it.                               *)
(***************************************************************************)

Opened(t, node) == phase[t] # "unborn" /\ openedFor[t] = node

StartedForNode == \A s \in starting : Opened(s.target, s.node)
SessionForNode == session # NoSession => Opened(session.target, session.node)
MailForNode == \A i \in DOMAIN mail : mail[i].type = "result" => Opened(mail[i].tab, mail[i].node)
WrittenForNode ==
    \A i \in DOMAIN written :
        LET w == written[i]
        IN  phase[w.tab] # "unborn" /\ (w.node = openedFor[w.tab] \/ w.node \in later[w.tab])

\* Where a tab is on this way.
OneStage ==
    /\ \A s \in starting : s.target # session.target
    /\ \A i \in DOMAIN mail : mail[i].type = "result" =>
           /\ \A s \in starting : s.target # mail[i].tab
           /\ mail[i].tab # session.target
    /\ \A i \in DOMAIN written :
           /\ \A s \in starting : s.target # written[i].tab
           /\ written[i].tab # session.target
           /\ \A j \in DOMAIN mail : mail[j].type = "result" => mail[j].tab # written[i].tab
    /\ \A i, j \in DOMAIN mail :
           mail[i].type = "result" /\ mail[j].type = "result" /\ mail[i].tab = mail[j].tab => i = j
    /\ \A i, j \in DOMAIN written : written[i].tab = written[j].tab => i = j

\* What the designer waits for is a pick started last: it is the last request
\* on its way, and for every tab opened for a pick it is this pick or a later
\* one.
TargetIsLast ==
    target # NoNode =>
        /\ requests # <<>> => target = requests[Len(requests)]
        /\ \A t \in Tabs : openedFor[t] # NoNode => target = openedFor[t] \/ target \in later[t]
OpenedBorn ==
    \A t \in Tabs : IF openedFor[t] = NoNode THEN later[t] = {} ELSE phase[t] # "unborn"

SInv == StartedForNode /\ SessionForNode /\ MailForNode /\ WrittenForNode /\ OneStage /\ TargetIsLast /\ OpenedBorn

\* A tab that is gone records nothing and has nothing recorded.
GoneIsSilent ==
    \A t \in Tabs : phase[t] = "gone" => recording[t] # "on" /\ Known(events[t]) = <<>>

(***************************************************************************)
(* Pick mode. What is on its way to a frame puts it in pick mode (On),     *)
(* ends it (Off), or neither. A queue is Quiet when nothing in it puts the *)
(* frame in pick mode, and Ends when the last that does is followed by     *)
(* something that ends it.                                                 *)
(***************************************************************************)

On(m) == m.type = "pick" /\ m.on
Off(m) == m.type = "pick" /\ ~ m.on
Quiet(b) == \A i \in DOMAIN b : ~ On(b[i])
Ends(b) == \E i \in DOMAIN b : Off(b[i]) /\ \A j \in DOMAIN b : j > i => ~ On(b[j])

DownQuiet(d) == \A i \in DOMAIN d : d[i] # "on"
DownEnds(d) == \E i \in DOMAIN d : d[i] = "off" /\ \A j \in DOMAIN d : j > i => d[j] # "on"

\* Both frames of a page p with the boxes b leave pick mode by what is on its
\* way: the top frame by its box, the frame inside by its box, by what the top
\* frame has sent it, or by what the top frame will send when it has read its
\* own box.
Ending(p, b) ==
    /\ Ends(b["top"]) \/ (Quiet(b["top"]) /\ ~ p.on["top"])
    /\ Ends(b["child"]) \/ Quiet(b["child"])
    /\ \/ Ends(b["top"])
       \/ DownEnds(p.down)
       \/ DownQuiet(p.down) /\ (~ p.on["child"] \/ Ends(b["child"]))

PagesEnd == \A t \in Tabs : t \notin loose /\ session.target # t => Ending(pages[t], inbox[t])

\* A frame without a script does not pick and hears nothing, and nothing puts
\* the frame inside in pick mode where there is none, or no script above it.
Unheard(p, b) ==
    /\ \A f \in Frames : ~ p.started[f] => ~ p.on[f] /\ b[f] = <<>>
    /\ ~ p.framed => ~ p.started["child"]
    /\ ~ p.framed \/ ~ p.started["top"] => DownQuiet(p.down)

PagesUnheard ==
    \A t \in Tabs : /\ Unheard(pages[t], inbox[t])
                    /\ phase[t] # "open" => \A f \in Frames : ~ pages[t].started[f]

PInv == PagesUnheard /\ PagesEnd /\ native \subseteq loose

IInv == TypeOK /\ SInv /\ GoneIsSilent /\ PInv
-----------------------------------------------------------------------------
(* Queues *)

USE DEF Frames, PickerStates

\* A message that does not put a frame in pick mode joins a box.
LEMMA BoxGrows ==
    ASSUME NEW b \in Seq(ToTab), NEW m \in ToTab, ~ On(m)
    PROVE  LET c == Append(b, m) IN
           /\ c \in Seq(ToTab)
           /\ Quiet(b) => Quiet(c)
           /\ Ends(b) => Ends(c)
           /\ Off(m) => Ends(c)
<1> DEFINE c == Append(b, m)
<1>1. /\ c \in Seq(ToTab) /\ Len(b) \in Nat
      /\ DOMAIN b = 1 .. Len(b) /\ DOMAIN c = 1 .. (Len(b) + 1)
      /\ c[Len(b) + 1] = m
      /\ \A i \in DOMAIN b : c[i] = b[i]
  OBVIOUS
<1> HIDE DEF c
<1>2. \A i \in DOMAIN c : (i \in DOMAIN b /\ c[i] = b[i]) \/ (i = Len(b) + 1 /\ c[i] = m)
  BY <1>1
<1>3. Quiet(b) => Quiet(c)
  BY <1>2 DEF Quiet
<1>4. Ends(b) => Ends(c)
  <2> SUFFICES ASSUME NEW i \in DOMAIN b, Off(b[i]), \A j \in DOMAIN b : j > i => ~ On(b[j])
               PROVE  Ends(c)
    BY DEF Ends
  <2>1. i \in DOMAIN c /\ Off(c[i])
    BY <1>1
  <2>2. \A j \in DOMAIN c : j > i => ~ On(c[j])
    BY <1>2
  <2>3. QED
    BY <2>1, <2>2 DEF Ends
<1>5. Off(m) => Ends(c)
  <2>1. Len(b) + 1 \in DOMAIN c /\ \A j \in DOMAIN c : ~ (j > Len(b) + 1)
    BY <1>1
  <2>2. QED
    BY <1>1, <2>1 DEF Ends
<1>6. QED
  BY <1>1, <1>3, <1>4, <1>5 DEF c

\* The first message of a box is read.
LEMMA BoxShrinks ==
    ASSUME NEW b \in Seq(ToTab), b # <<>>
    PROVE  /\ Tail(b) \in Seq(ToTab) /\ Head(b) \in ToTab
           /\ Quiet(b) => ~ On(Head(b)) /\ Quiet(Tail(b))
           /\ Ends(b) => Ends(Tail(b)) \/ (Off(Head(b)) /\ Quiet(Tail(b)))
<1> DEFINE c == Tail(b)
<1>1. /\ c \in Seq(ToTab) /\ Len(b) \in Nat /\ Len(b) >= 1 /\ Head(b) = b[1] /\ Head(b) \in ToTab
      /\ DOMAIN b = 1 .. Len(b) /\ DOMAIN c = 1 .. (Len(b) - 1)
  OBVIOUS
<1>2. \A i \in DOMAIN c : i + 1 \in DOMAIN b /\ c[i] = b[i + 1]
  BY <1>1
<1> HIDE DEF c
<1>3. \A i \in DOMAIN b : i # 1 => i - 1 \in DOMAIN c /\ c[i - 1] = b[i]
  BY <1>1, <1>2
<1>4. Quiet(b) => ~ On(Head(b)) /\ Quiet(c)
  BY <1>1, <1>2 DEF Quiet
<1>5. Ends(b) => Ends(c) \/ (Off(Head(b)) /\ Quiet(c))
  <2> SUFFICES ASSUME NEW i \in DOMAIN b, Off(b[i]), \A j \in DOMAIN b : j > i => ~ On(b[j])
               PROVE  Ends(c) \/ (Off(Head(b)) /\ Quiet(c))
    BY DEF Ends
  <2>1. CASE i = 1
    <3>1. \A j \in DOMAIN c : ~ On(c[j])
      BY <1>1, <1>2, <2>1
    <3>2. QED
      BY <1>1, <2>1, <3>1 DEF Quiet
  <2>2. CASE i # 1
    <3>1. i - 1 \in DOMAIN c /\ Off(c[i - 1])
      BY <1>3, <2>2
    <3>2. \A j \in DOMAIN c : j > i - 1 => ~ On(c[j])
      BY <1>1, <1>2
    <3>3. QED
      BY <3>1, <3>2 DEF Ends
  <2>3. QED
    BY <2>1, <2>2
<1>6. QED
  BY <1>1, <1>4, <1>5 DEF c

LEMMA BoxEmpty == Quiet(<<>>) /\ ~ Ends(<<>>) /\ DownQuiet(<<>>) /\ ~ DownEnds(<<>>)
BY DEF Quiet, Ends, DownQuiet, DownEnds

LEMMA DownGrows ==
    ASSUME NEW d \in Seq(Commands), NEW c \in Commands
    PROVE  LET e == Append(d, c) IN
           /\ e \in Seq(Commands)
           /\ c # "on" => (DownQuiet(d) => DownQuiet(e)) /\ (DownEnds(d) => DownEnds(e))
           /\ c = "off" => DownEnds(e)
<1> DEFINE e == Append(d, c)
<1>1. /\ e \in Seq(Commands) /\ Len(d) \in Nat
      /\ DOMAIN d = 1 .. Len(d) /\ DOMAIN e = 1 .. (Len(d) + 1)
      /\ e[Len(d) + 1] = c
      /\ \A i \in DOMAIN d : e[i] = d[i]
  OBVIOUS
<1> HIDE DEF e
<1>2. \A i \in DOMAIN e : (i \in DOMAIN d /\ e[i] = d[i]) \/ (i = Len(d) + 1 /\ e[i] = c)
  BY <1>1
<1>3. c # "on" => (DownQuiet(d) => DownQuiet(e))
  BY <1>2 DEF DownQuiet
<1>4. c # "on" => (DownEnds(d) => DownEnds(e))
  <2> SUFFICES ASSUME c # "on", NEW i \in DOMAIN d, d[i] = "off", \A j \in DOMAIN d : j > i => d[j] # "on"
               PROVE  DownEnds(e)
    BY DEF DownEnds
  <2>1. i \in DOMAIN e /\ e[i] = "off"
    BY <1>1
  <2>2. \A j \in DOMAIN e : j > i => e[j] # "on"
    BY <1>2
  <2>3. QED
    BY <2>1, <2>2 DEF DownEnds
<1>5. c = "off" => DownEnds(e)
  <2>1. Len(d) + 1 \in DOMAIN e /\ \A j \in DOMAIN e : ~ (j > Len(d) + 1)
    BY <1>1
  <2>2. QED
    BY <1>1, <2>1 DEF DownEnds
<1>6. QED
  BY <1>1, <1>3, <1>4, <1>5 DEF e

LEMMA DownShrinks ==
    ASSUME NEW d \in Seq(Commands), d # <<>>
    PROVE  /\ Tail(d) \in Seq(Commands) /\ Head(d) \in Commands
           /\ DownQuiet(d) => Head(d) # "on" /\ DownQuiet(Tail(d))
           /\ DownEnds(d) => DownEnds(Tail(d)) \/ (Head(d) = "off" /\ DownQuiet(Tail(d)))
<1> DEFINE c == Tail(d)
<1>1. /\ c \in Seq(Commands) /\ Len(d) \in Nat /\ Len(d) >= 1 /\ Head(d) = d[1] /\ Head(d) \in Commands
      /\ DOMAIN d = 1 .. Len(d) /\ DOMAIN c = 1 .. (Len(d) - 1)
  OBVIOUS
<1>2. \A i \in DOMAIN c : i + 1 \in DOMAIN d /\ c[i] = d[i + 1]
  BY <1>1
<1> HIDE DEF c
<1>3. \A i \in DOMAIN d : i # 1 => i - 1 \in DOMAIN c /\ c[i - 1] = d[i]
  BY <1>1, <1>2
<1>4. DownQuiet(d) => Head(d) # "on" /\ DownQuiet(c)
  BY <1>1, <1>2 DEF DownQuiet
<1>5. DownEnds(d) => DownEnds(c) \/ (Head(d) = "off" /\ DownQuiet(c))
  <2> SUFFICES ASSUME NEW i \in DOMAIN d, d[i] = "off", \A j \in DOMAIN d : j > i => d[j] # "on"
               PROVE  DownEnds(c) \/ (Head(d) = "off" /\ DownQuiet(c))
    BY DEF DownEnds
  <2>1. CASE i = 1
    <3>1. \A j \in DOMAIN c : c[j] # "on"
      BY <1>1, <1>2, <2>1
    <3>2. QED
      BY <1>1, <2>1, <3>1 DEF DownQuiet
  <2>2. CASE i # 1
    <3>1. i - 1 \in DOMAIN c /\ c[i - 1] = "off"
      BY <1>3, <2>2
    <3>2. \A j \in DOMAIN c : j > i - 1 => c[j] # "on"
      BY <1>1, <1>2
    <3>3. QED
      BY <3>1, <3>2 DEF DownEnds
  <2>3. QED
    BY <2>1, <2>2
<1>6. QED
  BY <1>1, <1>4, <1>5 DEF c
-----------------------------------------------------------------------------
(* The handlers of a page: those that put nothing in pick mode *)

\* From p to q no frame is put in pick mode, nor told to be.
Calm(p, q) ==
    /\ IsPage(q) /\ q.started = p.started /\ q.framed = p.framed
    /\ \A f \in Frames : q.on[f] => p.on[f]
    /\ DownQuiet(p.down) => DownQuiet(q.down)
    /\ DownEnds(p.down) => DownEnds(q.down)

LEMMA CalmSelf == ASSUME NEW p, IsPage(p) PROVE Calm(p, p)
BY DEF Calm

LEMMA CalmTrans ==
    ASSUME NEW p, NEW q, NEW r, Calm(p, q), Calm(q, r)
    PROVE  Calm(p, r)
BY DEF Calm

\* The parts of a page.
LEMMA Parts ==
    ASSUME NEW p, IsPage(p)
    PROVE  /\ p.up \in Seq(Stages) /\ p.down \in Seq(Commands)
           /\ p.on \in [Frames -> BOOLEAN] /\ p.started \in [Frames -> BOOLEAN]
           /\ p.framed \in BOOLEAN
BY DEF IsPage

LEMMA OutSet ==
    ASSUME NEW p, IsPage(p), NEW f \in Frames, NEW m
    PROVE  Calm(p, SendOut(p, f, m)) /\ SendOut(p, f, m).on = p.on /\ SendOut(p, f, m).down = p.down
BY DEF Calm, IsPage, SendOut

LEMMA UpSet ==
    ASSUME NEW p, IsPage(p), NEW s \in Seq(Stages)
    PROVE  Calm(p, [p EXCEPT !.up = s])
BY DEF Calm, IsPage

LEMMA DownSet ==
    ASSUME NEW p, IsPage(p), NEW s \in Seq(Commands)
    PROVE  LET q == [p EXCEPT !.down = s] IN
           /\ IsPage(q) /\ q.on = p.on /\ q.down = s /\ q.started = p.started /\ q.framed = p.framed
BY DEF IsPage

LEMMA StateCalm ==
    ASSUME NEW p, IsPage(p), NEW f \in Frames, NEW st \in PickerStates
    PROVE  Calm(p, [p EXCEPT !.state[f] = st])
BY DEF Calm, IsPage

LEMMA HoverCalm ==
    ASSUME NEW p, IsPage(p), NEW f \in Frames, NEW b \in BOOLEAN
    PROVE  Calm(p, [p EXCEPT !.hover[f] = b])
BY DEF Calm, IsPage

LEMMA ActiveCalm ==
    ASSUME NEW p, IsPage(p), NEW f \in Frames
    PROVE  Calm(p, [p EXCEPT !.active = f])
BY DEF Calm, IsPage

LEMMA LockCalm ==
    ASSUME NEW p, IsPage(p), NEW f \in Frames
    PROVE  Calm(p, LockActiveFrame(p, f)) /\ Calm(p, ReleaseActiveFrameLock(p))
BY DEF Calm, LockActiveFrame, ReleaseActiveFrameLock, IsPage

\* A command that does not start pick mode.
LEMMA CommandCalm ==
    ASSUME NEW p, IsPage(p), NEW c \in {"off", "confirm", "unlock"}
    PROVE  Calm(p, [p EXCEPT !.down = Append(@, c)])
<1> DEFINE q == [p EXCEPT !.down = Append(p.down, c)]
<1>1. c \in Commands /\ c # "on"
  BY DEF Commands
<1>2. p.down \in Seq(Commands)
  BY Parts
<1> DEFINE e == Append(p.down, c)
<1>3. e \in Seq(Commands) /\ (DownQuiet(p.down) => DownQuiet(e)) /\ (DownEnds(p.down) => DownEnds(e))
  BY <1>1, <1>2, DownGrows
<1>4. q = [p EXCEPT !.down = e]
  OBVIOUS
<1> HIDE DEF e, q
<1>5. IsPage(q) /\ q.on = p.on /\ q.down = e /\ q.started = p.started /\ q.framed = p.framed
  BY <1>3, <1>4, DownSet
<1>6. Calm(p, q)
  BY <1>3, <1>5 DEF Calm
<1>7. QED
  BY <1>6 DEF q

LEMMA SyncCalm ==
    ASSUME NEW p, IsPage(p), NEW f \in Frames, NEW stage \in Stages
    PROVE  Calm(p, SyncPickStateToTop(p, f, stage))
<1>1. Append(p.up, stage) \in Seq(Stages)
  BY Parts
<1>2. QED
  BY <1>1, UpSet, CalmSelf DEF SyncPickStateToTop

\* startPickMode: the top frame passes it on to the frame inside.
LEMMA Starts ==
    ASSUME NEW p, IsPage(p), NEW f \in Frames
    PROVE  LET q == StartPickMode(p, f) IN
           /\ IsPage(q) /\ q.started = p.started /\ q.framed = p.framed
           /\ q.on = [p.on EXCEPT ![f] = TRUE]
           /\ f = "child" \/ ~ p.framed => q.down = p.down
<1> DEFINE told == DispatchPickModeToChildFrames(p, f, TRUE)
           shown == [told EXCEPT !.on[f] = TRUE, !.state[f] = "inspecting"]
           followed == [shown EXCEPT !.active = "top"]
           on == [p.on EXCEPT ![f] = TRUE]
           Good(q) == /\ IsPage(q) /\ q.started = p.started /\ q.framed = p.framed
                      /\ (f = "child" \/ ~ p.framed => q.down = p.down)
<1>1. Good(told) /\ told.on = p.on
  <2>1. Append(p.down, "on") \in Seq(Commands)
    BY Parts DEF Commands
  <2> DEFINE sent == [p EXCEPT !.down = Append(p.down, "on")]
  <2>2. IsPage(sent) /\ sent.started = p.started /\ sent.framed = p.framed /\ sent.on = p.on
    BY <2>1, DownSet
  <2>3. told = IF f = "top" /\ p.framed THEN sent ELSE p
    BY DEF DispatchPickModeToChildFrames
  <2> HIDE DEF told, sent
  <2>4. QED
    BY <2>2, <2>3
<1>2. p.on \in [Frames -> BOOLEAN]
  BY Parts
<1> HIDE DEF told
<1>3. Good(shown) /\ shown.on = on
  BY <1>1 DEF IsPage
<1> HIDE DEF shown
<1>4. Good(followed) /\ followed.on = on
  BY <1>3 DEF IsPage
<1> HIDE DEF followed
<1>5. LET q == ReleaseActiveFrameLock(followed) IN Good(q) /\ q.on = on
  BY <1>4 DEF IsPage, ReleaseActiveFrameLock
<1>6. p.on[f] => p.on = on
  BY <1>2
<1> HIDE DEF on, Good
<1>7. StartPickMode(p, f) = IF p.on[f] THEN told
                            ELSE IF f = "top" THEN ReleaseActiveFrameLock(followed) ELSE shown
  BY DEF StartPickMode, told, shown, followed
<1>8. Good(StartPickMode(p, f)) /\ StartPickMode(p, f).on = on
  BY <1>1, <1>3, <1>5, <1>6, <1>7
<1>9. QED
  BY <1>8 DEF on, Good

\* stopPickMode: the top frame passes it on, where it is asked to.
LEMMA Stops ==
    ASSUME NEW p, IsPage(p), NEW f \in Frames, NEW stage \in {"success", "cancelled"},
           NEW broadcast \in BOOLEAN
    PROVE  LET q == StopPickMode(p, f, stage, broadcast) IN
           /\ Calm(p, q) /\ ~ q.on[f]
           /\ f = "top" /\ broadcast /\ p.framed => DownEnds(q.down)
<1> DEFINE told == IF broadcast THEN DispatchPickModeToChildFrames(p, f, FALSE) ELSE p
           over == IF stage = "success" THEN "picked" ELSE "cancelled"
           off == [told EXCEPT !.on[f] = FALSE, !.state[f] = over]
           hidden == ClearPickState(off, f)
           alone == [hidden EXCEPT !.active = "none"]
           Good(q) == Calm(p, q) /\ (f = "top" /\ broadcast /\ p.framed => DownEnds(q.down))
<1>1. Good(told) /\ told.on = p.on
  <2> DEFINE sent == [p EXCEPT !.down = Append(p.down, "off")]
  <2>1. p.down \in Seq(Commands) /\ "off" \in Commands
    BY Parts DEF Commands
  <2>2. Append(p.down, "off") \in Seq(Commands) /\ DownEnds(Append(p.down, "off"))
    BY <2>1, DownGrows
  <2>3. sent.on = p.on /\ sent.down = Append(p.down, "off")
    BY <2>2, DownSet
  <2>4. Calm(p, sent)
    BY CommandCalm
  <2>5. Calm(p, p)
    BY CalmSelf
  <2>6. told = IF f = "top" /\ broadcast /\ p.framed THEN sent ELSE p
    BY DEF DispatchPickModeToChildFrames
  <2> HIDE DEF told, sent
  <2>7. QED
    BY <2>2, <2>3, <2>4, <2>5, <2>6
<1>2. p.on \in [Frames -> BOOLEAN] /\ over \in PickerStates
  BY Parts
<1> HIDE DEF over, told
<1>3. told.on \in [Frames -> BOOLEAN] /\ IsPage(told)
  BY <1>1, <1>2 DEF Calm
<1>4. /\ IsPage(off) /\ off.started = told.started /\ off.framed = told.framed /\ off.down = told.down
      /\ off.on = [told.on EXCEPT ![f] = FALSE]
  BY <1>2, <1>3 DEF IsPage
<1> HIDE DEF off
<1>5. Good(off) /\ ~ off.on[f]
  <2>1. \A g \in Frames : off.on[g] => told.on[g]
    BY <1>3, <1>4
  <2>2. ~ off.on[f]
    BY <1>3, <1>4
  <2>3. QED
    BY <1>1, <1>4, <2>1, <2>2 DEF Calm
<1>6. /\ IsPage(hidden) /\ hidden.started = off.started /\ hidden.framed = off.framed
      /\ hidden.down = off.down /\ hidden.on = off.on
  BY <1>4 DEF IsPage, ClearPickState
<1> HIDE DEF hidden
<1>7. Good(hidden) /\ ~ hidden.on[f]
  BY <1>5, <1>6 DEF Calm
<1>8. /\ IsPage(alone) /\ alone.started = hidden.started /\ alone.framed = hidden.framed
      /\ alone.down = hidden.down /\ alone.on = hidden.on
  BY <1>6 DEF IsPage
<1> HIDE DEF alone
<1> DEFINE freed == ReleaseActiveFrameLock(alone)
<1>9. /\ IsPage(freed) /\ freed.started = alone.started /\ freed.framed = alone.framed
      /\ freed.down = alone.down /\ freed.on = alone.on
  BY <1>8 DEF IsPage, ReleaseActiveFrameLock
<1> HIDE DEF freed
<1>10. Good(freed) /\ ~ freed.on[f]
  BY <1>7, <1>8, <1>9 DEF Calm
<1> HIDE DEF Good
<1> DEFINE q == StopPickMode(p, f, stage, broadcast)
<1>11. q = IF ~ p.on[f] THEN told ELSE IF f = "top" THEN freed ELSE hidden
  BY DEF StopPickMode, told, over, off, hidden, alone, freed
<1> HIDE DEF q
<1>12. Good(q) /\ ~ q.on[f]
  BY <1>1, <1>7, <1>10, <1>11
<1>13. QED
  BY <1>12 DEF Good, q

LEMMA StopsCalm ==
    ASSUME NEW p, IsPage(p), NEW f \in Frames, NEW stage \in {"success", "cancelled"},
           NEW broadcast \in BOOLEAN
    PROVE  Calm(p, StopPickMode(p, f, stage, broadcast))
BY Stops

LEMMA NotifyCalm ==
    ASSUME NEW p, IsPage(p), NEW f \in Frames
    PROVE  Calm(p, NotifyPickError(p, f, "cancelled"))
<1> DEFINE q == SendOut(p, f, [type |-> "canceled", stage |-> "cancelled"])
<1>1. Calm(p, q)
  BY OutSet
<1>2. NotifyPickError(p, f, "cancelled") = StopPickMode(q, f, "cancelled", TRUE)
  BY DEF NotifyPickError
<1> HIDE DEF q
<1>3. IsPage(q)
  BY <1>1 DEF Calm
<1>4. Calm(q, StopPickMode(q, f, "cancelled", TRUE))
  BY <1>3, StopsCalm
<1>5. QED
  BY <1>1, <1>2, <1>4, CalmTrans
LEMMA LockTargetCalm ==
    ASSUME NEW p, IsPage(p), NEW f \in Frames
    PROVE  Calm(p, LockPickTarget(p, f))
<1> DEFINE held == [p EXCEPT !.locked[f] = TRUE, !.hover[f] = TRUE, !.state[f] = "locked"]
           q == IF f = "top" THEN LockActiveFrame(held, f) ELSE held
<1>1. Calm(p, held)
  BY DEF Calm, IsPage
<1> HIDE DEF held
<1>2. IsPage(held)
  BY <1>1 DEF Calm
<1>3. Calm(held, LockActiveFrame(held, f))
  BY <1>2, LockCalm
<1>4. Calm(p, q)
  BY <1>1, <1>3, CalmTrans
<1>5. LockPickTarget(p, f) = SyncPickStateToTop(q, f, "locked")
  BY DEF LockPickTarget, held
<1> HIDE DEF q
<1>6. Calm(q, SyncPickStateToTop(q, f, "locked"))
  BY <1>4, SyncCalm DEF Calm, Stages
<1>7. QED
  BY <1>4, <1>5, <1>6, CalmTrans

LEMMA UnlockCalm ==
    ASSUME NEW p, IsPage(p), NEW f \in Frames
    PROVE  Calm(p, UnlockPick(p, f))
<1> DEFINE freed == [p EXCEPT !.locked[f] = FALSE, !.state[f] = "inspecting"]
           free == ReleaseActiveFrameLock(freed)
           mine == [free EXCEPT !.active = "top"]
           q == IF f = "top" THEN mine ELSE freed
<1>1. Calm(p, freed)
  BY DEF Calm, IsPage
<1> HIDE DEF freed
<1>2. Calm(freed, free)
  BY <1>1, LockCalm DEF Calm
<1> HIDE DEF free
<1>3. Calm(free, mine)
  BY <1>2, ActiveCalm DEF Calm
<1> HIDE DEF mine
<1>4. Calm(p, q)
  BY <1>1, <1>2, <1>3, CalmTrans
<1>5. UnlockPick(p, f) = SyncPickStateToTop(q, f, "unlocked")
  BY DEF UnlockPick, freed, free, mine
<1> HIDE DEF q
<1>6. Calm(q, SyncPickStateToTop(q, f, "unlocked"))
  BY <1>4, SyncCalm DEF Calm, Stages
<1>7. QED
  BY <1>4, <1>5, <1>6, CalmTrans

LEMMA SubmitCalm ==
    ASSUME NEW p, IsPage(p), NEW f \in Frames
    PROVE  Calm(p, SubmitPickedResult(p, f))
BY OutSet DEF SubmitPickedResult

LEMMA ConfirmCalm ==
    ASSUME NEW p, IsPage(p), NEW f \in Frames
    PROVE  Calm(p, ConfirmPick(p, f))
<1> DEFINE picked == [p EXCEPT !.state[f] = "picked"]
           up == Append(picked.up, "draft")
           handed == [picked EXCEPT !.up = up]
           left == StopPickMode(handed, f, "success", FALSE)
<1>1. Calm(p, picked)
  BY StateCalm
<1>2. Calm(p, p)
  BY CalmSelf
<1> HIDE DEF picked
<1>3. IsPage(picked)
  BY <1>1 DEF Calm
<1>4. Calm(picked, SubmitPickedResult(picked, f))
  BY <1>3, SubmitCalm
<1>5. up \in Seq(Stages)
  BY <1>3, Parts DEF Stages
<1> HIDE DEF up
<1>6. Calm(picked, handed)
  BY <1>3, <1>5, UpSet
<1> HIDE DEF handed
<1>7. Calm(handed, left)
  BY <1>6, StopsCalm DEF Calm
<1>8. ConfirmPick(p, f) \in {p, SubmitPickedResult(picked, f), left}
  BY DEF ConfirmPick, picked, handed, up, left
<1> HIDE DEF left
<1>9. Calm(p, SubmitPickedResult(picked, f)) /\ Calm(p, left)
  BY <1>1, <1>4, <1>6, <1>7, CalmTrans
<1>10. QED
  BY <1>2, <1>8, <1>9

LEMMA RequestCalm ==
    ASSUME NEW p, IsPage(p), NEW f \in Frames
    PROVE  Calm(p, RequestPickConfirm(p, f))
BY ConfirmCalm, CommandCalm DEF RequestPickConfirm

LEMMA SkipCalm ==
    ASSUME NEW p, IsPage(p)
    PROVE  Calm(p, SkipButton(p))
<1> DEFINE told == [p EXCEPT !.down = Append(@, "unlock")]
           seen == [told EXCEPT !.state["top"] = "inspecting"]
           q == ReleaseActiveFrameLock(seen)
<1>1. Calm(p, told)
  BY CommandCalm
<1>2. [p EXCEPT !.down = Append(@, "unlock"), !.state["top"] = "inspecting"] = seen
  BY DEF IsPage
<1> HIDE DEF told
<1>3. Calm(told, seen)
  BY <1>1, StateCalm DEF Calm
<1> HIDE DEF seen
<1>4. Calm(seen, q)
  BY <1>3, LockCalm DEF Calm
<1>5. Calm(p, q)
  BY <1>1, <1>3, <1>4, CalmTrans
<1>6. Calm(p, UnlockPick(p, "top"))
  BY UnlockCalm
<1>7. SkipButton(p) = q \/ SkipButton(p) = UnlockPick(p, "top")
  BY <1>2 DEF SkipButton
<1>8. QED
  BY <1>5, <1>6, <1>7

LEMMA MoveCalm ==
    ASSUME NEW p, IsPage(p), NEW f \in Frames, NEW overFrame \in BOOLEAN
    PROVE  Calm(p, OnPickMouseMove(p, f, overFrame))
<1> DEFINE seen == [p EXCEPT !.hover[f] = ~ overFrame]
           mine == [seen EXCEPT !.active = "top"]
           followed == IF f = "top" THEN mine ELSE seen
           looks == [followed EXCEPT !.state[f] = "inspecting"]
<1>1. Calm(p, p)
  BY CalmSelf
<1>2. Calm(p, seen)
  BY HoverCalm
<1> HIDE DEF seen
<1>3. Calm(seen, mine)
  BY <1>2, ActiveCalm DEF Calm
<1> HIDE DEF mine
<1>4. Calm(p, followed)
  BY <1>2, <1>3, CalmTrans
<1> HIDE DEF followed
<1>5. Calm(followed, looks)
  BY <1>4, StateCalm DEF Calm
<1> HIDE DEF looks
<1>6. Calm(p, looks)
  BY <1>4, <1>5, CalmTrans
<1>7. IsPage(seen) /\ IsPage(looks) /\ "hover" \in Stages
  BY <1>2, <1>6 DEF Calm, Stages
<1>8. Calm(seen, SyncPickStateToTop(seen, f, "hover")) /\ Calm(looks, SyncPickStateToTop(looks, f, "hover"))
  BY <1>7, SyncCalm
<1>9. Calm(p, SyncPickStateToTop(seen, f, "hover")) /\ Calm(p, SyncPickStateToTop(looks, f, "hover"))
  BY <1>2, <1>6, <1>8, CalmTrans
<1>10. OnPickMouseMove(p, f, overFrame) \in
           {p, SyncPickStateToTop(seen, f, "hover"), SyncPickStateToTop(looks, f, "hover")}
  BY DEF OnPickMouseMove, seen, mine, followed, looks
<1>11. QED
  BY <1>1, <1>9, <1>10

LEMMA ClickCalm ==
    ASSUME NEW p, IsPage(p), NEW f \in Frames, NEW overFrame \in BOOLEAN
    PROVE  Calm(p, OnPickClick(p, f, overFrame))
<1> DEFINE left == [p EXCEPT !.hover[f] = FALSE]
           synced == SyncPickStateToTop(left, f, "hover")
<1>1. Calm(p, p) /\ Calm(p, LockPickTarget(p, f))
  BY CalmSelf, LockTargetCalm
<1>2. Calm(p, left)
  BY HoverCalm
<1> HIDE DEF left
<1>3. IsPage(left) /\ "hover" \in Stages
  BY <1>2 DEF Calm, Stages
<1>4. Calm(left, synced)
  BY <1>3, SyncCalm
<1>5. OnPickClick(p, f, overFrame) \in {p, synced, LockPickTarget(p, f)}
  BY DEF OnPickClick, left
<1> HIDE DEF synced
<1>6. Calm(p, synced)
  BY <1>2, <1>4, CalmTrans
<1>7. QED
  BY <1>1, <1>5, <1>6

LEMMA KeydownCalm ==
    ASSUME NEW p, IsPage(p), NEW f \in Frames, NEW key \in {"Escape", "Enter"}
    PROVE  Calm(p, OnPickKeydown(p, f, key))
BY NotifyCalm, RequestCalm, CalmSelf DEF OnPickKeydown

LEMMA EventCalm ==
    ASSUME NEW p, IsPage(p), NEW f \in Frames, NEW action
    PROVE  Calm(p, SendEvent(p, f, action))
BY OutSet, CalmSelf DEF SendEvent

LEMMA ToggleCalm ==
    ASSUME NEW p, IsPage(p), NEW f \in Frames, NEW enabled \in BOOLEAN
    PROVE  Calm(p, OnRecorderToggle(p, f, enabled))
<1> DEFINE begun == [p EXCEPT !.rec[f] = TRUE]
           told == SendEvent(begun, f, "navigate")
<1>1. Calm(p, begun) /\ Calm(p, p)
  BY DEF Calm, IsPage
<1>2. Calm(p, StopRecording(p, f))
  BY DEF Calm, IsPage, StopRecording
<1> HIDE DEF begun
<1>3. Calm(begun, told)
  BY <1>1, EventCalm DEF Calm
<1>4. StartRecording(p, f) \in {p, told}
  BY DEF StartRecording, begun
<1> HIDE DEF told
<1>5. Calm(p, told)
  BY <1>1, <1>3, CalmTrans
<1>6. OnRecorderToggle(p, f, enabled) \in {p, told, StopRecording(p, f)}
  BY <1>4 DEF OnRecorderToggle
<1>7. QED
  BY <1>1, <1>2, <1>5, <1>6

LEMMA UserClickCalm ==
    ASSUME NEW p, IsPage(p), NEW f \in Frames
    PROVE  Calm(p, OnClick(p, f))
BY ClickCalm, EventCalm DEF OnClick

LEMMA AnswerCalm ==
    ASSUME NEW p, IsPage(p), NEW ok \in BOOLEAN
    PROVE  Calm(p, OnPickAnswer(p, ok))
BY StopsCalm, StateCalm DEF OnPickAnswer

\* What the top frame makes of what it hears from the frame inside.
LEMMA HeardCalm ==
    ASSUME NEW p, IsPage(p), p.up # <<>>
    PROVE  Calm(p, OnFrameSync(p, Head(p.up)))
<1> DEFINE rest == Tail(p.up)
           q == [p EXCEPT !.up = rest]
           stage == Head(p.up)
           ignored == ShouldIgnoreFrameSwitch(q, "child")
           Top(r, st) == [r EXCEPT !.state["top"] = st]
           lock == LockActiveFrame(q, "child")
           free == ReleaseActiveFrameLock(q)
           freed == [free EXCEPT !.active = "child"]
           locks == IF ignored THEN q ELSE lock
           frees == IF q.active \in {"none", "child"} THEN freed ELSE q
           active == IF ignored THEN q.active ELSE "child"
           hovers == [q EXCEPT !.state["top"] = "inspecting", !.active = active]
           result == OnFrameSync(p, stage)
<1>1. rest \in Seq(Stages) /\ stage \in Stages
  BY Parts
<1> HIDE DEF rest
<1>2. Calm(p, q) /\ IsPage(q)
  BY <1>1, UpSet DEF Calm
<1>3. result \in {q, Top(locks, "locked"), Top(frees, "inspecting"), hovers,
                  SubmitPickedResult(Top(q, "picked"), "child")}
  <2> HIDE DEF q, ignored, stage
  <2>1. ~ p.started["top"] => result = q
    BY DEF OnFrameSync, q, rest
  <2>2. p.started["top"] /\ stage = "locked" => result = Top(locks, "locked")
    BY Zenon DEF OnFrameSync, q, rest, ignored
  <2>3. p.started["top"] /\ stage = "unlocked" => result = Top(frees, "inspecting")
    BY Zenon DEF OnFrameSync, q, rest, ignored
  <2>4. p.started["top"] /\ stage = "hover" => result = hovers
    BY Zenon DEF OnFrameSync, q, rest, ignored
  <2>5. p.started["top"] /\ stage = "draft" => result = SubmitPickedResult(Top(q, "picked"), "child")
    BY Zenon DEF OnFrameSync, q, rest, ignored
  <2> HIDE DEF result, locks, frees, hovers, Top
  <2>6. QED
    BY <1>1, <2>1, <2>2, <2>3, <2>4, <2>5 DEF Stages
<1> HIDE DEF q, ignored, result
<1>4. Calm(q, lock) /\ Calm(q, free)
  BY <1>2, LockCalm
<1> HIDE DEF lock, free
<1>5. Calm(free, freed)
  BY <1>4, ActiveCalm DEF Calm
<1> HIDE DEF freed
<1>6. Calm(p, locks) /\ Calm(p, frees)
  BY <1>2, <1>4, <1>5, CalmTrans
<1> HIDE DEF locks, frees
<1>7. \A r : \A st \in PickerStates : Calm(p, r) => Calm(p, Top(r, st))
  <2> SUFFICES ASSUME NEW r, NEW st \in PickerStates, Calm(p, r) PROVE Calm(p, Top(r, st))
    OBVIOUS
  <2> DEFINE s == Top(r, st)
  <2>0. IsPage(r)
    BY DEF Calm
  <2>1. Calm(r, s)
    BY <2>0, StateCalm
  <2> HIDE DEF s
  <2>2. Calm(p, s)
    BY <2>1, CalmTrans
  <2>3. QED
    BY <2>2 DEF s
<1>8. Calm(p, Top(locks, "locked")) /\ Calm(p, Top(frees, "inspecting")) /\ Calm(p, Top(q, "picked"))
  BY <1>2, <1>6, <1>7
<1>9. Calm(p, hovers)
  <2>1. active \in Frames \union {"none"}
    BY <1>2 DEF IsPage
  <2> HIDE DEF active
  <2>2. Calm(q, hovers)
    BY <1>2, <2>1 DEF Calm, IsPage
  <2> HIDE DEF hovers
  <2>3. QED
    BY <1>2, <2>2, CalmTrans
<1>10. Calm(p, SubmitPickedResult(Top(q, "picked"), "child"))
  <2> DEFINE s == Top(q, "picked")
  <2>1. Calm(p, s)
    BY <1>8
  <2> HIDE DEF s
  <2>2. Calm(s, SubmitPickedResult(s, "child"))
    BY <2>1, SubmitCalm DEF Calm
  <2>3. Calm(p, SubmitPickedResult(s, "child"))
    BY <2>1, <2>2, CalmTrans
  <2>4. QED
    BY <2>3 DEF s
<1> HIDE DEF Top, hovers
<1>11. Calm(p, result)
  BY <1>2, <1>3, <1>8, <1>9, <1>10
<1>12. QED
  BY <1>11 DEF result

\* What the user does.
LEMMA UserCalm ==
    ASSUME NEW t \in Tabs, NEW f \in Frames, IsPage(pages[t]), UserActs(t, f)
    PROVE  \E q : Calm(pages[t], q) /\ pages' = [pages EXCEPT ![t] = q]
<1> DEFINE p == pages[t]
<1>1. IsPage(p)
  OBVIOUS
<1>2. PICK q : /\ PageBecomes(t, q)
               /\ q \in {OnClick(p, f), OnPickMouseMove(p, f, FALSE), OnPickKeydown(p, f, "Escape"),
                         OnPickKeydown(p, f, "Enter"), RequestPickConfirm(p, f), SkipButton(p),
                         OnPickMouseMove(p, f, TRUE), OnPickClick(p, f, TRUE)}
  BY DEF UserActs
<1> HIDE DEF p
<1>3. /\ Calm(p, OnClick(p, f)) /\ Calm(p, OnPickMouseMove(p, f, FALSE))
      /\ Calm(p, OnPickMouseMove(p, f, TRUE)) /\ Calm(p, OnPickClick(p, f, TRUE))
  BY <1>1, UserClickCalm, MoveCalm, ClickCalm
<1>4. /\ Calm(p, OnPickKeydown(p, f, "Escape")) /\ Calm(p, OnPickKeydown(p, f, "Enter"))
      /\ Calm(p, RequestPickConfirm(p, f)) /\ Calm(p, SkipButton(p))
  BY <1>1, KeydownCalm, RequestCalm, SkipCalm
<1>5. Calm(p, q)
  BY <1>2, <1>3, <1>4
<1>6. QED
  BY <1>2, <1>5 DEF PageBecomes, p
-----------------------------------------------------------------------------
(* Pages that leave pick mode go on doing so *)

LEMMA CalmUnheard ==
    ASSUME NEW p, NEW q, NEW b, Calm(p, q), Unheard(p, b)
    PROVE  Unheard(q, b)
BY DEF Calm, Unheard

LEMMA CalmEnding ==
    ASSUME NEW p, NEW q, NEW b, Calm(p, q), Ending(p, b)
    PROVE  Ending(q, b)
BY DEF Calm, Ending

\* The frame inside takes a command of the top frame.
LEMMA CommandTaken ==
    ASSUME NEW p, IsPage(p), p.down # <<>>, NEW b, Unheard(p, b)
    PROVE  LET q == OnFrameCommand(p, Head(p.down)) IN
           /\ IsPage(q) /\ q.started = p.started /\ Unheard(q, b)
           /\ Ending(p, b) => Ending(q, b)
<1> DEFINE rest == Tail(p.down)
           q == [p EXCEPT !.down = rest]
           command == Head(p.down)
           result == OnFrameCommand(p, command)
           off == StopPickMode(q, "child", "cancelled", TRUE)
           others == {ConfirmPick(q, "child"), UnlockPick(q, "child"), q}
<1>1. /\ rest \in Seq(Commands) /\ command \in Commands
      /\ DownQuiet(p.down) => command # "on" /\ DownQuiet(rest)
      /\ DownEnds(p.down) => DownEnds(rest) \/ (command = "off" /\ DownQuiet(rest))
  BY Parts, DownShrinks
<1> HIDE DEF rest, command
<1>2. IsPage(q) /\ q.on = p.on /\ q.down = rest /\ q.started = p.started /\ q.framed = p.framed
  BY <1>1, DownSet
<1>3. /\ ~ p.started["child"] => result = q
      /\ p.started["child"] /\ command = "on" => result = StartPickMode(q, "child")
      /\ p.started["child"] /\ command = "off" => result = off
      /\ p.started["child"] /\ command = "confirm" => result = ConfirmPick(q, "child")
      /\ p.started["child"] /\ command = "unlock" => result \in {UnlockPick(q, "child"), q}
  <2> HIDE DEF q
  <2>1. ~ p.started["child"] => result = q
    BY DEF OnFrameCommand, q, rest
  <2>2. p.started["child"] /\ command = "on" => result = StartPickMode(q, "child")
    BY Zenon DEF OnFrameCommand, q, rest
  <2>3. p.started["child"] /\ command = "off" => result = off
    BY Zenon DEF OnFrameCommand, q, rest
  <2>4. p.started["child"] /\ command = "confirm" => result = ConfirmPick(q, "child")
    BY Zenon DEF OnFrameCommand, q, rest
  <2>5. p.started["child"] /\ command = "unlock" =>
            result = IF q.locked["child"] THEN UnlockPick(q, "child") ELSE q
    BY Zenon DEF OnFrameCommand, q, rest
  <2> HIDE DEF result
  <2>6. QED
    BY <2>1, <2>2, <2>3, <2>4, <2>5
<1> HIDE DEF q, result
<1>4. Unheard(q, b)
  BY <1>1, <1>2 DEF Unheard
<1>5. Ending(p, b) /\ (command # "off" \/ ~ q.on["child"]) => Ending(q, b)
  BY <1>1, <1>2 DEF Ending
<1>6. CASE ~ p.started["child"]
  <2>1. ~ q.on["child"]
    BY <1>2, <1>6 DEF Unheard
  <2>2. QED
    BY <1>2, <1>3, <1>4, <1>5, <1>6, <2>1 DEF result, command
<1>7. CASE p.started["child"] /\ command = "on"
  <2> DEFINE begun == StartPickMode(q, "child")
  <2>0. /\ IsPage(begun) /\ begun.started = q.started /\ begun.framed = q.framed
        /\ begun.on = [q.on EXCEPT !["child"] = TRUE] /\ begun.down = q.down
    BY <1>2, Starts
  <2>a. result = begun
    BY <1>3, <1>7
  <2> HIDE DEF begun
  <2>1. /\ IsPage(result) /\ result.started = q.started /\ result.framed = q.framed
        /\ result.on = [q.on EXCEPT !["child"] = TRUE] /\ result.down = q.down
    BY <2>0, <2>a
  <2>2. q.on \in [Frames -> BOOLEAN]
    BY <1>2, Parts
  <2>3. Unheard(result, b)
    BY <1>2, <1>4, <1>7, <2>1, <2>2 DEF Unheard
  <2>4. Ending(p, b) => Ending(result, b)
    BY <1>1, <1>2, <1>7, <2>1, <2>2 DEF Ending
  <2>5. QED
    BY <1>2, <2>1, <2>3, <2>4 DEF result, command
<1>8. CASE p.started["child"] /\ command = "off"
  <2>1. Calm(q, off) /\ ~ off.on["child"]
    BY <1>2, Stops
  <2> HIDE DEF off
  <2>2. Unheard(off, b)
    BY <1>4, <2>1, CalmUnheard
  <2>3. Ending(p, b) => Ending(off, b)
    BY <1>1, <1>2, <2>1 DEF Ending, Calm
  <2>4. IsPage(off) /\ off.started = p.started
    BY <1>2, <2>1 DEF Calm
  <2>5. result = off
    BY <1>3, <1>8
  <2>6. QED
    BY <2>2, <2>3, <2>4, <2>5 DEF result, command
<1>9. CASE p.started["child"] /\ command \in {"confirm", "unlock"}
  <2>1. Calm(q, ConfirmPick(q, "child")) /\ Calm(q, UnlockPick(q, "child")) /\ Calm(q, q)
    BY <1>2, ConfirmCalm, UnlockCalm, CalmSelf
  <2>2. result \in others
    BY <1>3, <1>9
  <2>3. Calm(q, result)
    BY <2>1, <2>2
  <2>4. Unheard(result, b)
    BY <1>4, <2>3, CalmUnheard
  <2>5. Ending(p, b) => Ending(result, b)
    BY <1>5, <1>9, <2>3, CalmEnding
  <2>6. QED
    BY <1>2, <2>3, <2>4, <2>5 DEF result, command, Calm
<1>10. QED
  BY <1>1, <1>6, <1>7, <1>8, <1>9 DEF Commands

\* A frame reads the first message of its box.
LEMMA BoxRead ==
    ASSUME NEW p, IsPage(p), NEW b \in [Frames -> Seq(ToTab)], Unheard(p, b),
           NEW f \in Frames, b[f] # <<>>, NEW q,
           LET m == Head(b[f]) IN
               \/ On(m) /\ q = StartPickMode(p, f)
               \/ Off(m) /\ q = StopPickMode(p, f, "cancelled", TRUE)
               \/ ~ On(m) /\ ~ Off(m) /\ Calm(p, q)
    PROVE  LET c == [b EXCEPT ![f] = Tail(@)] IN
           /\ IsPage(q) /\ q.started = p.started
           /\ c \in [Frames -> Seq(ToTab)] /\ Unheard(q, c)
           /\ Ending(p, b) => Ending(q, c)
<1> DEFINE m == Head(b[f])
           rest == Tail(b[f])
           c == [b EXCEPT ![f] = rest]
<1>1. /\ rest \in Seq(ToTab) /\ m \in ToTab
      /\ Quiet(b[f]) => ~ On(m) /\ Quiet(rest)
      /\ Ends(b[f]) => Ends(rest) \/ (Off(m) /\ Quiet(rest))
  BY BoxShrinks
<1>2. \/ On(m) /\ q = StartPickMode(p, f)
      \/ Off(m) /\ q = StopPickMode(p, f, "cancelled", TRUE)
      \/ ~ On(m) /\ ~ Off(m) /\ Calm(p, q)
  OBVIOUS
<1>3. ~ (On(m) /\ Off(m))
  BY DEF On, Off
<1> HIDE DEF rest, m
<1>4. /\ c \in [Frames -> Seq(ToTab)] /\ c[f] = rest
      /\ \A g \in Frames : g # f => c[g] = b[g]
  BY <1>1
<1>5. p.started[f] /\ (f = "child" => p.framed)
  BY DEF Unheard
<1>6. p.on \in [Frames -> BOOLEAN]
  BY Parts
<1> HIDE DEF c
<1>7. CASE On(m) /\ q = StartPickMode(p, f)
  <2>1. /\ IsPage(q) /\ q.started = p.started /\ q.framed = p.framed
        /\ q.on = [p.on EXCEPT ![f] = TRUE]
        /\ f = "child" \/ ~ p.framed => q.down = p.down
    BY <1>7, Starts
  <2>2. q.on[f] /\ \A g \in Frames : g # f => q.on[g] = p.on[g]
    BY <1>6, <2>1
  <2>3. Unheard(q, c)
    BY <1>4, <1>5, <2>1, <2>2 DEF Unheard
  <2>4. Ends(b[f]) \/ Quiet(b[f]) => Ends(rest)
    BY <1>1, <1>3, <1>7
  <2>5. ASSUME Ending(p, b) PROVE Ending(q, c)
    <3>1. Ends(rest)
      BY <2>4, <2>5 DEF Ending
    <3>2. CASE f = "top"
      BY <1>4, <2>5, <3>1, <3>2 DEF Ending
    <3>3. CASE f = "child"
      BY <1>4, <2>1, <2>2, <2>5, <3>1, <3>3 DEF Ending
    <3>4. QED
      BY <3>2, <3>3
  <2>6. QED
    BY <1>4, <2>1, <2>3, <2>5 DEF c, rest
<1>8. CASE Off(m) /\ q = StopPickMode(p, f, "cancelled", TRUE)
  <2>1. Calm(p, q) /\ ~ q.on[f] /\ (f = "top" /\ p.framed => DownEnds(q.down))
    BY <1>8, Stops
  <2>2. Unheard(q, b)
    BY <2>1, CalmUnheard
  <2>3. Unheard(q, c)
    BY <1>4, <1>5, <2>1, <2>2 DEF Unheard, Calm
  <2>4. Ends(b[f]) \/ Quiet(b[f]) => Ends(rest) \/ Quiet(rest)
    BY <1>1
  <2>5. ASSUME Ending(p, b) PROVE Ending(q, c)
    <3>1. Ends(rest) \/ Quiet(rest)
      BY <2>4, <2>5 DEF Ending
    <3>2. CASE f = "top"
      <4>1. ~ p.framed => ~ q.on["child"] /\ DownQuiet(q.down)
        BY <2>1, <2>2 DEF Unheard, Calm
      <4>2. QED
        BY <1>4, <2>1, <2>5, <3>1, <3>2, <4>1 DEF Ending
    <3>3. CASE f = "child"
      BY <1>4, <2>1, <2>5, <3>1, <3>3 DEF Ending, Calm
    <3>4. QED
      BY <3>2, <3>3
  <2>6. QED
    BY <1>4, <2>1, <2>3, <2>5 DEF c, rest, Calm
<1>9. CASE ~ On(m) /\ ~ Off(m) /\ Calm(p, q)
  <2>1. (Ends(b[f]) => Ends(rest)) /\ (Quiet(b[f]) => Quiet(rest))
    BY <1>1, <1>9
  <2>2. Unheard(q, c)
    <3>1. Unheard(q, b)
      BY <1>9, CalmUnheard
    <3>2. QED
      BY <1>4, <1>5, <1>9, <3>1 DEF Unheard, Calm
  <2>3. ASSUME Ending(p, b) PROVE Ending(q, c)
    <3>1. Ending(q, b)
      BY <1>9, <2>3, CalmEnding
    <3>2. \A g \in Frames : (Ends(b[g]) => Ends(c[g])) /\ (Quiet(b[g]) => Quiet(c[g]))
      BY <1>4, <2>1
    <3>3. QED
      BY <3>1, <3>2 DEF Ending
  <2>4. QED
    BY <1>4, <1>9, <2>2, <2>3 DEF c, rest, Calm
<1>10. QED
  BY <1>2, <1>7, <1>8, <1>9
-----------------------------------------------------------------------------
(* The boxes of the tabs *)

\* Boxes in which nothing was added that puts a frame in pick mode, and
\* nothing at all where no script has started.
Grown(B, C) ==
    /\ C \in Boxes
    /\ \A t \in Tabs, f \in Frames :
           /\ pages[t].started[f] \/ C[t][f] = B[t][f]
           /\ Quiet(B[t][f]) => Quiet(C[t][f])
           /\ Ends(B[t][f]) => Ends(C[t][f])

LEMMA GrownSelf == ASSUME NEW B \in Boxes PROVE Grown(B, B)
BY DEF Grown

LEMMA GrownTrans ==
    ASSUME NEW B, NEW C, NEW D, Grown(B, C), Grown(C, D)
    PROVE  Grown(B, D)
BY DEF Grown

LEMMA SentToTyped ==
    ASSUME NEW B \in Boxes, NEW t \in Tabs, NEW f \in Frames, NEW m \in ToTab
    PROVE  LET C == SentTo(B, t, f, m) IN
           /\ C \in Boxes
           /\ \A u \in Tabs, g \in Frames : (u # t \/ g # f \/ ~ pages[t].started[f]) => C[u][g] = B[u][g]
           /\ pages[t].started[f] => C[t][f] = Append(B[t][f], m)
<1> DEFINE s == Append(B[t][f], m)
           C == [B EXCEPT ![t] = [B[t] EXCEPT ![f] = s]]
<1>1. s \in Seq(ToTab)
  BY DEF Boxes
<1> HIDE DEF s
<1>2. C \in Boxes /\ C[t][f] = s /\ \A u \in Tabs, g \in Frames : u # t \/ g # f => C[u][g] = B[u][g]
  BY <1>1 DEF Boxes
<1>3. SentTo(B, t, f, m) = IF pages[t].started[f] THEN C ELSE B
  BY DEF SentTo, s
<1> HIDE DEF C
<1>4. QED
  BY <1>2, <1>3 DEF s

LEMMA SentToGrown ==
    ASSUME NEW B \in Boxes, NEW t \in Tabs, NEW f \in Frames, NEW m \in ToTab, ~ On(m)
    PROVE  LET C == SentTo(B, t, f, m) IN
           Grown(B, C) /\ (Off(m) /\ pages[t].started[f] => Ends(C[t][f]))
<1> DEFINE C == SentTo(B, t, f, m)
<1>1. /\ C \in Boxes
      /\ \A u \in Tabs, g \in Frames : (u # t \/ g # f \/ ~ pages[t].started[f]) => C[u][g] = B[u][g]
      /\ pages[t].started[f] => C[t][f] = Append(B[t][f], m)
  <2>1. C \in Boxes
    BY SentToTyped
  <2>2. \A u \in Tabs, g \in Frames : (u # t \/ g # f \/ ~ pages[t].started[f]) => C[u][g] = B[u][g]
    BY SentToTyped
  <2>3. pages[t].started[f] => C[t][f] = Append(B[t][f], m)
    BY SentToTyped
  <2>4. QED
    BY <2>1, <2>2, <2>3
<1> DEFINE c == Append(B[t][f], m)
<1>2. (Quiet(B[t][f]) => Quiet(c)) /\ (Ends(B[t][f]) => Ends(c)) /\ (Off(m) => Ends(c))
  <2>1. B[t][f] \in Seq(ToTab)
    BY DEF Boxes
  <2>2. QED
    BY <2>1, BoxGrows
<1>3. pages[t].started[f] => C[t][f] = c
  BY <1>1
<1> HIDE DEF C, c
<1>4. Grown(B, C)
  BY <1>1, <1>2, <1>3 DEF Grown
<1>5. QED
  BY <1>2, <1>3, <1>4 DEF C

LEMMA SentGrown ==
    ASSUME NEW B \in Boxes, NEW t, NEW m \in ToTab, ~ On(m)
    PROVE  LET C == Sent(B, t, m) IN
           /\ Grown(B, C)
           /\ Off(m) /\ t \in Tabs => \A f \in Frames : pages[t].started[f] => Ends(C[t][f])
<1>1. CASE t \notin Tabs
  BY <1>1, GrownSelf DEF Sent
<1>2. CASE t \in Tabs
  <2> DEFINE C == SentTo(B, t, "top", m)
             D == SentTo(C, t, "child", m)
  <2>1. Grown(B, C) /\ (Off(m) /\ pages[t].started["top"] => Ends(C[t]["top"]))
    BY <1>2, SentToGrown
  <2>2. Sent(B, t, m) = D
    BY <1>2 DEF Sent
  <2> HIDE DEF C
  <2>3. C \in Boxes
    BY <2>1 DEF Grown
  <2>4. Grown(C, D) /\ (Off(m) /\ pages[t].started["child"] => Ends(D[t]["child"]))
    BY <1>2, <2>3, SentToGrown
  <2> HIDE DEF D
  <2>5. Grown(B, D)
    BY <2>1, <2>4, GrownTrans
  <2>6. Ends(C[t]["top"]) => Ends(D[t]["top"])
    BY <1>2, <2>4 DEF Grown
  <2>7. QED
    BY <2>1, <2>2, <2>4, <2>5, <2>6
<1>3. QED
  BY <1>1, <1>2

\* A message of any kind to one tab.
LEMMA SentTyped ==
    ASSUME NEW B \in Boxes, NEW t \in Tabs, NEW m \in ToTab
    PROVE  LET C == Sent(B, t, m) IN
           /\ C \in Boxes
           /\ \A u \in Tabs : u # t => C[u] = B[u]
           /\ \A u \in Tabs, f \in Frames : ~ pages[u].started[f] => C[u][f] = B[u][f]
<1> DEFINE C == SentTo(B, t, "top", m)
           D == SentTo(C, t, "child", m)
<1>1. /\ C \in Boxes
      /\ \A u \in Tabs, g \in Frames : (u # t \/ g # "top" \/ ~ pages[t].started["top"]) => C[u][g] = B[u][g]
  BY SentToTyped
<1> HIDE DEF C
<1>2. /\ D \in Boxes
      /\ \A u \in Tabs, g \in Frames : (u # t \/ g # "child" \/ ~ pages[t].started["child"]) => D[u][g] = C[u][g]
  BY <1>1, SentToTyped
<1> HIDE DEF D
<1>3. \A u \in Tabs, f \in Frames : u # t \/ ~ pages[u].started[f] => D[u][f] = B[u][f]
  BY <1>1, <1>2
<1>4. \A u \in Tabs : u # t => D[u] = B[u]
  <2> SUFFICES ASSUME NEW u \in Tabs, u # t PROVE D[u] = B[u]
    OBVIOUS
  <2>1. D[u] \in [Frames -> Seq(ToTab)] /\ B[u] \in [Frames -> Seq(ToTab)]
    BY <1>2 DEF Boxes
  <2>2. \A f \in Frames : D[u][f] = B[u][f]
    BY <1>3
  <2>3. QED
    BY <2>1, <2>2
<1>5. Sent(B, t, m) = D
  BY DEF Sent, C, D
<1>6. QED
  BY <1>2, <1>3, <1>4, <1>5

LEMMA Messages ==
    /\ \A on \in BOOLEAN : SendPickerMode(on) \in ToTab /\ SendToggle(on) \in ToTab
    /\ ~ On(SendPickerMode(FALSE)) /\ Off(SendPickerMode(FALSE))
    /\ \A on \in BOOLEAN : ~ On(SendToggle(on)) /\ ~ Off(SendToggle(on))
    /\ \A ok \in BOOLEAN : LET m == [type |-> "answer", ok |-> ok] IN m \in ToTab /\ ~ On(m) /\ ~ Off(m)
BY DEF SendPickerMode, SendToggle, ToTab, On, Off
-----------------------------------------------------------------------------
(* Every step: pages and boxes *)

LEMMA PageTypes ==
    ASSUME TypeOK, NEW t \in Tabs
    PROVE  /\ IsPage(pages[t]) /\ inbox[t] \in [Frames -> Seq(ToTab)]
           /\ \A f \in Frames : inbox[t][f] \in Seq(ToTab)
           /\ session = NoSession \/ session.target \in Tabs
           /\ session.target \in Tabs => session # NoSession
BY TabsAssumption DEF TypeOK, PagesOK, Boxes, Target, NoSession

\* Where no page changes but in what it has sent to the worker.
LEMMA BoxesStep ==
    ASSUME TypeOK, PInv, PagesOK', inbox' \in Boxes,
           \A t \in Tabs : /\ pages'[t].on = pages[t].on /\ pages'[t].down = pages[t].down
                           /\ pages'[t].started = pages[t].started /\ pages'[t].framed = pages[t].framed,
           \A t \in Tabs, f \in Frames : ~ pages[t].started[f] => inbox'[t][f] = inbox[t][f],
           \A t \in Tabs :
               t \notin loose' /\ session'.target # t =>
                   \/ /\ t \notin loose /\ session.target # t
                      /\ \A f \in Frames : /\ Quiet(inbox[t][f]) => Quiet(inbox'[t][f])
                                           /\ Ends(inbox[t][f]) => Ends(inbox'[t][f])
                   \/ \A f \in Frames : pages[t].started[f] => Ends(inbox'[t][f]),
           \A t \in Tabs : phase'[t] # "open" => phase[t] # "open",
           native' \subseteq loose'
    PROVE  PInv'
<1>1. PagesUnheard'
  BY DEF PInv, PagesUnheard, Unheard
<1>2. ASSUME NEW t \in Tabs, t \notin loose', session'.target # t
      PROVE  Ending(pages'[t], inbox'[t])
  <2>1. Unheard(pages[t], inbox[t])
    BY DEF PInv, PagesUnheard
  <2>2. CASE /\ t \notin loose /\ session.target # t
             /\ \A f \in Frames : /\ Quiet(inbox[t][f]) => Quiet(inbox'[t][f])
                                  /\ Ends(inbox[t][f]) => Ends(inbox'[t][f])
    <3>1. Ending(pages[t], inbox[t])
      BY <2>2 DEF PInv, PagesEnd
    <3>2. QED
      BY <2>2, <3>1 DEF Ending
  <2>3. CASE \A f \in Frames : pages[t].started[f] => Ends(inbox'[t][f])
    <3>1. \A f \in Frames : pages[t].started[f] \/ (~ pages[t].on[f] /\ inbox'[t][f] = <<>>)
      BY <2>1 DEF Unheard
    <3>2. pages[t].started["top"] \/ DownQuiet(pages[t].down)
      BY <2>1 DEF Unheard
    <3>3. QED
      BY <2>3, <3>1, <3>2, BoxEmpty DEF Ending
  <2>4. QED
    BY <1>2, <2>2, <2>3
<1>3. QED
  BY <1>1, <1>2 DEF PInv, PagesEnd

\* What is added puts nothing in pick mode; a tab that loses the session is
\* told, or has no script.
LEMMA GrownStep ==
    ASSUME TypeOK, PInv, PagesOK', Grown(inbox, inbox'),
           \A t \in Tabs : /\ pages'[t].on = pages[t].on /\ pages'[t].down = pages[t].down
                           /\ pages'[t].started = pages[t].started /\ pages'[t].framed = pages[t].framed,
           loose \subseteq loose', native' \subseteq loose',
           \A t \in Tabs : phase'[t] # "open" => phase[t] # "open",
           \/ session'.target = session.target
           \/ session.target \in loose'
           \/ session.target \in Tabs =>
                  \A f \in Frames : pages[session.target].started[f] => Ends(inbox'[session.target][f])
    PROVE  PInv'
<1>1. /\ inbox' \in Boxes
      /\ \A t \in Tabs, f \in Frames : /\ ~ pages[t].started[f] => inbox'[t][f] = inbox[t][f]
                                       /\ Quiet(inbox[t][f]) => Quiet(inbox'[t][f])
                                       /\ Ends(inbox[t][f]) => Ends(inbox'[t][f])
  BY DEF Grown
<1>2. ASSUME NEW t \in Tabs, t \notin loose', session'.target # t
      PROVE  \/ /\ t \notin loose /\ session.target # t
                /\ \A f \in Frames : /\ Quiet(inbox[t][f]) => Quiet(inbox'[t][f])
                                     /\ Ends(inbox[t][f]) => Ends(inbox'[t][f])
             \/ \A f \in Frames : pages[t].started[f] => Ends(inbox'[t][f])
  <2>1. CASE session.target = t
    BY <1>2, <2>1
  <2>2. CASE session.target # t
    BY <1>1, <1>2, <2>2
  <2>3. QED
    BY <2>1, <2>2
<1>3. QED
  BY <1>1, <1>2, BoxesStep

\* One page changes, and its boxes.
LEMMA OnePageStep ==
    ASSUME TypeOK, PInv, NEW t \in Tabs, NEW q, IsPage(q),
           pages' = [pages EXCEPT ![t] = q],
           inbox' \in Boxes, \A u \in Tabs : u # t => inbox'[u] = inbox[u],
           Unheard(q, inbox'[t]), Ending(pages[t], inbox[t]) => Ending(q, inbox'[t]),
           \A u \in Tabs : u # t => phase'[u] = phase[u],
           phase'[t] # "open" => \A f \in Frames : ~ q.started[f],
           UNCHANGED <<session, native, loose>>
    PROVE  PagesOK' /\ PInv'
<1>1. DOMAIN pages = Tabs
  BY DEF TypeOK, PagesOK
<1>2. DOMAIN pages' = Tabs /\ pages'[t] = q /\ \A u \in Tabs : u # t => pages'[u] = pages[u]
  BY <1>1
<1>3. PagesOK'
  <2>1. ASSUME NEW u \in Tabs PROVE IsPage(pages'[u])
    BY <1>2, PageTypes
  <2>2. QED
    BY <1>2, <2>1 DEF PagesOK
<1>4. PagesUnheard'
  BY <1>2 DEF PInv, PagesUnheard
<1>5. PagesEnd'
  BY <1>2 DEF PInv, PagesEnd
<1>6. QED
  BY <1>3, <1>4, <1>5 DEF PInv

LEMMA Clears ==
    ASSUME TypeOK,
           inbox' = IF session = NoSession THEN inbox ELSE Sent(inbox, session.target, SendPickerMode(FALSE))
    PROVE  /\ Grown(inbox, inbox')
           /\ session.target \in Tabs =>
                  \A f \in Frames : pages[session.target].started[f] => Ends(inbox'[session.target][f])
<1>1. inbox \in Boxes
  BY DEF TypeOK
<1> DEFINE m == SendPickerMode(FALSE)
           C == Sent(inbox, session.target, m)
<1>2. m \in ToTab /\ ~ On(m) /\ Off(m)
  BY Messages
<1> HIDE DEF m
<1>3. /\ Grown(inbox, C)
      /\ session.target \in Tabs => \A f \in Frames : pages[session.target].started[f] => Ends(C[session.target][f])
  BY <1>1, <1>2, SentGrown
<1>4. inbox' = IF session = NoSession THEN inbox ELSE C
  BY DEF m
<1> HIDE DEF C
<1>5. session.target \in Tabs => session # NoSession
  BY TabsAssumption DEF NoSession
<1>6. Grown(inbox, inbox)
  BY <1>1, GrownSelf
<1>7. QED
  BY <1>3, <1>4, <1>5, <1>6

LEMMA AnsweredGrown ==
    ASSUME NEW B \in Boxes, NEW t \in Tabs, NEW f \in Frames, NEW m, NEW ok \in BOOLEAN
    PROVE  Grown(B, Answered(B, t, f, m, ok))
<1> DEFINE answer == [type |-> "answer", ok |-> ok]
           C == SentTo(B, t, f, answer)
<1>1. answer \in ToTab /\ ~ On(answer)
  BY Messages
<1>2. Answered(B, t, f, m, ok) = IF m.waits THEN C ELSE B
  BY DEF Answered
<1> HIDE DEF answer
<1>3. Grown(B, C)
  BY <1>1, SentToGrown
<1> HIDE DEF C
<1>4. QED
  BY <1>2, <1>3, GrownSelf

\* Nothing is sent to the tabs.
LEMMA NothingSent ==
    ASSUME TypeOK, PInv, UNCHANGED <<pages, inbox>>,
           loose \subseteq loose', native' \subseteq loose',
           \A t \in Tabs : phase'[t] # "open" => phase[t] # "open",
           \/ session'.target = session.target
           \/ session.target \in loose'
           \/ session.target \in Tabs => phase[session.target] # "open"
    PROVE  PagesOK' /\ inbox' \in Boxes /\ PInv'
<1>1. PagesOK' /\ inbox' \in Boxes
  BY DEF TypeOK, PagesOK
<1>2. Grown(inbox, inbox')
  BY GrownSelf DEF TypeOK
<1>3. session.target \in Tabs /\ phase[session.target] # "open" =>
          \A f \in Frames : ~ pages[session.target].started[f]
  BY DEF PInv, PagesUnheard
<1>4. QED
  BY <1>1, <1>2, <1>3, GrownStep

\* The session is cleared.
LEMMA SessionCleared ==
    ASSUME TypeOK, PInv, UNCHANGED pages, UNCHANGED <<loose, native>>,
           inbox' = IF session = NoSession THEN inbox ELSE Sent(inbox, session.target, SendPickerMode(FALSE)),
           \A t \in Tabs : phase'[t] # "open" => phase[t] # "open"
    PROVE  PagesOK' /\ inbox' \in Boxes /\ PInv'
<1>1. PagesOK'
  BY DEF TypeOK, PagesOK
<1>2. /\ Grown(inbox, inbox')
      /\ session.target \in Tabs =>
             \A f \in Frames : pages[session.target].started[f] => Ends(inbox'[session.target][f])
  BY Clears
<1>3. native' \subseteq loose'
  BY DEF PInv
<1>4. QED
  BY <1>1, <1>2, <1>3, GrownStep DEF Grown

\* A tab is put in pick mode, or told to leave it.
LEMMA Arms ==
    ASSUME TypeOK, PInv, UNCHANGED <<pages, phase, session>>, NEW t \in Tabs, NEW m \in ToTab,
           inbox' = Sent(inbox, t, m),
           loose \subseteq loose', native' \subseteq loose',
           ~ On(m) \/ session.target = t \/ t \in loose'
    PROVE  PagesOK' /\ inbox' \in Boxes /\ PInv'
<1>1. PagesOK' /\ inbox \in Boxes
  BY DEF TypeOK, PagesOK
<1>2. /\ inbox' \in Boxes
      /\ \A u \in Tabs : u # t => inbox'[u] = inbox[u]
      /\ \A u \in Tabs, f \in Frames : ~ pages[u].started[f] => inbox'[u][f] = inbox[u][f]
  BY <1>1, SentTyped
<1>3. CASE ~ On(m)
  <2>1. Grown(inbox, inbox')
    BY <1>1, <1>3, SentGrown
  <2>2. QED
    BY <1>1, <1>2, <2>1, GrownStep
<1>4. CASE session.target = t \/ t \in loose'
  <2>1. \A u \in Tabs : u \notin loose' /\ session'.target # u => u # t /\ u \notin loose /\ session.target # u
    BY <1>4
  <2>2. QED
    BY <1>1, <1>2, <2>1, BoxesStep
<1>5. QED
  BY <1>3, <1>4
-----------------------------------------------------------------------------
LEMMA PageLoads ==
    ASSUME TypeOK, PInv, NEW t \in Tabs, NEW f \in Frames, LoadFrame(t, f)
    PROVE  PagesOK' /\ inbox' \in Boxes /\ PInv'
<1> DEFINE p == pages[t]
           r == [p EXCEPT !.started[f] = TRUE]
           q == StartScript(p, f)
<1>1. IsPage(p) /\ Unheard(p, inbox[t]) /\ inbox \in Boxes
  BY PageTypes DEF PInv, PagesUnheard, TypeOK
<1>2. /\ phase[t] = "open" /\ (f = "child" => p.framed)
      /\ pages' = [pages EXCEPT ![t] = q]
      /\ UNCHANGED <<phase, inbox, session, native, loose>>
  BY DEF LoadFrame, picking, history
<1> HIDE DEF p
<1>3. /\ IsPage(r) /\ r.on = p.on /\ r.down = p.down /\ r.framed = p.framed
      /\ r.started = [p.started EXCEPT ![f] = TRUE]
  BY <1>1 DEF IsPage
<1>4. q = SendOut(r, f, [type |-> "status"])
  BY DEF StartScript
<1> HIDE DEF r
<1>5. Calm(r, q) /\ q.on = r.on /\ q.down = r.down
  BY <1>3, <1>4, OutSet
<1> HIDE DEF q
<1>6. p.started \in [Frames -> BOOLEAN]
  BY <1>1, Parts
<1>7. Unheard(q, inbox[t])
  BY <1>1, <1>2, <1>3, <1>5, <1>6 DEF Unheard, Calm
<1>8. Ending(p, inbox[t]) => Ending(q, inbox[t])
  BY <1>3, <1>5 DEF Ending
<1>9. IsPage(q)
  BY <1>5 DEF Calm
<1>10. QED
  BY <1>1, <1>2, <1>7, <1>8, <1>9, OnePageStep DEF p

LEMMA OutReplaced ==
    ASSUME NEW p, IsPage(p), NEW out
    PROVE  LET q == [p EXCEPT !.out = out] IN
           IsPage(q) /\ q.framed = p.framed /\ q.down = p.down /\ q.started = p.started /\ q.on = p.on
BY DEF IsPage

LEMMA PageUnloads ==
    ASSUME TypeOK, PInv, NEW t \in Tabs, NEW f \in Frames, Navigate(t, f) \/ (f = "top" /\ CloseTab(t))
    PROVE  PagesOK' /\ inbox' \in Boxes /\ PInv'
<1> DEFINE p == pages[t]
           q == Unloaded(p, f)
           b == IF f = "top" THEN NoMessages ELSE [inbox[t] EXCEPT ![f] = <<>>]
<1>1. IsPage(p) /\ Unheard(p, inbox[t]) /\ inbox \in Boxes /\ inbox[t] \in [Frames -> Seq(ToTab)]
  BY PageTypes DEF PInv, PagesUnheard, TypeOK
<1>2. /\ pages' = [pages EXCEPT ![t] = q]
      /\ inbox' = [inbox EXCEPT ![t] = b]
      /\ \A u \in Tabs : u # t => phase'[u] = phase[u]
      /\ phase'[t] = phase[t] \/ f = "top"
      /\ UNCHANGED <<session, native, loose>>
  <2>1. CASE Navigate(t, f)
    BY <2>1 DEF Navigate, picking, history
  <2>2. CASE f = "top" /\ CloseTab(t)
    BY <2>2 DEF CloseTab, picking, history, TypeOK
  <2>3. QED
    BY <2>1, <2>2
<1> HIDE DEF p
<1>3. <<>> \in Seq(ToTab)
  OBVIOUS
<1>4. b \in [Frames -> Seq(ToTab)] /\ b[f] = <<>> /\ (f = "top" => b["child"] = <<>>)
      /\ (f = "child" => b["top"] = inbox[t]["top"])
  BY <1>1, <1>3 DEF NoMessages
<1> HIDE DEF b
<1>5. /\ inbox' \in Boxes /\ inbox'[t] = b
      /\ \A u \in Tabs : u # t => inbox'[u] = inbox[u]
  BY <1>1, <1>2, <1>4 DEF Boxes
<1>6. CASE f = "top"
  <2> DEFINE r == FreshPage(p.framed)
             out == [g \in Frames |-> Orphaned(p.out[g])]
  <2>1. q = [r EXCEPT !.out = out]
    BY <1>6 DEF Unloaded
  <2> HIDE DEF out
  <2>2. p.framed \in BOOLEAN
    BY <1>1, Parts
  <2>a. <<>> \in Seq(Stages) /\ <<>> \in Seq(Commands)
    OBVIOUS
  <2>b. /\ IsPage(r) /\ r.framed = p.framed /\ r.down = <<>>
        /\ \A g \in Frames : ~ r.started[g] /\ ~ r.on[g]
    BY <2>2, <2>a DEF FreshPage, IsPage
  <2> HIDE DEF r
  <2>3. /\ IsPage(q) /\ q.framed = p.framed /\ q.down = <<>>
        /\ \A g \in Frames : ~ q.started[g] /\ ~ q.on[g]
    BY <2>1, <2>b, OutReplaced
  <2> HIDE DEF q
  <2>4. \A g \in Frames : b[g] = <<>>
    BY <1>4, <1>6
  <2>5. Unheard(q, b) /\ Ending(q, b)
    BY <2>3, <2>4, BoxEmpty DEF Unheard, Ending
  <2>6. QED
    BY <1>2, <1>5, <2>3, <2>5, OnePageStep
<1>7. CASE f = "child"
  <2> DEFINE out == [p.out EXCEPT !["child"] = Orphaned(@)]
             stopped == [p EXCEPT !.started["child"] = FALSE, !.on["child"] = FALSE]
             calmed == [stopped EXCEPT !.state["child"] = "idle", !.hover["child"] = FALSE,
                                       !.locked["child"] = FALSE, !.rec["child"] = FALSE]
             r == [calmed EXCEPT !.down = <<>>]
  <2>1. q = [r EXCEPT !.out = out]
    BY <1>1, <1>7 DEF Unloaded, IsPage
  <2>a. /\ IsPage(stopped) /\ stopped.framed = p.framed
        /\ ~ stopped.started["child"] /\ ~ stopped.on["child"]
        /\ stopped.on["top"] = p.on["top"] /\ stopped.started["top"] = p.started["top"]
    BY <1>1 DEF IsPage
  <2> HIDE DEF stopped
  <2>b. IsPage(calmed) /\ calmed.framed = stopped.framed /\ calmed.started = stopped.started /\ calmed.on = stopped.on
    BY <2>a DEF IsPage
  <2> HIDE DEF calmed
  <2>c. <<>> \in Seq(Commands)
    OBVIOUS
  <2>2. IsPage(r) /\ r.framed = calmed.framed /\ r.down = <<>> /\ r.started = calmed.started /\ r.on = calmed.on
    BY <2>b, <2>c, DownSet
  <2> HIDE DEF out, r, q
  <2>d. IsPage(q) /\ q.framed = r.framed /\ q.down = r.down /\ q.started = r.started /\ q.on = r.on
    BY <2>1, <2>2, OutReplaced
  <2>3. /\ IsPage(q) /\ q.framed = p.framed /\ q.down = <<>>
        /\ ~ q.started["child"] /\ ~ q.on["child"]
        /\ q.on["top"] = p.on["top"] /\ q.started["top"] = p.started["top"]
    BY <2>a, <2>b, <2>2, <2>d
  <2>4. Unheard(q, b)
    BY <1>1, <1>4, <1>7, <2>3, BoxEmpty DEF Unheard
  <2>5. Ending(p, inbox[t]) => Ending(q, b)
    BY <1>4, <1>7, <2>3, BoxEmpty DEF Ending
  <2>6. phase'[t] # "open" => \A g \in Frames : ~ p.started[g]
    BY <1>2, <1>7 DEF PInv, PagesUnheard, p
  <2>7. phase'[t] # "open" => \A g \in Frames : ~ q.started[g]
    BY <2>3, <2>6
  <2>8. QED
    BY <1>2, <1>5, <2>3, <2>4, <2>5, <2>7, OnePageStep DEF p
<1>8. QED
  BY <1>6, <1>7

\* A page changes and its boxes do not.
LEMMA PageMoves ==
    ASSUME TypeOK, PInv, NEW t \in Tabs, NEW q, IsPage(q), q.started = pages[t].started,
           pages' = [pages EXCEPT ![t] = q],
           Unheard(q, inbox[t]), Ending(pages[t], inbox[t]) => Ending(q, inbox[t]),
           UNCHANGED <<phase, inbox, session, native, loose>>
    PROVE  PagesOK' /\ inbox' \in Boxes /\ PInv'
<1>1. inbox' \in Boxes
  BY DEF TypeOK
<1>2. phase'[t] # "open" => \A f \in Frames : ~ q.started[f]
  BY DEF PInv, PagesUnheard
<1>3. QED
  BY <1>1, <1>2, OnePageStep

LEMMA UserMoves ==
    ASSUME TypeOK, PInv, NEW t \in Tabs, NEW f \in Frames, UserActs(t, f)
    PROVE  PagesOK' /\ inbox' \in Boxes /\ PInv'
<1>1. IsPage(pages[t]) /\ Unheard(pages[t], inbox[t])
  BY PageTypes DEF PInv, PagesUnheard
<1>2. PICK q : Calm(pages[t], q) /\ pages' = [pages EXCEPT ![t] = q]
  BY <1>1, UserCalm
<1>3. UNCHANGED <<phase, inbox, session, native, loose>>
  BY DEF UserActs, picking, history
<1>4. Unheard(q, inbox[t]) /\ (Ending(pages[t], inbox[t]) => Ending(q, inbox[t]))
  BY <1>1, <1>2, CalmUnheard, CalmEnding
<1>5. QED
  BY <1>2, <1>3, <1>4, PageMoves DEF Calm

LEMMA FramesMove ==
    ASSUME TypeOK, PInv, NEW t \in Tabs, FramesTalk(t)
    PROVE  PagesOK' /\ inbox' \in Boxes /\ PInv'
<1> DEFINE p == pages[t]
           heard == OnFrameSync(p, Head(p.up))
           taken == OnFrameCommand(p, Head(p.down))
<1>1. IsPage(p) /\ Unheard(p, inbox[t])
  BY PageTypes DEF PInv, PagesUnheard
<1>2. UNCHANGED <<phase, inbox, session, native, loose>>
  BY DEF FramesTalk, picking, history
<1>3. \/ p.up # <<>> /\ pages' = [pages EXCEPT ![t] = heard]
      \/ p.down # <<>> /\ pages' = [pages EXCEPT ![t] = taken]
  BY DEF FramesTalk, PageBecomes
<1>4. CASE p.up # <<>> /\ pages' = [pages EXCEPT ![t] = heard]
  <2>1. Calm(p, heard)
    BY <1>1, <1>4, HeardCalm
  <2> HIDE DEF heard
  <2>2. Unheard(heard, inbox[t]) /\ (Ending(p, inbox[t]) => Ending(heard, inbox[t]))
    BY <1>1, <2>1, CalmUnheard, CalmEnding
  <2>3. QED
    BY <1>2, <1>4, <2>1, <2>2, PageMoves DEF Calm
<1>5. CASE p.down # <<>> /\ pages' = [pages EXCEPT ![t] = taken]
  <2>1. /\ IsPage(taken) /\ taken.started = p.started /\ Unheard(taken, inbox[t])
        /\ Ending(p, inbox[t]) => Ending(taken, inbox[t])
    BY <1>1, <1>5, CommandTaken
  <2> HIDE DEF taken
  <2>2. QED
    BY <1>2, <1>5, <2>1, PageMoves
<1>6. QED
  BY <1>3, <1>4, <1>5

LEMMA FrameReads ==
    ASSUME TypeOK, PInv, NEW t \in Tabs, NEW f \in Frames, FrameReceives(t, f)
    PROVE  PagesOK' /\ inbox' \in Boxes /\ PInv'
<1> DEFINE p == pages[t]
           b == inbox[t]
           m == Head(b[f])
           q == CASE m.type = "pick" -> OnPickMode(p, f, m.on)
                  [] m.type = "toggle" -> OnRecorderToggle(p, f, m.on)
                  [] m.type = "answer" -> OnPickAnswer(p, m.ok)
           c == [b EXCEPT ![f] = Tail(@)]
<1>1. /\ IsPage(p) /\ Unheard(p, b) /\ inbox \in Boxes
      /\ b \in [Frames -> Seq(ToTab)] /\ b[f] \in Seq(ToTab) /\ b[f] # <<>>
  BY PageTypes DEF PInv, PagesUnheard, TypeOK, FrameReceives
<1>2. m \in ToTab
  BY <1>1
<1>3. pages' = [pages EXCEPT ![t] = q]
  BY Zenon DEF FrameReceives
<1>4. inbox' = [inbox EXCEPT ![t] = c]
  BY DEF FrameReceives
<1>5. UNCHANGED <<phase, session, native, loose>>
  BY DEF FrameReceives, picking, history
<1> HIDE DEF p, b, m
<1>6. \/ On(m) /\ q = StartPickMode(p, f)
      \/ Off(m) /\ q = StopPickMode(p, f, "cancelled", TRUE)
      \/ ~ On(m) /\ ~ Off(m) /\ Calm(p, q)
  <2>1. CASE m.type = "pick"
    <3>1. q = OnPickMode(p, f, m.on)
      BY Zenon, <2>1
    <3> HIDE DEF q
    <3>2. QED
      BY <2>1, <3>1 DEF OnPickMode, On, Off
  <2>2. CASE m.type = "toggle"
    <3>1. q = OnRecorderToggle(p, f, m.on)
      BY Zenon, <2>2
    <3>2. m.on \in BOOLEAN
      BY <1>2, <2>2 DEF ToTab
    <3> HIDE DEF q
    <3>3. QED
      BY <1>1, <2>2, <3>1, <3>2, ToggleCalm DEF On, Off
  <2>3. CASE m.type = "answer"
    <3>1. q = OnPickAnswer(p, m.ok)
      BY Zenon, <2>3
    <3>2. m.ok \in BOOLEAN
      BY <1>2, <2>3 DEF ToTab
    <3> HIDE DEF q
    <3>3. QED
      BY <1>1, <2>3, <3>1, <3>2, AnswerCalm DEF On, Off
  <2>4. QED
    BY <1>2, <2>1, <2>2, <2>3 DEF ToTab
<1> HIDE DEF q
<1>7. /\ IsPage(q) /\ q.started = p.started
      /\ c \in [Frames -> Seq(ToTab)] /\ Unheard(q, c)
      /\ Ending(p, b) => Ending(q, c)
  BY <1>1, <1>6, BoxRead DEF m
<1> HIDE DEF c
<1>8. inbox' \in Boxes /\ inbox'[t] = c /\ \A u \in Tabs : u # t => inbox'[u] = inbox[u]
  BY <1>1, <1>4, <1>7 DEF Boxes
<1>9. phase'[t] # "open" => \A g \in Frames : ~ q.started[g]
  BY <1>5, <1>7 DEF PInv, PagesUnheard, p
<1>10. QED
  BY <1>3, <1>5, <1>7, <1>8, <1>9, OnePageStep DEF p, b

LEMMA MessageTaken ==
    ASSUME TypeOK, NEW t \in Tabs, NEW f \in Frames, pages' = [pages EXCEPT ![t].out[f] = Tail(@)]
    PROVE  /\ PagesOK'
           /\ \A u \in Tabs : /\ pages'[u].on = pages[u].on /\ pages'[u].down = pages[u].down
                              /\ pages'[u].started = pages[u].started /\ pages'[u].framed = pages[u].framed
<1> DEFINE p == pages[t]
           out == [p.out EXCEPT ![f] = Tail(@)]
           q == [p EXCEPT !.out = out]
<1>1. pages' = [pages EXCEPT ![t] = q]
  OBVIOUS
<1>2. IsPage(p) /\ DOMAIN pages = Tabs
  BY PageTypes DEF TypeOK, PagesOK
<1> HIDE DEF out
<1>3. IsPage(q) /\ q.framed = p.framed /\ q.down = p.down /\ q.started = p.started /\ q.on = p.on
  BY <1>2, OutReplaced
<1> HIDE DEF q
<1>4. DOMAIN pages' = Tabs /\ pages'[t] = q /\ \A u \in Tabs : u # t => pages'[u] = pages[u]
  BY <1>1, <1>2
<1>5. ASSUME NEW u \in Tabs PROVE IsPage(pages'[u])
  BY <1>3, <1>4, PageTypes
<1>6. PagesOK'
  BY <1>4, <1>5 DEF PagesOK
<1>7. QED
  BY <1>3, <1>4, <1>6

LEMMA WorkerHears ==
    ASSUME TypeOK, PInv, NEW t \in Tabs, NEW f \in Frames, WorkerReceives(t, f)
    PROVE  PagesOK' /\ inbox' \in Boxes /\ PInv'
<1> DEFINE m == Head(pages[t].out[f])
<1>1. /\ OnRecorderEvent(t, f, m) \/ OnPickerStatus(t, f, m) \/ OnPicked(t, f, m) \/ OnPickCanceled(t, f, m)
      /\ pages' = [pages EXCEPT ![t].out[f] = Tail(@)]
      /\ UNCHANGED <<phase, native>>
  BY DEF WorkerReceives
<1> HIDE DEF m
<1>2. loose' = loose /\ native' \subseteq loose'
  BY <1>1 DEF OnRecorderEvent, OnPickerStatus, OnPicked, OnPickCanceled, PInv
<1>3. /\ PagesOK'
      /\ \A u \in Tabs : /\ pages'[u].on = pages[u].on /\ pages'[u].down = pages[u].down
                         /\ pages'[u].started = pages[u].started /\ pages'[u].framed = pages[u].framed
  BY <1>1, MessageTaken
<1>4. inbox \in Boxes
  BY DEF TypeOK
<1>5. ASSUME Grown(inbox, inbox'),
             \/ session' = session
             \/ session.target \in Tabs =>
                    \A g \in Frames : pages[session.target].started[g] => Ends(inbox'[session.target][g])
      PROVE  inbox' \in Boxes /\ PInv'
  BY <1>1, <1>2, <1>3, <1>5, GrownStep DEF Grown
<1>6. CASE OnRecorderEvent(t, f, m)
  <2>1. inbox' = inbox /\ session' = session
    BY <1>6 DEF OnRecorderEvent
  <2>2. Grown(inbox, inbox')
    BY <1>4, <2>1, GrownSelf
  <2>3. QED
    BY <1>3, <1>5, <2>1, <2>2
<1>7. CASE OnPickerStatus(t, f, m)
  <2> DEFINE C == SentTo(inbox, t, f, SendPickerMode(TRUE))
             told == session.target = t \/ t \in native
  <2>1. inbox' = (IF told THEN C ELSE inbox) /\ session' = session
    BY <1>7 DEF OnPickerStatus
  <2>2. /\ C \in Boxes
        /\ \A u \in Tabs, g \in Frames : (u # t \/ g # f \/ ~ pages[t].started[f]) => C[u][g] = inbox[u][g]
    <3> DEFINE on == SendPickerMode(TRUE)
    <3>1. on \in ToTab
      BY Messages
    <3>2. C = SentTo(inbox, t, f, on)
      OBVIOUS
    <3> HIDE DEF on, C
    <3>3. SentTo(inbox, t, f, on) \in Boxes
      BY <1>4, <3>1, SentToTyped
    <3>4. \A u \in Tabs, g \in Frames :
              (u # t \/ g # f \/ ~ pages[t].started[f]) => SentTo(inbox, t, f, on)[u][g] = inbox[u][g]
      BY <1>4, <3>1, SentToTyped
    <3>5. QED
      BY <3>2, <3>3, <3>4
  <2> HIDE DEF C
  <2>3. CASE ~ told
    <3>1. Grown(inbox, inbox')
      BY <1>4, <2>1, <2>3, GrownSelf
    <3>2. QED
      BY <1>3, <1>5, <2>1, <3>1
  <2>4. CASE told
    <3>1. t \in loose \/ session.target = t
      BY <2>4 DEF PInv
    <3> HIDE DEF told
    <3>2. \A u \in Tabs, g \in Frames : ~ pages[u].started[g] => inbox'[u][g] = inbox[u][g]
      BY <2>1, <2>2, <2>4
    <3>3. \A u \in Tabs : u \notin loose' /\ session'.target # u =>
              /\ u \notin loose /\ session.target # u
              /\ \A g \in Frames : inbox'[u][g] = inbox[u][g]
      BY <1>2, <2>1, <2>2, <2>4, <3>1
    <3>4. inbox' \in Boxes
      BY <2>1, <2>2, <2>4
    <3>5. \A u \in Tabs : u \notin loose' /\ session'.target # u =>
              /\ u \notin loose /\ session.target # u
              /\ \A g \in Frames : /\ Quiet(inbox[u][g]) => Quiet(inbox'[u][g])
                                   /\ Ends(inbox[u][g]) => Ends(inbox'[u][g])
      BY <3>3
    <3>6. \A u \in Tabs : phase'[u] # "open" => phase[u] # "open"
      BY <1>1
    <3>7. PInv'
      BY <1>2, <1>3, <3>2, <3>4, <3>5, <3>6, BoxesStep
    <3>8. QED
      BY <1>3, <3>4, <3>7
  <2>5. QED
    BY <2>3, <2>4
<1>8. CASE OnPicked(t, f, m)
  <2>1. CASE /\ session.target = t /\ session' = NoSession
             /\ inbox' = Answered(Sent(inbox, t, SendPickerMode(FALSE)), t, f, m, TRUE)
    <3> DEFINE off == SendPickerMode(FALSE)
               C == Sent(inbox, t, off)
               D == Answered(C, t, f, m, TRUE)
    <3>1. inbox' = D
      BY <2>1
    <3>2. off \in ToTab /\ ~ On(off) /\ Off(off)
      BY Messages
    <3> HIDE DEF off
    <3>3. Grown(inbox, C) /\ \A g \in Frames : pages[t].started[g] => Ends(C[t][g])
      BY <1>4, <3>2, SentGrown
    <3> HIDE DEF C
    <3>4. C \in Boxes
      BY <3>3 DEF Grown
    <3>5. Grown(C, D)
      BY <3>4, AnsweredGrown
    <3> HIDE DEF D
    <3>6. Grown(inbox, inbox')
      BY <3>1, <3>3, <3>5, GrownTrans
    <3>7. \A g \in Frames : pages[t].started[g] => Ends(inbox'[t][g])
      BY <3>1, <3>3, <3>5 DEF Grown
    <3>8. QED
      BY <1>3, <1>5, <2>1, <3>6, <3>7
  <2>2. ASSUME NEW ok \in BOOLEAN, inbox' = Answered(inbox, t, f, m, ok), session' = session
        PROVE  PagesOK' /\ inbox' \in Boxes /\ PInv'
    <3>1. Grown(inbox, inbox')
      BY <1>4, <2>2, AnsweredGrown
    <3>2. QED
      BY <1>3, <1>5, <2>2, <3>1
  <2>3. QED
    BY <1>8, <2>1, <2>2 DEF OnPicked
<1>9. CASE OnPickCanceled(t, f, m)
  <2>1. CASE session.target = t /\ ClearPickerSession(inbox)
    <3>1. /\ Grown(inbox, inbox')
          /\ session.target \in Tabs =>
                 \A g \in Frames : pages[session.target].started[g] => Ends(inbox'[session.target][g])
      BY <2>1, Clears DEF ClearPickerSession
    <3>2. QED
      BY <1>3, <1>5, <3>1
  <2>2. CASE UNCHANGED <<session, inbox, mail>>
    <3>1. Grown(inbox, inbox')
      BY <1>4, <2>2, GrownSelf
    <3>2. QED
      BY <1>3, <1>5, <2>2, <3>1
  <2>3. QED
    BY <1>9, <2>1, <2>2 DEF OnPickCanceled
<1>10. QED
  BY <1>1, <1>6, <1>7, <1>8, <1>9

\* Every step keeps the pages' part of the invariant.
LEMMA PagesKept ==
    ASSUME TypeOK, PInv, [Next]_vars
    PROVE  PagesOK' /\ inbox' \in Boxes /\ PInv'
<1> DEFINE Goal == PagesOK' /\ inbox' \in Boxes /\ PInv'
<1>0. native \subseteq loose
  BY DEF PInv
<1>1. CASE UNCHANGED vars
  BY <1>0, <1>1, NothingSent DEF vars, picking, history
<1>2. ASSUME NEW t \in Tabs, OpenTab(t) PROVE Goal
  <2>1. \A u \in Tabs : phase'[u] # "open" => phase[u] # "open"
    BY <1>2 DEF OpenTab, TypeOK
  <2>2. UNCHANGED <<pages, inbox, loose, native, session>>
    BY <1>2 DEF OpenTab, picking, history
  <2>3. QED
    BY <1>0, <2>1, <2>2, NothingSent
<1>3. ASSUME NEW t \in Tabs, PickerStart(t) PROVE Goal
  <2>1. \A u \in Tabs : phase'[u] # "open" => phase[u] # "open"
    BY <1>3 DEF PickerStart, TypeOK
  <2>2. /\ UNCHANGED pages /\ UNCHANGED <<loose, native>>
        /\ inbox' = IF session = NoSession THEN inbox ELSE Sent(inbox, session.target, SendPickerMode(FALSE))
    BY <1>3 DEF PickerStart, ClearPickerSession
  <2>3. QED
    BY <2>1, <2>2, SessionCleared
<1>4. ASSUME (\E t \in Tabs : ArmGivesUp(t)) \/ PickerStartFails \/ DesignerRemoved PROVE Goal
  <2>1. /\ UNCHANGED phase /\ UNCHANGED pages /\ UNCHANGED <<loose, native>>
        /\ inbox' = IF session = NoSession THEN inbox ELSE Sent(inbox, session.target, SendPickerMode(FALSE))
    BY <1>4 DEF ArmGivesUp, PickerStartFails, DesignerRemoved, ClearPickerSession, history
  <2>2. QED
    BY <2>1, SessionCleared
<1>5. ASSUME NEW t \in Tabs, RecorderStart(t) \/ RecorderStop(t) PROVE Goal
  <2>1. PICK on \in BOOLEAN : inbox' = Sent(inbox, t, SendToggle(on))
    BY <1>5 DEF RecorderStart, RecorderStop
  <2>2. SendToggle(on) \in ToTab /\ ~ On(SendToggle(on))
    BY Messages
  <2>3. UNCHANGED <<pages, phase, session, loose, native>>
    BY <1>5 DEF RecorderStart, RecorderStop, picking, history
  <2>4. QED
    BY <1>0, <2>1, <2>2, <2>3, Arms
<1>6. ASSUME NEW t \in Tabs, ArmPicker(t) \/ \E on \in BOOLEAN : NativeArms(t, on) PROVE Goal
  <2>1. PICK on \in BOOLEAN : /\ inbox' = Sent(inbox, t, SendPickerMode(on))
                              /\ on => session.target = t \/ t \in loose'
                              /\ loose \subseteq loose' /\ native' \subseteq loose'
    BY <1>0, <1>6 DEF ArmPicker, NativeArms
  <2>2. SendPickerMode(on) \in ToTab /\ (On(SendPickerMode(on)) => on)
    BY Messages DEF On, SendPickerMode
  <2>3. UNCHANGED <<pages, phase, session>>
    BY <1>6 DEF ArmPicker, NativeArms
  <2>4. QED
    BY <2>1, <2>2, <2>3, Arms
<1>7. ASSUME NEW t \in Tabs, TabRemoved(t) PROVE Goal
  <2>1. /\ phase[t] = "closed" /\ UNCHANGED <<pages, inbox, loose>> /\ native' \subseteq native
        /\ session' = IF session.target = t THEN NoSession ELSE session
        /\ \A u \in Tabs : phase'[u] # "open" => phase[u] # "open"
    BY <1>7 DEF TabRemoved, TypeOK, history
  <2>2. session' = session \/ (session.target = t /\ phase[session.target] # "open")
    BY <2>1
  <2>3. QED
    BY <1>0, <2>1, <2>2, NothingSent
<1>8. ASSUME NEW s \in starting, PickerStarted(s) PROVE Goal
  <2>1. UNCHANGED <<phase, pages, inbox, native>> /\ loose' = loose \union ({session.target} \ {NoTab})
    BY <1>8 DEF PickerStarted
  <2>2. session.target \in loose' \/ session.target \notin Tabs
    BY <2>1, TabsAssumption
  <2>3. QED
    BY <1>0, <2>1, <2>2, NothingSent
<1>9. ASSUME WorkerRestarts PROVE Goal
  <2>1. UNCHANGED <<phase, pages, inbox>> /\ native' = {} /\ loose' = loose \union ({session.target} \ {NoTab})
    BY <1>9 DEF WorkerRestarts
  <2>2. session.target \in loose' \/ session.target \notin Tabs
    BY <2>1, TabsAssumption
  <2>3. QED
    BY <1>0, <2>1, <2>2, NothingSent
<1>10. ASSUME \/ \E node \in Nodes : StartElementPicker(node) \/ RemoveNode(node)
              \/ \E t \in Tabs : RecorderClear(t)
              \/ DesignerReceives \/ CloseDesigner \/ Offer
       PROVE  Goal
  <2>1. UNCHANGED <<phase, pages, inbox, session, native, loose>>
    BY <1>10 DEF StartElementPicker, RemoveNode, RecorderClear, DesignerReceives, CloseDesigner, Offer,
                 picking, history
  <2>2. QED
    BY <1>0, <2>1, NothingSent
<1>11. ASSUME NEW t \in Tabs, NEW f \in Frames,
              \/ LoadFrame(t, f) \/ Navigate(t, f) \/ CloseTab(t) \/ FramesTalk(t)
              \/ WorkerReceives(t, f) \/ FrameReceives(t, f) \/ UserActs(t, f)
       PROVE  Goal
  <2>1. CloseTab(t) => Goal
    <3>1. "top" \in Frames
      OBVIOUS
    <3>2. QED
      BY <3>1, PageUnloads
  <2>2. QED
    BY <1>11, <2>1, PageLoads, PageUnloads, FramesMove, WorkerHears, FrameReads, UserMoves
<1>12. "top" \in Frames
  OBVIOUS
<1>13. QED
  BY <1>1, <1>2, <1>3, <1>4, <1>5, <1>6, <1>7, <1>8, <1>9, <1>10, <1>11, <1>12 DEF Next
-----------------------------------------------------------------------------
(* Types *)

LEMMA MailTyped ==
    ASSUME NEW q \in Seq(ToDesigner), NEW m \in ToDesigner
    PROVE  Mailed(q, m) \in Seq(ToDesigner)
BY DEF Mailed

LEMMA ErrorTyped == PickerError \in ToDesigner
BY DEF ToDesigner

\* What the worker and the designer keep of a pick.
PicksOK ==
    /\ nodes \subseteq Nodes /\ target \in Nodes \union {NoNode}
    /\ requests \in Seq(Nodes) /\ mail \in Seq(ToDesigner)
    /\ session \in Target \union {NoSession}
    /\ starting \in SUBSET Target
    /\ arming \in SUBSET Tabs
    /\ openedFor \in [Tabs -> Nodes \union {NoNode}]
    /\ later \in [Tabs -> SUBSET Nodes]
    /\ written \in Seq(Written)

KeptOK ==
    /\ phase \in [Tabs -> {"unborn", "open", "closed", "gone"}]
    /\ recording \in [Tabs -> {"absent", "on", "off"}]
    /\ DOMAIN events = Tabs

LEMMA TypeParts == TypeOK <=> PicksOK /\ KeptOK /\ PagesOK /\ inbox \in Boxes
BY DEF TypeOK, PicksOK, KeptOK

LEMMA KeptTyped ==
    ASSUME KeptOK, [Next]_vars
    PROVE  KeptOK'
<1>1. CASE UNCHANGED vars
  BY <1>1 DEF vars, recorded, KeptOK
<1>2. CASE UNCHANGED <<phase, recording, events>>
  BY <1>2 DEF KeptOK
<1>3. ASSUME NEW t \in Tabs,
             OpenTab(t) \/ CloseTab(t) \/ PickerStart(t) \/ TabRemoved(t)
             \/ RecorderStart(t) \/ RecorderStop(t) \/ RecorderClear(t)
      PROVE  KeptOK'
  BY <1>3 DEF OpenTab, CloseTab, PickerStart, TabRemoved, RecorderStart, RecorderStop, RecorderClear,
              recorded, KeptOK
<1>4. ASSUME NEW t \in Tabs,
             ArmPicker(t) \/ ArmGivesUp(t) \/ FramesTalk(t) \/ \E on \in BOOLEAN : NativeArms(t, on)
      PROVE  KeptOK'
  BY <1>2, <1>4 DEF ArmPicker, ArmGivesUp, FramesTalk, NativeArms, recorded
<1>5. ASSUME NEW t \in Tabs, NEW f \in Frames,
             LoadFrame(t, f) \/ Navigate(t, f) \/ FrameReceives(t, f) \/ UserActs(t, f)
      PROVE  KeptOK'
  BY <1>2, <1>5 DEF LoadFrame, Navigate, FrameReceives, UserActs, recorded
<1>6. ASSUME NEW t \in Tabs, NEW f \in Frames, WorkerReceives(t, f) PROVE KeptOK'
  BY <1>6 DEF WorkerReceives, OnRecorderEvent, OnPickerStatus, OnPicked, OnPickCanceled,
              recorded, EnsureRecording, KeptOK
<1>7. CASE (\E node \in Nodes : StartElementPicker(node) \/ RemoveNode(node))
           \/ DesignerReceives \/ PickerStartFails \/ CloseDesigner \/ DesignerRemoved
           \/ \E s \in starting : PickerStarted(s)
  BY <1>2, <1>7 DEF StartElementPicker, RemoveNode, DesignerReceives, PickerStartFails, CloseDesigner,
                    DesignerRemoved, PickerStarted, recorded
<1>8. CASE WorkerRestarts
  BY <1>8 DEF WorkerRestarts, KeptOK
<1>9. CASE Offer
  BY <1>9 DEF Offer, LatestTabs, EnsureRecording, KeptOK
<1>10. QED
  BY <1>1, <1>3, <1>4, <1>5, <1>6, <1>7, <1>8, <1>9 DEF Next

\* The session ends with an error for the designer.
LEMMA ClearTyped ==
    ASSUME PicksOK, mail' = IF session = NoSession THEN mail ELSE Mailed(mail, PickerError)
    PROVE  mail' \in Seq(ToDesigner)
BY MailTyped, ErrorTyped DEF PicksOK

LEMMA PicksTyped ==
    ASSUME PicksOK, [Next]_vars
    PROVE  PicksOK'
<1> USE DEF PicksOK
<1>1. CASE UNCHANGED vars
  BY <1>1 DEF vars, designing, picking, history
<1>2. CASE UNCHANGED <<nodes, target, requests, mail, session, starting, arming, openedFor, later, written>>
  BY <1>2
<1>3. ASSUME NEW t \in Tabs,
             OpenTab(t) \/ CloseTab(t) \/ FramesTalk(t)
             \/ RecorderStart(t) \/ RecorderStop(t) \/ RecorderClear(t) \/ \E on \in BOOLEAN : NativeArms(t, on)
      PROVE  PicksOK'
  <2>1. UNCHANGED <<nodes, target, requests, mail, session, starting, arming, openedFor, later, written>>
    BY <1>3 DEF OpenTab, CloseTab, FramesTalk, RecorderStart, RecorderStop, RecorderClear, NativeArms,
                designing, picking, history
  <2>2. QED
    BY <1>2, <2>1
<1>4. ASSUME NEW t \in Tabs, NEW f \in Frames,
             LoadFrame(t, f) \/ Navigate(t, f) \/ FrameReceives(t, f) \/ UserActs(t, f)
      PROVE  PicksOK'
  <2>1. UNCHANGED <<nodes, target, requests, mail, session, starting, arming, openedFor, later, written>>
    BY <1>4 DEF LoadFrame, Navigate, FrameReceives, UserActs, designing, picking, history
  <2>2. QED
    BY <1>2, <2>1
<1>5. ASSUME NEW t \in Tabs, PickerStart(t) PROVE PicksOK'
  <2>1. mail' \in Seq(ToDesigner)
    BY <1>5, ClearTyped DEF PickerStart, ClearPickerSession
  <2>2. Tail(requests) \in Seq(Nodes) /\ Head(requests) \in Nodes
    BY <1>5 DEF PickerStart
  <2>3. ToSet(Tail(requests)) \subseteq Nodes
    <3> DEFINE rest == Tail(requests)
    <3>1. rest \in Seq(Nodes)
      BY <2>2
    <3> HIDE DEF rest
    <3>2. QED
      BY <3>1 DEF ToSet
  <2>4. [target |-> t, node |-> Head(requests)] \in Target
    BY <2>2 DEF Target
  <2>5. /\ requests' = Tail(requests) /\ session' = NoSession
        /\ starting' = starting \union {[target |-> t, node |-> Head(requests)]}
        /\ openedFor' = [openedFor EXCEPT ![t] = Head(requests)]
        /\ later' = [later EXCEPT ![t] = ToSet(Tail(requests))]
        /\ UNCHANGED <<nodes, target, arming, written>>
    BY <1>5 DEF PickerStart, ClearPickerSession
  <2>6. openedFor' \in [Tabs -> Nodes \union {NoNode}] /\ later' \in [Tabs -> SUBSET Nodes]
    BY <2>2, <2>3, <2>5
  <2>7. QED
    BY <2>1, <2>2, <2>4, <2>5, <2>6
<1>6. CASE PickerStartFails
  <2> DEFINE cleared == IF session = NoSession THEN mail ELSE Mailed(mail, PickerError)
  <2>1. cleared \in Seq(ToDesigner)
    BY MailTyped, ErrorTyped
  <2>2. mail' = Mailed(cleared, PickerError)
    BY <1>6 DEF PickerStartFails
  <2> HIDE DEF cleared
  <2>3. mail' \in Seq(ToDesigner)
    BY <2>1, <2>2, MailTyped, ErrorTyped
  <2>4. /\ requests # <<>> /\ requests' = Tail(requests) /\ session' = NoSession
        /\ UNCHANGED <<nodes, target, starting, arming, openedFor, later, written>>
    BY <1>6 DEF PickerStartFails, history
  <2>5. QED
    BY <2>3, <2>4
<1>7. ASSUME NEW t \in Tabs, ArmPicker(t) \/ ArmGivesUp(t) \/ TabRemoved(t) PROVE PicksOK'
  <2>1. mail' \in Seq(ToDesigner)
    <3>1. Mailed(mail, PickerError) \in Seq(ToDesigner)
      BY MailTyped, ErrorTyped
    <3>2. mail' \in {mail, Mailed(mail, PickerError)}
      BY <1>7 DEF ArmPicker, ArmGivesUp, TabRemoved, ClearPickerSession, designing
    <3>3. QED
      BY <3>1, <3>2
  <2>2. /\ session' \in {session, NoSession} /\ arming' \in {arming, arming \ {t}}
        /\ UNCHANGED <<nodes, target, requests, starting, openedFor, later, written>>
    BY <1>7 DEF ArmPicker, ArmGivesUp, TabRemoved, ClearPickerSession, designing, picking, history
  <2>3. QED
    BY <2>1, <2>2
<1>8. ASSUME NEW s \in starting, PickerStarted(s) PROVE PicksOK'
  <2>1. s \in Target /\ s.target \in Tabs
    BY DEF Target
  <2>2. /\ session' = s /\ starting' = starting \ {s} /\ arming' = arming \union {s.target}
        /\ UNCHANGED <<nodes, target, requests, mail, openedFor, later, written>>
    BY <1>8 DEF PickerStarted, designing
  <2>3. QED
    BY <2>1, <2>2
<1>9. CASE CloseDesigner \/ DesignerRemoved \/ WorkerRestarts \/ Offer
  <2>1. mail' \in Seq(ToDesigner)
    <3>1. Mailed(mail, PickerError) \in Seq(ToDesigner) /\ <<>> \in Seq(ToDesigner)
      BY MailTyped, ErrorTyped
    <3>2. mail' \in {mail, <<>>, Mailed(mail, PickerError)}
      BY <1>9 DEF CloseDesigner, DesignerRemoved, WorkerRestarts, Offer, ClearPickerSession, designing
    <3>3. QED
      BY <3>1, <3>2
  <2>2. /\ session' \in {session, NoSession} /\ starting' \in {{}, starting} /\ arming' \in {{}, arming}
        /\ UNCHANGED <<nodes, target, requests, openedFor, later, written>>
    BY <1>9 DEF CloseDesigner, DesignerRemoved, WorkerRestarts, Offer, ClearPickerSession, designing,
                picking, history
  <2>3. QED
    BY <2>1, <2>2
<1>10. ASSUME NEW node \in Nodes, StartElementPicker(node) \/ RemoveNode(node) PROVE PicksOK'
  <2>1. CASE StartElementPicker(node)
    <3>1. Append(requests, node) \in Seq(Nodes)
      OBVIOUS
    <3>2. later' \in [Tabs -> SUBSET Nodes]
      BY <2>1 DEF StartElementPicker
    <3>3. /\ target' = node /\ requests' = Append(requests, node)
          /\ UNCHANGED <<nodes, mail, session, starting, arming, openedFor, written>>
      BY <2>1 DEF StartElementPicker, picking
    <3>4. QED
      BY <3>1, <3>2, <3>3
  <2>2. CASE RemoveNode(node)
    BY <2>2 DEF RemoveNode, picking, history
  <2>3. QED
    BY <1>10, <2>1, <2>2
<1>11. CASE DesignerReceives
  <2> DEFINE m == Head(mail)
  <2>1. mail' = Tail(mail) /\ mail' \in Seq(ToDesigner) /\ m \in ToDesigner
    BY <1>11 DEF DesignerReceives
  <2>2. /\ OnPickResult(m) \/ OnPickerError(m)
        /\ UNCHANGED <<nodes, requests, session, starting, arming, openedFor, later>>
    BY <1>11 DEF DesignerReceives, picking
  <2> HIDE DEF m
  <2>3. target' \in Nodes \union {NoNode}
    BY <2>2 DEF OnPickResult, OnPickerError
  <2>4. m.type = "result" => m.tab \in Tabs
    BY <2>1 DEF ToDesigner, PickerError
  <2>5. written' = written \/ \E node \in nodes : m.type = "result" /\ written' = Append(written, [tab |-> m.tab, node |-> node])
    BY <2>2 DEF OnPickResult, OnPickerError
  <2>6. written' \in Seq(Written)
    <3>1. ASSUME NEW node \in nodes, m.type = "result", written' = Append(written, [tab |-> m.tab, node |-> node])
          PROVE  written' \in Seq(Written)
      <4> DEFINE w == [tab |-> m.tab, node |-> node]
      <4>1. w \in Written
        BY <2>4, <3>1 DEF Written
      <4>2. written' = Append(written, w) /\ written \in Seq(Written)
        BY <3>1
      <4> HIDE DEF w
      <4>3. QED
        BY <4>1, <4>2
    <3>2. QED
      BY <2>5, <3>1
  <2>7. QED
    BY <2>1, <2>2, <2>3, <2>6
<1>12. ASSUME NEW t \in Tabs, NEW f \in Frames, WorkerReceives(t, f) PROVE PicksOK'
  <2> DEFINE m == Head(pages[t].out[f])
             result == [type |-> "result", tab |-> t, node |-> session.node]
  <2>1. /\ OnRecorderEvent(t, f, m) \/ OnPickerStatus(t, f, m) \/ OnPicked(t, f, m) \/ OnPickCanceled(t, f, m)
        /\ UNCHANGED <<nodes, target, requests, starting, arming, openedFor, later, written>>
    BY <1>12 DEF WorkerReceives
  <2> HIDE DEF m
  <2>2. session.target = t => result \in ToDesigner
    BY TabsAssumption DEF Target, NoSession, ToDesigner
  <2>3. /\ session' \in {session, NoSession}
        /\ \/ mail' \in {mail, Mailed(mail, PickerError)}
           \/ session.target = t /\ mail' = Mailed(mail, result)
    BY <2>1 DEF OnRecorderEvent, OnPickerStatus, OnPicked, OnPickCanceled, ClearPickerSession,
                PushPickerResultToRequester
  <2> HIDE DEF result
  <2>4. mail' \in Seq(ToDesigner)
    BY <2>2, <2>3, MailTyped, ErrorTyped
  <2>5. QED
    BY <2>1, <2>3, <2>4
<1>13. QED
  BY <1>1, <1>3, <1>4, <1>5, <1>6, <1>7, <1>8, <1>9, <1>10, <1>11, <1>12 DEF Next

LEMMA TypesKept ==
    ASSUME TypeOK, PInv, [Next]_vars
    PROVE  TypeOK' /\ PInv'
<1>1. PagesOK' /\ inbox' \in Boxes /\ PInv'
  BY PagesKept
<1>2. PicksOK' /\ KeptOK'
  BY TypeParts, PicksTyped, KeptTyped
<1>3. QED
  BY <1>1, <1>2 DEF TypeOK, PicksOK, KeptOK
-----------------------------------------------------------------------------
(* The way of a pick's tab *)

LEMMA WrittenTyped ==
    ASSUME TypeOK
    PROVE  \A i \in DOMAIN written : written[i].tab \in Tabs /\ written[i].node \in Nodes
<1>1. written \in Seq(Written)
  BY DEF TypeOK
<1>2. \A e \in Written : e.tab \in Tabs /\ e.node \in Nodes
  BY DEF Written
<1>3. \A i \in DOMAIN written : written[i] \in Written
  BY <1>1
<1>4. QED
  BY <1>2, <1>3

LEMMA ResultTyped ==
    ASSUME TypeOK
    PROVE  \A i \in DOMAIN mail : mail[i].type = "result" => mail[i].tab \in Tabs /\ mail[i].node \in Nodes
<1>1. mail \in Seq(ToDesigner)
  BY DEF TypeOK
<1>2. \A e \in ToDesigner : e.type = "result" => e.tab \in Tabs /\ e.node \in Nodes
  BY DEF ToDesigner, PickerError
<1>3. \A i \in DOMAIN mail : mail[i] \in ToDesigner
  BY <1>1
<1>4. QED
  BY <1>2, <1>3

\* The mail q holds the results of the mail, at the same places, and no others.
NoNewResult(q) == \A i \in DOMAIN q : q[i].type = "result" => i \in DOMAIN mail /\ q[i] = mail[i]

LEMMA ErrorAdded ==
    ASSUME NEW q \in Seq(ToDesigner), NoNewResult(q)
    PROVE  NoNewResult(Mailed(q, PickerError))
<1> DEFINE c == Append(q, PickerError)
<1>1. PickerError.type = "error"
  BY DEF PickerError
<1>2. \A i \in DOMAIN c : (i \in DOMAIN q /\ c[i] = q[i]) \/ c[i] = PickerError
  <2>1. PickerError \in ToDesigner
    BY ErrorTyped
  <2>2. QED
    BY <2>1
<1>3. Mailed(q, PickerError) \in {q, c}
  BY DEF Mailed
<1> HIDE DEF c
<1>4. NoNewResult(c)
  BY <1>1, <1>2 DEF NoNewResult
<1>5. QED
  BY <1>3, <1>4

LEMMA MailKept ==
    ASSUME TypeOK
    PROVE  /\ NoNewResult(mail) /\ NoNewResult(<<>>)
           /\ NoNewResult(Mailed(mail, PickerError))
           /\ NoNewResult(Mailed(Mailed(mail, PickerError), PickerError))
<1>1. mail \in Seq(ToDesigner) /\ NoNewResult(mail) /\ NoNewResult(<<>>)
  BY DEF TypeOK, NoNewResult
<1> DEFINE q == Mailed(mail, PickerError)
<1>2. NoNewResult(q)
  BY <1>1, ErrorAdded
<1>3. q \in Seq(ToDesigner)
  BY <1>1, MailTyped, ErrorTyped
<1> HIDE DEF q
<1>4. NoNewResult(Mailed(q, PickerError))
  BY <1>2, <1>3, ErrorAdded
<1>5. QED
  BY <1>1, <1>2, <1>4 DEF q

\* Where no pick is started, moved on or written.
LEMMA NoPickMoves ==
    ASSUME TypeOK, SInv, UNCHANGED <<openedFor, later, written>>, starting' \subseteq starting,
           session' \in {session, NoSession}, NoNewResult(mail'),
           target' = target, requests' = requests \/ (requests # <<>> /\ requests' = Tail(requests)),
           \A t \in Tabs : phase[t] # "unborn" => phase'[t] # "unborn"
    PROVE  SInv'
<1>1. \A i \in DOMAIN written : written[i].tab \in Tabs
  BY WrittenTyped
<1>2. \A i \in DOMAIN mail : mail[i].type = "result" => mail[i].tab \in Tabs
  BY ResultTyped
<1>3. \A s \in starting : s.target \in Tabs
  BY DEF TypeOK, Target
<1>4. session # NoSession => session.target \in Tabs
  BY DEF TypeOK, Target
<1>5. \A i \in DOMAIN mail' : mail'[i].type = "result" => i \in DOMAIN mail /\ mail'[i] = mail[i]
  BY DEF NoNewResult
<1>6. StartedForNode'
  BY <1>3 DEF SInv, StartedForNode, Opened
<1>7. SessionForNode'
  BY <1>4 DEF SInv, SessionForNode, Opened
<1>8. MailForNode'
  BY <1>2, <1>5 DEF SInv, MailForNode, Opened
<1>9. WrittenForNode'
  BY <1>1 DEF SInv, WrittenForNode
<1>10. OneStage'
  <2>1. NoSession.target \notin Tabs
    BY TabsAssumption DEF NoSession
  <2>2. \A s \in starting' : s.target # session'.target
    BY <1>3, <2>1 DEF SInv, OneStage
  <2>3. \A i \in DOMAIN mail' : mail'[i].type = "result" =>
            (\A s \in starting' : s.target # mail'[i].tab) /\ mail'[i].tab # session'.target
    BY <1>2, <1>5, <2>1 DEF SInv, OneStage
  <2>4. \A i \in DOMAIN written' :
            /\ \A s \in starting' : s.target # written'[i].tab
            /\ written'[i].tab # session'.target
            /\ \A j \in DOMAIN mail' : mail'[j].type = "result" => mail'[j].tab # written'[i].tab
    BY <1>1, <1>5, <2>1 DEF SInv, OneStage
  <2>5. \A i, j \in DOMAIN mail' :
            mail'[i].type = "result" /\ mail'[j].type = "result" /\ mail'[i].tab = mail'[j].tab => i = j
    BY <1>5 DEF SInv, OneStage
  <2>6. \A i, j \in DOMAIN written' : written'[i].tab = written'[j].tab => i = j
    BY DEF SInv, OneStage
  <2>7. QED
    BY <2>2, <2>3, <2>4, <2>5, <2>6 DEF OneStage
<1>11. TargetIsLast'
  <2>1. requests' # <<>> => requests # <<>> /\ requests'[Len(requests')] = requests[Len(requests)]
    <3>1. requests \in Seq(Nodes)
      BY DEF TypeOK
    <3>2. QED
      BY <3>1
  <2>2. QED
    BY <2>1 DEF SInv, TargetIsLast
<1>12. OpenedBorn'
  BY DEF SInv, OpenedBorn
<1>13. QED
  BY <1>6, <1>7, <1>8, <1>9, <1>10, <1>11, <1>12 DEF SInv

\* The designer asks for a pick.
LEMMA PickAsked ==
    ASSUME TypeOK, SInv, NEW node \in Nodes, StartElementPicker(node)
    PROVE  SInv'
<1>1. /\ target' = node /\ requests' = Append(requests, node)
      /\ later' = [t \in Tabs |-> IF openedFor[t] = NoNode THEN {} ELSE later[t] \union {node}]
      /\ UNCHANGED <<phase, mail, session, starting, openedFor, written>>
  BY DEF StartElementPicker, picking
<1>2. requests'[Len(requests')] = node
  <2>1. requests \in Seq(Nodes)
    BY DEF TypeOK
  <2>2. QED
    BY <1>1, <2>1
<1>3. \A t \in Tabs : /\ openedFor[t] # NoNode => later'[t] = later[t] \union {node}
                      /\ openedFor[t] = NoNode => later'[t] = {}
  BY <1>1
<1>4. StartedForNode' /\ SessionForNode' /\ MailForNode' /\ OneStage'
  BY <1>1 DEF SInv, StartedForNode, SessionForNode, MailForNode, OneStage, Opened
<1>5. WrittenForNode'
  <2>1. \A t \in Tabs : later[t] \subseteq later'[t]
    BY <1>3 DEF SInv, OpenedBorn
  <2>2. QED
    BY <1>1, <2>1, WrittenTyped DEF SInv, WrittenForNode
<1>6. TargetIsLast'
  BY <1>1, <1>2, <1>3 DEF TargetIsLast
<1>7. OpenedBorn'
  BY <1>1, <1>3 DEF SInv, OpenedBorn
<1>8. QED
  BY <1>4, <1>5, <1>6, <1>7 DEF SInv

\* The worker makes a tab for it.
LEMMA PickStarts ==
    ASSUME TypeOK, SInv, NEW t \in Tabs, PickerStart(t)
    PROVE  SInv'
<1> DEFINE node == Head(requests)
           rest == Tail(requests)
<1>1. /\ requests # <<>> /\ requests' = rest /\ phase[t] = "unborn"
      /\ phase' = [phase EXCEPT ![t] = "open"]
      /\ starting' = starting \union {[target |-> t, node |-> node]}
      /\ openedFor' = [openedFor EXCEPT ![t] = node]
      /\ later' = [later EXCEPT ![t] = ToSet(rest)]
      /\ session' = NoSession /\ UNCHANGED <<target, written>>
  BY DEF PickerStart, ClearPickerSession
<1>2. NoNewResult(mail')
  BY MailKept DEF PickerStart, ClearPickerSession
<1>3. /\ node \in Nodes /\ node # NoNode
      /\ rest # <<>> => rest[Len(rest)] = requests[Len(requests)] /\ requests[Len(requests)] \in ToSet(rest)
      /\ rest = <<>> => requests[Len(requests)] = node
  <2>1. requests \in Seq(Nodes)
    BY DEF TypeOK
  <2>2. /\ node \in Nodes /\ node = requests[1] /\ rest \in Seq(Nodes) /\ Len(requests) \in Nat /\ Len(requests) >= 1
        /\ Len(rest) = Len(requests) - 1 /\ DOMAIN rest = 1 .. Len(rest)
        /\ \A i \in DOMAIN rest : rest[i] = requests[i + 1]
    BY <1>1, <2>1
  <2>3. rest # <<>> => Len(rest) >= 1
    BY <2>2
  <2> HIDE DEF node, rest
  <2>4. rest = <<>> => Len(rest) = 0
    BY <2>2
  <2>5. rest # <<>> => Len(rest) \in DOMAIN rest /\ rest[Len(rest)] = requests[Len(requests)]
    BY <2>2, <2>3
  <2>6. rest # <<>> => requests[Len(requests)] \in ToSet(rest)
    BY <2>5 DEF ToSet
  <2>7. node # NoNode
    BY <2>2, NodesAssumption
  <2>8. QED
    BY <2>2, <2>4, <2>5, <2>6, <2>7
<1> HIDE DEF node, rest
<1>4. /\ phase'[t] = "open" /\ openedFor'[t] = node /\ later'[t] = ToSet(rest)
      /\ \A u \in Tabs : u # t => phase'[u] = phase[u] /\ openedFor'[u] = openedFor[u] /\ later'[u] = later[u]
  BY <1>1 DEF TypeOK
<1>5. \A s \in starting : s.target \in Tabs /\ s.target # t
  BY <1>1 DEF TypeOK, Target, SInv, StartedForNode, Opened
<1>6. \A s \in starting' : s \in starting \/ (s.target = t /\ s.node = node)
  BY <1>1
<1>7. \A i \in DOMAIN mail : mail[i].type = "result" => mail[i].tab \in Tabs /\ mail[i].tab # t
  BY <1>1, ResultTyped DEF SInv, MailForNode, Opened
<1>8. \A i \in DOMAIN mail' : mail'[i].type = "result" => i \in DOMAIN mail /\ mail'[i] = mail[i]
  BY <1>2 DEF NoNewResult
<1>9. \A i \in DOMAIN written : written[i].tab \in Tabs /\ written[i].tab # t
  BY <1>1, WrittenTyped DEF SInv, WrittenForNode
<1>10. StartedForNode'
  BY <1>4, <1>5, <1>6 DEF SInv, StartedForNode, Opened
<1>11. SessionForNode'
  BY <1>1 DEF SessionForNode
<1>12. MailForNode'
  BY <1>4, <1>7, <1>8 DEF SInv, MailForNode, Opened
<1>13. WrittenForNode'
  BY <1>1, <1>4, <1>9 DEF SInv, WrittenForNode
<1>14. OneStage'
  <2>1. NoSession.target \notin Tabs
    BY TabsAssumption DEF NoSession
  <2>2. \A s \in starting' : s.target # session'.target
    BY <1>1, <1>5, <1>6, <2>1
  <2>3. \A i \in DOMAIN mail' : mail'[i].type = "result" =>
            (\A s \in starting' : s.target # mail'[i].tab) /\ mail'[i].tab # session'.target
    BY <1>1, <1>6, <1>7, <1>8, <2>1 DEF SInv, OneStage
  <2>4. \A i \in DOMAIN written' :
            /\ \A s \in starting' : s.target # written'[i].tab
            /\ written'[i].tab # session'.target
            /\ \A j \in DOMAIN mail' : mail'[j].type = "result" => mail'[j].tab # written'[i].tab
    BY <1>1, <1>6, <1>8, <1>9, <2>1 DEF SInv, OneStage
  <2>5. \A i, j \in DOMAIN mail' :
            mail'[i].type = "result" /\ mail'[j].type = "result" /\ mail'[i].tab = mail'[j].tab => i = j
    BY <1>8 DEF SInv, OneStage
  <2>6. \A i, j \in DOMAIN written' : written'[i].tab = written'[j].tab => i = j
    BY <1>1 DEF SInv, OneStage
  <2>7. QED
    BY <2>2, <2>3, <2>4, <2>5, <2>6 DEF OneStage
<1>15. TargetIsLast'
  BY <1>1, <1>3, <1>4 DEF SInv, TargetIsLast
<1>16. OpenedBorn'
  BY <1>3, <1>4 DEF SInv, OpenedBorn
<1>17. QED
  BY <1>10, <1>11, <1>12, <1>13, <1>14, <1>15, <1>16 DEF SInv

\* The tab becomes the session's.
LEMMA PickGoesOn ==
    ASSUME TypeOK, SInv, NEW s \in starting, PickerStarted(s)
    PROVE  SInv'
<1>1. /\ session' = s /\ starting' = starting \ {s}
      /\ UNCHANGED <<phase, target, requests, mail, openedFor, later, written>>
  BY DEF PickerStarted, designing
<1>2. \A r \in starting : r.target = s.target => r = s
  <2>1. \A r \in Target : r = [target |-> r.target, node |-> r.node]
    BY DEF Target
  <2>2. \A r \in starting : r \in Target /\ r.node = openedFor[r.target]
    BY DEF TypeOK, SInv, StartedForNode, Opened
  <2>3. QED
    BY <2>1, <2>2
<1>3. StartedForNode' /\ SessionForNode' /\ MailForNode' /\ WrittenForNode' /\ TargetIsLast' /\ OpenedBorn'
  BY <1>1 DEF SInv, StartedForNode, SessionForNode, MailForNode, WrittenForNode, TargetIsLast, OpenedBorn, Opened
<1>4. OneStage'
  BY <1>1, <1>2 DEF SInv, OneStage
<1>5. QED
  BY <1>3, <1>4 DEF SInv

\* The result of the session is sent to the designer.
LEMMA PickSent ==
    ASSUME TypeOK, SInv, NEW t \in Tabs, session.target = t, session' = NoSession,
           mail' = Append(mail, [type |-> "result", tab |-> t, node |-> session.node]),
           UNCHANGED <<phase, target, requests, starting, openedFor, later, written>>
    PROVE  SInv'
<1> DEFINE entry == [type |-> "result", tab |-> t, node |-> session.node]
<1>1. session # NoSession /\ session.node \in Nodes
  BY TabsAssumption DEF NoSession, TypeOK, Target
<1>2. entry.tab = t /\ entry.node = session.node /\ entry \in ToDesigner
  BY <1>1 DEF ToDesigner
<1>3. mail \in Seq(ToDesigner) /\ mail' = Append(mail, entry)
  BY DEF TypeOK
<1> HIDE DEF entry
<1>4. /\ DOMAIN mail = 1 .. Len(mail) /\ DOMAIN mail' = 1 .. (Len(mail) + 1) /\ Len(mail) \in Nat
  BY <1>2, <1>3
<1>5. \A i \in DOMAIN mail' : \/ i \in DOMAIN mail /\ mail'[i] = mail[i]
                              \/ i = Len(mail) + 1 /\ mail'[i] = entry
  BY <1>2, <1>3, <1>4
<1>6. StartedForNode' /\ SessionForNode' /\ WrittenForNode' /\ TargetIsLast' /\ OpenedBorn'
  BY DEF SInv, StartedForNode, SessionForNode, WrittenForNode, TargetIsLast, OpenedBorn, Opened
<1>7. MailForNode'
  BY <1>1, <1>2, <1>5 DEF SInv, SessionForNode, MailForNode, Opened
<1>8. OneStage'
  <2>1. NoSession.target \notin Tabs
    BY TabsAssumption DEF NoSession
  <2>2. \A s \in starting' : s.target # session'.target
    BY <2>1 DEF TypeOK, Target
  <2>3. \A i \in DOMAIN mail' : mail'[i].type = "result" =>
            (\A s \in starting' : s.target # mail'[i].tab) /\ mail'[i].tab # session'.target
    BY <1>2, <1>5, <2>1, ResultTyped DEF SInv, OneStage
  <2>4. \A i \in DOMAIN written' :
            /\ \A s \in starting' : s.target # written'[i].tab
            /\ written'[i].tab # session'.target
            /\ \A j \in DOMAIN mail' : mail'[j].type = "result" => mail'[j].tab # written'[i].tab
    BY <1>2, <1>5, <2>1, WrittenTyped DEF SInv, OneStage
  <2>5. \A i, j \in DOMAIN mail' :
            mail'[i].type = "result" /\ mail'[j].type = "result" /\ mail'[i].tab = mail'[j].tab => i = j
    BY <1>2, <1>5 DEF SInv, OneStage
  <2>6. \A i, j \in DOMAIN written' : written'[i].tab = written'[j].tab => i = j
    BY DEF SInv, OneStage
  <2>7. QED
    BY <2>2, <2>3, <2>4, <2>5, <2>6 DEF OneStage
<1>9. QED
  BY <1>6, <1>7, <1>8 DEF SInv

\* The designer reads a message, and may write a result into a node.
LEMMA PickRead ==
    ASSUME TypeOK, SInv, DesignerReceives
    PROVE  SInv'
<1> DEFINE m == Head(mail)
           node == IF target \in nodes THEN target ELSE m.node
           w == [tab |-> m.tab, node |-> node]
<1>1. /\ mail # <<>> /\ mail' = Tail(mail)
      /\ UNCHANGED <<phase, session, starting, requests, openedFor, later>>
      /\ target' \in {target, NoNode}
      /\ written' = written \/ (m.type = "result" /\ node \in nodes /\ written' = Append(written, w))
  BY DEF DesignerReceives, OnPickResult, OnPickerError, picking
<1>2. /\ mail \in Seq(ToDesigner) /\ Len(mail) \in Nat /\ DOMAIN mail = 1 .. Len(mail)
      /\ 1 \in DOMAIN mail /\ m = mail[1]
      /\ DOMAIN mail' = 1 .. (Len(mail) - 1)
      /\ \A i \in DOMAIN mail' : i + 1 \in DOMAIN mail /\ mail'[i] = mail[i + 1]
  BY <1>1 DEF TypeOK
<1>3. w.tab = m.tab /\ w.node = node
  OBVIOUS
<1>4. m.type = "result" /\ node \in nodes => node = openedFor[m.tab] \/ node \in later[m.tab]
  <2>1. m.type = "result" => m.tab \in Tabs /\ m.node \in Nodes /\ m.node = openedFor[m.tab]
    BY <1>2, ResultTyped DEF SInv, MailForNode, Opened
  <2>2. m.type = "result" => openedFor[m.tab] # NoNode
    BY <2>1, NodesAssumption
  <2>3. target \in nodes => target # NoNode
    BY NodesAssumption DEF TypeOK
  <2>4. QED
    BY <2>1, <2>2, <2>3 DEF SInv, TargetIsLast
<1>a. m.type = "result" /\ node \in nodes => w \in Written
  BY <1>2, ResultTyped DEF TypeOK, Written
<1> HIDE DEF m, node, w
<1>5. \A i \in DOMAIN mail' : i + 1 \in DOMAIN mail /\ i + 1 # 1 /\ mail'[i] = mail[i + 1]
  BY <1>2
<1>6. \/ written' = written
      \/ /\ m.type = "result" /\ node \in nodes
         /\ \A i \in DOMAIN written' : (i \in DOMAIN written /\ written'[i] = written[i])
                                       \/ (i = Len(written) + 1 /\ written'[i] = w)
  <2>1. written \in Seq(Written) /\ Len(written) \in Nat /\ DOMAIN written = 1 .. Len(written)
    BY DEF TypeOK
  <2>2. CASE m.type = "result" /\ node \in nodes /\ written' = Append(written, w)
    <3>a. w \in Written /\ written' = Append(written, w)
      BY <1>a, <2>2
    <3>1. DOMAIN written' = 1 .. (Len(written) + 1) /\ written'[Len(written) + 1] = w
          /\ \A i \in DOMAIN written : written'[i] = written[i]
      BY <2>1, <3>a
    <3>2. \A i \in DOMAIN written' : \/ i \in DOMAIN written /\ written'[i] = written[i]
                                     \/ i = Len(written) + 1 /\ written'[i] = w
      BY <2>1, <3>1
    <3>3. QED
      BY <2>2, <3>2
  <2>3. QED
    BY <1>1, <2>2
<1>7. StartedForNode' /\ SessionForNode' /\ TargetIsLast' /\ OpenedBorn'
  BY <1>1 DEF SInv, StartedForNode, SessionForNode, TargetIsLast, OpenedBorn, Opened
<1>8. MailForNode'
  BY <1>1, <1>5 DEF SInv, MailForNode, Opened
<1>9. WrittenForNode'
  <2>1. m.type = "result" => phase[m.tab] # "unborn"
    BY <1>2 DEF SInv, MailForNode, Opened
  <2>2. QED
    BY <1>1, <1>3, <1>4, <1>6, <2>1 DEF SInv, WrittenForNode
<1>10. OneStage'
  <2>1. \A s \in starting' : s.target # session'.target
    BY <1>1 DEF SInv, OneStage
  <2>2. \A i \in DOMAIN mail' : mail'[i].type = "result" =>
            (\A s \in starting' : s.target # mail'[i].tab) /\ mail'[i].tab # session'.target
    BY <1>1, <1>5 DEF SInv, OneStage
  <2>3. m.type = "result" =>
            /\ \A s \in starting : s.target # m.tab
            /\ m.tab # session.target
            /\ \A i \in DOMAIN written : written[i].tab # m.tab
    BY <1>2 DEF SInv, OneStage
  <2>4. m.type = "result" => \A j \in DOMAIN mail' : mail'[j].type = "result" => mail'[j].tab # m.tab
    BY <1>2, <1>5 DEF SInv, OneStage
  <2>5. \A i \in DOMAIN written' :
            /\ \A s \in starting' : s.target # written'[i].tab
            /\ written'[i].tab # session'.target
    BY <1>1, <1>3, <1>6, <2>3 DEF SInv, OneStage
  <2>6. \A i \in DOMAIN written' :
            \A j \in DOMAIN mail' : mail'[j].type = "result" => mail'[j].tab # written'[i].tab
    BY <1>3, <1>5, <1>6, <2>4 DEF SInv, OneStage
  <2>7. \A i, j \in DOMAIN mail' :
            mail'[i].type = "result" /\ mail'[j].type = "result" /\ mail'[i].tab = mail'[j].tab => i = j
    <3> SUFFICES ASSUME NEW i \in DOMAIN mail', NEW j \in DOMAIN mail', mail'[i].type = "result",
                        mail'[j].type = "result", mail'[i].tab = mail'[j].tab
                 PROVE  i = j
      OBVIOUS
    <3>1. i + 1 = j + 1
      BY <1>5 DEF SInv, OneStage
    <3>2. i \in Int /\ j \in Int
      BY <1>2
    <3>3. QED
      BY <3>1, <3>2
  <2>8. \A i, j \in DOMAIN written' : written'[i].tab = written'[j].tab => i = j
    BY <1>3, <1>6, <2>3 DEF SInv, OneStage
  <2>9. QED
    BY <2>1, <2>2, <2>5, <2>6, <2>7, <2>8 DEF OneStage
<1>11. QED
  BY <1>7, <1>8, <1>9, <1>10 DEF SInv

LEMMA PicksKept == TypeOK /\ SInv /\ [Next]_vars => SInv'
<1> SUFFICES ASSUME TypeOK, SInv, [Next]_vars PROVE SInv'
  OBVIOUS
<1> DEFINE cleared == IF session = NoSession THEN mail ELSE Mailed(mail, PickerError)
<1>1. ASSUME UNCHANGED <<openedFor, later, written, target>>, starting' \in {starting, {}},
             session' \in {session, NoSession},
             mail' \in {mail, <<>>, Mailed(mail, PickerError)}, requests' = requests,
             \A t \in Tabs : phase[t] # "unborn" => phase'[t] # "unborn"
      PROVE  SInv'
  <2>1. NoNewResult(mail')
    BY <1>1, MailKept
  <2>2. QED
    BY <1>1, <2>1, NoPickMoves
<1>2. CASE UNCHANGED vars
  BY <1>1, <1>2 DEF vars, designing, picking, history
<1>3. ASSUME NEW t \in Tabs, OpenTab(t) \/ CloseTab(t) \/ TabRemoved(t) PROVE SInv'
  <2>1. \A u \in Tabs : phase[u] # "unborn" => phase'[u] # "unborn"
    BY <1>3 DEF TypeOK, OpenTab, CloseTab, TabRemoved
  <2>2. /\ UNCHANGED <<openedFor, later, written, target, requests, starting>>
        /\ session' \in {session, NoSession} /\ mail' \in {mail, <<>>, Mailed(mail, PickerError)}
    BY <1>3 DEF OpenTab, CloseTab, TabRemoved, designing, picking, history
  <2>3. QED
    BY <1>1, <2>1, <2>2
<1>4. ASSUME NEW t \in Tabs,
             \/ ArmPicker(t) \/ ArmGivesUp(t) \/ RecorderStart(t) \/ RecorderStop(t) \/ RecorderClear(t)
             \/ FramesTalk(t) \/ \E on \in BOOLEAN : NativeArms(t, on)
      PROVE  SInv'
  <2>1. /\ UNCHANGED <<phase, openedFor, later, written, target, requests, starting>>
        /\ session' \in {session, NoSession} /\ mail' \in {mail, <<>>, Mailed(mail, PickerError)}
    BY <1>4 DEF ArmPicker, ArmGivesUp, RecorderStart, RecorderStop, RecorderClear, FramesTalk, NativeArms,
                ClearPickerSession, designing, picking, history
  <2>2. QED
    BY <1>1, <2>1
<1>5. ASSUME NEW t \in Tabs, NEW f \in Frames,
             LoadFrame(t, f) \/ Navigate(t, f) \/ FrameReceives(t, f) \/ UserActs(t, f)
      PROVE  SInv'
  <2>1. UNCHANGED <<phase, openedFor, later, written, target, requests, starting, session, mail>>
    BY <1>5 DEF LoadFrame, Navigate, FrameReceives, UserActs, designing, picking, history
  <2>2. QED
    BY <1>1, <2>1
<1>6. CASE \/ CloseDesigner \/ DesignerRemoved \/ WorkerRestarts \/ Offer
           \/ \E node \in Nodes : RemoveNode(node)
  <2>1. /\ UNCHANGED <<phase, openedFor, later, written, target, requests>> /\ starting' \in {starting, {}}
        /\ session' \in {session, NoSession} /\ mail' \in {mail, <<>>, Mailed(mail, PickerError)}
    BY <1>6 DEF CloseDesigner, DesignerRemoved, WorkerRestarts, Offer, RemoveNode, ClearPickerSession,
                designing, picking, history
  <2>2. QED
    BY <1>1, <2>1
<1>7. CASE PickerStartFails
  <2>1. /\ UNCHANGED <<phase, openedFor, later, written, target, starting>> /\ session' = NoSession
        /\ requests # <<>> /\ requests' = Tail(requests)
        /\ mail' \in {Mailed(mail, PickerError), Mailed(Mailed(mail, PickerError), PickerError)}
    BY <1>7 DEF PickerStartFails, history
  <2>2. NoNewResult(mail')
    BY <2>1, MailKept
  <2>3. QED
    BY <2>1, <2>2, NoPickMoves
<1>8. ASSUME NEW t \in Tabs, NEW f \in Frames, WorkerReceives(t, f) PROVE SInv'
  <2> DEFINE m == Head(pages[t].out[f])
             result == [type |-> "result", tab |-> t, node |-> session.node]
  <2>1. /\ OnRecorderEvent(t, f, m) \/ OnPickerStatus(t, f, m) \/ OnPicked(t, f, m) \/ OnPickCanceled(t, f, m)
        /\ UNCHANGED <<phase, target, requests, starting, openedFor, later, written>>
    BY <1>8 DEF WorkerReceives
  <2> HIDE DEF m
  <2>2. \/ session' \in {session, NoSession} /\ mail' \in {mail, Mailed(mail, PickerError)}
        \/ session.target = t /\ session' = NoSession /\ mail' \in {mail, Append(mail, result)}
    BY <2>1 DEF OnRecorderEvent, OnPickerStatus, OnPicked, OnPickCanceled, ClearPickerSession,
                PushPickerResultToRequester, Mailed
  <2>3. CASE session' \in {session, NoSession} /\ mail' \in {mail, Mailed(mail, PickerError)}
    BY <1>1, <2>1, <2>3
  <2>4. CASE session.target = t /\ session' = NoSession /\ mail' = Append(mail, result)
    BY <2>1, <2>4, PickSent
  <2>5. QED
    BY <2>2, <2>3, <2>4
<1>9. QED
  BY <1>2, <1>3, <1>4, <1>5, <1>6, <1>7, <1>8, PickAsked, PickStarts, PickGoesOn, PickRead DEF Next
-----------------------------------------------------------------------------
(* Tabs that are gone *)

LEMMA SilenceKept == TypeOK /\ GoneIsSilent /\ [Next]_vars => GoneIsSilent'
<1> SUFFICES ASSUME TypeOK, GoneIsSilent, [Next]_vars PROVE GoneIsSilent'
  OBVIOUS
<1>1. ASSUME \A u \in Tabs : phase'[u] = "gone" => phase[u] = "gone",
             UNCHANGED <<recording, events>>
      PROVE  GoneIsSilent'
  BY <1>1 DEF GoneIsSilent
<1>2. Known(Absent) = <<>> /\ Known(<<>>) = <<>>
  BY DEF Known, Absent
<1>3. CASE UNCHANGED vars
  BY <1>1, <1>3 DEF vars, recorded
<1>4. ASSUME NEW t \in Tabs,
             \/ OpenTab(t) \/ CloseTab(t) \/ PickerStart(t)
             \/ ArmPicker(t) \/ ArmGivesUp(t) \/ FramesTalk(t)
             \/ \E on \in BOOLEAN : NativeArms(t, on)
             \/ \E f \in Frames : LoadFrame(t, f) \/ Navigate(t, f) \/ FrameReceives(t, f) \/ UserActs(t, f)
      PROVE  GoneIsSilent'
  <2>1. UNCHANGED <<recording, events>>
    BY <1>4 DEF OpenTab, LoadFrame, Navigate, CloseTab, ArmPicker, ArmGivesUp, FrameReceives,
                FramesTalk, NativeArms, UserActs, PickerStart, recorded
  <2>2. \A u \in Tabs : phase'[u] = "gone" => phase[u] = "gone"
    BY <1>4 DEF TypeOK, OpenTab, LoadFrame, Navigate, CloseTab, ArmPicker, ArmGivesUp, FrameReceives,
                FramesTalk, NativeArms, UserActs, PickerStart
  <2>3. QED
    BY <1>1, <2>1, <2>2
<1>5. CASE \/ \E s \in starting : PickerStarted(s)
           \/ \E node \in Nodes : StartElementPicker(node) \/ RemoveNode(node)
           \/ DesignerReceives \/ PickerStartFails \/ CloseDesigner \/ DesignerRemoved
  BY <1>1, <1>5 DEF PickerStarted, StartElementPicker, RemoveNode, DesignerReceives, PickerStartFails,
                    CloseDesigner, DesignerRemoved, recorded
<1>6. CASE WorkerRestarts
  BY <1>2, <1>6 DEF WorkerRestarts, GoneIsSilent
<1>7. ASSUME NEW t \in Tabs, TabRemoved(t) PROVE GoneIsSilent'
  <2>1. \A u \in Tabs : u # t => /\ phase'[u] = phase[u] /\ recording'[u] = recording[u]
                                 /\ events'[u] = events[u]
    BY <1>7 DEF TypeOK, TabRemoved
  <2>2. recording'[t] = "absent" /\ events'[t] = Absent
    BY <1>7 DEF TypeOK, TabRemoved
  <2>3. QED
    BY <1>2, <2>1, <2>2 DEF GoneIsSilent
<1>8. ASSUME NEW t \in Tabs, RecorderStart(t) \/ RecorderStop(t) \/ RecorderClear(t)
      PROVE  GoneIsSilent'
  <2>1. phase[t] # "gone" /\ phase' = phase
    BY <1>8 DEF RecorderStart, RecorderStop, RecorderClear
  <2>2. \A u \in Tabs : u # t => recording'[u] = recording[u] /\ events'[u] = events[u]
    BY <1>8 DEF TypeOK, RecorderStart, RecorderStop, RecorderClear
  <2>3. QED
    BY <2>1, <2>2 DEF GoneIsSilent
<1>9. ASSUME NEW t \in Tabs, phase' = phase,
             recording' = [recording EXCEPT ![t] = EnsureRecording(t)] \/ recording' = recording,
             \/ events' = events
             \/ events' = [events EXCEPT ![t] = Known(events[t])]
             \/ recording[t] = "on" /\ \E e : events' = [events EXCEPT ![t] = e]
      PROVE  GoneIsSilent'
  <2>1. \A u \in Tabs : recording'[u] = "on" => recording[u] = "on"
    BY <1>9 DEF TypeOK, EnsureRecording
  <2>2. \A u \in Tabs : recording[u] # "on" => events'[u] \in {events[u], Known(events[u])}
    BY <1>9 DEF TypeOK
  <2>3. QED
    BY <1>2, <1>9, <2>1, <2>2 DEF GoneIsSilent
<1>10. CASE Offer
  BY <1>1, <1>9, <1>10 DEF Offer, LatestTabs
<1>11. ASSUME NEW t \in Tabs, NEW f \in Frames, WorkerReceives(t, f) PROVE GoneIsSilent'
  BY <1>9, <1>11 DEF WorkerReceives, OnRecorderEvent, OnPickerStatus, OnPicked, OnPickCanceled, recorded
<1>12. QED
  BY <1>3, <1>4, <1>5, <1>6, <1>7, <1>8, <1>10, <1>11 DEF Next
-----------------------------------------------------------------------------
(* Theorems *)

\* The invariant holds at every time: with the types, a tab's way through its
\* pick, the silence of tabs that are gone, and what ends the pick mode of a
\* page that has no session.
THEOREM Inductive == Spec => []IInv
<1>1. Init => IInv
  <2> SUFFICES ASSUME Init PROVE IInv
    OBVIOUS
  <2>1. <<>> \in Seq(ToTab) /\ <<>> \in Seq(Nodes) /\ <<>> \in Seq(ToDesigner) /\ <<>> \in Seq(Written)
    OBVIOUS
  <2>2. ASSUME NEW t \in Tabs
        PROVE  /\ IsPage(pages[t]) /\ pages[t].down = <<>>
               /\ \A f \in Frames : ~ pages[t].on[f] /\ ~ pages[t].started[f]
    <3>1. PICK scene \in Scenes : pages[t] = FreshPage(t \in scene.framed)
      BY DEF Init
    <3> DEFINE framed == t \in scene.framed
    <3>2. framed \in BOOLEAN /\ <<>> \in Seq(Stages) /\ <<>> \in Seq(Commands)
      OBVIOUS
    <3>0. pages[t] = FreshPage(framed)
      BY <3>1
    <3> HIDE DEF framed
    <3>3. QED
      BY <3>0, <3>2 DEF FreshPage, IsPage
  <2>3. inbox \in Boxes /\ \A t \in Tabs, f \in Frames : inbox[t][f] = <<>>
    BY <2>1 DEF Init, NoMessages, Boxes
  <2>4. PagesOK
    BY <2>2 DEF Init, PagesOK
  <2>5. TypeOK
    BY <2>1, <2>3, <2>4 DEF Init, TypeOK
  <2>6. SInv
    BY DEF Init, SInv, StartedForNode, SessionForNode, MailForNode, WrittenForNode, OneStage,
           TargetIsLast, OpenedBorn
  <2>7. GoneIsSilent
    BY DEF Init, GoneIsSilent
  <2>8. PInv
    <3>1. PagesUnheard
      BY <2>2, <2>3, BoxEmpty DEF PagesUnheard, Unheard
    <3>2. PagesEnd
      BY <2>2, <2>3, BoxEmpty DEF PagesEnd, Ending
    <3>3. native \subseteq loose
      BY DEF Init
    <3>4. QED
      BY <3>1, <3>2, <3>3 DEF PInv
  <2>9. QED
    BY <2>5, <2>6, <2>7, <2>8 DEF IInv
<1>2. IInv /\ [Next]_vars => IInv'
  BY TypesKept, PicksKept, SilenceKept DEF IInv
<1>3. QED
  BY <1>1, <1>2, PTL DEF Spec

\* ResultForItsNode: whatever picks are started, cancelled, retried, overtaken
\* or lost with the worker, what was picked in a tab is written once at most,
\* into the node the tab was opened for or that of a pick the designer started
\* after it.
THEOREM ResultsBelong == Spec => []ResultForItsNode
<1>1. IInv => ResultForItsNode
  BY DEF IInv, SInv, WrittenForNode, OneStage, ResultForItsNode
<1>2. QED
  BY <1>1, Inductive, PTL

\* PickModeEnds: in whatever order the scripts of the frames start, messages
\* of the worker reach each of them and commands of the top frame reach the
\* frame inside, neither frame goes on picking once nothing is on its way and
\* the session is not about the page.
THEOREM PickModeIsLeft == Spec => []PickModeEnds
<1>1. IInv => PickModeEnds
  <2> SUFFICES ASSUME IInv, NEW t \in Tabs, session.target # t, t \notin loose,
                      inbox[t] = NoMessages, pages[t].down = <<>>, NEW f \in Frames
               PROVE  ~ pages[t].on[f]
    BY DEF PickModeEnds
  <2>1. Ending(pages[t], inbox[t])
    BY DEF IInv, PInv, PagesEnd
  <2>2. \A g \in Frames : inbox[t][g] = <<>>
    BY DEF NoMessages
  <2>3. QED
    BY <2>1, <2>2, BoxEmpty DEF Ending
<1>2. QED
  BY <1>1, Inductive, PTL

\* OfferedFromOpenTab: no order of closing a tab, the message about it and the
\* events still on their way makes the worker offer a recording of a tab that
\* is gone.
THEOREM OffersAreOpen == Spec => OfferedFromOpenTab
<1>1. IInv /\ [Next]_vars =>
          [offered' # offered /\ offered'.events # <<>> => phase[offered'.tab] # "gone"]_vars
  <2> SUFFICES ASSUME IInv, Next, offered' # offered, offered'.events # <<>>
               PROVE  phase[offered'.tab] # "gone"
    OBVIOUS
  <2>1. Offer
    <3>1. ASSUME NEW t \in Tabs,
                 \/ OpenTab(t) \/ CloseTab(t) \/ PickerStart(t) \/ ArmPicker(t) \/ ArmGivesUp(t) \/ TabRemoved(t)
                 \/ RecorderStart(t) \/ RecorderStop(t) \/ RecorderClear(t) \/ FramesTalk(t)
                 \/ \E on \in BOOLEAN : NativeArms(t, on)
          PROVE  offered' = offered
      BY <3>1 DEF OpenTab, CloseTab, PickerStart, ArmPicker, ArmGivesUp, TabRemoved, RecorderStart,
                  RecorderStop, RecorderClear, FramesTalk, NativeArms, history
    <3>2. ASSUME NEW t \in Tabs, NEW f \in Frames,
                 \/ LoadFrame(t, f) \/ Navigate(t, f) \/ WorkerReceives(t, f)
                 \/ FrameReceives(t, f) \/ UserActs(t, f)
          PROVE  offered' = offered
      BY <3>2 DEF LoadFrame, Navigate, WorkerReceives, FrameReceives, UserActs, history
    <3>3. ASSUME \/ \E node \in Nodes : StartElementPicker(node) \/ RemoveNode(node)
                 \/ \E s \in starting : PickerStarted(s)
                 \/ DesignerReceives \/ PickerStartFails
                 \/ CloseDesigner \/ DesignerRemoved \/ WorkerRestarts
          PROVE  offered' = offered
      BY <3>3 DEF StartElementPicker, RemoveNode, PickerStarted, DesignerReceives, PickerStartFails,
                  CloseDesigner, DesignerRemoved, WorkerRestarts, history
    <3>4. QED
      BY <3>1, <3>2, <3>3 DEF Next
  <2>2. PICK t \in LatestTabs : offered' = BuildPayload(t)
    BY <2>1 DEF Offer
  <2>3. t \in Tabs /\ offered'.tab = t /\ offered'.events = Known(events[t])
    BY <2>2 DEF LatestTabs, BuildPayload
  <2>4. QED
    BY <2>3 DEF IInv, GoneIsSilent
<1>2. QED
  BY <1>1, Inductive, PTL DEF Spec, OfferedFromOpenTab
=============================================================================
