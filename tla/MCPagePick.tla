----------------------------- MODULE MCPagePick -----------------------------
(* Scenes for PagePick: nested frames, elements with every mix of attributes, *)
(* and views of three elements inside one another.                            *)
EXTENDS PagePick

Token == "x7712009"
Shipped == [selector |-> NoFile, frame |-> NoFile]     \* the files say what is built in

Plain == [ tag |-> "div", part |-> "content", id |-> "", testid |-> "", sign |-> "", name |-> "",
           aria |-> "", title |-> "", placeholder |-> "", text |-> "", role |-> "", label |-> "",
           labelledBy |-> "", shared |-> {}, noisy |-> {}, long |-> FALSE, alike |-> 1,
           children |-> 0 ]

OnlyThe(e) == [nest |-> <<e>>, direct |-> 1, deepest |-> 1, far |-> 0]

----------------------------------------------------------------------------
(* Frames: 1 in 2 in 3, or 2 beside 1. Two of them are of any kind each, three *)
(* all alike or all different.                                                *)

FrameKinds == {
    [id |-> "", name |-> "main", src |-> "site/page", border |-> "", attrs |-> {}],
    [id |-> Token, name |-> "", src |-> "site/page?product=1", border |-> "0",
     attrs |-> {<<"title", "Order">>, <<"data-testid", "pane">>}],
    [id |-> "", name |-> "", src |-> "", border |-> "", attrs |-> {}] }

Parents == { <<0>>, <<0, 1>>, <<0, 0>>, <<0, 1, 2>> }

Kinds(n) ==
    IF n < 3 THEN [1..n -> FrameKinds]
    ELSE { kinds \in [1..n -> FrameKinds] : Cardinality(Range(kinds)) # 2 }

\* Sites, and which of their frames are slow to load.
SiteScenes ==
    { [ windows |-> 0..Len(p), parent |-> p,
        origin |-> [w \in 0..Len(p) |-> IF w \in foreign THEN "b" ELSE "a"],
        element |-> kinds, sameRealm |-> same, blocked |-> read, late |-> late ] :
      <<p, kinds>> \in UNION { {p} \X Kinds(Len(p)) : p \in Parents }, foreign \in SUBSET (1..3),
      same \in BOOLEAN, read \in {"null", "throws"}, late \in { {}, {1}, {2} } }

FrameScenes ==
    { [ windows |-> site.windows, parent |-> site.parent, origin |-> site.origin,
        element |-> site.element, sameRealm |-> site.sameRealm, blocked |-> site.blocked,
        late |-> site.late, files |-> Shipped, at |-> Cardinality(site.windows) - 1,
        view |-> OnlyThe([Plain EXCEPT !.id = "save", !.tag = "button"]) ] :
      site \in { s \in SiteScenes : /\ Len(s.parent) < 3 \/ s.blocked = "null"
                                    /\ s.late = {} \/ s.parent = <<0, 1>> } }

----------------------------------------------------------------------------
(* Elements *)

Elements ==
    { [Plain EXCEPT !.tag = tag, !.id = id, !.testid = testid, !.name = name, !.aria = aria,
                    !.text = text, !.label = label, !.shared = shared, !.noisy = noisy] :
      tag \in {"button", "div"}, id \in {"", "save", Token}, testid \in {"", "go", Token},
      name \in {"", "name"}, aria \in {"", "Save"}, text \in {"", "Save", "12:30"},
      label \in {"", "Save"}, shared \in {{}, {"testid", "name"}, {"id", "path"}},
      noisy \in {{}, {"path"}} }

InTop(view, files) ==
    [ windows |-> {0}, parent |-> <<>>, origin |-> [w \in {0} |-> "a"], element |-> <<>>,
      sameRealm |-> TRUE, blocked |-> "null", late |-> {}, files |-> files, at |-> 0, view |-> view ]

ElementScenes == { InTop(OnlyThe(e), Shipped) : e \in Elements }

\* Elements under edited rule files.
Files == {
    [selector |-> [maxCandidates |-> Number(0), preferredAttributes |-> List(<<>>),
                   dynamicTokenPatterns |-> List(<<BadPattern>>)],
     frame |-> [maxCandidates |-> Junk, attrScore |-> Scores([a \in {"title"} |-> 140])]],
    [selector |-> [k \in {"maxCandidates"} |-> Number(100)], frame |-> NoFile],
    [selector |-> [attributePriority |-> List(<<"name", "", "name">>), textTags |-> Junk],
     frame |-> [preferredAttrs |-> Junk, dynamicIdPatterns |-> List(<<Pattern("go"), BadPattern>>)]] }
RuleScenes ==
    { InTop(OnlyThe(e), files) : files \in Files,
      e \in { d \in Elements : d.tag = "button" /\ d.shared = {} /\ d.noisy = {} } }

----------------------------------------------------------------------------
(* Views *)

\* A container that outweighs an empty text field with a generated id.
WellNamed == [Plain EXCEPT !.id = "orders", !.testid = "go", !.sign = "o", !.name = "name",
                           !.text = "Orders", !.alike = 4]

ViewKinds == {
    [Plain EXCEPT !.text = "Orders"],
    [Plain EXCEPT !.text = "Orders", !.long = TRUE, !.children = 30],
    [Plain EXCEPT !.tag = "button", !.text = "Save", !.id = "save", !.testid = "go", !.alike = 4],
    [Plain EXCEPT !.tag = "input", !.id = Token],
    [Plain EXCEPT !.tag = "input", !.name = "q", !.placeholder = "Search"],
    [Plain EXCEPT !.tag = "select", !.name = "size"],
    [Plain EXCEPT !.role = "combobox", !.text = "M"],
    [Plain EXCEPT !.role = "combobox", !.id = Token],
    WellNamed,
    [WellNamed EXCEPT !.role = "group"],
    [Plain EXCEPT !.tag = "iframe", !.part = "frame"],
    [Plain EXCEPT !.part = "picker"],
    [Plain EXCEPT !.tag = "body", !.part = "scaffolding", !.text = "Orders"] }

ViewScenes ==
    { InTop([nest |-> nest, direct |-> over[1], deepest |-> over[2], far |-> 20], Shipped) :
      nest \in [1..3 -> ViewKinds], over \in { o \in (1..3) \X (1..3) : o[1] <= o[2] } }

MCScenes == FrameScenes \cup ElementScenes \cup RuleScenes \cup ViewScenes
=============================================================================
