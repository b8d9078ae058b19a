----------------------------- MODULE FramePaths -----------------------------
(* Which frame an element is in: how the content script (content.js)          *)
(* describes the frames from the top of the page down to its own, puts the    *)
(* descriptions of several scripts together, and lists selectors for each of  *)
(* them.                                                                      *)
(*                                                                            *)
(* A page's windows are numbered in document order, 0 for the top. A site is  *)
(* a record: the windows, the parent of each, the origin each was loaded      *)
(* from, the attributes of the frame element each shows in, and two facts of  *)
(* the browser: whether an element of another window passes instanceof        *)
(* Element (sameRealm), and what a script reads as the frame element of a     *)
(* window whose parent it may not see (blocked: null, or an exception). The   *)
(* attributes and selectors are as in PickCandidates. `src` is the value      *)
(* buildFrameSrcParts keeps: a page, with or without a stable parameter.      *)
EXTENDS PickCandidates

Top == 0

Children(site, w) == { c \in site.windows \ {Top} : site.parent[c] = w }
Sees(site, w, u) == site.origin[w] = site.origin[u]

\* collectFrameElementsDeep: the frame elements of a document, in its order.
FrameIndex(site, w) == Cardinality({ c \in Children(site, site.parent[w]) : c < w })

----------------------------------------------------------------------------
(* One frame *)

HostPath(src) == IF src = "" THEN "" ELSE "site/page"
StableFragment(src) == IF src = "site/page?product=1" THEN "product=1" ELSE HostPath(src)

FrameSelector(el, index) ==
    IF Stable(el.id) THEN <<"css", "tag#id", el.id>>
    ELSE IF Stable(el.name) THEN <<"css", "name", el.name>>
    ELSE IF HostPath(el.src) # "" THEN <<"css", "src^", HostPath(el.src)>>
    ELSE IF el.border # "" THEN <<"css", "border", el.border>>
    ELSE <<"css", "path", "", index>>

FrameHint(el, index) ==
    IF Stable(el.name) THEN <<"name", el.name>>
    ELSE IF Stable(el.id) THEN <<"id", el.id>>
    ELSE IF el.src # "" THEN <<"src", HostPath(el.src)>>
    ELSE <<"index", index>>

\* The attributes worth a hint: those set to something stable.
AttrHints(el) ==
    { hint \in el.attrs : hint[1] \in Range(rules.frame.preferredAttributes) /\ Stable(hint[2]) }

BuildFrameSegmentFromElement(el, index) ==
    [ index |-> index, hint |-> FrameHint(el, index), id |-> el.id, idStable |-> Stable(el.id),
      name |-> el.name, src |-> el.src, srcHostPath |-> HostPath(el.src),
      srcStableFragment |-> StableFragment(el.src), frameBorder |-> el.border,
      selector |-> FrameSelector(el, index), crossOrigin |-> FALSE, attrHints |-> AttrHints(el) ]

SegmentOf(site, w) == BuildFrameSegmentFromElement(site.element[w], FrameIndex(site, w))

CrossOriginSegment ==
    [ index |-> -1, hint |-> <<"cross-origin">>, id |-> "", idStable |-> FALSE, name |-> "",
      src |-> "", srcHostPath |-> "", srcStableFragment |-> "", frameBorder |-> "",
      selector |-> <<>>, crossOrigin |-> TRUE, attrHints |-> {} ]

----------------------------------------------------------------------------
(* Paths *)

\* All that tells two segments apart; the source and the hint do not.
FrameSegmentSignature(segment) == [segment EXCEPT !.src = "", !.hint = <<>>]

PathStartsWith(path, prefix) ==
    /\ Len(path) >= Len(prefix)
    /\ \A i \in DOMAIN prefix : FrameSegmentSignature(path[i]) = FrameSegmentSignature(prefix[i])

\* What the script in w finds by climbing, up to the last parent it may see.
BuildFramePathSegments(site, w) ==
    LET own[u \in site.windows] ==
            IF u = Top THEN <<>>
            ELSE IF ~ Sees(site, u, site.parent[u])
                 THEN IF site.blocked = "throws" THEN <<CrossOriginSegment>> ELSE <<>>
            ELSE IF ~ site.sameRealm THEN <<>>
            ELSE Append(own[site.parent[u]], SegmentOf(site, u))
    IN  own[w]

\* The windows on the way from the top to w, w excluded.
Ancestors(site, w) ==
    LET above[u \in site.windows] ==
            IF u = Top THEN {} ELSE above[site.parent[u]] \cup {site.parent[u]}
    IN  above[w]

\* The frames from the top to w as they are; no script may see all of them.
TruePath(site, w) ==
    LET path[u \in site.windows] ==
            IF u = Top THEN <<>> ELSE Append(path[site.parent[u]], SegmentOf(site, u))
    IN  path[w]

\* listChildFrameEntries finds the frames of a document its caller may read.
ListsChildrenOf(site, u) == u = Top \/ (Sees(site, Top, u) /\ site.sameRealm)

\* The top script's search of the whole page for a window it was sent a message by.
ResolveFramePathByWindowRef(site, w) ==
    IF \A u \in Ancestors(site, w) : ListsChildrenOf(site, u) THEN TruePath(site, w) ELSE <<>>

\* frameMeta: the script's own path, behind the prefix it was given.
FrameMeta(site, w, prefix) ==
    LET own == BuildFramePathSegments(site, w)
    IN  IF prefix = <<>> THEN own
        ELSE IF own = <<>> THEN prefix
        ELSE IF PathStartsWith(own, prefix) THEN own
        ELSE IF PathStartsWith(prefix, own) THEN prefix
        ELSE prefix \o own

\* What the top script makes of a path that came with a message from w.
NormalizeSyncMeta(site, framePath, w) ==
    LET derived == ResolveFramePathByWindowRef(site, w)
    IN  IF w = Top \/ derived = <<>> THEN framePath
        ELSE IF PathStartsWith(derived, framePath) THEN derived
        ELSE IF PathStartsWith(framePath, derived) THEN framePath
        ELSE derived \o framePath

\* Deviation: the prefix is put in front of every path.
AlwaysPrefixes(path, prefix) == prefix \o path

MergeFramePathWithPrefix(path, prefix) ==
    LET first == path[1]
        crossOriginOnly ==
            /\ first.crossOrigin
            /\ "" = first.id /\ "" = first.name /\ "" = first.src /\ <<>> = first.selector
    IN  IF prefix = <<>> THEN path
        ELSE IF path = <<>> THEN prefix
        ELSE IF PathStartsWith(path, prefix) THEN path
        ELSE IF PathStartsWith(prefix, path) \/ crossOriginOnly THEN prefix
        ELSE prefix \o path

\* The path of a pick that reached the top script from w.
NormalizePickResultPath(site, framePath, w) ==
    LET source == IF w = Top THEN <<>> ELSE ResolveFramePathByWindowRef(site, w)
    IN  MergeFramePathWithPrefix(framePath, source)

----------------------------------------------------------------------------
(* Selectors of the frames of a path *)

AttrScore(attr) ==
    LET given == rules.frame.attributeScoreOverrides
    IN  IF attr \in DOMAIN given THEN given[attr] ELSE IF attr = "data-testid" THEN 93 ELSE 88

AttrCandidates(segment) ==
    LET Listed(hint) == Offer(TRUE, <<"css", hint[1], hint[2]>>, AttrScore(hint[1]))[1]
    IN  SetToSeq({ Listed(hint) : hint \in segment.attrHints })

SourceCandidates(segment) ==
    LET hints == segment.attrHints
        lead == CHOOSE hint \in hints : hint[1] = "data-testid" \/ Cardinality(hints) = 1
    IN  Offer(segment.srcHostPath # "" /\ hints # {},
              <<"css", "src^ and attr", segment.srcHostPath, lead[2]>>,
              IF hints # {} /\ lead[1] = "data-testid" THEN 96 ELSE 91)
          \o Offer(segment.srcStableFragment # "", <<"css", "src*", segment.srcStableFragment>>,
                   IF segment.srcStableFragment = "product=1" THEN 96 ELSE 90)
          \o Offer(segment.srcHostPath # "", <<"css", "src^", segment.srcHostPath>>, 92)

ShapeCandidates(segment) ==
    Offer(segment.frameBorder # "", <<"css", "border", segment.frameBorder>>, 84)
      \o Offer(segment.frameBorder # "" /\ segment.srcHostPath # "",
               <<"css", "border and src^", segment.srcHostPath>>, 93)
      \o Offer(TRUE, segment.selector, 82)
      \o Offer(segment.index >= 0, <<"css", "nth", "", segment.index>>, 64)
      \o Offer(segment.index >= 0 /\ segment.frameBorder # "",
               <<"css", "border and nth", segment.frameBorder, segment.index>>, 78)

\* Deviation: a generated id is offered as if it were a stable one.
TrustsEveryId(segment) == Offer(segment.id # "", <<"css", "id", segment.id>>, 99)

\* A generated id is offered only to a frame that has nothing better.
FrameIdCandidates(segment) ==
    LET identified == segment.srcHostPath # "" \/ segment.name # "" \/ segment.attrHints # {}
    IN  Offer(segment.idStable, <<"css", "id", segment.id>>, 99)
          \o Offer(segment.idStable, <<"css", "tag#id", segment.id>>, 98)
          \o OfferVolatile(segment.id # "" /\ ~ segment.idStable /\ ~ identified,
                           <<"css", "tag#id", segment.id>>, 34)

FrameNameCandidate(segment) ==
    Offer(Stable(segment.name), <<"css", "name", segment.name>>, 94)
      \o OfferVolatile(IsLikelyDynamicToken(segment.name), <<"css", "name", segment.name>>, 26)

BuildFrameSegmentSelectorCandidates(segment) ==
    IF segment.crossOrigin THEN <<>>
    ELSE LET listed == FrameIdCandidates(segment) \o FrameNameCandidate(segment)
                         \o AttrCandidates(segment) \o SourceCandidates(segment)
                         \o ShapeCandidates(segment)
         IN  Cut(NormalizedPrimaryCandidates(ByScore(KeepFirst(listed))), rules.frame.maxCandidates)

BuildFrameLocatorChain(path) ==
    [ depth \in DOMAIN path |->
        LET listed == BuildFrameSegmentSelectorCandidates(path[depth])
        IN  [ depth |-> depth - 1, crossOrigin |-> path[depth].crossOrigin,
              index |-> path[depth].index,
              primary |-> PrimaryOf(listed).value,
              selectorCandidates |-> listed ] ]

----------------------------------------------------------------------------
(* The designer's reading of a path and of its selectors *)

\* A segment that says nothing of its frame is dropped.
NormalizePickerFramePath(path) ==
    SelectSeq(path, LAMBDA segment : segment.hint # <<>> \/ segment.index >= 0)

NormalizePickerFrameLocatorChain(chain) ==
    LET Read(item) == [item EXCEPT !.selectorCandidates = NormalizePickerCandidates(@)]
        Says(item) == item.depth >= 0 \/ item.index >= 0 \/ item.primary # <<>>
    IN  SelectSeq([i \in DOMAIN chain |-> Read(chain[i])], Says)
=============================================================================
