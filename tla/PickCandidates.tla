--------------------------- MODULE PickCandidates ---------------------------
(* The selectors offered for a picked element: how the page lists, scores and *)
(* ranks them (content.js), and how the designer reads the ranked list it is  *)
(* sent (useDesignerState.ts).                                                *)
(*                                                                            *)
(* An element is a record of the attributes the rules look at; an attribute   *)
(* that is not there is "". A selector is a tuple: its language, what it goes *)
(* by, and the attribute's value. Two selectors are the same text exactly if  *)
(* they are the same tuple. Scores are in hundredths. `shared` is the set of  *)
(* things the element has in common with Crowd - 1 others, which is all a     *)
(* match count depends on. Truncation of long texts is left out.              *)
EXTENDS PickerRules, FiniteSetsExt

VARIABLE rules      \* pickerRuleState.rules
Crowd == 5

\* Values that look generated, and texts that look like a date or a time.
IsLikelyDynamicToken(value) ==
    \/ Recognises(rules.selector.dynamicTokenPatterns, value)
    \/ Recognises(rules.frame.dynamicIdPatterns, value)
IsLikelyDynamicText(text) == Recognises(rules.selector.dynamicTextPatterns, text)
PickStableInlineText(text) == IF IsLikelyDynamicText(text) THEN "" ELSE text
Stable(token) == token # "" /\ ~ IsLikelyDynamicToken(token)

InferRoleFromTag(e) ==
    CASE e.tag = "button" -> "button"
      [] e.tag = "a" -> "link"
      [] e.tag \in {"input", "textarea"} -> "textbox"
      [] e.tag = "select" -> "combobox"
      [] OTHER -> ""
RoleOf(e) == IF e.role # "" THEN e.role ELSE InferRoleFromTag(e)

FirstOf(texts) ==
    LET said == SelectSeq(texts, LAMBDA t : t # "")
    IN  IF said = <<>> THEN "" ELSE Head(said)

----------------------------------------------------------------------------
(* Lists of candidates *)

SelectorTypeFromValue(value, fallback) ==
    IF value[1] \in {"xpath", "text", "role"} THEN value[1] ELSE fallback

Offer(when, value, score) ==
    IF when THEN <<[type |-> value[1], value |-> value, score |-> score,
                    volatile |-> FALSE, primary |-> FALSE]>>
    ELSE <<>>
OfferVolatile(when, value, score) ==
    IF when THEN <<[Offer(TRUE, value, score)[1] EXCEPT !.volatile = TRUE]>> ELSE <<>>

\* Of two candidates with the same type and value the first stays.
KeepFirst(list) ==
    FoldLeft(LAMBDA kept, c :
                 IF \E i \in DOMAIN kept : kept[i].type = c.type /\ kept[i].value = c.value
                 THEN kept ELSE Append(kept, c), <<>>, list)

\* A stable sort, the highest score first.
ByScore(list) ==
    LET Before(i, j) == list[i].score > list[j].score \/ (list[i].score = list[j].score /\ i < j)
        order == SortSeq([i \in DOMAIN list |-> i], Before)
    IN  [k \in DOMAIN list |-> list[order[k]]]

Cut(list, n) == SubSeq(list, 1, IF Len(list) < n THEN Len(list) ELSE n)

Marked(list, chosen) == [i \in DOMAIN list |-> [list[i] EXCEPT !.primary = (i = chosen)]]

\* Deviation: the last candidate is marked.
MarksLast(candidates) ==
    Marked([i \in DOMAIN candidates |-> [candidates[i] EXCEPT !.score = Clamp01(@)]],
           Len(candidates))

\* The first candidate marked primary stays so; without one, the first.
NormalizedPrimaryCandidates(candidates) ==
    LET list == [i \in DOMAIN candidates |-> [candidates[i] EXCEPT !.score = Clamp01(@)]]
        primaries == { i \in DOMAIN list : list[i].primary }
    IN  Marked(list, IF primaries = {} THEN 1 ELSE Min(primaries))

----------------------------------------------------------------------------
(* The page's two lists *)

\* With an id, both the CSS path and the XPath stop at it.
CssPath(e) == IF e.id # "" THEN <<"css", "id", e.id>> ELSE <<"css", "path", "">>
XPath(e) == IF e.id # "" THEN <<"xpath", "id", e.id>> ELSE <<"xpath", "path", "">>

\* Deviation: a generated id counts like any other.
IdAtFaceValue(e) == Offer(e.id # "", <<"css", "id", e.id>>, 98)

IdCandidate(e) ==
    Offer(Stable(e.id), <<"css", "id", e.id>>, 98)
        \o OfferVolatile(IsLikelyDynamicToken(e.id), <<"css", "id", e.id>>, 24)

RoleCandidate(e, accessibleName) ==
    Offer(RoleOf(e) # "", <<"role", RoleOf(e), accessibleName>>,
          IF accessibleName # "" THEN 82 ELSE 68)

Preferred(attribute) == attribute \in Range(rules.selector.preferredAttributes)

RawCandidates(e) ==
    LET aria == PickStableInlineText(e.aria)
        title == PickStableInlineText(e.title)
        placeholder == PickStableInlineText(e.placeholder)
        text == PickStableInlineText(e.text)
    IN  IdCandidate(e)
          \o Offer(Preferred("data-testid") /\ Stable(e.testid), <<"css", "testid", e.testid>>, 96)
          \o Offer(Preferred("sign") /\ Stable(e.sign), <<"css", "sign", e.sign>>, 87)
          \o Offer(Stable(e.name), <<"css", "name", e.name>>, 89)
          \o Offer(aria # "", <<"css", "aria", aria>>, 88)
          \o Offer(title # "", <<"css", "title", title>>, 83)
          \o Offer(placeholder # "", <<"css", "placeholder", placeholder>>, 82)
          \o RoleCandidate(e, FirstOf(<<aria, title, placeholder, text>>))
          \o Offer(text # "" /\ e.tag \in Range(rules.selector.textFriendlyTags), <<"text", "text", text>>, 73)
          \o Offer(TRUE, CssPath(e), 62)
          \o Offer(TRUE, XPath(e), 58)

\* countCssMatches and countXPathMatches; -1 for the languages they do not count.
Uniqueness(e, c) ==
    IF c.type \notin {"css", "xpath"} THEN -1
    ELSE IF c.value[2] \in e.shared THEN Crowd ELSE 1

NoisySelector(e, c) == c.type = "css" /\ c.value[2] = "path" /\ "path" \in e.noisy

Rescored(e, c) ==
    LET count == Uniqueness(e, c)
        crowding == IF count = 1 THEN 8
                    ELSE IF count > 1 THEN - (IF 6 * (count - 1) < 32 THEN 6 * (count - 1) ELSE 32)
                    ELSE 0
        noise == IF NoisySelector(e, c) THEN 8 ELSE 0
        nameless == IF c.type = "role" /\ c.value[3] = "" THEN 10 ELSE 0
        volatile == IF c.volatile THEN 18 ELSE 0
    IN  [c EXCEPT !.type = SelectorTypeFromValue(c.value, @),
                  !.score = Clamp01(@ + crowding - noise - nameless - volatile)]

BuildSelectorCandidates(e) ==
    LET kept == KeepFirst(RawCandidates(e))
        ranked == ByScore([i \in DOMAIN kept |-> Rescored(e, kept[i])])
    IN  Cut(Marked(ranked, 1), rules.selector.maxCandidates)

LabelText(e) == PickStableInlineText(e.label)              \* findAssociatedLabelText
LabelledByText(e) == PickStableInlineText(e.labelledBy)    \* readAriaLabelledByText

\* A candidate of the first list, as the second one takes it over.
Legacy(c) ==
    LET type == SelectorTypeFromValue(c.value, c.type)
    IN  [c EXCEPT !.type = type, !.primary = FALSE,
                  !.score = Clamp01(@ + (IF type = "css" /\ ~ c.volatile THEN 3 ELSE -4)
                                      - (IF c.volatile THEN 14 ELSE 0))]

PlaywrightOwn(e) ==
    LET aria == PickStableInlineText(e.aria)
        title == PickStableInlineText(e.title)
        placeholder == PickStableInlineText(e.placeholder)
        label == LabelText(e)
        text == PickStableInlineText(e.text)
        name == FirstOf(<<aria, LabelledByText(e), label, placeholder, title, text>>)
        role == RoleOf(e)
    IN  Offer(Stable(e.testid), <<"css", "testid", e.testid>>, 99)
          \o Offer(role # "" /\ name # "", <<"role", role, name>>, 88)
          \o Offer(role # "", <<"role", role, "">>, 64)
          \o Offer(label # "", <<"text", "text", label>>, 79)
          \o Offer(placeholder # "", <<"text", "text", placeholder>>, 77)
          \o Offer(title # "", <<"text", "text", title>>, 75)
          \o Offer(text # "", <<"text", "text", text>>, 73)

BuildPlaywrightCandidates(e, selectorCandidates) ==
    LET legacy == [i \in DOMAIN selectorCandidates |-> Legacy(selectorCandidates[i])]
        kept == KeepFirst(PlaywrightOwn(e) \o legacy)
        nameless(c) == IF c.type = "role" /\ c.value[3] = "" THEN 6 ELSE 0
        ranked == ByScore([i \in DOMAIN kept |->
                              [kept[i] EXCEPT !.score = Clamp01(@ - nameless(kept[i]))]])
    IN  NormalizedPrimaryCandidates(Cut(ranked, rules.selector.maxCandidates))

----------------------------------------------------------------------------
(* The designer's reading of a list. It infers a type it does not know from   *)
(* the value and drops the reason.                                            *)

SupportedPickerSelectorTypes == {"css", "xpath", "text", "role", "playwright"}
InferSelectorTypeFromValue(value) == SelectorTypeFromValue(value, "css")

NormalizePickerSelectorType(type, fallback) ==
    IF type \in SupportedPickerSelectorTypes THEN type
    ELSE IF type \in {"id", "data-testid", "aria-label", "name", "path"} THEN "css"
    ELSE fallback

NormalizePickerCandidates(candidates) ==
    LET read == [i \in DOMAIN candidates |->
                    [type |-> NormalizePickerSelectorType(candidates[i].type,
                                  InferSelectorTypeFromValue(candidates[i].value)),
                     value |-> candidates[i].value,
                     score |-> Clamp01(candidates[i].score),
                     primary |-> candidates[i].primary]]
        primaries == { i \in DOMAIN read : read[i].primary }
    IN  Marked(read, IF primaries = {} THEN 1 ELSE Min(primaries))

NoCandidate == [type |-> "css", value |-> <<>>, score |-> 0]
PrimaryOf(list) ==
    LET primaries == { i \in DOMAIN list : list[i].primary }
    IN  IF list = <<>> THEN NoCandidate
        ELSE IF primaries # {} THEN list[Min(primaries)] ELSE list[1]
=============================================================================
