---------------------------- MODULE PickTargets -----------------------------
(* Which element a pointer picks (content.js, resolvePickTarget): elements    *)
(* are scored, and the pointed one gives way to a better one around it, below *)
(* it or inside it.                                                           *)
(*                                                                            *)
(* A view is what lies under the pointer: `nest`, elements each inside the    *)
(* one before it; `direct`, the one the event is for; `deepest`, the last     *)
(* the pointer is over; `far`, how much the distance from the pointer costs   *)
(* an element it is not over. An element is as in PickCandidates, with its    *)
(* role in the page (part), whether its text is too long to go by (long), its *)
(* siblings of the same kind (alike) and its children. Every element has a    *)
(* size. Scores are in hundredths.                                            *)
EXTENDS PickCandidates

NoElement == 0
Worst == -1000          \* -Infinity

\* normalizePickTargetCandidate: the picker's own interface, frames and the
\* page's scaffolding are no targets.
Pickable(e) == e.part = "content"

IsInteractiveTagName(tag) == tag \in {"button", "a", "input", "textarea", "select", "label"}
IsTextEntryElement(e) ==
    \/ e.tag \in {"textarea", "input"}
    \/ e.role \in {"textbox", "searchbox", "combobox"}

\* The elements of the nest that are inside element i.
Inside(view, i) == { j \in DOMAIN view.nest : j > i }
IsField(e) == IsTextEntryElement(e) \/ e.tag = "select"
HasInteractiveDescendant(view, i) ==
    \E j \in Inside(view, i) : IsField(view.nest[j]) \/ view.nest[j].tag = "button"

AttributeScore(e) ==
    LET Worth(value, points) ==
            IF value = "" THEN 0 ELSE IF IsLikelyDynamicToken(value) THEN -8 ELSE points
        If(attribute, points) == IF Preferred(attribute) THEN points ELSE 0
    IN  If("data-testid", Worth(e.testid, 18)) + If("sign", Worth(e.sign, 18))
          + If("name", Worth(e.name, 8)) + If("aria-label", Worth(e.aria, 8))
          + If("title", Worth(e.title, 8)) + If("placeholder", Worth(e.placeholder, 8))

TextScore(e) ==
    (IF e.text = "" THEN -5 ELSE IF e.long THEN -20 ELSE 6)
      - (IF e.long \/ IsLikelyDynamicText(e.text) THEN 16 ELSE 0)

ScorePickTargetCandidate(view, i) ==
    LET e == view.nest[i]
        If(condition, points) == IF condition THEN points ELSE 0
    IN  IF ~ Pickable(e) THEN Worst
        ELSE If(IsInteractiveTagName(e.tag), 22) + If(IsTextEntryElement(e), 38)
               + If(RoleOf(e) # "", 16)
               + If(Stable(e.id), 16) - If(IsLikelyDynamicToken(e.id), 22)
               + AttributeScore(e) + TextScore(e)
               - (IF e.children > 80 THEN 20 ELSE IF e.children > 24 THEN 12 ELSE 0)
               - If(~ IsInteractiveTagName(e.tag) /\ ~ IsTextEntryElement(e)
                      /\ HasInteractiveDescendant(view, i), 22)
               + If(e.alike >= 2, 12) + If(e.alike >= 4, 6)

----------------------------------------------------------------------------

NoneYet == [element |-> NoElement, score |-> Worst]

\* Deviation: a field gets no more than a control.
SameForFields(e) == IF IsTextEntryElement(e) \/ IsInteractiveTagName(e.tag) THEN 14 ELSE 0

\* What an element under the pointer has in advance.
PointedBonus(e) ==
    IF IsTextEntryElement(e) THEN 32 ELSE IF IsInteractiveTagName(e.tag) THEN 14 ELSE 0

\* One after the other, an element that is better by more than a margin wins.
Better(view, best, order, margin, Bonus(_)) ==
    FoldLeft(LAMBDA sofar, i :
                 LET score == ScorePickTargetCandidate(view, i) + Bonus(view.nest[i])
                 IN  IF Pickable(view.nest[i]) /\ score > sofar.score + margin
                     THEN [element |-> i, score |-> score] ELSE sofar,
             best, order)

Outward(i) == [k \in 1..i |-> i + 1 - k]

\* The field inside an element: the best, those under the pointer first.
FindDescendantPickTarget(view, container) ==
    LET fields == { j \in Inside(view, container) : IsField(view.nest[j]) /\ Pickable(view.nest[j]) }
        Score(j) == ScorePickTargetCandidate(view, j) + 20
                      + (IF IsTextEntryElement(view.nest[j]) THEN 28 ELSE 0)
                      + (IF j <= view.deepest THEN 42 ELSE - view.far)
        best == { j \in fields : \A k \in fields : Score(j) >= Score(k) }
    IN  IF fields = {} THEN NoElement ELSE Min(best)

ResolvePickTarget(view) ==
    LET NoBonus(e) == 0
        direct == IF Pickable(view.nest[view.direct])
                  THEN [element |-> view.direct,
                        score |-> ScorePickTargetCandidate(view, view.direct)]
                  ELSE NoneYet
        along == Better(view, direct, Outward(view.direct), 4, NoBonus)
        best == Better(view, along, Outward(view.deepest), 2, PointedBonus)
        field == IF best.element = NoElement \/ IsTextEntryElement(view.nest[best.element])
                 THEN NoElement ELSE FindDescendantPickTarget(view, best.element)
        fieldScore == ScorePickTargetCandidate(view, field)
                        + (IF IsTextEntryElement(view.nest[field]) THEN 24 ELSE 8)
    IN  IF field # NoElement /\ fieldScore >= best.score - 2 THEN field ELSE best.element
=============================================================================
