------------------------- MODULE MCRecorderExtension -------------------------
(* Small instances of RecorderExtension; tabs are alike, and nodes are.         *)
EXTENDS RecorderExtension, TLC

CONSTANTS t1, t2, n1, n2

TwoTabs == {t1, t2}
TwoNodes == {n1, n2}
Symmetry == Permutations(TwoTabs) \union Permutations(TwoNodes)

Acting(designs, uses, browses, records, natives) ==
    [a \in Actors |-> CASE a = "designer" -> designs [] a = "user" -> uses [] a = "browser" -> browses
                        [] a = "recorder" -> records [] a = "native" -> natives]

\* Picks that overlap, a page of two frames, and recordings.
Picking == [framed |-> {}, acts |-> Acting(3, 2, 0, 0, 0)]
Framing(t) == [framed |-> {t}, acts |-> Acting(1, 2, 1, 0, 1)]
Recording == [framed |-> {}, acts |-> Acting(0, 1, 3, 3, 1)]
ThreeScenes == {Picking, Recording, Framing(t1), Framing(t2)}
=============================================================================
