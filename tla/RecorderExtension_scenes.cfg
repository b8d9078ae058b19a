\* Picks that overlap, a page of two frames, and recordings.
SPECIFICATION Spec
CONSTANTS
    t1 = t1
    t2 = t2
    n1 = n1
    n2 = n2
    Tabs <- TwoTabs
    Nodes <- TwoNodes
    MaxKept = 2
    Scenes <- ThreeScenes
INVARIANTS
    ResultForItsNode
    PickModeEnds
PROPERTY OfferedFromOpenTab
SYMMETRY Symmetry
CHECK_DEADLOCK FALSE
