SPECIFICATION Spec
CONSTANTS
    t1 = t1
    t2 = t2
    n1 = n1
    n2 = n2
    Tabs <- MCTabs
    Nodes <- MCNodes
    MaxSessions = 2
    MaxActs = 3
    MaxFaults = 1
INVARIANTS OkIsStored StoredOnce WrittenWhereStarted
PROPERTY RefusedWithReason
SYMMETRY Symmetry
CHECK_DEADLOCK FALSE
