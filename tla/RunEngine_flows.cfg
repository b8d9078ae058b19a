\* Every small flow, valid or not, from both ways in, and nested loops.
SPECIFICATION FairSpec
CONSTANTS
    None = None
    Submissions <- AllSubmissions
INVARIANTS
    LoopStateFits
    NeverStuck
PROPERTIES
    EveryItemOnce
    RunEnds
CHECK_DEADLOCK FALSE
