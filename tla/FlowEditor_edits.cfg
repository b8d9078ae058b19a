SPECIFICATION Spec
CONSTANTS
    MaxCases = 2
    Types <- MCTypes
    Conditions <- MCConditions
    CaseLists <- MCCaseLists
    Recordings <- MCRecordings
    LoadedFlows <- MCLoadedFlows
    MaxNodes = 6
    MaxEdges = 7
    MaxEdits = 3
    Gap = 20
INVARIANTS FlowIntact
PROPERTIES AddingCutsNothing NoEdgeAtLostPort
CHECK_DEADLOCK FALSE
