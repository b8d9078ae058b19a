SPECIFICATION Spec
CONSTANTS
    MaxCases = 2
    Types <- MCTypes
    Conditions <- MCConditions
    CaseLists <- MCCaseLists
    Recordings <- MCRecordings
    LoadedFlows <- MCLoadedFlows
    MaxNodes = 6
    MaxEdges = 7
    MaxEdits = 3
    Gap = 20

PROPERTY ImportIsReached
CHECK_DEADLOCK FALSE
