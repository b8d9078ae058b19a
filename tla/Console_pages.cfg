SPECIFICATION Spec
CONSTANTS
    w1 = w1
    w2 = w2
    Windows = {w1, w2}
    SampleId = "demo"
    SelfCheckId = "check"
    DraftIds = {"draft"}
    NoNodes = 0
    SampleText = 1
    Edits = {0, 2, 3}
    Mends <- MCMends
    SecretTexts = {3, 4}
    Listers = {w1}
    VersionCap = 2
    Events <- MCEvents
    MaxMoves = 5
    MaxFull = 1
    MaxRuns = 1
    MaxTasks = 2
INVARIANTS ListedFlowsExist SavedMeansStored ShownRunIsOne PageInRange
PROPERTIES OpeningKeepsTheFlow RunButtonComesBack
CHECK_DEADLOCK FALSE
