\* Two API threads, a native host and a crash race on one session.
SPECIFICATION FairSpec
CONSTANTS
    Sessions = {s1}
    Threads = {a, b}
    Hosts = {h}
    Timeout = 1
    Free = Free
    MaxTime = 1
    MaxMessages = 3
    MaxCrashes = 1
INVARIANTS
    OneDecision
PROPERTIES
    AtMostOncePull
    ExpiredEnds
    SucceededIsStored
CHECK_DEADLOCK FALSE
