\* Two restarts, two commands, two faults, two ports.
SPECIFICATION FairSpec
CONSTANTS
    Ports = {1, 2}
    Threshold = 2
    MaxRestarts = 2
    MaxCommands = 2
    MaxFaults = 2
PROPERTIES
    StoppedStaysStopped
    ApiIsKept
CHECK_DEADLOCK FALSE
