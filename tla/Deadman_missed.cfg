SPECIFICATION FairSpec
CONSTANTS
    Kinds <- OnlyCheckIns
    Scanners = {s1}
    Callers = {c1}
    Intervals = {1}
    Grace = 1
    SnoozeFor = 2
    MaxClock = 6
    MaxCalls = 1
    MaxFaults = 0
PROPERTY SilenceAlerts
CHECK_DEADLOCK FALSE
