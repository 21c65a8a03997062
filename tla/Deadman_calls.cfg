SPECIFICATION FairSpec
CONSTANTS
    Kinds <- AllKinds
    Scanners = {s1}
    Callers = {c1, c2}
    Intervals = {1, 2}
    Grace = 1
    SnoozeFor = 2
    MaxClock = 6
    MaxCalls = 2
    MaxFaults = 1
INVARIANT OnlySilentAlerts
 
PROPERTY OverdueIsFlagged
CHECK_DEADLOCK FALSE
