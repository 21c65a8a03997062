CONSTANTS
    Handlers = {h1, h2}
    Reconcilers = {r1}
    Attempts = 3
    CloseRounds = 3
    MaxCopies = 0
    MaxFaults = 1
SPECIFICATION FairSpec
PROPERTIES DebtSettled CancelStops 
CHECK_DEADLOCK FALSE
