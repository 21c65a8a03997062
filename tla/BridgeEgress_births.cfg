SPECIFICATION Spec
CONSTANTS
    r1 = r1
    r2 = r2
    east = east
    west = west
    None = None
    Replicas = {r1, r2}
    Readers = {r1}
    Tickers = {r1}
    Bridges = {east, west}
    Says <- MCSays
    Legacy = west
    MaxBirths = 2
    MaxLinks = 2
    MaxFaults = 1
INVARIANTS HeldUntilStored AnswerIsCurrent
PROPERTIES  AttemptLetsGo
CHECK_DEADLOCK FALSE
