CONSTANTS
    Handlers = {h1}
    Reconcilers = {r1}
    Attempts = 3
    CloseRounds = 3
    MaxCopies = 2
    MaxFaults = 2
SPECIFICATION Spec
INVARIANTS  ToldOnce
PROPERTIES   ImplementsLifecycle
CHECK_DEADLOCK FALSE
