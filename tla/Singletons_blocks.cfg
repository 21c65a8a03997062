SPECIFICATION Spec
CONSTANTS
    Replicas = {r1, r2}
    MaxLosses = 1
    MaxStops = 0
INVARIANT BlocksUntilCancelled
