CONSTANTS
    Engines = {e1, e2}
    Users = {u1}
    AlertIds = {a1}
    Tiers <- TwoTiers
    Lease = 2
    ListLimit = 2
    MaxClock = 4
    MaxReadings = 4
SPECIFICATION Spec
SYMMETRY Symmetry
INVARIANTS NoStepSkipped OverlapMeansExpired
PROPERTIES  ImplementsLifecycle
