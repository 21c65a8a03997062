SPECIFICATION FairSpec
CONSTANTS
    Answers <- JustStored
    Drainers = {d1}
    Handlers = {h1}
    Expires = 2
    Lease = 1
    Cap = 20
    Hour = 240
    Keep = 0
    MaxClock = 3
    MaxFaults = 1
    MaxRepeats = 1
INVARIANT StateIsReduction
INVARIANT PublishedWasSent
INVARIANT StoppedOnEvidence
PROPERTY StateNeverWeakens
PROPERTY Decided
PROPERTY EventsReachSender
