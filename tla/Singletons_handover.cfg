SPECIFICATION FairSpec
CONSTANTS
    Replicas = {r1, r2}
    MaxLosses = 1
    MaxStops = 2
INVARIANT OneLeads
 
PROPERTY RunsAgain
PROPERTY LoserStops
