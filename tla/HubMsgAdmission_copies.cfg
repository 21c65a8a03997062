SPECIFICATION IngressFairSpec
CONSTANTS
    h1 = h1
    h2 = h2
    o1 = o1
    o2 = o2
    m1 = m1
    g1 = g1
    g2 = g2
    None = None
    Intake = {h1, h2}
    Submissions <- Three
INVARIANT IngressTypeOK
INVARIANT AdmittedIsStored
INVARIANT OneDigestUntilPrune
PROPERTY AdmittedOnce
PROPERTY EveryCopyDecided
