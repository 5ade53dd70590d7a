\* Two workers, two requests at once, over the live data, one language and one licence.
SPECIFICATION Spec
CONSTANTS
    w1 = w1  w2 = w2  p1 = p1  p2 = p2  o1 = o1  o2 = o2  t1 = t1
    Workers <- TwoWorkers
    Slots <- TwoSlots
    Orgs <- TwoOrgs
    Texts <- OneText
    None = None
    TTL <- Lifetimes
    RedisModes <- OnOrOff
    MaxTime = 2
    MaxRequests = 5
    MaxOf = 5
SYMMETRY Symmetry
INVARIANTS NewestIsServed OptInListed SomebodyInstalls
PROPERTIES FoundIsKept
CHECK_DEADLOCK FALSE
