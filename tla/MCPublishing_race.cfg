\* Two requests at once: a session, posts, the inbox, the actor's key, the directory's key.
SPECIFICATION PublishingSpec
CONSTANTS
    p1 = p1  p2 = p2  a1 = a1  a2 = a2  s = s
    Slots <- TwoSlots
    Actors <- TwoActors
    Shared = s
    None = None
    MaxPosts = 2
    MaxKeys = 3
    MaxRequests = 6
    MaxOf = 3
SYMMETRY Symmetry
INVARIANTS OnlyRacesRepeat OnePostEach KeyIsKept
CHECK_DEADLOCK FALSE
