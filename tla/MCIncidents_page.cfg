\* Two requests at once from two windows: syncs of two sources, areas, stations, the feed.
SPECIFICATION IncidentsSpec
CONSTANTS
    w1 = w1  w2 = w2  p1 = p1  p2 = p2  s1 = s1  s2 = s2  z1 = z1  z2 = z2  z3 = z3  x1 = x1  c1 = c1
    Windows <- TwoWindows
    Slots <- TwoSlots
    Sources <- TwoSources
    Zones <- OneOrTwo
    FeedItems <- OneItem
    Callsigns <- OneStation
    None = None
    MaxIncidents = 2
    MaxSyncs = 2
    MaxRequests = 4
    MaxOf = 2
SYMMETRY Symmetry
INVARIANTS RowsAgree SyncIsWhole AreaAsChosen OneIncidentPerItem
CHECK_DEADLOCK FALSE
