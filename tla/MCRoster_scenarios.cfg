\* Submissions that overlap, and requests one at a time that may die half way.
SPECIFICATION MCSpec
CONSTANTS
    call1 = call1  zoneA = zoneA  zoneB = zoneB
    p1 = p1  p2 = p2
    Callsigns <- OneCallsign
    NoCallsign = NoCallsign
    Zones <- TwoZones
    NoZone = NoZone
    Gmrs = FALSE
    Sheets <- MCSheets
    Slots <- TwoSlots
    Failures = TRUE
    Ops <- AllOps
    MaxSessions = 2
    MaxZones = 1
    MaxCheckins = 3
SYMMETRY Symmetry
INVARIANTS DuplicateIsRaced FirstIsRaced ListKeepsUp
PROPERTIES ClosedStaysQuiet
CHECK_DEADLOCK FALSE
