\* Requests that overlap, requests one at a time that may die half way, openings.
SPECIFICATION MCSpec
CONSTANTS
    ncs = ncs  op1 = op1  op2 = op2
    call1 = call1  call2 = call2
    p1 = p1  p2 = p2
    Users <- ThreeUsers
    FullAccess <- Ncs
    Callsigns <- TwoCallsigns
    NoCallsign = NoCallsign
    OwnCallsigns <- Own
    Slots <- TwoSlots
    Failures = TRUE
    Ops <- AllOps
    MaxSessions = 2
    MaxSchedules = 1
    MaxPlan = 2
    MaxCheckins = 3
INVARIANTS DoubleOccupancyIsRaced OneNetControl Referential
PROPERTIES SelfServiceClosesOwn EndedStaysQuiet ImplementsManning OpeningsFinish
CHECK_DEADLOCK FALSE
