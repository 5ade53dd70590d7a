\* Two sign-ups in flight, of users who own, share and administer the net by turns.
SPECIFICATION Spec
CONSTANTS
    u1 = u1  u2 = u2   s1 = s1   d1 = d1  p1 = p1  p2 = p2
    Users <- TwoUsers  Members <- TwoUsers
    Schedules <- OneSchedule  Dates <- OneDate
    HasBroadcast = TRUE
    Slots <- TwoSlots
    MaxSignups = 1
SYMMETRY Symmetry
INVARIANTS DoubleDutyIsRaced
PROPERTIES DutyIsEntrusted
