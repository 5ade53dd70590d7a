\* Two requests at once, on a new instance, with restarts.
SPECIFICATION Spec
CONSTANTS
    root = root  u1 = u1  u2 = u2  o1 = o1  o2 = o2  p1 = p1  p2 = p2
    Users <- MCUsers
    Reserved = root
    Orgs <- TwoOrgs
    None = None
    Extras <- MCExtras
    NetRoles <- MCNetRoles
    Default = "net_control_op"
    Slots <- TwoSlots
    MaxRequests = 3
SYMMETRY Symmetry
INVARIANTS TypeOK AdministratorStands NothingStranded MixedSharesOverlap ShownIsGranted
CHECK_DEADLOCK FALSE
