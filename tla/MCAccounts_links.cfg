\* Two requests at once on one account: links, sign-ins, changes of the address, restarts.
SPECIFICATION Spec
CONSTANTS
    a = a  c = c  p1 = p1  p2 = p2  w1 = w1
    Addresses <- Spellings
    Callsign = c
    Passwords <- OnePassword
    Unset = "unset"
    None = None
    TTL <- Lifetimes
    MailUp <- OnOrOff
    Slots <- TwoSlots
    MaxTime = 2
    MaxRequests = 6
SYMMETRY Symmetry
INVARIANTS LinksAreLive VerifiedIsConfirmed NewestLinkWorks
CHECK_DEADLOCK FALSE
