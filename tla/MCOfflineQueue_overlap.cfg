\* Both replay one family's check-ins, and may be stopped at any point.
SPECIFICATION FairSpec
CONSTANTS
    i1 = i1  i2 = i2  call1 = call1  call2 = call2
    page = page  worker = worker
    Items <- TwoItems
    CallOf <- SharedCall
    Gmrs = TRUE
    Flushers <- Flushing
    NoItem = NoItem
    Crashes = TRUE
    MaxFaults = 3
INVARIANTS OneSender DoubleIsUntold NothingLost
PROPERTIES RefusedStaysRefused SettledUnlessOrphaned
CHECK_DEADLOCK FALSE
