SPECIFICATION FairSpec
CONSTANTS
    Senders = {m1, m2}
    Loop = loop
    Stopper = stopper
    Simple = FALSE
    Concurrent = TRUE
    MaxBlock = 4
    Lifetime = 1
    None = None
INVARIANTS FreedWhenUnused StopSkipsTimer
PROPERTIES StopEnds
CHECK_DEADLOCK FALSE
