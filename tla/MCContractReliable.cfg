SPECIFICATION FairSpec
CONSTANTS
    Senders = {m1, m2}
    Loop = loop
    Stopper = stopper
    Simple = FALSE
    Concurrent = FALSE
    MaxBlock = 6
    Lifetime = 2
    None = None
INVARIANTS NoFalseExpiry
PROPERTIES MessageSettles DeliversMessages
CHECK_DEADLOCK FALSE
