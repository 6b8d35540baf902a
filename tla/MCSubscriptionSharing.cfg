SPECIFICATION FairSpec
CONSTANTS
    m1 = m1
    t1 = t1
    t2 = t2
    a1 = a1
    a2 = a2
    Tabs = {t1, t2}
    Addresses = {a1}
    Kinds = {"state", "transactions"}
    Calls = {c1}
    Messages = {m1, m2}
    Stoppers = {}
    To <- ToSame
    From <- FromApart
    Overlapping = FALSE
    None = None
INVARIANTS NoneLeftOver
PROPERTIES MessagesAreAnswered TurnsEnd
