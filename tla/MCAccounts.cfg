SPECIFICATION FairAccountSpec
CONSTANTS
    a1 = a1
    a2 = a2
    r1 = r1
    g1 = g1
    g2 = g2
    c1 = c1
    c2 = c2
    Accounts = {a1, a2}
    Roots = {r1}
    Groups = {g1, g2}
    Calls = {c1, c2}
    Messages = {m1}
    To <- ToFirst
    Workloads <- MCWorkloads
    Books <- MCBooks
    None = None
INVARIANTS NoOrphanWallet WaitingIsWatched ShownIsStored TokensAreListed
PROPERTIES CallsEnd SendersAreAnswered
CHECK_DEADLOCK FALSE
