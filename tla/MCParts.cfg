SPECIFICATION FairPartsSpec
CONSTANTS
    Parts = {"transactions", "token", "ledger", "gql", "keys", "streams", "forms", "state", "management"}
    u1 = u1
    u2 = u2
    l1 = l1
    l2 = l2
    k1 = k1
    k2 = k2
    x1 = x1
    x2 = x2
    f1 = f1
    f2 = f2
    f3 = f3
    q1 = q1
    q2 = q2
    q3 = q3
    t1 = t1
    t2 = t2
    o1 = o1
    o2 = o2
    s1 = s1
    s2 = s2
    w1 = w1
    w2 = w2
    w3 = w3
    m1 = m1
    m2 = m2
    m3 = m3
    seedA = seedA
    seedB = seedB
    Seeds = {seedA, seedB}
    LedgerSeeds = {seedB}
    SeedKeys = {m1, m2, m3}
    SeedOf <- MCSeedOf
    FirstKeyOf <- MCFirstKeyOf
    Wallets = {w1, w2, w3}
    OwnerOf <- MCOwnerOf
    Custody <- MCCustody
    Kept <- MCKept
    MaxHandlers = 2
    Nobody = Nobody
    SignKeys = {s1, s2}
    MaxEdits = 2
    NoMessage = NoMessage
    MaxVersion = 2
    MaxMetadata = 1
    MaxQueue = 2
    NoState = NoState
    Chains <- MCChains
    Ids = {"0", "1", "2"}
    Custodians = {"owner", "other", "third"}
    Tables <- MCTables
    Users = {u1, u2}
    Loop = Loop
    MaxRefreshes = 3
    LedgerCalls = {l1, l2}
    PerPage = 2
    MaxPage = 2
    OtherAccounts = {0}
    Endpoints = {e1, e2, e3}
    Queries = {d1, d2}
    Latencies = {0, 1, 5, 7}
    MaxLatency = 2
    Retries = 2
    NoEndpoint = NoEndpoint
    Keys = {k1, k2}
    KeyCalls = {x1, x2}
    KeyWorkloads <- MCKeyWorkloads
    MaxRecent = 1
    NoKey = NoKey
    Frames = {f1, f2, f3}
    Origin <- MCOrigin
    Tab <- MCTab
    Requests = {q1, q2, q3}
    Frame <- MCFrame
    Batch <- MCBatch
    MaxId = 4
    FirstIds = {1}
    NoRequest = NoRequest
INVARIANTS SignedAsPrepared SignsOnce AggregatesWhatIsFound RefreshesLiveWallet PagesAreOwn EndpointIsFastest KeysShownAreStored RegistriesKnowThePages KeysOutliveAccounts SelectedIsListed
PROPERTIES ChangesAreShown TokenStopEnds CallsAreAnswered
CHECK_DEADLOCK FALSE
