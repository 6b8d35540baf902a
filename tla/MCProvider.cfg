SPECIFICATION ApiSpec
CONSTANTS
    r1 = r1
    r2 = r2
    a1 = a1
    a2 = a2
    o1 = o1
    o2 = o2
    NoAccount = NoAccount
    Requests = {r1, r2}
    Origins = {o1, o2}
    Accounts = {a1, a2}
    MaxTempOrigins = 1
    ApiWorkloads <- MCApiWorkloads
INVARIANTS ApprovalsHaveWaiters PermissionsAreGranted
PROPERTY RequestsEnd
CHECK_DEADLOCK FALSE
