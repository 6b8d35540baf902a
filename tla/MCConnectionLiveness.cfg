SPECIFICATION FairSpec
CONSTANTS
    u1 = u1
    u2 = u2
    u3 = u3
    s0 = s0
    s1 = s1
    s2 = s2
    Users = {u1, u2}
    Switchers = {s0, s1, s2}
    Sync = s0
    Networks = {1, 2}
    Default = 1
    Group <- MCGroup
    Local <- MCLocal
    SaveMayFail = FALSE
    None = None
INVARIANTS SettledNetwork
PROPERTIES SwitchesEnd UsersAreServed
