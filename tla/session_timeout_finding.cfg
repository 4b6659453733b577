CONSTANTS
    s1 = s1
    s2 = s2
    p1 = p1
    o1 = o1
    Session = {s1, s2}
    Player = {p1}
    Op = {o1}
    LoginPid = LoginPid
    NoPid = NoPid
    MaxCmds = 1
    MaxKicks = 0
SPECIFICATION FairSpec
PROPERTY AbandonedGoesOffline
CHECK_DEADLOCK FALSE
