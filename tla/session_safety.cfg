CONSTANTS
    s1 = s1
    s2 = s2
    s3 = s3
    p1 = p1
    o1 = o1
    Session = {s1, s2, s3}
    Player = {p1}
    Op = {o1}
    LoginPid = LoginPid
    NoPid = NoPid
    MaxCmds = 1
    MaxKicks = 0
SPECIFICATION Spec
SYMMETRY Symmetry
INVARIANTS
    TypeOK
    NoZombie
    EntryIsAlive
    NothingLost
    ReplacedIsKicked
CHECK_DEADLOCK FALSE
PROPERTY KeepsStep
