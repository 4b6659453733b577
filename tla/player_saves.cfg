SPECIFICATION FairSpec
CONSTANTS
    p1 = p1
    p2 = p2
    w1 = w1
    w2 = w2
    Login = Login
    Player = {p1, p2}
    Worker = {w1, w2}
    QueueSize = 1
    MaxChanges = 1
    MaxAsks = 2
    MaxStarts = 2
CHECK_DEADLOCK FALSE
INVARIANTS WorkersAreSound
PROPERTIES  ShutdownEnds
