SPECIFICATION TimedSpec
CONSTANTS
    Player = {p1}
    Conn = {c1, c2}
    None = None
    OutCap = 1
    MaxMsgs = 1
    Offset = 1
    MaxFrame = 2
CHECK_DEADLOCK FALSE
INVARIANTS ConnectionsAreSound FramesInOrder
PROPERTIES GameStepsAreSound EveryGameEnds
