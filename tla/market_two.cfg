SPECIFICATION FairSpec
CONSTANTS
    p1 = p1
    p2 = p2
    g1 = g1
    g2 = g2
    f1 = f1
    NoPlayer = NoPlayer
    NoOrder = NoOrder
    NoGood = NoGood
    Player = {p1, p2}
    Good = {g1, f1}
    KindOf <- PetsAndFashion
    Grantable <- Pets
    Price = {1}
    Purse = 1
    MaxReqs = 3
CHECK_DEADLOCK FALSE
INVARIANTS NotForked NotLost  RecordIsTrue PaidOnce
PROPERTIES SoldIsPaid EveryHandlerEnds
