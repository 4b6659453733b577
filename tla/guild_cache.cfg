SPECIFICATION GuildFairSpec
CONSTANTS
    k1 = k1
    k2 = k2
    c1 = c1
    c2 = c2
    o1 = o1
    o2 = o2
    o3 = o3
    Key = {k1, k2}
    Change = {c1}
    Object = {o1, o2, o3}
    Capacity = 1
    MaxFails = 1
CHECK_DEADLOCK FALSE
INVARIANTS CacheIsSound PromisesAreKept
PROPERTIES ChangesLand
