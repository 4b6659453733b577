SPECIFICATION ActSpec
CONSTANTS
    k1 = k1
    k2 = k2
    c1 = c1
    New = New
    o1 = o1
    o2 = o2
    o3 = o3
    Key = {k1, k2}
    Change = {New, c1}
    Object = {o1, o2, o3}
    Capacity = 1
    MaxFails = 1
SYMMETRY Players
CHECK_DEADLOCK FALSE
INVARIANTS PromisesAreKept 
