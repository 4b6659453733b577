SPECIFICATION Spec
CONSTANTS
    a1 = a1
    a2 = a2
    Cfg = {a1, a2}
    MaxId = 6
    MaxTime = 2
    MaxOdd = 2
    Conf <- MCConf
INVARIANTS EntitiesAreSound 
PROPERTIES TickSettles 
