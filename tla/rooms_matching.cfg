SPECIFICATION FairSpec
CONSTANTS
    p1 = p1
    p2 = p2
    n1 = n1
    n2 = n2
    Player = {p1, p2}
    Name = {n1, n2}
    RoomId <- MCRoomId
    TeamId <- MCRoomId
    MaxAsks = 4
    MaxLost = 1
  
PROPERTIES EveryAskEnds 
