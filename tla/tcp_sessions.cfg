SPECIFICATION FairSpec
CONSTANTS
    s1 = s1
    h1 = h1
    a1 = a1
    Session = {s1}
    Sender = {a1}
    SendChan = 1
    MaxSends = 2
    Shard = {h1}
    ShardOf <- MCShardOf
CHECK_DEADLOCK FALSE
INVARIANTS SessionsAreSound NeverPanics CallbacksAreCalled
 
