\* One session, every operation may fail, two disconnections.
CONSTANTS
    s1 = s1
    s2 = s2
    ann = ann
    Sessions = {s1}
    FullIds = {ann}
    Id <- OneSession
    MaxDrops = 2
    ChanCap = 1
    Faults = {"redis", "setup", "close"}
SPECIFICATION FairSpec
INVARIANTS TypeOK RedisFollowsLink HeardWhileConnected RestIsTidy
PROPERTIES DeregisteredInTheEnd LoopLeavesUnless DrainEndsUnless
\* A session may come to its end.
CHECK_DEADLOCK FALSE
