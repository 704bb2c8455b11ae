\* One session, two tracks, every operation may fail, one disconnection; a subscriber.
CONSTANTS
    s1 = s1
    ann = ann
    Sessions = {s1}
    FullIds = {ann}
    Id <- OneSession
    Total = 2
    MaxDrops = 1
    Faults = {"redis", "nats", "setup"}
SPECIFICATION StreamsFairSpec
INVARIANTS StreamsTypeOK LeftOnce RedisMatchesLocal StreamsMeetUnless RestIsClosed
PROPERTIES JoinIsComplete ClosedInTheEnd
\* A session may come to its end.
CHECK_DEADLOCK FALSE
