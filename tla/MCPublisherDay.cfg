\* One session that lasts a day, nothing fails.
CONSTANTS
    s1 = s1
    s2 = s2
    ann = ann
    bob = bob
    Sessions = {s1}
    FullIds = {ann}
    Id <- OneSession
    Total = 1
    MaxDrops = 1
    Faults = {}
SPECIFICATION FairSpec
PROPERTY ClosedAfterADay
CHECK_DEADLOCK FALSE
