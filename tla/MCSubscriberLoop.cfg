\* One session, nothing fails: a loop that stays.
CONSTANTS
    s1 = s1
    s2 = s2
    ann = ann
    Sessions = {s1}
    FullIds = {ann}
    Id <- OneSession
    MaxDrops = 1
    ChanCap = 1
    Faults = {}
SPECIFICATION FairSpec
PROPERTY LoopLeaves
\* A session may come to its end.
CHECK_DEADLOCK FALSE
