\* One session, one track, nothing fails: what a closed session leaves behind.
CONSTANTS
    s1 = s1
    s2 = s2
    ann = ann
    bob = bob
    Sessions = {s1}
    FullIds = {ann}
    Id <- OneSession
    Total = 1
    MaxDrops = 1
    Faults = {}
SPECIFICATION Spec
INVARIANT CleanedUp
CHECK_DEADLOCK FALSE
