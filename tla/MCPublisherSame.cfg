\* Two requests with the same full id.
CONSTANTS
    s1 = s1
    s2 = s2
    ann = ann
    bob = bob
    Sessions = {s1, s2}
    FullIds = {ann}
    Id <- SameId
    Total = 1
    MaxDrops = 1
    Faults = {}
SPECIFICATION Spec
INVARIANT OneLivePublisher
CHECK_DEADLOCK FALSE
