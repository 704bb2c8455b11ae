\* Two publishers of one room, one track each, no reconnection, no failures; a subscriber.
CONSTANTS
    s1 = s1
    s2 = s2
    ann = ann
    bob = bob
    Sessions = {s1, s2}
    FullIds = {ann, bob}
    Id <- TwoIds
    Total = 1
    MaxDrops = 0
    Faults = {}
SPECIFICATION SfuSpec
INVARIANTS ListedWhileUp CleanedUpUnless FollowsUnless
\* A session may come to its end.
CHECK_DEADLOCK FALSE
