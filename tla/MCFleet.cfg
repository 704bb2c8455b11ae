\* One instance, killed or told to stop and started again any number of times; a publisher
\* and a subscriber who are lost, found and come again any number of times; a day of two
\* parts; setups and closes may fail, and one call of Redis may.
CONSTANTS
    i1 = i1
    p1 = p1
    b1 = b1
    ann = ann
    bob = bob
    Instances = {i1}
    Sessions = {p1, b1}
    FullIds = {ann, bob}
    Kind <- KindOf
    Id <- IdOf
    Day = 2
    MaxFailures = 1
    Faults = {"setup", "close"}
SPECIFICATION FairSpec
INVARIANTS TypeOK StillListed ListedIsThere ListsExpireUnless RoomsHavePeers
PROPERTIES DrainSparesPeers DrainEndsUnless GhostsFade
