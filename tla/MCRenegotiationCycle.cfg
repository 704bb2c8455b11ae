\* The cycle of waits.
CONSTANTS
    ann = ann
    bob = bob
    me = me
    myscreen = myscreen
    Users = {ann, myscreen}
    Kinds = {"video"}
    Own = {myscreen}
    Muted = {}
    MaxCount = 1
    ChanCap = 1
    MaxSessions = 1
    Faults = {}
SPECIFICATION FairSpec
PROPERTY EveryCommandIsServed
\* The room comes to rest when the publishers have used up their sessions.
CHECK_DEADLOCK FALSE
