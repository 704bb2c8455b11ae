\* A publisher of two kinds leaves and joins again; offers and answers may fail.
CONSTANTS
    ann = ann
    bob = bob
    me = me
    myscreen = myscreen
    Users = {ann}
    Kinds = {"video", "audio"}
    Own = {}
    Muted = {}
    MaxCount = 1
    ChanCap = 2
    MaxSessions = 2
    Faults = {"offer", "answer", "browser"}
SPECIFICATION FairSpec
INVARIANTS IInv NoLostUpdate RestIsUpToDate
PROPERTIES ImplementsFollower ServedUnlessStuck ShownInTheEnd
\* The room comes to rest when the publishers have used up their sessions.
CHECK_DEADLOCK FALSE
