\* Every operation may fail; the subscriber is a publisher too.
CONSTANTS
    ann = ann
    bob = bob
    me = me
    myscreen = myscreen
    Users = {ann, me}
    Kinds = {"video"}
    Own = {me}
    Muted = {me}
    MaxCount = 2
    ChanCap = 1
    MaxSessions = 1
    Faults = {"redis", "transceiver", "offer", "notice", "answer", "browser"}
SPECIFICATION Spec
INVARIANTS OneRound HeldRoundIsAwaited MapsAgree
PROPERTY ImplementsRounds
\* The room comes to rest when the publishers have used up their sessions.
CHECK_DEADLOCK FALSE
