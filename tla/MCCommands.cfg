\* A publisher and two subscribers of its room, on one instance; NATS and the
\* listener may fail.
CONSTANTS
    i1 = i1
    r1 = r1
    s1 = s1
    s2 = s2
    p1 = p1
    Instances = {i1}
    Subs = {s1, s2}
    Pubs = {p1}
    Home <- OneHome
    RoomOf <- OneRoom
    ChanCap = 1
    TooLong = {}
    Faults = {"nats"}
SPECIFICATION FairSpec
INVARIANTS TypeOK NoGap ToldAtRest
PROPERTIES ImplementsBroadcast ToldUnlessJammed
\* Sessions come to an end.
CHECK_DEADLOCK FALSE
