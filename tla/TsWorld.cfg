CONSTANTS
    t1 = t1
    t2 = t2
    t3 = t3
    Thread = {t1, t2, t3}
    Uses <- AllUses
    MaxSentinel = 3
SPECIFICATION FairSpec
INVARIANTS NothingLeft SuspendedStays AllKnown
PROPERTIES StopsTheWorld StopCompletes
CHECK_DEADLOCK FALSE
