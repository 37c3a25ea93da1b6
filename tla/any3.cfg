SPECIFICATION Spec
CONSTANTS
    N = 3
    U32 = 2
    m1 = m1
    Monitor = {m1}
    SysToken = SysToken
    LockWindows <- AnyTime
    EraseOutcomes <- AnyOutcome
    MaxLocks <- TwiceFirst
    MaxDisconnects = 1
CONSTRAINTS
    OneHardship
INVARIANTS
    TypeOK
    MutualExclusion
    GrantHoldsLock
    TokenUnique
    Freshness
    NoPacketDiscarded
    QueueSane
PROPERTIES
    ImplementsPromise
CHECK_DEADLOCK FALSE
