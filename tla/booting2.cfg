SPECIFICATION FairSpec
CONSTANTS
    N = 2
    U32 = 64
    m1 = m1
    m2 = m2
    Monitor = {m1, m2}
    SysToken = SysToken
    LockWindows <- NotCreating
    EraseOutcomes <- Intended
    MaxLocks <- Once
    MaxDisconnects = 0
INVARIANTS
    AccessRequested
PROPERTIES
    LockGranted
CHECK_DEADLOCK FALSE
