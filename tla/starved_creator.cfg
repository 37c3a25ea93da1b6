SPECIFICATION FairSpec
CONSTANTS
    N = 2
    U32 = 64
    m1 = m1
    Monitor = {m1}
    SysToken = SysToken
    LockWindows <- AnyTime
    EraseOutcomes <- Intended
    MaxLocks <- Twice
    MaxDisconnects = 0
PROPERTIES
    LockGranted
CHECK_DEADLOCK FALSE
