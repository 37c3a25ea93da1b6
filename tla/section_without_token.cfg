SPECIFICATION Spec
CONSTANTS
    N = 3
    U32 = 64
    m1 = m1
    Monitor = {m1}
    SysToken = SysToken
    LockWindows <- AnyTime
    EraseOutcomes <- Intended
    MaxLocks <- Once
    MaxDisconnects = 0
INVARIANTS
    LockedImpliesOwned
CHECK_DEADLOCK FALSE
