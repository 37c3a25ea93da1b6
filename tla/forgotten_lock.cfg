SPECIFICATION Spec
CONSTANTS
    N = 3
    U32 = 64
    m1 = m1
    Monitor = {m1}
    SysToken = SysToken
    LockWindows <- NotCreating
    EraseOutcomes <- Intended
    MaxLocks <- Once
    MaxDisconnects = 0
INVARIANTS
    AccessRequested
CHECK_DEADLOCK FALSE
