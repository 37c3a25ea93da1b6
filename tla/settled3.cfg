SPECIFICATION FairSpec
CONSTANTS
    N = 3
    U32 = 64
    m1 = m1
    Monitor = {m1}
    SysToken = SysToken
    LockWindows <- Settled
    EraseOutcomes <- Intended
    MaxLocks <- TwiceButLast
    MaxDisconnects = 0
INVARIANTS
    LockedImpliesOwned
    TokenConserved
    RequestKept
    RequestWindow
PROPERTIES
    LockGranted
CHECK_DEADLOCK FALSE
