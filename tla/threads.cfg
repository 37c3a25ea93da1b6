SPECIFICATION FairSpec
CONSTANTS
    p1 = p1
    p2 = p2
    t1 = t1
    t2 = t2
    t3 = t3
    c1 = c1
    Process <- TwoProcesses
    First = p1
    Thread = {t1, t2, t3}
    Home <- TwoAndOne
    Condition = {c1}
    Value = {0, 1}
    InitialValue = 0
    Endless = {}
    MaxCalls <- Two
    MaxSignals = 2
INVARIANTS
    TypeOK
    CallsAnswered
    LoopKeepsOff
PROPERTIES
    ImplementsPromise
    LockReturns
    SleeperWakes
CHECK_DEADLOCK FALSE
