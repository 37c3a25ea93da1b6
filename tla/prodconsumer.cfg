SPECIFICATION AppSpec
CONSTANTS
    p1 = p1
    p2 = p2
    prod1 = prod1
    cons1 = cons1
    prod2 = prod2
    cons2 = cons2
    Process <- TwoProcesses
    First = p1
    Thread = {prod1, cons1, prod2, cons2}
    Home <- BothOnEach
    Producer = {prod1, prod2}
    Capacity = 1
    Condition = {"free", "data"}
    Value <- Vector
    InitialValue = 0
    Endless = {prod1, cons1, prod2, cons2}
    MaxCalls <- Unbounded
    MaxSignals = 1
INVARIANTS
    MessagesAddUp
    NeverStuck
PROPERTIES
    MessagesFlow
