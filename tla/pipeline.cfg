SPECIFICATION FairSpec
CONSTANTS
    w1 = w1
    Worker = {w1}
    Alphabet <- Names
    AsFloat <- Floats
    MaxSize = 160
    NodeCount = 2
    Setups <- MCSetups
    Contents <- MCContents
    Garbage <- MCGarbage
    Pieces <- MCPieces
    MaxSent = 4
    MaxPosts = 1
INVARIANTS
    VariablesArrive
    BookkeepingArrives
PROPERTIES
    ReadsOwnBytes
    ImplementsDelivery
    NothingAfterFree
    EventsHandled
    DestructorReturns
CHECK_DEADLOCK FALSE
