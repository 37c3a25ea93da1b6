SPECIFICATION Spec
CONSTANTS
    w1 = w1
    Worker = {w1}
    Alphabet <- Names
    AsFloat <- Floats
    MaxSize = 128
    NodeCount = 2
    Setups <- DoubleSetups
    Contents <- MCContents
    Garbage <- MCGarbage
    Pieces <- MCPieces
    MaxSent = 3
    MaxPosts = 0
INVARIANTS
    DoublesArrive
CHECK_DEADLOCK FALSE
