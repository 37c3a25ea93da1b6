SPECIFICATION FairSpec
CONSTANTS
    Nodes = 2
    Attempts = 2
    Rounds = 1
    PipeSize = 8
    OutSize = 2
    EventLimit = 32
    MaxPosts = 1
    MaxTheirs = 2
    Kind = {"data", "oversize", "undecodable"}
INVARIANTS
    TypeOK
    WireInOrder
    EventsInOrder
    PointersValid
    Armed
    ConnectOwned
PROPERTIES
    AllSent
    BrokenReported
    ConnectEnds
CHECK_DEADLOCK FALSE
