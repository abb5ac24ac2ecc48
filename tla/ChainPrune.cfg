SPECIFICATION Spec
CONSTANTS
    Block <- Beside
    nChainWork <- HeightWork
    Verdict <- AllGood
    Addr <- AddrOf
    MaxReorgDepth = 2
    MinBlocksToKeep = 1
    nMinimumChainWork = 0
    MinReverseId <- SmallestId
    MaxSequence = 8
    Ops = {"prune"}
    NoBlock = NoBlock
INVARIANTS
    UnlinkedExact
    DataAvailable

    
CHECK_DEADLOCK FALSE
