SPECIFICATION Spec
CONSTANTS
    Block <- Fork
    nChainWork <- HeightWork
    Verdict <- OneFails
    Addr <- AddrOf
    MaxReorgDepth = 1
    MinBlocksToKeep = 2
    nMinimumChainWork = 0
    MinReverseId <- SmallestId
    MaxSequence = 9
    Ops = {}
    NoBlock = NoBlock
PROPERTIES
    RollbackLimit
