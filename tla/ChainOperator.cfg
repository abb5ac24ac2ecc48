SPECIFICATION Spec
CONSTANTS
    Block <- Line
    nChainWork <- HeightWork
    Verdict <- LastMalformed
    Addr <- AddrOf
    MaxReorgDepth = 2
    MinBlocksToKeep = 2
    nMinimumChainWork = 0
    MinReverseId <- SmallestId
    MaxSequence = 9
    Ops = {"invalidateblock", "reconsiderblock", "preciousblock", "restart"}
    NoBlock = NoBlock
INVARIANTS
    FailedBlocksMarked
