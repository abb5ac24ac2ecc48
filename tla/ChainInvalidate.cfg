SPECIFICATION Spec
CONSTANTS
    Block <- Row
    nChainWork <- HeightWork
    Verdict <- AllGood
    Addr <- AddrOf
    MaxReorgDepth = 2
    MinBlocksToKeep = 2
    nMinimumChainWork = 0
    MinReverseId <- SmallestId
    MaxSequence = 9
    Ops = {"invalidateblock", "restart"}
    NoBlock = NoBlock
INVARIANTS
    CompleteIndex
