SPECIFICATION LiveSpec
CONSTANTS
    Block <- Fork
    nChainWork <- HeightWork
    Verdict <- TwoFail
    Addr <- AddrOf
    MaxReorgDepth = 1
    MinBlocksToKeep = 2
    nMinimumChainWork = 0
    MinReverseId <- SmallestId
    MaxSequence = 9
    Ops = {}
    NoBlock = NoBlock
INVARIANTS
    SoundIndex
    StepRollbackLimit
PROPERTIES
    CandidatesKept
    ProgressUnlessBarred
    
