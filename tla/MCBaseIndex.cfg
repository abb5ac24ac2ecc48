SPECIFICATION LiveSpec
CONSTANTS
    Block <- Tree
    nChainWork <- Work
    Tx <- Txs
    vtx <- Contents
    NoBlock = NoBlock
    MaxMoves = 2
    MaxFlushes = 1
    MaxRestarts = 1
    GapFaults = FALSE
INVARIANTS InSync PositionsOfTip LocatorBehind CallerServed
PROPERTIES CatchesUp
