SPECIFICATION LiveSpec
CONSTANTS
    o1 = o1
    o2 = o2
    o3 = o3
    o4 = o4
    Outpoint <- Outpoints
    Block <- Tree
    nChainWork <- Work
    vtx <- Contents
    NoBlock = NoBlock
INVARIANTS   SameTarget
PROPERTIES Recovers
