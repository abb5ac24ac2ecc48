SPECIFICATION LiveSpec
CONSTANTS
    A = A
    B = B
    Block <- MCBlock
    nChainWork <- MCWork
    Peer = {A, B}
    NoPeer = NoPeer
    NoBlock = NoBlock
    PeerTip <- MCPeerTip
    Kinds <- MCKinds
    Reliable = {A}
    RecentHeight = 1
    MAX_BLOCKS_IN_TRANSIT_PER_PEER = 2
    BLOCK_DOWNLOAD_WINDOW = 2
    MaxUnasked = 1
INVARIANTS InFlightExact StallerOwes StillExpected LastCommonLinked
 
CHECK_DEADLOCK FALSE
