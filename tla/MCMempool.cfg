SPECIFICATION Spec
CONSTANTS
    Block <- Tree
    nChainWork <- Work
    Tx <- Txs
    vin <- Inputs
    Funded <- Base
    Coinbase = {"cb"}
    NonStandard = {"n"}
    Replaceable = {"a"}
    fee <- Fees
    nLockTime <- LockTimes
    vtx <- Contents
    None = None
    COINBASE_MATURITY = 2
    LimitAncestors = 3
    LimitDescendants = 3
    MaxPool = 3
    MaxDisconnected = 3
    Delta = 256
    MaxPrioritise = 2
INVARIANTS PackagesExact LinksExact PoolMinable ReaddsAll QueuedAreOut
