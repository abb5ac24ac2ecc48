CONSTANTS
    Worker = {w1, w2}
    Master = {m1, m2}
    Check = {c1, c2}
    Good = {c1}
    nBatchSize = 2
    NoMaster = NoMaster
SPECIFICATION Spec
INVARIANTS
    VerdictExact
    CleanHandover
    MasterSleepsOnWork
PROPERTIES
    WaitReturns
