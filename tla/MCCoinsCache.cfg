SPECIFICATION Spec
CONSTANTS
    Outpoint = {o1, o2}
    Coin = {c1, c2}
    Spent = Spent
    NoEntry = NoEntry
INVARIANTS FlagsMeanWhatTheySay NeverThrows
PROPERTIES Refines
