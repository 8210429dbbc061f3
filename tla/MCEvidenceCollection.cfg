SPECIFICATION CollectionFairSpec
CONSTANTS
    Cycles <- MCCycles
    Trades <- MCTrades
    Thresholds <- MCThresholds
    Chains <- MCChains
    PerChain <- MCPerChain
    PerWallet <- MCPerWallet
    Bodies <- MCBodies
    Null = Null
    From = 1
    To = 5
    Floor = 60
    Concurrency = 2
    MaxAttempts = 2
    MaxSecurityLookups = 2
    MaxEdits = 1
INVARIANTS
    ClaimsAreReproducible
    EditsAreSeen
PROPERTY
    CollectionSettles
CHECK_DEADLOCK FALSE
