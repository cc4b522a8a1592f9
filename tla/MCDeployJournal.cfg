SPECIFICATION Spec
CONSTANTS
    USDX_TOTAL_SUPPLY = 5
    POOL_LIQUIDITY_USDX = 2
    FAUCET_SEED_USDX = 1
    AmmUsdx = 1
INVARIANTS
    TypeOK
    StepPaidOnce
    PublishedIsReal
PROPERTY
    MintCoversSeeds
