SPECIFICATION Spec
CONSTANTS
    alice = alice
    bob = bob
    Accounts = {alice, bob}
    WAD = 4
    USDX_UNIT = 1
    HBAR_UNIT = 2
    COLLATERAL_FACTOR = 3
    LIQUIDATION_THRESHOLD = 3
    LIQUIDATION_BONUS = 1
    RESERVE_FACTOR = 1
    BORROW_RATE_INTERCEPT = 2
    BORROW_RATE_SLOPE = 0
    SECONDS_PER_YEAR = 1
    PRICE_MAX_AGE = 0
    PYTH_FEE = 1
    FAUCET_AMOUNT = 2
    FAUCET_COOLDOWN = 1
    Amounts = {3}
    HbarAmounts = {1, 4}
    Values = {0, 2}
    Prices = {1, 6, 8}
    Gifts = {}
    Fundings = {}
    MaxCash = 5
    MaxHbar = 4
    MaxTime = 4
SYMMETRY Symmetry
CHECK_DEADLOCK FALSE
INVARIANTS
    TypeOK
    NoUnsecuredDebt
    LiquidationOpen
    TotalsMatchShares
PROPERTIES
    RiskOnlyWhenHealthy
    SeizureIsPaidFor
    ReservesAbsorbFirst
    IndexesOnlyFallInWriteOff
    SharesArePaidFor
