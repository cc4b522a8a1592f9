SPECIFICATION Spec
CONSTANTS
    alice = alice
    bob = bob
    Accounts = {alice, bob}
    WAD = 20
    USDX_UNIT = 1
    HBAR_UNIT = 4
    COLLATERAL_FACTOR = 15
    LIQUIDATION_THRESHOLD = 16
    LIQUIDATION_BONUS = 1
    RESERVE_FACTOR = 2
    BORROW_RATE_INTERCEPT = 3
    BORROW_RATE_SLOPE = 9
    SECONDS_PER_YEAR = 1
    PRICE_MAX_AGE = 0
    PYTH_FEE = 1
    FAUCET_AMOUNT = 2
    FAUCET_COOLDOWN = 1
    Amounts = {2}
    HbarAmounts = {9}
    Values = {0, 2}
    Prices = {0, 40}
    Gifts = {1}
    Fundings = {3}
    MaxCash = 5
    MaxHbar = 10
    MaxTime = 2
SYMMETRY Symmetry
CHECK_DEADLOCK FALSE
INVARIANTS
    Conservation
    FundsBacked
    NeverStuck
