----------------------------- MODULE LendingPool ------------------------------
(***************************************************************************)
(* packages/hardhat/contracts/LendingPool.sol: a market in which suppliers *)
(* lend USDX and borrowers lock native HBAR.  Debts and claims are kept as *)
(* shares of two indexes; a transaction is atomic, and the order in which  *)
(* transactions of different accounts reach the chain is arbitrary.        *)
(*                                                                         *)
(* One action per external function that writes state.  A failed `require` *)
(* disables the action.  A checked subtraction that would underflow, a     *)
(* payment the pool cannot make, or the "uncovered loss" require, reverts  *)
(* a call that passed every check addressed to the caller: those reverts   *)
(* set the history variable `stuck` and change nothing else, so that their *)
(* absence can be stated.                                                  *)
(*                                                                         *)
(* Outside the module: the USDX token (the pool's balance is `cash`), the  *)
(* HBAR ledger (`hbar`), Pyth (`oracle`), the block time (`now`), and      *)
(* SaucerSwap, whose output goes through the pool to the liquidator within *)
(* one transaction and leaves no trace in the pool's state.                *)
(***************************************************************************)
EXTENDS FixedPoint

CONSTANTS
    Accounts,               \* addresses that use the market
    WAD,                    \* 1e18: the value 1.0 of an index, a rate or a price
    USDX_UNIT,              \* 1e6: base units of one USDX
    HBAR_UNIT,              \* 1e8: tinybar of one HBAR
    COLLATERAL_FACTOR,
    LIQUIDATION_THRESHOLD,
    LIQUIDATION_BONUS,
    RESERVE_FACTOR,
    BORROW_RATE_INTERCEPT,
    BORROW_RATE_SLOPE,
    SECONDS_PER_YEAR,
    PRICE_MAX_AGE,          \* the 120 seconds of getPriceNoOlderThan
    PYTH_FEE,               \* getUpdateFee of a non-empty update
    FAUCET_AMOUNT,
    FAUCET_COOLDOWN

(* The inputs that transactions range over, and the bounds of a checked    *)
(* instance.  The proofs take any sets of naturals and any bounds.         *)
CONSTANTS
    Amounts,                \* USDX amounts of supply, withdraw, borrow, repay
    HbarAmounts,            \* tinybar amounts of deposit and withdraw
    Values,                 \* msg.value of the calls that pay an oracle fee
    Prices,                 \* HBAR/USD prices, WAD = one dollar
    Gifts,                  \* USDX or HBAR sent to the pool by no operation
    Fundings,               \* amounts of fundFaucet
    MaxCash,                \* bound on the USDX of the pool
    MaxHbar,                \* bound on the HBAR of the pool
    MaxTime                 \* bound on the block time

ASSUME UnitAssumption ==
    /\ WAD \in Nat \ {0} /\ USDX_UNIT \in Nat \ {0} /\ HBAR_UNIT \in Nat \ {0}
    /\ WAD = USDX_UNIT * (WAD \div USDX_UNIT)
    /\ SECONDS_PER_YEAR \in Nat \ {0}

ASSUME RateAssumption ==
    /\ COLLATERAL_FACTOR \in 1..WAD
    /\ LIQUIDATION_THRESHOLD \in COLLATERAL_FACTOR..WAD
    /\ LIQUIDATION_BONUS \in Nat
    /\ RESERVE_FACTOR \in 0..WAD
    /\ BORROW_RATE_INTERCEPT \in Nat /\ BORROW_RATE_SLOPE \in Nat
    /\ PRICE_MAX_AGE \in Nat /\ PYTH_FEE \in Nat
    /\ FAUCET_AMOUNT \in Nat \ {0} /\ FAUCET_COOLDOWN \in Nat \ {0}

ASSUME InputAssumption ==
    /\ Amounts \subseteq Nat /\ HbarAmounts \subseteq Nat /\ Values \subseteq Nat
    /\ Prices \subseteq Nat /\ Gifts \subseteq Nat /\ Fundings \subseteq Nat
    /\ MaxCash \in Nat /\ MaxHbar \in Nat /\ MaxTime \in Nat
    /\ IsFiniteSet(Accounts)

VARIABLES
    market,                 \* indexes, totals and reserves (see Market)
    supplierEpoch, supplierShares, borrowScaled, collateralOf,
    latest,                 \* latestPrice18 and latestPricePublishTime
    faucet,                 \* faucetEnabled, faucetBudget, lastFaucetAt
    cash,                   \* usdx.balanceOf(pool)
    hbar,                   \* the pool's native balance
    oracle,                 \* what Pyth stores for the HBAR/USD feed
    now,                    \* block.timestamp
    gifted,                 \* history: USDX donated and not yet recognised
    stray,                  \* history: HBAR received outside depositCollateral
    stuck                   \* history: the unexpected revert that was reached

positions == <<supplierEpoch, supplierShares, borrowScaled, collateralOf>>
prices == <<latest, oracle>>
vars == <<market, positions, prices, faucet, cash, hbar, now, gifted, stray, stuck>>

-------------------------------------------------------------------------------
(* Data.                                                                   *)

Market == [supplyIndex: Nat \ {0}, borrowIndex: Nat \ {0}, lastAccrual: Nat,
           totalSupplyScaled: Nat, totalBorrowScaled: Nat,
           totalReserves: Nat, reserveRemainder: 0..(WAD - 1), supplyEpoch: Nat]

Quote == [price: Nat, publishTime: Nat]

Genesis == FAUCET_COOLDOWN   \* deployment: the clock is past the first cooldown

NoData == [price |-> 0, publishTime |-> 0]     \* an empty priceUpdateData array

(* A signed update carries a price of some moment up to now.  (The empty   *)
(* array shares the form of a non-positive price of the distant past.)     *)
UpdateData == {NoData} \cup [price: Prices, publishTime: Genesis..now]

-------------------------------------------------------------------------------
(* Interest accrual.                                                       *)

StoredSupply(m) == MulDiv(m.totalSupplyScaled, m.supplyIndex, WAD)

BugStoredBorrowDown(m) == MulDiv(m.totalBorrowScaled, m.borrowIndex, WAD)

StoredBorrow(m) == MulDivUp(m.totalBorrowScaled, m.borrowIndex, WAD)

BorrowApy(m) ==
    LET owed == StoredBorrow(m)
        supplied == StoredSupply(m)
        util == IF supplied = 0 THEN WAD ELSE Least(MulDiv(owed, WAD, supplied), WAD)
    IN  BORROW_RATE_INTERCEPT + MulDiv(util, BORROW_RATE_SLOPE, WAD)

NextBorrowIndex(m) ==
    m.borrowIndex
      + MulDiv(m.borrowIndex, BorrowApy(m) * (now - m.lastAccrual), WAD * SECONDS_PER_YEAR)

(* The part of the reserves' due that is less than a token.                *)
BugFractionKept(due) == due

Fraction(due) == due % WAD

(* The split of an interval's interest between suppliers and reserves.     *)
(* `due` carries over the fraction of a token that earlier accruals left   *)
(* to the reserves.                                                        *)
InterestSplit(m) ==
    LET index == NextBorrowIndex(m)
        interest == MulDivUp(m.totalBorrowScaled, index, WAD) - StoredBorrow(m)
        due == ((interest * RESERVE_FACTOR) % WAD) + m.reserveRemainder
        cut == MulDiv(interest, RESERVE_FACTOR, WAD) + due \div WAD
        supplyIndex == m.supplyIndex + MulDiv(interest - cut, WAD, m.totalSupplyScaled)
        gain == MulDiv(m.totalSupplyScaled, supplyIndex, WAD) - StoredSupply(m)
    IN  IF m.totalSupplyScaled = 0
        THEN [borrowIndex |-> index, interest |-> interest, cut |-> 0, gain |-> 0,
              supplyIndex |-> m.supplyIndex, remainder |-> m.reserveRemainder]
        ELSE [borrowIndex |-> index, interest |-> interest, cut |-> cut, gain |-> gain,
              supplyIndex |-> supplyIndex, remainder |-> Fraction(due)]

Idle(m) == now = m.lastAccrual \/ StoredBorrow(m) = 0

(* _previewAccrual applied to the stored market.                           *)
WithInterest(m) ==
    LET split == InterestSplit(m)
    IN  IF Idle(m) THEN m
        ELSE [m EXCEPT !.borrowIndex = split.borrowIndex,
                       !.supplyIndex = split.supplyIndex,
                       !.reserveRemainder = split.remainder,
                       !.totalReserves = @ + split.interest - split.gain]

(* The checked subtractions of _previewAccrual.                            *)
AccrualFits(m) ==
    LET split == InterestSplit(m)
    IN  ~Idle(m) => split.interest >= split.cut /\ split.gain \in 0..split.interest

Assets(m, held) == held + StoredBorrow(m)

Liabilities(m) == StoredSupply(m) + m.totalReserves + faucet.budget

Surplus(m, held) == Greatest(0, Assets(m, held) - Liabilities(m))

(* _accrue: interest, then every unowned token becomes a reserve.          *)
Accrued ==
    LET m == [WithInterest(market) EXCEPT !.lastAccrual = now]
    IN  [m EXCEPT !.totalReserves = @ + Surplus(m, cash)]

(* availableLiquidity, as the operations call it: after _accrue, when      *)
(* nothing is pending.                                                     *)
BugLiquidityLendsFaucet(m) == Greatest(0, cash - m.totalReserves - Surplus(m, cash))

AvailableLiquidity(m) ==
    Greatest(0, cash - faucet.budget - m.totalReserves - Surplus(m, cash))

-------------------------------------------------------------------------------
(* Positions.                                                              *)

ActiveShares(a, m) == IF supplierEpoch[a] = m.supplyEpoch THEN supplierShares[a] ELSE 0

Claim(a, m) == MulDiv(ActiveShares(a, m), m.supplyIndex, WAD)

DebtOf(shares, m) == MulDivUp(shares, m.borrowIndex, WAD)

HbarValue(amount, price) == MulDiv(amount, price, HBAR_UNIT)

UsdxValue(amount) == MulDiv(amount, WAD, USDX_UNIT)

HbarFromUsd(usd, price) == MulDiv(usd, HBAR_UNIT, price)

Healthy(shares, collateral, price, m) ==
    LET owed == UsdxValue(DebtOf(shares, m))
    IN  owed = 0 \/ owed <= MulDiv(HbarValue(collateral, price), COLLATERAL_FACTOR, WAD)

Liquidatable(shares, collateral, price, m) ==
    LET owed == UsdxValue(DebtOf(shares, m))
    IN  owed # 0 /\ owed > MulDiv(HbarValue(collateral, price), LIQUIDATION_THRESHOLD, WAD)

-------------------------------------------------------------------------------
(* The pull oracle.                                                        *)

(* Pyth keeps the newest price it was shown.                               *)
OracleAfter(data) == IF data.publishTime > oracle.publishTime THEN data ELSE oracle

Fee(data) == IF data = NoData THEN 0 ELSE PYTH_FEE

(* _updatePrice: what must hold for it to succeed.                         *)
PriceUsable(data, value) ==
    /\ value >= Fee(data)
    /\ now - OracleAfter(data).publishTime <= PRICE_MAX_AGE
    /\ OracleAfter(data).price > 0

PriceRefreshed(data) ==
    /\ oracle' = OracleAfter(data)
    /\ latest' = OracleAfter(data)

(* What an oracle call leaves of msg.value in the pool: the fee goes to    *)
(* Pyth and the rest back to the caller.                                   *)
BugNoRefund(value, fee) == value - fee

Retained(value, fee) ==
    LET refund == value - fee
    IN  value - fee - refund

-------------------------------------------------------------------------------
(* Outcomes.                                                               *)

Revert(reason) ==
    /\ stuck' = reason
    /\ UNCHANGED <<market, positions, prices, faucet, cash, hbar, now, gifted, stray>>

Panic == Revert("panic")

(* A call whose caller-facing checks passed takes effect when its checked  *)
(* arithmetic does.                                                        *)
Fits(arithmetic) == AccrualFits(market) /\ arithmetic

Commit(m) ==
    /\ market' = m
    /\ gifted' = 0
    /\ UNCHANGED <<now, stray, stuck>>

(* accrue()                                                                *)
Accrue(m) ==
    IF Fits(TRUE)
    THEN Commit(m) /\ UNCHANGED <<positions, prices, faucet, cash, hbar>>
    ELSE Panic

(* updatePrice()                                                           *)
UpdatePrice(data, value) ==
    /\ PriceUsable(data, value)
    /\ PriceRefreshed(data)
    /\ hbar' = hbar + Retained(value, Fee(data))
    /\ UNCHANGED <<market, positions, faucet, cash, now, gifted, stray, stuck>>

(* depositCollateral()                                                     *)
DepositCollateral(a, value) ==
    /\ value > 0
    /\ hbar + value <= MaxHbar
    /\ collateralOf' = [collateralOf EXCEPT ![a] = @ + value]
    /\ hbar' = hbar + value
    /\ UNCHANGED <<market, supplierEpoch, supplierShares, borrowScaled, prices,
                   faucet, cash, now, gifted, stray, stuck>>

(* A debtor may leave only `left` as collateral if that is healthy at a    *)
(* fresh price; without a debt the oracle is not consulted.                *)
BugExitChecksOldCollateral(a, left, data, value, m) ==
    borrowScaled[a] > 0 =>
        /\ PriceUsable(data, value)
        /\ Healthy(borrowScaled[a], collateralOf[a], OracleAfter(data).price, m)

ExitAllowed(a, left, data, value, m) ==
    borrowScaled[a] > 0 =>
        /\ PriceUsable(data, value)
        /\ Healthy(borrowScaled[a], left, OracleAfter(data).price, m)

(* withdrawCollateral()                                                    *)
WithdrawCollateral(a, amount, data, value, m) ==
    LET left == collateralOf[a] - amount
        indebted == borrowScaled[a] > 0
        held == hbar + Retained(value, IF indebted THEN Fee(data) ELSE 0)
    IN  /\ amount > 0 /\ left >= 0
        /\ ExitAllowed(a, left, data, value, m)
        /\ IF Fits(held >= amount)
           THEN /\ Commit(m)
                /\ collateralOf' = [collateralOf EXCEPT ![a] = left]
                /\ IF indebted THEN PriceRefreshed(data) ELSE UNCHANGED prices
                /\ hbar' = held - amount
                /\ UNCHANGED <<supplierEpoch, supplierShares, borrowScaled, faucet, cash>>
           ELSE Panic

-------------------------------------------------------------------------------
(* Supply and borrow.                                                      *)

(* The shares an account enters a supply with: those of a retired epoch    *)
(* are dropped.                                                            *)
BugRevivedShares(a, m) == supplierShares[a]

CarriedShares(a, m) == IF supplierEpoch[a] # m.supplyEpoch THEN 0 ELSE supplierShares[a]

(* supply(): shares rounded down; what the shares do not cover of the      *)
(* payment is reserve dust.                                                *)
Supply(a, amount, m) ==
    LET scaled == MulDiv(amount, WAD, m.supplyIndex)
        grown == [m EXCEPT !.totalSupplyScaled = @ + scaled]
        credited == StoredSupply(grown) - StoredSupply(m)
    IN  /\ amount > 0 /\ scaled > 0
        /\ cash + amount <= MaxCash
        /\ IF Fits(credited \in 0..amount)
           THEN /\ Commit([grown EXCEPT !.totalReserves = @ + amount - credited])
                /\ supplierEpoch' = [supplierEpoch EXCEPT ![a] = m.supplyEpoch]
                /\ supplierShares' = [supplierShares EXCEPT ![a] = CarriedShares(a, m) + scaled]
                /\ cash' = cash + amount
                /\ UNCHANGED <<borrowScaled, collateralOf, prices, faucet, hbar>>
           ELSE Panic

(* withdrawSupply(): a full exit burns every share, a partial one the      *)
(* shares of the amount rounded up.                                        *)
WithdrawSupply(a, amount, m) ==
    LET scaled == IF amount = Claim(a, m) THEN ActiveShares(a, m)
                  ELSE MulDivUp(amount, WAD, m.supplyIndex)
        shrunk == [m EXCEPT !.totalSupplyScaled = @ - scaled]
        debited == StoredSupply(m) - StoredSupply(shrunk)
        fits == /\ supplierShares[a] >= scaled
                /\ m.totalSupplyScaled >= scaled
                /\ debited >= amount
    IN  /\ amount > 0
        /\ Claim(a, m) >= amount
        /\ AvailableLiquidity(m) >= amount
        /\ IF Fits(fits)
           THEN /\ Commit([shrunk EXCEPT !.totalReserves = @ + debited - amount])
                /\ supplierShares' = [supplierShares EXCEPT ![a] = @ - scaled]
                /\ cash' = cash - amount
                /\ UNCHANGED <<supplierEpoch, borrowScaled, collateralOf, prices, faucet, hbar>>
           ELSE Panic

(* borrow(): debt shares rounded up; health is judged with the new debt.   *)
Borrow(a, amount, data, value, m) ==
    LET scaled == MulDivUp(amount, WAD, m.borrowIndex)
        grown == [m EXCEPT !.totalBorrowScaled = @ + scaled]
        owed == StoredBorrow(grown) - StoredBorrow(m)
    IN  /\ amount > 0
        /\ PriceUsable(data, value)
        /\ AvailableLiquidity(m) >= amount
        /\ Healthy(borrowScaled[a] + scaled, collateralOf[a], OracleAfter(data).price, m)
        /\ IF Fits(owed >= amount)
           THEN /\ Commit([grown EXCEPT !.totalReserves = @ + owed - amount])
                /\ borrowScaled' = [borrowScaled EXCEPT ![a] = @ + scaled]
                /\ PriceRefreshed(data)
                /\ cash' = cash - amount
                /\ hbar' = hbar + Retained(value, Fee(data))
                /\ UNCHANGED <<supplierEpoch, supplierShares, collateralOf, faucet>>
           ELSE Panic

(* _repaymentAmount: what a payment of `amount` is rounded to.             *)
RepaymentAmount(shares, amount, m) ==
    IF amount >= DebtOf(shares, m) THEN DebtOf(shares, m)
    ELSE MulDivUp(MulDiv(amount, WAD, m.borrowIndex), m.borrowIndex, WAD)

(* _burnDebt: the shares a payment cancels, the market after it, and its   *)
(* checked subtractions.                                                   *)
BugBurnedSharesUp(shares, pay, m) ==
    IF pay >= DebtOf(shares, m) THEN shares ELSE MulDivUp(pay, WAD, m.borrowIndex)

BurnedShares(shares, pay, m) ==
    IF pay >= DebtOf(shares, m) THEN shares ELSE MulDiv(pay, WAD, m.borrowIndex)

WithoutDebt(m, burned) == [m EXCEPT !.totalBorrowScaled = @ - burned]

Cancelled(m, burned) == StoredBorrow(m) - StoredBorrow(WithoutDebt(m, burned))

BurnDebt(shares, pay, m) ==
    LET burned == BurnedShares(shares, pay, m)
    IN  [WithoutDebt(m, burned) EXCEPT !.totalReserves = @ + pay - Cancelled(m, burned)]

BurnFits(shares, pay, m) ==
    LET burned == BurnedShares(shares, pay, m)
    IN  /\ burned <= shares /\ burned <= m.totalBorrowScaled
        /\ Cancelled(m, burned) \in 0..pay

(* repay()                                                                 *)
Repay(a, amount, m) ==
    LET pay == RepaymentAmount(borrowScaled[a], amount, m)
        fits == BurnFits(borrowScaled[a], pay, m)
    IN  /\ amount > 0
        /\ borrowScaled[a] > 0
        /\ pay > 0
        /\ cash + pay <= MaxCash
        /\ IF Fits(fits)
           THEN /\ Commit(BurnDebt(borrowScaled[a], pay, m))
                /\ borrowScaled' =
                   [borrowScaled EXCEPT ![a] = @ - BurnedShares(@, pay, m)]
                /\ cash' = cash + pay
                /\ UNCHANGED <<supplierEpoch, supplierShares, collateralOf, prices, faucet, hbar>>
           ELSE Panic

-------------------------------------------------------------------------------
(* Liquidation.                                                            *)

(* The payment that buys all of the collateral at the bonus.               *)
BugPayMayBeZero(collateral, price) ==
    MulDivUp(HbarValue(collateral, price), USDX_UNIT, WAD + LIQUIDATION_BONUS)

BugPayRoundedDown(collateral, price) ==
    Greatest(1, MulDiv(HbarValue(collateral, price), USDX_UNIT, WAD + LIQUIDATION_BONUS))

CollateralPay(collateral, price) ==
    Greatest(1, MulDivUp(HbarValue(collateral, price), USDX_UNIT, WAD + LIQUIDATION_BONUS))

(* previewLiquidation: the payment and the collateral it seizes.           *)
PreviewLiquidation(shares, collateral, amount, price, m) ==
    LET limit == Least(amount, DebtOf(shares, m))
        pay == RepaymentAmount(shares, limit, m)
        usd == MulDiv(UsdxValue(pay), WAD + LIQUIDATION_BONUS, WAD)
    IN  IF collateral = 0 \/ amount = 0 THEN [pay |-> 0, seize |-> 0]
        ELSE IF limit >= CollateralPay(collateral, price)
             THEN [pay |-> CollateralPay(collateral, price), seize |-> collateral]
             ELSE [pay |-> pay, seize |-> Least(HbarFromUsd(usd, price), collateral)]

(* _resolveBadDebt: the residual debt is charged to the reserves, then to  *)
(* all suppliers through the supply index.  An index of zero retires every *)
(* outstanding share.                                                      *)
SupplierLoss(shares, m) == Cancelled(m, shares) - Least(Cancelled(m, shares), m.totalReserves)

LossIndex(shares, m) ==
    MulDiv(StoredSupply(m) - SupplierLoss(shares, m), WAD, m.totalSupplyScaled)

BugReservesSpared(shares, m) == WithoutDebt(m, shares)

ChargeReserves(shares, m) ==
    [WithoutDebt(m, shares) EXCEPT
        !.totalReserves = @ - Least(Cancelled(m, shares), @)]

BugEpochKept(charged, index) ==
    IF index = 0
    THEN [charged EXCEPT !.totalSupplyScaled = 0, !.supplyIndex = WAD]
    ELSE [charged EXCEPT !.supplyIndex = index]

Repriced(charged, index) ==
    IF index = 0
    THEN [charged EXCEPT !.totalSupplyScaled = 0, !.supplyIndex = WAD, !.supplyEpoch = @ + 1]
    ELSE [charged EXCEPT !.supplyIndex = index]

ChargeSuppliers(shares, m) ==
    LET remaining == StoredSupply(m) - SupplierLoss(shares, m)
        repriced == Repriced(ChargeReserves(shares, m), LossIndex(shares, m))
    IN  [repriced EXCEPT !.totalReserves = @ + remaining - StoredSupply(repriced)]

ResolveBadDebt(shares, m) ==
    IF SupplierLoss(shares, m) = 0 THEN ChargeReserves(shares, m)
    ELSE ChargeSuppliers(shares, m)

Covered(shares, m) == SupplierLoss(shares, m) <= StoredSupply(m)

ResolveFits(shares, m) ==
    /\ shares <= m.totalBorrowScaled
    /\ Cancelled(m, shares) >= 0
    /\ Covered(shares, m) => ResolveBadDebt(shares, m).totalReserves >= 0

BugExhaustedBeforeSeizure(collateral, seize) == collateral = 0

BugAlwaysExhausted(collateral, seize) == TRUE

Exhausted(collateral, seize) == collateral - seize = 0

(* The effect of liquidate() on a position of `shares` and `collateral`:   *)
(* pay, seize, and write off what an exhausted position leaves.            *)
Liquidation(shares, collateral, amount, price, m) ==
    LET deal == PreviewLiquidation(shares, collateral, amount, price, m)
        paid == deal.pay > 0
        burned == IF paid THEN BurnedShares(shares, deal.pay, m) ELSE 0
        repaid == IF paid THEN BurnDebt(shares, deal.pay, m) ELSE m
        residue == shares - burned
        exhausted == Exhausted(collateral, deal.seize) /\ residue # 0
    IN  [pay |-> deal.pay,
         seize |-> deal.seize,
         shares |-> IF exhausted THEN 0 ELSE residue,
         market |-> IF exhausted /\ Covered(residue, repaid)
                    THEN ResolveBadDebt(residue, repaid) ELSE repaid,
         covered |-> exhausted => Covered(residue, repaid),
         fits |-> /\ paid => BurnFits(shares, deal.pay, m)
                  /\ deal.seize <= collateral
                  /\ exhausted => ResolveFits(residue, repaid)]

(* liquidate(); the swap sends the seized HBAR out.                        *)
Liquidate(liquidator, a, amount, data, value, m) ==
    /\ liquidator # a
    /\ amount > 0
    /\ PriceUsable(data, value)
    /\ Liquidatable(borrowScaled[a], collateralOf[a], OracleAfter(data).price, m)
    /\ \E done \in {Liquidation(borrowScaled[a], collateralOf[a], amount,
                                 OracleAfter(data).price, m)},
          held \in {hbar + Retained(value, Fee(data))} :
        /\ collateralOf[a] > 0 => done.pay > 0 /\ done.seize > 0
        /\ cash + done.pay <= MaxCash
        /\ IF ~Fits(done.fits /\ held >= done.seize) THEN Panic
           ELSE IF ~done.covered THEN Revert("uncovered loss")
           ELSE /\ Commit(done.market)
                /\ borrowScaled' = [borrowScaled EXCEPT ![a] = done.shares]
                /\ collateralOf' = [collateralOf EXCEPT ![a] = @ - done.seize]
                /\ PriceRefreshed(data)
                /\ cash' = cash + done.pay
                /\ hbar' = held - done.seize
                /\ UNCHANGED <<supplierEpoch, supplierShares, faucet>>

-------------------------------------------------------------------------------
(* The faucet, and what happens to the pool's balances from outside.       *)

(* claimFaucet()                                                           *)
ClaimFaucet(a) ==
    /\ faucet.enabled
    /\ now >= faucet.lastAt[a] + FAUCET_COOLDOWN
    /\ faucet.budget >= FAUCET_AMOUNT
    /\ IF cash >= FAUCET_AMOUNT
       THEN /\ faucet' = [faucet EXCEPT !.budget = @ - FAUCET_AMOUNT, !.lastAt[a] = now]
            /\ cash' = cash - FAUCET_AMOUNT
            /\ UNCHANGED <<market, positions, prices, hbar, now, gifted, stray, stuck>>
       ELSE Revert("faucet transfer")

(* fundFaucet(), by the admin.                                             *)
FundFaucet(amount) ==
    /\ amount > 0
    /\ cash + amount <= MaxCash
    /\ faucet' = [faucet EXCEPT !.budget = @ + amount]
    /\ cash' = cash + amount
    /\ UNCHANGED <<market, positions, prices, hbar, now, gifted, stray, stuck>>

(* setFaucetEnabled(), by the admin.                                       *)
SetFaucetEnabled(enabled) ==
    /\ faucet' = [faucet EXCEPT !.enabled = enabled]
    /\ UNCHANGED <<market, positions, prices, cash, hbar, now, gifted, stray, stuck>>

(* A USDX transfer to the pool's address that calls no function of it.     *)
Donate(amount) ==
    /\ cash + amount <= MaxCash
    /\ cash' = cash + amount
    /\ gifted' = gifted + amount
    /\ UNCHANGED <<market, positions, prices, faucet, hbar, now, stray, stuck>>

(* receive(): plain HBAR.                                                  *)
Receive(amount) ==
    /\ hbar + amount <= MaxHbar
    /\ hbar' = hbar + amount
    /\ stray' = stray + amount
    /\ UNCHANGED <<market, positions, prices, faucet, cash, now, gifted, stuck>>

(* Anyone shows Pyth an update without calling the pool.                   *)
PushOracle(data) ==
    /\ data.publishTime > oracle.publishTime
    /\ oracle' = data
    /\ UNCHANGED <<market, positions, latest, faucet, cash, hbar, now, gifted, stray, stuck>>

Tick ==
    /\ now < MaxTime
    /\ now' = now + 1
    /\ UNCHANGED <<market, positions, prices, faucet, cash, hbar, gifted, stray, stuck>>

-------------------------------------------------------------------------------
Init ==
    /\ market = [supplyIndex |-> WAD, borrowIndex |-> WAD, lastAccrual |-> Genesis,
                 totalSupplyScaled |-> 0, totalBorrowScaled |-> 0,
                 totalReserves |-> 0, reserveRemainder |-> 0, supplyEpoch |-> 0]
    /\ supplierEpoch = [a \in Accounts |-> 0]
    /\ supplierShares = [a \in Accounts |-> 0]
    /\ borrowScaled = [a \in Accounts |-> 0]
    /\ collateralOf = [a \in Accounts |-> 0]
    /\ latest = [price |-> 0, publishTime |-> 0]
    /\ faucet = [enabled |-> TRUE, budget |-> 0, lastAt |-> [a \in Accounts |-> 0]]
    /\ cash = 0 /\ hbar = 0
    /\ oracle \in [price: Prices, publishTime: {Genesis}]
    /\ now = Genesis
    /\ gifted = 0 /\ stray = 0
    /\ stuck = "no"

PriceCall(a, data, value, m) ==
    \/ \E amount \in HbarAmounts : WithdrawCollateral(a, amount, data, value, m)
    \/ \E amount \in Amounts : Borrow(a, amount, data, value, m)
    \/ \E amount \in Amounts, b \in Accounts : Liquidate(a, b, amount, data, value, m)

CashCall(a, m) ==
    \/ \E amount \in Amounts : Supply(a, amount, m)
    \/ \E amount \in Amounts : WithdrawSupply(a, amount, m)
    \/ \E amount \in Amounts : Repay(a, amount, m)
    \/ \E amount \in HbarAmounts : DepositCollateral(a, amount)
    \/ ClaimFaucet(a)

MarketCall(m) ==
    \/ \E a \in Accounts : CashCall(a, m)
    \/ \E a \in Accounts, data \in UpdateData, value \in Values : PriceCall(a, data, value, m)
    \/ Accrue(m)

Next ==
    \/ \E m \in {Accrued} : MarketCall(m)
    \/ \E data \in UpdateData, value \in Values : UpdatePrice(data, value)
    \/ \E amount \in Fundings : FundFaucet(amount)
    \/ Fundings # {} /\ \E enabled \in BOOLEAN : SetFaucetEnabled(enabled)
    \/ \E amount \in Gifts : Donate(amount)
    \/ \E amount \in Gifts : Receive(amount)
    \/ \E data \in UpdateData : PushOracle(data)
    \/ Tick

Spec == Init /\ [][Next]_vars

-------------------------------------------------------------------------------
(* Properties.                                                             *)

(* Stored values keep the types of the contract's unsigned fields.         *)
TypeOK ==
    /\ market \in Market
    /\ supplierEpoch \in [Accounts -> Nat] /\ supplierShares \in [Accounts -> Nat]
    /\ borrowScaled \in [Accounts -> Nat] /\ collateralOf \in [Accounts -> Nat]
    /\ latest \in Quote /\ oracle \in Quote
    /\ faucet \in [enabled: BOOLEAN, budget: Nat, lastAt: [Accounts -> Nat]]
    /\ cash \in Nat /\ hbar \in Nat /\ now \in Nat
    /\ gifted \in Nat /\ stray \in Nat
    /\ stuck \in {"no", "panic", "uncovered loss", "faucet transfer"}

(* No call that passed the checks meant for its caller is ever reverted by *)
(* checked arithmetic (supply, withdrawSupply, borrow, _burnDebt,          *)
(* _previewAccrual, _resolveBadDebt), by "uncovered loss", or by a faucet  *)
(* payment the pool cannot make.                                           *)
NeverStuck == stuck = "no"

(* What the pool holds and is owed equals what it owes: to suppliers, to   *)
(* the reserves, to the faucet, and donations _accrue has yet to book.     *)
Conservation == Assets(market, cash) = Liabilities(market) + gifted

(* The share totals that price every claim are the sums of the accounts'   *)
(* shares, those of a retired epoch excluded.                              *)
TotalsMatchShares ==
    /\ market.totalBorrowScaled = Sum(borrowScaled)
    /\ market.totalSupplyScaled = Sum([a \in Accounts |-> ActiveShares(a, market)])

(* No debt outlives its collateral: what liquidation leaves after seizing  *)
(* the last tinybar is written off in the same call.                       *)
NoUnsecuredDebt == \A a \in Accounts : borrowScaled[a] > 0 => collateralOf[a] > 0

(* The pool's HBAR is exactly the collateral it owes plus what was sent to *)
(* it directly: an oracle fee or its refund never comes out of collateral. *)
NativeBacked == hbar = Sum(collateralOf) + stray

(* The faucet's earmarked USDX is never lent out or withdrawn.             *)
FaucetBacked == cash >= faucet.budget

(* Both earmarked funds are there: other actors' operations, fees, refunds *)
(* and write-offs leave the collateral and the faucet's budget untouched.  *)
FundsBacked == NativeBacked /\ FaucetBacked

(* What the action properties below say of a step, one formula each.       *)
RiskStep ==
    \A a \in Accounts :
        \/ borrowScaled'[a] > borrowScaled[a]
        \/ borrowScaled'[a] = borrowScaled[a] /\ borrowScaled[a] > 0
             /\ collateralOf'[a] < collateralOf[a]
        => /\ Healthy(borrowScaled'[a], collateralOf'[a], latest'.price, market')
           /\ now - latest'.publishTime <= PRICE_MAX_AGE

SeizureStep ==
    \A a \in Accounts :
        collateralOf'[a] < collateralOf[a] /\ borrowScaled'[a] < borrowScaled[a]
        => /\ Liquidatable(borrowScaled[a], collateralOf[a], latest'.price, Accrued)
           /\ HbarValue(collateralOf[a] - collateralOf'[a], latest'.price)
                <= MulDiv(UsdxValue(cash' - cash), WAD + LIQUIDATION_BONUS, WAD)

ReservesStep ==
    market' # market /\ StoredSupply(market)' < StoredSupply(Accrued) /\ cash' >= cash
    => market'.totalReserves * WAD <= market.totalSupplyScaled + WAD

IndexStep ==
    /\ market'.borrowIndex >= market.borrowIndex
    /\ market'.supplyIndex < market.supplyIndex \/ market'.supplyEpoch # market.supplyEpoch
       => \E a \in Accounts : /\ borrowScaled[a] > 0 /\ borrowScaled'[a] = 0
                              /\ collateralOf[a] > 0 /\ collateralOf'[a] = 0

SharesStep ==
    \A a \in Accounts :
        ActiveShares(a, market)' > ActiveShares(a, market)
        => MulDiv(ActiveShares(a, market)' - ActiveShares(a, market), market'.supplyIndex, WAD)
             <= cash' - cash

(* A step that adds debt to a position, or takes collateral from it while  *)
(* its debt stays, leaves the position healthy with interest accrued, at a *)
(* price not older than the limit.                                         *)
RiskOnlyWhenHealthy == [][RiskStep]_vars

(* Collateral is seized only from a position that is liquidatable with the *)
(* interest up to now, and never for more than the payment plus the bonus. *)
SeizureIsPaidFor == [][SeizureStep]_vars

(* A write-off is charged to suppliers only when it has used up the        *)
(* reserves: whatever reserves remain are the rounding dust of the index.  *)
(* (Every call that changes the market accrues first, so its loss is taken *)
(* against the accrued one; a new price alone changes nothing.)            *)
ReservesAbsorbFirst == [][ReservesStep]_vars

(* Debt never shrinks by itself, and suppliers are never charged but in a  *)
(* step that seizes the last collateral of a debtor and clears its debt.   *)
IndexesOnlyFallInWriteOff == [][IndexStep]_vars

(* An account's live shares grow only against USDX worth at least as much: *)
(* shares a total loss has retired do not come back with a later supply.   *)
SharesArePaidFor == [][SharesStep]_vars

(* A position that is liquidatable at the price Pyth holds can be          *)
(* liquidated by an offer of its whole debt: the quote is never rounded to *)
(* an amount that liquidate rejects as too small.  (A tinybar is taken to  *)
(* be worth at most one base unit of USDX, an HBAR at most 100 dollars.)   *)
LiquidationOpen ==
    \A m \in {Accrued}, a \in Accounts :
        LET debt == DebtOf(borrowScaled[a], m)
            quote == PreviewLiquidation(borrowScaled[a], collateralOf[a], debt, oracle.price, m)
        IN  /\ PriceUsable(NoData, 0)
            /\ oracle.price <= UsdxValue(1) * HBAR_UNIT
            /\ Liquidatable(borrowScaled[a], collateralOf[a], oracle.price, m)
            => quote.pay > 0 /\ quote.seize > 0

===============================================================================
