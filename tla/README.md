# Formal models of the Hedera lending market

TLA+ specifications of the lending pool contract and of the services around it, the TLC runs
that check them on small instances, and machine-checked proofs about each of them for every instance. Paths below are relative to the repository root; in PROJECT.json they start with `src/`.

## 1. The system

| Component | State | Operations | Hard behaviour |
|---|---|---|---|
| **LendingPool** `packages/hardhat/contracts/LendingPool.sol` | two indexes, share totals, reserves and a carried remainder, epochs of supply shares, positions, last price, faucet budget; the pool's USDX and HBAR | accrue, updatePrice, deposit/withdraw collateral, supply, withdraw, borrow, repay, liquidate with write-off, faucet | rounding in every operation, losses larger than reserves, total losses, stale prices, donations between calls |
| **Activity mirror** `packages/nextjs/lib/server/activity-*.ts`, `app/api/activity/route.ts` | a directory shared by all server processes: one entry per transaction, one directory per quota slot; the HCS topic | verify a transaction, reserve, name the payment, record the intent, send, record the outcome | processes racing on the directory, crashes between paying and recording, lost receipts, the turn of the hour |
| **Audit route and outbox** `audit-route.ts`, `audit-client.ts`, `scripts/audit-delivery.ts` | outbox files, unfinished files, places reserved per request | record an event durably, deliver it once, replay the backlog each minute | capacity, two processes removing files, lost answers, crashes between rename and sync |
| **Audit journal and collector** `scripts/audit/{journal,server,collector}.ts` | an append-only file, its lock, the writer's memory, a chain of promises | open and verify, append, acknowledge, close | half-written lines, kills and power loss, duplicate and conflicting deliveries, failed writes |
| **Deal ledger** `deal-ledger/src` | rows in memory, a JSONL file, an HCS topic, title NFTs | completeDeal (first sale or resale) | interleaved calls, lazy loading, failures after the message is public |
| **Price proxy** `lib/server/hermes.ts`, `lib/hermes.ts` | a two-second cache, one request in flight for all readers | serve a signed update, join a request, time out | age of what is served, a provider that hangs, clocks that differ |
| **Deployment journal** `packages/hardhat/scripts` | `deployments/<network>.json`, the app's `.env.local` | paid steps, each begun and completed in the journal | crashes between submission and record, reruns |
| **Market client** `useMarketTransaction.ts`, `transactions.ts`, `{Position,Price}Panel.tsx`, `LiquidationWatch.tsx`, `FaucetButton.tsx` | one running action per panel, what it has read, the account's transactions and allowance | click, read, approve, confirm, preview again, send, report | panels that share an allowance, quotes older than a wait, late, reverted and replaced transactions |

How they interact: the client reads a signed price through the proxy and calls the pool, which
takes the price from Pyth. A confirmed transaction is reported to the activity service, which
pays for an HCS message. Every API request passes the audit route, whose events go through the
outbox to the collector's journal; the activity service sends nothing before its audit intent is
durable. Deployment creates the pool, its token and the topic. The deal ledger is separate: it
shares the topic service and the canonical JSON only.

What makes each part correct:

- *Pool*: books that balance to the base unit, no debt without collateral, no unintended
  revert, risk only at a fresh price, exact liquidation, losses in the right order.
- *Mirror*: at most one payment per transaction and a bounded number of claims per hour, a
  journal that says what was paid, no payment without a durable intent.
- *Outbox and journal*: an accepted event is never lost, an acknowledged event is on disk once,
  capacity is kept, the backlog drains, shutdown ends.
- *Deal ledger*: what is public is recorded, a receipt is true, one first sale per asset.
- *Price proxy*: what is served is young enough for the contract, and one hung request does not
  hold the readers for good.
- *Market client*: what is shown and reported as done was done, nobody signs on a quote from before
  a wait, a call lacks allowance only by somebody else's doing.

The hazards behind these, each with its line and the properties that would catch it, are listed
in PROJECT.json under `hazards`.

## 2. Modules

| Module | Models | Remarks |
|---|---|---|
| `FixedPoint` | `Math.mulDiv`, rounded down and up; finite sums | recursion as a fold, so that it can be proved about |
| `LendingPool` | the contract | one action per external function that writes state |
| `LendingPoolProofs`, `ActivityMirrorProofs`, `AuditJournalProofs`, `AuditPipelineProofs`, `DealLedgerProofs`, `DeployJournalProofs`, `PriceServiceProofs`, `MarketClientProofs` | lemmas and theorems | see section 5 |
| `PaidReports` | abstract: one claim per report, a budget per hour, one payment per claim | implemented by `ActivityMirror` |
| `ActivityMirror` | handler, store, signed submission, several processes | one action per step between awaits |
| `DurableLog` | abstract: a log that grows, one record per id, acknowledged only if recorded | implemented by `AuditJournal`, used by `AuditPipeline` |
| `AuditJournal` | journal file, its writer and the HTTP collector | |
| `AuditPipeline` | audit route, outbox and replay, composed with `DurableLog` | |
| `DealLedger` | completeDeal, JSONL storage, topic and titles | |
| `DeployJournal` | deploy.ts, bootstrap.ts and the journal of record.ts | one script at a time |
| `PriceService` | provider, proxy and the browser's request for a signed price | ages and waits instead of a clock |
| `MarketClient` | the panels, the wallet and the account's transactions | one action per step between awaits |
| `MC*` | instances for TLC | constants and symmetry only |

### LendingPool

A transaction is one step, since the EVM makes it atomic; transactions of all accounts
interleave. `market` is the record of indexes, totals, reserves and epoch, `cash` is
`usdx.balanceOf(pool)`, `hbar` the native balance. `Accrued` is `_accrue()` as a function of the
market; the actions that begin with it take the accrued market as their parameter `m`
(`MarketCall`), those of the contract that do not accrue (`updatePrice`, `fundFaucet`,
`setFaucetEnabled`) are separate disjuncts of `Next`. A failed `require` disables the action. An arithmetic panic,
"uncovered loss" or a faucet payment that cannot be made is different: there the caller passed
every check and is still refused. These paths set `stuck` and change nothing else, so that
`NeverStuck` says they do not exist. `gifted` and `stray` record what was sent to the pool
without an operation. `UpdateData` is the set of price updates that somebody can hold: any
listed price, published at any time up to now, or no data. Pyth (`OracleAfter`, `PushOracle`),
transfers into the pool (`Donate`) and time (`Tick`) are external.

### ActivityMirror

`entry[t]` is the directory of a transaction (`none`, `empty`, `pending`, `named` with the
payment's id, `submitted`), `quota` the slot directories, `trail` the audit events, `sent` the
payments handed to the network, `posted` what reached the topic. A handler is a sequence of
positions, one per await of `createActivityHandler` and `ActivityStore`; `mkdir` is an atomic
claim. `Crash` ends all handlers of a process and leaves the disk.

### AuditJournal

`rows` are complete lines, `synced` how many are on the disk, `tail` a half-written line.
`process` and `lock` follow `AuditJournal.open` and `close`: a collector told to stop (`Shutdown`)
still appends what its open connections send until the server has closed (`ServerClosed`). `queue` is the promise chain with
the HTTP requests that wait for it, `step` the position of the append that runs. `known` is the
writer's memory. `failed` is the poisoned state after a write or sync error. `Kill` keeps the
page cache, `PowerLoss` may drop what was not synced.

### AuditPipeline

A request is `new`, then records a start, some details and its completion; each record passes
`Admit` (its turn in the serial section, the capacity check), `Write` (temporary file and
rename), `Settle` (sync of the directory), `Deliver` and `Finish`. `places` are the
`requestReservations`. The replay process is another machine process: it shares the files but
not the serial section. `Collected` is a step of `DurableLog`; `Uncollected` is a lost, late or
negative answer, after which the event may or may not be in the log.

### DealLedger

A call is at `load`, `save`, `append`, `submit`, `title`, `confirm` or `amend`, the awaits of
completeDeal and of the storage it calls. Calls interleave at each of them, as calls of any
`LedgerStorage` may; for the JSONL storage, some of these interleavings need calls started in
the same turn of the event loop. `Restart` forgets the memory; failed operations may or may not
have had their effect. `file` is the lines of the JSONL file and `ended` whether the last has its
newline. An append that fails leaves nothing, a part of its text, all but the newline, or all of it;
the next append of the process goes behind that (`With`), on the same line when the newline is
missing. The model keeps of such text only whether it parses: a part of an object does not, nor does
anything with a second text behind it, and an object that lacks only its newline does. `Load` stops
at the first line that does not parse (`Unparsed`). A record, its hash and the message that binds the hash are named by the
call that built them. A call may repeat an earlier one under the same deal id, once no call for
that deal runs (`Free`; the ids of `send-first-marker.ts` are random, so nothing else starts two
at once): it overwrites the row, receipt included, and posts again. `Verified` is what verifyDeal
compares: the record of the row with the message at the sequence number of its receipt.

### DeployJournal

`file` is the record on disk, the status of each paid step and the addresses known; `env` is
what the frontend reads, written by `Publish` after each save once there is a pool. `run` is the
script under way: at each step it is skipped or begun (pending on disk), sent and confirmed.
`Stop` is a crash, an error or a refusal, possible between any two of these. A transaction in
flight (`fate`) is accepted or rejected at any time, also after the script has ended, and `paid`
counts what was accepted. The operator may spend from the treasury at any time, and between runs
`Reconcile` a pending step whose transaction is settled, as README.md:102-106 describes.

### PriceService

All that matters of an update is its age. `cached` is the variable of the same name, with the age
of its value and the time since it was stored; `fetch` is `pending`, with the time it has been
under way. A browser's request is `sent`, then `waiting` for the shared promise or `answered` from
the cache, and ends `held`, refused as `stale`, or `failed`. `Settle` gives everybody who waits the
same outcome, in one step, since the continuations of a promise run before the next event.
`Tick` ages everything under way; ages stop above the browser's limit. The pool accepts updates of
at most the same age (README.md:135, 120 seconds). Everything that refuses a request or an answer
for another reason than its age is one failure.

### MarketClient

`panel[p]` is the local state of the action that runs in a panel: its position among the awaits,
its call, the amount, whether its price is `fresh`, and the transaction it waits for. `queue` and
`settled` are the account's nonces. `SignApproval` and `SignCall` are the wallet's answers;
`Mine` and `Replace` settle the next nonce. A refused signature, a failed read, a timeout and a
revert all end in `Fail`, possible at every await, since `execute` catches them alike.
`confirmTransaction` is `Confirmed`: viem reports a replacement as `repriced`, `replaced` or
`cancelled`, and only the first passes. A payment needs its amount of the allowance and takes it,
all of it or, for a repayment or liquidation of less debt, a part. The user may lower an approval
in the wallet (`lowered`): liquidate reads the allowance again (`Recheck`), supply and repay do
not. `mark` is how many nonces had settled when the page last knew the allowance to cover the
payment; each new preview of a liquidation resets it (`FetchPrice`), because its payment has not
been compared with anything yet. What the pool does with a call is `LendingPool`; what the activity service does with a report
is `ActivityMirror`.

## 3. Runs

Every passing run explores its instance completely.

| Run | Instance | Checks |
|---|---|---|
| `lending_market` | 2 accounts, WAD 4, HBAR unit 2, prices 1, 6 and 8 (x/4 dollars), four periods of high interest | `TypeOK`, `NoUnsecuredDebt`, `LiquidationOpen`, `TotalsMatchShares`, `RiskOnlyWhenHealthy`, `SeizureIsPaidFor`, `ReservesAbsorbFirst`, `IndexesOnlyFallInWriteOff`, `SharesArePaidFor` |
| `lending_accounts` | 2 accounts, WAD 20, gifts, faucet, fees with and without refunds | `Conservation`, `FundsBacked`, `NeverStuck` |
| `activity_mirror` | 2 transactions, 2 handlers in 2 processes, 1 slot, 2 hours, auditing on | `TypeOK`, `SentIsJournaled`, `AuditIsTrue`, `StuckOnlyByFault`, `KeepsPromise` (implements `PaidReports`), `RequestsAnswered` |
| `audit_journal` | 2 ids with 2 contents, 2 waiting requests, 2 failed or torn writes | `TypeOK`, `OneRecordPerEvent`, `WriterKnowsFile`, `ImplementsLog` (implements `DurableLog`), `ShutdownEnds` |
| `audit_pipeline` | 2 requests of up to 3 records, 4 places, batches of 1, 1 fault | `TypeOK`, `NothingLost`, `CapacityKept`, `Delivered` |
| `deal_ledger` | 3 calls for one asset, of which some may repeat a deal, with and without a tracker, 2 faults | `TypeOK`, `PostedIsRecorded`, `OneSaleInTurn`, `ReceiptIsReal` |
| `deploy_journal` | all steps of both scripts, a treasury of 5 of which the seeds take 2 and 1 and the pair 1 | `TypeOK`, `StepPaidOnce`, `PublishedIsReal`, `MintCoversSeeds` |
| `price_service` | 2 readers, limits scaled down, the publisher's clock ahead by up to one tick | `UsableOnArrival`, `FetchEnds` |
| `market_client` | 2 panels, 3 actions, 3 transactions, amounts 1 and 2 | `ConfirmedIsDone`, `PromptIsCurrent`, `ShortOnlyByOthers` |
| `activity_hour` | as `activity_mirror` | finds `SubmissionsWithinHour` violated |
| `deal_double` | 2 calls | finds `NoDoubleSale` violated |
| `deal_resale` | 2 calls, no faults | finds `OneCompletedRow` violated |

### Bounds and why they are enough

- *Pool.* WAD, the unit of all ratios, is 4 (or 20) instead of 10^18, so that almost every
  `mulDiv` rounds and an error of one base unit is as large as it can be; amounts are chosen so
  that positions become liquidatable, exhausted and dust. `MaxCash`, `MaxHbar` and `MaxTime`
  bound the state; `SECONDS_PER_YEAR = 1` makes a second of interest visible. Two accounts give
  a supplier, a borrower and a liquidator in all combinations of roles but three distinct
  people; the proofs hold for any number.
- *Mirror.* Two handlers in two processes race on one name and on one slot, which for two reports
  is also the limit; the second hour gives each a slot of its own; hour 0 and hour 1 give the turn of the hour. `MaxHour` is the only bound that cuts a
  behaviour short.
- *Journal.* Two contents for an id make a conflict, two waiting requests a duplicate in flight,
  `MaxTorn = 2` a failure during the recovery from a failure.
- *Pipeline.* With four places and three records for each request a second request is only admitted when
  the first has delivered something, so the limit is reached in most states. `RecordLimit` is 4
  in the code. `MaxFaults = 1` allows one disk error or crash anywhere; deliveries fail without
  limit.
- *Deployment.* No bound on stops, reruns, rejected transactions or reconciliations: the state is
  finite. The treasury starts two units above the seeds, so that spending makes a deficit before
  either seed, between them, or after both.
- *Prices.* Two readers are one that starts the shared request and one that joins it, or one that
  fills the cache and one that hits it; a third adds nothing to the age of an answer. The scaled
  limits keep their order (`TimingAssumption`): provider's limit and cache below the browser's.
- *Market page.* Position and liquidation are the two panels that use the allowance; supply stands
  for repay, withdrawCollateral for borrow. With three transactions an approval, another panel's
  call between, and the call that depended on it, all fit. `MaxTxs` bounds the run.
- *Deals.* Three calls give a sale, a resale and a competitor, or a resale that is tried again;
  two faults let a restart follow a lost write, or a second append fail behind the text of a first.

### Fairness

- `activity_mirror`: weak fairness of the handlers' steps. The mirror requests and the audit
  delivery have timeouts, the SDK has a deadline, and the file operations return. Nothing is
  assumed of callers, crashes, consensus or the clock.
- `audit_journal`: weak fairness of the writer, which closes the journal once the server has
  closed, and of the server's closing: a connection carries one request (`connection: close`) that
  has a timeout, and no new connection is taken. A kill is always possible and also ends it.
- `price_service`: weak fairness of the clock and of the timers (`AbortSignal.timeout` in both
  fetches). Nothing is assumed of the provider or the network.
- `audit_pipeline`: weak fairness of the replay (the timer of
  `ops/audit/hedera-audit-delivery.timer` starts it again and again, and a delivery ends within
  two seconds) and strong fairness of its successful delivery: a collector that is asked
  infinitely often answers infinitely often. That is what the end of an outage means; without
  it nothing could be promised. Requests need not go on.

The other runs check safety only. `CHECK_DEADLOCK FALSE` is set where the program may come to
rest: a bounded market at its last second with nothing left to do, a drained outbox, finished
calls.

## 4. What the runs found

- *Submissions per hour* (`activity_hour`). README.md:85-86 promises at most 30 paid submissions
  per UTC hour. A slot is charged when the report is reserved and spent after a write and an
  audit record, possibly in the next hour. The number of *claims* per hour is bounded
  (`KeepsPromise`), the number of submissions in an hour is not.
- *Double sale* (`deal_double`). The guard of completeDeal reads before an await and writes
  after it: two calls for one asset can both post. `OneSaleInTurn` shows that this is the only
  way, together with a failed read of the file: calls made in turn are safe across restarts and
  failures.
- *Resales* (`deal_resale`). deal-ledger/README.md:39-41 wants the prior row marked `resold` "or
  [...] a new sequenced message linking the prior receipt". No code does either: an asset has two
  completed rows, which the schema's unique index would reject, and the message of a resale names
  no other.
- *Torn appends.* An append of the ledger that fails half-way leaves text without its newline. The
  process has its table loaded, so its next call appends behind that text and posts, and no later
  run reads the joined line or what stands behind it. `PostedIsRecorded` shows the extent of it: a
  line that does not parse has cost one posted message its record, at most, and a file that still
  reads has them all; what stands behind such a line can be read when it is taken out by hand.
- *Late loads.* A load that ends late replays the lines of the file over rows saved since. If one
  of them belongs to a deal that is being tried again, the new receipt ends in the row of the
  old record, and verifyDeal reports a mismatch for an honest record. `ReceiptIsReal` therefore
  speaks of verification only for calls made in turn. (The comment at service.ts:52-54 refers a
  pending row to `reconcileDeal()`, a function the repository does not have.)

Met on the way, and listed as hazards: the outbox keeps the places of a request whose completion
could not be recorded until a restart; a temporary file that cannot be removed can make it
refuse a request it admitted; a dust position is not liquidatable when a tinybar is worth more
than a base unit of USDX. The environment file misses the pair when the second write of the last
save is lost: bootstrap then reports that it is done and writes nothing, and only deploy repairs
it.

## 5. Proofs

`LendingPoolProofs` starts with lemmas on `MulDiv`, `MulDivUp` and `Sum` (bounds, monotonicity,
the sum of a changed function) and proves, from the constant assumptions
`UnitAssumption`, `RateAssumption` and `InputAssumption` of `LendingPool` alone (positive units,
a collateral factor not above the liquidation threshold, a reserve factor not above one, a
finite set of accounts):

- `PoolInvariant`: `Spec => []PoolInv`, where `PoolInv` is the inductive invariant;
- its consequences, each a property that a run checks: `TypeCorrect`, `CallsNeverStick`,
  `TokensConserved`, `TotalsAreSums`, `DebtIsSecured`, `FundsAreThere` (from `CollateralIsThere`
  and `FaucetIsThere`) and `LiquidationIsOpen`.

None of these is inductive alone. That a subtraction fits (`NeverStuck`) needs the totals to be
the sums of the accounts' shares (`TotalsMatchShares`), since a debtor burns at most its own; that
they are sums needs the epochs of accounts never to be ahead of the market's (`EpochsBegun`).
That a write-off never exceeds the claims needs the books to balance (`Conservation`) together
with `FaucetBacked`, and that an accrual preserves them needs the carried remainder to be below
one unit (`TypeOK`) and the last accrual not to lie in the future (`Clock`). `PoolInv` is the
conjunction of these and of the remaining safety invariants.

The proof has one lemma for each operator that changes the books (`AccruedSound`,
`SuppliedSound`, `WithdrawnSound`, `BorrowedSound`, `BurnDebtSound`, `ResolveSound`,
`LiquidationSound`), one for each guard that decides whether a call sticks (`AccruedReady`,
`BurnAlwaysFits`, `AlwaysCovered`), and one for each action; `StepInv` combines them and the
temporal step is the usual induction.

Its last part proves the action properties from `PoolInv`: `RiskOnlyWhenHealthy`,
`SeizureIsPaidFor`, `ReservesAbsorbFirst`, `IndexesOnlyFallInWriteOff` and `SharesArePaidFor`. The
steps divide into those that leave the positions (`PositionsKept`), those that leave the price of
the suppliers' shares (`SuppliersKept`), and liquidations, the only step that moves both. What is
hard is in the rounding: a payment rounded to what it cancels still cancels a share
(`RepaymentBurns`), so that seized collateral always goes with debt; a seizure rounded down is
worth no more than the payment and its bonus; and a loss reaches the suppliers only after the
reserves are below the dust of one share.

`LiquidationIsOpen` is about rounding alone: a quote for the whole debt of a liquidatable position
never rounds to nothing. The two branches of the preview differ. When the collateral covers the
bonus, the payment is the debt, and what it buys with the bonus is at least the tinybar that costs no
more than one base unit of USDX (`BuysTinybar`); otherwise the seizure is all the collateral, which is
not zero because a position with debt has some (`NoUnsecuredDebt`), and the payment is at least one
base unit.
The property's condition on the price says exactly that a tinybar costs no more than a base unit;
it does not restrict the units or the rates.

`ActivityMirrorProofs` proves, from `MirrorAssumption` alone (a finite set of hashes, a positive
limit), `SentCanBeReconciled`, `AuditStaysTrue`, `RefusalsLeaveNothing` and that the shared
directory implements `PaidReports` (`DirectoryKeepsPromise`: `Spec => KeepsPromise`). None of
them is inductive: a second invocation that took over a report between two awaits of the first
would break each. The invariant `MirrorInv` therefore says that a report has at most one owner
(`OneOwner`) and what each place of the handler knows of its directory and of what was sent
(`OwnerKnows`). The budget needs `Budget` besides: a slot of an hour holds one report, a report
that may still be claimed has not been, and one that may still be paid for has. From it the reports
charged to an hour with a free slot map one to one to its other slots (`RoomLeft`), which is why
`mkdir` of numbered slots counts without a lock. Each step then is a stutter, a claim or a payment
(`BudgetStep`).

`AuditJournalProofs` proves, from `JournalAssumption` (the bounds are natural numbers),
`OneRecordPerEvent`, `WriterKnowsFile` and that the journal implements `DurableLog`
(`JournalImplementsLog`: `Spec => ImplementsLog`), for any events, any queue and any number of
failed writes, kills and power losses. The invariant `JournalInv` says that at most one complete
line is not on the disk (`FileSound`), that a writer which has not failed knows every line but that
one (`WriterKnows`), and that an append which passed the check is of an event the writer does not
know (`AppendUnderWay`). So the line being written is new to the file, and a restart that adopts a
line adopts at most one, which is a `Record` of the abstract log; a sync that succeeds is the
other.

`AuditPipelineProofs` proves `NothingLost` and `CapacityKept` from `PipelineAssumption` (a finite
set of requests, at least two records per request). For the first, an answer that removes a file
must be about that file (`Answers`: the request or the replay that sent it has not moved on), a
crash may take back only a file whose `record()` has not resolved (`Receipts`), and a replay that
delivers a file before its directory is synced has put it in the log (`Renamed`). For the second,
one request at a time is between the check and the end of its write (`Serial`), so that the file
the check counted still fits (`Room`); and a request never has fewer places than records left
(`PlacesLeft`), so that as long as all reservations fit (`Reservations`) its own check cannot fail.
The proof counts places and files with the library's theorems on cardinality.

`DealLedgerProofs` proves, from `DealAssumption` (finite sets of calls and assets), every invariant
of the ledger. `PostedIsRecorded` compares two cardinalities, so the invariant gives an injection
instead (`Spread`): each call whose record has been sent to the file has a line of its own, or a line
that does not parse and that no other such call needs, and never a last line without its newline
(`Placed`), since a later text may still join that one. A call therefore goes on to post only from a
line that nobody joins any more, and the line it ends in was no other call's. The others depend on
the Map, and so on what a load makes of it. `Replay` is a recursive function, and what it computes
for a file of any length is proved by hand: the least line at which the claim fails would have a
predecessor at which it holds (`LeastElement`, `UpTo`), which gives that the recursion is well
defined (`ReplayDefined`) and that a replay leaves a table of old rows and lines read, in which every
deal of either has one row (`ReplayFacts`). With that, `DealInv` is inductive. `ReceiptsVerify` needs
that every row *and* every line is sound (`RowSound`), since a late load may put any line over any
row, and that the row of a deal is that of the call that runs when calls are made in turn (`InTurn`).
`OneSale` joins two of the invariants: the deals on the topic are in every table that has been read
(`PostedKnown`: a file that was read to its end has no line that does not parse, so by `Spread` it has
their records), and so the guard of a first sale finds an earlier one (`GuardHeld`). `TypesHold` says that the Map has one row per deal, which is what makes
`Found` and `RowOf` of the model the Map's lookups.

`DeployJournalProofs` proves, from `AmountAssumption` (the amounts are natural numbers),
`TypesHold`, `PaidOnceForever`, `FrontendIsToldTheTruth` and the action property `MintsForSeedsOnly`. The
invariant `JournalInv` says that the journal is never behind the network: a step it does not name
was not sent, one it calls complete was accepted (`Journaled`), and the script has just written
the step it is about to send (`Writing`). `MintInv` adds that no seed is open while a mint is, so
that what the journal said of the seeds when the mint was computed is still true when the network
accepts it, however late.

`PriceServiceProofs` proves `AnswersAreUsable` from `TimingAssumption`, which says that the
provider's limit and the time in the cache together stay within the browser's limit (110 + 2 <=
120 in the code). The invariant `YoungInv` relates the age of a cached update to the time it has
been kept, and that of an answer to the time of its way, and says what is left of these relations
once a counter has stopped growing.

`MarketClientProofs` proves `ReceiptsAreReal` from the invariant `ClientInv`: a panel remembers a nonce of its own (`OwnTx`), which a new signature does not move
and settling does not give to another; at each place of an action it has read what the next place
needs (`Informed`). `PromptsAreCurrent` and the action property `ShortsHaveCauses` need a second
invariant, `CoverInv`: an amount that was covered by the allowance when the first nonces had settled still is, or the approval
then was lowered, or a later transaction changed the allowance (`Covers`); for a liquidation at its prompt a lowered approval is no excuse (`Kept`), because the
allowance is read again. It holds of every queued
call that pays, of every prompt for one, and of an approval under way from the moment it settles,
which is where panels that share the allowance interfere; a step of the chain either keeps the
allowance or becomes one of the causes (`SettleCovers`).

Only model-checked is what happens eventually: `RequestsAnswered`, `ShutdownEnds`, `Delivered` and
`FetchEnds`. Liveness under fairness and ENABLED stay with TLC, since the prover does not reach
them. Every other property of a passing run is a theorem.

## 6. Not modelled

- Widths of 256 bits and gas; callbacks into the contract (`nonReentrant`); `associateToken(s)`;
  the output of the swap; confidence intervals and exponents of prices.
- Two deployment scripts at once, which would overwrite each other's record; approvals and token
  associations, which can be repeated; the ids of transactions in the journal.
- The limit of 90 requests per minute of one process and the check of the topic's key, which
  refuse before any state; hashes, signatures, canonical JSON and event validation.
- Tampering with the journal between two runs, its verification and export commands.
- Two app processes on one outbox, which docs/audit-log.md:62 rules out.
- The Supabase storage of the deal ledger, of which the repository has only the schema.
- The borrower scan of the liquidation panel (`fetchRecentBorrowers`): two scans may be under way
  and the older one may finish last and show an older list; nothing is signed from the list alone,
  since liquidate previews the position first. The wallet's connection and chain.
- A browser whose clock differs from the server's: it can refuse what the proxy serves, or hold
  what the pool refuses.
- A second click after a receipt timed out, with the first transaction still pending: the model
  reaches it, and no property speaks about it, because nothing in the code tells a retry from a
  second wish.
- User interface, generated ABIs, mocks, the fork harness, build files.

## 7. Plan

Done, in this order: `LendingPool` with its proofs; `ActivityMirror` with `PaidReports`;
`AuditJournal` with `DurableLog`; `AuditPipeline`; `DealLedger`; `DeployJournal`; `PriceService`
and `MarketClient` with their proofs; the proofs of `ActivityMirror` and `DeployJournal`; the
action properties of the pool; the proofs of `DealLedger`, `AuditJournal` and `AuditPipeline`; the
remaining safety properties of every component.

Next:

1. The read side of the journal (verify, export, checkpoints) against a file that grows.
2. A second script at a time in `DeployJournal`, and the ids of transactions, which a stop between
   submission and save can lose although README.md:102-104 has the operator look them up.
