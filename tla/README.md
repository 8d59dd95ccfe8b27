# A TLA+ development of the tranched equity book

The repository is a set of Solidity contracts that hold a stock token and a quote
token, offer them as liquidity in a Uniswap v4 pool under a *guard hook*, and share
the result between a senior and a junior tranche. A keeper process drives it. Beside the
contracts, `research/cadcad` holds two simulations in Python of what that keeper should
do with the capital, the *allocator* and the *fee allocator*, with the experiments that
run them and the studies that read the results. This directory models the parts that
carry the system's own logic, checks them with TLC on small instances and proves safety
properties with TLAPS for every value of the constants.

## 1. Inventory

| Component (source) | State | Operations | What makes it correct |
|---|---|---|---|
| Guard hook (`src/hook/PoolGuardHook.sol`) | base and guard position, `guardPresent`, `pulledAt`, `deployEnabled`, `exited`, parameters, idle tokens, ERC-6909 claims | owner: initialise, enable, set parameters, deploy, recenter, recall, withdraw, pull all, rearm; anyone: recheck, unwind claims; the pool: `beforeSwap` | nothing lost or counted twice; an exited book is out of the pool; no guard on a manipulated tick; a pulled guard comes back |
| Guard simulator (`src/hook/PoolGuardSimulator.sol`) | none | `simulate` | a verdict on a swap; the hook must be safe for any |
| Vault control plane (`src/vaults/LedgerVault.sol`) | `depegPaused`, `disabledByDepeg`, `deviationSince`, `lastDepegCheck`, grace, `halted`, `settled`, expiry | heartbeat, force, resume, halt, settlement, keeper calls on the hook | latch and halt cannot be undone behind their back; latching and clearing restore exactly what they took |
| Vault shares and pricing (`LedgerVault.sol`, `core/HookShareToken.sol`) | share supply, fee schedule | wrap, unwrap | rounding favours the vault; net asset value counts each unit once |
| Settlement (`vaults/LedgerSettlement.sol`) | none (runs in the vault) | `finalize` | everything is collected before the waterfall; senior first |
| Liquidity ladder (`vaults/LedgerLiquidity.sol`) | none (runs in the vault) | `ensureQuote`, `ensureEquity` | pays exactly or reverts; guard recall is the last rung |
| Tranche accountant (`vaults/TrancheAccountant.sol`) | principals, locked claims, epoch snapshots | deposit and claim reports, rebalance, epochs, fills | locked claims stay backed; senior promise and junior floor |
| Tranche vaults (`vaults/TrancheVault.sol`) | tranche shares, requests, matured rates | deposit, request, claim, matured claim | a request is paid once, at the rate fixed for it |
| Dual-book hub (`hook/DualBookHub.sol`) | two hooks, the active one | forwarders, switch | one book live at a time, capital follows |
| Strategy controller, agent (`strategy/`) | knobs and their time lock, pause, targets, rebalance window | submissions, proposals | every knob waited its delay; limits hold |
| Strategy module, adapters (`adapters/`) | registered adapters, caps, loop debt | allocate, deleverage, exit | caps hold; exits never blocked |
| Heartbeat, keeper (`keeper/DepegHeartbeat.sol`, `scripts/keeper/`) | last check | `performUpkeep`, `recheckGuard`, recalls | a lasting divergence is latched; a clean peg reopens |
| Allocator simulation (`research/cadcad/allocator/model.py`, `lp.py`) | two books, idle tokens, the arms (lent USDG, NVDA collateral, debt), flows of the hour | per hour: market, income with guard pulls and re-arms, interest, liquidation, decision, execution, closing | one book earns; debt stays covered; no value created or lost |
| Allocator decisions (`model.py`, `allocator.py`) | none | book metrics and risk, arm slices, pool choice, one rule per policy | no decision leads to a book opened under debt, two books open, or a keeper that never rests |
| Experiment configurations (`run.py`, `build_scenario_lab.py`, `run_recommended_100k.py`, `run_comparison_100k.py`, `run_pool030_cases.py`) | parameter sets | variants, grids, cases | every set is one the rules make sense of |
| Scenario and bootstrap (`scenario.py`) | the tape of hours | load, scale, resample in blocks | blocks join without a jump; ticks agree with prices |
| Fee allocator (`research/cadcad/fee_allocator/`) | weights of three pools, fees, costs, NAV | per hour: market, targets, fees, NAV, metrics | the risk gate drains the 0.30 sleeve; the share cap holds |
| Studies (`build_pool_il_study.py`, `run_split_cases.py`, `run_fee_break_even.py`, `eth_compare.py`, ...) | none | segments, events, hours, drawdown, split, break-even, best weight, static loss | readings of one run agree with one another |
| Lending pool, oracles, ERC-7575 entry, router, readiness view, dashboards, agent and front end, deployment | see `PROJECT.json` | | not modelled, with the reason beside each |

**How they interact.** The vault owns the hook and is the only caller of its owner
operations. The keeper (directly or through controller and agent) and the owner call
the vault. Swappers reach the hook through the pool manager, in the middle of a
pool operation; anyone may call `recheckGuard`, `unwindClaims`, `haltIfExpired`,
`finalizeSettlement` and the heartbeat. The tranche vaults hold the vault's shares and
report to the accountant. Everything shares one clock, `block.timestamp`. The simulations
stand apart: they replay a recorded tape of both pools hour by hour. `allocator.py` is a
port of the keeper's `scripts/keeper/allocator.mjs`, so what is shown of its decisions is
about the keeper's rules. The fee allocator and the studies read the tape, the scenario
lab's markets and the paths the allocator's runs leave.

**What is hard.** Each transaction is atomic, so the interleavings are those of whole
calls: by keeper, owner, heartbeat, swappers and strangers, in any order and with time
passing between them. Failure is a call that reverts, or an in-swap step that
deliberately does *not* revert and leaves part of its work. Timeouts are the divergence
timer, the freshness bound, the recheck interval, the grace period and expiry. Nothing
is persisted outside the chain and no message can be lost, so crash recovery and
unreliable delivery do not arise. The simulations are sequential; what is hard there is
the long run: one action an hour, each sized by a rule that looks at one hour, under
seven policies and some two hundred parameter sets, must not lead to a portfolio none of
the rules expects, and must come to rest. `PROJECT.json` lists the hazards line by line.

## 2. Modules

- `BookHandlers` — every call of the hook as an operator from the *phase* of a book
  (initialised, exited, enabled, base out, guard out, time since the pull) to the set of
  phases it may leave. The empty set is a revert. No tokens, prices or bands.
- `BookLifecycle` — the abstract specification of one book: those handlers, in any order.
- `GuardBook` — the hook in full, on integer ticks: the two positions, idle tokens and
  claims per asset, parameters that may change under a deployed guard, the oracle's
  price and availability, in-swap pulls to claims, redemptions limited by what the pool
  manager holds, strict and non-strict deployments. It implements `BookLifecycle`
  (`BookPromise`, a refinement with `INSTANCE ... WITH`).
- `LedgerControl` — the vault's control plane composed with the same handlers: so what
  is proved of the composition rests on a promise the detailed hook keeps. Token amounts
  become one bit, whether the hook holds inventory.
- `DivergenceHistory` — `LedgerControl` with one history variable, for one finding.
- `TrancheEpochs` — the accountant over both tranche vaults, up to settlement: deposits,
  exit orders, the keeper's fills, epochs and claims at their snapshots, payment,
  rebalancing, at a price that moves.
- `EpochHistory` — `TrancheEpochs` with one history variable, for one finding.
- `MCGuardBook`, `MCTrancheEpochs`, `MCEpochHistory` — values for constants.
- `BookHandlers_proofs`, `LedgerControl_proofs`, `GuardBook_proofs`,
  `TrancheEpochs_proofs` — theorems and proofs.

The allocator is a stack, each module extending the one before it:

- `AllocatorPlans` — `allocator.py`: risk reasons, borrow size, slices, pool choice.
- `BookMath` — what a book's two ranges hold at a tick, its fees by the minute, the split
  between book and guard, loss, the rolling fee and loss signals.
- `Portfolio` — NAV, rooms of the arms, closing, sizing and funding a book, liquidation.
- `AllocatorPolicy` — candidates, single steps, and every policy of `p_decision`.
- `Allocator` — the state machine: the blocks of an hour, and each action. It implements
  `CapitalCycle`, the abstract specification of where the book capital is
  (`BooksOpenDebtFree`).
- `AllocatorRuns` — the parameter sets of the experiments; `MCAllocator` the instance;
  `SurplusSweep` one finding; `Allocator_proofs` and `AllocatorAccounts_proofs` the
  theorems.
- `RangeStudy` — static loss by range width (extended by `MCAllocator`).

The fee allocator is a second one:

- `Scenario` — the tape, its scaling and its block bootstrap.
- `FeeAllocator` — the weights of three pools, hour by hour, on such a tape.
- `FeeStudies` — what reports read off an allocator path and a fee allocator run.
- `PoolStudies` — what reports compute from tables; checked by assumptions.
- `FeeRuns`, `MCFeeAllocator` — the parameter sets and the instance; `FeeAllocator_proofs`
  the theorems; `FiniteSums` induction without an operator as a parameter, and sums over
  finite sets by it.

**Correspondence.** Variables carry the storage names of the contracts where they are
modelled one to one. Timestamps are ages (`NoTime` is 0 in the code, "never") because
the code only compares them with `block.timestamp`; an age stops growing at the bound it
is compared with, and deadlines are times left. `Tick` is the passing of one unit. A
handler's guard is the conjunction of its modifiers, `require`s and early returns, in
the vault and in the hook together; a call that reverts is no step. `checkDepeg` splits
along its returns into `CheckDisabled`, `CheckWithoutOpinion`, `CheckOver` and
`CheckClean`. What a depeg read finds is the variable `market`. The verdict of the EV
simulation is a free choice in `BeforeSwap`, so every property holds for any simulator.
A swap then moves the price anywhere the traders can pay for.

In `GuardBook`, `oracle.usable` stands for everything `_requireOracle` and
`oracleDeviationBps` ask: valid, fresh, session allowed. `_requireInitPriceInBand` does
not look at the session; it may refuse an initialisation in a masked session that the
model allows. `lastRecheckAttempt` is written and never read by the code and is left out.
Amounts are linear in the tick and exact, so rounding by one unit is out of reach.
Calls that change no state of the model (fee and address setters, ownership hand-over)
are left out.

In `TrancheEpochs` all calls are atomic, as transactions are; a fill that calls accountant
and vault in turn is one action. `Value` is the hook's quote for hook shares: a product
with the price of the moment, so the rounding inside `convertToQuote` (one unit of quote)
is out of reach, and every other division floors as in the code. `OracleAllows` is
`_requireAccountingOracle`; the price is read whether or not the oracle is valid, as in
the code. A vault's shares are ERC-20 tokens, so `free` is one number per tranche and any
user may order out of it; orders (`pending`) and what fills owe (`claimable`, in hook
shares) are per user, and a user may take a part of what is owed. A boundary may always
have passed: `executeEpoch` can follow at once. `juniorPrincipal` and `escrowBps` are
read at settlement only; deposit cap and pause only refuse; they are left out, with
`claimAndUnwrap*` (a claim, then a redemption at the vault) and the matured paths. The
ERC-7540 base is a library outside the repository, modelled from how the vault uses it.

In `Allocator`, each partial state update block of the cadCAD model is a value of `phase`
and an action; `Execute*` are the branches of `_execute_action`, with the early returns
that turn a failed action into a HOLD. `Market` brings any hour of a small set and so
stands for every tape made of them. Amounts are whole units, rounded down where the code
has floats; limits in bps are the code's own. Prices are a table over ticks and a unit of
liquidity holds the same tokens in every tick, so that NAV is exact and `EveryStepBooked`
is an equation; `RangeStudy` has the square-root curve. A book can be funded in quarters
(`Grain`) of its target: the scale is the largest such part the tokens allow. `DecidePoolSwitch`
is written for the two pools there are. An hour's interest is at most `MaxIncome` times
more than nothing in a run, and `hour` is told apart up to `Cycle`, a multiple of every
interval; ages of a pull as far as a delay tells them apart. A guard that is pulled in a
bin keeps the fees of the bins before. `HODL_RECALL` is executed by the code and asked for
by no policy; it is left out, as are `decide_by_risk` and `choose_book`, which only tests
call. `depegMode` is "proxy" in all sets: the code's default "off" is the case where no
hour is marked.

In `FeeAllocator`, weights are parts of `Unit`, amounts whole dollars, prices logarithms
in thirds of a tick. One volatility and one largest move stand for the minutes they are
read from. `record` is a path of the allocator's recommended run: any path over four kinds
of point. Whole numbers have no rounding noise, so of the tolerance in `pool_b_risk` only the
strict comparison is left, which is what `AtCapIsNotOverCap` is sensitive to.

In `FeeStudies`, a sleeve of a split (`Sleeve`) earns its share of the tape's revenue in one
step, against a pool worth its capacity in dollars throughout. `run_split` takes the share
minute by minute, the sleeve's liquidity over that of sleeve and pool, so that there it
varies with the pool's depth and with the range the price is in. What `StarIsBest` says of
split capital holds for a pool of constant depth.

Four variables of `LedgerControl` are history: `standDown` (who last took deployments
down), `cleanRead` (age of the last clean read), `stranded` (settlement left inventory
behind) and `lateInit` (the book was first initialised while halted or paused, which
`initializeHook` does not forbid). No action reads them; properties do.

## 3. Runs

| Run | Instance | Shows |
|---|---|---|
| `LedgerControl` | recheck interval 1, term 3, minimum duration 2, freshness 1, grace 1 | all ten properties below, about 277 000 states |
| `GuardBook` | ticks 0..2, half-widths 1 and 2, three parameter choices, 4 tokens of each asset in the vault and 2 with traders | seven properties, about 160 000 states |
| `TrancheEpochs` | two users, three hook shares, two vault shares per tranche, prices 1 and 2 and an invalid oracle | eight properties, about 465 000 states |
| `OwnerHalt` (violation) | as above | an owner's early halt is undone by a later clear of the latch |
| `SettlementSweep` (violation) | as above | settlement leaves the inventory of an exited and re-funded book in the hook |
| `DivergenceHistory` (violation) | as above | a check made with the latch disabled does not end the divergence being counted |
| `ZeroFill` (violation) | one user, three vault shares per tranche | a claim at an old snapshot burns an order for nothing |
| `ClaimAfterExpiry` (violation) | as above | a payment between expiry and settlement leaves its lock |
| `EpochHistory` (violation) | as above | a snapshot fills an order placed after it |
| `Allocator` | fourteen parameter sets, three ticks, eight kinds of hour, four free hours and then calm | eight properties, about 325 000 states |
| `SurplusSweep` (violation) | the run that only adds the sweep | the sweep pledges and takes back, and never borrows |
| `FeeAllocator` | eight runs, one tape of eight hours, in two markets or in any three blocks of three hours | seven properties, about 113 000 states |

**Bounds.** Time: each interval is the smallest that tells "just before" from "at" the
bound; minimum duration 2 leaves room for a read strictly inside the interval, term 3
for a full trip and clear before expiry. Ticks: three, so that the guard can be off
centre on either side and the band (0 or 1) can both admit and refuse. Parameters: two
guard sizes, so that a pull under changed parameters is visible, and a band of zero and
of one. Tranches: three hook shares are the fewest that leave one to move while each
vault has one locked; two users make partial fills and several locks; a unit of four
parts with a floor of one is the code's floor of 2 500 in 10 000; prices 1 and 2 make
losses and gains of half the pool. Vault shares and principal are bounded at two in
`Deposit` (`MaxSupply`, `MaxPrincipal`). Funds: enough for the base and the larger guard at one price and not at every
price, so that deployments both succeed and fall short.

Allocator: the price halves from one tick to the next, so that three ticks take a base
from one token to the other and debt from healthy to liquidated. `Storm` = 4 free hours
are enough for a book to be emptied slice by slice, for debt, and for a return or a switch
to begin; the calm hours after them are not bounded, which is what `SettlesInBook` needs.
`Calm` has an hour for every tick and one in which book B is thin, or its fees would decide
every run. `Cycle` = 2 is a multiple of the intervals 1 and 2. `MaxIncome` = 1: one hour
with fees or interest, at any time; the rest earn nothing, or amounts would grow for ever.
The fourteen sets are one of each path through `p_decision` and `_execute_action`: each
policy, swaps, skew, recenter, the fee gates, the sweep, opportunity switches.
Fee allocator: blocks of three hours in eight leave a last block that is cut; parts of
1/40 make the code's 5% step two parts; the sleeve is at its cap, over it and drained
within eight hours. The run ends with the tape, so that deadlock is not checked there.

**Fairness.** `LedgerControl`: weak fairness of `CheckDepeg` (the keeper loop calls the
heartbeat whenever it is due, and anyone else may: `DepegHeartbeat.performUpkeep`) and
of `Tick`. `GuardBook`: weak fairness of `RecheckGuard` (the same loop calls it whenever
`recheckDue`) and of `Tick`. No swapper, owner or other keeper call is assumed to happen.
`Allocator`: `WF_phase(GoesOn)`, the simulation runs the next block as long as there is
one; nothing is assumed of which hours come. `FeeAllocator` has no liveness.

**Properties of `LedgerControl`.** `BookCoherent`: positions, exit flag and pull time
agree. `HaltIsTerminal`: nothing is redeployed after a terminal halt. `StoppedStaysStopped` (step):
a book stopped under halt or latch is not started again but by a clear that may; unlike
`HaltIsTerminal` and `PauseStandsDown`, it also speaks of a book first initialised that late. `PauseStandsDown`:
deployments are off while the latch is set. `KeeperStandDownHolds`: the latch does not
turn on what the keeper turned off. `LatchCycleRestores`: a trip and a clear leave no
trace. `SettledBookStaysOut`. `LatchOutlastsCleanReads` (step): a heartbeat latches only
if no clean read was made within the minimum duration. `LastingDivergenceLatches`,
`LastingPegReopens` (liveness).

**Properties of `GuardBook`.** `Conserved`: each asset's total over vault, traders, hook,
claims and positions is constant. `ExitedBookIsOut`. `GuardLandsInBand` (step): on each
of five ways in. `OutageNeverRestarts` (step): the age of an outage never falls.
`GuardReturns` (liveness): a guard that may be out comes back. `BookPromise`: refinement.

**Properties of `TrancheEpochs`.** `LockedIsBacked`: until expiry each vault holds what its
filled orders are owed. `LockIsOwed`: the accountant's lock is the sum of the vault's
filled orders. Steps: `SeniorWithinPromise`, no fill locks more for senior than its
principal; `FillsFavourStayers`, a fill lowers nobody's claim per share, in its own
tranche or the other; `SettlingIsNeutral`, paying, rebalancing and epochs leave both
claims as they were; `BackingFollowsClaims`, a rebalance gives each vault every whole
hook share of its claim net of locks; `JuniorNeverAhead`, the equal-ratio rule. The last
is stated where senior's orders are worth a hook share and senior has one to spend:
elsewhere the code waives the rule on purpose.

**Properties of `Allocator`.** `OneBookEarns`: tokens and fees are in the active book or in
none. `DebtIsCovered`: whenever the keeper decides or moves, debt is within the liquidation
threshold. `RiskOnlyStaysInA`: the baseline of the 0.30 pool cases never enters book B.
`EveryStepBooked` (step): NAV changes by exactly what an hour records. `OneWayDoor` (step):
the keeper as built never returns to the books once the active one is empty; the code's
comments call it the defect `fix_empty_book` repairs, and here it is shown to hold in every
market. `BooksOpenDebtFree`: refinement of `CapitalCycle`. `SettlesInBook` (liveness): after
the storm the keeper rests, with capital in a book where risk alone decides; `Stranded`
names the three situations in which the code leaves it out, and nothing else does.

**Properties of `FeeAllocator`.** `BlocksJoin`: a resampled block opens where the last one
closed and keeps the recorded returns. `DrainsWhileHigh`: while the gate is HIGH the 0.30
sleeve shrinks by a step at every rebalance. `CapHeldOnEntry`: an hour that adds to it
leaves it within the cap. `AtCapIsNotOverCap`: the cap alone drives a sleeve out only when
NAV has grown since it was filled. `ReadingsAgree`: events, segments, hours, time split and
drawdown of one path tell one story. `StarIsBest`: no weight earns more than the closed
form's, but for what its root and its parts lose by rounding (`Short`); break-even, required
volume and cap agree with it and with the allocator.

Three assumptions are reference checks that TLC evaluates: `RunsAssumption` (every parameter
set is borrowed within what the sentinel tolerates, with steps that move something),
`RangeStudyAssumption` (`il_sanity_problems` finds none) and `TablesAssumption` (winners,
medians, guard hits and decompositions on small tables).

Each property of a passing run has a mutant of the code, kept beside the definition it
mutates, under which TLC finds the property violated.

## 4. Proofs

TLAPS proves, for every value of the constants that meets the `ASSUME`s of the modules
(intervals are naturals, liquidities not zero, prices a non-empty set of naturals):

- `LedgerControl_proofs`: every safety property of the run, the two step properties
  included; type correctness is part of the invariant. The inductive invariant is `TypeOK`, `Coherent(book)`, `ControlInv`
  and `CleanInv`. `ControlInv` is the strengthening the properties need: a latch memory
  only with the latch set and deployments off, a halted or settled book exited, and who
  stood the book down; `CleanInv` relates the age of the divergence to the age of the
  last clean read, without which the step property does not follow.
- `GuardBook_proofs`: type correctness, conservation, the exited book, both step
  properties and the refinement. The inductive invariant is `TypeOK`, `Flagged(hook)`
  (flags agree with liquidities), `Conserved` and `OutUnlessLive(hook)`. Type correctness
  is not shallow here: balances are naturals, so it says that no handler overdraws.
- `TrancheEpochs_proofs`: every property of the run. The inductive invariant is `TypeOK`
  and `LockedIsBacked`; `LockIsOwed`, by itself inductive, follows for any finite set of
  users, because a handler changes what at most one of them is owed (`OrderChanges`), and
  `SettlingIsNeutral` with it. The key lemma,
  `FillWithinClaim`, says that a fill is worth no more than its part of the tranche's
  claim; the senior promise and the claim of those who stay follow from it.
  `RebalancedBacks` is the arithmetic of the two floors and two clamps in `_rebalance`,
  and `RatioInParts` that of the fill fractions. The assumptions are that supplies and
  units are positive, the floor is less than the whole, and users are finitely many.
- `BookHandlers_proofs`: each handler keeps `Coherent`; cited by the first of these.
- `Allocator_proofs`: `OneBookEarns`, `RiskOnlyStaysInA`, `OneWayDoor` and the refinement of
  `CapitalCycle`, for every tape, price table and parameter set with one of the seven
  policies (`ConfigAssumption`, and the assumptions of `AllocatorPlans` and `BookMath`). The
  inductive invariant says which book is deployed, that a deployed book has a base and an
  empty one neither guard nor fees, and, between decision and execution, that the decision
  is one some rule gives (`DecidedWell`): `FUND_BOOK` does not look at the other book, so
  that only one is open rests on the decisions. What an hour brings is never used.
- `AllocatorAccounts_proofs`: the books of account of the same module, `TypeOK`,
  `DebtIsCovered` and `EveryStepBooked`. The inductive invariant `AInv` adds to the one
  above that the portfolio is of natural amounts, with every range the right way round (a
  range that is not would hold a negative amount), that hours are of the types the blocks
  read, and that debt is covered but in the block that books the income. It is needed whole:
  that no amount goes negative rests on what closing and paying record, and that debt stays
  covered on the amounts. *Accounts.* A helper that moves value is shown `Even`: NAV less
  the recorded flows is what it was; most are `Accounted`, which also leaves debt,
  collateral and income alone, and the steps of a handler compose. A fill that falls short,
  a sale at a cost, a guard pulled and re-armed, fees by the minute, interest and a seizure
  each have such a lemma; the one exception, a switch that cannot pay its cost, is part of
  the property (`CostRecorded`). *Debt.* `LiquidateEven` leaves covered what an hour's
  interest and price did not; `BorrowStaysCovered` sizes a loan by the LTV target, which
  `Sensible` says is healthy; `WithdrawSettles` leaves the collateral the minimum health
  asks for, rounded up. `DecideTyped` says that every rule of every policy asks for a
  natural amount. Besides the assumptions above it uses `ParametersAssumption` (each set is
  `Sensible`: amounts, rates and times are naturals, and the LTV target times the minimum
  health is within the liquidation threshold; `RunsAssumption` checks it of every set the
  scripts build), `HoursAssumption`, `TickAssumption`, `PricesAssumption` and
  `DustAssumption`. Fees are sums over minutes and a skew is the best of the offsets tried:
  `FiniteSums` and `SomeOffsetIsBest` say that there is such a sum and such an offset.
- `FeeAllocator_proofs`: `TypeOK`, `BlocksJoin`, `DrainsWhileHigh`, `CapHeldOnEntry`,
  `AtCapIsNotOverCap` and, of the studies, `StarIsBest` and `ReadingsAgree`, for every tape,
  resampling and run (`UnitAssumption`, `RunAssumption`, `TapeAssumption`, `PathAssumption`,
  `SubTickAssumption`; for the studies also `HundredAssumption` and `RecordAssumption`). The
  inductive invariant keeps of each hour measured what `Allocate` did with the sleeve, from
  which weights and at which NAV (`Hour`), and that the weights are the 0.05 and the 0.30
  pool's only, so that normalising them is the identity (`NormWhole`); without the latter a
  step out could be rescaled into less than a step. `OverCapRoom` and `CapWeightFits` are
  why a sleeve of the rounded-down cap weight is not over the cap. What holds of a stretch
  of hours follows by `LeastOfNat`: look at the first hour it would not hold of.
  `BlocksJoin` needs that the recursion of `Shifts` has a solution (`ShiftsExist`); then a
  block opens where the last one closed because the tick of the price of a tick is the tick
  (`TickOfLevel`), and follows its hours because two nearest ticks are together less than a
  tick off (`TickIsNearest`). `TypeOK` says of the rounded weights that they are parts of the
  whole together (`NormParted`), and all of it under the fee check; under a fixed policy that
  starts from a mix the rounding of the model may lose a part. Fees and costs stay
  natural, as `MODEL_CANVAS.md` has them, because a move is charged on a positive NAV only;
  the loss is a share of NAV, which has no floor, and may be negative.
  *The closed form.* Of two weights the higher gains more if the capital between them earns
  no less in the 0.30 pool than it gives up, and the lower if it earns no more (`GainTurns`):
  two differences of rounded quotients are as the differences are, to within one
  (`RoundedGap`). Which of the two it is follows from the size of the pool at both weights
  against the square root (`RootTurns`), without a derivative. So nothing does better than
  some weight from the closed form up to `Short` parts over it (`StarGains`): two, and the
  parts one step of the root is worth, which in the instance is none.
  `EvenGains`: a sleeve that breaks even at less than today's volume does not lose, and one
  that does at more does not gain, even after rounding. `SplitKeepsUp` carries the first to
  two sleeves that are both simulated, and to the volume asked for. `HundredAssumption` says
  that counting capital in hundreds loses nothing, so that the cap of the study and of the
  allocator are one (`CapsAgree`).
  *The readings.* Each report folds, counts or scans the path in its own way, and each needs
  an induction on its length. `FoldExists` says that the recursion of a fold from the left
  has a solution, so that it can be unfolded hour by hour (`SegmentsFold`, `DrawdownsFold`).
  The segments of the first hours tile them (`Tiled`, `TiledFurther`); then an hour is in
  one segment, segments are no more than changes of state (an injection, `ChangesOfMode`),
  and the strip shows the hours of a mode (`StripCounts`, over the segments one by one).
  Every drop is from the highest value up to its hour (`Peaked`), and is then the worst
  against any earlier hour, as a quotient falls with its divisor (`DropOrder`,
  `DeepestDrop`). Whether a book is funded follows from the last crossing and the active
  book from the number of switches (`CrossingsTell`, `SwitchesTell`). The capital of the
  time split adds up because the weights the run logs are parts of the capital, an
  invariant of its own (`Readable`). `RecordAssumption` states what the code relies on of a
  recorded run: NAV and hold value are divided by and are positive; and a book B that is
  filled without a switch was under the $1 floor before and is over it after, since a return
  moves thousands of dollars or nothing. Without it an entry into book B need not be an event.

The proofs have one lemma per handler, and one step per action of `Next`.

Only model-checked: the four liveness properties (`LastingDivergenceLatches`,
`LastingPegReopens`, `GuardReturns`, `SettlesInBook`), because fairness is out of the proof
system's reach; and nothing else: every safety property and every action property of
the passing runs is a theorem.

## 5. What the code does differently from its comments

Seven findings, each with its run in `PROJECT.json` and the lines quoted there:
`OwnerHalt`, `SettlementSweep`, `DivergenceHistory`, `ZeroFill`, `ClaimAfterExpiry`,
`EpochHistory`, `SurplusSweep`.

Met while modelling, modelled as the code has them, without a run:

- `LedgerVault.sol:588`: a book first initialised after the terminal halt is deployed, and
  `haltIfExpired` then returns at once (545), though 535 says it never redeploys and brings
  the positions back; `exitHook`, standing down and settlement still work
  (`StoppedStaysStopped`, `SettledBookStaysOut`).
- `allocator/model.py:333-367`: a guard pulled in bin 0 still earns what it earns alone;
  the comment at 1825 says a pulled guard earns up to its bin.
- `model.py:2112-2116`: the cost of a switch is booked whole though idle USDG may not cover
  it; `EveryStepBooked` names that one step.
- `model.py:2098` and `2126`: a recenter or switch whose funding fails has closed the book
  and is logged as HOLD.
- `model.py:1164-1171`: a switch back from an empty HIGH book B is asked for again and again
  while debt or one-sided tokens make it fail (`Stranded`).
- `allocator.py:176` and `184` plan a slice of exactly the dust, `model.py:2017` refuses it.
- `fee_allocator/model.py:357-360` charges both legs of a move, and gas at every step of it;
  the edge (110-114) subtracts one leg and one gas.
- `run_pool030_cases.py:155`: the winners keep the smallest cap of equal gains in 45 days,
  which may hide one that also gains in 20.

## 6. Plan

Done: the hook, its abstract book, the control plane, the tranches up to settlement; the
allocator and its decisions, the fee allocator, the scenario, the studies; and their safety
proofs as far as section 4 goes. Next, in this order:

1. `Settlement`: the waterfall and the matured claims, after `TrancheEpochs` expires; and the
   junior floor across the claims of one snapshot.
2. `DualBook`: two `BookHandlers` books behind the hub, composed with `LedgerControl`: a
   switch is separate calls, and one that fails leaves the pointer moved.
3. `Controller`: the knob time lock, pause, rebalance window and book switch.
4. `Liquidity`, `Strategy`, `LedgerShares`.

## 7. Not modelled

The EV simulation and v4's tick arithmetic (pure functions of real-valued data), the lending
pool's interest indices, stateless facades and views, dashboards and their HTML, the agent,
the front end, deployment scripts and vendored libraries; reading and writing of files. Known
hazards outside what is modelled: unavailable depeg reads that leave `deviationSince` running
(`LedgerVault.sol:438`, `444`), rounding of share prices at an almost empty vault (`728`), a
book never initialised that cannot settle (`LedgerSettlement.sol:62`), rounding of band prices
and tick alignment (`PoolGuardHook.sol:567`, `836`), the configured liquidity used by the EV
simulation (`490`), a venue that pays short on the ladder (`LedgerLiquidity.sol:48`),
queued knobs applied to a state that has changed (`VaultStrategyController.sol:398`), and,
of the tranches, `TrancheAccountant.sol:384` and `TrancheVault.sol:237` and `338`.
