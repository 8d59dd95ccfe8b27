--------------------------- MODULE AllocatorPlans ---------------------------
(***************************************************************************)
(* The pure decisions of the allocator: the risk of a book, the size of a  *)
(* borrow, one slice of the way into the arms or back to the books, and    *)
(* the choice between the two pools.                                       *)
(*                                                                         *)
(* Amounts are whole units; a share of an amount is rounded down.          *)
(***************************************************************************)
EXTENDS Integers

CONSTANTS
    BPS,                \* BPS, ten thousand in the code
    DustUsd,            \* DUST_USD
    DustNvda            \* DUST_NVDA

ASSUME DustAssumption == BPS \in Nat \ {0} /\ DustUsd \in Nat /\ DustNvda \in Nat

Least(a, b) == IF a <= b THEN a ELSE b
Monus(a, b) == IF a >= b THEN a - b ELSE 0

\* bps of x, never more than all of it.
Slice(x, bps) == (x * Least(bps, BPS)) \div BPS

RiskReasons(feeApr, volume, volatility, guardPresent, depegPaused, limits) ==
    {r \in {"depeg-paused", "guard-absent", "volatility", "volume", "fee"} :
        CASE r = "depeg-paused" -> depegPaused
          [] r = "guard-absent" -> ~guardPresent
          [] r = "volatility"   -> volatility >= limits.maxVolatility
          [] r = "volume"       -> volume < limits.minVolume
          [] r = "fee"          -> limits.minFeeApr > 0 /\ feeApr < limits.minFeeApr}

BorrowSize(collateral, p) ==
    LET cap == Least(Least(p.ltv, p.maxLtv), p.hardCap)
    IN  IF cap <= 0 THEN 0 ELSE (collateral * cap) \div BPS

\* One slice towards the arms: quote first, NVDA little by little.
PlanArmEntry(usdg, nvda, lent, collateral, p) ==
    [usdgMove |-> Least(Monus(Slice(usdg + lent, p.morphoShare), lent), usdg),
     nvdaMove |-> Least(Slice(nvda + collateral, p.nvdaStep), nvda)]

\* A slice of what is left, or all of it once the slice would be dust, as one that rounds
\* to nothing is.
OrAll(amount, stepBps, dust) ==
    LET slice == Slice(amount, stepBps)
    IN  IF slice < dust \/ slice = 0 THEN amount ELSE slice

\* One slice back to the books; what is dust already goes at once.
PlanBookReturn(lent, collateral, debt, p) ==
    [repay         |-> OrAll(debt, p.bookStep, DustUsd),
     collateralOut |-> IF collateral <= DustNvda THEN collateral
                       ELSE OrAll(collateral, p.bookStep, DustNvda),
     usdgOut       |-> IF lent <= DustUsd THEN lent
                       ELSE OrAll(lent, p.bookStep, DustUsd)]

\* The first of the two pools by net APR: only one that is not HIGH, and book A among
\* equals (the sort is stable and book A comes first).
Best(metrics) ==
    IF metrics[1].risk # "HIGH"
       /\ (metrics[0].risk = "HIGH" \/ metrics[1].net > metrics[0].net) THEN 1 ELSE 0

\* ARMS, HOLD, or SWITCH to a book whose lead is more than the buffer.
DecidePoolSwitch(metrics, current, buffer) ==
    LET best    == Best(metrics)
        worth   == \E i \in DOMAIN metrics : metrics[i].risk # "HIGH" /\ metrics[i].net > buffer
        holding == \/ best = current
                   \/ /\ metrics[current].risk # "HIGH"
                      /\ metrics[best].net <= metrics[current].net + buffer
    IN  IF ~worth THEN [action |-> "ARMS", book |-> current]
        ELSE IF holding THEN [action |-> "HOLD", book |-> current]
        ELSE [action |-> "SWITCH", book |-> best]
=============================================================================
