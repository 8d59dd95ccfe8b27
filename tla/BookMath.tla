------------------------------ MODULE BookMath ------------------------------
(***************************************************************************)
(* One concentrated-liquidity book of the allocator: what its two ranges   *)
(* hold at a tick, what it is worth, and what it earns in an hour.         *)
(*                                                                         *)
(* A unit of liquidity holds a fixed amount of USDG in every tick of its   *)
(* range above the market and a fixed amount of NVDA in every tick below:  *)
(* a range is in one token on either side of the market and changes over   *)
(* tick by tick within it.                                                 *)
(***************************************************************************)
EXTENDS AllocatorPlans, Sequences, FiniteSetsExt

CONSTANTS
    PriceAt,            \* USDG to an NVDA unit, by tick; it falls as the tick rises
    UsdgPerTick,        \* USDG of one unit of liquidity in one tick
    NvdaPerTick,        \* NVDA of one unit of liquidity in one tick
    PipBase,            \* what fee_pips is a fraction of, a million in the code
    BinsPerHour,        \* five-minute bins of an hour, twelve in the code
    YearHours,          \* HOURS_PER_YEAR
    Grain               \* in how many parts a book's target can be funded

ASSUME PricesAssumption == \A t \in DOMAIN PriceAt : PriceAt[t] \in Nat \ {0}
ASSUME TickAssumption ==
    /\ UsdgPerTick \in Nat /\ NvdaPerTick \in Nat
    /\ PipBase \in Nat \ {0} /\ BinsPerHour \in Nat \ {0} /\ YearHours \in Nat
    /\ Grain \in Nat \ {0}

NoBin  == -1
NoPull == -1

Greatest(a, b) == IF a >= b THEN a ELSE b
Positive(x) == Greatest(x, 0)

Clamp(t, lo, hi) == IF t < lo THEN lo ELSE IF t > hi THEN hi ELSE t

Usdg(l, lo, hi, t) == l * UsdgPerTick * (hi - Clamp(t, lo, hi))
Nvda(l, lo, hi, t) == l * NvdaPerTick * (Clamp(t, lo, hi) - lo)

RangeValue(l, lo, hi, t) == Usdg(l, lo, hi, t) + Nvda(l, lo, hi, t) * PriceAt[t]

\* liquidity_for_value: the liquidity worth value in the range.
LiquidityFor(value, lo, hi, t) ==
    LET perL == RangeValue(1, lo, hi, t) IN IF perL > 0 THEN value \div perL ELSE 0

InRange(l, lo, hi, t) == l > 0 /\ lo <= t /\ t < hi

\* The liquidity of the guard that counts: none unless the guard is present.
GuardL(b) == IF b.present THEN b.guard ELSE 0

HasPositions(b) == b.deployed /\ (b.base > 0 \/ GuardL(b) > 0)

BookUsdg(b, t) ==
    IF ~b.deployed THEN 0
    ELSE Usdg(b.base, b.baseLo, b.baseHi, t) + Usdg(GuardL(b), b.guardLo, b.guardHi, t)

BookNvda(b, t) ==
    IF ~b.deployed THEN 0
    ELSE Nvda(b.base, b.baseLo, b.baseHi, t) + Nvda(GuardL(b), b.guardLo, b.guardHi, t)

BookValue(b, t) == b.fees + BookUsdg(b, t) + BookNvda(b, t) * PriceAt[t]

-----------------------------------------------------------------------------
(* Fees. A tape is a sequence of minutes; a minute without a price has no tick.     *)

NoTick == -1

Minute == [tick : Int, volOverL : Nat, volOverL2 : Nat, volume : Nat]

BaseIn(b, m)  == m.tick # NoTick /\ InRange(b.base, b.baseLo, b.baseHi, m.tick)
GuardIn(b, m) == m.tick # NoTick /\ InRange(GuardL(b), b.guardLo, b.guardHi, m.tick)

\* What liquidity l earns in the minutes of ms: its exact share of each minute's volume,
\* or the second-order expansion of that share over the sums of the minutes.
Earned(l, ms, minutes, pips, mode) ==
    LET exact(i) == LET m == minutes[i] IN
            IF l > 0 /\ m.volume > 0 /\ m.volOverL > 0
            THEN (pips * m.volume * m.volOverL * l) \div (PipBase * (m.volume + m.volOverL * l))
            ELSE 0
    IN  IF mode = "exact" THEN SumFunction([i \in ms |-> exact(i)])
        ELSE (pips * (l * SumFunction([i \in ms |-> minutes[i].volOverL])
                      - l * l * SumFunction([i \in ms |-> minutes[i].volOverL2])))
             \div PipBase

\* What both ranges, the guard alone and the base alone earned, none of it less than nothing.
Parts(both, guard, base) ==
    [total |-> Positive(both + guard + base), both |-> Positive(both), base |-> Positive(base)]

\* The fees of the minutes both ranges, the guard alone and the base alone were in.
BookFeeParts(b, minutes, pips, mode) ==
    LET in(base, guard) == {i \in DOMAIN minutes :
                              BaseIn(b, minutes[i]) = base /\ GuardIn(b, minutes[i]) = guard}
        earned(l, ms)   == Earned(l, ms, minutes, pips, mode)
    IN  IF HasPositions(b)
        THEN Parts(earned(b.base + GuardL(b), in(TRUE, TRUE)),
                   earned(GuardL(b), in(FALSE, TRUE)), earned(b.base, in(TRUE, FALSE)))
        ELSE Parts(0, 0, 0)

\* The parts split between a book and its guard, which has shared of what both earned. A
\* pull in bin prorates that share, and that alone.
PartsOfGuard(parts, shared, bin) ==
    LET alone == Positive(parts.total - parts.both - parts.base)
        kept  == IF bin = NoBin THEN shared ELSE (shared * bin) \div BinsPerHour
    IN  [total |-> alone + kept + parts.base + parts.both - shared, guard |-> alone + kept]

FeesOfParts(b, parts, bin) ==
    LET bothL == b.base + GuardL(b)
    IN  IF bothL > 0 /\ HasPositions(b)
        THEN PartsOfGuard(parts, (parts.both * GuardL(b)) \div bothL, bin)
        ELSE [total |-> parts.total, guard |-> 0]

\* The hour's fees of the book and of its guard.
BookFeeForHour(b, minutes, pips, bin, mode) ==
    FeesOfParts(b, BookFeeParts(b, minutes, pips, mode), bin)

-----------------------------------------------------------------------------
(* Impermanent loss and the rolling fee/IL signals, annualised in bps.              *)

\* Math.round of n/d: half goes up.
Round(n, d) == (2 * n + d) \div (2 * d)

\* A position held from tick s to tick e against the tokens it started with.
IlBps(s, e, lo, hi) ==
    LET hodl == Usdg(1, lo, hi, s) + Nvda(1, lo, hi, s) * PriceAt[e]
        lp   == Usdg(1, lo, hi, e) + Nvda(1, lo, hi, e) * PriceAt[e]
    IN  IF hodl > 0 THEN Round((lp - hodl) * BPS, hodl) ELSE 0

\* The range whose loss counts: the base's, or the guard's when there is no base.
LossRange(b) == IF b.base > 0 THEN <<b.baseLo, b.baseHi>> ELSE <<b.guardLo, b.guardHi>>

NoSignal == [fee |-> 0, il |-> 0]

\* What past, the hours before the one at tick now, says of a position of this value that
\* would have earned total in them: its fees, and its loss since the first. A window that
\* reaches back before the tape is annualised as if it were full.
Signal(past, now, window, total, value, range) ==
    LET il == IlBps(past[1].tick, now, range[1], range[2])
    IN  IF past = <<>> THEN NoSignal
        ELSE [fee |-> (total * YearHours * BPS) \div (Greatest(value, 1) * window),
              il  |-> (Greatest(il, -il) * YearHours) \div window]

\* An hour is [tick, minutes]; the book as it stands is applied to all of them.
BookSignal(b, past, now, window, pips, mode) ==
    IF ~HasPositions(b) THEN NoSignal
    ELSE Signal(past, now, window,
                MapThenSumSet(LAMBDA i :
                    BookFeeForHour(b, past[i].minutes, pips, NoBin, mode).total, DOMAIN past),
                BookValue(b, now), LossRange(b))

GuardSignal(b, past, now, window, pips, mode) ==
    IF GuardL(b) = 0 THEN NoSignal
    ELSE Signal(past, now, window,
                MapThenSumSet(LAMBDA i :
                    BookFeeForHour(b, past[i].minutes, pips, NoBin, mode).guard, DOMAIN past),
                RangeValue(b.guard, b.guardLo, b.guardHi, now), <<b.guardLo, b.guardHi>>)
=============================================================================
