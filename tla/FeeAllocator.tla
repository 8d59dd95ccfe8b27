----------------------------- MODULE FeeAllocator -----------------------------
(***************************************************************************)
(* The fee-first allocator of cadcad/fee_allocator: capital divided over    *)
(* three pools, moved a step at a time by a fee comparison and a risk gate. *)
(* It runs on the recorded tape or on a resampling of it. An hour runs five *)
(* state update blocks. Weights are in parts of Unit, amounts in whole      *)
(* dollars rounded down, the edge of a move in parts of Grain of a dollar.  *)
(***************************************************************************)
EXTENDS Scenario, FiniteSetsExt, Functions

CONSTANTS
    BPS, Unit, Grain,
    Runs,               \* the parameters of the runs
    Tapes,              \* recorded tapes
    Horizon,            \* the hours of a run
    BlockHours,         \* the block of the resampling
    Markets,            \* the markets of the lab the recorded tape is turned into
    Paths               \* paths of the allocator's recommended run, as long as the tapes

Pools  == {"p05", "p15", "p30"}
Phases == {"market", "targets", "fees", "nav", "metrics"}

ASSUME UnitAssumption ==
    /\ BPS \in Nat \ {0} /\ Unit \in Nat \ {0} /\ Grain \in Nat \ {0}
    /\ Horizon \in Nat \ {0} /\ BlockHours \in 1 .. Horizon

ASSUME RunAssumption == \A r \in Runs :
    /\ r.policy \in {"static", "all_05", "all_15", "all_30", "fee_check"}
    /\ r.static \in [Pools -> Nat] /\ r.capacity \in [Pools -> Nat \ {0}]
    /\ r.initial \in Nat \ {0} /\ r.rate \in [Pools -> Nat \ {0}]
    /\ r.vol15 \in Nat /\ r.vol30 \in Nat /\ r.ilTotal \in Int
    /\ r.switchBps \in Nat /\ r.gas \in Nat
    /\ r.moveStep \in Nat /\ r.rebalanceHours \in Nat \ {0}
    /\ r.weightCap \in 0 .. Unit /\ r.shareCap \in 0 .. BPS - 1

\* The hours of a recorded tape, as far as they are read.
BookRow == [fees : Nat, volume : Nat, volatility : Nat, move : Nat, pulls : Nat, depeg : Nat,
            ticks : Seq(Int)]
Row     == [t : Nat, level : Int, tick : Int, paused : BOOLEAN, bookA : BookRow, bookB : BookRow]

ASSUME TapeAssumption ==
    /\ \A rows \in Tapes : rows \in Seq(Row) /\ Len(rows) >= Horizon
    /\ Markets \subseteq DOMAIN VolumeOfA \cup {"book_b_10x"}

VARIABLES
    p,                  \* the parameters of this run, fixed
    source, starts,     \* the recorded tape, and the blocks it is resampled in, fixed
    tape,               \* the tape of the run, fixed
    record,             \* the recommended run on the recorded tape, fixed
    step, market, targets, weights, fees, costs, il, nav,
    path,               \* the metrics of the hours so far
    phase

fixed == <<p, source, starts, tape, record>>
vars  == <<fixed, step, market, targets, weights, fees, costs, il, nav, path, phase>>

\* The row an hour of the allocator logs, as far as it is read again.
PathRow == [mode : {"BOOKS", "ARMS"}, active : {0, 1}, bookA : Nat, bookB : Nat,
            arm : Int, idle : Nat, nav : Int, hodl : Nat]

ASSUME PathAssumption == \A rows \in Paths : rows \in Seq(PathRow) /\ Len(rows) = Horizon

Positive(x) == IF x > 0 THEN x ELSE 0
Least(a, b) == IF a < b THEN a ELSE b
Nothing     == [q \in Pools |-> 0]
AllIn(pool) == [Nothing EXCEPT ![pool] = Unit]
Total(v)    == v["p05"] + v["p15"] + v["p30"]
SumOf(f)    == FoldFunction(+, 0, f)

-----------------------------------------------------------------------------
(* Weights.                                                                         *)

Norm(w) ==
    LET v == [q \in Pools |-> Positive(w[q])]
    IN  IF Total(v) = 0 THEN AllIn("p05") ELSE [q \in Pools |-> (Unit * v[q]) \div Total(v)]

\* Each weight moves by at most one step.
NextWeights(old, new, most) ==
    Norm([q \in Pools |->
            LET delta == new[q] - old[q]
            IN  old[q] + IF delta < -most THEN -most ELSE Least(delta, most)])

\* The weight of the 0.30 sleeve that takes its pool to the share cap.
CapWeight(worth) == (Unit * p.shareCap * p.capacity.p30) \div (worth * (BPS - p.shareCap))

\* The hours of a window that ends with row k.
Window(k, hours) == (IF k > hours THEN k - hours + 1 ELSE 1) .. k

\* What moving w to the 0.30 pool would gain over the hours looked ahead: its fees there,
\* less its fees in the 0.05 pool, the cost of the move, and a buffer.
FeeSwitchEdge(w, worth, k) ==
    LET over    == Window(k, p.evalHours)
        n       == Cardinality(over)
        mean(x) == (Grain * p.evalHours * x) \div n
        sumA    == SumOf([j \in over |-> tape[j].bookA.fees])
        sumB    == SumOf([j \in over |-> tape[j].bookB.fees]) * p.vol30
        feesB   == (mean(sumB) * w * worth) \div (w * worth + Unit * p.capacity.p30)
        feesA   == (mean(sumA) * w * worth) \div (Unit * (worth + p.capacity.p05))
        cost    == (Grain * w * worth * p.switchBps) \div (Unit * BPS)
                     + IF w > 0 THEN Grain * p.gas ELSE 0
    IN  feesB - feesA - cost - Grain * p.buffer

\* Mutant: a sleeve at its cap is over it.
OverCapAtCap(w, worth) == w * worth * BPS >= p.shareCap * (w * worth + Unit * p.capacity.p30)

\* The share of its pool the sleeve w has, against the cap.
OverCap(w, worth)   == w * worth * BPS > p.shareCap * (w * worth + Unit * p.capacity.p30)

VolumeIsThin(k) ==
    LET over == Window(k, p.volumeHours)
    IN  p.vol30 * SumOf([j \in over |-> tape[j].bookB.volume]) < p.minVolume * Cardinality(over)

\* The risk gate of the 0.30 pool is HIGH when there is a reason.
PoolBRisk(k, worth, w) ==
    LET b     == tape[k].bookB
        fires == [volume     |-> VolumeIsThin(k),
                  volatility |-> b.volatility > p.maxVolatility,
                  guard      |-> b.move > p.pullBps \/ b.pulls > p.maxPulls,
                  depeg      |-> b.depeg > p.depegBps \/ tape[k].paused,
                  share      |-> OverCap(w, worth) \/ p.shareCap * p.capacity.p30 = 0]
    IN  {r \in DOMAIN fires : fires[r]}

\* The sleeve takes what it grows by from the 0.05 pool.
WithSleeve(old, w30) ==
    Norm([q \in Pools |-> IF q = "p30" THEN w30
                          ELSE IF q = "p15" THEN old.p15 ELSE Positive(Unit - old.p15 - w30)])

\* Mutants: a gain is taken whatever the gate says; the share cap does not bound the target.
FeeCheckGateLast(old, worth, k) ==
    LET w    == old.p30
        goal == Least(p.weightCap, CapWeight(worth))
        w30  == IF FeeSwitchEdge(goal, worth, k) > 0 THEN goal
                ELSE IF PoolBRisk(k, worth, w) # {} THEN Positive(w - p.moveStep) ELSE w
    IN  WithSleeve(old, w30)

FeeCheckUncapped(old, worth, k) ==
    LET w    == old.p30
        goal == p.weightCap
        w30  == IF PoolBRisk(k, worth, w) # {} THEN Positive(w - p.moveStep)
                ELSE IF FeeSwitchEdge(goal, worth, k) > 0 THEN goal ELSE w
    IN  WithSleeve(old, w30)

\* Out a step while the gate is HIGH; to the target when that gains; out a step when the
\* sleeve it has loses.
FeeCheck(old, worth, k) ==
    LET w    == old.p30
        goal == Least(p.weightCap, CapWeight(worth))
        w30  == IF PoolBRisk(k, worth, w) # {} THEN Positive(w - p.moveStep)
                ELSE IF FeeSwitchEdge(goal, worth, k) > 0 THEN goal
                ELSE IF w > 0 /\ FeeSwitchEdge(w, worth, k) < 0 THEN Positive(w - p.moveStep)
                ELSE w
    IN  WithSleeve(old, w30)

\* A move is decided on the NAV, on one dollar at least.
Stake(worth) == IF worth > 1 THEN worth ELSE 1

Rebalancing(s) == s % p.rebalanceHours = 0

Targets(old, worth, s) ==
    IF p.policy = "static" THEN Norm(p.static)
    ELSE IF p.policy # "fee_check"
    THEN AllIn([all_05 |-> "p05", all_15 |-> "p15", all_30 |-> "p30"][p.policy])
    ELSE IF Rebalancing(s) THEN FeeCheck(old, Stake(worth), s + 1) ELSE old

-----------------------------------------------------------------------------
(* The five blocks of an hour.                                                      *)

InitialWeights == IF p.policy = "fee_check" THEN AllIn("p05") ELSE Norm(p.static)

Init ==
    /\ p \in Runs /\ \E recorded \in Tapes : source = Load(recorded, Horizon)
    /\ \/ /\ \E name \in Markets : tape = MarketRows(source, name)
          /\ starts = <<>> /\ record \in Paths
       \/ /\ starts \in Starts(source, BlockHours)
          /\ tape = Bootstrap(source, starts, BlockHours) /\ record = <<>>
    /\ weights = InitialWeights /\ targets = weights
    /\ market = Nothing /\ fees = Nothing
    /\ step = 0 /\ costs = 0 /\ il = 0 /\ nav = p.initial /\ path = <<>>
    /\ phase = "market"

\* The 0.15 pool has no tape: its revenue is that of the 0.30 pool at its own rate.
Market ==
    LET row == tape[step + 1]
    IN  /\ phase = "market" /\ step < Len(tape)
        /\ market' = [p05 |-> row.bookA.fees,
                      p15 |-> (row.bookB.fees * p.rate.p15 * p.vol15) \div p.rate.p30,
                      p30 |-> row.bookB.fees * p.vol30]
        /\ phase' = "targets"
        /\ UNCHANGED <<fixed, step, targets, weights, fees, costs, il, nav, path>>

\* Targets, weights and costs are all read off the weights of the hour before. A move pays
\* for both of its sides, on a positive NAV; on any other nothing is charged.
Allocate ==
    LET goal  == Targets(weights, nav, step)
        new   == NextWeights(weights, goal, p.moveStep)
        moved == nav * Total([q \in Pools |-> Positive(new[q] - weights[q])
                                                + Positive(weights[q] - new[q])])
    IN  /\ phase = "targets"
        /\ targets' = goal /\ weights' = new
        /\ costs' = IF moved <= 0 THEN costs
                    ELSE costs + (moved * p.switchBps) \div (Unit * BPS) + p.gas
        /\ phase' = "fees"
        /\ UNCHANGED <<fixed, step, market, fees, il, nav, path>>

\* A pool shares its revenue among our capital and what it already holds.
Earned(pool, worth) ==
    LET capital == weights[pool] * Positive(worth)
    IN  (market[pool] * capital) \div (capital + Unit * p.capacity[pool])

Earn ==
    /\ phase = "fees"
    /\ fees' = [q \in Pools |-> fees[q] + Earned(q, nav)]
    /\ il' = il + (p.ilTotal * nav) \div (Len(tape) * p.initial)
    /\ phase' = "nav"
    /\ UNCHANGED <<fixed, step, market, targets, weights, costs, nav, path>>

Mark ==
    /\ phase = "nav"
    /\ nav' = p.initial + Total(fees) - costs
    /\ phase' = "metrics"
    /\ UNCHANGED <<fixed, step, market, targets, weights, fees, costs, il, path>>

Measure ==
    /\ phase = "metrics"
    /\ path' = Append(path, [weights |-> weights, fees |-> fees, costs |-> costs,
                             nav |-> nav, net |-> nav - p.initial - il])
    /\ step' = step + 1
    /\ phase' = "market"
    /\ UNCHANGED <<fixed, market, targets, weights, fees, costs, il, nav>>

Next == Market \/ Allocate \/ Earn \/ Mark \/ Measure

Spec == Init /\ [][Next]_vars

-----------------------------------------------------------------------------
(* Properties.                                                                      *)

WeightsBefore(k) == IF k = 1 THEN InitialWeights ELSE path[k - 1].weights
NavBefore(k)     == IF k = 1 THEN p.initial ELSE path[k - 1].nav
Reasons(k)       == PoolBRisk(k, Stake(NavBefore(k)), WeightsBefore(k).p30)
Added(k)         == path[k].weights.p30 > WeightsBefore(k).p30
Checking         == p.policy = "fee_check" /\ phase = "market"
Rebalances(i, j) == {k \in i .. j : Rebalancing(k - 1)}

\* Every variable has its type: weights and targets are parts of the whole, whatever was
\* moved, and all of it where the check decides; fees and costs are never negative, even once
\* NAV is, which the loss may then be; every hour of the tape is priced at a tick, its own.
TypeOK ==
    /\ p \in Runs /\ Len(source) = Horizon
    /\ record \in Seq(PathRow) /\ Len(record) \in {0, Horizon}
    /\ \A w \in {weights, targets} : /\ w \in [Pools -> 0 .. Unit] /\ Total(w) <= Unit
                                     /\ p.policy = "fee_check" => Total(w) = Unit
    /\ market \in [Pools -> Nat] /\ fees \in [Pools -> Nat] /\ costs \in Nat /\ il \in Int
    /\ nav \in Int /\ step \in 0 .. Len(tape) /\ Len(path) = step /\ phase \in Phases
    /\ starts # <<>> => \A k \in DOMAIN tape : /\ tape[k].t = k - 1
                                             /\ tape[k].level = LevelOf(tape[k].tick)

\* block_bootstrap: a block opens at the price the one before it closed at, and within a
\* block the returns are those of the recorded hours, to the tick.
BlocksJoin ==
    starts # <<>> /\ step = 0 => \A k \in 2 .. Len(tape) :
        LET at(j)  == starts[((j - 1) \div BlockHours) + 1] + ((j - 1) % BlockHours)
            drift  == LevelOf(tape[k].tick - tape[k - 1].tick)
                        - (source[at(k)].level - source[at(k - 1)].level)
        IN  IF (k - 1) % BlockHours = 0 THEN tape[k].tick = tape[k - 1].tick
            ELSE -SubTicks < drift /\ drift < SubTicks

\* p_targets: while the gate is HIGH the 0.30 sleeve only shrinks, by a whole step at every
\* rebalance until it is gone, whatever the fees are and whatever was added before.
DrainsWhileHigh ==
    Checking =>
        \A j \in DOMAIN path : \A i \in 1 .. j :
            (\A k \in Rebalances(i, j) : Reasons(k) # {})
                => path[j].weights.p30
                     <= Positive(WeightsBefore(i).p30 - p.moveStep * Cardinality(Rebalances(i, j)))

\* The 5% pool-share cap: an hour that adds to the 0.30 sleeve leaves it within the share of
\* the pool and the weight it may have, at the NAV the move was decided on.
CapHeldOnEntry ==
    Checking =>
        \A k \in DOMAIN path :
            Added(k) => /\ ~OverCap(path[k].weights.p30, Stake(NavBefore(k)))
                        /\ path[k].weights.p30 <= p.weightCap

\* pool_b_risk, "the at-cap sleeve is not treated as over-cap": when the share of the pool
\* is all there is against the sleeve, the NAV has grown since the sleeve was last added to.
\* In whole numbers, where there is no rounding noise for a tolerance to absorb, this tells a
\* strict comparison with the cap from one that is not.
AtCapIsNotOverCap ==
    Checking =>
        \A k \in DOMAIN path :
            Reasons(k) = {"share"} /\ WeightsBefore(k).p30 > 0
                => LET last == Max({j \in 1 .. k - 1 : Added(j)})
                   IN  NavBefore(k) > NavBefore(last)
=============================================================================
