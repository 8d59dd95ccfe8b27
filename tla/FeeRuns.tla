------------------------------- MODULE FeeRuns -------------------------------
(***************************************************************************)
(* The parameters the fee allocator is run with: the defaults of its model, *)
(* and the cases of run.py. Weights are in parts of Unit; amounts, hours    *)
(* and volumes are in the units of the model.                               *)
(***************************************************************************)
EXTENDS FeeAllocator

\* percent of the capital, in parts.
Parts(percent) == (Unit * percent) \div 100

Defaults ==
    [policy |-> "fee_check", initial |-> 1000, static |-> [p05 |-> Unit, p15 |-> 0, p30 |-> 0],
     rate |-> [p05 |-> 1, p15 |-> 3, p30 |-> 6],
     capacity |-> [p05 |-> 4000, p15 |-> 3800, p30 |-> 3800],
     vol15 |-> 2, vol30 |-> 1, weightCap |-> Parts(30), shareCap |-> 500, rebalanceHours |-> 1,
     moveStep |-> Parts(5), switchBps |-> 100, gas |-> 0, buffer |-> 1,
     minVolume |-> 4, volumeHours |-> 3, maxVolatility |-> 300, pullBps |-> 200,
     maxPulls |-> 2, depegBps |-> 200, evalHours |-> 2, ilTotal |-> 16]

RunCase(policy, p15, p30, vol15, vol30) ==
    [Defaults EXCEPT !.policy = policy, !.vol15 = vol15, !.vol30 = vol30,
                     !.static = [p05 |-> Unit - p15 - p30, p15 |-> p15, p30 |-> p30]]

\* baseline: every policy, and the check as the volume of the 0.30 pool grows.
BaselineRuns ==
    {RunCase("all_05", 0, 0, 2, 1), RunCase("all_15", 0, 0, 1, 1), RunCase("all_15", 0, 0, 2, 1),
     RunCase("all_30", 0, 0, 2, 1), RunCase("static", Parts(15), 0, 2, 1),
     RunCase("static", 0, Parts(30), 2, 1), RunCase("static", Parts(15), Parts(15), 2, 1)}
    \cup {RunCase("fee_check", 0, 0, 2, v) : v \in {1, 2, 10}}

\* sweep: a sleeve of each, as far as there is capital for both.
SweepRuns ==
    {RunCase("static", Parts(sleeves[1]), Parts(sleeves[2]), vol15, vol30) :
        sleeves \in {s \in {0, 5, 15, 30} \X {0, 5, 15, 30, 45} : s[1] + s[2] <= 100},
        vol15 \in {1, 2, 5}, vol30 \in {1, 2, 3, 5}}

\* time_split, and reverse.
TimeRuns    == {RunCase("fee_check", 0, 0, 2, vol30) : vol30 \in {1, 2, 10}}
ReverseRuns == {RunCase("static", Parts(a), Parts(b), 2, vol30) :
                    a \in {15, 30}, b \in {15, 30}, vol30 \in {1, 2}}

\* Every run divides the whole of the capital, and its target sleeve is one the gate can take
\* out again in whole steps.
RunsAssumption ==
    \A r \in BaselineRuns \cup SweepRuns \cup TimeRuns \cup ReverseRuns :
        /\ r.static.p05 + r.static.p15 + r.static.p30 = Unit /\ r.static.p05 >= 0
        /\ r.weightCap % r.moveStep = 0

ASSUME RunsAssumption
=============================================================================
