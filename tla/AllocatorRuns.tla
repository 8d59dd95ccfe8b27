---------------------------- MODULE AllocatorRuns ----------------------------
(***************************************************************************)
(* The parameters the experiments run the allocator with: the defaults of   *)
(* the model and the variants of run.py that take another path through it.  *)
(* Limits in bps are the code's. Amounts, hours and widths are in the units  *)
(* of the model; the steps to and from the arms, the cost of a switch and   *)
(* an hour's interest are larger, so that they come to whole units.         *)
(***************************************************************************)
EXTENDS Allocator

Defaults ==
    [policy |-> "allocator", startBook |-> 0,
     targetBase |-> 4, targetGuard |-> 4, idle |-> 8, baseWidth |-> 2, guardWidth |-> 1,
     halfWidth |-> 1, feeA |-> 1, feeB |-> 6, feeMode |-> "expansion",
     ltv |-> 2937, maxLtv |-> 6250, hardCap |-> 3000, morphoShare |-> 8000,
     nvdaStep |-> 5000, bookStep |-> 5000, switchBuffer |-> 500, fundBps |-> 9000,
     maxGuardPulls |-> 2, pullBps |-> 200, guardCooldown |-> 0, rearmDelay |-> 1,
     maxVolatility |-> 300, minVolume |-> 2, minFeeApr |-> 0, minLiquidity |-> 1,
     riskWindow |-> 1, riskPerHour |-> 1, rolling |-> FALSE,
     lendRate |-> 0, nvdaRate |-> 0, borrowRate |-> 0, netYield |-> FALSE,
     borrowAprBps |-> 300, maxBorrowAprBps |-> 3000,
     armCap |-> 1000, lendCap |-> 1000, armRelBps |-> 2000, lendRelBps |-> 2000,
     borrowLiquidity |-> 1000, maxBorrow |-> 1000,
     lltvBps |-> 6250, minHealthBps |-> 15000, deleverBps |-> 1000, bonusBps |-> 500,
     sentinel |-> TRUE, gas |-> 0, switchBps |-> 0, recenterGas |-> 0, recenterBps |-> 0,
     fundingMode |-> "scale", swapCostBps |-> 0, maxSkew |-> 0,
     hurdle |-> 1, feeIlWindow |-> 0, feeIlBuffer |-> 500, feeIlConfirm |-> 1,
     guardRule |-> "move", guardHurdle |-> 1, rearmGate |-> FALSE,
     surplus |-> FALSE, reserveUsd |-> 4, reserveBps |-> 1000, surplusMin |-> 1,
     oppWindow |-> 0, oppCheck |-> 1, oppBuffer |-> 500, oppMin |-> 0,
     bMinVolume |-> 0, bVolumeHours |-> 3, bMaxShare |-> 10000,
     interval |-> 1, warmup |-> 0, depegMode |-> "proxy",
     controllerPaused |-> FALSE, switchFrozen |-> FALSE,
     fixEmptyBook |-> FALSE, fixHypothetical |-> FALSE]

Risk == [Defaults EXCEPT !.policy = "risk_only", !.fixEmptyBook = TRUE,
                         !.fixHypothetical = TRUE]

\* LIVE and STRESS: what the lend arm earns, what debt costs, what there is to borrow.
Live(p)   == [p EXCEPT !.lendRate = 1, !.borrowRate = 1, !.borrowLiquidity = 4]
Stress(p) == [p EXCEPT !.lendRate = 2500, !.borrowRate = 2500]

Caps(p, relBps, units) ==
    [p EXCEPT !.armRelBps = relBps, !.lendRelBps = relBps, !.armCap = units, !.lendCap = units]

Policy(p, name) == [p EXCEPT !.policy = name]
Skewed(p)       == [p EXCEPT !.maxSkew = 1]
Narrow(p)       == [p EXCEPT !.baseWidth = 1]
Every(p, hours) == [p EXCEPT !.interval = hours]
Sweeping(p)     == [p EXCEPT !.surplus = TRUE]
Volume(p, v)    == [p EXCEPT !.minVolume = v]

\* percent of the target in the guard; twice the size, so that quarters of it are whole.
GuardShare(p, percent) ==
    LET whole == 2 * (p.targetBase + p.targetGuard)
    IN  [p EXCEPT !.targetGuard = (whole * percent) \div 100,
                  !.targetBase = whole - (whole * percent) \div 100]

\* What several experiments call A, B, C and D; each builds on the one before.
A == GuardShare(Volume(Every(Risk, 2), 4), 75)
B == Skewed(Narrow(A))
C == [B EXCEPT !.guardWidth = 1]
D == GuardShare(C, 80)

\* cmd_validate: one book, whose guard no move pulls, against the fees of the research.
Validation(name) == [Policy(Defaults, name) EXCEPT !.pullBps = 100000000, !.gas = 0]

\* _baseline_configs.
Baseline ==
    [hodl                      |-> Policy(Defaults, "hodl"),
     always_a                  |-> Policy(Defaults, "always_a"),
     always_b                  |-> Policy(Defaults, "always_b"),
     always_arms               |-> Policy(Defaults, "always_arms"),
     allocator_as_built        |-> Defaults,
     allocator_as_built_strict_ltv |-> [Defaults EXCEPT !.minHealthBps = 20833],
     allocator_fixed_apr_gate  |-> [Defaults EXCEPT !.fixEmptyBook = TRUE,
                                                    !.fixHypothetical = TRUE],
     risk_only_a               |-> Risk,
     risk_only_b               |-> [Risk EXCEPT !.startBook = 1],
     risk_only_a_live          |-> Live(Risk),
     risk_only_a_stress        |-> Stress(Risk),
     risk_only_a_caps50        |-> Caps(Risk, 5000, 100),
     risk_only_a_caps100       |-> Caps(Risk, 10000, 100),
     risk_only_a_guard50       |-> [Risk EXCEPT !.pullBps = 50],
     risk_only_a_guard100      |-> [Risk EXCEPT !.pullBps = 100],
     risk_only_a_strict_ltv    |-> [Risk EXCEPT !.minHealthBps = 20833],
     risk_only_a_vol15k        |-> Volume(Risk, 4),
     risk_only_a_step10000     |-> [Risk EXCEPT !.bookStep = 10000],
     risk_only_b_minvol1k      |-> Volume([Risk EXCEPT !.startBook = 1], 1),
     risk_only_a_interval2     |-> Every(Risk, 2),
     risk_only_a_ltv35         |-> [Risk EXCEPT !.ltv = 3500, !.hardCap = 3500],
     always_arms_ltv35         |-> [Policy(Defaults, "always_arms") EXCEPT !.ltv = 3500,
                                                                           !.hardCap = 3500],
     risk_only_a_guard0        |-> GuardShare(Risk, 0),
     risk_only_a_guard75       |-> GuardShare(Risk, 75),
     always_a_guard0           |-> GuardShare(Policy(Defaults, "always_a"), 0),
     risk_only_a_2h15k         |-> Volume(Every(Risk, 2), 4),
     risk_only_a_sweep         |-> Sweeping(Risk),
     risk_only_a_2h15k75_sweep |-> Sweeping(A),
     risk_only_a_2h15k75_sweep_caps50 |-> Caps(Sweeping(A), 5000, 100)]

\* _sweep_configs: one parameter of risk_only at a time.
Sweep ==
    {[Risk EXCEPT !.lendRate = r] : r \in {0, 1, 2}}
    \cup {[Risk EXCEPT !.nvdaRate = r] : r \in {0, 1, 2}}
    \cup {[Risk EXCEPT !.borrowRate = r] : r \in {1, 2, 2500}}
    \cup {Caps(Risk, r, 100) : r \in {2000, 5000, 10000}}
    \cup {[Risk EXCEPT !.maxVolatility = v] : v \in {200, 300, 400}}
    \cup {Volume(Risk, v) : v \in {1, 2, 4}}
    \cup {[Risk EXCEPT !.pullBps = b] : b \in {50, 100, 200, 300}}
    \cup {[Risk EXCEPT !.bookStep = b] : b \in {2500, 5000, 10000}}
    \cup {Every(Risk, h) : h \in {1, 2, 4, 8}}
    \cup {GuardShare(Risk, g) : g \in {0, 25, 50, 75}}
    \cup {[Risk EXCEPT !.ltv = l, !.hardCap = l] : l \in {2937, 3000, 3500}}
    \cup {[Risk EXCEPT !.minHealthBps = h] : h \in {15000, 20000, 20833}}
    \cup {[Risk EXCEPT !.gas = g] : g \in {0, 1}}
    \cup {[Risk EXCEPT !.targetBase = @ * n, !.targetGuard = @ * n, !.idle = @ * n,
                       !.armCap = Greatest(@, 16 * n), !.lendCap = Greatest(@, 16 * n)] :
             n \in {1, 10, 100}}

\* _optimize_configs.
Optimize ==
    [baseline    |-> Risk,
     swap10      |-> [Risk EXCEPT !.fundingMode = "swap", !.swapCostBps = 10],
     swap30      |-> [Risk EXCEPT !.fundingMode = "swap", !.swapCostBps = 30],
     skew2000    |-> Skewed(Risk),
     recenter500 |-> [Risk EXCEPT !.recenterBps = 500],
     feeil_gate  |-> [Policy(Risk, "risk_fee_il") EXCEPT !.feeIlBuffer = 250,
                                    !.feeIlConfirm = 2, !.feeIlWindow = 1],
     guard_feeil |-> [Risk EXCEPT !.guardRule = "fee_il", !.feeIlWindow = 1],
     base3000    |-> Narrow(Risk),
     guard80     |-> GuardShare(Risk, 80),
     fund10000   |-> [Risk EXCEPT !.fundBps = 10000],
     A_2h15k75   |-> A,
     B_skew2500  |-> B,
     C_guard500  |-> C,
     D_guard80   |-> D,
     A_base3000  |-> Narrow(A),
     A_skew2500  |-> Skewed(A),
     A_sweep     |-> Sweeping(A),
     C_noskew    |-> Sweeping([C EXCEPT !.maxSkew = 0]),
     C_sweep     |-> Sweeping(C),
     C_caps50    |-> Caps(Sweeping(C), 5000, 100)]

\* cmd_mc, on every resampled tape, at one floor for the volume or another.
MonteCarlo == {Volume(Risk, v) : v \in {2, 4}} \cup {Policy(Defaults, "always_a")}

\* cmd_mc_optimize, each on every resampled tape and compared there with always_a.
McOptimize == {Risk, A, C, D, Policy(Defaults, "always_a")}

\* cmd_large: caps that grow with the capital while what there is to borrow does not.
Large(times) ==
    {[Caps(p, 2000, 4 * times) EXCEPT !.feeMode = "exact", !.targetBase = @ * times,
            !.targetGuard = @ * times, !.idle = @ * times] :
        p \in {Policy(Defaults, "always_a"), Policy(Defaults, "always_b"), Risk, A, C}}

\* The strategies and the markets of the scenario lab.
Strategies ==
    [always_a    |-> Policy(Defaults, "always_a"), always_b |-> Policy(Defaults, "always_b"),
     baseline    |-> Risk, improved |-> A, recommended |-> C, aggressive |-> C]

MarketParams(p, market) ==
    CASE market \in {"fee_2x", "volume_2x_fee_2x"} -> [p EXCEPT !.feeA = 2, !.feeB = 12]
      [] market = "risk_150"   -> [p EXCEPT !.maxVolatility = 150]
      [] market = "risk_500"   -> [p EXCEPT !.maxVolatility = 500]
      [] market = "arm_high"   -> [p EXCEPT !.lendRate = 2, !.nvdaRate = 2, !.borrowRate = 1]
      [] market = "arm_stress" -> Stress(p)
      [] OTHER -> p

Values(table) == {table[name] : name \in DOMAIN table}

\* Every strategy in every market that changes a parameter, and as it is in the others.
LabMatrix ==
    {MarketParams(p, market) : p \in Values(Strategies),
        market \in {"base", "fee_2x", "risk_150", "risk_500", "arm_high", "arm_stress"}}

\* The grids of the lab: how often, how much guard and whether skewed; and the widths.
LabGrid ==
    {LET p == GuardShare(Narrow(Volume(Every(Risk, h), 4)), g) IN IF skew THEN Skewed(p) ELSE p :
        <<h, g, skew>> \in {1, 2, 4} \X {50, 75, 80} \X BOOLEAN}
    \cup {[C EXCEPT !.baseWidth = b, !.guardWidth = g] : b \in 1 .. 2, g \in 1 .. 2}

\* PARAMS of the recommended run: rolling risk, and book B as an opportunity. The passive
\* runs it is compared with share the exact fees.
Recommended ==
    [C EXCEPT !.feeMode = "exact", !.rolling = TRUE, !.switchBps = 1000,
        !.oppWindow = 2, !.oppCheck = 2, !.oppBuffer = 1000,
        !.bMinVolume = 5, !.bMaxShare = 500]

Passive == {[Policy(Risk, name) EXCEPT !.feeMode = "exact"] : name \in {"always_a", "always_b"}}

\* The cases of the 0.30 pool: a share cap, a volume floor and one of two timings; and the
\* baseline of their capital, which has no opportunity window, so never book B.
Timings == {[window |-> 2, check |-> 2, buffer |-> 1000],
            [window |-> 4, check |-> 1, buffer |-> 500]}

CaseParams(maxShare, timing, minVolume) ==
    [Recommended EXCEPT !.bMaxShare = maxShare, !.bMinVolume = minVolume,
        !.oppWindow = timing.window, !.oppCheck = timing.check, !.oppBuffer = timing.buffer]

Cases ==
    {CaseParams(s, t, v) : s \in {500, 1000, 1500, 2500, 5000}, t \in Timings, v \in {2, 5}}

CaseBaseline == [Recommended EXCEPT !.oppWindow = 0]

-----------------------------------------------------------------------------
Runs ==
    Values(Baseline) \cup Sweep \cup Values(Optimize) \cup MonteCarlo \cup McOptimize
        \cup Large(2) \cup {Validation(name) : name \in {"always_a", "always_b"}}
        \cup LabMatrix \cup LabGrid \cup Passive \cup Cases \cup {Recommended, CaseBaseline}

\* In every run, debt at the LTV target is healthy: to borrow up to it is not what the
\* sentinel repays. A step of the arms moves something, and none moves more than there is.
RunsAssumption ==
    \A p \in Runs :
        /\ Sensible(p)
        /\ p.nvdaStep \in 1 .. BPS /\ p.bookStep \in 1 .. BPS /\ p.deleverBps \in 1 .. BPS
        /\ p.fundBps \in 1 .. BPS /\ p.armRelBps <= BPS /\ p.bMaxShare <= BPS
        /\ p.interval > 0 /\ p.oppCheck > 0 /\ p.startBook \in 0 .. 1

ASSUME RunsAssumption
=============================================================================
