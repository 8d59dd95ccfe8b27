--------------------------- MODULE AllocatorPolicy ---------------------------
(***************************************************************************)
(* What the allocator decides in an hour: the two candidates, the single    *)
(* steps it may take, and the rule of each policy. Nothing here changes the *)
(* portfolio. past holds the hours before this one, as far back as the      *)
(* rolling windows of p look.                                               *)
(***************************************************************************)
EXTENDS Portfolio, SequencesExt

Do(action, amount) == [action |-> action, amount |-> amount, book |-> 0]
DoBook(action, i)  == [action |-> action, amount |-> 0, book |-> i]
Hold == Do("HOLD", 0)
None == Do("NONE", 0)       \* a rule that does not apply

Pips(i, p) == IF i = 0 THEN p.feeA ELSE p.feeB

\* The proxy of the tape and the shock of an experiment pause in any hours they like.
DepegPaused(env, p) == p.depegMode # "off" /\ env.depeg
Paused(env, p) == DepegPaused(env, p) \/ p.controllerPaused \/ p.switchFrozen

-----------------------------------------------------------------------------
(* The windows of the tape a rule looks at.                                         *)

\* The hours of the window that ends before hour k of past and the present (k of them back).
Window(past, env, i, back, hours) ==
    LET tape == Append(past, env)
        end  == Len(tape) - back
        from == Greatest(1, end - hours)
    IN  [now  |-> tape[end].tick,
         past |-> [j \in 1 .. end - from |-> [tick    |-> tape[from + j - 1].tick,
                                              minutes |-> tape[from + j - 1].books[i].minutes]]]

BookWindow(b, past, env, i, back, hours, p) ==
    LET w == Window(past, env, i, back, hours)
    IN  BookSignal(b, w.past, w.now, hours, Pips(i, p), p.feeMode)

GuardWindow(b, past, env, i, hours, p) ==
    LET w == Window(past, env, i, 0, hours)
    IN  GuardSignal(b, w.past, w.now, hours, Pips(i, p), p.feeMode)

GateHours(p) == IF p.feeIlWindow > 0 THEN p.feeIlWindow ELSE 4

\* The fees of each of the last confirm hours fell short of the loss and the buffer. With no
\* hour to look back on the fees are zero, and short.
FeeIlShort(b, past, env, i, p) ==
    /\ Len(past) + 1 >= p.feeIlConfirm
    /\ \A back \in 0 .. p.feeIlConfirm - 1 :
          LET s == BookWindow(b, past, env, i, back, GateHours(p), p)
          IN  s.fee - p.hurdle * s.il < p.feeIlBuffer

SumVolume(past, env, i, hours) ==
    LET tape == Append(past, env)
    IN  MapThenSumSet(LAMBDA j : tape[j].books[i].hourVolume,
                      Greatest(1, Len(tape) - hours + 1) .. Len(tape))

\* The minutes the risk is read from: the end of this hour, or of the tape when it rolls.
RiskMinutes(past, env, i, p) ==
    LET tape == Append(past, env)
        ms   == IF p.rolling THEN FlattenSeq([j \in DOMAIN tape |-> tape[j].books[i].minutes])
                ELSE env.books[i].minutes
    IN  SubSeq(ms, Greatest(1, Len(ms) - p.riskWindow + 1), Len(ms))

Ticks(ms) == SelectSeq([j \in DOMAIN ms |-> ms[j].tick], LAMBDA t : t # NoTick)

RiskReading(past, env, i, p) ==
    LET ms == RiskMinutes(past, env, i, p)
        ts == Ticks(ms)
        at == {ts[j] : j \in DOMAIN ts}
    IN  [minutes    |-> ms,
         first      |-> IF ts = <<>> THEN 0 ELSE ts[1],
         last       |-> IF ts = <<>> THEN 0 ELSE ts[Len(ts)],
         volume     |-> IF p.rolling THEN MapThenSumSet(LAMBDA j : ms[j].volume, DOMAIN ms)
                        ELSE env.books[i].volume,
         volatility |-> IF ~p.rolling THEN env.books[i].volatility
                        ELSE IF ts = <<>> THEN 0 ELSE Max(at) - Min(at)]

-----------------------------------------------------------------------------
(* The candidates.                                                                  *)

\* What a candidate is judged by: the book as it stands, the target sleeve about the
\* market, or all the capital in one range of the half width, whose fees are those of
\* every minute, wherever it was priced.
Judged(pf, i, env, minutes, p) ==
    LET b       == pf.books[i]
        t       == env.tick
        value   == BookValue(Active(pf), t)
        capital == Greatest(IF value > 0 THEN value ELSE Nav(pf, t), 1)
        liquid  == LiquidityFor(capital, t - p.halfWidth, t + p.halfWidth, t)
        by(book, worth, fee) == [book |-> book, value |-> worth, fee |-> fee]
        earned(book) == BookFeeParts(book, minutes, Pips(i, p), p.feeMode).total
        sleeve  == Sized(pf, i, Grain, 0, env, p)
        range   == [Funded(BookTemplate(t, p), liquid, 0)
                       EXCEPT !.baseLo = t - p.halfWidth, !.baseHi = t + p.halfWidth]
    IN  IF HasPositions(b) THEN by(b, BookValue(b, t), earned(b))
        ELSE IF p.fixHypothetical THEN by(sleeve, BookValue(sleeve, t), earned(sleeve))
        ELSE by(range, capital, Earned(liquid, DOMAIN minutes, minutes, Pips(i, p), "expansion"))

ActiveL(b, t) ==
    (IF InRange(b.base, b.baseLo, b.baseHi, t) THEN b.base ELSE 0)
        + (IF InRange(GuardL(b), b.guardLo, b.guardHi, t) THEN GuardL(b) ELSE 0)

\* Book B is no opportunity when it is thin over its window or we would hold too much of it.
Crowded(i, past, env, liquid, p) ==
    /\ p.oppWindow > 0 /\ i = 1
    /\ \/ SumVolume(past, env, i, Greatest(p.oppWindow, p.bVolumeHours)) < p.bMinVolume
       \/ liquid * BPS > p.bMaxShare * (env.books[i].poolL + liquid)

\* Fees and loss of what is judged, over the minutes of the reading, at an hour's rate.
Rates(judged, reading, p) ==
    LET annual == YearHours * p.riskPerHour
        range  == LossRange(judged.book)
    IN  [fee |-> Round(judged.fee * annual * BPS, Greatest(judged.value, 1)),
         il  |-> IlBps(reading.first, reading.last, range[1], range[2]) * annual]

Net(rates, p) == rates.fee - p.hurdle * Greatest(rates.il, -rates.il)

\* An empty active book has no guard, unless the fix lets it count the one it would be
\* funded with; the other book is always judged with one.
CountsAsGuarded(pf, i, p) ==
    IF HasPositions(pf.books[i]) THEN pf.books[i].present
    ELSE i # pf.active \/ p.fixEmptyBook

Assessed(pf, i, past, env, p, reading, judged, rates) ==
    LET window  == IF HasPositions(pf.books[i]) THEN pf.books[i] ELSE Sized(pf, i, Grain, 0, env, p)
        reasons == RiskReasons(rates.fee, reading.volume, reading.volatility,
                               CountsAsGuarded(pf, i, p), i = pf.active /\ DepegPaused(env, p), p)
    IN  [net  |-> IF p.oppWindow > 0
                  THEN Net(BookWindow(window, past, env, i, 0, p.oppWindow, p), p)
                  ELSE Net(rates, p),
         risk |-> IF \/ env.books[i].liquidity < p.minLiquidity \/ reasons # {}
                     \/ Crowded(i, past, env, ActiveL(judged.book, env.tick), p)
                  THEN "HIGH" ELSE "NORMAL"]

Candidate(pf, i, past, env, p) ==
    LET rated(reading, judged) ==
            Assessed(pf, i, past, env, p, reading, judged, Rates(judged, reading, p))
        read(reading) == rated(reading, Judged(pf, i, env, reading.minutes, p))
    IN  read(RiskReading(past, env, i, p))

Candidates(pf, past, env, p) == [i \in Books |-> Candidate(pf, i, past, env, p)]

-----------------------------------------------------------------------------
(* One step of the keeper in each situation, None where the rule does not apply.    *)

\* Into the arms: lend, then collateral, then borrow, and only then recall the book.
DeployToArms(pf, env, p) ==
    LET plan   == PlanArmEntry(pf.usdg, pf.nvda, pf.arm.lent, pf.arm.nvda, p)
        lend   == Least(plan.usdgMove, LendRoom(pf, env, p))
        pledge == Least(plan.nvdaMove, CollateralRoom(pf, env, p) \div Price(env))
        borrow == BorrowRoom(pf, env, p)
    IN  IF lend > DustUsd THEN Do("ALLOCATE_USDG", lend)
        ELSE IF pledge > DustNvda THEN Do("ALLOCATE_NVDA", pledge)
        ELSE IF pf.arm.nvda > DustNvda /\ borrow > DustUsd THEN Do("BORROW_USDG", borrow)
        ELSE IF HasPositions(Active(pf)) THEN Do("RECALL_BOOK", 0)
        ELSE Hold

\* Back to the books: repay, and withdraw nothing before that; then the collateral, then
\* the lend arm, and then fund the book.
ReturnToBooks(pf, p) ==
    LET arm   == pf.arm
        plan  == PlanBookReturn(arm.lent, arm.nvda, arm.debt, p)
        repay == Least(plan.repay, pf.usdg + arm.lent)
    IN  IF arm.debt > DustUsd THEN (IF repay > DustUsd THEN Do("REPAY", repay) ELSE Hold)
        ELSE IF arm.nvda > DustNvda THEN Do("WITHDRAW_NVDA", plan.collateralOut)
        ELSE IF arm.lent > DustUsd THEN Do("DEALLOCATE_USDG", plan.usdgOut)
        ELSE IF ~HasPositions(Active(pf)) THEN DoBook("FUND_BOOK", pf.active)
        ELSE Hold

\* Part of the debt at a low health factor or a high borrow rate.
Sentinel(pf, env, p) ==
    LET arm   == pf.arm
        low   == p.lltvBps * arm.nvda * Price(env) < p.minHealthBps * arm.debt
        repay == Least(Slice(arm.debt, p.deleverBps), pf.usdg + arm.lent)
    IN  IF /\ p.sentinel /\ arm.debt > DustUsd /\ arm.nvda > DustNvda
           /\ low \/ p.borrowAprBps > p.maxBorrowAprBps
           /\ repay > DustUsd
        THEN Do("REPAY", repay) ELSE None

Recenter(pf, env, p) ==
    LET entry == PriceAt[Active(pf).entry]
        move  == Price(env) - entry
    IN  IF /\ p.recenterBps > 0 /\ HasPositions(Active(pf))
           /\ Greatest(move, -move) * BPS >= p.recenterBps * entry
        THEN Do("RECENTER_BOOK", 0) ELSE None

\* What is idle beyond a reserve of both tokens: NVDA to the collateral, a borrow against
\* it, USDG to the lend arm.
Surplus(pf, env, p) ==
    LET price   == Price(env)
        reserve == Greatest(p.reserveUsd, (p.reserveBps * Positive(Nav(pf, env.tick))) \div BPS)
        spare   == Least(Monus(pf.nvda, CeilDiv(reserve, price)),
                         CollateralRoom(pf, env, p) \div price)
        lend    == Least(Monus(pf.usdg, reserve), LendRoom(pf, env, p))
    IN  IF ~p.surplus THEN None
        ELSE IF pf.nvda * price > reserve + p.surplusMin /\ spare > DustNvda
        THEN Do("ALLOCATE_NVDA", spare)
        ELSE IF pf.arm.nvda > DustNvda /\ BorrowRoom(pf, env, p) > DustUsd
        THEN Do("BORROW_USDG", BorrowRoom(pf, env, p))
        ELSE IF pf.usdg > reserve + p.surplusMin /\ lend > DustUsd
        THEN Do("ALLOCATE_USDG", lend) ELSE None

-----------------------------------------------------------------------------
(* The policies.                                                                    *)

PullBin(moves, p) ==
    LET over == {j \in DOMAIN moves : moves[j] > p.pullBps}
    IN  IF over = {} THEN NoBin ELSE Min(over) - 1

\* The guard is away, was pulled a moment ago, or was pulled more often than allowed; an
\* hour counts one pull at most.
GuardTrigger(pf, env, p) ==
    LET b == Active(pf)
    IN  \/ ~b.present
        \/ b.since # NoPull /\ b.since < p.guardCooldown
        \/ PullBin(env.books[pf.active].moves, p) # NoBin /\ p.maxGuardPulls < 1

\* Mutant: an empty book is never in danger.
SafeHarbourOfBook(pf, metrics, env, p, fixed) ==
    /\ HasPositions(Active(pf))
    /\ GuardTrigger(pf, env, p) \/ metrics[pf.active].risk = "HIGH"

\* Whether a guard trigger counts: with the fix, and for the risk policies, only when there
\* is a book to guard.
SafeHarbour(pf, metrics, env, p, fixed) ==
    \/ (~fixed \/ HasPositions(Active(pf))) /\ GuardTrigger(pf, env, p)
    \/ metrics[pf.active].risk = "HIGH"

\* Paused: recall, and nothing else.
WhenPaused(pf) == IF HasPositions(Active(pf)) THEN Do("RECALL_BOOK", 0) ELSE Hold

AlwaysBook(pf, i) ==
    IF i # pf.active /\ HasPositions(Active(pf)) THEN DoBook("SWITCH_BOOK", i)
    ELSE IF i = pf.active /\ HasPositions(pf.books[i]) THEN Hold
    ELSE DoBook("FUND_BOOK", i)

\* Mutant: out of either book.
SwitchAway(i, metrics) ==
    IF metrics[i].risk = "HIGH" /\ metrics[1 - i].risk # "HIGH"
    THEN DoBook("SWITCH_BOOK", 1 - i) ELSE None

\* Out of a HIGH book B, when book A is not HIGH.
SwitchBack(i, metrics) ==
    IF i = 1 /\ metrics[1].risk = "HIGH" /\ metrics[0].risk # "HIGH"
    THEN DoBook("SWITCH_BOOK", 0) ELSE None

\* Risk alone moves the portfolio; risk_fee_il also leaves a book whose fees lag its loss.
RiskPolicy(pf, metrics, past, env, hour, p) ==
    LET i       == pf.active
        other   == 1 - i
        booked  == HasPositions(Active(pf))
        inBooks == booked /\ Mode(pf) = "BOOKS"
        lead    == /\ p.oppWindow > 0 /\ inBooks /\ hour % p.oppCheck = 0
                   /\ metrics[other].risk # "HIGH"
                   /\ metrics[other].net > Greatest(p.oppMin, metrics[i].net + p.oppBuffer)
    IN  IF Paused(env, p) THEN WhenPaused(pf)
        ELSE IF Sentinel(pf, env, p) # None THEN Sentinel(pf, env, p)
        ELSE IF SwitchBack(i, metrics) # None THEN SwitchBack(i, metrics)
        ELSE IF SafeHarbour(pf, metrics, env, p, TRUE) THEN DeployToArms(pf, env, p)
        ELSE IF Recenter(pf, env, p) # None THEN Recenter(pf, env, p)
        ELSE IF p.policy = "risk_fee_il" /\ booked /\ FeeIlShort(Active(pf), past, env, i, p)
        THEN DeployToArms(pf, env, p)
        ELSE IF inBooks /\ Surplus(pf, env, p) # None THEN Surplus(pf, env, p)
        ELSE IF lead THEN DoBook("SWITCH_BOOK", other)
        ELSE IF Mode(pf) = "ARMS" \/ ~booked THEN ReturnToBooks(pf, p)
        ELSE Hold

\* The keeper as built: guard and risk to the arms, then the net APR of the two pools.
KeeperPolicy(pf, metrics, env, hour, p) ==
    LET arms   == Mode(pf) = "ARMS"
        choice == DecidePoolSwitch(metrics, pf.active, p.switchBuffer)
    IN  IF Paused(env, p) THEN WhenPaused(pf)
        ELSE IF Sentinel(pf, env, p) # None THEN Sentinel(pf, env, p)
        ELSE IF SafeHarbour(pf, metrics, env, p, p.fixEmptyBook) THEN DeployToArms(pf, env, p)
        ELSE IF ~arms /\ Recenter(pf, env, p) # None THEN Recenter(pf, env, p)
        ELSE IF ~arms /\ hour % p.oppCheck # 0 THEN Hold
        ELSE IF choice.action = "ARMS" THEN DeployToArms(pf, env, p)
        ELSE IF arms \/ (choice.action = "HOLD" /\ ~HasPositions(Active(pf)))
        THEN ReturnToBooks(pf, p)
        ELSE IF choice.action = "SWITCH" THEN DoBook("SWITCH_BOOK", choice.book)
        ELSE Hold

\* No policy acts in the hours of the warmup but always_arms; two act at their interval.
Idle(hour, p) ==
    \/ p.policy = "hodl"
    \/ p.policy # "always_arms" /\ hour < p.warmup
    \/ p.policy \in {"allocator", "risk_only"} /\ hour % p.interval # 0

Decide(pf, past, env, hour, p) ==
    IF Idle(hour, p) THEN Hold
    ELSE CASE p.policy = "always_arms" -> DeployToArms(pf, env, p)
           [] p.policy = "always_a" -> AlwaysBook(pf, 0)
           [] p.policy = "always_b" -> AlwaysBook(pf, 1)
           [] p.policy \in {"risk_only", "risk_fee_il"} ->
                 RiskPolicy(pf, Candidates(pf, past, env, p), past, env, hour, p)
           [] p.policy = "allocator" ->
                 KeeperPolicy(pf, Candidates(pf, past, env, p), env, hour, p)
=============================================================================
