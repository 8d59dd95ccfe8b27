------------------------------ MODULE Allocator ------------------------------
(***************************************************************************)
(* The cadCAD model of the allocator: an hour reads the market, books its   *)
(* income, decides, executes at most one action of the keeper, and closes.  *)
(* The scenario brings any hour next, for as long as it is stormy; after    *)
(* that its hours are calm and the price stays where it is.                 *)
(***************************************************************************)
EXTENDS AllocatorPolicy

CONSTANTS
    Configs,            \* the parameters of the runs
    Hours,              \* the hours a scenario is made of
    Calm,               \* those of them it ends with, one at least for every tick
    Storm,              \* bound: hours that may be any of Hours
    FirstTick,          \* the tick of the scenario's first hour
    Cycle,              \* bound: hours are told apart up to this, a multiple of every interval
    MaxIncome           \* bound: hours that bring fees and interest

Policies == {"hodl", "always_a", "always_b", "always_arms", "allocator", "risk_only",
             "risk_fee_il"}

ASSUME ConfigAssumption ==
    /\ \A p \in Configs :
          /\ p.policy \in Policies /\ p.startBook \in Books /\ p.fundBps \in Nat
          /\ p.targetBase \in Nat /\ p.targetBase >= Grain /\ p.targetGuard \in Nat
    /\ Calm \subseteq Hours

\* Parameters that are amounts, rates, widths or times, and with which debt up to the LTV
\* target is healthy.
Sensible(p) ==
    /\ {p.idle, p.baseWidth, p.guardWidth, p.feeA, p.feeB, p.ltv, p.maxLtv, p.hardCap,
        p.morphoShare, p.nvdaStep, p.bookStep, p.guardCooldown, p.rearmDelay,
        p.lendRate, p.nvdaRate, p.borrowRate, p.armCap, p.lendCap, p.armRelBps, p.lendRelBps,
        p.borrowLiquidity, p.maxBorrow, p.lltvBps, p.minHealthBps, p.deleverBps, p.bonusBps,
        p.gas, p.recenterGas, p.switchBps, p.swapCostBps, p.maxSkew, p.reserveUsd,
        p.reserveBps, p.feeIlWindow, p.feeIlConfirm, p.oppWindow, p.bVolumeHours, p.warmup}
         \subseteq Nat
    /\ p.lltvBps > 0 /\ p.minHealthBps >= BPS
    /\ Least(Least(p.ltv, p.maxLtv), p.hardCap) * p.minHealthBps <= p.lltvBps * BPS

ASSUME ParametersAssumption == \A p \in Configs : Sensible(p) /\ p.warmup < Cycle

ASSUME HoursAssumption ==
    /\ DOMAIN PriceAt \subseteq Int /\ Storm \in Nat /\ Cycle \in Nat /\ MaxIncome \in Nat
    /\ \A h \in Hours :
          /\ h.tick \in DOMAIN PriceAt
          /\ \A i \in Books :
                h.books[i].minutes \in Seq(Minute) /\ h.books[i].moves \in Seq(Int)

VARIABLES
    params,             \* the parameters of this run, fixed
    pf,                 \* the portfolio
    env,                \* the present hour
    past,               \* the hours before it, as far as the rolling windows look
    decision,
    storm,              \* hours that may still be any
    hour,               \* the step, up to Cycle
    income,             \* hours that brought fees and interest
    phase               \* the next state update block

vars == <<params, pf, env, past, decision, storm, hour, income, phase>>

Actions == {"ALLOCATE_USDG", "ALLOCATE_NVDA", "BORROW_USDG", "RECALL_BOOK", "REPAY",
            "WITHDRAW_NVDA", "DEALLOCATE_USDG", "FUND_BOOK", "RECENTER_BOOK",
            "SWITCH_BOOK", "HOLD"}

Phases == {"market", "income", "decide", "execute", "close"}

Book == [deployed : BOOLEAN, present : BOOLEAN, base : Nat, guard : Nat, fees : Nat,
         since : {NoPull} \cup Nat, entry : DOMAIN PriceAt,
         baseLo : Int, baseHi : Int, guardLo : Int, guardHi : Int]

TypeOK ==
    /\ params \in Configs /\ env \in Hours /\ past \in Seq(Hours)
    /\ pf \in [active : Books, books : [Books -> Book], usdg : Nat, nvda : Nat,
               arm : [nvda : Nat, lent : Nat, debt : Nat, bad : Nat],
               cum : [DOMAIN NoFlow -> Nat]]
    /\ decision \in [action : Actions, amount : Nat, book : Books]
    /\ storm \in 0 .. Storm /\ hour \in 0 .. Cycle /\ income \in 0 .. MaxIncome
    /\ phase \in Phases

Init ==
    /\ params \in Configs
    /\ env \in {h \in Hours : h.tick = FirstTick}
    /\ pf = InitialPortfolio(FirstTick, params)
    /\ past = <<>> /\ decision = Hold
    /\ storm = Storm /\ hour = 0 /\ income = 0 /\ phase = "income"

-----------------------------------------------------------------------------
(* The market: any hour, or a calm one.                                             *)

\* How many hours back the rules of p look: none when no rule has a window.
Memory(p) ==
    LET need(rule, hours) == IF rule THEN hours ELSE 0
    IN  Max({need(p.policy = "risk_fee_il", GateHours(p) + p.feeIlConfirm - 1),
             need(p.guardRule = "fee_il" \/ p.rearmGate, GateHours(p)),
             need(p.oppWindow > 0, Greatest(p.oppWindow, p.bVolumeHours)),
             need(p.rolling, 1)})

Market ==
    /\ phase = "market"
    /\ IF storm > 0 THEN env' \in Hours /\ storm' = storm - 1
                     ELSE env' \in {h \in Calm : h.tick = env.tick} /\ storm' = 0
    /\ past' = LET tape == Append(past, env)
               IN  SubSeq(tape, Greatest(1, Len(tape) - Memory(params) + 1), Len(tape))
    /\ phase' = "income"
    /\ UNCHANGED <<params, pf, decision, hour, income>>

-----------------------------------------------------------------------------
(* Income: fees, pulls and re-arms of both books, then the arms.                    *)

\* The fee signal of the guard's own range no longer covers its loss.
FeeIlPull(b, i) ==
    LET s == GuardWindow(b, past, env, i, GateHours(params), params)
    IN  /\ params.guardRule = "fee_il" /\ b.present
        /\ s.il > 0 /\ s.fee < params.guardHurdle * s.il

PulledAt(b, i) ==
    IF FeeIlPull(b, i) THEN 0 ELSE PullBin(env.books[i].moves, params)

\* What the book and the guard earned, booked.
Credited(q, i, fees) ==
    IF income < MaxIncome
    THEN [q EXCEPT !.books[i].fees = @ + fees.total,
                   !.cum.fees = @ + fees.total, !.cum.guardFees = @ + fees.guard]
    ELSE q

\* The tokens of the guard go idle.
Pulled(q, i) ==
    LET b == q.books[i]
    IN  [q EXCEPT !.usdg = @ + Usdg(b.guard, b.guardLo, b.guardHi, env.tick),
                  !.nvda = @ + Nvda(b.guard, b.guardLo, b.guardHi, env.tick),
                  !.books[i].guard = 0, !.books[i].present = FALSE, !.books[i].since = 0]

\* The fees of the hour, prorated by the bin of a pull, and the pull.
WithFees(q, i, bin) ==
    LET paid(at) == Credited(q, i, BookFeeForHour(q.books[i], env.books[i].minutes,
                                                  Pips(i, params), at, params.feeMode))
    IN  IF bin = NoBin \/ GuardL(q.books[i]) = 0 THEN paid(NoBin) ELSE Pulled(paid(bin), i)

\* The gate of the re-arm, read from the book as the hour found it.
RearmSignal(b, i) ==
    LET s == BookWindow(b, past, env, i, 0, GateHours(params), params)
    IN  ~params.rearmGate \/ s.il <= 0 \/ s.fee >= params.guardHurdle * s.il

\* As much of the guard as the idle tokens of held allow.
Rearmed(held, i, target) ==
    LET t  == env.tick
        lo == t - params.guardWidth
        hi == t + params.guardWidth
        l  == Max({k \in 0 .. target : /\ Usdg(k, lo, hi, t) <= held.usdg
                                       /\ Nvda(k, lo, hi, t) <= held.nvda})
    IN  IF l = 0 THEN held
        ELSE [held EXCEPT !.usdg = @ - Usdg(l, lo, hi, t), !.nvda = @ - Nvda(l, lo, hi, t),
                          !.books[i].guard = l, !.books[i].present = TRUE,
                          !.books[i].guardLo = lo, !.books[i].guardHi = hi,
                          !.books[i].since = NoPull]

\* An absent guard of a book with a base comes back about the market, in proportion to the
\* base.
WithRearm(q, i, signal) ==
    LET b      == q.books[i]
        t      == env.tick
        lo     == t - params.guardWidth
        hi     == t + params.guardWidth
        target == (params.targetGuard * b.base) \div params.targetBase
    IN  IF \/ b.present \/ b.base = 0 \/ target = 0 \/ ~signal
           \/ b.since # NoPull /\ b.since < params.rearmDelay
        THEN q
        ELSE Rearmed(IF params.fundingMode = "swap"
                     THEN SwapDeficit(q, Usdg(target, lo, hi, t), Nvda(target, lo, hi, t),
                                      env, params.swapCostBps)
                     ELSE q,
                     i, target)

BookIncome(q, i) ==
    IF q.books[i].deployed
    THEN WithRearm(WithFees(q, i, PulledAt(q.books[i], i)), i, RearmSignal(q.books[i], i))
    ELSE q

\* An hour of interest; a net NVDA yield is grossed up by what the debt costs it.
WithInterest(q) ==
    LET arm    == q.arm
        worth  == arm.nvda * Price(env)
        rate   == IF params.netYield /\ worth > 0
                  THEN params.nvdaRate + (arm.debt * params.borrowRate) \div worth
                  ELSE params.nvdaRate
        lent   == (arm.lent * params.lendRate) \div BPS
        owed   == (arm.debt * params.borrowRate) \div BPS
        yield  == (arm.nvda * rate) \div BPS
    IN  IF income = MaxIncome THEN q
        ELSE [q EXCEPT !.arm.lent = @ + lent, !.arm.debt = @ + owed, !.arm.nvda = @ + yield,
                       !.cum.interest = @ + lent, !.cum.borrow = @ + owed,
                       !.cum.yield = @ + yield * Price(env)]

Income ==
    /\ phase = "income"
    /\ pf' = Liquidate(WithInterest(BookIncome(BookIncome([pf EXCEPT !.cum = NoFlow], 0), 1)),
                       env, params)
    /\ income' = IF \E f \in {"fees", "interest", "yield", "borrow"} : pf'.cum[f] > 0
                 THEN income + 1 ELSE income
    /\ phase' = "decide"
    /\ UNCHANGED <<params, env, past, decision, storm, hour>>

-----------------------------------------------------------------------------
(* The decision, and the one action of the hour.                                    *)

MakeDecision ==
    /\ phase = "decide"
    /\ decision' = Decide(pf, past, env, hour, params)
    /\ phase' = "execute"
    /\ UNCHANGED <<params, pf, env, past, storm, hour, income>>

\* An action that was carried out pays its gas; one that came to nothing is a HOLD.
Done(q)    == PayGas(q, params.gas)
Execute(q) ==
    /\ pf' = q
    /\ phase' = "close"
    /\ UNCHANGED <<params, env, past, decision, storm, hour, income>>

Before == [pf EXCEPT !.cum = NoFlow]

Executing(action) == phase = "execute" /\ decision.action = action

ExecuteHold == Executing("HOLD") /\ Execute(Before)

ExecuteAllocateUsdg ==
    LET amount == Least(Least(decision.amount, pf.usdg), LendRoom(pf, env, params))
    IN  /\ Executing("ALLOCATE_USDG")
        /\ Execute(IF amount > DustUsd
                   THEN Done([Before EXCEPT !.usdg = @ - amount, !.arm.lent = @ + amount])
                   ELSE Before)

ExecuteAllocateNvda ==
    LET amount == Least(Least(decision.amount, pf.nvda),
                        CollateralRoom(pf, env, params) \div Price(env))
    IN  /\ Executing("ALLOCATE_NVDA")
        /\ Execute(IF amount > DustNvda
                   THEN Done([Before EXCEPT !.nvda = @ - amount, !.arm.nvda = @ + amount])
                   ELSE Before)

ExecuteBorrow ==
    LET amount == Least(decision.amount, BorrowRoom(pf, env, params))
    IN  /\ Executing("BORROW_USDG")
        /\ Execute(IF amount > DustUsd
                   THEN Done([Before EXCEPT !.usdg = @ + amount, !.arm.debt = @ + amount])
                   ELSE Before)

\* From the idle USDG first, then from the lend arm.
ExecuteRepay ==
    LET amount == Least(Least(decision.amount, pf.usdg + pf.arm.lent), pf.arm.debt)
        idle   == Least(amount, pf.usdg)
    IN  /\ Executing("REPAY")
        /\ Execute(IF amount > DustUsd
                   THEN Done([Before EXCEPT !.usdg = @ - idle, !.arm.lent = @ - (amount - idle),
                                            !.arm.debt = @ - amount])
                   ELSE Before)

\* Under debt, no further than the collateral the minimum health factor needs.
ExecuteWithdraw ==
    LET needed == CeilDiv(pf.arm.debt * params.minHealthBps, params.lltvBps * Price(env))
        free   == IF pf.arm.debt > DustUsd THEN Monus(pf.arm.nvda, needed) ELSE pf.arm.nvda
        amount == Least(decision.amount, free)
    IN  /\ Executing("WITHDRAW_NVDA")
        /\ Execute(IF amount > DustNvda
                   THEN Done([Before EXCEPT !.arm.nvda = @ - amount, !.nvda = @ + amount])
                   ELSE Before)

ExecuteDeallocate ==
    LET amount == Least(decision.amount, pf.arm.lent)
    IN  /\ Executing("DEALLOCATE_USDG")
        /\ Execute(IF amount > DustUsd
                   THEN Done([Before EXCEPT !.arm.lent = @ - amount, !.usdg = @ + amount])
                   ELSE Before)

ExecuteRecall == Executing("RECALL_BOOK") /\ Execute(Done(CloseBook(Before, pf.active, env)))

\* A funding that comes to dust is a HOLD, though what it moved stays moved.
Settle(funded, cost) ==
    Execute(IF funded.value > DustUsd
            THEN Done([funded.pf EXCEPT !.usdg = Monus(@, cost), !.cum.switch = @ + cost])
            ELSE funded.pf)

ExecuteFund ==
    /\ Executing("FUND_BOOK")
    /\ IF pf.arm.debt > DustUsd \/ HasPositions(pf.books[decision.book]) THEN Execute(Before)
       ELSE Settle(FundBook(Before, decision.book, env, params), 0)

\* Gas twice: the configured gas of a recenter on top of that of any action.
SettleRecenter(funded) ==
    IF funded.value > DustUsd
    THEN Settle([funded EXCEPT !.pf = PayGas(@, params.recenterGas)], 0)
    ELSE Execute(funded.pf)

ExecuteRecenter ==
    /\ Executing("RECENTER_BOOK")
    /\ IF ~HasPositions(Active(pf)) THEN Execute(Before)
       ELSE SettleRecenter(FundBook(CloseBook(Before, pf.active, env), pf.active, env, params))

CloseHeld(q, i) == IF HasPositions(q.books[i]) THEN CloseBook(q, i, env) ELSE q

\* The cost of a switch is booked whole, whatever is idle to pay it.
SettleSwitch(funded) == Settle(funded, (funded.value * params.switchBps) \div BPS)

\* Mutants: the other book stays as it is; debt is not looked at.
SwitchLeavingBook ==
    /\ Executing("SWITCH_BOOK")
    /\ IF pf.arm.debt > DustUsd THEN Execute(Before)
       ELSE SettleSwitch(FundBook(CloseHeld(Before, decision.book), decision.book, env, params))

SwitchUnderDebt ==
    /\ Executing("SWITCH_BOOK")
    /\ SettleSwitch(FundBook(CloseHeld(CloseHeld(Before, decision.book), pf.active),
                             decision.book, env, params))

ExecuteSwitch ==
    LET target == decision.book
    IN  /\ Executing("SWITCH_BOOK")
        /\ IF pf.arm.debt > DustUsd \/ (target = pf.active /\ HasPositions(pf.books[target]))
           THEN Execute(Before)
           ELSE SettleSwitch(FundBook(CloseHeld(CloseHeld(Before, target), pf.active),
                                      target, env, params))

ExecuteAction ==
    \/ ExecuteHold \/ ExecuteAllocateUsdg \/ ExecuteAllocateNvda \/ ExecuteBorrow
    \/ ExecuteRepay \/ ExecuteWithdraw \/ ExecuteDeallocate
    \/ ExecuteRecall \/ ExecuteFund \/ ExecuteRecenter \/ ExecuteSwitch

\* The step counter, and with it the age of a pull, as far as the delays tell ages apart.
Close ==
    LET oldest == Greatest(params.rearmDelay, params.guardCooldown)
        aged(b) == IF b.since = NoPull THEN b ELSE [b EXCEPT !.since = Least(@ + 1, oldest)]
    IN  /\ phase = "close"
        /\ hour' = IF hour + 1 = Cycle THEN params.warmup ELSE hour + 1
        /\ pf' = [pf EXCEPT !.books = [i \in Books |-> aged(@[i])], !.cum = NoFlow]
        /\ decision' = Hold
        /\ phase' = "market"
        /\ UNCHANGED <<params, env, past, storm, income>>

Next == Market \/ Income \/ MakeDecision \/ ExecuteAction \/ Close

\* What every step does: it goes on to the next block. Some step is always possible, so
\* that fairness of this much says that the run goes on.
GoesOn == phase' \in Phases \ {phase}

Spec == Init /\ [][Next]_vars /\ WF_phase(GoesOn)

-----------------------------------------------------------------------------
(* Properties.                                                                      *)

\* Tokens are in one book at most, and never in one that is not the active book: what
\* FUND_BOOK does not check (it looks at its own target only) the decisions have to keep.
OneBookEarns ==
    \A i \in Books : i # pf.active => ~pf.books[i].deployed /\ pf.books[i].fees = 0

\* Whenever the keeper decides or moves, the debt is within the liquidation threshold of
\* the collateral at this hour's price: neither a borrow, nor a withdrawal, nor an hour's
\* interest leaves a debt that liquidation has not dealt with.
DebtIsCovered ==
    phase # "income" /\ pf.arm.debt > DustUsd
        => params.lltvBps * pf.arm.nvda * Price(env) >= pf.arm.debt * BPS

\* A risk-only run that starts in book A and has no opportunity window never has tokens in
\* book B: the baseline the 0.30 pool cases are measured against.
RiskOnlyStaysInA ==
    /\ params.policy \in {"risk_only", "risk_fee_il"}
    /\ params.oppWindow = 0 /\ params.startBook = 0
    => pf.active = 0 /\ ~pf.books[1].deployed

\* What the books of account say an hour brought and cost.
Flow(c) == c.fees + c.interest + c.yield - c.borrow - c.gas - c.switch - c.swap - c.loss

\* NAV changes by exactly what is recorded: income, closing, funding, pulling, re-arming,
\* swapping and liquidating neither create nor lose value. A switch that cannot pay its
\* cost from what is idle is the one step that records more than it takes.
Booked ==
    LET change == Nav(pf', env.tick) - Nav(pf, env.tick)
    IN  \/ change = Flow(pf'.cum)
        \/ pf'.cum.switch > 0 /\ pf'.usdg = 0 /\ change > Flow(pf'.cum)

EveryStepBooked == [][(phase \in {"income", "execute"}) => Booked]_vars

\* The keeper as built: once the active book is empty, no book is ever funded again,
\* whatever the market does.
OneWayDoor ==
    [][params.policy = "allocator" /\ ~params.fixEmptyBook /\ ~HasPositions(Active(pf))
          => ~HasPositions(Active(pf'))]_vars

\* Where the book capital is: the allocator implements CapitalCycle.
place ==
    IF HasPositions(pf.books[0]) THEN "A" ELSE IF HasPositions(pf.books[1]) THEN "B" ELSE "out"

Cycles == INSTANCE CapitalCycle WITH place <- place, indebted <- pf.arm.debt > DustUsd
BooksOpenDebtFree == Cycles!Spec

\* What keeps the capital out of the books in a calm market: an empty book B
\* that is HIGH, when the keeper asks for a switch that debt forbids or the idle tokens
\* cannot fund, and never empties the arms for it; a slice of exactly the dust, which is
\* planned and never carried out; and, the arms emptied, tokens that fill no book on both
\* sides.
Stranded ==
    LET slice(amount) == OrAll(amount, params.bookStep, DustUsd)
        unfunded(i)   == FundBook(pf, i, env, params).value <= DustUsd
    IN  \/ pf.active = 1 /\ ~HasPositions(Active(pf)) /\ (pf.arm.debt > DustUsd \/ unfunded(0))
        \/ slice(pf.arm.debt) = DustUsd \/ slice(pf.arm.lent) = DustUsd
        \/ /\ pf.arm.nvda <= DustNvda /\ pf.arm.lent <= DustUsd /\ pf.arm.debt <= DustUsd
           /\ unfunded(pf.active)

\* After the storm the keeper comes to rest: it does not go back and forth between the
\* books, or between a book and the arms; and where risk alone decides, it rests with the
\* capital in a book. The sweep is not held to it: what it pledges in one hour is taken back
\* in the next.
SettlesInBook ==
    <>[](\/ params.surplus
         \/ /\ decision.action = "HOLD"
            /\ params.policy = "risk_only" => HasPositions(Active(pf))
         \/ Stranded)
=============================================================================
