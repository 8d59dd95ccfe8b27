------------------------------ MODULE Portfolio ------------------------------
(***************************************************************************)
(* The portfolio of the allocator and the helpers that change it: two books *)
(* of which one is active, idle tokens, and the arms (USDG lent, NVDA as    *)
(* collateral, debt, bad debt). A helper takes a portfolio and gives the    *)
(* next one; env is the hour, with its tick, and p the parameters.          *)
(*                                                                         *)
(* cum holds what the present handler has added to the running totals: the  *)
(* totals themselves only grow and nothing reads them.                      *)
(***************************************************************************)
EXTENDS BookMath

Books == {0, 1}             \* book A and book B

NoFlow == [fees |-> 0, guardFees |-> 0, interest |-> 0, yield |-> 0, borrow |-> 0,
           gas |-> 0, switch |-> 0, swap |-> 0, loss |-> 0]

Price(env) == PriceAt[env.tick]

ArmEquity(arm, price) == arm.nvda * price + arm.lent - arm.debt - arm.bad

Nav(pf, t) ==
    pf.usdg + pf.nvda * PriceAt[t] + BookValue(pf.books[0], t) + BookValue(pf.books[1], t)
        + ArmEquity(pf.arm, PriceAt[t])

Mode(pf) ==
    IF pf.arm.nvda > 0 \/ pf.arm.debt > 0 \/ pf.arm.lent > 0 \/ pf.arm.bad > 0
    THEN "ARMS" ELSE "BOOKS"

CollateralRoom(pf, env, p) ==
    Monus(Least(p.armCap, (p.armRelBps * Positive(Nav(pf, env.tick))) \div BPS),
          pf.arm.nvda * Price(env))

LendRoom(pf, env, p) ==
    Monus(Least(p.lendCap, (p.lendRelBps * Positive(Nav(pf, env.tick))) \div BPS), pf.arm.lent)

\* Mutant: the debt there is does not count.
BorrowRoomAgain(pf, env, p) ==
    Least(Least(BorrowSize(pf.arm.nvda * Price(env), p), p.borrowLiquidity), p.maxBorrow)

\* What may still be borrowed against the collateral in place.
BorrowRoom(pf, env, p) ==
    Least(Least(Monus(BorrowSize(pf.arm.nvda * Price(env), p), pf.arm.debt),
                Monus(p.borrowLiquidity, pf.arm.debt)),
          p.maxBorrow)

Active(pf) == pf.books[pf.active]

-----------------------------------------------------------------------------
(* The initial portfolio.                                                           *)

BookTemplate(t, p) ==
    [deployed |-> FALSE, base |-> 0, guard |-> 0, present |-> FALSE, fees |-> 0,
     since |-> NoPull, entry |-> t,
     baseLo |-> t - p.baseWidth, baseHi |-> t + p.baseWidth,
     guardLo |-> t - p.guardWidth, guardHi |-> t + p.guardWidth]

Funded(b, base, guard) ==
    [b EXCEPT !.deployed = TRUE, !.base = base, !.guard = guard, !.present = TRUE]

InitialPortfolio(t, p) ==
    LET full  == Funded(BookTemplate(t, p), p.targetBase, p.targetGuard)
        start == IF p.policy = "always_b" THEN 1 ELSE p.startBook
        idle  == p.policy \in {"hodl", "always_arms"}
    IN  [active |-> start,
         books  |-> [i \in Books |-> IF i = start /\ ~idle THEN full ELSE BookTemplate(t, p)],
         usdg   |-> p.idle + (IF idle THEN BookUsdg(full, t) ELSE 0),
         nvda   |-> IF idle THEN BookNvda(full, t) ELSE 0,
         arm    |-> [nvda |-> 0, lent |-> 0, debt |-> 0, bad |-> 0],
         cum    |-> NoFlow]

-----------------------------------------------------------------------------
(* Gas, closing and funding a book, liquidation.                                    *)

\* From idle USDG, then the lend arm, then the fees of the books; what none of them can
\* pay is not paid.
PayGas(pf, gas) ==
    LET from(held, due) == IF due > 0 /\ held > 0 THEN Least(due, held) ELSE 0
        idle == from(pf.usdg, gas)
        lent == from(pf.arm.lent, gas - idle)
        a    == from(pf.books[0].fees, gas - idle - lent)
        b    == from(pf.books[1].fees, gas - idle - lent - a)
    IN  [pf EXCEPT !.usdg = @ - idle, !.arm.lent = @ - lent,
                   !.books[0].fees = @ - a, !.books[1].fees = @ - b,
                   !.cum.gas = @ + idle + lent + a + b]

\* Mutant: the fees are not collected.
CloseBookUncollected(pf, i, env) ==
    IF ~pf.books[i].deployed THEN pf
    ELSE [pf EXCEPT !.usdg = @ + BookUsdg(pf.books[i], env.tick),
                    !.nvda = @ + BookNvda(pf.books[i], env.tick),
                    !.books[i] = [@ EXCEPT !.deployed = FALSE, !.base = 0, !.guard = 0,
                                           !.present = FALSE, !.fees = 0, !.since = NoPull]]

\* Both ranges and the fees return to the idle tokens. The ranges stay where they were.
CloseBook(pf, i, env) ==
    LET b == pf.books[i]
    IN  IF ~b.deployed THEN pf
        ELSE [pf EXCEPT !.usdg = @ + BookUsdg(b, env.tick) + b.fees,
                        !.nvda = @ + BookNvda(b, env.tick),
                        !.books[i] = [b EXCEPT !.deployed = FALSE, !.base = 0, !.guard = 0,
                                               !.present = FALSE, !.fees = 0,
                                               !.since = NoPull]]

CeilDiv(n, d) == (n + d - 1) \div d

\* One token short and the other to spare: the shortfall is bought, whole, or nothing is.
\* What is sold on top of its value is the cost.
SwapDeficit(pf, usdgReq, nvdaReq, env, costBps) ==
    LET price == Price(env)
        net   == BPS - Least(costBps, (BPS * 99) \div 100)
        short == Monus(usdgReq, pf.usdg)
        lack  == Monus(nvdaReq, pf.nvda)
        sell  == CeilDiv(short * BPS, net * price)
        spend == CeilDiv(lack * price * BPS, net)
    IN  IF net * 100 <= BPS THEN pf
        ELSE IF short > 0 /\ pf.nvda > nvdaReq /\ sell <= pf.nvda - nvdaReq
        THEN [pf EXCEPT !.nvda = @ - sell, !.usdg = @ + short,
                        !.cum.swap = @ + sell * price - short]
        ELSE IF short = 0 /\ lack > 0 /\ pf.usdg > usdgReq /\ spend <= pf.usdg - usdgReq
        THEN [pf EXCEPT !.usdg = @ - spend, !.nvda = @ + lack,
                        !.cum.swap = @ + spend - lack * price]
        ELSE pf

\* Mutant: the entry price stays that of the first funding.
SizedAtOldEntry(pf, i, k, skew, env, p) ==
    LET t == env.tick
    IN  [Funded(pf.books[i], (p.targetBase * k) \div Grain, (p.targetGuard * k) \div Grain)
            EXCEPT !.baseLo = t + skew - p.baseWidth, !.baseHi = t + skew + p.baseWidth,
                   !.guardLo = t - p.guardWidth, !.guardHi = t + p.guardWidth,
                   !.fees = 0, !.since = NoPull]

\* A book of both targets scaled by k of Grain, its base off the market by skew.
Sized(pf, i, k, skew, env, p) ==
    LET t == env.tick
    IN  [Funded(pf.books[i], (p.targetBase * k) \div Grain, (p.targetGuard * k) \div Grain)
            EXCEPT !.baseLo = t + skew - p.baseWidth, !.baseHi = t + skew + p.baseWidth,
                   !.guardLo = t - p.guardWidth, !.guardHi = t + p.guardWidth,
                   !.entry = t, !.fees = 0, !.since = NoPull]

\* Mutant: one side decides.
ScaleOneSided(pf, i, skew, env, p, usdg, nvda, most) ==
    Max({0} \cup {k \in 1 .. most : BookUsdg(Sized(pf, i, k, skew, env, p), env.tick) <= usdg})

\* The largest scale, up to most, that the tokens can fill on both sides.
Scale(pf, i, skew, env, p, usdg, nvda, most) ==
    Max({0} \cup {k \in 1 .. most :
            LET b == Sized(pf, i, k, skew, env, p)
            IN  BookUsdg(b, env.tick) <= usdg /\ BookNvda(b, env.tick) <= nvda})

\* The offset of the base that deploys the most value, the smallest among equals.
BaseSkew(pf, i, env, p) ==
    LET value(o) == BookValue(Sized(pf, i, Scale(pf, i, o, env, p, pf.usdg, pf.nvda, Grain),
                                    o, env, p), env.tick)
        offsets  == -p.maxSkew .. p.maxSkew
        abs(o)   == Greatest(o, -o)
    IN  CHOOSE o \in offsets :
          \A q \in offsets : \/ value(q) < value(o)
                             \/ value(q) = value(o) /\ abs(o) < abs(q)
                             \/ value(q) = value(o) /\ abs(o) = abs(q) /\ o <= q

\* The book takes its tokens from held and becomes the active one. Gives its value too.
\* A scale of nothing places nothing.
Placed(held, i, skew, k, env, p) ==
    LET t    == env.tick
        book == Sized(held, i, k, skew, env, p)
    IN  IF k <= 0 THEN [pf |-> held, value |-> 0]
        ELSE [pf    |-> [held EXCEPT !.books[i] = book, !.active = i,
                                     !.usdg = @ - BookUsdg(book, t),
                                     !.nvda = @ - BookNvda(book, t)],
              value |-> BookValue(book, t)]

\* Funding of a book with the base off the market by skew, from the idle tokens: the part
\* fundBps of them as far as both sides reach, or that part of the target after buying what
\* is short.
FundSkewed(pf, i, skew, env, p) ==
    LET t       == env.tick
        full    == Sized(pf, i, Grain, skew, env, p)
        part(x) == Slice(x, p.fundBps)
        filled(held, usdg, nvda, most) ==
            Placed(held, i, skew, Scale(pf, i, skew, env, p, usdg, nvda, most), env, p)
        bought(held) == filled(held, held.usdg, held.nvda, part(Grain))
    IN  IF p.fundingMode = "swap"
        THEN bought(SwapDeficit(pf, part(BookUsdg(full, t)), part(BookNvda(full, t)), env,
                                p.swapCostBps))
        ELSE filled(pf, part(pf.usdg), part(pf.nvda), Grain)

FundBook(pf, i, env, p) ==
    FundSkewed(pf, i, IF p.maxSkew > 0 THEN BaseSkew(pf, i, env, p) ELSE 0, env, p)

\* At a health factor under one the debt is repaid from collateral at a bonus; what that
\* does not cover is taken from the lend arm, and the rest is carried as bad debt.
Liquidate(pf, env, p) ==
    LET arm    == pf.arm
        worth  == arm.nvda * Price(env)
        seized == Least(worth, (arm.debt * (BPS + p.bonusBps)) \div BPS)
        left   == Monus(arm.debt, (seized * BPS) \div (BPS + p.bonusBps))
        impair == Least(arm.lent, left)
        after  == [nvda |-> IF worth > 0 THEN (arm.nvda * (worth - seized)) \div worth ELSE 0,
                   lent |-> arm.lent - impair, debt |-> 0, bad |-> arm.bad + left - impair]
        loss   == ArmEquity(arm, Price(env)) - ArmEquity(after, Price(env))
    IN  IF arm.debt <= DustUsd \/ p.lltvBps * worth >= arm.debt * BPS THEN pf
        ELSE [pf EXCEPT !.arm = after, !.cum.loss = @ + Positive(loss)]
=============================================================================
