----------------------- MODULE AllocatorAccounts_proofs -----------------------
(***************************************************************************)
(* The accounts of the allocator, for every value of the constants: amounts *)
(* stay natural, debt stays covered, and every step books what it does.     *)
(***************************************************************************)
EXTENDS Allocator_proofs, SequenceTheorems

-----------------------------------------------------------------------------
(* Arithmetic.                                                                      *)

LEMMA Products ==
  ASSUME NEW a \in Int, NEW b \in Int, NEW c \in Int
  PROVE  /\ a * b \in Int /\ a * b = b * a
         /\ (a + b) * c = a * c + b * c /\ (a - b) * c = a * c - b * c
         /\ a * (b * c) = (a * b) * c
  OBVIOUS

LEMMA ProductNat ==
  ASSUME NEW a \in Nat, NEW b \in Nat
  PROVE  a * b \in Nat
  OBVIOUS

\* A product grows with its factors.
LEMMA ProductGrows ==
  ASSUME NEW a \in Nat, NEW b \in Nat, NEW c \in Nat, a <= b
  PROVE  a * c <= b * c
  OBVIOUS

\* A common factor cancels.
LEMMA ProductCancels ==
  ASSUME NEW a \in Int, NEW b \in Int, NEW c \in Nat \ {0}, a * c <= b * c
  PROVE  a <= b
  OBVIOUS

LEMMA DivFloor ==
  ASSUME NEW n \in Nat, NEW d \in Nat \ {0}
  PROVE  n \div d \in Nat /\ (n \div d) * d <= n /\ n < (n \div d) * d + d
  OBVIOUS

LEMMA DivInt ==
  ASSUME NEW n \in Int, NEW d \in Nat \ {0}
  PROVE  n \div d \in Int
  OBVIOUS

\* A share of an amount by a ratio of at most one is at most the amount.
LEMMA ShareBound ==
  ASSUME NEW x \in Nat, NEW a \in Nat, NEW d \in Nat \ {0}, a <= d
  PROVE  (x * a) \div d \in Nat /\ (x * a) \div d <= x
  <1>1. x * a \in Nat /\ a * x <= d * x /\ a * x = x * a /\ d * x = x * d
    BY ProductNat, ProductGrows, Products
  <1> DEFINE n == x * a
             k == n \div d
  <1>2. k \in Nat /\ k * d <= n
    BY <1>1, DivFloor
  <1>3. k * d <= x * d
    BY <1>1, <1>2
  <1> HIDE DEF n, k
  <1>4. k <= x
    BY <1>2, <1>3, ProductCancels
  <1> QED
    BY <1>2, <1>4 DEF k, n

LEMMA LeastMonus ==
  ASSUME NEW a \in Nat, NEW b \in Nat
  PROVE  /\ Least(a, b) \in Nat /\ Least(a, b) <= a /\ Least(a, b) <= b
         /\ Monus(a, b) \in Nat /\ Monus(a, b) <= a /\ a - b <= Monus(a, b)
         /\ Greatest(a, b) \in Nat
  BY DEF Least, Monus, Greatest

\* A slice is no more than the whole.
LEMMA SliceWithin ==
  ASSUME NEW x \in Nat, NEW bps \in Nat
  PROVE  Slice(x, bps) \in Nat /\ Slice(x, bps) <= x
  <1>1. Least(bps, BPS) \in Nat /\ Least(bps, BPS) <= BPS /\ BPS \in Nat \ {0}
    BY DustAssumption DEF Least
  <1> QED
    BY <1>1, ShareBound DEF Slice

\* Rounded up, a quotient times the divisor reaches the dividend.
LEMMA CeilReaches ==
  ASSUME NEW n \in Nat, NEW d \in Nat \ {0}
  PROVE  CeilDiv(n, d) \in Nat /\ n <= CeilDiv(n, d) * d
  <1>1. n + d - 1 \in Nat
    OBVIOUS
  <1> DEFINE m == n + d - 1
             k == m \div d
  <1>2. k \in Nat /\ m < k * d + d
    BY <1>1, DivFloor
  <1>3. k * d \in Nat
    BY <1>2, ProductNat
  <1> HIDE DEF k
  <1>4. n <= k * d
    BY <1>2, <1>3
  <1> QED
    BY <1>2, <1>4 DEF CeilDiv, k, m

-----------------------------------------------------------------------------
(* The constants.                                                                   *)

LEMMA Params ==
  ASSUME NEW p \in Configs
  PROVE  /\ p.idle \in Nat /\ p.baseWidth \in Nat /\ p.guardWidth \in Nat /\ p.feeA \in Nat
         /\ p.feeB \in Nat /\ p.ltv \in Nat /\ p.maxLtv \in Nat /\ p.hardCap \in Nat
         /\ p.morphoShare \in Nat /\ p.nvdaStep \in Nat /\ p.bookStep \in Nat
         /\ p.guardCooldown \in Nat /\ p.rearmDelay \in Nat /\ p.lendRate \in Nat
         /\ p.nvdaRate \in Nat /\ p.borrowRate \in Nat /\ p.armCap \in Nat
         /\ p.lendCap \in Nat /\ p.armRelBps \in Nat /\ p.lendRelBps \in Nat
         /\ p.borrowLiquidity \in Nat /\ p.maxBorrow \in Nat /\ p.lltvBps \in Nat \ {0}
         /\ p.minHealthBps \in Nat /\ p.deleverBps \in Nat /\ p.bonusBps \in Nat
         /\ p.gas \in Nat /\ p.recenterGas \in Nat /\ p.switchBps \in Nat
         /\ p.swapCostBps \in Nat /\ p.maxSkew \in Nat /\ p.reserveUsd \in Nat
         /\ p.reserveBps \in Nat /\ p.feeIlWindow \in Nat /\ p.feeIlConfirm \in Nat
         /\ p.oppWindow \in Nat /\ p.bVolumeHours \in Nat /\ p.warmup \in Nat
  BY ParametersAssumption DEF Sensible

LEMMA Targets ==
  ASSUME NEW p \in Configs
  PROVE  /\ p.targetBase \in Nat \ {0} /\ p.targetGuard \in Nat /\ p.fundBps \in Nat
         /\ p.startBook \in Books
  BY ConfigAssumption, TickAssumption

LEMMA Prices ==
  ASSUME NEW t \in DOMAIN PriceAt
  PROVE  t \in Int /\ PriceAt[t] \in Nat \ {0}
  BY HoursAssumption, PricesAssumption

LEMMA HourTypes ==
  ASSUME NEW h \in Hours
  PROVE  /\ h.tick \in DOMAIN PriceAt /\ h.tick \in Int
         /\ Price(h) \in Nat \ {0} /\ Price(h) = PriceAt[h.tick]
  BY HoursAssumption, PricesAssumption DEF Price

-----------------------------------------------------------------------------
(* Books.                                                                           *)

\* A book whose ranges are not inside out.
GoodBook == {b \in Book : b.baseLo <= b.baseHi /\ b.guardLo <= b.guardHi}

LEMMA RangeAmounts ==
  ASSUME NEW l \in Nat, NEW lo \in Int, NEW hi \in Int, lo <= hi, NEW t \in Int
  PROVE  /\ Usdg(l, lo, hi, t) \in Nat /\ Nvda(l, lo, hi, t) \in Nat
         /\ Usdg(0, lo, hi, t) = 0 /\ Nvda(0, lo, hi, t) = 0
  <1>1. /\ Clamp(t, lo, hi) \in Int /\ hi - Clamp(t, lo, hi) \in Nat
        /\ Clamp(t, lo, hi) - lo \in Nat
    BY DEF Clamp
  <1>2. UsdgPerTick \in Nat /\ NvdaPerTick \in Nat
    BY TickAssumption
  <1>3. l * UsdgPerTick \in Nat /\ l * NvdaPerTick \in Nat
    BY <1>2, ProductNat
  <1>4. Usdg(l, lo, hi, t) \in Nat /\ Nvda(l, lo, hi, t) \in Nat
    BY <1>1, <1>3, ProductNat DEF Usdg, Nvda
  <1> QED
    BY <1>1, <1>2, <1>4 DEF Usdg, Nvda

LEMMA BookAmounts ==
  ASSUME NEW b \in GoodBook, NEW t \in DOMAIN PriceAt
  PROVE  /\ GuardL(b) \in Nat
         /\ BookUsdg(b, t) \in Nat /\ BookNvda(b, t) \in Nat /\ BookValue(b, t) \in Nat
         /\ b.fees \in Nat
  <1>1. /\ GuardL(b) \in Nat /\ b.base \in Nat /\ b.fees \in Nat
        /\ b.baseLo \in Int /\ b.baseHi \in Int /\ b.baseLo <= b.baseHi
        /\ b.guardLo \in Int /\ b.guardHi \in Int /\ b.guardLo <= b.guardHi
    BY DEF GoodBook, Book, GuardL
  <1>2. t \in Int /\ PriceAt[t] \in Nat
    BY Prices
  <1>3. /\ Usdg(b.base, b.baseLo, b.baseHi, t) \in Nat
        /\ Nvda(b.base, b.baseLo, b.baseHi, t) \in Nat
        /\ Usdg(GuardL(b), b.guardLo, b.guardHi, t) \in Nat
        /\ Nvda(GuardL(b), b.guardLo, b.guardHi, t) \in Nat
    BY <1>1, <1>2, RangeAmounts
  <1>4. BookUsdg(b, t) \in Nat /\ BookNvda(b, t) \in Nat
    BY <1>3 DEF BookUsdg, BookNvda
  <1>5. BookNvda(b, t) * PriceAt[t] \in Nat
    BY <1>2, <1>4, ProductNat
  <1> QED
    BY <1>1, <1>4, <1>5 DEF BookValue

-----------------------------------------------------------------------------
(* Portfolios.                                                                      *)

Arm  == [nvda : Nat, lent : Nat, debt : Nat, bad : Nat]
Flows == [DOMAIN NoFlow -> Nat]
Portfolios == [active : Books, books : [Books -> GoodBook], usdg : Nat, nvda : Nat,
               arm : Arm, cum : Flows]

FlowNames == {"fees", "guardFees", "interest", "yield", "borrow", "gas", "switch", "swap", "loss"}

LEMMA FlowDomain == DOMAIN NoFlow = FlowNames /\ NoFlow \in Flows /\ Flow(NoFlow) = 0
  BY DEF NoFlow, FlowNames, Flows, Flow

\* A portfolio of other parts.
With(q, i, u, n, A, B, C) ==
    [q EXCEPT !.active = i, !.usdg = u, !.nvda = n, !.arm = A, !.books = B, !.cum = C]

\* NAV, less what the books of account say of the present handler.
Ledger(q, t) == Nav(q, t) - Flow(q.cum)

\* The step from q to r creates no value that is not recorded, and loses none.
Even(q, r, t) == r \in Portfolios /\ Ledger(r, t) = Ledger(q, t)

\* What lending and holding collateral is judged by is as it was.
SamePledge(q, r) == r.arm.nvda = q.arm.nvda /\ r.arm.debt = q.arm.debt

\* None of the flows that count as income moved.
Incomes == {"fees", "interest", "yield", "borrow"}
SameIncome(q, r) == \A f \in Incomes : r.cum[f] = q.cum[f]

\* A step that is even, and moves neither the debt and its collateral nor the income.
Accounted(q, r, t) == Even(q, r, t) /\ SamePledge(q, r) /\ SameIncome(q, r)

LEMMA Parts0 ==
  ASSUME NEW q \in Portfolios
  PROVE  /\ q.active \in Books /\ q.usdg \in Nat /\ q.nvda \in Nat
         /\ q.arm \in Arm /\ q.arm.nvda \in Nat /\ q.arm.lent \in Nat
         /\ q.arm.debt \in Nat /\ q.arm.bad \in Nat
         /\ q.books \in [Books -> GoodBook] /\ q.books[0] \in GoodBook
         /\ q.books[1] \in GoodBook
         /\ q.cum \in Flows /\ \A f \in FlowNames : q.cum[f] \in Nat
  BY FlowDomain DEF Portfolios, Arm, Flows, Books

LEMMA WithParts ==
  ASSUME NEW q \in Portfolios, NEW i \in Books, NEW u \in Nat, NEW n \in Nat,
         NEW A \in Arm, NEW B \in [Books -> GoodBook], NEW C \in Flows
  PROVE  LET r == With(q, i, u, n, A, B, C)
         IN  /\ r \in Portfolios
             /\ r.active = i /\ r.usdg = u /\ r.nvda = n /\ r.arm = A
             /\ r.books = B /\ r.cum = C
  BY DEF With, Portfolios

\* NAV in integers: what is idle, what the books are worth, and the arms.
LEMMA NavTypes ==
  ASSUME NEW q \in Portfolios, NEW t \in DOMAIN PriceAt
  PROVE  /\ q.nvda * PriceAt[t] \in Nat /\ q.arm.nvda * PriceAt[t] \in Nat
         /\ BookValue(q.books[0], t) \in Nat /\ BookValue(q.books[1], t) \in Nat
         /\ ArmEquity(q.arm, PriceAt[t]) \in Int /\ Nav(q, t) \in Int
         /\ Flow(q.cum) \in Int /\ Ledger(q, t) \in Int
  <1>1. PriceAt[t] \in Nat
    BY Prices
  <1>2. q.nvda * PriceAt[t] \in Nat /\ q.arm.nvda * PriceAt[t] \in Nat
    BY <1>1, Parts0, ProductNat
  <1>3. BookValue(q.books[0], t) \in Nat /\ BookValue(q.books[1], t) \in Nat
    BY Parts0, BookAmounts
  <1>4. ArmEquity(q.arm, PriceAt[t]) \in Int
    BY <1>2, Parts0 DEF ArmEquity
  <1>5. Nav(q, t) \in Int
    BY <1>2, <1>3, <1>4, Parts0 DEF Nav
  <1>6. Flow(q.cum) \in Int
    BY Parts0 DEF Flow, FlowNames
  <1> QED
    BY <1>2, <1>3, <1>4, <1>5, <1>6 DEF Ledger

\* The ledger balances when the parts do.
LEMMA WithEven ==
  ASSUME NEW q \in Portfolios, NEW t \in DOMAIN PriceAt,
         NEW i \in Books, NEW u \in Nat, NEW n \in Nat, NEW A \in Arm, NEW B \in [Books -> GoodBook],
         NEW C \in Flows,
         (u + n * PriceAt[t] + BookValue(B[0], t) + BookValue(B[1], t)
               + ArmEquity(A, PriceAt[t])) - Flow(C) = Ledger(q, t)
  PROVE  Even(q, With(q, i, u, n, A, B, C), t)
  <1> DEFINE r == With(q, i, u, n, A, B, C)
  <1>1. /\ r \in Portfolios /\ r.usdg = u /\ r.nvda = n /\ r.arm = A /\ r.books = B
        /\ r.cum = C
    BY WithParts
  <1> HIDE DEF r
  <1>2. Ledger(r, t) = (u + n * PriceAt[t] + BookValue(B[0], t) + BookValue(B[1], t)
                             + ArmEquity(A, PriceAt[t])) - Flow(C)
    BY <1>1 DEF Ledger, Nav
  <1> QED
    BY <1>1, <1>2 DEF Even, r

\* A book with other fees is worth the difference.
LEMMA OtherFees ==
  ASSUME NEW b \in GoodBook, NEW f \in Nat, NEW t \in DOMAIN PriceAt
  PROVE  LET c == [b EXCEPT !.fees = f]
         IN  /\ c \in GoodBook
             /\ BookValue(c, t) = BookValue(b, t) + f - b.fees
  <1> DEFINE c == [b EXCEPT !.fees = f]
  <1>1. c \in GoodBook /\ c.fees = f
    BY DEF GoodBook, Book
  <1>2. /\ c.deployed = b.deployed /\ c.base = b.base /\ c.baseLo = b.baseLo
        /\ c.baseHi = b.baseHi /\ c.guard = b.guard /\ c.present = b.present
        /\ c.guardLo = b.guardLo /\ c.guardHi = b.guardHi
    BY DEF GoodBook, Book
  <1> HIDE DEF c
  <1>3. BookUsdg(c, t) = BookUsdg(b, t) /\ BookNvda(c, t) = BookNvda(b, t)
    BY <1>2 DEF BookUsdg, BookNvda, GuardL
  <1>4. BookUsdg(b, t) \in Nat /\ BookNvda(b, t) * PriceAt[t] \in Nat /\ b.fees \in Nat
    BY BookAmounts, Prices, ProductNat
  <1>5. BookValue(c, t) = BookValue(b, t) + f - b.fees
    BY <1>1, <1>3, <1>4 DEF BookValue
  <1> QED BY <1>1, <1>5 DEF c

\* A step that changes one book, the idle tokens and the flows.
LEMMA BookStep ==
  ASSUME NEW q \in Portfolios, NEW t \in DOMAIN PriceAt,
         NEW k \in Books, NEW i \in Books, NEW u \in Nat, NEW n \in Nat,
         NEW c \in GoodBook, NEW C \in Flows,
         (u + n * PriceAt[t] + BookValue(c, t)) - Flow(C)
            = (q.usdg + q.nvda * PriceAt[t] + BookValue(q.books[i], t)) - Flow(q.cum)
  PROVE  Even(q, With(q, k, u, n, q.arm, [q.books EXCEPT ![i] = c], C), t)
  <1> DEFINE B == [q.books EXCEPT ![i] = c]
  <1>1. /\ B \in [Books -> GoodBook]
        /\ BookValue(B[0], t) + BookValue(B[1], t)
             = (BookValue(q.books[0], t) + BookValue(q.books[1], t) + BookValue(c, t))
                 - BookValue(q.books[i], t)
    <2>1. /\ i \in {0, 1} /\ q.books \in [{0, 1} -> GoodBook]
          /\ BookValue(q.books[0], t) \in Nat /\ BookValue(q.books[1], t) \in Nat
          /\ BookValue(c, t) \in Nat
      BY Parts0, NavTypes, BookAmounts DEF Books
    <2>2. CASE i = 0
      <3>1. B[0] = c /\ B[1] = q.books[1]
        BY <2>1, <2>2
      <3> QED BY <2>1, <2>2, <3>1 DEF Books
    <2>3. CASE i = 1
      <3>1. B[0] = q.books[0] /\ B[1] = c
        BY <2>1, <2>3
      <3> QED BY <2>1, <2>3, <3>1 DEF Books
    <2> QED BY <2>1, <2>2, <2>3
  <1> HIDE DEF B
  <1>2. /\ q.nvda * PriceAt[t] \in Nat /\ BookValue(q.books[0], t) \in Nat
        /\ BookValue(q.books[1], t) \in Nat /\ ArmEquity(q.arm, PriceAt[t]) \in Int
        /\ Flow(q.cum) \in Int /\ BookValue(q.books[i], t) \in Nat /\ q.usdg \in Nat
        /\ q.arm \in Arm /\ PriceAt[t] \in Nat /\ n * PriceAt[t] \in Nat
    BY NavTypes, Parts0, Prices, BookAmounts, ProductNat DEF Books
  <1>3. BookValue(B[0], t) \in Nat /\ BookValue(B[1], t) \in Nat /\ BookValue(c, t) \in Nat
        /\ Flow(C) \in Int
    <2>1. B[0] \in GoodBook /\ B[1] \in GoodBook
      BY <1>1 DEF Books
    <2>2. \A f \in FlowNames : C[f] \in Nat
      BY FlowDomain DEF Flows
    <2> QED BY <2>1, <2>2, BookAmounts DEF Flow, FlowNames
  <1>4. (u + n * PriceAt[t] + BookValue(B[0], t) + BookValue(B[1], t)
               + ArmEquity(q.arm, PriceAt[t])) - Flow(C) = Ledger(q, t)
    <2>1. Ledger(q, t) = (q.usdg + q.nvda * PriceAt[t] + BookValue(q.books[0], t)
                           + BookValue(q.books[1], t) + ArmEquity(q.arm, PriceAt[t]))
                          - Flow(q.cum)
      BY DEF Ledger, Nav
    <2> DEFINE x == n * PriceAt[t]
               y == q.nvda * PriceAt[t]
               m == ArmEquity(q.arm, PriceAt[t])
               v == BookValue(c, t)
               w == BookValue(q.books[i], t)
               v0 == BookValue(q.books[0], t)
               v1 == BookValue(q.books[1], t)
               w0 == BookValue(B[0], t)
               w1 == BookValue(B[1], t)
               F == Flow(C)
               G == Flow(q.cum)
               a == q.usdg
    <2>2. /\ (u + x + v) - F = (a + y + w) - G
          /\ w0 + w1 = (v0 + v1 + v) - w
          /\ Ledger(q, t) = (a + y + v0 + v1 + m) - G
      BY <1>1, <2>1
    <2>3. /\ x \in Int /\ y \in Int /\ m \in Int /\ v \in Int /\ w \in Int /\ v0 \in Int
          /\ v1 \in Int /\ w0 \in Int /\ w1 \in Int /\ F \in Int /\ G \in Int /\ a \in Int
      BY <1>2, <1>3
    <2> HIDE DEF x, y, m, v, w, v0, v1, w0, w1, F, G, a
    <2>4. (u + x + w0 + w1 + m) - F = (a + y + v0 + v1 + m) - G
      BY <2>2, <2>3
    <2> QED BY <2>2, <2>4 DEF x, w0, w1, m, F
  <1> QED
    BY <1>1, <1>2, <1>4, WithEven DEF B

\* A step that changes the arms, the idle tokens and the flows.
LEMMA ArmStep ==
  ASSUME NEW q \in Portfolios, NEW t \in DOMAIN PriceAt,
         NEW u \in Nat, NEW n \in Nat, NEW A \in Arm, NEW C \in Flows,
         (u + n * PriceAt[t] + ArmEquity(A, PriceAt[t])) - Flow(C)
            = (q.usdg + q.nvda * PriceAt[t] + ArmEquity(q.arm, PriceAt[t])) - Flow(q.cum)
  PROVE  Even(q, With(q, q.active, u, n, A, q.books, C), t)
  <1>1. /\ q.nvda * PriceAt[t] \in Nat /\ BookValue(q.books[0], t) \in Nat
        /\ BookValue(q.books[1], t) \in Nat /\ ArmEquity(q.arm, PriceAt[t]) \in Int
        /\ Flow(q.cum) \in Int /\ q.usdg \in Nat /\ q.active \in Books
        /\ q.books \in [Books -> GoodBook] /\ PriceAt[t] \in Nat /\ n * PriceAt[t] \in Nat
    BY NavTypes, Parts0, Prices, ProductNat
  <1>2. ArmEquity(A, PriceAt[t]) \in Int /\ Flow(C) \in Int
    <2>1. \A f \in FlowNames : C[f] \in Nat
      BY FlowDomain DEF Flows
    <2>2. A.nvda \in Nat /\ A.lent \in Nat /\ A.debt \in Nat /\ A.bad \in Nat
      BY DEF Arm
    <2>3. A.nvda * PriceAt[t] \in Nat
      BY <1>1, <2>2, ProductNat
    <2> QED BY <2>1, <2>2, <2>3 DEF Flow, FlowNames, ArmEquity
  <1>3. (u + n * PriceAt[t] + BookValue(q.books[0], t) + BookValue(q.books[1], t)
               + ArmEquity(A, PriceAt[t])) - Flow(C) = Ledger(q, t)
    <2>1. Ledger(q, t) = (q.usdg + q.nvda * PriceAt[t] + BookValue(q.books[0], t)
                           + BookValue(q.books[1], t) + ArmEquity(q.arm, PriceAt[t]))
                          - Flow(q.cum)
      BY DEF Ledger, Nav
    <2> DEFINE x == n * PriceAt[t]
               y == q.nvda * PriceAt[t]
               m == ArmEquity(q.arm, PriceAt[t])
               k == ArmEquity(A, PriceAt[t])
               v0 == BookValue(q.books[0], t)
               v1 == BookValue(q.books[1], t)
               F == Flow(C)
               G == Flow(q.cum)
               a == q.usdg
    <2>2. /\ (u + x + k) - F = (a + y + m) - G
          /\ Ledger(q, t) = (a + y + v0 + v1 + m) - G
      BY <1>1, <2>1
    <2>3. /\ x \in Int /\ y \in Int /\ m \in Int /\ k \in Int /\ v0 \in Int
          /\ v1 \in Int /\ F \in Int /\ G \in Int /\ a \in Int
      BY <1>1, <1>2
    <2>4. u \in Int
      BY <1>1
    <2> DEFINE p == u + x + k
               g == a + y + m
    <2>5. /\ p \in Int /\ g \in Int /\ p - F = g - G
          /\ u + x + v0 + v1 + k = p + v0 + v1 /\ a + y + v0 + v1 + m = g + v0 + v1
      <3> HIDE DEF x, y, m, k, v0, v1, F, G, a
      <3> QED BY <2>2, <2>3, <2>4
    <2> HIDE DEF x, y, m, k, v0, v1, F, G, a, p, g
    <2>6. (p + v0 + v1) - F = (g + v0 + v1) - G
      BY <2>3, <2>5
    <2>7. (u + x + v0 + v1 + k) - F = (a + y + v0 + v1 + m) - G
      BY <2>5, <2>6
    <2> QED BY <2>2, <2>7 DEF x, v0, v1, k, F
  <1> QED
    BY <1>1, <1>3, WithEven

-----------------------------------------------------------------------------
(* Gas.                                                                             *)

\* Gas is paid from what there is, and the payment is recorded.
LEMMA PayGasEven ==
  ASSUME NEW q \in Portfolios, NEW gas \in Nat, NEW t \in DOMAIN PriceAt
  PROVE  LET r == PayGas(q, gas)
         IN  /\ Even(q, r, t) /\ SamePledge(q, r) /\ SameIncome(q, r)
             /\ r.usdg <= q.usdg /\ r.cum.switch = q.cum.switch
  <1> DEFINE from(held, due) == IF due > 0 /\ held > 0 THEN Least(due, held) ELSE 0
             idle == from(q.usdg, gas)
             lent == from(q.arm.lent, gas - idle)
             a == from(q.books[0].fees, gas - idle - lent)
             b == from(q.books[1].fees, gas - idle - lent - a)
             A == [q.arm EXCEPT !.lent = @ - lent]
             b0 == [q.books[0] EXCEPT !.fees = q.books[0].fees - a]
             b1 == [q.books[1] EXCEPT !.fees = q.books[1].fees - b]
             B == [q.books EXCEPT ![0] = b0, ![1] = b1]
             C == [q.cum EXCEPT !.gas = @ + idle + lent + a + b]
             u == q.usdg - idle
             n == q.nvda
             i == q.active
             r == With(q, i, u, n, A, B, C)
             s == [q EXCEPT !.usdg = @ - idle, !.arm.lent = @ - lent,
                            !.books[0].fees = @ - a, !.books[1].fees = @ - b,
                            !.cum.gas = @ + idle + lent + a + b]
  <1>1. /\ q.usdg \in Nat /\ q.arm.lent \in Nat /\ q.nvda \in Nat
        /\ q.books[0].fees \in Nat /\ q.books[1].fees \in Nat
    BY Parts0, BookAmounts
  <1>2. idle \in Nat /\ idle <= q.usdg /\ lent \in Nat /\ lent <= q.arm.lent
    BY <1>1 DEF Least
  <1>3. a \in Nat /\ a <= q.books[0].fees
    <2> HIDE DEF idle, lent
    <2> QED BY <1>1, <1>2 DEF Least
  <1>4. b \in Nat /\ b <= q.books[1].fees
    <2> HIDE DEF idle, lent, a
    <2> QED BY <1>1, <1>2, <1>3 DEF Least
  <1>5. PayGas(q, gas) = s
    BY DEF PayGas
  <1> HIDE DEF idle, lent, a, b
  <1>6. s = r
    <2>1. s = [q EXCEPT !.usdg = u, !.arm = A, !.books = B, !.cum = C]
      BY Zenon DEF Portfolios, Books
    <2> HIDE DEF A, B, C, u, s
    <2>2. r = [q EXCEPT !.usdg = u, !.arm = A, !.books = B, !.cum = C]
      BY DEF With, Portfolios
    <2> QED BY <2>1, <2>2
  <1> HIDE DEF s
  <1>7. A \in Arm /\ A.lent = q.arm.lent - lent /\ A.nvda = q.arm.nvda
        /\ A.debt = q.arm.debt /\ A.bad = q.arm.bad
    BY <1>2, Parts0 DEF Arm
  <1>8. /\ b0 \in GoodBook /\ BookValue(b0, t) = BookValue(q.books[0], t) - a
        /\ b1 \in GoodBook /\ BookValue(b1, t) = BookValue(q.books[1], t) - b
    <2>1. q.books[0].fees - a \in Nat /\ q.books[1].fees - b \in Nat
      BY <1>1, <1>3, <1>4
    <2>2. q.books[0] \in GoodBook /\ q.books[1] \in GoodBook
      BY Parts0
    <2>3. /\ b0 \in GoodBook
          /\ BookValue(b0, t) = BookValue(q.books[0], t) + (q.books[0].fees - a) - q.books[0].fees
          /\ b1 \in GoodBook
          /\ BookValue(b1, t) = BookValue(q.books[1], t) + (q.books[1].fees - b) - q.books[1].fees
      BY <2>1, <2>2, OtherFees
    <2>4. BookValue(q.books[0], t) \in Nat /\ BookValue(q.books[1], t) \in Nat
      BY <2>2, BookAmounts
    <2> HIDE DEF b0, b1
    <2> QED BY <1>1, <1>3, <1>4, <2>3, <2>4
  <1>9. B \in [Books -> GoodBook] /\ B[0] = b0 /\ B[1] = b1
    <2> HIDE DEF b0, b1
    <2> QED BY <1>8, Parts0 DEF Books
  <1>10. /\ C \in Flows /\ Flow(C) = Flow(q.cum) - (idle + lent + a + b)
         /\ \A f \in FlowNames \ {"gas"} : C[f] = q.cum[f]
    BY <1>2, <1>3, <1>4, Parts0, FlowDomain DEF Flows, FlowNames, Flow
  <1>11. u \in Nat /\ u <= q.usdg
    BY <1>1, <1>2
  <1>12. ArmEquity(A, PriceAt[t]) = ArmEquity(q.arm, PriceAt[t]) - lent
    <2>1. q.arm.nvda * PriceAt[t] \in Nat
      BY NavTypes
    <2> HIDE DEF A
    <2> QED BY <1>2, <1>7, <2>1, Parts0 DEF ArmEquity
  <1>13. (u + n * PriceAt[t] + BookValue(B[0], t) + BookValue(B[1], t)
               + ArmEquity(A, PriceAt[t])) - Flow(C) = Ledger(q, t)
    <2>1. /\ q.nvda * PriceAt[t] \in Nat /\ BookValue(q.books[0], t) \in Nat
          /\ BookValue(q.books[1], t) \in Nat /\ ArmEquity(q.arm, PriceAt[t]) \in Int
          /\ Flow(q.cum) \in Int
      BY NavTypes
    <2> HIDE DEF A, B, C, b0, b1
    <2>2. Ledger(q, t) = (q.usdg + q.nvda * PriceAt[t] + BookValue(q.books[0], t)
                           + BookValue(q.books[1], t) + ArmEquity(q.arm, PriceAt[t]))
                          - Flow(q.cum)
      BY DEF Ledger, Nav
    <2> QED BY <1>1, <1>2, <1>3, <1>4, <1>8, <1>9, <1>10, <1>12, <2>1, <2>2
  <1> HIDE DEF A, B, C, u
  <1>14. Even(q, r, t) /\ r.usdg = u /\ r.arm = A /\ r.cum = C
    <2>1. i \in Books /\ n \in Nat /\ A \in Arm /\ B \in [Books -> GoodBook] /\ C \in Flows /\ u \in Nat
      BY <1>1, <1>7, <1>9, <1>10, <1>11, Parts0
    <2> HIDE DEF n, i
    <2>2. Even(q, r, t)
      BY <2>1, <1>13, WithEven
    <2>3. r.usdg = u /\ r.arm = A /\ r.cum = C
      BY <2>1, WithParts
    <2> QED
      BY <2>2, <2>3
  <1> HIDE DEF r
  <1> QED
    BY <1>5, <1>6, <1>7, <1>10, <1>11, <1>14 DEF SamePledge, SameIncome, Incomes, FlowNames

LEMMA AccountedTransitive ==
  ASSUME NEW t, NEW q, NEW r, NEW s, Accounted(q, r, t), Accounted(r, s, t)
  PROVE  Accounted(q, s, t)
  BY DEF Accounted, Even, SamePledge, SameIncome

LEMMA AccountedSelf ==
  ASSUME NEW t, NEW q \in Portfolios
  PROVE  Accounted(q, q, t)
  BY DEF Accounted, Even, SamePledge, SameIncome

-----------------------------------------------------------------------------
(* Closing a book, and buying what is short.                                        *)

\* An empty book is worth nothing.
LEMMA EmptyBook ==
  ASSUME NEW b \in GoodBook, ~b.deployed, b.fees = 0, NEW t \in DOMAIN PriceAt
  PROVE  BookValue(b, t) = 0
  <1>1. BookUsdg(b, t) = 0 /\ BookNvda(b, t) = 0 /\ PriceAt[t] \in Nat
    BY Prices DEF BookUsdg, BookNvda
  <1> QED BY <1>1 DEF BookValue

\* What a book held and had earned is idle once it is closed.
LEMMA CloseBookAccounted ==
  ASSUME NEW q \in Portfolios, NEW i \in Books, NEW e \in Hours
  PROVE  Accounted(q, CloseBook(q, i, e), e.tick)
  <1> DEFINE t == e.tick
             b == q.books[i]
             c == [b EXCEPT !.deployed = FALSE, !.base = 0, !.guard = 0, !.present = FALSE,
                            !.fees = 0, !.since = NoPull]
             u == q.usdg + BookUsdg(b, t) + b.fees
             n == q.nvda + BookNvda(b, t)
             r == CloseBook(q, i, e)
  <1>1. t \in DOMAIN PriceAt /\ PriceAt[t] \in Nat
    BY HourTypes, Prices
  <1>2. /\ b \in GoodBook /\ q.usdg \in Nat /\ q.nvda \in Nat /\ q.arm \in Arm
        /\ q.cum \in Flows /\ q.active \in Books
    BY Parts0 DEF Books
  <1> HIDE DEF t
  <1>3. CASE ~b.deployed
    <2>1. r = q
      BY <1>3 DEF CloseBook
    <2> QED BY <2>1, AccountedSelf DEF t
  <1>4. CASE b.deployed
    <2>1. c \in GoodBook /\ ~c.deployed /\ c.fees = 0
      BY <1>2 DEF GoodBook, Book
    <2>2. BookValue(c, t) = 0
      BY <1>1, <2>1, EmptyBook
    <2>3. BookUsdg(b, t) \in Nat /\ BookNvda(b, t) \in Nat /\ b.fees \in Nat
      BY <1>1, <1>2, BookAmounts
    <2>4. r = [q EXCEPT !.usdg = u, !.nvda = n, !.books = [q.books EXCEPT ![i] = c]]
      BY <1>4, Zenon DEF CloseBook, t
    <2> DEFINE B == [q.books EXCEPT ![i] = c]
    <2> HIDE DEF c
    <2>5. u \in Nat /\ n \in Nat
      BY <1>2, <2>3
    <2>6. n * PriceAt[t] = q.nvda * PriceAt[t] + BookNvda(b, t) * PriceAt[t]
      <3> DEFINE o == q.nvda
                 m == BookNvda(b, t)
                 P == PriceAt[t]
      <3>1. o \in Int /\ m \in Int /\ P \in Int
        BY <1>1, <1>2, <2>3
      <3> HIDE DEF o, m, P
      <3>2. (o + m) * P = o * P + m * P
        BY <3>1, Products
      <3> QED BY <3>2 DEF o, m, P
    <2>7. (u + n * PriceAt[t] + BookValue(c, t)) - Flow(q.cum)
            = (q.usdg + q.nvda * PriceAt[t] + BookValue(b, t)) - Flow(q.cum)
      <3>1. /\ q.nvda * PriceAt[t] \in Nat /\ BookNvda(b, t) * PriceAt[t] \in Nat
            /\ Flow(q.cum) \in Int
        BY <1>1, <1>2, <2>3, ProductNat, NavTypes
      <3>2. BookValue(b, t) = b.fees + BookUsdg(b, t) + BookNvda(b, t) * PriceAt[t]
        BY DEF BookValue
      <3> DEFINE x == q.nvda * PriceAt[t]
                 y == BookNvda(b, t) * PriceAt[t]
                 z == n * PriceAt[t]
      <3>3. x \in Nat /\ y \in Nat /\ z = x + y
            /\ BookValue(b, t) = b.fees + BookUsdg(b, t) + y
        BY <2>6, <3>1, <3>2
      <3> HIDE DEF x, y, z, b, n
      <3>4. (u + z + BookValue(c, t)) - Flow(q.cum)
              = (q.usdg + x + BookValue(b, t)) - Flow(q.cum)
        BY <1>2, <2>2, <2>3, <3>1, <3>3
      <3> QED BY <3>4 DEF x, z
    <2> HIDE DEF b, u, n, r
    <2>8. Even(q, With(q, q.active, u, n, q.arm, B, q.cum), t)
      BY <1>1, <1>2, <2>1, <2>5, <2>7, BookStep DEF b
    <2>9. r = With(q, q.active, u, n, q.arm, B, q.cum)
      <3> HIDE DEF B
      <3> QED BY <2>4, Zenon DEF With, Portfolios, B
    <2>10. r.arm = q.arm /\ r.cum = q.cum
      <3>1. B \in [Books -> GoodBook]
        BY <2>1, Parts0
      <3> HIDE DEF B
      <3> QED BY <1>2, <2>5, <2>9, <3>1, WithParts
    <2> QED
      BY <2>8, <2>9, <2>10 DEF Accounted, SamePledge, SameIncome, r, t
  <1> QED BY <1>3, <1>4

\* Idle tokens exchanged at a cost.
Exchanged(q, u, n, g, t) == u + n * PriceAt[t] + g = q.usdg + q.nvda * PriceAt[t]
Traded(q, r, u, n, g) == r = [q EXCEPT !.nvda = n, !.usdg = u, !.cum.swap = @ + g]

LEMMA TradeAccounted ==
  ASSUME NEW q \in Portfolios, NEW t \in DOMAIN PriceAt, NEW u \in Nat, NEW n \in Nat,
         NEW g \in Nat, Exchanged(q, u, n, g, t),
         NEW r, Traded(q, r, u, n, g)
  PROVE  Accounted(q, r, t) /\ r.books = q.books /\ r.active = q.active
  <1> DEFINE C == [q.cum EXCEPT !.swap = @ + g]
  <1>1. /\ q.usdg \in Nat /\ q.arm \in Arm /\ q.books \in [Books -> GoodBook]
        /\ q.cum \in Flows /\ q.active \in Books /\ q.nvda \in Nat
    BY Parts0
  <1>2. /\ C \in Flows /\ Flow(C) = Flow(q.cum) - g
        /\ \A f \in FlowNames \ {"swap"} : C[f] = q.cum[f]
    BY Parts0, FlowDomain DEF Flows, FlowNames, Flow
  <1>3. r = With(q, q.active, u, n, q.arm, q.books, C)
    <2> DEFINE s == [q EXCEPT !.nvda = n, !.usdg = u, !.cum.swap = @ + g]
    <2>1. s = With(q, q.active, u, n, q.arm, q.books, C)
      BY Zenon DEF With, Portfolios
    <2> HIDE DEF C
    <2> QED BY <2>1 DEF Traded
  <1>4. (u + n * PriceAt[t] + ArmEquity(q.arm, PriceAt[t])) - Flow(C)
          = (q.usdg + q.nvda * PriceAt[t] + ArmEquity(q.arm, PriceAt[t])) - Flow(q.cum)
    <2> DEFINE x == n * PriceAt[t]
               y == q.nvda * PriceAt[t]
    <2>1. /\ x \in Int /\ y \in Int /\ u + x + g = q.usdg + y
          /\ ArmEquity(q.arm, PriceAt[t]) \in Int /\ Flow(q.cum) \in Int
      BY NavTypes, Prices, ProductNat DEF Exchanged
    <2> HIDE DEF x, y, C
    <2>2. (u + x + ArmEquity(q.arm, PriceAt[t])) - Flow(C)
            = (q.usdg + y + ArmEquity(q.arm, PriceAt[t])) - Flow(q.cum)
      BY <1>1, <1>2, <2>1, Z3
    <2> QED BY <2>2 DEF x, y
  <1> HIDE DEF C
  <1>5. Even(q, r, t)
    BY <1>1, <1>2, <1>3, <1>4, ArmStep
  <1>6. r.arm = q.arm /\ r.cum = C /\ r.books = q.books /\ r.active = q.active
    <2> DEFINE w == With(q, q.active, u, n, q.arm, q.books, C)
    <2>1. w.arm = q.arm /\ w.cum = C /\ w.books = q.books /\ w.active = q.active
      BY <1>1, <1>2, WithParts
    <2>2. r = w
      BY <1>3
    <2> HIDE DEF w
    <2> QED BY <2>1, <2>2
  <1> QED
    BY <1>2, <1>5, <1>6 DEF Accounted, SamePledge, SameIncome, Incomes, FlowNames

\* What is sold is worth what it buys, and its cost.
LEMMA SellCovers ==
  ASSUME NEW short \in Nat, NEW net \in Nat \ {0}, net <= BPS, NEW price \in Nat \ {0}
  PROVE  /\ CeilDiv(short * BPS, net * price) \in Nat
         /\ short <= CeilDiv(short * BPS, net * price) * price
  <1>1. BPS \in Nat /\ short * BPS \in Nat
    BY DustAssumption, ProductNat
  <1>2. net * price \in Nat \ {0}
    OBVIOUS
  <1> DEFINE k == CeilDiv(short * BPS, net * price)
  <1>3. k \in Nat /\ short * BPS <= k * (net * price)
    <2> DEFINE m == short * BPS
               d == net * price
    <2>1. m \in Nat /\ d \in Nat \ {0}
      BY <1>1, <1>2
    <2> HIDE DEF m, d
    <2>2. CeilDiv(m, d) \in Nat /\ m <= CeilDiv(m, d) * d
      BY <2>1, CeilReaches
    <2> QED BY <2>2 DEF m, d
  <1> HIDE DEF k
  <1>4. k * (net * price) = (k * price) * net
    BY <1>3
  <1>5. short * net <= short * BPS
    BY <1>1
  <1>6. short * net <= (k * price) * net
    <2> DEFINE x == short * net
               y == short * BPS
               z == (k * price) * net
    <2>1. x <= y /\ y <= z /\ x \in Int /\ y \in Int /\ z \in Int
      BY <1>1, <1>3, <1>4, <1>5
    <2> HIDE DEF x, y, z
    <2>2. x <= z
      BY <2>1
    <2> QED BY <2>2 DEF x, z
  <1>7. k * price \in Int
    BY <1>3
  <1>8. short <= k * price
    BY <1>6, <1>7, ProductCancels
  <1> QED BY <1>3, <1>8 DEF k

\* So is what is spent.
LEMMA SpendCovers ==
  ASSUME NEW worth \in Nat, NEW net \in Nat \ {0}, net <= BPS
  PROVE  CeilDiv(worth * BPS, net) \in Nat /\ worth <= CeilDiv(worth * BPS, net)
  <1>1. BPS \in Nat /\ worth * BPS \in Nat
    BY DustAssumption, ProductNat
  <1> DEFINE k == CeilDiv(worth * BPS, net)
  <1>2. k \in Nat /\ worth * BPS <= k * net
    <2> DEFINE m == worth * BPS
    <2>1. m \in Nat
      BY <1>1
    <2> HIDE DEF m
    <2>2. CeilDiv(m, net) \in Nat /\ m <= CeilDiv(m, net) * net
      BY <2>1, CeilReaches
    <2> QED BY <2>2 DEF m
  <1> HIDE DEF k
  <1>3. worth * net <= k * net
    <2>1. worth * net <= worth * BPS
      BY <1>1
    <2> DEFINE x == worth * net
               y == worth * BPS
               z == k * net
    <2>2. x <= y /\ y <= z /\ x \in Int /\ y \in Int /\ z \in Int
      BY <1>1, <1>2, <2>1
    <2> HIDE DEF x, y, z
    <2>3. x <= z
      BY <2>2
    <2> QED BY <2>3 DEF x, z
  <1>4. worth <= k
    BY <1>2, <1>3, ProductCancels
  <1> QED BY <1>2, <1>4 DEF k

\* Buying what is short costs what the books of account say, whether it is bought or not.
LEMMA SwapDeficitAccounted ==
  ASSUME NEW q \in Portfolios, NEW a \in Nat, NEW b \in Nat, NEW e \in Hours, NEW cost \in Nat
  PROVE  LET r == SwapDeficit(q, a, b, e, cost)
         IN  /\ Accounted(q, r, e.tick)
             /\ r.books = q.books /\ r.active = q.active
  <1> DEFINE t == e.tick
             price == PriceAt[t]
             net == BPS - Least(cost, (BPS * 99) \div 100)
             short == Monus(a, q.usdg)
             lack == Monus(b, q.nvda)
             sell == CeilDiv(short * BPS, net * price)
             spend == CeilDiv((lack * price) * BPS, net)
             r == SwapDeficit(q, a, b, e, cost)
             sold == [q EXCEPT !.nvda = @ - sell, !.usdg = @ + short,
                               !.cum.swap = @ + (sell * price - short)]
             spent == [q EXCEPT !.nvda = @ + lack, !.usdg = @ - spend,
                                !.cum.swap = @ + (spend - lack * price)]
             Goal == Accounted(q, r, t) /\ r.books = q.books /\ r.active = q.active
  <1>1. t \in DOMAIN PriceAt /\ price \in Nat \ {0} /\ Price(e) = price
    BY HourTypes, Prices
  <1>2. q.usdg \in Nat /\ q.nvda \in Nat /\ short \in Nat /\ lack \in Nat
        /\ q.cum \in Flows /\ q.cum.swap \in Nat
    BY Parts0 DEF Monus, FlowNames
  <1>3. net \in Nat /\ net <= BPS
    <2>1. BPS \in Nat /\ BPS * 99 \in Nat
      BY DustAssumption
    <2>2. (BPS * 99) \div 100 \in Nat /\ (BPS * 99) \div 100 <= BPS
      BY <2>1, ShareBound
    <2> QED BY <2>1, <2>2 DEF Least
  <1>4. \/ r = q
        \/ /\ net # 0 /\ sell <= q.nvda - b /\ r = sold
        \/ /\ net # 0 /\ spend <= q.usdg - a /\ r = spent
    <2>1. CASE net * 100 <= BPS
      BY <2>1 DEF SwapDeficit
    <2>2. CASE ~(net * 100 <= BPS)
      <3>1. net # 0
        BY <2>2, DustAssumption
      <3>2. \/ r = q
            \/ sell <= q.nvda - b
               /\ r = [q EXCEPT !.nvda = @ - sell, !.usdg = @ + short,
                                !.cum.swap = @ + sell * price - short]
            \/ spend <= q.usdg - a
               /\ r = [q EXCEPT !.usdg = @ - spend, !.nvda = @ + lack,
                                !.cum.swap = @ + spend - lack * price]
        BY <1>1, <2>2, Zenon DEF SwapDeficit
      <3>3. [q EXCEPT !.nvda = @ - sell, !.usdg = @ + short,
                      !.cum.swap = @ + sell * price - short] = sold
        OBVIOUS
      <3>4. [q EXCEPT !.usdg = @ - spend, !.nvda = @ + lack,
                      !.cum.swap = @ + spend - lack * price] = spent
        BY Zenon
      <3> HIDE DEF sold, spent, sell, spend, r
      <3> QED BY <3>1, <3>2, <3>3, <3>4
    <2> QED BY <2>1, <2>2
  <1>5. ASSUME r = q PROVE Goal
    BY <1>5, AccountedSelf
  <1>6. ASSUME net # 0, sell <= q.nvda - b, r = sold PROVE Goal
    <2>1. sell \in Nat /\ short <= sell * price
      <3> HIDE DEF net, short, price
      <3> QED BY <1>1, <1>2, <1>3, <1>6, SellCovers
    <2> HIDE DEF sell
    <2> DEFINE u == q.usdg + short
               n == q.nvda - sell
               g == sell * price - short
    <2>2. sell * price \in Nat
      BY <1>1, <2>1, ProductNat
    <2>3. u \in Nat /\ n \in Nat /\ g \in Nat
      <3> HIDE DEF short, price
      <3> QED BY <1>2, <1>6, <2>1, <2>2
    <2>4. u + n * PriceAt[t] + g = q.usdg + q.nvda * PriceAt[t]
      <3> DEFINE o == q.nvda
      <3>1. o \in Int /\ sell \in Int /\ price \in Int /\ q.usdg \in Int /\ short \in Int
        BY <1>1, <1>2, <2>1
      <3>2. u + n * price + g = (q.usdg + short) + (o - sell) * price + (sell * price - short)
        OBVIOUS
      <3> HIDE DEF o, price, short, u, n, g
      <3>3. (o - sell) * price = o * price - sell * price /\ o * price \in Int
        BY <3>1, Products
      <3>4. u + n * price + g = q.usdg + o * price
        BY <3>1, <3>2, <3>3, <2>2
      <3> QED BY <3>4 DEF o, price
    <2>5. Traded(q, r, u, n, g)
      BY <1>6, Zenon DEF Traded
    <2>6. Exchanged(q, u, n, g, t)
      BY <2>4 DEF Exchanged
    <2> HIDE DEF u, n, g, r, t
    <2> QED BY <1>1, <2>3, <2>5, <2>6, TradeAccounted DEF Goal
  <1>7. ASSUME net # 0, spend <= q.usdg - a, r = spent PROVE Goal
    <2>1. lack * price \in Nat
      BY <1>1, <1>2, ProductNat
    <2>2. spend \in Nat /\ lack * price <= spend
      <3> DEFINE worth == lack * price
      <3>1. worth \in Nat
        BY <2>1
      <3> HIDE DEF worth, net
      <3>2. CeilDiv(worth * BPS, net) \in Nat /\ worth <= CeilDiv(worth * BPS, net)
        BY <1>3, <1>7, <3>1, SpendCovers
      <3> QED BY <3>2 DEF worth
    <2> HIDE DEF spend
    <2> DEFINE u == q.usdg - spend
               n == q.nvda + lack
               g == spend - lack * price
    <2>3. u \in Nat /\ n \in Nat /\ g \in Nat
      <3> HIDE DEF lack, price
      <3> QED BY <1>2, <1>7, <2>1, <2>2
    <2>4. u + n * PriceAt[t] + g = q.usdg + q.nvda * PriceAt[t]
      <3> DEFINE o == q.nvda
      <3>1. o \in Int /\ lack \in Int /\ price \in Int /\ q.usdg \in Int /\ spend \in Int
        BY <1>1, <1>2, <2>2
      <3>2. u + n * price + g = (q.usdg - spend) + (o + lack) * price + (spend - lack * price)
        OBVIOUS
      <3> HIDE DEF o, price, lack, u, n, g
      <3>3. (o + lack) * price = o * price + lack * price /\ o * price \in Int
        BY <3>1, Products
      <3>4. u + n * price + g = q.usdg + o * price
        BY <3>1, <3>2, <3>3, <2>1
      <3> QED BY <3>4 DEF o, price
    <2>5. Traded(q, r, u, n, g)
      BY <1>7, Zenon DEF Traded
    <2>6. Exchanged(q, u, n, g, t)
      BY <2>4 DEF Exchanged
    <2> HIDE DEF u, n, g, r, t
    <2> QED BY <1>1, <2>3, <2>5, <2>6, TradeAccounted DEF Goal
  <1> HIDE DEF r, sold, spent, net, sell, spend, Goal
  <1>8. Goal
    BY <1>4, <1>5, <1>6, <1>7
  <1> QED BY <1>8 DEF Goal, r, t

-----------------------------------------------------------------------------
(* Funding a book.                                                                  *)

MovedTo(f, a, b, c, d, t) ==
    [f EXCEPT !.baseLo = a, !.baseHi = b, !.guardLo = c, !.guardHi = d,
              !.entry = t, !.fees = 0, !.since = NoPull]

LEMMA MovedBook ==
  ASSUME NEW f \in Book, NEW a \in Int, NEW b \in Int, NEW c \in Int, NEW d \in Int,
         NEW t \in DOMAIN PriceAt
  PROVE  LET r == MovedTo(f, a, b, c, d, t)
         IN  /\ r \in Book /\ r.fees = 0 /\ r.baseLo = a /\ r.baseHi = b
             /\ r.guardLo = c /\ r.guardHi = d
  <1> DEFINE g == [f EXCEPT !.baseLo = a, !.baseHi = b, !.guardLo = c, !.guardHi = d]
             r == [g EXCEPT !.entry = t, !.fees = 0, !.since = NoPull]
  <1>1. g \in Book /\ g.baseLo = a /\ g.baseHi = b /\ g.guardLo = c /\ g.guardHi = d
    BY DEF Book
  <1>2. MovedTo(f, a, b, c, d, t) = r
    BY Zenon DEF Book, MovedTo
  <1> HIDE DEF g
  <1>3. /\ r \in Book /\ r.fees = 0 /\ r.baseLo = g.baseLo /\ r.baseHi = g.baseHi
        /\ r.guardLo = g.guardLo /\ r.guardHi = g.guardHi
    BY <1>1 DEF Book
  <1> HIDE DEF r
  <1> QED BY <1>1, <1>2, <1>3

\* A book of any scale is one whose ranges are not inside out.
LEMMA SizedGood ==
  ASSUME NEW q \in Portfolios, NEW i \in Books, NEW k \in Nat, NEW skew \in Int,
         NEW e \in Hours, NEW p \in Configs
  PROVE  /\ Sized(q, i, k, skew, e, p) \in GoodBook
         /\ Sized(q, i, k, skew, e, p).fees = 0
  <1>1. /\ p.targetBase \in Nat /\ p.targetGuard \in Nat /\ p.baseWidth \in Nat
        /\ p.guardWidth \in Nat /\ Grain \in Nat \ {0}
        /\ e.tick \in DOMAIN PriceAt /\ e.tick \in Int
    BY Params, Targets, HourTypes, TickAssumption
  <1> DEFINE base == (p.targetBase * k) \div Grain
             guard == (p.targetGuard * k) \div Grain
             b == q.books[i]
  <1>2. base \in Nat /\ guard \in Nat
    <2>1. p.targetBase * k \in Nat /\ p.targetGuard * k \in Nat
      BY <1>1, ProductNat
    <2> QED BY <1>1, <2>1, DivFloor
  <1>3. b \in Book
    BY Parts0 DEF GoodBook, Books
  <1> HIDE DEF base, guard, b
  <1>4. Funded(b, base, guard) \in Book
    BY <1>2, <1>3 DEF Funded, Book
  <1> DEFINE f == Funded(b, base, guard)
  <1> HIDE DEF f
  <1> DEFINE s == [f EXCEPT !.baseLo = e.tick + skew - p.baseWidth,
                            !.baseHi = e.tick + skew + p.baseWidth,
                            !.guardLo = e.tick - p.guardWidth,
                            !.guardHi = e.tick + p.guardWidth,
                            !.entry = e.tick, !.fees = 0, !.since = NoPull]
  <1>5. s \in Book /\ s.fees = 0 /\ s.baseLo <= s.baseHi /\ s.guardLo <= s.guardHi
    <2>1. f \in Book
      BY <1>4 DEF f
    <2> DEFINE t == e.tick
               w == p.baseWidth
               g == p.guardWidth
    <2>2. t \in Int /\ t \in DOMAIN PriceAt /\ w \in Nat /\ g \in Nat
      BY <1>1
    <2> HIDE DEF t, w, g
    <2> DEFINE a == t + skew - w
               b1 == t + skew + w
               c == t - g
               d == t + g
               r == MovedTo(f, a, b1, c, d, t)
    <2>3. a \in Int /\ b1 \in Int /\ c \in Int /\ d \in Int /\ a <= b1 /\ c <= d
      BY <2>2
    <2> HIDE DEF a, b1, c, d
    <2>4. /\ r \in Book /\ r.fees = 0 /\ r.baseLo = a /\ r.baseHi = b1
          /\ r.guardLo = c /\ r.guardHi = d
      BY <2>1, <2>2, <2>3, MovedBook
    <2> HIDE DEF r
    <2>5. r \in Book /\ r.fees = 0 /\ r.baseLo <= r.baseHi /\ r.guardLo <= r.guardHi
      BY <2>3, <2>4
    <2>6. r = s
      BY Zenon DEF MovedTo, r, a, b1, c, d, t, w, g
    <2> HIDE DEF s
    <2> QED BY <2>5, <2>6
  <1>6. Sized(q, i, k, skew, e, p) = s
    BY DEF Sized, f, base, guard, b
  <1> QED
    BY <1>5, <1>6 DEF GoodBook

\* The tokens reach for the scale that is chosen.
Fits(q, i, k, skew, e, p, usdg, nvda) ==
    \/ k = 0
    \/ /\ BookUsdg(Sized(q, i, k, skew, e, p), e.tick) <= usdg
       /\ BookNvda(Sized(q, i, k, skew, e, p), e.tick) <= nvda

LEMMA ScaleFits ==
  ASSUME NEW q, NEW i, NEW skew, NEW e, NEW p, NEW usdg, NEW nvda, NEW most \in Nat
  PROVE  LET k == Scale(q, i, skew, e, p, usdg, nvda, most)
         IN  k \in Nat /\ Fits(q, i, k, skew, e, p, usdg, nvda)
  <1> DEFINE T == {k \in 1 .. most :
                     /\ BookUsdg(Sized(q, i, k, skew, e, p), e.tick) <= usdg
                     /\ BookNvda(Sized(q, i, k, skew, e, p), e.tick) <= nvda}
             U == {0} \cup T
             k == Scale(q, i, skew, e, p, usdg, nvda, most)
  <1>1. U \in SUBSET (0 .. most) /\ U # {}
    OBVIOUS
  <1>2. k = Max(U)
    BY DEF Scale
  <1>3. Max(U) \in U
    <2> HIDE DEF U
    <2> QED BY <1>1, MaxInRange
  <1> HIDE DEF k
  <1>4. k \in Nat /\ (k = 0 \/ k \in T)
    BY <1>2, <1>3
  <1>5. k \in T => /\ BookUsdg(Sized(q, i, k, skew, e, p), e.tick) <= usdg
                   /\ BookNvda(Sized(q, i, k, skew, e, p), e.tick) <= nvda
    BY Zenon
  <1> HIDE DEF T, U
  <1>6. Fits(q, i, k, skew, e, p, usdg, nvda)
    BY <1>4, <1>5 DEF Fits
  <1> QED BY <1>4, <1>6 DEF k

\* Placing takes from the idle tokens what the book is worth.
LEMMA PlacedAccounted ==
  ASSUME NEW q \in Portfolios, NEW i \in Books, ~q.books[i].deployed, q.books[i].fees = 0,
         NEW k \in Nat, NEW skew \in Int, NEW e \in Hours, NEW p \in Configs,
         Fits(q, i, k, skew, e, p, q.usdg, q.nvda)
  PROVE  LET placed == Placed(q, i, skew, k, e, p)
         IN  Accounted(q, placed.pf, e.tick) /\ placed.value \in Nat
  <1> DEFINE t == e.tick
             c == Sized(q, i, k, skew, e, p)
             placed == Placed(q, i, skew, k, e, p)
             Goal == Accounted(q, placed.pf, t) /\ placed.value \in Nat
  <1>1. CASE k <= 0
    <2>1. placed.pf = q /\ placed.value = 0
      BY <1>1 DEF Placed
    <2> QED BY <2>1, AccountedSelf
  <1>2. CASE k > 0
    <2>1. c \in GoodBook /\ c.fees = 0
      BY SizedGood
    <2>2. BookUsdg(c, t) <= q.usdg /\ BookNvda(c, t) <= q.nvda
      BY <1>2 DEF Fits
    <2>3. t \in DOMAIN PriceAt /\ PriceAt[t] \in Nat
      BY HourTypes, Prices
    <2> DEFINE r == [q EXCEPT !.books[i] = c, !.active = i, !.usdg = @ - BookUsdg(c, t),
                              !.nvda = @ - BookNvda(c, t)]
               u == q.usdg - BookUsdg(c, t)
               n == q.nvda - BookNvda(c, t)
               B == [q.books EXCEPT ![i] = c]
    <2>4. placed.pf = r /\ placed.value = BookValue(c, t)
      BY <1>2 DEF Placed
    <2> HIDE DEF c, t, placed
    <2>5. BookUsdg(c, t) \in Nat /\ BookNvda(c, t) \in Nat /\ BookValue(c, t) \in Nat
      BY <2>1, <2>3, BookAmounts
    <2>6. u \in Nat /\ n \in Nat
      BY <2>2, <2>5, Parts0
    <2>7. BookValue(q.books[i], t) = 0
      <3>1. q.books[i] \in GoodBook
        BY Parts0 DEF Books
      <3> QED BY <2>3, <3>1, EmptyBook
    <2>8. (u + n * PriceAt[t] + BookValue(c, t)) - Flow(q.cum)
            = (q.usdg + q.nvda * PriceAt[t] + BookValue(q.books[i], t)) - Flow(q.cum)
      <3> DEFINE o == q.nvda
                 m == BookNvda(c, t)
                 P == PriceAt[t]
                 a == BookUsdg(c, t)
                 F == Flow(q.cum)
                 g == q.usdg
      <3>1. o \in Int /\ m \in Int /\ P \in Int /\ a \in Int /\ F \in Int /\ g \in Int
        BY <2>3, <2>5, Parts0, NavTypes
      <3>2. BookValue(c, t) = a + m * P
        BY <2>1, <2>5, <3>1 DEF BookValue
      <3> HIDE DEF o, m, P, a, F, g
      <3>3. (o - m) * P = o * P - m * P /\ o * P \in Int /\ m * P \in Int
        BY <3>1, Products
      <3> DEFINE x == o * P
                 y == m * P
                 z == (o - m) * P
      <3>4. x \in Int /\ y \in Int /\ z = x - y
        BY <3>3
      <3> HIDE DEF x, y, z
      <3>5. ((g - a) + z + (a + y)) - F = (g + x + 0) - F
        BY <3>1, <3>4
      <3> QED BY <2>7, <3>2, <3>5 DEF o, m, P, a, F, g, x, y, z
    <2>9. r = With(q, i, u, n, q.arm, B, q.cum)
      BY Zenon DEF With, Portfolios
    <2> HIDE DEF r, u, n
    <2>10. Even(q, r, t)
      BY <2>1, <2>3, <2>6, <2>8, <2>9, Parts0, BookStep
    <2>11. r.arm = q.arm /\ r.cum = q.cum
      <3>1. B \in [Books -> GoodBook]
        BY <2>1, Parts0
      <3> DEFINE w == With(q, i, u, n, q.arm, B, q.cum)
      <3> HIDE DEF B
      <3>2. w.arm = q.arm /\ w.cum = q.cum
        BY <2>6, <3>1, Parts0, WithParts
      <3>3. r = w
        BY <2>9
      <3> HIDE DEF w
      <3> QED BY <3>2, <3>3
    <2> QED
      BY <2>4, <2>5, <2>10, <2>11 DEF Accounted, SamePledge, SameIncome, placed, t
  <1> HIDE DEF placed
  <1> QED BY <1>1, <1>2 DEF placed, t

\* What fits is worth no more than the tokens it is filled from.
LEMMA FitsWithin ==
  ASSUME NEW q \in Portfolios, NEW i \in Books, NEW k \in Nat, NEW skew \in Int,
         NEW e \in Hours, NEW p \in Configs, Fits(q, i, k, skew, e, p, q.usdg, q.nvda)
  PROVE  /\ BookValue(Sized(q, i, k, skew, e, p), e.tick) \in Nat
         /\ k # 0 => BookValue(Sized(q, i, k, skew, e, p), e.tick)
                       <= q.usdg + q.nvda * PriceAt[e.tick]
  <1> DEFINE c == Sized(q, i, k, skew, e, p)
             t == e.tick
  <1>1. c \in GoodBook /\ c.fees = 0 /\ t \in DOMAIN PriceAt /\ PriceAt[t] \in Nat
    BY SizedGood, HourTypes, Prices
  <1>2. k # 0 => BookUsdg(c, t) <= q.usdg /\ BookNvda(c, t) <= q.nvda
    BY DEF Fits
  <1> HIDE DEF c, t
  <1>3. BookUsdg(c, t) \in Nat /\ BookNvda(c, t) \in Nat /\ BookValue(c, t) \in Nat
    BY <1>1, BookAmounts
  <1>4. q.usdg \in Nat /\ q.nvda \in Nat
    BY Parts0
  <1>5. k # 0 => BookValue(c, t) <= q.usdg + q.nvda * PriceAt[t]
    <2> SUFFICES ASSUME k # 0 PROVE BookValue(c, t) <= q.usdg + q.nvda * PriceAt[t]
      OBVIOUS
    <2>1. BookNvda(c, t) * PriceAt[t] <= q.nvda * PriceAt[t]
      BY <1>1, <1>2, <1>3, <1>4, ProductGrows
    <2> DEFINE x == BookNvda(c, t) * PriceAt[t]
               y == q.nvda * PriceAt[t]
    <2>2. x <= y /\ x \in Nat /\ y \in Nat /\ BookValue(c, t) = 0 + BookUsdg(c, t) + x
      BY <1>1, <1>3, <1>4, <2>1, ProductNat DEF BookValue
    <2> HIDE DEF x, y
    <2>3. BookValue(c, t) <= q.usdg + y
      BY <1>2, <1>3, <1>4, <2>2
    <2> QED BY <2>3 DEF y
  <1> QED BY <1>3, <1>5 DEF c, t

\* Nothing is worth nothing.
LEMMA SizedOfNothing ==
  ASSUME NEW q \in Portfolios, NEW i \in Books, NEW skew \in Int,
         NEW e \in Hours, NEW p \in Configs
  PROVE  BookValue(Sized(q, i, 0, skew, e, p), e.tick) = 0
  <1> DEFINE c == Sized(q, i, 0, skew, e, p)
             t == e.tick
  <1>1. c \in GoodBook /\ c.fees = 0 /\ t \in DOMAIN PriceAt /\ t \in Int /\ PriceAt[t] \in Nat
    BY SizedGood, HourTypes, Prices
  <1>2. c.base = 0 /\ c.guard = 0
    <2>1. (p.targetBase * 0) \div Grain = 0 /\ (p.targetGuard * 0) \div Grain = 0
      BY Targets, TickAssumption
    <2>2. q.books[i] \in Book
      BY Parts0 DEF GoodBook, Books
    <2> DEFINE f == Funded(q.books[i], 0, 0)
    <2>3. f \in Book /\ f.base = 0 /\ f.guard = 0
      BY <2>2 DEF Funded, Book
    <2>4. c = [f EXCEPT !.baseLo = t + skew - p.baseWidth, !.baseHi = t + skew + p.baseWidth,
                        !.guardLo = t - p.guardWidth, !.guardHi = t + p.guardWidth,
                        !.entry = t, !.fees = 0, !.since = NoPull]
      BY <2>1 DEF Sized
    <2> HIDE DEF f, c
    <2> QED BY <2>3, <2>4 DEF Book
  <1> HIDE DEF c, t
  <1>3. /\ c.baseLo \in Int /\ c.baseHi \in Int /\ c.baseLo <= c.baseHi
        /\ c.guardLo \in Int /\ c.guardHi \in Int /\ c.guardLo <= c.guardHi
        /\ GuardL(c) = 0
    BY <1>1, <1>2 DEF GoodBook, Book, GuardL
  <1>4. /\ Usdg(0, c.baseLo, c.baseHi, t) = 0 /\ Nvda(0, c.baseLo, c.baseHi, t) = 0
        /\ Usdg(0, c.guardLo, c.guardHi, t) = 0 /\ Nvda(0, c.guardLo, c.guardHi, t) = 0
    BY <1>1, <1>3, RangeAmounts
  <1>5. BookUsdg(c, t) = 0 /\ BookNvda(c, t) = 0
    BY <1>2, <1>3, <1>4 DEF BookUsdg, BookNvda
  <1>6. BookValue(c, t) = 0
    BY <1>1, <1>5 DEF BookValue
  <1> QED BY <1>6 DEF c, t

\* Of finitely many offsets one is best: of the largest value, then the smallest size, then
\* the least.
BestOffset(f, m, o) ==
    \A q \in -m .. m : \/ f[q] < f[o]
                       \/ f[q] = f[o] /\ Greatest(o, -o) < Greatest(q, -q)
                       \/ f[q] = f[o] /\ Greatest(o, -o) = Greatest(q, -q) /\ o <= q

LEMMA SomeOffsetIsBest ==
  ASSUME NEW m \in Nat, NEW f \in [-m .. m -> Nat], NEW W \in Nat,
         \A o \in -m .. m : f[o] <= W
  PROVE  \E o \in -m .. m : BestOffset(f, m, o)
  <1> DEFINE D == -m .. m
             abs(o) == Greatest(o, -o)
  <1>1. 0 \in D
    OBVIOUS
  <1> DEFINE V == {W - f[o] : o \in D}
  <1>2. V \in SUBSET Nat /\ V # {}
    <2>1. \A o \in D : W - f[o] \in Nat
      OBVIOUS
    <2> HIDE DEF D
    <2> QED BY <1>1, <2>1
  <1>3. PICK v \in V : \A w \in V : v <= w
    <2> HIDE DEF V
    <2> QED BY <1>2, LeastOfNat
  <1>4. PICK a \in D : v = W - f[a]
    OBVIOUS
  <1>5. \A q \in D : f[q] <= f[a]
    <2> SUFFICES ASSUME NEW q \in D PROVE f[q] <= f[a]
      OBVIOUS
    <2>1. W - f[a] <= W - f[q]
      BY <1>3, <1>4
    <2>2. f[a] \in Nat /\ f[q] \in Nat
      OBVIOUS
    <2> QED BY <2>1, <2>2
  <1> DEFINE S == {o \in D : f[o] = f[a]}
             A == {abs(o) : o \in S}
  <1>6. A \in SUBSET Nat /\ A # {}
    <2>1. \A o \in S : abs(o) \in Nat
      BY DEF Greatest
    <2>2. a \in S
      OBVIOUS
    <2> HIDE DEF S
    <2> QED BY <2>1, <2>2
  <1>7. PICK v2 \in A : \A w \in A : v2 <= w
    <2> HIDE DEF A
    <2> QED BY <1>6, LeastOfNat
  <1>8. PICK b \in S : v2 = abs(b)
    OBVIOUS
  <1> DEFINE S2 == {o \in S : abs(o) = abs(b)}
             B == {o + m : o \in S2}
  <1>9. B \in SUBSET Nat /\ B # {}
    <2>1. \A o \in S2 : o + m \in Nat
      OBVIOUS
    <2>2. b \in S2
      OBVIOUS
    <2> HIDE DEF S2
    <2> QED BY <2>1, <2>2
  <1>10. PICK v3 \in B : \A w \in B : v3 <= w
    <2> HIDE DEF B
    <2> QED BY <1>9, LeastOfNat
  <1>11. PICK c \in S2 : v3 = c + m
    OBVIOUS
  <1>12. c \in D /\ f[c] = f[a] /\ abs(c) = abs(b)
    OBVIOUS
  <1>13. BestOffset(f, m, c)
    <2> SUFFICES ASSUME NEW q \in D
                 PROVE  \/ f[q] < f[c]
                        \/ f[q] = f[c] /\ abs(c) < abs(q)
                        \/ f[q] = f[c] /\ abs(c) = abs(q) /\ c <= q
      BY DEF BestOffset
    <2>1. f[q] \in Nat /\ f[a] \in Nat /\ f[q] <= f[a]
      BY <1>5
    <2>2. f[q] = f[a] => abs(b) <= abs(q)
      BY <1>7, <1>8
    <2>3. f[q] = f[a] /\ abs(q) = abs(b) => c <= q
      <3> SUFFICES ASSUME f[q] = f[a], abs(q) = abs(b) PROVE c <= q
        OBVIOUS
      <3>1. q + m \in B
        OBVIOUS
      <3>2. c + m <= q + m
        BY <3>1, <1>10, <1>11
      <3>3. c \in Int /\ q \in Int
        BY <1>12
      <3> QED BY <3>2, <3>3
    <2>4. abs(q) \in Nat /\ abs(b) \in Nat
      <3>1. q \in Int /\ b \in Int
        BY <1>8
      <3> HIDE DEF D, S, S2, A, B, V
      <3> QED BY <3>1 DEF Greatest
    <2> HIDE DEF abs
    <2> QED BY <1>12, <2>1, <2>2, <2>3, <2>4
  <1> QED BY <1>12, <1>13

LEMMA BaseSkewIsOffset ==
  ASSUME NEW q \in Portfolios, NEW i \in Books, NEW e \in Hours, NEW p \in Configs
  PROVE  BaseSkew(q, i, e, p) \in Int
  <1> DEFINE scale(o) == Scale(q, i, o, e, p, q.usdg, q.nvda, Grain)
             value(o) == BookValue(Sized(q, i, scale(o), o, e, p), e.tick)
             m == p.maxSkew
             D == -m .. m
             f == [o \in D |-> value(o)]
             W == q.usdg + q.nvda * PriceAt[e.tick]
             Beats(o) == \A x \in D : \/ value(x) < value(o)
                                      \/ value(x) = value(o) /\ Greatest(o, -o) < Greatest(x, -x)
                                      \/ value(x) = value(o) /\ Greatest(o, -o) = Greatest(x, -x) /\ o <= x
  <1>1. m \in Nat /\ Grain \in Nat
    BY Params, TickAssumption
  <1>2. W \in Nat
    BY HourTypes, Prices, Parts0, ProductNat
  <1>3. \A o \in Int : value(o) \in Nat /\ value(o) <= W
    <2> SUFFICES ASSUME NEW o \in Int PROVE value(o) \in Nat /\ value(o) <= W
      OBVIOUS
    <2>1. scale(o) \in Nat /\ Fits(q, i, scale(o), o, e, p, q.usdg, q.nvda)
      BY <1>1, ScaleFits
    <2> DEFINE k == scale(o)
    <2> HIDE DEF k, W
    <2>2. CASE k = 0
      <3>1. BookValue(Sized(q, i, 0, o, e, p), e.tick) = 0
        BY SizedOfNothing
      <3> QED BY <2>2, <3>1, <1>2 DEF k
    <2>3. CASE k # 0
      <3>1. k \in Nat /\ Fits(q, i, k, o, e, p, q.usdg, q.nvda)
        BY <2>1 DEF k
      <3>2. /\ BookValue(Sized(q, i, k, o, e, p), e.tick) \in Nat
            /\ BookValue(Sized(q, i, k, o, e, p), e.tick)
                       <= q.usdg + q.nvda * PriceAt[e.tick]
        BY <2>3, <3>1, FitsWithin
      <3> QED BY <3>2 DEF k, W
    <2> QED BY <2>2, <2>3
  <1> HIDE DEF value, W
  <1>4. f \in [D -> Nat] /\ \A o \in D : f[o] <= W /\ f[o] = value(o)
    BY <1>1, <1>3
  <1>5. \E o \in D : BestOffset(f, m, o)
    <2> HIDE DEF f
    <2> QED BY <1>1, <1>2, <1>4, SomeOffsetIsBest
  <1>6. \E o \in D : Beats(o)
    <2>1. PICK o \in D : BestOffset(f, m, o)
      BY <1>5
    <2> HIDE DEF f
    <2>2. Beats(o)
      BY <1>4, <2>1 DEF BestOffset
    <2> QED BY <2>2
  <1>7. BaseSkew(q, i, e, p) = CHOOSE o \in D : Beats(o)
    BY Zenon DEF BaseSkew, value
  <1> HIDE DEF Beats
  <1>8. BaseSkew(q, i, e, p) \in D
    BY <1>6, <1>7, Zenon
  <1> QED BY <1>1, <1>8

\* However a book is funded, what it holds comes from the idle tokens, and what buying what
\* is short costs is recorded.
LEMMA FundSkewedAccounted ==
  ASSUME NEW q \in Portfolios, NEW i \in Books, ~q.books[i].deployed, q.books[i].fees = 0,
         NEW skew \in Int, NEW e \in Hours, NEW p \in Configs
  PROVE  /\ Accounted(q, FundSkewed(q, i, skew, e, p).pf, e.tick)
         /\ FundSkewed(q, i, skew, e, p).value \in Nat
  <1>1. /\ p.fundBps \in Nat /\ Grain \in Nat /\ p.swapCostBps \in Nat
        /\ q.usdg \in Nat /\ q.nvda \in Nat /\ e.tick \in DOMAIN PriceAt
    BY Params, Targets, TickAssumption, Parts0, HourTypes
  <1>2. CASE p.fundingMode # "swap"
    <2> DEFINE usdg == Slice(q.usdg, p.fundBps)
               nvda == Slice(q.nvda, p.fundBps)
               k == Scale(q, i, skew, e, p, usdg, nvda, Grain)
    <2>1. usdg \in Nat /\ nvda \in Nat /\ usdg <= q.usdg /\ nvda <= q.nvda
      BY <1>1, SliceWithin
    <2>2. FundSkewed(q, i, skew, e, p) = Placed(q, i, skew, k, e, p)
      BY <1>2 DEF FundSkewed
    <2> HIDE DEF usdg, nvda
    <2>3. k \in Nat /\ Fits(q, i, k, skew, e, p, usdg, nvda)
      BY <1>1, ScaleFits
    <2> HIDE DEF k
    <2>4. /\ BookUsdg(Sized(q, i, k, skew, e, p), e.tick) \in Nat
          /\ BookNvda(Sized(q, i, k, skew, e, p), e.tick) \in Nat
      BY <1>1, <2>3, SizedGood, BookAmounts
    <2>5. Fits(q, i, k, skew, e, p, q.usdg, q.nvda)
      BY <1>1, <2>1, <2>3, <2>4 DEF Fits
    <2> QED BY <2>2, <2>3, <2>5, PlacedAccounted
  <1>3. CASE p.fundingMode = "swap"
    <2> DEFINE full == Sized(q, i, Grain, skew, e, p)
               a == Slice(BookUsdg(full, e.tick), p.fundBps)
               b == Slice(BookNvda(full, e.tick), p.fundBps)
               held == SwapDeficit(q, a, b, e, p.swapCostBps)
               most == Slice(Grain, p.fundBps)
               k == Scale(q, i, skew, e, p, held.usdg, held.nvda, most)
    <2>1. a \in Nat /\ b \in Nat /\ most \in Nat
      BY <1>1, SizedGood, BookAmounts, SliceWithin
    <2>2. FundSkewed(q, i, skew, e, p) = Placed(held, i, skew, k, e, p)
      BY <1>3 DEF FundSkewed
    <2>3. Accounted(q, held, e.tick) /\ held.books = q.books
      <3> DEFINE cost == p.swapCostBps
      <3>1. a \in Nat /\ b \in Nat /\ cost \in Nat
        BY <1>1, <2>1
      <3> HIDE DEF a, b, cost
      <3>2. /\ Accounted(q, SwapDeficit(q, a, b, e, cost), e.tick)
            /\ SwapDeficit(q, a, b, e, cost).books = q.books
        BY <3>1, SwapDeficitAccounted
      <3> QED BY <3>2 DEF cost
    <2> HIDE DEF a, b, held, most
    <2>4. k \in Nat /\ Fits(q, i, k, skew, e, p, held.usdg, held.nvda)
      BY <2>1, ScaleFits
    <2> HIDE DEF k
    <2>5. Sized(held, i, k, skew, e, p) = Sized(q, i, k, skew, e, p)
      BY <2>3 DEF Sized
    <2>6. held \in Portfolios /\ Fits(held, i, k, skew, e, p, held.usdg, held.nvda)
      BY <2>3, <2>4, <2>5 DEF Fits, Accounted, Even
    <2>7. ~held.books[i].deployed /\ held.books[i].fees = 0
      BY <2>3
    <2>8. /\ Accounted(held, Placed(held, i, skew, k, e, p).pf, e.tick)
          /\ Placed(held, i, skew, k, e, p).value \in Nat
      BY <2>4, <2>6, <2>7, PlacedAccounted
    <2> QED BY <2>2, <2>3, <2>8, AccountedTransitive
  <1> QED BY <1>2, <1>3

LEMMA FundBookAccounted ==
  ASSUME NEW q \in Portfolios, NEW i \in Books, ~q.books[i].deployed, q.books[i].fees = 0,
         NEW e \in Hours, NEW p \in Configs
  PROVE  /\ Accounted(q, FundBook(q, i, e, p).pf, e.tick)
         /\ FundBook(q, i, e, p).value \in Nat
  BY BaseSkewIsOffset, FundSkewedAccounted DEF FundBook

-----------------------------------------------------------------------------
(* Liquidation.                                                                     *)

\* A debt within the liquidation threshold of the collateral, or no more than dust.
Covered(q, e, p) ==
    q.arm.debt > DustUsd => p.lltvBps * q.arm.nvda * Price(e) >= q.arm.debt * BPS

\* What liquidation takes is recorded as a loss, and what it leaves is covered.
LEMMA LiquidateEven ==
  ASSUME NEW q \in Portfolios, NEW e \in Hours, NEW p \in Configs
  PROVE  LET r == Liquidate(q, e, p)
         IN  Even(q, r, e.tick) /\ SameIncome(q, r) /\ Covered(r, e, p)
  <1> DEFINE t == e.tick
             P == Price(e)
             arm == q.arm
             worth == arm.nvda * P
             bonus == BPS + p.bonusBps
             seized == Least(worth, (arm.debt * bonus) \div BPS)
             left == Monus(arm.debt, (seized * BPS) \div bonus)
             impair == Least(arm.lent, left)
             kept == IF worth > 0 THEN (arm.nvda * (worth - seized)) \div worth ELSE 0
             after == [nvda |-> kept, lent |-> arm.lent - impair, debt |-> 0,
                       bad |-> arm.bad + left - impair]
             loss == ArmEquity(arm, P) - ArmEquity(after, P)
             s == [q EXCEPT !.arm = after, !.cum.loss = @ + Positive(loss)]
             r == Liquidate(q, e, p)
             Goal == Even(q, r, t) /\ SameIncome(q, r) /\ Covered(r, e, p)
  <1>1. /\ t \in DOMAIN PriceAt /\ P \in Nat \ {0} /\ P = PriceAt[t]
        /\ arm.nvda \in Nat /\ arm.lent \in Nat /\ arm.debt \in Nat /\ arm.bad \in Nat
        /\ BPS \in Nat \ {0} /\ DustUsd \in Nat /\ bonus \in Nat \ {0} /\ p.lltvBps \in Nat
    BY HourTypes, Parts0, DustAssumption, Params
  <1>2. worth \in Nat
    BY <1>1, ProductNat
  <1>3. CASE arm.debt <= DustUsd \/ p.lltvBps * worth >= arm.debt * BPS
    <2>1. r = q
      BY <1>3 DEF Liquidate
    <2>2. Covered(q, e, p)
      <3>1. p.lltvBps * (arm.nvda * P) = (p.lltvBps * arm.nvda) * P
        BY <1>1, Products
      <3>2. arm.debt > DustUsd => p.lltvBps * arm.nvda * Price(e) >= arm.debt * BPS
        <4> DEFINE x == p.lltvBps * (arm.nvda * P)
                   y == (p.lltvBps * arm.nvda) * P
        <4>1. arm.debt <= DustUsd \/ x >= arm.debt * BPS
          BY <1>3
        <4>2. x = y
          BY <3>1
        <4> HIDE DEF x
        <4>3. arm.debt > DustUsd => y >= arm.debt * BPS
          <5> HIDE DEF y, arm
          <5> QED BY <1>1, <4>1, <4>2
        <4> QED BY <4>3 DEF y
      <3> QED BY <3>2 DEF Covered
    <2> QED BY <2>1, <2>2, AccountedSelf DEF Accounted
  <1>4. CASE ~(arm.debt <= DustUsd \/ p.lltvBps * worth >= arm.debt * BPS)
    <2>1. r = s
      BY <1>4, Zenon DEF Liquidate
    <2>2. seized \in Nat /\ seized <= worth
      <3>1. (arm.debt * bonus) \div BPS \in Nat
        BY <1>1, ProductNat, DivFloor
      <3> HIDE DEF worth
      <3> QED BY <1>2, <3>1, LeastMonus
    <2>3. left \in Nat
      <3>1. (seized * BPS) \div bonus \in Nat
        <4> HIDE DEF seized, bonus
        <4>1. seized * BPS \in Nat
          BY <1>1, <2>2, ProductNat
        <4> QED BY <1>1, <4>1, DivFloor
      <3> HIDE DEF seized, bonus
      <3> QED BY <1>1, <3>1, LeastMonus
    <2>4. impair \in Nat /\ impair <= arm.lent /\ impair <= left
      <3> HIDE DEF left
      <3> QED BY <1>1, <2>3, LeastMonus
    <2>5. kept \in Nat /\ kept <= arm.nvda /\ kept * P <= worth - seized
      <3>1. CASE worth = 0
        <4>1. kept = 0
          BY <3>1
        <4> HIDE DEF kept, seized, worth
        <4> QED BY <1>1, <1>2, <2>2, <4>1
      <3>2. CASE worth # 0
        <4> DEFINE m == worth - seized
                   o == arm.nvda
        <4>1. m \in Nat /\ m <= worth /\ worth \in Nat \ {0} /\ o \in Nat
          <5> HIDE DEF worth, seized
          <5> QED BY <1>1, <1>2, <2>2, <3>2
        <4>2. kept = (o * m) \div worth
          <5> HIDE DEF seized
          <5> QED BY <1>2, <3>2
        <4> HIDE DEF kept, m, worth, o
        <4>3. kept \in Nat /\ kept <= o
          BY <4>1, <4>2, ShareBound
        <4>4. kept * worth <= o * m
          <5>1. o * m \in Nat
            BY <4>1, ProductNat
          <5> DEFINE n == o * m
          <5> HIDE DEF n
          <5>2. (n \div worth) * worth <= n
            BY <4>1, <5>1, DivFloor DEF n
          <5> QED BY <4>2, <5>2 DEF n
        <4>5. worth = o * P
          BY DEF worth, o
        <4>6. kept * P <= m
          <5>1. CASE o = 0
            BY <4>3, <4>1, <5>1, <1>1
          <5>2. CASE o # 0
            <6>1. o \in Nat \ {0}
              BY <4>1, <5>2
            <6> HIDE DEF P
            <6>2. kept * (o * P) = (kept * P) * o /\ o * m = m * o
              BY <1>1, <4>1, <4>3
            <6>3. (kept * P) * o <= m * o
              BY <4>4, <4>5, <6>2
            <6>4. kept * P \in Int /\ m \in Int
              BY <1>1, <4>1, <4>3
            <6> QED BY <6>1, <6>3, <6>4, ProductCancels
          <5> QED BY <5>1, <5>2
        <4> QED BY <4>3, <4>6 DEF m, o
      <3> QED BY <3>1, <3>2
    <2> HIDE DEF kept, impair, left, seized
    <2>6. /\ after \in Arm /\ after.nvda = kept /\ after.lent = arm.lent - impair
          /\ after.debt = 0 /\ after.bad = arm.bad + left - impair
      BY <1>1, <2>3, <2>4, <2>5 DEF Arm
    <2> HIDE DEF after
    <2>7. kept * P \in Nat
      BY <1>1, <2>5, ProductNat
    <2>8. loss \in Int
      BY <1>1, <1>2, <2>6, <2>7 DEF ArmEquity, Arm
    <2> DEFINE o == (seized * BPS) \div bonus
    <2>9. o \in Nat /\ o <= seized /\ arm.debt - o <= left
      <3>1. BPS <= bonus
        BY <1>1, Params, DustAssumption
      <3>2. o \in Nat /\ o <= seized
        <4> HIDE DEF bonus
        <4> QED BY <1>1, <2>2, <3>1, ShareBound
      <3>3. left = Monus(arm.debt, o)
        BY DEF left
      <3> HIDE DEF o
      <3> QED BY <1>1, <3>2, <3>3, LeastMonus
    <2> HIDE DEF o
    <2>10. loss = (worth - kept * P) + (left - arm.debt)
      <3> DEFINE x == kept * P
      <3>1. x \in Nat
        BY <2>7
      <3>2. ArmEquity(after, P) = (x + (arm.lent - impair)) - (arm.bad + left - impair)
        <4> HIDE DEF arm
        <4> QED BY <1>1, <2>3, <2>4, <2>6, <3>1 DEF ArmEquity
      <3>3. ArmEquity(arm, P) = ((worth + arm.lent) - arm.debt) - arm.bad
        <4> DEFINE y == arm.nvda * P
        <4>1. y \in Nat
          BY <1>2
        <4> HIDE DEF arm, y
        <4>2. ArmEquity(arm, P) = ((y + arm.lent) - arm.debt) - arm.bad
          BY <1>1, <4>1 DEF ArmEquity, y
        <4> QED BY <4>2 DEF y, arm
      <3> DEFINE A == ArmEquity(arm, P)
                 B == ArmEquity(after, P)
                 l == arm.lent
                 d == arm.debt
                 v == arm.bad
      <3>4. /\ l \in Nat /\ d \in Nat /\ v \in Nat /\ A = ((worth + l) - d) - v
            /\ B = (x + (l - impair)) - (v + left - impair) /\ loss = A - B
        BY <1>1, <3>2, <3>3
      <3> HIDE DEF x, A, B, l, d, v, worth, loss
      <3>5. loss = (worth - x) + (left - d)
        BY <1>2, <2>3, <2>4, <3>1, <3>4
      <3> QED BY <3>5 DEF x, d
    <2>11. loss >= 0
      <3> DEFINE x == kept * P
                 d == arm.debt
      <3>1. x \in Nat /\ d \in Nat /\ x <= worth - seized /\ d - o <= left
            /\ loss = (worth - x) + (left - d)
        BY <1>1, <2>5, <2>7, <2>9, <2>10
      <3> HIDE DEF x, d, worth, loss
      <3> QED BY <1>2, <2>2, <2>3, <2>8, <2>9, <3>1
    <2> DEFINE C == [q.cum EXCEPT !.loss = @ + loss]
    <2>12. Positive(loss) = loss
      <3> HIDE DEF loss
      <3> QED BY <2>8, <2>11 DEF Positive, Greatest
    <2>13. /\ C \in Flows /\ Flow(C) = Flow(q.cum) - loss
           /\ \A f \in FlowNames \ {"loss"} : C[f] = q.cum[f]
      <3> HIDE DEF loss
      <3> QED BY <2>8, <2>11, Parts0, FlowDomain DEF Flows, FlowNames, Flow
    <2>14. s = With(q, q.active, q.usdg, q.nvda, after, q.books, C)
      <3> DEFINE s0 == [q EXCEPT !.arm = after, !.cum.loss = @ + loss]
      <3>1. s = s0
        BY <2>12
      <3> HIDE DEF loss
      <3>2. s0 = With(q, q.active, q.usdg, q.nvda, after, q.books, C)
        BY Zenon DEF With, Portfolios
      <3> HIDE DEF s, s0
      <3> QED BY <3>1, <3>2
    <2> HIDE DEF s, C
    <2>15. (q.usdg + q.nvda * PriceAt[t] + ArmEquity(after, PriceAt[t])) - Flow(C)
             = (q.usdg + q.nvda * PriceAt[t] + ArmEquity(q.arm, PriceAt[t])) - Flow(q.cum)
      <3> DEFINE x == q.nvda * PriceAt[t]
                 A == ArmEquity(q.arm, PriceAt[t])
                 B == ArmEquity(after, PriceAt[t])
                 F == Flow(q.cum)
                 u == q.usdg
      <3>1. /\ x \in Int /\ A \in Int /\ F \in Int /\ u \in Int
        BY <1>1, NavTypes, Parts0
      <3>2. loss = A - B
        BY <1>1
      <3>3. B \in Int /\ Flow(C) = F - loss
        BY <1>1, <2>3, <2>4, <2>6, <2>7, <2>13 DEF ArmEquity
      <3> HIDE DEF x, A, B, F, u, loss
      <3>4. (u + x + B) - Flow(C) = (u + x + A) - F
        BY <2>8, <3>1, <3>2, <3>3
      <3> QED BY <3>4 DEF x, A, B, F, u
    <2>16. Even(q, s, t)
      BY <1>1, <2>6, <2>13, <2>14, <2>15, Parts0, ArmStep
    <2>17. s.arm = after /\ s.cum = C
      <3> DEFINE w == With(q, q.active, q.usdg, q.nvda, after, q.books, C)
      <3>0. /\ q.active \in Books /\ q.usdg \in Nat /\ q.nvda \in Nat
            /\ q.books \in [Books -> GoodBook] /\ after \in Arm /\ C \in Flows
        BY <2>6, <2>13, Parts0
      <3>1. w.arm = after /\ w.cum = C
        BY <3>0, WithParts
      <3>2. s = w
        BY <2>14
      <3> HIDE DEF w
      <3> QED BY <3>1, <3>2
    <2>18. Covered(s, e, p)
      BY <1>1, <2>6, <2>17 DEF Covered
    <2>19. SameIncome(q, s)
      BY <2>13, <2>17 DEF SameIncome, Incomes, FlowNames
    <2> QED BY <2>1, <2>16, <2>18, <2>19
  <1> HIDE DEF r
  <1> QED BY <1>3, <1>4 DEF r, t

-----------------------------------------------------------------------------
(* What a book earns in an hour.                                                    *)

\* What liquidity earns in some minutes of a tape is an integer.
LEMMA EarnedInt ==
  ASSUME NEW minutes \in Seq(Minute), NEW ms \in SUBSET DOMAIN minutes,
         NEW l \in Nat, NEW pips \in Nat, NEW mode
  PROVE  Earned(l, ms, minutes, pips, mode) \in Int
  <1>1. IsFiniteSet(ms)
    <2>1. DOMAIN minutes = 1 .. Len(minutes) /\ Len(minutes) \in Nat
      OBVIOUS
    <2>2. IsFiniteSet(1 .. Len(minutes))
      BY <2>1, FS_Interval
    <2> QED BY <2>1, <2>2, FS_Subset
  <1>2. PipBase \in Nat \ {0}
    BY TickAssumption
  <1>3. \A j \in ms : /\ minutes[j] \in Minute
                      /\ minutes[j].volume \in Nat /\ minutes[j].volOverL \in Nat
                      /\ minutes[j].volOverL2 \in Nat
    <2>1. \A j \in ms : minutes[j] \in Minute
      OBVIOUS
    <2> QED BY <2>1 DEF Minute
  <1> DEFINE exact(j) == LET m == minutes[j] IN
                           IF l > 0 /\ m.volume > 0 /\ m.volOverL > 0
                           THEN (pips * m.volume * m.volOverL * l)
                                   \div (PipBase * (m.volume + m.volOverL * l))
                           ELSE 0
             f == [j \in ms |-> exact(j)]
             f1 == [j \in ms |-> minutes[j].volOverL]
             f2 == [j \in ms |-> minutes[j].volOverL2]
  <1>4. f \in [ms -> Nat]
    <2>1. ASSUME NEW j \in ms PROVE exact(j) \in Nat
      <3> DEFINE v == minutes[j].volume
                 w == minutes[j].volOverL
      <3>1. v \in Nat /\ w \in Nat
        BY <1>3
      <3>2. exact(j) = IF l > 0 /\ v > 0 /\ w > 0
                       THEN (pips * v * w * l) \div (PipBase * (v + w * l)) ELSE 0
        OBVIOUS
      <3> HIDE DEF v, w, exact
      <3>3. CASE l > 0 /\ v > 0 /\ w > 0
        <4>1. pips * v * w * l \in Nat /\ w * l \in Nat
          BY <3>1, ProductNat
        <4> DEFINE x == w * l
        <4>2. v + x \in Nat \ {0}
          BY <3>1, <3>3, <4>1
        <4>3. PipBase * (v + x) \in Nat \ {0}
          <5> DEFINE y == v + x
          <5>1. y \in Nat \ {0}
            BY <4>2
          <5> HIDE DEF y
          <5>2. PipBase * y \in Nat \ {0}
            BY <1>2, <5>1
          <5> QED BY <5>2 DEF y
        <4> DEFINE n == pips * v * w * l
                   d == PipBase * (v + x)
        <4> HIDE DEF n, d
        <4>4. n \div d \in Nat
          BY <4>1, <4>3, DivFloor DEF n, d
        <4> QED BY <3>2, <3>3, <4>4 DEF n, d
      <3>4. CASE ~(l > 0 /\ v > 0 /\ w > 0)
        BY <3>2, <3>4
      <3> QED BY <3>3, <3>4
    <2> QED BY <2>1
  <1>5. f1 \in [ms -> Nat] /\ f2 \in [ms -> Nat]
    BY <1>3
  <1>6. SumFunction(f) \in Nat /\ SumFunction(f1) \in Nat /\ SumFunction(f2) \in Nat
    <2> HIDE DEF f, f1, f2
    <2> QED BY <1>1, <1>4, <1>5, SumType
  <1>7. Earned(l, ms, minutes, pips, mode)
          = IF mode = "exact" THEN SumFunction(f)
            ELSE (pips * (l * SumFunction(f1) - l * l * SumFunction(f2))) \div PipBase
    BY DEF Earned
  <1> DEFINE s1 == SumFunction(f1)
             s2 == SumFunction(f2)
             s  == SumFunction(f)
  <1> HIDE DEF s, s1, s2
  <1>8. s \in Nat /\ s1 \in Nat /\ s2 \in Nat
    BY <1>6 DEF s, s1, s2
  <1>9. pips * (l * s1 - l * l * s2) \in Int
    <2>1. l * s1 \in Int /\ l * l * s2 \in Int
      BY <1>8
    <2> DEFINE z == l * s1 - l * l * s2
    <2>2. z \in Int
      BY <2>1
    <2> HIDE DEF z
    <2>3. pips * z \in Int
      BY <2>2
    <2> QED BY <2>3 DEF z
  <1>10. (pips * (l * s1 - l * l * s2)) \div PipBase \in Int
    <2> DEFINE z == pips * (l * s1 - l * l * s2)
    <2>1. z \in Int
      BY <1>9
    <2> HIDE DEF z
    <2>2. z \div PipBase \in Int
      BY <1>2, <2>1, DivInt
    <2> QED BY <2>2 DEF z
  <1>11. Earned(l, ms, minutes, pips, mode)
          = IF mode = "exact" THEN s ELSE (pips * (l * s1 - l * l * s2)) \div PipBase
    BY <1>7 DEF s, s1, s2
  <1> QED BY <1>8, <1>10, <1>11

\* None of the parts is less than nothing.
LEMMA BookPartsNat ==
  ASSUME NEW b \in GoodBook, NEW minutes \in Seq(Minute), NEW pips \in Nat, NEW mode
  PROVE  LET parts == BookFeeParts(b, minutes, pips, mode)
         IN  parts.total \in Nat /\ parts.both \in Nat /\ parts.base \in Nat
  <1> DEFINE in(base, guard) == {j \in DOMAIN minutes :
                              BaseIn(b, minutes[j]) = base /\ GuardIn(b, minutes[j]) = guard}
             earned(l, ms)   == Earned(l, ms, minutes, pips, mode)
             x == earned(b.base + GuardL(b), in(TRUE, TRUE))
             y == earned(GuardL(b), in(FALSE, TRUE))
             z == earned(b.base, in(TRUE, FALSE))
  <1>1. b.base \in Nat /\ GuardL(b) \in Nat /\ b.base + GuardL(b) \in Nat
    BY DEF GoodBook, Book, GuardL
  <1>2. x \in Int /\ y \in Int /\ z \in Int
    <2> DEFINE both == b.base + GuardL(b)
    <2>1. both \in Nat /\ in(TRUE, TRUE) \in SUBSET DOMAIN minutes
      BY <1>1
    <2>2. in(FALSE, TRUE) \in SUBSET DOMAIN minutes /\ in(TRUE, FALSE) \in SUBSET DOMAIN minutes
      OBVIOUS
    <2> HIDE DEF both, in
    <2>3. earned(both, in(TRUE, TRUE)) \in Int
      BY <2>1, EarnedInt
    <2>4. y \in Int /\ z \in Int
      BY <1>1, <2>2, EarnedInt
    <2> QED BY <2>3, <2>4 DEF both
  <1>3. BookFeeParts(b, minutes, pips, mode)
          = IF HasPositions(b) THEN Parts(x, y, z) ELSE Parts(0, 0, 0)
    BY DEF BookFeeParts
  <1> HIDE DEF x, y, z
  <1>4. ASSUME NEW u \in Int, NEW v \in Int, NEW w \in Int
        PROVE  /\ Parts(u, v, w).total \in Nat /\ Parts(u, v, w).both \in Nat
               /\ Parts(u, v, w).base \in Nat
    BY DEF Parts, Positive, Greatest
  <1> QED BY <1>2, <1>3, <1>4

\* The bin of a pull, when there is one.
LEMMA PullBinType ==
  ASSUME NEW moves \in Seq(Int), NEW p
  PROVE  PullBin(moves, p) \in Nat \cup {NoBin}
  <1> DEFINE over == {j \in DOMAIN moves : moves[j] > p.pullBps}
  <1>1. over \in SUBSET Nat /\ \A j \in over : j >= 1
    OBVIOUS
  <1>2. CASE over = {}
    BY <1>2 DEF PullBin
  <1>3. CASE over # {}
    <2>1. PullBin(moves, p) = Min(over) - 1
      BY <1>3 DEF PullBin
    <2> HIDE DEF over
    <2>2. \E x \in over : \A y \in over : x <= y
      BY <1>1, <1>3, LeastOfNat
    <2>3. Min(over) \in over
      BY <2>2 DEF Min
    <2>4. PICK j \in over : j = Min(over)
      BY <2>3
    <2>5. j \in Nat /\ j >= 1
      BY <1>1
    <2>6. j - 1 \in Nat
      BY <2>5
    <2> QED BY <2>1, <2>4, <2>6
  <1> QED BY <1>2, <1>3

\* An hour's fees are natural, with or without a pull.
LEMMA FeesNat ==
  ASSUME NEW b \in GoodBook, NEW minutes \in Seq(Minute), NEW pips \in Nat,
         NEW bin \in Nat \cup {NoBin}, NEW mode
  PROVE  LET fees == BookFeeForHour(b, minutes, pips, bin, mode)
         IN  fees.total \in Nat /\ fees.guard \in Nat
  <1> DEFINE parts == BookFeeParts(b, minutes, pips, mode)
             bothL == b.base + GuardL(b)
             shared == (parts.both * GuardL(b)) \div bothL
             alone == Positive(parts.total - parts.both - parts.base)
             kept == IF bin = NoBin THEN shared ELSE (shared * bin) \div BinsPerHour
  <1>1. parts.total \in Nat /\ parts.both \in Nat /\ parts.base \in Nat
    BY BookPartsNat
  <1>2. b.base \in Nat /\ GuardL(b) \in Nat
    BY DEF GoodBook, Book, GuardL
  <1> HIDE DEF parts
  <1>3. alone \in Nat
    BY <1>1 DEF Positive, Greatest
  <1>4. CASE bothL > 0 /\ HasPositions(b)
    <2>1. shared \in Nat /\ shared <= parts.both
      <3>1. bothL \in Nat \ {0} /\ GuardL(b) <= bothL
        BY <1>2, <1>4
      <3> HIDE DEF bothL
      <3> QED BY <1>1, <1>2, <3>1, ShareBound
    <2> HIDE DEF shared
    <2>2. kept \in Nat
      <3>1. CASE bin = NoBin
        BY <2>1, <3>1
      <3>2. CASE bin # NoBin
        <4>1. bin \in Nat /\ BinsPerHour \in Nat \ {0}
          BY <3>2, TickAssumption
        <4>2. shared * bin \in Nat
          BY <2>1, <4>1, ProductNat
        <4>3. (shared * bin) \div BinsPerHour \in Nat
          BY <4>1, <4>2, DivFloor
        <4> QED BY <3>2, <4>3
      <3> QED BY <3>1, <3>2
    <2>3. BookFeeForHour(b, minutes, pips, bin, mode)
            = [total |-> alone + kept + parts.base + parts.both - shared, guard |-> alone + kept]
      BY <1>4, Zenon DEF BookFeeForHour, FeesOfParts, PartsOfGuard, parts, shared
    <2> HIDE DEF kept, alone
    <2>4. alone + kept + parts.base + parts.both - shared \in Nat /\ alone + kept \in Nat
      BY <1>1, <1>3, <2>1, <2>2
    <2> QED BY <2>3, <2>4
  <1>5. CASE ~(bothL > 0 /\ HasPositions(b))
    <2>1. BookFeeForHour(b, minutes, pips, bin, mode) = [total |-> parts.total, guard |-> 0]
      BY <1>5 DEF BookFeeForHour, FeesOfParts, parts
    <2> QED BY <1>1, <2>1
  <1> QED BY <1>4, <1>5

-----------------------------------------------------------------------------
(* The income of an hour.                                                           *)

\* Even, and without flows of income once enough hours have brought some.
Earning(q, r, t) == Even(q, r, t) /\ (income = MaxIncome => SameIncome(q, r))

LEMMA EarningTransitive ==
  ASSUME NEW t, NEW q, NEW r, NEW s, Earning(q, r, t), Earning(r, s, t)
  PROVE  Earning(q, s, t)
  BY DEF Earning, Even, SameIncome

LEMMA AccountedEarns ==
  ASSUME NEW t, NEW q, NEW r, Accounted(q, r, t)
  PROVE  Earning(q, r, t)
  BY DEF Earning, Accounted

\* Tokens that move between a book and what is idle are worth the same in either place.
LEMMA TokensMoved ==
  ASSUME NEW q \in Portfolios, NEW t \in DOMAIN PriceAt, NEW i \in Books, NEW c \in GoodBook,
         NEW u \in Nat, NEW n \in Nat, c.fees = q.books[i].fees,
         u + BookUsdg(c, t) = q.usdg + BookUsdg(q.books[i], t),
         n + BookNvda(c, t) = q.nvda + BookNvda(q.books[i], t)
  PROVE  LET r == With(q, q.active, u, n, q.arm, [q.books EXCEPT ![i] = c], q.cum)
         IN  Accounted(q, r, t) /\ r.books = [q.books EXCEPT ![i] = c]
  <1> DEFINE b == q.books[i]
             B == [q.books EXCEPT ![i] = c]
             r == With(q, q.active, u, n, q.arm, B, q.cum)
             P == PriceAt[t]
             o == q.nvda
             x == BookNvda(b, t)
             y == BookNvda(c, t)
             v == BookUsdg(b, t)
             w == BookUsdg(c, t)
             F == Flow(q.cum)
             g == q.usdg
             e == b.fees
  <1>1. b \in GoodBook /\ q.active \in Books /\ q.arm \in Arm /\ q.cum \in Flows
    BY Parts0 DEF Books
  <1>2. /\ P \in Nat /\ o \in Nat /\ x \in Nat /\ y \in Nat /\ v \in Nat /\ w \in Nat
        /\ F \in Int /\ g \in Nat /\ e \in Nat
    BY <1>1, Prices, Parts0, BookAmounts, NavTypes
  <1>3. BookValue(b, t) = e + v + x * P /\ BookValue(c, t) = e + w + y * P
    BY DEF BookValue
  <1>4. (u + n * P + BookValue(c, t)) - F = (g + o * P + BookValue(b, t)) - F
    <2>1. u + w = g + v /\ n + y = o + x
      OBVIOUS
    <2> HIDE DEF b, P, o, x, y, v, w, F, g, e
    <2>2. (n + y) * P = n * P + y * P /\ (o + x) * P = o * P + x * P
      BY <1>2, Products
    <2> DEFINE a1 == n * P
               a2 == y * P
               a3 == o * P
               a4 == x * P
    <2>3. a1 + a2 = a3 + a4 /\ a1 \in Nat /\ a2 \in Nat /\ a3 \in Nat /\ a4 \in Nat
      BY <1>2, <2>1, <2>2, ProductNat
    <2>4. BookValue(b, t) = e + v + a4 /\ BookValue(c, t) = e + w + a2
      BY <1>3
    <2> HIDE DEF a1, a2, a3, a4
    <2>5. (u + a1 + BookValue(c, t)) - F = (g + a3 + BookValue(b, t)) - F
      BY <1>2, <2>1, <2>3, <2>4
    <2> QED BY <2>5 DEF a1, a3
  <1>5. Even(q, r, t)
    BY <1>1, <1>4, BookStep
  <1>6. B \in [Books -> GoodBook]
    BY Parts0
  <1>7. r.arm = q.arm /\ r.cum = q.cum /\ r.books = B
    <2> HIDE DEF B
    <2> QED BY <1>1, <1>6, WithParts
  <1> HIDE DEF r
  <1>8. Accounted(q, r, t) /\ r.books = B
    BY <1>5, <1>7 DEF Accounted, SamePledge, SameIncome
  <1> QED BY <1>8 DEF r

\* Nothing of the books but the fees of one is other than it was.
FeesMoved(q, r, i) ==
    \E f \in Nat : r.books = [q.books EXCEPT ![i] = [q.books[i] EXCEPT !.fees = f]]

\* Fees credited to a book are recorded as fees.
LEMMA CreditedEarns ==
  ASSUME NEW q \in Portfolios, NEW t \in DOMAIN PriceAt, NEW i \in Books, NEW fees,
         fees.total \in Nat, fees.guard \in Nat, income \in Int, income <= MaxIncome
  PROVE  LET r == Credited(q, i, fees)
         IN  Earning(q, r, t) /\ FeesMoved(q, r, i)
  <1> DEFINE r == Credited(q, i, fees)
             b == q.books[i]
  <1>1. b \in GoodBook /\ b.fees \in Nat /\ BookValue(b, t) \in Nat
    BY Parts0, BookAmounts DEF Books
  <1>2. CASE ~(income < MaxIncome)
    <2>1. r = q
      BY <1>2 DEF Credited
    <2>2. q.books = [q.books EXCEPT ![i] = [q.books[i] EXCEPT !.fees = b.fees]]
      BY Parts0 DEF GoodBook, Book
    <2> QED BY <1>1, <2>1, <2>2, AccountedSelf, AccountedEarns DEF FeesMoved
  <1>3. CASE income < MaxIncome
    <2> DEFINE x == fees.total
               y == fees.guard
               f == b.fees + x
               c == [b EXCEPT !.fees = f]
               B == [q.books EXCEPT ![i] = c]
               C == [q.cum EXCEPT !.fees = @ + x, !.guardFees = @ + y]
               s == [q EXCEPT !.books[i].fees = @ + x, !.cum.fees = @ + x,
                              !.cum.guardFees = @ + y]
    <2>1. r = s
      BY <1>3 DEF Credited
    <2>2. s = With(q, q.active, q.usdg, q.nvda, q.arm, B, C)
      BY Zenon DEF With, Portfolios, Books
    <2> HIDE DEF r, s, b
    <2>3. x \in Nat /\ y \in Nat /\ f \in Nat
      BY <1>1
    <2> HIDE DEF x, y, f
    <2>4. c \in GoodBook /\ BookValue(c, t) = BookValue(b, t) + f - b.fees
      BY <1>1, <2>3, OtherFees
    <2>5. C \in Flows /\ Flow(C) = Flow(q.cum) + x
      <3>1. q.cum \in [FlowNames -> Nat] /\ DOMAIN NoFlow = FlowNames
        BY Parts0, FlowDomain DEF Flows
      <3>2. q.cum.fees \in Nat /\ q.cum.guardFees \in Nat
        BY <3>1 DEF FlowNames
      <3>3. C \in [FlowNames -> Nat] /\ C.fees = q.cum.fees + x
            /\ \A f0 \in FlowNames \ {"fees", "guardFees"} : C[f0] = q.cum[f0]
        <4> DEFINE c1 == q.cum
                   z == c1.fees + x
                   w == c1.guardFees + y
                   D1 == [c1 EXCEPT !.fees = z, !.guardFees = w]
        <4>1. z \in Nat /\ w \in Nat /\ c1 \in [FlowNames -> Nat]
          BY <2>3, <3>1, <3>2
        <4>2. C = D1
          OBVIOUS
        <4> HIDE DEF c1, z, w, C
        <4>3. D1 \in [FlowNames -> Nat]
              /\ \A f0 \in FlowNames \ {"fees", "guardFees"} : D1[f0] = c1[f0]
          BY <4>1
        <4>4. D1.fees = z
          BY <4>1 DEF FlowNames
        <4> HIDE DEF D1
        <4> QED BY <4>2, <4>3, <4>4 DEF z, c1
      <3> HIDE DEF C
      <3>4. Flow(C) = Flow(q.cum) + x
        BY <2>3, <3>1, <3>3 DEF Flow, FlowNames
      <3> QED BY <3>1, <3>3, <3>4 DEF Flows
    <2>6. B \in [Books -> GoodBook]
      <3> HIDE DEF c
      <3> QED BY <2>4, Parts0
    <2> HIDE DEF c, C
    <2>7. (q.usdg + q.nvda * PriceAt[t] + BookValue(c, t)) - Flow(C)
            = (q.usdg + q.nvda * PriceAt[t] + BookValue(b, t)) - Flow(q.cum)
      <3> DEFINE o == q.nvda * PriceAt[t]
                 F == Flow(q.cum)
                 g == q.usdg
                 h == b.fees
      <3>1. o \in Nat /\ F \in Int /\ g \in Nat /\ h \in Nat /\ f = h + x
        BY <1>1, Parts0, NavTypes DEF f
      <3>2. Flow(C) = F + x /\ BookValue(c, t) = BookValue(b, t) + f - h
        BY <2>4, <2>5
      <3> HIDE DEF o, F, g, h
      <3>3. (g + o + BookValue(c, t)) - Flow(C) = (g + o + BookValue(b, t)) - F
        BY <1>1, <2>3, <3>1, <3>2
      <3> QED BY <3>3 DEF o, F, g
    <2>8. Even(q, s, t)
      BY <2>2, <2>4, <2>5, <2>7, Parts0, BookStep DEF b
    <2>9. s.books = B
      <3> DEFINE w == With(q, q.active, q.usdg, q.nvda, q.arm, B, C)
      <3> HIDE DEF B
      <3>1. w.books = B
        BY <2>5, <2>6, Parts0, WithParts
      <3>2. s = w
        BY <2>2
      <3> HIDE DEF w
      <3> QED BY <3>1, <3>2
    <2>10. income # MaxIncome
      BY <1>3, HoursAssumption
    <2>11. Earning(q, r, t)
      BY <2>1, <2>8, <2>10 DEF Earning
    <2> QED BY <2>1, <2>3, <2>9, <2>11 DEF r, b, c, FeesMoved
  <1> QED BY <1>2, <1>3, HoursAssumption

\* The tokens of a guard that is pulled are idle.
LEMMA PulledAccounted ==
  ASSUME NEW q \in Portfolios, NEW i \in Books, env \in Hours,
         q.books[i].deployed, q.books[i].present
  PROVE  Accounted(q, Pulled(q, i), env.tick) /\ Pulled(q, i).books[i].deployed
  <1> DEFINE t == env.tick
             b == q.books[i]
             x == Usdg(b.guard, b.guardLo, b.guardHi, t)
             y == Nvda(b.guard, b.guardLo, b.guardHi, t)
             u == q.usdg + x
             n == q.nvda + y
             c == [b EXCEPT !.guard = 0, !.present = FALSE, !.since = 0]
             B == [q.books EXCEPT ![i] = c]
             r == Pulled(q, i)
  <1>1. b \in GoodBook /\ t \in DOMAIN PriceAt /\ t \in Int /\ q.usdg \in Nat /\ q.nvda \in Nat
    BY Parts0, HourTypes DEF Books
  <1>2. /\ b.base \in Nat /\ b.baseLo \in Int /\ b.baseHi \in Int /\ b.baseLo <= b.baseHi
        /\ b.guard \in Nat /\ b.guardLo \in Int /\ b.guardHi \in Int /\ b.guardLo <= b.guardHi
    BY <1>1 DEF GoodBook, Book
  <1>3. x \in Nat /\ y \in Nat
    BY <1>1, <1>2, RangeAmounts
  <1>4. /\ c \in GoodBook /\ c.deployed = b.deployed /\ c.base = b.base /\ c.baseLo = b.baseLo
        /\ c.baseHi = b.baseHi /\ c.guardLo = b.guardLo /\ c.guardHi = b.guardHi
        /\ c.fees = b.fees /\ GuardL(c) = 0
    <2> HIDE DEF b
    <2> QED BY <1>1 DEF GoodBook, Book, GuardL
  <1>5. r = With(q, q.active, u, n, q.arm, B, q.cum)
    <2>1. q.books \in [Books -> GoodBook]
      BY Parts0
    <2> DEFINE q1 == [q EXCEPT !.usdg = u, !.nvda = n]
               B1 == [q1.books EXCEPT ![i] = [q1.books[i] EXCEPT !.guard = 0, !.present = FALSE, !.since = 0]]
               s1 == [q1 EXCEPT !.books[i].guard = 0, !.books[i].present = FALSE, !.books[i].since = 0]
    <2>2. /\ q1.books = q.books /\ q1.books \in [Books -> GoodBook]
          /\ q1 \in [active : Books, books : [Books -> GoodBook], usdg : {u}, nvda : {n},
                    arm : Arm, cum : Flows]
      <3> HIDE DEF u, n
      <3> QED BY <2>1 DEF Portfolios
    <2>3. r = s1
      BY Zenon DEF Pulled
    <2>4. s1 = [q1 EXCEPT !.books = B1]
      <3> HIDE DEF q1, u, n, c, B
      <3> QED BY <2>2
    <2>5. [q1 EXCEPT !.books = B1] = [q EXCEPT !.usdg = u, !.nvda = n, !.books = B]
      <3>1. B1 = B
        BY <2>2, Zenon
      <3> HIDE DEF B, B1
      <3> QED BY <3>1, Zenon
    <2> HIDE DEF s1, q1, B1, r, c, u, n, B
    <2>6. r = [q EXCEPT !.usdg = u, !.nvda = n, !.books = B]
      BY <2>3, <2>4, <2>5
    <2>7. [q EXCEPT !.usdg = u, !.nvda = n, !.books = B]
            = With(q, q.active, u, n, q.arm, B, q.cum)
      BY Zenon DEF With, Portfolios
    <2> QED BY <2>6, <2>7
  <1>6. BookUsdg(c, t) + x = BookUsdg(b, t) /\ BookNvda(c, t) + y = BookNvda(b, t)
    <2>1. Usdg(0, b.guardLo, b.guardHi, t) = 0 /\ Nvda(0, b.guardLo, b.guardHi, t) = 0
      BY <1>1, <1>2, RangeAmounts
    <2>2. b.deployed /\ GuardL(b) = b.guard
      BY DEF GuardL
    <2>3. Usdg(b.base, b.baseLo, b.baseHi, t) \in Nat /\ Nvda(b.base, b.baseLo, b.baseHi, t) \in Nat
      BY <1>1, <1>2, RangeAmounts
    <2> HIDE DEF b, c, t
    <2> QED BY <1>3, <1>4, <2>1, <2>2, <2>3 DEF BookUsdg, BookNvda, x, y
  <1> HIDE DEF c, x, y, r, t
  <1>7. u \in Nat /\ n \in Nat /\ BookUsdg(c, t) \in Nat /\ BookNvda(c, t) \in Nat
    BY <1>1, <1>3, <1>4, BookAmounts
  <1>8. u + BookUsdg(c, t) = q.usdg + BookUsdg(b, t) /\ n + BookNvda(c, t) = q.nvda + BookNvda(b, t)
    BY <1>1, <1>3, <1>6, <1>7
  <1> DEFINE w == With(q, q.active, u, n, q.arm, B, q.cum)
  <1>9. Accounted(q, w, t) /\ w.books = B
    <2> HIDE DEF u, n
    <2> QED BY <1>1, <1>4, <1>7, <1>8, TokensMoved
  <1>10. r = w
    BY <1>5
  <1> HIDE DEF w
  <1>11. B[i].deployed
    BY <1>4, Parts0
  <1> QED BY <1>9, <1>10, <1>11 DEF r, t

\* The tokens of a guard that comes back were idle.
LEMMA RearmedAccounted ==
  ASSUME NEW q \in Portfolios, NEW i \in Books, NEW target \in Nat, env \in Hours,
         params \in Configs, q.books[i].deployed, ~q.books[i].present
  PROVE  Accounted(q, Rearmed(q, i, target), env.tick)
  <1> DEFINE t == env.tick
             b == q.books[i]
             lo == t - params.guardWidth
             hi == t + params.guardWidth
             T == {k \in 0 .. target : Usdg(k, lo, hi, t) <= q.usdg /\ Nvda(k, lo, hi, t) <= q.nvda}
             l == Max(T)
             x == Usdg(l, lo, hi, t)
             y == Nvda(l, lo, hi, t)
             u == q.usdg - x
             n == q.nvda - y
             c == [b EXCEPT !.guard = l, !.present = TRUE, !.guardLo = lo, !.guardHi = hi,
                            !.since = NoPull]
             B == [q.books EXCEPT ![i] = c]
             r == Rearmed(q, i, target)
             s == [q EXCEPT !.usdg = @ - x, !.nvda = @ - y,
                            !.books[i].guard = l, !.books[i].present = TRUE,
                            !.books[i].guardLo = lo, !.books[i].guardHi = hi,
                            !.books[i].since = NoPull]
  <1>1. b \in GoodBook /\ t \in DOMAIN PriceAt /\ t \in Int /\ q.usdg \in Nat /\ q.nvda \in Nat
    BY Parts0, HourTypes DEF Books
  <1>2. /\ b.base \in Nat /\ b.baseLo \in Int /\ b.baseHi \in Int /\ b.baseLo <= b.baseHi
        /\ b.guard \in Nat /\ b.guardLo \in Int /\ b.guardHi \in Int /\ b.guardLo <= b.guardHi
    BY <1>1 DEF GoodBook, Book
  <1>3. lo \in Int /\ hi \in Int /\ lo <= hi
    BY <1>1, Params
  <1>4. l \in Nat /\ x <= q.usdg /\ y <= q.nvda
    <2>1. Usdg(0, lo, hi, t) = 0 /\ Nvda(0, lo, hi, t) = 0
      <3> HIDE DEF lo, hi, t
      <3> QED BY <1>1, <1>3, RangeAmounts
    <2>2. T \in SUBSET (0 .. target) /\ T # {}
      <3>1. 0 \in T
        <4> HIDE DEF lo, hi, t
        <4> QED BY <1>1, <2>1
      <3> QED BY <3>1
    <2>3. l \in T
      <3> HIDE DEF T
      <3> QED BY <2>2, MaxInRange
    <2> HIDE DEF l
    <2>4. /\ l \in 0 .. target /\ Usdg(l, lo, hi, t) <= q.usdg /\ Nvda(l, lo, hi, t) <= q.nvda
      <3> HIDE DEF lo, hi, t
      <3> QED BY <2>3
    <2> QED BY <2>4
  <1>5. r = IF l = 0 THEN q ELSE s
    BY DEF Rearmed
  <1> HIDE DEF l, r
  <1>6. x \in Nat /\ y \in Nat
    <2> HIDE DEF lo, hi, t
    <2> QED BY <1>1, <1>3, <1>4, RangeAmounts
  <1>7. s = With(q, q.active, u, n, q.arm, B, q.cum)
    <2>1. q.books \in [Books -> GoodBook]
      BY Parts0
    <2> HIDE DEF lo, hi, t, x, y
    <2> DEFINE q1 == [q EXCEPT !.usdg = u, !.nvda = n]
               B1 == [q1.books EXCEPT ![i] = [q1.books[i] EXCEPT !.guard = l, !.present = TRUE,
                                                            !.guardLo = lo, !.guardHi = hi,
                                                            !.since = NoPull]]
               s1 == [q1 EXCEPT !.books[i].guard = l, !.books[i].present = TRUE,
                               !.books[i].guardLo = lo, !.books[i].guardHi = hi,
                               !.books[i].since = NoPull]
    <2>2. /\ q1.books = q.books /\ q1.books \in [Books -> GoodBook]
          /\ q1 \in [active : Books, books : [Books -> GoodBook], usdg : {u}, nvda : {n},
                    arm : Arm, cum : Flows]
      <3> HIDE DEF u, n
      <3> QED BY <2>1 DEF Portfolios
    <2>3. s = s1
      BY Zenon
    <2>4. s1 = [q1 EXCEPT !.books = B1]
      <3> DEFINE b2 == q1.books
                 B2 == [b2 EXCEPT ![i].guard = l, ![i].present = TRUE, ![i].guardLo = lo,
                                  ![i].guardHi = hi, ![i].since = NoPull]
      <3> HIDE DEF q1, u, n, c, B
      <3>1. s1 = [q1 EXCEPT !.books = B2]
        BY <2>2
      <3>2. b2 \in [Books -> GoodBook]
        BY <2>2
      <3> HIDE DEF b2
      <3>3. B2 = [b2 EXCEPT ![i] = [b2[i] EXCEPT !.guard = l, !.present = TRUE, !.guardLo = lo,
                                                 !.guardHi = hi, !.since = NoPull]]
        BY <3>2
      <3>4. B1 = [b2 EXCEPT ![i] = [b2[i] EXCEPT !.guard = l, !.present = TRUE, !.guardLo = lo,
                                                 !.guardHi = hi, !.since = NoPull]]
        BY DEF b2
      <3> HIDE DEF B1, B2, s1
      <3> QED BY <3>1, <3>3, <3>4
    <2>5. [q1 EXCEPT !.books = B1] = [q EXCEPT !.usdg = u, !.nvda = n, !.books = B]
      <3>1. B1 = B
        BY <2>2, Zenon
      <3> HIDE DEF B, B1
      <3> QED BY <3>1, Zenon
    <2> HIDE DEF s1, q1, B1, s, c, u, n, B
    <2>6. s = [q EXCEPT !.usdg = u, !.nvda = n, !.books = B]
      BY <2>3, <2>4, <2>5
    <2>7. [q EXCEPT !.usdg = u, !.nvda = n, !.books = B]
            = With(q, q.active, u, n, q.arm, B, q.cum)
      BY Zenon DEF With, Portfolios
    <2> QED BY <2>6, <2>7
  <1> HIDE DEF s
  <1>8. /\ c \in GoodBook /\ c.deployed = b.deployed /\ c.base = b.base /\ c.baseLo = b.baseLo
        /\ c.baseHi = b.baseHi /\ c.guardLo = lo /\ c.guardHi = hi
        /\ c.fees = b.fees /\ GuardL(c) = l
    <2> HIDE DEF b, lo, hi
    <2> QED BY <1>1, <1>3, <1>4 DEF GoodBook, Book, GuardL
  <1>9. BookUsdg(c, t) = BookUsdg(b, t) + x /\ BookNvda(c, t) = BookNvda(b, t) + y
    <2>1. Usdg(0, b.guardLo, b.guardHi, t) = 0 /\ Nvda(0, b.guardLo, b.guardHi, t) = 0
      <3> DEFINE gl == b.guardLo
                 gh == b.guardHi
      <3>1. gl \in Int /\ gh \in Int /\ gl <= gh /\ t \in Int
        BY <1>1, <1>2
      <3> HIDE DEF gl, gh, t, lo, hi, l, c, x, y
      <3>2. Usdg(0, gl, gh, t) = 0 /\ Nvda(0, gl, gh, t) = 0
        BY <3>1, RangeAmounts
      <3> QED BY <3>2 DEF gl, gh
    <2>2. b.deployed /\ GuardL(b) = 0
      BY DEF GuardL
    <2>3. Usdg(b.base, b.baseLo, b.baseHi, t) \in Nat /\ Nvda(b.base, b.baseLo, b.baseHi, t) \in Nat
      BY <1>1, <1>2, RangeAmounts
    <2> HIDE DEF b, c, t, lo, hi
    <2> QED BY <1>6, <1>8, <2>1, <2>2, <2>3 DEF BookUsdg, BookNvda, x, y
  <1> HIDE DEF c, x, y, t, lo, hi
  <1>10. u \in Nat /\ n \in Nat /\ BookUsdg(b, t) \in Nat /\ BookNvda(b, t) \in Nat
    BY <1>1, <1>4, <1>6, BookAmounts
  <1>11. u + BookUsdg(c, t) = q.usdg + BookUsdg(b, t) /\ n + BookNvda(c, t) = q.nvda + BookNvda(b, t)
    BY <1>1, <1>6, <1>9, <1>10
  <1> DEFINE w == With(q, q.active, u, n, q.arm, B, q.cum)
  <1>12. Accounted(q, w, t)
    <2> HIDE DEF u, n
    <2> QED BY <1>1, <1>8, <1>10, <1>11, TokensMoved
  <1> HIDE DEF w
  <1>13. s = w
    BY <1>7 DEF w
  <1>14. Accounted(q, q, t)
    BY AccountedSelf
  <1> QED BY <1>5, <1>12, <1>13, <1>14 DEF r, t

LEMMA MinutesTyped ==
  ASSUME env \in Hours, params \in Configs, NEW i \in Books
  PROVE  /\ env.books[i].minutes \in Seq(Minute) /\ env.books[i].moves \in Seq(Int)
         /\ Pips(i, params) \in Nat
  BY HoursAssumption, Params DEF Pips

\* The fees of a deployed book, and the pull of its guard.
LEMMA WithFeesEarns ==
  ASSUME NEW q \in Portfolios, NEW i \in Books, env \in Hours, params \in Configs,
         income \in Int, income <= MaxIncome, q.books[i].deployed,
         NEW bin \in Nat \cup {NoBin}
  PROVE  /\ Earning(q, WithFees(q, i, bin), env.tick)
         /\ WithFees(q, i, bin).books[i].deployed
  <1> DEFINE b == q.books[i]
             charge(at) == BookFeeForHour(b, env.books[i].minutes, Pips(i, params), at,
                                        params.feeMode)
             paid(at) == Credited(q, i, charge(at))
             t == env.tick
  <1>1. b \in GoodBook /\ t \in DOMAIN PriceAt /\ NoBin \in Nat \cup {NoBin}
    BY Parts0, HourTypes DEF Books
  <1>2. ASSUME NEW at \in Nat \cup {NoBin}
        PROVE  /\ Earning(q, paid(at), t) /\ paid(at) \in Portfolios
               /\ paid(at).books[i].deployed /\ paid(at).books[i].present = b.present
    <2> DEFINE f == charge(at)
               r == Credited(q, i, f)
    <2>1. f.total \in Nat /\ f.guard \in Nat
      <3> HIDE DEF b
      <3> QED BY <1>1, MinutesTyped, FeesNat
    <2> HIDE DEF f
    <2>2. Earning(q, r, t) /\ FeesMoved(q, r, i)
      <3>1. t \in DOMAIN PriceAt
        BY <1>1
      <3> HIDE DEF t
      <3> QED BY <2>1, <3>1, CreditedEarns
    <2> HIDE DEF r
    <2>3. PICK g \in Nat : r.books = [q.books EXCEPT ![i] = [q.books[i] EXCEPT !.fees = g]]
      BY <2>2 DEF FeesMoved
    <2>4. r.books[i] = [b EXCEPT !.fees = g]
      BY <2>3, Parts0
    <2>5. r.books[i].deployed /\ r.books[i].present = b.present
      <3> HIDE DEF b
      <3>1. b.deployed
        BY DEF b
      <3> QED BY <1>1, <2>4, <3>1 DEF GoodBook, Book
    <2>6. r \in Portfolios
      BY <2>2 DEF Earning, Even
    <2> QED BY <2>2, <2>5, <2>6 DEF r, f
  <1>3. WithFees(q, i, bin) = IF bin = NoBin \/ GuardL(b) = 0 THEN paid(NoBin)
                              ELSE Pulled(paid(bin), i)
    BY DEF WithFees
  <1> HIDE DEF paid
  <1>4. CASE bin = NoBin \/ GuardL(b) = 0
    BY <1>1, <1>2, <1>3, <1>4
  <1>5. CASE ~(bin = NoBin \/ GuardL(b) = 0)
    <2>1. b.present
      BY <1>1, <1>5 DEF GuardL, GoodBook, Book
    <2> DEFINE r == paid(bin)
    <2>2. Earning(q, r, t) /\ r \in Portfolios /\ r.books[i].deployed /\ r.books[i].present
      BY <1>2, <2>1
    <2> HIDE DEF r
    <2>3. Accounted(r, Pulled(r, i), t) /\ Pulled(r, i).books[i].deployed
      BY <2>2, PulledAccounted
    <2>4. Earning(q, Pulled(r, i), t)
      BY <2>2, <2>3, AccountedEarns, EarningTransitive
    <2> QED BY <1>3, <1>5, <2>3, <2>4 DEF r
  <1> QED BY <1>4, <1>5

\* The guard that comes back, and what is bought for it.
LEMMA WithRearmAccounted ==
  ASSUME NEW q \in Portfolios, NEW i \in Books, env \in Hours, params \in Configs,
         q.books[i].deployed, NEW signal
  PROVE  Accounted(q, WithRearm(q, i, signal), env.tick)
  <1> DEFINE b == q.books[i]
             t == env.tick
             lo == t - params.guardWidth
             hi == t + params.guardWidth
             target == (params.targetGuard * b.base) \div params.targetBase
             x == Usdg(target, lo, hi, t)
             y == Nvda(target, lo, hi, t)
             cost == params.swapCostBps
             bought == SwapDeficit(q, x, y, env, cost)
             r == WithRearm(q, i, signal)
  <1>1. \/ r = q
        \/ /\ ~b.present
           /\ r = Rearmed(IF params.fundingMode = "swap" THEN bought ELSE q, i, target)
    BY Zenon DEF WithRearm
  <1>2. b \in GoodBook /\ b.base \in Nat /\ t \in Int /\ cost \in Nat
        /\ lo \in Int /\ hi \in Int /\ lo <= hi
    <2>1. b \in GoodBook
      BY Parts0 DEF Books
    <2>2. t \in Int /\ params.guardWidth \in Nat /\ cost \in Nat
      BY HourTypes, Params
    <2> HIDE DEF b
    <2> QED BY <2>1, <2>2 DEF GoodBook, Book
  <1>3. target \in Nat
    <2>1. params.targetGuard * b.base \in Nat /\ params.targetBase \in Nat \ {0}
      BY <1>2, Targets, ProductNat
    <2> QED BY <2>1, DivFloor
  <1> HIDE DEF target
  <1>4. x \in Nat /\ y \in Nat
    <2> HIDE DEF lo, hi, t
    <2> QED BY <1>2, <1>3, RangeAmounts
  <1> HIDE DEF x, y, lo, hi, cost
  <1>5. Accounted(q, bought, t) /\ bought.books = q.books
    BY <1>2, <1>4, SwapDeficitAccounted
  <1> HIDE DEF bought, r
  <1>6. CASE r = q
    BY <1>6, AccountedSelf DEF r
  <1>7. CASE ~b.present /\ r = Rearmed(IF params.fundingMode = "swap" THEN bought ELSE q, i, target)
    <2> DEFINE held == IF params.fundingMode = "swap" THEN bought ELSE q
    <2>1. Accounted(q, held, t) /\ held.books = q.books
      BY <1>5, AccountedSelf
    <2>2. held \in Portfolios /\ held.books[i].deployed /\ ~held.books[i].present
      BY <1>7, <2>1 DEF Accounted, Even
    <2>3. r = Rearmed(held, i, target)
      BY <1>7
    <2> HIDE DEF held
    <2>4. Accounted(held, Rearmed(held, i, target), t)
      BY <1>3, <2>2, RearmedAccounted
    <2> QED BY <2>1, <2>3, <2>4, AccountedTransitive DEF r
  <1> QED BY <1>1, <1>6, <1>7

LEMMA BookIncomeEarns ==
  ASSUME NEW q \in Portfolios, NEW i \in Books, env \in Hours, params \in Configs,
         income \in Int, income <= MaxIncome
  PROVE  Earning(q, BookIncome(q, i), env.tick)
  <1>1. CASE ~q.books[i].deployed
    BY <1>1, AccountedSelf, AccountedEarns DEF BookIncome
  <1>2. CASE q.books[i].deployed
    <2> DEFINE bin == PulledAt(q.books[i], i)
               r == WithFees(q, i, bin)
               signal == RearmSignal(q.books[i], i)
    <2>1. bin \in Nat \cup {NoBin}
      BY MinutesTyped, PullBinType DEF PulledAt
    <2>2. BookIncome(q, i) = WithRearm(r, i, signal)
      BY <1>2 DEF BookIncome
    <2> HIDE DEF bin, signal
    <2>3. Earning(q, r, env.tick) /\ r.books[i].deployed
      BY <1>2, <2>1, WithFeesEarns
    <2> HIDE DEF r
    <2>4. r \in Portfolios
      BY <2>3 DEF Earning, Even
    <2>5. Accounted(r, WithRearm(r, i, signal), env.tick)
      BY <2>3, <2>4, WithRearmAccounted
    <2> QED BY <2>2, <2>3, <2>5, AccountedEarns, EarningTransitive
  <1> QED BY <1>1, <1>2

\* Interest moves the arms by what is recorded.
LEMMA WithInterestEarns ==
  ASSUME NEW q \in Portfolios, env \in Hours, params \in Configs
  PROVE  Earning(q, WithInterest(q), env.tick)
  <1> DEFINE arm == q.arm
             P == Price(env)
             t == env.tick
             worth == arm.nvda * P
             rate == IF params.netYield /\ worth > 0
                     THEN params.nvdaRate + (arm.debt * params.borrowRate) \div worth
                     ELSE params.nvdaRate
             lent == (arm.lent * params.lendRate) \div BPS
             owed == (arm.debt * params.borrowRate) \div BPS
             yield == (arm.nvda * rate) \div BPS
             gain == yield * P
             A == [q.arm EXCEPT !.lent = @ + lent, !.debt = @ + owed, !.nvda = @ + yield]
             C == [q.cum EXCEPT !.interest = @ + lent, !.borrow = @ + owed, !.yield = @ + gain]
             s == [q EXCEPT !.arm.lent = @ + lent, !.arm.debt = @ + owed, !.arm.nvda = @ + yield,
                            !.cum.interest = @ + lent, !.cum.borrow = @ + owed,
                            !.cum.yield = @ + gain]
             r == WithInterest(q)
  <1>1. CASE income = MaxIncome
    BY <1>1, AccountedSelf, AccountedEarns DEF WithInterest
  <1>2. CASE income # MaxIncome
    <2>1. /\ t \in DOMAIN PriceAt /\ P \in Nat \ {0} /\ P = PriceAt[t] /\ BPS \in Nat \ {0}
          /\ arm \in Arm /\ arm.nvda \in Nat /\ arm.lent \in Nat /\ arm.debt \in Nat
          /\ arm.bad \in Nat /\ params.nvdaRate \in Nat /\ params.lendRate \in Nat
          /\ params.borrowRate \in Nat
      BY HourTypes, Parts0, DustAssumption, Params
    <2>2. worth \in Nat
      BY <2>1, ProductNat
    <2>3. lent \in Nat /\ owed \in Nat
      <3>1. arm.lent * params.lendRate \in Nat /\ arm.debt * params.borrowRate \in Nat
        BY <2>1, ProductNat
      <3> QED BY <2>1, <3>1, DivFloor
    <2>4. rate \in Nat
      <3>1. arm.debt * params.borrowRate \in Nat
        BY <2>1, ProductNat
      <3>2. worth > 0 => (arm.debt * params.borrowRate) \div worth \in Nat
        <4> HIDE DEF worth
        <4> QED BY <2>2, <3>1, DivFloor
      <3> HIDE DEF worth
      <3> QED BY <2>1, <3>2
    <2> HIDE DEF rate
    <2>5. yield \in Nat
      <3>1. arm.nvda * rate \in Nat
        BY <2>1, <2>4, ProductNat
      <3> QED BY <2>1, <3>1, DivFloor
    <2>6. r = s
      BY <1>2, Zenon DEF WithInterest, rate
    <2> HIDE DEF lent, owed, yield, r
    <2>7. gain \in Nat
      BY <2>1, <2>5, ProductNat
    <2>8. s = With(q, q.active, q.usdg, q.nvda, A, q.books, C)
      <3> HIDE DEF gain
      <3> QED BY Zenon DEF With, Portfolios
    <2> HIDE DEF s
    <2>9. A \in Arm /\ A.lent = arm.lent + lent /\ A.debt = arm.debt + owed
          /\ A.nvda = arm.nvda + yield /\ A.bad = arm.bad
      <3> HIDE DEF arm
      <3> DEFINE x == arm.lent + lent
                 y == arm.debt + owed
                 z == arm.nvda + yield
                 D == [arm EXCEPT !.lent = x, !.debt = y, !.nvda = z]
      <3>1. A = D
        BY DEF arm
      <3>2. x \in Nat /\ y \in Nat /\ z \in Nat
        BY <2>1, <2>3, <2>5
      <3> HIDE DEF A, x, y, z
      <3>3. D \in Arm /\ D.lent = x /\ D.debt = y /\ D.nvda = z /\ D.bad = arm.bad
        BY <2>1, <3>2 DEF Arm
      <3> HIDE DEF D
      <3> QED BY <3>1, <3>3 DEF x, y, z
    <2>10. C \in Flows /\ Flow(C) = Flow(q.cum) + lent + gain - owed
      <3> HIDE DEF gain
      <3> DEFINE c1 == q.cum
                 x == c1.interest + lent
                 y == c1.borrow + owed
                 z == c1.yield + gain
                 D == [c1 EXCEPT !.interest = x, !.borrow = y, !.yield = z]
      <3>1. c1 \in [FlowNames -> Nat] /\ DOMAIN NoFlow = FlowNames
        BY Parts0, FlowDomain DEF Flows
      <3>2. x \in Nat /\ y \in Nat /\ z \in Nat
        <4> HIDE DEF c1
        <4> QED BY <2>3, <2>7, <3>1 DEF FlowNames
      <3>3. C = D
        OBVIOUS
      <3> HIDE DEF c1, x, y, z, C
      <3>4. D \in [FlowNames -> Nat]
        BY <3>1, <3>2
      <3>5. /\ D.interest = x /\ D.borrow = y /\ D.yield = z
            /\ \A f \in FlowNames \ {"interest", "borrow", "yield"} : D[f] = c1[f]
        BY <3>1 DEF FlowNames
      <3> HIDE DEF D
      <3>6. \A f \in FlowNames : c1[f] \in Nat
        BY <3>1
      <3>7. Flow(D) = Flow(c1) + lent + gain - owed
        BY <2>3, <2>7, <3>2, <3>5, <3>6 DEF Flow, FlowNames, x, y, z
      <3> QED BY <3>1, <3>3, <3>4, <3>7 DEF Flows, c1
    <2> HIDE DEF A, C
    <2>11. (q.usdg + q.nvda * PriceAt[t] + ArmEquity(A, PriceAt[t])) - Flow(C)
             = (q.usdg + q.nvda * PriceAt[t] + ArmEquity(q.arm, PriceAt[t])) - Flow(q.cum)
      <3> DEFINE x == q.nvda * PriceAt[t]
                 F == Flow(q.cum)
                 u == q.usdg
                 n == arm.nvda
      <3>1. x \in Int /\ F \in Int /\ u \in Int /\ n \in Int
        BY <2>1, NavTypes, Parts0
      <3>2. ArmEquity(A, P) = ArmEquity(arm, P) + lent + gain - owed /\ ArmEquity(arm, P) \in Int
        <4>1. (n + yield) * P = n * P + yield * P
          <5> HIDE DEF n, P
          <5> QED BY <2>1, <2>5, <3>1, Products DEF n, P
        <4> DEFINE y == n * P
                   z == (n + yield) * P
                   l == arm.lent
                   d == arm.debt
                   v == arm.bad
        <4>2. y \in Nat /\ z = y + gain /\ l \in Nat /\ d \in Nat /\ v \in Nat
          BY <2>1, <2>2, <4>1
        <4>3. ArmEquity(A, P) = z + (l + lent) - (d + owed) - v
          BY <2>9 DEF ArmEquity
        <4>4. ArmEquity(arm, P) = y + l - d - v
          BY DEF ArmEquity
        <4> HIDE DEF y, z, l, d, v, gain, arm
        <4> QED BY <2>3, <2>7, <4>2, <4>3, <4>4
      <3> DEFINE e1 == ArmEquity(A, P)
                 e2 == ArmEquity(arm, P)
      <3>3. e1 = e2 + lent + gain - owed /\ e2 \in Int
        BY <3>2
      <3> HIDE DEF x, F, u, n, e1, e2, gain
      <3>4. (u + x + e1) - Flow(C) = (u + x + e2) - F
        <4>1. Flow(C) = F + lent + gain - owed
          BY <2>10 DEF F
        <4> QED BY <2>3, <2>7, <3>1, <3>3, <4>1
      <3> QED BY <2>1, <3>4 DEF x, F, u, e1, e2
    <2>12. Even(q, s, t)
      BY <2>1, <2>8, <2>9, <2>10, <2>11, Parts0, ArmStep
    <2> QED BY <1>2, <2>6, <2>12 DEF Earning, r, t
  <1> QED BY <1>1, <1>2

-----------------------------------------------------------------------------
(* A handler begins with the flows at nothing.                                      *)

LEMMA NoFlowStarts ==
  ASSUME NEW q \in Portfolios, NEW t \in DOMAIN PriceAt
  PROVE  LET r == [q EXCEPT !.cum = NoFlow]
         IN  /\ r \in Portfolios /\ Ledger(r, t) = Nav(q, t) /\ r.cum = NoFlow
             /\ r.arm = q.arm /\ r.books = q.books /\ r.active = q.active
             /\ r.usdg = q.usdg /\ r.nvda = q.nvda
  <1> DEFINE r == [q EXCEPT !.cum = NoFlow]
  <1>1. /\ r \in Portfolios /\ r.cum = NoFlow /\ r.arm = q.arm /\ r.books = q.books
        /\ r.active = q.active /\ r.usdg = q.usdg /\ r.nvda = q.nvda
    BY FlowDomain DEF Portfolios
  <1> HIDE DEF r
  <1>2. Ledger(r, t) = Nav(q, t)
    <2>1. Nav(r, t) = Nav(q, t)
      BY <1>1 DEF Nav
    <2>2. Nav(r, t) \in Int
      BY <1>1, NavTypes
    <2> QED BY <1>1, <2>1, <2>2, FlowDomain DEF Ledger
  <1> QED BY <1>1, <1>2 DEF r

\* What a handler leaves, when it is even since it began, is booked.
Balanced(q, r, t) == r \in Portfolios /\ Nav(r, t) - Nav(q, t) = Flow(r.cum)

LEMMA EvenIsBalanced ==
  ASSUME NEW q \in Portfolios, NEW t \in DOMAIN PriceAt, NEW s \in Portfolios,
         Ledger(s, t) = Nav(q, t), NEW r, Even(s, r, t)
  PROVE  Balanced(q, r, t)
  <1>1. r \in Portfolios /\ Ledger(r, t) = Nav(q, t)
    BY DEF Even
  <1>2. Nav(r, t) \in Int /\ Nav(q, t) \in Int /\ Flow(r.cum) \in Int
    BY <1>1, NavTypes
  <1> QED BY <1>1, <1>2 DEF Balanced, Ledger

\* The income of an hour is booked, whatever was liquidated, and no more hours than the
\* bound bring any.
LEMMA IncomeBooked ==
  ASSUME Income, pf \in Portfolios, env \in Hours, params \in Configs,
         income \in 0 .. MaxIncome
  PROVE  /\ Balanced(pf, pf', env.tick) /\ Covered(pf', env, params)
         /\ income' \in 0 .. MaxIncome
  <1> DEFINE t == env.tick
             q == [pf EXCEPT !.cum = NoFlow]
             a == BookIncome(q, 0)
             b == BookIncome(a, 1)
             c == WithInterest(b)
  <1>0. income \in Int /\ income <= MaxIncome /\ t \in DOMAIN PriceAt /\ {0, 1} = Books
        /\ MaxIncome \in Nat
    BY HoursAssumption, HourTypes DEF Books
  <1>1. q \in Portfolios /\ Ledger(q, t) = Nav(pf, t) /\ q.cum = NoFlow
    BY <1>0, NoFlowStarts
  <1>2. pf' = Liquidate(c, env, params)
    BY DEF Income
  <1> HIDE DEF q
  <1>3. Earning(q, a, t)
    BY <1>0, <1>1, BookIncomeEarns
  <1> HIDE DEF a
  <1>4. Earning(a, b, t)
    BY <1>0, <1>3, BookIncomeEarns DEF Earning, Even
  <1> HIDE DEF b
  <1>5. Earning(b, c, t)
    BY <1>4, WithInterestEarns DEF Earning, Even
  <1> HIDE DEF c
  <1>6. Earning(q, c, t) /\ c \in Portfolios
    BY <1>3, <1>4, <1>5, EarningTransitive DEF Earning, Even
  <1>7. Even(c, pf', t) /\ SameIncome(c, pf') /\ Covered(pf', env, params)
    BY <1>2, <1>6, LiquidateEven
  <1>8. Even(q, pf', t) /\ (income = MaxIncome => SameIncome(q, pf'))
    BY <1>6, <1>7 DEF Earning, Even, SameIncome
  <1>9. Balanced(pf, pf', t)
    BY <1>0, <1>1, <1>8, EvenIsBalanced
  <1>10. income' \in 0 .. MaxIncome
    <2>1. CASE income < MaxIncome
      <3>1. income' = income + 1 \/ income' = income
        BY DEF Income
      <3> QED BY <1>0, <2>1, <3>1
    <2>2. CASE income = MaxIncome
      <3>1. \A f \in Incomes : pf'.cum[f] = 0
        BY <1>1, <1>8, <2>2 DEF SameIncome, Incomes, NoFlow
      <3>2. income' = income
        BY <3>1 DEF Income, Incomes
      <3> QED BY <3>2
    <2> QED BY <1>0, <2>1, <2>2
  <1> QED BY <1>7, <1>9, <1>10

-----------------------------------------------------------------------------
(* The actions that move capital between what is idle and the arms.                 *)

LEMMA LeastNat ==
  ASSUME NEW a \in Nat, NEW b \in Nat
  PROVE  Least(a, b) \in Nat /\ Least(a, b) <= a /\ Least(a, b) <= b
  BY LeastMonus

\* The room of the arms is a natural, and the debt ends within the size of a borrow.
LEMMA RoomsNat ==
  ASSUME NEW q \in Portfolios, NEW e \in Hours, NEW p \in Configs
  PROVE  /\ CollateralRoom(q, e, p) \in Nat /\ LendRoom(q, e, p) \in Nat
         /\ CollateralRoom(q, e, p) \div Price(e) \in Nat
         /\ BorrowSize(q.arm.nvda * Price(e), p) \in Nat
         /\ BorrowRoom(q, e, p) \in Nat
         /\ BorrowRoom(q, e, p) <= Monus(BorrowSize(q.arm.nvda * Price(e), p), q.arm.debt)
  <1> DEFINE room(rel) == (rel * Positive(Nav(q, e.tick))) \div BPS
             worth == q.arm.nvda * Price(e)
             cap == Least(Least(p.ltv, p.maxLtv), p.hardCap)
             size == BorrowSize(worth, p)
  <1>1. /\ q.arm.nvda \in Nat /\ q.arm.lent \in Nat /\ q.arm.debt \in Nat
        /\ Price(e) \in Nat \ {0} /\ worth \in Nat /\ BPS \in Nat \ {0}
    BY Parts0, HourTypes, ProductNat, DustAssumption
  <1>2. Positive(Nav(q, e.tick)) \in Nat
    <2>1. Nav(q, e.tick) \in Int
      BY HourTypes, NavTypes
    <2> QED BY <2>1 DEF Positive, Greatest
  <1>3. \A rel \in Nat : room(rel) \in Nat
    <2> SUFFICES ASSUME NEW rel \in Nat PROVE room(rel) \in Nat
      OBVIOUS
    <2>1. rel * Positive(Nav(q, e.tick)) \in Nat
      BY <1>2, ProductNat
    <2> QED BY <1>1, <2>1, DivFloor
  <1>4. CollateralRoom(q, e, p) \in Nat
    <2>1. Least(p.armCap, room(p.armRelBps)) \in Nat
      <3>1. room(p.armRelBps) \in Nat /\ p.armCap \in Nat
        BY <1>3, Params
      <3> HIDE DEF room
      <3> QED BY <3>1, LeastNat
    <2> HIDE DEF worth
    <2>2. Monus(Least(p.armCap, room(p.armRelBps)), worth) \in Nat
      <3> HIDE DEF room
      <3> QED BY <1>1, <2>1, LeastMonus
    <2> QED BY <2>2 DEF CollateralRoom, worth
  <1>5. LendRoom(q, e, p) \in Nat
    <2>1. room(p.lendRelBps) \in Nat /\ p.lendCap \in Nat
      BY <1>3, Params
    <2>2. Monus(Least(p.lendCap, room(p.lendRelBps)), q.arm.lent) \in Nat
      <3> HIDE DEF room
      <3>1. Least(p.lendCap, room(p.lendRelBps)) \in Nat
        BY <2>1, LeastNat
      <3> QED BY <1>1, <3>1, LeastMonus
    <2> QED BY <2>2 DEF LendRoom
  <1>6. CollateralRoom(q, e, p) \div Price(e) \in Nat
    BY <1>1, <1>4, DivFloor
  <1>7. size \in Nat
    <2>1. cap \in Nat
      <3>1. Least(p.ltv, p.maxLtv) \in Nat
        BY Params, LeastNat
      <3> QED BY <3>1, Params, LeastNat
    <2> HIDE DEF worth, cap
    <2>2. (worth * cap) \div BPS \in Nat
      <3>1. worth * cap \in Nat
        BY <1>1, <2>1, ProductNat
      <3> QED BY <1>1, <3>1, DivFloor
    <2> QED BY <2>2 DEF BorrowSize, cap
  <1> HIDE DEF size
  <1>8. LET x == Monus(size, q.arm.debt)
            y == Monus(p.borrowLiquidity, q.arm.debt)
        IN  BorrowRoom(q, e, p) = Least(Least(x, y), p.maxBorrow) /\ x \in Nat /\ y \in Nat
    BY <1>1, <1>7, Params, LeastMonus DEF BorrowRoom, size, worth
  <1> DEFINE x == Monus(size, q.arm.debt)
             y == Monus(p.borrowLiquidity, q.arm.debt)
  <1>9. BorrowRoom(q, e, p) \in Nat /\ BorrowRoom(q, e, p) <= x
    <2>1. x \in Nat /\ y \in Nat /\ p.maxBorrow \in Nat
      BY <1>8, Params
    <2>2. BorrowRoom(q, e, p) = Least(Least(x, y), p.maxBorrow)
      BY <1>8
    <2> HIDE DEF x, y
    <2>3. Least(x, y) \in Nat /\ Least(x, y) <= x
      BY <2>1, LeastNat
    <2> DEFINE z == Least(x, y)
    <2> HIDE DEF z
    <2>4. Least(z, p.maxBorrow) \in Nat /\ Least(z, p.maxBorrow) <= z
      BY <2>1, <2>3, LeastNat DEF z
    <2> QED BY <2>1, <2>2, <2>3, <2>4 DEF z
  <1> QED BY <1>4, <1>5, <1>6, <1>7, <1>9 DEF size, worth, x

\* What the execution of an action leaves: booked, and covered.
Settled(q, r) == Balanced(q, r, env.tick) /\ Covered(r, env, params)

LEMMA BeforeStarts ==
  ASSUME pf \in Portfolios, env \in Hours
  PROVE  /\ Before \in Portfolios /\ Ledger(Before, env.tick) = Nav(pf, env.tick)
         /\ Before.cum = NoFlow /\ Before.arm = pf.arm /\ Before.books = pf.books
         /\ Before.active = pf.active /\ Before.usdg = pf.usdg /\ Before.nvda = pf.nvda
  BY HourTypes, NoFlowStarts DEF Before

\* What is accounted since the handler began is settled.
LEMMA AccountedSettles ==
  ASSUME pf \in Portfolios, env \in Hours, Covered(pf, env, params),
         NEW r, Accounted(Before, r, env.tick)
  PROVE  Settled(pf, r)
  <1>1. env.tick \in DOMAIN PriceAt /\ Before \in Portfolios
        /\ Ledger(Before, env.tick) = Nav(pf, env.tick) /\ Before.arm = pf.arm
    BY HourTypes, BeforeStarts
  <1>2. Balanced(pf, r, env.tick)
    BY <1>1, EvenIsBalanced DEF Accounted
  <1>3. Covered(r, env, params)
    BY <1>1 DEF Accounted, SamePledge, Covered
  <1> QED BY <1>2, <1>3 DEF Settled

\* A move between idle tokens and arms that neither makes nor takes any, paid for with gas.
LEMMA ArmMoved ==
  ASSUME pf \in Portfolios, env \in Hours, params \in Configs,
         NEW u \in Nat, NEW n \in Nat, NEW A \in Arm, A.bad = pf.arm.bad,
         n + A.nvda = pf.nvda + pf.arm.nvda,
         u + A.lent + pf.arm.debt = pf.usdg + pf.arm.lent + A.debt,
         A.debt > DustUsd => params.lltvBps * A.nvda * Price(env) >= A.debt * BPS
  PROVE  Settled(pf, Done([Before EXCEPT !.usdg = u, !.nvda = n, !.arm = A]))
  <1> DEFINE q == Before
             t == env.tick
             P == PriceAt[t]
             r == [q EXCEPT !.usdg = u, !.nvda = n, !.arm = A]
             w == With(q, q.active, u, n, A, q.books, q.cum)
             s == Done(r)
  <1>1. /\ t \in DOMAIN PriceAt /\ P \in Nat /\ params.gas \in Nat
        /\ q \in Portfolios /\ Ledger(q, t) = Nav(pf, t)
        /\ q.arm = pf.arm /\ q.usdg = pf.usdg /\ q.nvda = pf.nvda /\ q.active \in Books
        /\ q.books \in [Books -> GoodBook] /\ q.cum \in Flows
    BY HourTypes, Prices, Params, BeforeStarts, Parts0
  <1> HIDE DEF q
  <1>2. r = w
    BY <1>1, Zenon DEF With, Portfolios
  <1>3. (u + n * P + ArmEquity(A, P)) - Flow(q.cum)
           = (q.usdg + q.nvda * P + ArmEquity(q.arm, P)) - Flow(q.cum)
    <2> DEFINE m == pf.nvda
               a == pf.arm.nvda
               b == A.nvda
               l == pf.arm.lent
               d == pf.arm.debt
               v == pf.arm.bad
               l1 == A.lent
               d1 == A.debt
               g == pf.usdg
               F == Flow(q.cum)
    <2>1. /\ m \in Nat /\ a \in Nat /\ b \in Nat /\ l \in Nat /\ d \in Nat /\ v \in Nat
          /\ l1 \in Nat /\ d1 \in Nat /\ g \in Nat /\ F \in Int
      BY <1>1, Parts0, NavTypes DEF Arm
    <2>2. ArmEquity(A, P) = ((b * P + l1) - d1) - v /\ ArmEquity(q.arm, P) = ((a * P + l) - d) - v
      <3>1. b * P \in Nat /\ a * P \in Nat
        BY <1>1, <2>1, ProductNat
      <3>2. ArmEquity(A, P) = b * P + l1 - d1 - v /\ ArmEquity(q.arm, P) = a * P + l - d - v
        BY <1>1 DEF ArmEquity
      <3> DEFINE x == a * P
                 y == b * P
      <3> HIDE DEF a, b, l, d, v, l1, d1, x, y, P
      <3>3. ArmEquity(A, P) = ((y + l1) - d1) - v /\ ArmEquity(q.arm, P) = ((x + l) - d) - v
        BY <2>1, <3>1, <3>2 DEF x, y
      <3> QED BY <3>3 DEF x, y
    <2>3. n + b = m + a /\ u + l1 + d = g + l + d1
      OBVIOUS
    <2>4. q.usdg = g /\ q.nvda = m
      BY <1>1
    <2> HIDE DEF m, a, b, l, d, v, l1, d1, g, F, P
    <2>5. (n + b) * P = n * P + b * P /\ (m + a) * P = m * P + a * P
      BY <1>1, <2>1, Products
    <2> DEFINE x1 == n * P
               x2 == b * P
               x3 == m * P
               x4 == a * P
               e1 == ArmEquity(A, P)
               e2 == ArmEquity(q.arm, P)
    <2>6. /\ x1 \in Nat /\ x2 \in Nat /\ x3 \in Nat /\ x4 \in Nat
          /\ x1 + x2 = x3 + x4 /\ e1 = ((x2 + l1) - d1) - v /\ e2 = ((x4 + l) - d) - v
      BY <1>1, <2>1, <2>2, <2>3, <2>5, ProductNat
    <2> HIDE DEF x1, x2, x3, x4, e1, e2
    <2>7. (u + x1 + e1) - F = (g + x3 + e2) - F
      BY <2>1, <2>3, <2>6
    <2> QED BY <2>4, <2>7 DEF x1, x3, e1, e2, F
  <1>4. Even(q, w, t) /\ w.arm = A
    BY <1>1, <1>3, ArmStep, WithParts
  <1> HIDE DEF w, r
  <1>5. r \in Portfolios
    BY <1>2, <1>4 DEF Even
  <1>6. Even(r, s, t) /\ SamePledge(r, s)
    BY <1>1, <1>5, PayGasEven DEF Done
  <1> HIDE DEF s
  <1>7. Even(q, s, t)
    BY <1>2, <1>4, <1>6 DEF Even
  <1>8. Balanced(pf, s, t)
    BY <1>1, <1>7, EvenIsBalanced
  <1>9. Covered(s, env, params)
    BY <1>2, <1>4, <1>6 DEF Covered, SamePledge
  <1>10. Settled(pf, s)
    BY <1>8, <1>9 DEF Settled
  <1> QED BY <1>10 DEF s, r, q

\* HOLD, and every action that comes to nothing.
LEMMA NothingSettles ==
  ASSUME pf \in Portfolios, env \in Hours, Covered(pf, env, params)
  PROVE  Settled(pf, Before)
  BY BeforeStarts, AccountedSelf, AccountedSettles

LEMMA AllocateUsdgSettles ==
  ASSUME pf \in Portfolios, env \in Hours, params \in Configs, Covered(pf, env, params),
         decision.amount \in Nat, ExecuteAllocateUsdg
  PROVE  Settled(pf, pf')
  <1> DEFINE amount == Least(Least(decision.amount, pf.usdg), LendRoom(pf, env, params))
             A == [pf.arm EXCEPT !.lent = @ + amount]
             u == pf.usdg - amount
             n == pf.nvda
  <1>1. pf.usdg \in Nat /\ pf.arm \in Arm /\ pf.arm.lent \in Nat /\ n \in Nat
        /\ pf.arm.debt \in Nat
    BY Parts0
  <1>2. amount \in Nat /\ amount <= pf.usdg
    <2> DEFINE x == Least(decision.amount, pf.usdg)
    <2>1. x \in Nat /\ x <= pf.usdg
      BY <1>1, LeastNat
    <2> HIDE DEF x
    <2>2. Least(x, LendRoom(pf, env, params)) \in Nat /\ Least(x, LendRoom(pf, env, params)) <= x
      BY <2>1, RoomsNat, LeastNat
    <2> QED BY <1>1, <2>1, <2>2 DEF x
  <1>3. CASE amount > DustUsd
    <2>1. pf' = Done([Before EXCEPT !.usdg = @ - amount, !.arm.lent = @ + amount])
      BY <1>3 DEF ExecuteAllocateUsdg, Execute
    <2> HIDE DEF amount
    <2>2. [Before EXCEPT !.usdg = @ - amount, !.arm.lent = @ + amount]
            = [Before EXCEPT !.usdg = u, !.nvda = n, !.arm = A]
      <3>1. Before \in Portfolios /\ Before.usdg = pf.usdg /\ Before.arm = pf.arm
            /\ Before.nvda = n
        BY BeforeStarts
      <3> DEFINE q == Before
                 A1 == [q.arm EXCEPT !.lent = @ + amount]
                 u1 == q.usdg - amount
                 n1 == q.nvda
      <3>2. u = u1 /\ n = n1 /\ A = A1
        BY <3>1
      <3> HIDE DEF u, n, A, q
      <3>3. q \in Portfolios
        BY <3>1 DEF q
      <3>4. [q EXCEPT !.usdg = @ - amount, !.arm.lent = @ + amount]
             = [q EXCEPT !.usdg = u1, !.nvda = n1, !.arm = A1]
        BY <3>3, Zenon DEF Portfolios
      <3> HIDE DEF u1, n1, A1
      <3> QED BY <3>2, <3>4 DEF q
    <2>3. A \in Arm /\ A.lent = pf.arm.lent + amount /\ A.nvda = pf.arm.nvda
          /\ A.debt = pf.arm.debt /\ A.bad = pf.arm.bad
      BY <1>1, <1>2 DEF Arm
    <2> HIDE DEF A
    <2>4. u \in Nat /\ u + A.lent + pf.arm.debt = pf.usdg + pf.arm.lent + A.debt
          /\ n + A.nvda = pf.nvda + pf.arm.nvda
      BY <1>1, <1>2, <2>3
    <2>5. A.debt > DustUsd => params.lltvBps * A.nvda * Price(env) >= A.debt * BPS
      BY <2>3 DEF Covered
    <2> HIDE DEF u, n
    <2>6. Settled(pf, Done([Before EXCEPT !.usdg = u, !.nvda = n, !.arm = A]))
      BY <1>1, <2>3, <2>4, <2>5, ArmMoved DEF n
    <2> QED BY <2>1, <2>2, <2>6
  <1>4. CASE ~(amount > DustUsd)
    <2>1. pf' = Before
      BY <1>4 DEF ExecuteAllocateUsdg, Execute
    <2> QED BY <2>1, NothingSettles
  <1> QED BY <1>3, <1>4

\* Within the size of a borrow the debt is within the liquidation threshold, as far as the
\* parameters are sensible.
LEMMA BorrowStaysCovered ==
  ASSUME pf \in Portfolios, env \in Hours, params \in Configs,
         NEW amount \in Nat, amount > 0, amount <= BorrowRoom(pf, env, params)
  PROVE  params.lltvBps * pf.arm.nvda * Price(env) >= (pf.arm.debt + amount) * BPS
  <1> DEFINE c == pf.arm.nvda
             P == Price(env)
             l == params.lltvBps
             d == pf.arm.debt
             h == params.minHealthBps
             cap == Least(Least(params.ltv, params.maxLtv), params.hardCap)
             worth == c * P
             size == BorrowSize(worth, params)
             k == d + amount
  <1>1. /\ c \in Nat /\ P \in Nat /\ l \in Nat /\ d \in Nat /\ BPS \in Nat \ {0} /\ h \in Nat
        /\ BPS <= h /\ cap * h <= l * BPS
    BY Parts0, HourTypes, Params, DustAssumption, ParametersAssumption DEF Sensible
  <1>2. cap \in Nat
    <2>1. Least(params.ltv, params.maxLtv) \in Nat
      BY Params, LeastNat
    <2> QED BY <2>1, Params, LeastNat
  <1>3. worth \in Nat
    BY <1>1, ProductNat
  <1>4. k \in Nat /\ k <= size /\ size \in Nat
    <2>1. size \in Nat /\ BorrowRoom(pf, env, params) \in Nat
          /\ BorrowRoom(pf, env, params) <= Monus(size, d)
      BY RoomsNat
    <2> HIDE DEF size, d
    <2> QED BY <1>1, <2>1 DEF Monus
  <1>5. size = (worth * cap) \div BPS
    <2>1. CASE cap <= 0
      <3>1. size = 0
        BY <2>1 DEF BorrowSize
      <3> QED BY <1>1, <1>4, <3>1
    <2>2. CASE ~(cap <= 0)
      BY <2>2, Zenon DEF BorrowSize
    <2> QED BY <2>1, <2>2
  <1> HIDE DEF cap, k, size
  <1>6. cap <= l
    <2> HIDE DEF l, h
    <2>1. BPS * cap <= h * cap
      BY <1>1, <1>2, ProductGrows
    <2>2. BPS * cap = cap * BPS /\ h * cap = cap * h /\ cap * BPS \in Int /\ h * cap \in Int
          /\ l * BPS \in Int
      BY <1>1, <1>2, Products
    <2>3. cap * BPS <= l * BPS
      BY <1>1, <2>1, <2>2
    <2> QED BY <1>1, <1>2, <2>3, ProductCancels
  <1>7. k * BPS <= worth * cap
    <2> HIDE DEF worth
    <2> DEFINE n == worth * cap
    <2>1. n \in Nat
      BY <1>2, <1>3, ProductNat
    <2> HIDE DEF n
    <2>2. size = n \div BPS /\ size * BPS <= n
      BY <1>1, <1>5, <2>1, DivFloor DEF n
    <2>3. k * BPS <= size * BPS /\ k * BPS \in Int /\ size * BPS \in Int
      BY <1>1, <1>4, ProductGrows, Products
    <2>4. k * BPS <= n
      BY <2>1, <2>2, <2>3
    <2> QED BY <2>4 DEF n
  <1>8. worth * cap <= l * c * P
    <2>1. cap * worth <= l * worth
      <3> HIDE DEF worth, l
      <3> QED BY <1>1, <1>2, <1>3, <1>6, ProductGrows
    <2>2. cap * worth = worth * cap
      <3> HIDE DEF worth
      <3> QED BY <1>2, <1>3, Products
    <2>3. l * (c * P) = (l * c) * P
      <3> HIDE DEF l, c, P
      <3> QED BY <1>1, Products
    <2> QED BY <2>1, <2>2, <2>3
  <1>9. k * BPS \in Int /\ worth * cap \in Int /\ l * c * P \in Int
    <2> HIDE DEF worth, l, c, P
    <2>1. l * c \in Int
      BY <1>1, Products
    <2> QED BY <1>1, <1>2, <1>3, <1>4, <2>1, Products
  <1> DEFINE x1 == k * BPS
             x2 == worth * cap
             x3 == l * c * P
  <1>10. x1 \in Int /\ x2 \in Int /\ x3 \in Int /\ x1 <= x2 /\ x2 <= x3
    BY <1>7, <1>8, <1>9
  <1> HIDE DEF x1, x2, x3
  <1>11. x3 >= x1
    BY <1>10
  <1> QED BY <1>11 DEF x1, x3, k

LEMMA AllocateNvdaSettles ==
  ASSUME pf \in Portfolios, env \in Hours, params \in Configs, Covered(pf, env, params),
         decision.amount \in Nat, ExecuteAllocateNvda
  PROVE  Settled(pf, pf')
  <1> DEFINE amount == Least(Least(decision.amount, pf.nvda),
                             CollateralRoom(pf, env, params) \div Price(env))
             A == [pf.arm EXCEPT !.nvda = @ + amount]
             u == pf.usdg
             n == pf.nvda - amount
  <1>1. /\ pf.usdg \in Nat /\ pf.nvda \in Nat /\ pf.arm \in Arm /\ pf.arm.lent \in Nat
        /\ pf.arm.debt \in Nat /\ pf.arm.nvda \in Nat
    BY Parts0
  <1>2. amount \in Nat /\ amount <= pf.nvda
    <2> DEFINE x == Least(decision.amount, pf.nvda)
               y == CollateralRoom(pf, env, params) \div Price(env)
    <2>1. x \in Nat /\ x <= pf.nvda
      BY <1>1, LeastNat
    <2>2. y \in Nat
      BY RoomsNat
    <2> HIDE DEF x, y
    <2>3. Least(x, y) \in Nat /\ Least(x, y) <= x
      BY <2>1, <2>2, LeastNat
    <2> QED BY <1>1, <2>1, <2>3 DEF x, y
  <1>3. CASE amount > DustNvda
    <2>1. pf' = Done([Before EXCEPT !.nvda = @ - amount, !.arm.nvda = @ + amount])
      BY <1>3 DEF ExecuteAllocateNvda, Execute
    <2> HIDE DEF amount
    <2>2. [Before EXCEPT !.nvda = @ - amount, !.arm.nvda = @ + amount]
            = [Before EXCEPT !.usdg = u, !.nvda = n, !.arm = A]
      <3>1. /\ Before \in Portfolios /\ Before.usdg = pf.usdg /\ Before.arm = pf.arm
            /\ Before.nvda = pf.nvda
        BY BeforeStarts
      <3> DEFINE q == Before
                 A1 == [q.arm EXCEPT !.nvda = @ + amount]
                 u1 == q.usdg
                 n1 == q.nvda - amount
      <3>2. u = u1 /\ n = n1 /\ A = A1
        BY <3>1
      <3> HIDE DEF u, n, A, q
      <3>3. q \in Portfolios
        BY <3>1 DEF q
      <3>4. [q EXCEPT !.nvda = @ - amount, !.arm.nvda = @ + amount]
             = [q EXCEPT !.usdg = u1, !.nvda = n1, !.arm = A1]
        BY <3>3, Zenon DEF Portfolios
      <3> HIDE DEF u1, n1, A1
      <3> QED BY <3>2, <3>4 DEF q
    <2>3. A \in Arm /\ A.lent = pf.arm.lent /\ A.nvda = pf.arm.nvda + amount
          /\ A.debt = pf.arm.debt /\ A.bad = pf.arm.bad
      BY <1>1, <1>2 DEF Arm
    <2> HIDE DEF A
    <2>4. /\ u \in Nat /\ n \in Nat /\ n + A.nvda = pf.nvda + pf.arm.nvda
          /\ u + A.lent + pf.arm.debt = pf.usdg + pf.arm.lent + A.debt
      BY <1>1, <1>2, <2>3
    <2>5. A.debt > DustUsd => params.lltvBps * A.nvda * Price(env) >= A.debt * BPS
      <3> DEFINE c == pf.arm.nvda
                 P == Price(env)
                 l == params.lltvBps
                 d == pf.arm.debt
      <3>1. c \in Nat /\ P \in Nat /\ l \in Nat /\ d \in Nat /\ BPS \in Nat
        BY <1>1, HourTypes, Params, DustAssumption
      <3>2. A.nvda \in Nat /\ c <= A.nvda
        BY <1>1, <1>2, <2>3
      <3>3. l * c * P <= l * A.nvda * P
        <4> HIDE DEF c, P, l
        <4>1. c * l <= A.nvda * l
          BY <3>1, <3>2, ProductGrows
        <4>2. l * c <= l * A.nvda /\ l * c \in Nat /\ l * A.nvda \in Nat
          BY <3>1, <3>2, <4>1, ProductNat, Products
        <4> DEFINE x == l * c
                   y == l * A.nvda
        <4> HIDE DEF x, y
        <4>3. x * P <= y * P
          BY <3>1, <4>2, ProductGrows DEF x, y
        <4> QED BY <4>3 DEF x, y
      <3>4. d > DustUsd => l * c * P >= d * BPS
        BY DEF Covered
      <3> DEFINE m == l * c * P
                 k == l * A.nvda * P
      <3>5. m \in Int /\ k \in Int /\ d * BPS \in Int
        BY <3>1, <3>2
      <3> HIDE DEF m, k
      <3>6. d > DustUsd => k >= d * BPS
        <4> HIDE DEF c, P, l, d
        <4> QED BY <3>3, <3>4, <3>5 DEF m, k
      <3> QED BY <2>3, <3>6 DEF k
    <2> HIDE DEF u, n
    <2>6. Settled(pf, Done([Before EXCEPT !.usdg = u, !.nvda = n, !.arm = A]))
      BY <2>3, <2>4, <2>5, ArmMoved
    <2> QED BY <2>1, <2>2, <2>6
  <1>4. CASE ~(amount > DustNvda)
    <2>1. pf' = Before
      BY <1>4 DEF ExecuteAllocateNvda, Execute
    <2> QED BY <2>1, NothingSettles
  <1> QED BY <1>3, <1>4

LEMMA BorrowSettles ==
  ASSUME pf \in Portfolios, env \in Hours, params \in Configs, Covered(pf, env, params),
         decision.amount \in Nat, ExecuteBorrow
  PROVE  Settled(pf, pf')
  <1> DEFINE amount == Least(decision.amount, BorrowRoom(pf, env, params))
             A == [pf.arm EXCEPT !.debt = @ + amount]
             u == pf.usdg + amount
             n == pf.nvda
  <1>1. /\ pf.usdg \in Nat /\ pf.nvda \in Nat /\ pf.arm \in Arm /\ pf.arm.lent \in Nat
        /\ pf.arm.debt \in Nat /\ pf.arm.nvda \in Nat
    BY Parts0
  <1>2. amount \in Nat /\ amount <= BorrowRoom(pf, env, params)
    BY RoomsNat, LeastNat
  <1>3. CASE amount > DustUsd
    <2>1. pf' = Done([Before EXCEPT !.usdg = @ + amount, !.arm.debt = @ + amount])
      BY <1>3 DEF ExecuteBorrow, Execute
    <2> HIDE DEF amount
    <2>2. [Before EXCEPT !.usdg = @ + amount, !.arm.debt = @ + amount]
            = [Before EXCEPT !.usdg = u, !.nvda = n, !.arm = A]
      <3>1. /\ Before \in Portfolios /\ Before.usdg = pf.usdg /\ Before.arm = pf.arm
            /\ Before.nvda = pf.nvda
        BY BeforeStarts
      <3> DEFINE q == Before
                 A1 == [q.arm EXCEPT !.debt = @ + amount]
                 u1 == q.usdg + amount
                 n1 == q.nvda
      <3>2. u = u1 /\ n = n1 /\ A = A1
        BY <3>1
      <3> HIDE DEF u, n, A, q
      <3>3. q \in Portfolios
        BY <3>1 DEF q
      <3>4. [q EXCEPT !.usdg = @ + amount, !.arm.debt = @ + amount]
             = [q EXCEPT !.usdg = u1, !.nvda = n1, !.arm = A1]
        BY <3>3, Zenon DEF Portfolios
      <3> HIDE DEF u1, n1, A1
      <3> QED BY <3>2, <3>4 DEF q
    <2>3. A \in Arm /\ A.lent = pf.arm.lent /\ A.nvda = pf.arm.nvda
          /\ A.debt = pf.arm.debt + amount /\ A.bad = pf.arm.bad
      BY <1>1, <1>2 DEF Arm
    <2> HIDE DEF A
    <2>4. /\ u \in Nat /\ n \in Nat /\ n + A.nvda = pf.nvda + pf.arm.nvda
          /\ u + A.lent + pf.arm.debt = pf.usdg + pf.arm.lent + A.debt
      BY <1>1, <1>2, <2>3
    <2>5. A.debt > DustUsd => params.lltvBps * A.nvda * Price(env) >= A.debt * BPS
      <3>1. amount > 0
        BY <1>2, <1>3, DustAssumption
      <3>2. params.lltvBps * pf.arm.nvda * Price(env) >= (pf.arm.debt + amount) * BPS
        BY <1>2, <3>1, BorrowStaysCovered
      <3> QED BY <2>3, <3>2
    <2> HIDE DEF u, n
    <2>6. Settled(pf, Done([Before EXCEPT !.usdg = u, !.nvda = n, !.arm = A]))
      BY <2>3, <2>4, <2>5, ArmMoved
    <2> QED BY <2>1, <2>2, <2>6
  <1>4. CASE ~(amount > DustUsd)
    <2>1. pf' = Before
      BY <1>4 DEF ExecuteBorrow, Execute
    <2> QED BY <2>1, NothingSettles
  <1> QED BY <1>3, <1>4

LEMMA DeallocateSettles ==
  ASSUME pf \in Portfolios, env \in Hours, params \in Configs, Covered(pf, env, params),
         decision.amount \in Nat, ExecuteDeallocate
  PROVE  Settled(pf, pf')
  <1> DEFINE amount == Least(decision.amount, pf.arm.lent)
             A == [pf.arm EXCEPT !.lent = @ - amount]
             u == pf.usdg + amount
             n == pf.nvda
  <1>1. /\ pf.usdg \in Nat /\ pf.nvda \in Nat /\ pf.arm \in Arm /\ pf.arm.lent \in Nat
        /\ pf.arm.debt \in Nat /\ pf.arm.nvda \in Nat
    BY Parts0
  <1>2. amount \in Nat /\ amount <= pf.arm.lent
    BY <1>1, LeastNat
  <1>3. CASE amount > DustUsd
    <2>1. pf' = Done([Before EXCEPT !.arm.lent = @ - amount, !.usdg = @ + amount])
      BY <1>3 DEF ExecuteDeallocate, Execute
    <2> HIDE DEF amount
    <2>2. [Before EXCEPT !.arm.lent = @ - amount, !.usdg = @ + amount]
            = [Before EXCEPT !.usdg = u, !.nvda = n, !.arm = A]
      <3>1. /\ Before \in Portfolios /\ Before.usdg = pf.usdg /\ Before.arm = pf.arm
            /\ Before.nvda = pf.nvda
        BY BeforeStarts
      <3> DEFINE q == Before
                 A1 == [q.arm EXCEPT !.lent = @ - amount]
                 u1 == q.usdg + amount
                 n1 == q.nvda
      <3>2. u = u1 /\ n = n1 /\ A = A1
        BY <3>1
      <3> HIDE DEF u, n, A, q
      <3>3. q \in Portfolios
        BY <3>1 DEF q
      <3>4. [q EXCEPT !.arm.lent = @ - amount, !.usdg = @ + amount]
             = [q EXCEPT !.usdg = u1, !.nvda = n1, !.arm = A1]
        BY <3>3, Zenon DEF Portfolios
      <3> HIDE DEF u1, n1, A1
      <3> QED BY <3>2, <3>4 DEF q
    <2>3. A \in Arm /\ A.lent = pf.arm.lent - amount /\ A.nvda = pf.arm.nvda
          /\ A.debt = pf.arm.debt /\ A.bad = pf.arm.bad
      BY <1>1, <1>2 DEF Arm
    <2> HIDE DEF A
    <2>4. /\ u \in Nat /\ n \in Nat /\ n + A.nvda = pf.nvda + pf.arm.nvda
          /\ u + A.lent + pf.arm.debt = pf.usdg + pf.arm.lent + A.debt
      BY <1>1, <1>2, <2>3
    <2>5. A.debt > DustUsd => params.lltvBps * A.nvda * Price(env) >= A.debt * BPS
      BY <2>3 DEF Covered
    <2> HIDE DEF u, n
    <2>6. Settled(pf, Done([Before EXCEPT !.usdg = u, !.nvda = n, !.arm = A]))
      BY <2>3, <2>4, <2>5, ArmMoved
    <2> QED BY <2>1, <2>2, <2>6
  <1>4. CASE ~(amount > DustUsd)
    <2>1. pf' = Before
      BY <1>4 DEF ExecuteDeallocate, Execute
    <2> QED BY <2>1, NothingSettles
  <1> QED BY <1>3, <1>4

LEMMA WithdrawSettles ==
  ASSUME pf \in Portfolios, env \in Hours, params \in Configs, Covered(pf, env, params),
         decision.amount \in Nat, ExecuteWithdraw
  PROVE  Settled(pf, pf')
  <1> DEFINE needed == CeilDiv(pf.arm.debt * params.minHealthBps, params.lltvBps * Price(env))
             free == IF pf.arm.debt > DustUsd THEN Monus(pf.arm.nvda, needed) ELSE pf.arm.nvda
             amount == Least(decision.amount, free)
             A == [pf.arm EXCEPT !.nvda = @ - amount]
             u == pf.usdg
             n == pf.nvda + amount
  <1>1. /\ pf.usdg \in Nat /\ pf.nvda \in Nat /\ pf.arm \in Arm /\ pf.arm.lent \in Nat
        /\ pf.arm.debt \in Nat /\ pf.arm.nvda \in Nat
    BY Parts0
  <1>0. /\ needed \in Nat
        /\ pf.arm.debt * params.minHealthBps <= needed * (params.lltvBps * Price(env))
    <2> DEFINE x == pf.arm.debt * params.minHealthBps
               y == params.lltvBps * Price(env)
    <2>1. x \in Nat /\ y \in Nat \ {0}
      BY <1>1, Params, HourTypes, ProductNat
    <2> HIDE DEF x, y
    <2>2. CeilDiv(x, y) \in Nat /\ x <= CeilDiv(x, y) * y
      BY <2>1, CeilReaches
    <2> QED BY <2>2 DEF x, y
  <1> HIDE DEF needed
  <1>2. /\ amount \in Nat /\ amount <= pf.arm.nvda
        /\ pf.arm.debt > DustUsd => amount <= Monus(pf.arm.nvda, needed)
    <2>1. /\ free \in Nat /\ free <= pf.arm.nvda
          /\ pf.arm.debt > DustUsd => free = Monus(pf.arm.nvda, needed)
      <3> DEFINE m == Monus(pf.arm.nvda, needed)
      <3>1. m \in Nat /\ m <= pf.arm.nvda
        BY <1>0, <1>1, LeastMonus
      <3> HIDE DEF m
      <3> QED BY <1>1, <3>1 DEF m
    <2> HIDE DEF free
    <2>2. amount \in Nat /\ amount <= free
      BY <2>1, LeastNat
    <2> HIDE DEF amount
    <2> QED BY <1>1, <2>1, <2>2
  <1>3. CASE amount > DustNvda
    <2>1. pf' = Done([Before EXCEPT !.arm.nvda = @ - amount, !.nvda = @ + amount])
      BY <1>3, Zenon DEF ExecuteWithdraw, Execute, needed
    <2> HIDE DEF amount
    <2>2. [Before EXCEPT !.arm.nvda = @ - amount, !.nvda = @ + amount]
            = [Before EXCEPT !.usdg = u, !.nvda = n, !.arm = A]
      <3>1. /\ Before \in Portfolios /\ Before.usdg = pf.usdg /\ Before.arm = pf.arm
            /\ Before.nvda = pf.nvda
        BY BeforeStarts
      <3> DEFINE q == Before
                 A1 == [q.arm EXCEPT !.nvda = @ - amount]
                 u1 == q.usdg
                 n1 == q.nvda + amount
      <3>2. u = u1 /\ n = n1 /\ A = A1
        BY <3>1
      <3> HIDE DEF u, n, A, q
      <3>3. q \in Portfolios
        BY <3>1 DEF q
      <3>4. [q EXCEPT !.arm.nvda = @ - amount, !.nvda = @ + amount]
             = [q EXCEPT !.usdg = u1, !.nvda = n1, !.arm = A1]
        BY <3>3, Zenon DEF Portfolios
      <3> HIDE DEF u1, n1, A1
      <3> QED BY <3>2, <3>4 DEF q
    <2>3. A \in Arm /\ A.lent = pf.arm.lent /\ A.nvda = pf.arm.nvda - amount
          /\ A.debt = pf.arm.debt /\ A.bad = pf.arm.bad
      BY <1>1, <1>2 DEF Arm
    <2> HIDE DEF A
    <2>4. /\ u \in Nat /\ n \in Nat /\ n + A.nvda = pf.nvda + pf.arm.nvda
          /\ u + A.lent + pf.arm.debt = pf.usdg + pf.arm.lent + A.debt
      BY <1>1, <1>2, <2>3
    <2>5. A.debt > DustUsd => params.lltvBps * A.nvda * Price(env) >= A.debt * BPS
      <3> SUFFICES ASSUME pf.arm.debt > DustUsd
                   PROVE  params.lltvBps * A.nvda * Price(env) >= pf.arm.debt * BPS
        BY <2>3
      <3> DEFINE c == pf.arm.nvda
                 P == Price(env)
                 l == params.lltvBps
                 d == pf.arm.debt
                 h == params.minHealthBps
                 k == c - amount
      <3>1. /\ c \in Nat /\ P \in Nat /\ l \in Nat /\ d \in Nat /\ BPS \in Nat /\ h \in Nat
            /\ BPS <= h
        BY <1>1, HourTypes, Params, DustAssumption, ParametersAssumption DEF Sensible
      <3>2. k \in Nat /\ needed <= k /\ A.nvda = k
        <4>1. amount > 0 /\ amount <= Monus(c, needed)
          BY <1>2, <1>3, DustAssumption
        <4> HIDE DEF amount, c
        <4> QED BY <1>0, <1>2, <2>3, <3>1, <4>1 DEF Monus, c
      <3> HIDE DEF k
      <3>3. d * BPS <= d * h
        <4> HIDE DEF d, h
        <4>1. BPS * d <= h * d
          BY <3>1, ProductGrows
        <4> QED BY <3>1, <4>1, Products
      <3>4. needed * (l * P) <= k * (l * P)
        <4>1. l * P \in Nat
          BY <3>1, ProductNat
        <4> DEFINE y == l * P
        <4> HIDE DEF y
        <4> QED BY <1>0, <3>2, <4>1, ProductGrows DEF y
      <3>5. k * (l * P) = l * k * P
        <4> HIDE DEF l, P
        <4> QED BY <3>1, <3>2, Products
      <3>6. d * h <= needed * (l * P)
        BY <1>0
      <3> DEFINE x1 == d * BPS
                 x2 == d * h
                 x3 == needed * (l * P)
                 x4 == k * (l * P)
                 x5 == l * k * P
      <3>7. x1 \in Int /\ x2 \in Int /\ x3 \in Int /\ x4 \in Int
            /\ x1 <= x2 /\ x2 <= x3 /\ x3 <= x4 /\ x4 = x5
        <4>1. l * P \in Int
          BY <3>1, Products
        <4> HIDE DEF l, P, d, h
        <4> QED BY <1>0, <3>1, <3>2, <3>3, <3>4, <3>5, <3>6, <4>1, Products
      <3> HIDE DEF x1, x2, x3, x4, x5
      <3>8. x5 >= x1
        BY <3>7
      <3> QED BY <3>2, <3>8 DEF x5, x1, l, P, d
    <2> HIDE DEF u, n
    <2>6. Settled(pf, Done([Before EXCEPT !.usdg = u, !.nvda = n, !.arm = A]))
      BY <2>3, <2>4, <2>5, ArmMoved
    <2> QED BY <2>1, <2>2, <2>6
  <1>4. CASE ~(amount > DustNvda)
    <2>1. pf' = Before
      BY <1>4, Zenon DEF ExecuteWithdraw, Execute, needed
    <2> QED BY <2>1, NothingSettles
  <1> QED BY <1>3, <1>4

LEMMA RepaySettles ==
  ASSUME pf \in Portfolios, env \in Hours, params \in Configs, Covered(pf, env, params),
         decision.amount \in Nat, ExecuteRepay
  PROVE  Settled(pf, pf')
  <1> DEFINE amount == Least(Least(decision.amount, pf.usdg + pf.arm.lent), pf.arm.debt)
             idle == Least(amount, pf.usdg)
             A == [pf.arm EXCEPT !.lent = @ - (amount - idle), !.debt = @ - amount]
             u == pf.usdg - idle
             n == pf.nvda
  <1>1. /\ pf.usdg \in Nat /\ pf.nvda \in Nat /\ pf.arm \in Arm /\ pf.arm.lent \in Nat
        /\ pf.arm.debt \in Nat /\ pf.arm.nvda \in Nat
    BY Parts0
  <1>2. /\ amount \in Nat /\ amount <= pf.arm.debt /\ idle \in Nat /\ idle <= pf.usdg
        /\ idle <= amount /\ amount - idle <= pf.arm.lent
    <2> DEFINE g == pf.usdg
               l == pf.arm.lent
               x == Least(decision.amount, g + l)
    <2>1. x \in Nat /\ x <= g + l
      <3>1. g + l \in Nat
        BY <1>1
      <3> DEFINE y == g + l
      <3> HIDE DEF y
      <3> QED BY <3>1, LeastNat DEF y
    <2> HIDE DEF x
    <2>2. amount \in Nat /\ amount <= x /\ amount <= pf.arm.debt
      BY <1>1, <2>1, LeastNat DEF x
    <2> HIDE DEF amount
    <2>3. idle \in Nat /\ idle <= g /\ idle <= amount /\ (idle = g \/ idle = amount)
      BY <1>1, <2>2 DEF Least
    <2> HIDE DEF idle
    <2> QED BY <1>1, <2>1, <2>2, <2>3
  <1>3. CASE amount > DustUsd
    <2>1. pf' = Done([Before EXCEPT !.usdg = @ - idle, !.arm.lent = @ - (amount - idle), !.arm.debt = @ - amount])
      BY <1>3 DEF ExecuteRepay, Execute
    <2> HIDE DEF amount, idle
    <2>2. [Before EXCEPT !.usdg = @ - idle, !.arm.lent = @ - (amount - idle), !.arm.debt = @ - amount]
            = [Before EXCEPT !.usdg = u, !.nvda = n, !.arm = A]
      <3>1. /\ Before \in Portfolios /\ Before.usdg = pf.usdg /\ Before.arm = pf.arm
            /\ Before.nvda = pf.nvda
        BY BeforeStarts
      <3> DEFINE q == Before
                 A1 == [q.arm EXCEPT !.lent = @ - (amount - idle), !.debt = @ - amount]
                 u1 == q.usdg - idle
                 n1 == q.nvda
      <3>2. u = u1 /\ n = n1 /\ A = A1
        BY <3>1
      <3> HIDE DEF u, n, A, q
      <3>3. q \in Portfolios
        BY <3>1 DEF q
      <3>4. [q EXCEPT !.usdg = @ - idle, !.arm.lent = @ - (amount - idle), !.arm.debt = @ - amount]
             = [q EXCEPT !.usdg = u1, !.nvda = n1, !.arm = A1]
        BY <3>3, Zenon DEF Portfolios
      <3> HIDE DEF u1, n1, A1
      <3> QED BY <3>2, <3>4 DEF q
    <2>3. /\ A \in Arm /\ A.lent = pf.arm.lent - (amount - idle) /\ A.nvda = pf.arm.nvda
          /\ A.debt = pf.arm.debt - amount /\ A.bad = pf.arm.bad
      <3> DEFINE x == pf.arm.lent - (amount - idle)
                 y == pf.arm.debt - amount
                 a == pf.arm
                 D == [a EXCEPT !.lent = x, !.debt = y]
      <3>1. x \in Nat /\ y \in Nat /\ a \in Arm /\ A = D
        BY <1>1, <1>2
      <3> HIDE DEF x, y, a, A
      <3>2. D \in Arm /\ D.lent = x /\ D.debt = y /\ D.nvda = a.nvda /\ D.bad = a.bad
        BY <3>1 DEF Arm
      <3> HIDE DEF D
      <3> QED BY <3>1, <3>2 DEF x, y, a
    <2> HIDE DEF A
    <2>4. /\ u \in Nat /\ n \in Nat /\ n + A.nvda = pf.nvda + pf.arm.nvda
          /\ u + A.lent + pf.arm.debt = pf.usdg + pf.arm.lent + A.debt
      BY <1>1, <1>2, <2>3
    <2>5. A.debt > DustUsd => params.lltvBps * A.nvda * Price(env) >= A.debt * BPS
      <3> SUFFICES ASSUME A.debt > DustUsd
                   PROVE  params.lltvBps * pf.arm.nvda * Price(env) >= A.debt * BPS
        BY <2>3
      <3> DEFINE d == pf.arm.debt
                 k == A.debt
                 m == params.lltvBps * pf.arm.nvda * Price(env)
      <3>1. d \in Nat /\ k \in Nat /\ k <= d /\ BPS \in Nat /\ DustUsd \in Nat /\ k > DustUsd
        BY <1>1, <1>2, <2>3, DustAssumption
      <3>2. m \in Int
        <4>1. params.lltvBps * pf.arm.nvda \in Nat
          BY <1>1, Params, ProductNat
        <4> DEFINE x == params.lltvBps * pf.arm.nvda
        <4> HIDE DEF x
        <4>2. x * Price(env) \in Nat
          BY <4>1, HourTypes, ProductNat DEF x
        <4> QED BY <4>2 DEF x
      <3>3. d > DustUsd => m >= d * BPS
        BY DEF Covered
      <3> HIDE DEF d, k, m
      <3>4. k * BPS <= d * BPS /\ k * BPS \in Int /\ d * BPS \in Int
        BY <3>1, ProductGrows, Products
      <3>5. m >= k * BPS
        BY <3>1, <3>2, <3>3, <3>4
      <3> QED BY <3>5 DEF m, k
    <2> HIDE DEF u, n
    <2>6. Settled(pf, Done([Before EXCEPT !.usdg = u, !.nvda = n, !.arm = A]))
      BY <2>3, <2>4, <2>5, ArmMoved
    <2> QED BY <2>1, <2>2, <2>6
  <1>4. CASE ~(amount > DustUsd)
    <2>1. pf' = Before
      BY <1>4 DEF ExecuteRepay, Execute
    <2> QED BY <2>1, NothingSettles
  <1> QED BY <1>3, <1>4

-----------------------------------------------------------------------------
(* The actions that close and fund books.                                           *)

\* What an action leaves: its change of NAV is what it records, unless a switch records
\* more than it could take.
Recorded(q, r, t) ==
    /\ r \in Portfolios
    /\ \/ Nav(r, t) - Nav(q, t) = Flow(r.cum)
       \/ r.cum.switch > 0 /\ r.usdg = 0 /\ Nav(r, t) - Nav(q, t) > Flow(r.cum)

Closing(q, r) == Recorded(q, r, env.tick) /\ Covered(r, env, params)

LEMMA SettledCloses ==
  ASSUME NEW q, NEW r, Settled(q, r)
  PROVE  Closing(q, r)
  BY DEF Settled, Balanced, Closing, Recorded

LEMMA GasAccounted ==
  ASSUME env \in Hours, NEW q \in Portfolios, NEW gas \in Nat
  PROVE  Accounted(q, PayGas(q, gas), env.tick)
  BY HourTypes, PayGasEven DEF Accounted

LEMMA RecallSettles ==
  ASSUME pf \in Portfolios, env \in Hours, params \in Configs, Covered(pf, env, params),
         ExecuteRecall
  PROVE  Settled(pf, pf')
  <1> DEFINE r == CloseBook(Before, pf.active, env)
  <1>1. Before \in Portfolios /\ pf.active \in Books /\ params.gas \in Nat
    BY BeforeStarts, Parts0, Params
  <1>2. Accounted(Before, r, env.tick)
    BY <1>1, CloseBookAccounted
  <1>3. pf' = PayGas(r, params.gas)
    BY DEF ExecuteRecall, Execute, Done
  <1> HIDE DEF r
  <1>4. Accounted(r, pf', env.tick)
    BY <1>1, <1>2, <1>3, GasAccounted DEF Accounted, Even
  <1> QED BY <1>2, <1>4, AccountedTransitive, AccountedSettles

\* The cost of a funding is taken from what is idle, as far as that goes, and recorded whole.
LEMMA CostRecorded ==
  ASSUME NEW s \in Portfolios, NEW t \in DOMAIN PriceAt, NEW cost \in Nat
  PROVE  LET r == [s EXCEPT !.usdg = Monus(@, cost), !.cum.switch = @ + cost]
         IN  /\ r \in Portfolios /\ SamePledge(s, r)
             /\ \/ Ledger(r, t) = Ledger(s, t)
                \/ Ledger(r, t) > Ledger(s, t) /\ r.usdg = 0 /\ r.cum.switch > 0
  <1> DEFINE u == Monus(s.usdg, cost)
             C == [s.cum EXCEPT !.switch = @ + cost]
             r == [s EXCEPT !.usdg = Monus(@, cost), !.cum.switch = @ + cost]
             w == With(s, s.active, u, s.nvda, s.arm, s.books, C)
             g == s.usdg
  <1>1. g \in Nat /\ u \in Nat /\ g <= u + cost /\ (cost <= g => u + cost = g)
        /\ (cost > g => u = 0)
    BY Parts0 DEF Monus
  <1>2. r = w
    BY Zenon DEF With, Portfolios
  <1>3. /\ C \in Flows /\ Flow(C) = Flow(s.cum) - cost /\ C.switch = s.cum.switch + cost
        /\ s.cum.switch \in Nat
    BY Parts0, FlowDomain DEF Flows, FlowNames, Flow
  <1> HIDE DEF u, C, r
  <1>4. /\ w \in Portfolios /\ w.usdg = u /\ w.nvda = s.nvda /\ w.arm = s.arm
        /\ w.books = s.books /\ w.cum = C
    <2>1. /\ s.active \in Books /\ s.nvda \in Nat /\ s.arm \in Arm
          /\ s.books \in [Books -> GoodBook]
      BY Parts0
    <2> QED BY <1>1, <1>3, <2>1, WithParts
  <1> HIDE DEF w
  <1>5. Nav(w, t) = (Nav(s, t) - g) + u
    <2> DEFINE x == s.nvda * PriceAt[t]
               v0 == BookValue(s.books[0], t)
               v1 == BookValue(s.books[1], t)
               e == ArmEquity(s.arm, PriceAt[t])
    <2>1. x \in Int /\ v0 \in Int /\ v1 \in Int /\ e \in Int
      BY NavTypes
    <2>2. Nav(s, t) = g + x + v0 + v1 + e /\ Nav(w, t) = u + x + v0 + v1 + e
      BY <1>4 DEF Nav
    <2> HIDE DEF x, v0, v1, e, g
    <2> QED BY <1>1, <2>1, <2>2
  <1>6. Nav(s, t) \in Int /\ Flow(s.cum) \in Int /\ Ledger(s, t) \in Int
    BY NavTypes
  <1>7. Ledger(w, t) = Ledger(s, t) + ((u + cost) - g)
    <2>1. Ledger(w, t) = Nav(w, t) - Flow(C) /\ Ledger(s, t) = Nav(s, t) - Flow(s.cum)
      BY <1>4 DEF Ledger
    <2> HIDE DEF g
    <2> QED BY <1>1, <1>3, <1>5, <1>6, <2>1
  <1>8. CASE cost <= g
    <2>1. Ledger(w, t) = Ledger(s, t)
      <3> HIDE DEF g
      <3> QED BY <1>1, <1>6, <1>7, <1>8
    <2> QED BY <1>2, <1>4, <2>1 DEF r, SamePledge
  <1>9. CASE cost > g
    <2>1. Ledger(w, t) > Ledger(s, t) /\ w.usdg = 0 /\ w.cum.switch > 0
      <3> HIDE DEF g
      <3> QED BY <1>1, <1>3, <1>4, <1>6, <1>7, <1>9
    <2> QED BY <1>2, <1>4, <2>1 DEF r, SamePledge
  <1> QED BY <1>1, <1>8, <1>9

\* A funding that comes to more than dust pays its cost and gas; one that does not stays
\* as it is. Either is recorded.
LEMMA SettleCloses ==
  ASSUME pf \in Portfolios, env \in Hours, params \in Configs, Covered(pf, env, params),
         NEW funded, NEW cost \in Nat, Accounted(Before, funded.pf, env.tick),
         Settle(funded, cost)
  PROVE  Closing(pf, pf')
  <1> DEFINE s == funded.pf
             t == env.tick
             r == [s EXCEPT !.usdg = Monus(@, cost), !.cum.switch = @ + cost]
  <1>1. CASE pf' = s
    <2>1. Settled(pf, s)
      BY AccountedSettles
    <2> QED BY <1>1, <2>1, SettledCloses
  <1>2. CASE pf' = PayGas(r, params.gas)
    <2>1. /\ t \in DOMAIN PriceAt /\ Before \in Portfolios /\ Ledger(Before, t) = Nav(pf, t)
          /\ Before.arm = pf.arm /\ params.gas \in Nat
      BY HourTypes, BeforeStarts, Params
    <2>2. s \in Portfolios /\ Ledger(s, t) = Nav(pf, t) /\ SamePledge(Before, s)
      BY <2>1 DEF Accounted, Even
    <2> HIDE DEF s, t
    <2>3. /\ r \in Portfolios /\ SamePledge(s, r)
          /\ \/ Ledger(r, t) = Ledger(s, t)
             \/ Ledger(r, t) > Ledger(s, t) /\ r.usdg = 0 /\ r.cum.switch > 0
      BY <2>1, <2>2, CostRecorded
    <2> HIDE DEF r
    <2>4. /\ Even(r, pf', t) /\ SamePledge(r, pf')
          /\ pf'.usdg <= r.usdg /\ pf'.cum.switch = r.cum.switch
      BY <1>2, <2>1, <2>3, PayGasEven
    <2>5. /\ pf' \in Portfolios /\ pf'.usdg \in Nat /\ Nav(pf', t) \in Int
          /\ Flow(pf'.cum) \in Int /\ Nav(pf, t) \in Int
          /\ Ledger(pf', t) = Nav(pf', t) - Flow(pf'.cum)
      <3>1. pf' \in Portfolios
        BY <2>4 DEF Even
      <3> QED BY <2>1, <3>1, Parts0, NavTypes DEF Ledger
    <2>6. Covered(pf', env, params)
      BY <2>1, <2>2, <2>3, <2>4 DEF Covered, SamePledge
    <2>7. Recorded(pf, pf', t)
      <3>1. CASE Ledger(r, t) = Ledger(s, t)
        <4>1. Ledger(pf', t) = Nav(pf, t)
          BY <2>2, <2>4, <3>1 DEF Even
        <4>2. Nav(pf', t) - Nav(pf, t) = Flow(pf'.cum)
          BY <2>5, <4>1
        <4> QED BY <2>5, <4>2 DEF Recorded
      <3>2. CASE Ledger(r, t) > Ledger(s, t) /\ r.usdg = 0 /\ r.cum.switch > 0
        <4>1. Ledger(pf', t) > Nav(pf, t) /\ pf'.usdg = 0 /\ pf'.cum.switch > 0
          BY <2>2, <2>4, <2>5, <3>2 DEF Even
        <4>2. Nav(pf', t) - Nav(pf, t) > Flow(pf'.cum)
          BY <2>5, <4>1
        <4> QED BY <2>5, <4>1, <4>2 DEF Recorded
      <3> QED BY <2>3, <3>1, <3>2
    <2> QED BY <2>6, <2>7 DEF Closing, t
  <1> QED BY <1>1, <1>2 DEF Settle, Execute, Done

\* Funding an empty book is accounted, from whatever portfolio the handler has reached.
LEMMA FundingAccounted ==
  ASSUME env \in Hours, params \in Configs, NEW q, Accounted(Before, q, env.tick), Sound(q),
         NEW i \in Books, ~q.books[i].deployed
  PROVE  /\ Accounted(Before, FundBook(q, i, env, params).pf, env.tick)
         /\ FundBook(q, i, env, params).value \in Nat
  <1>1. q \in Portfolios /\ q.books[i].fees = 0
    BY DEF Accounted, Even, Sound, Whole
  <1>2. /\ Accounted(q, FundBook(q, i, env, params).pf, env.tick)
        /\ FundBook(q, i, env, params).value \in Nat
    BY <1>1, FundBookAccounted
  <1> DEFINE r == FundBook(q, i, env, params).pf
  <1> HIDE DEF r
  <1>3. Accounted(Before, r, env.tick)
    BY <1>2, AccountedTransitive DEF r
  <1> QED BY <1>2, <1>3 DEF r

LEMMA FundCloses ==
  ASSUME pf \in Portfolios, env \in Hours, params \in Configs, Covered(pf, env, params),
         Sound(pf), DecidedWell(decision), ExecuteFund
  PROVE  Closing(pf, pf')
  <1>1. CASE pf' = Before
    BY <1>1, NothingSettles, SettledCloses
  <1>2. CASE Settle(FundBook(Before, decision.book, env, params), 0)
    <2> DEFINE funded == FundBook(Before, decision.book, env, params)
    <2>1. decision.action = "FUND_BOOK" /\ decision.book \in Books /\ ~HasPositions(Active(pf))
      BY DEF ExecuteFund, Executing, DecidedWell
    <2>2. \A j \in Books : ~Before.books[j].deployed
      BY <2>1, BeforeSame, DeployedHolds DEF Sound, Shape, Active
    <2>3. Accounted(Before, Before, env.tick) /\ Sound(Before)
      BY BeforeStarts, BeforeSame, AccountedSelf
    <2>4. Accounted(Before, funded.pf, env.tick)
      BY <2>1, <2>2, <2>3, FundingAccounted
    <2> HIDE DEF funded
    <2>5. Settle(funded, 0)
      BY <1>2 DEF funded
    <2> QED BY <2>4, <2>5, SettleCloses
  <1> QED BY <1>1, <1>2 DEF ExecuteFund, Execute

LEMMA RecenterCloses ==
  ASSUME pf \in Portfolios, env \in Hours, params \in Configs, Covered(pf, env, params),
         Sound(pf), ExecuteRecenter
  PROVE  Closing(pf, pf')
  <1> DEFINE r == CloseBook(Before, pf.active, env)
             funded == FundBook(r, pf.active, env, params)
             paid == [funded EXCEPT !.pf = PayGas(@, params.recenterGas)]
  <1>1. CASE ~HasPositions(Active(pf))
    <2>1. pf' = Before
      BY <1>1 DEF ExecuteRecenter, Execute
    <2> QED BY <2>1, NothingSettles, SettledCloses
  <1>2. CASE HasPositions(Active(pf))
    <2>1. SettleRecenter(funded)
      BY <1>2 DEF ExecuteRecenter
    <2>2. /\ pf.active \in Books /\ Before \in Portfolios /\ Sound(Before)
          /\ Before.active = pf.active
      BY BeforeStarts, BeforeSame, Parts0
    <2>3. Sound(r) /\ ~r.books[pf.active].deployed
      BY <2>2, CloseBookCloses
    <2>4. Accounted(Before, r, env.tick)
      BY <2>2, CloseBookAccounted
    <2> HIDE DEF r
    <2>5. Accounted(Before, funded.pf, env.tick)
      BY <2>2, <2>3, <2>4, FundingAccounted
    <2>6. "pf" \in DOMAIN funded
      BY DEF FundBook, FundSkewed, Placed
    <2> HIDE DEF funded
    <2>7. Accounted(Before, paid.pf, env.tick)
      <3>1. paid.pf = PayGas(funded.pf, params.recenterGas)
        BY <2>6
      <3>2. Accounted(funded.pf, PayGas(funded.pf, params.recenterGas), env.tick)
        BY <2>5, Params, GasAccounted DEF Accounted, Even
      <3> HIDE DEF paid
      <3> QED BY <2>5, <3>1, <3>2, AccountedTransitive
    <2> HIDE DEF paid
    <2>8. CASE Settle(paid, 0)
      BY <2>7, <2>8, SettleCloses
    <2>9. CASE pf' = funded.pf
      BY <2>5, <2>9, AccountedSettles, SettledCloses
    <2> QED BY <2>1, <2>8, <2>9 DEF SettleRecenter, Execute, paid
  <1> QED BY <1>1, <1>2

LEMMA CloseHeldAccounted ==
  ASSUME NEW q \in Portfolios, NEW i \in Books, env \in Hours
  PROVE  Accounted(q, CloseHeld(q, i), env.tick)
  BY CloseBookAccounted, AccountedSelf DEF CloseHeld

LEMMA SwitchCloses ==
  ASSUME pf \in Portfolios, env \in Hours, params \in Configs, Covered(pf, env, params),
         Sound(pf), DecidedWell(decision), ExecuteSwitch
  PROVE  Closing(pf, pf')
  <1> DEFINE target == decision.book
             other == CloseHeld(Before, target)
             both == CloseHeld(other, pf.active)
             funded == FundBook(both, target, env, params)
             cost == (funded.value * params.switchBps) \div BPS
  <1>1. CASE pf' = Before
    BY <1>1, NothingSettles, SettledCloses
  <1>2. CASE Settle(funded, cost)
    <2>1. target \in Books /\ pf.active \in Books
      BY DEF ExecuteSwitch, Executing, DecidedWell, Sound, Shape
    <2>2. Before \in Portfolios /\ Sound(Before) /\ Before.active = pf.active
      BY BeforeStarts, BeforeSame
    <2>3. Sound(other) /\ other.active = pf.active
      BY <2>1, <2>2, CloseHeldCloses
    <2>4. Accounted(Before, other, env.tick)
      BY <2>1, <2>2, CloseHeldAccounted
    <2> HIDE DEF other
    <2>5. Sound(both) /\ both.active = pf.active /\ ~both.books[pf.active].deployed
      BY <2>1, <2>3, CloseHeldCloses
    <2>6. ~both.books[target].deployed
      BY <2>1, <2>5 DEF Sound
    <2>7. Accounted(Before, both, env.tick)
      <3>1. Accounted(other, both, env.tick)
        BY <2>1, <2>4, CloseHeldAccounted DEF Accounted, Even
      <3> HIDE DEF both
      <3> QED BY <2>4, <3>1, AccountedTransitive
    <2> HIDE DEF both, target
    <2>8. Accounted(Before, funded.pf, env.tick) /\ funded.value \in Nat
      BY <2>1, <2>5, <2>6, <2>7, FundingAccounted
    <2> HIDE DEF funded
    <2>9. cost \in Nat
      <3>1. funded.value * params.switchBps \in Nat /\ BPS \in Nat \ {0}
        BY <2>8, Params, ProductNat, DustAssumption
      <3> QED BY <3>1, DivFloor
    <2> HIDE DEF cost
    <2> QED BY <1>2, <2>8, <2>9, SettleCloses
  <1> QED BY <1>1, <1>2 DEF ExecuteSwitch, SettleSwitch, Execute

\* Whichever action was decided, what it leaves is recorded and covered.
LEMMA ActionCloses ==
  ASSUME pf \in Portfolios, env \in Hours, params \in Configs, Covered(pf, env, params),
         Sound(pf), DecidedWell(decision), decision.amount \in Nat, ExecuteAction
  PROVE  Closing(pf, pf')
  <1>1. CASE ExecuteHold
    BY <1>1, NothingSettles, SettledCloses DEF ExecuteHold, Execute
  <1>2. ASSUME Settled(pf, pf') PROVE Closing(pf, pf')
    BY <1>2, SettledCloses
  <1>3. CASE ExecuteAllocateUsdg
    BY <1>2, <1>3, AllocateUsdgSettles
  <1>4. CASE ExecuteAllocateNvda
    BY <1>2, <1>4, AllocateNvdaSettles
  <1>5. CASE ExecuteBorrow
    BY <1>2, <1>5, BorrowSettles
  <1>6. CASE ExecuteRepay
    BY <1>2, <1>6, RepaySettles
  <1>7. CASE ExecuteWithdraw
    BY <1>2, <1>7, WithdrawSettles
  <1>8. CASE ExecuteDeallocate
    BY <1>2, <1>8, DeallocateSettles
  <1>9. CASE ExecuteRecall
    BY <1>2, <1>9, RecallSettles
  <1>10. CASE ExecuteFund \/ ExecuteRecenter \/ ExecuteSwitch
    BY <1>10, FundCloses, RecenterCloses, SwitchCloses
  <1> QED
    BY <1>1, <1>3, <1>4, <1>5, <1>6, <1>7, <1>8, <1>9, <1>10 DEF ExecuteAction

-----------------------------------------------------------------------------
(* Decisions.                                                                       *)

Decision == [action : Actions, amount : Nat, book : Books]

LEMMA DoTyped ==
  ASSUME NEW action \in Actions
  PROVE  /\ \A amount \in Nat : Do(action, amount) \in Decision
         /\ \A i \in Books : DoBook(action, i) \in Decision
  BY DEF Do, DoBook, Decision, Books

LEMMA HoldTyped == Hold \in Decision /\ None.action = "NONE" /\ \A d \in Decision : d # None
  BY DEF Hold, None, Do, Decision, Actions, Books

\* A slice, or all, of a natural is a natural.
LEMMA OrAllNat ==
  ASSUME NEW x \in Nat, NEW bps \in Nat, NEW dust
  PROVE  OrAll(x, bps, dust) \in Nat
  BY SliceWithin DEF OrAll

LEMMA EntryNat ==
  ASSUME NEW q \in Portfolios, NEW p \in Configs
  PROVE  LET plan == PlanArmEntry(q.usdg, q.nvda, q.arm.lent, q.arm.nvda, p)
         IN  plan.usdgMove \in Nat /\ plan.nvdaMove \in Nat
  <1> DEFINE x == Slice(q.usdg + q.arm.lent, p.morphoShare)
             y == Slice(q.nvda + q.arm.nvda, p.nvdaStep)
  <1>1. q.usdg \in Nat /\ q.nvda \in Nat /\ q.arm.lent \in Nat /\ q.arm.nvda \in Nat
    BY Parts0
  <1>2. q.usdg + q.arm.lent \in Nat /\ q.nvda + q.arm.nvda \in Nat
    BY <1>1
  <1>3. x \in Nat /\ y \in Nat
    BY <1>2, Params, SliceWithin
  <1> HIDE DEF x, y
  <1>4. Monus(x, q.arm.lent) \in Nat
    BY <1>1, <1>3, LeastMonus
  <1>5. Least(Monus(x, q.arm.lent), q.usdg) \in Nat /\ Least(y, q.nvda) \in Nat
    BY <1>1, <1>3, <1>4, LeastNat
  <1> QED BY <1>5 DEF PlanArmEntry, x, y

LEMMA DeployTyped ==
  ASSUME NEW q \in Portfolios, NEW e \in Hours, NEW p \in Configs
  PROVE  DeployToArms(q, e, p) \in Decision
  <1> DEFINE plan == PlanArmEntry(q.usdg, q.nvda, q.arm.lent, q.arm.nvda, p)
             lend == Least(plan.usdgMove, LendRoom(q, e, p))
             pledge == Least(plan.nvdaMove, CollateralRoom(q, e, p) \div Price(e))
             borrow == BorrowRoom(q, e, p)
  <1>1. plan.usdgMove \in Nat /\ plan.nvdaMove \in Nat
    BY EntryNat
  <1> HIDE DEF plan
  <1>2. lend \in Nat /\ pledge \in Nat /\ borrow \in Nat
    BY <1>1, RoomsNat, LeastNat
  <1>3. DeployToArms(q, e, p) \in {Do("ALLOCATE_USDG", lend), Do("ALLOCATE_NVDA", pledge),
                                   Do("BORROW_USDG", borrow), Do("RECALL_BOOK", 0), Hold}
    BY Zenon DEF DeployToArms, plan
  <1> HIDE DEF lend, pledge, borrow
  <1>4. /\ Do("ALLOCATE_USDG", lend) \in Decision /\ Do("ALLOCATE_NVDA", pledge) \in Decision
        /\ Do("BORROW_USDG", borrow) \in Decision /\ Do("RECALL_BOOK", 0) \in Decision
    BY <1>2, DoTyped DEF Actions
  <1> QED BY <1>3, <1>4, HoldTyped

LEMMA ReturnTyped ==
  ASSUME NEW q \in Portfolios, NEW p \in Configs
  PROVE  ReturnToBooks(q, p) \in Decision
  <1> DEFINE arm == q.arm
             plan == PlanBookReturn(arm.lent, arm.nvda, arm.debt, p)
             repay == Least(plan.repay, q.usdg + arm.lent)
  <1>1. q.usdg + arm.lent \in Nat /\ arm.lent \in Nat /\ arm.nvda \in Nat /\ arm.debt \in Nat
        /\ q.active \in Books
    BY Parts0
  <1>2. plan.repay \in Nat /\ plan.collateralOut \in Nat /\ plan.usdgOut \in Nat
    BY <1>1, Params, OrAllNat DEF PlanBookReturn
  <1> HIDE DEF plan
  <1>3. repay \in Nat
    BY <1>1, <1>2, LeastNat
  <1>4. ReturnToBooks(q, p) \in {Do("REPAY", repay), Hold, Do("WITHDRAW_NVDA", plan.collateralOut),
                                 Do("DEALLOCATE_USDG", plan.usdgOut), DoBook("FUND_BOOK", q.active)}
    BY Zenon DEF ReturnToBooks, plan
  <1> HIDE DEF repay
  <1>5. /\ Do("REPAY", repay) \in Decision /\ Do("WITHDRAW_NVDA", plan.collateralOut) \in Decision
        /\ Do("DEALLOCATE_USDG", plan.usdgOut) \in Decision
        /\ DoBook("FUND_BOOK", q.active) \in Decision
    BY <1>1, <1>2, <1>3, DoTyped DEF Actions
  <1> QED BY <1>4, <1>5, HoldTyped

\* What a rule gives that may not apply.
LEMMA SentinelTyped ==
  ASSUME NEW q \in Portfolios, NEW e \in Hours, NEW p \in Configs
  PROVE  Sentinel(q, e, p) \in Decision \cup {None}
  <1> DEFINE x == Slice(q.arm.debt, p.deleverBps)
             repay == Least(x, q.usdg + q.arm.lent)
  <1>1. x \in Nat /\ q.usdg + q.arm.lent \in Nat
    <2>1. q.arm.debt \in Nat /\ q.usdg \in Nat /\ q.arm.lent \in Nat /\ p.deleverBps \in Nat
      BY Parts0, Params
    <2>2. x \in Nat
      BY <2>1, SliceWithin
    <2> HIDE DEF x
    <2> QED BY <2>1, <2>2
  <1>2. repay \in Nat
    <2> HIDE DEF x
    <2> QED BY <1>1, LeastNat
  <1>3. Sentinel(q, e, p) \in {Do("REPAY", repay), None}
    BY Zenon DEF Sentinel
  <1> HIDE DEF repay
  <1>4. Do("REPAY", repay) \in Decision
    BY <1>2, DoTyped DEF Actions
  <1> QED BY <1>3, <1>4

LEMMA RecenterTyped ==
  ASSUME NEW q, NEW e, NEW p
  PROVE  Recenter(q, e, p) \in Decision \cup {None}
  BY DoTyped DEF Recenter, Actions

LEMMA SurplusTyped ==
  ASSUME NEW q \in Portfolios, NEW e \in Hours, NEW p \in Configs
  PROVE  Surplus(q, e, p) \in Decision \cup {None}
  <1> DEFINE price == Price(e)
             reserve == Greatest(p.reserveUsd, (p.reserveBps * Positive(Nav(q, e.tick))) \div BPS)
             spare == Least(Monus(q.nvda, CeilDiv(reserve, price)),
                            CollateralRoom(q, e, p) \div price)
             lend == Least(Monus(q.usdg, reserve), LendRoom(q, e, p))
             borrow == BorrowRoom(q, e, p)
  <1>1. /\ q.nvda \in Nat /\ q.usdg \in Nat /\ price \in Nat \ {0} /\ borrow \in Nat
        /\ CollateralRoom(q, e, p) \div price \in Nat /\ LendRoom(q, e, p) \in Nat
    BY Parts0, HourTypes, RoomsNat
  <1>2. reserve \in Nat
    <2>1. Nav(q, e.tick) \in Int
      BY HourTypes, NavTypes
    <2>2. Positive(Nav(q, e.tick)) \in Nat
      BY <2>1 DEF Positive, Greatest
    <2>3. p.reserveBps * Positive(Nav(q, e.tick)) \in Nat
      BY <2>2, Params, ProductNat
    <2> DEFINE x == (p.reserveBps * Positive(Nav(q, e.tick))) \div BPS
    <2>4. x \in Nat /\ p.reserveUsd \in Nat
      BY <2>3, Params, DustAssumption, DivFloor
    <2> HIDE DEF x
    <2>5. Greatest(p.reserveUsd, x) \in Nat
      BY <2>4, LeastMonus
    <2> QED BY <2>5 DEF x
  <1> HIDE DEF reserve
  <1>3. spare \in Nat /\ lend \in Nat
    <2>1. CeilDiv(reserve, price) \in Nat
      BY <1>1, <1>2, CeilReaches
    <2>2. Monus(q.nvda, CeilDiv(reserve, price)) \in Nat /\ Monus(q.usdg, reserve) \in Nat
      BY <1>1, <1>2, <2>1, LeastMonus
    <2> QED BY <1>1, <2>2, LeastNat
  <1>4. Surplus(q, e, p) \in {None, Do("ALLOCATE_NVDA", spare), Do("BORROW_USDG", borrow),
                              Do("ALLOCATE_USDG", lend)}
    BY Zenon DEF Surplus, reserve
  <1> HIDE DEF spare, lend, borrow
  <1>5. /\ Do("ALLOCATE_NVDA", spare) \in Decision /\ Do("BORROW_USDG", borrow) \in Decision
        /\ Do("ALLOCATE_USDG", lend) \in Decision
    BY <1>1, <1>3, DoTyped DEF Actions
  <1> QED BY <1>4, <1>5

LEMMA PausedTyped ==
  ASSUME NEW q
  PROVE  WhenPaused(q) \in Decision
  BY DoTyped, HoldTyped DEF WhenPaused, Actions

LEMMA AlwaysTyped ==
  ASSUME NEW q, NEW i \in Books
  PROVE  AlwaysBook(q, i) \in Decision
  BY DoTyped, HoldTyped DEF AlwaysBook, Actions

LEMMA SwitchBackTyped ==
  ASSUME NEW i, NEW metrics
  PROVE  SwitchBack(i, metrics) \in Decision \cup {None}
  BY DoTyped DEF SwitchBack, Actions, Books

LEMMA RiskTyped ==
  ASSUME NEW q \in Portfolios, NEW metrics, NEW ago, NEW e \in Hours, NEW h, NEW p \in Configs
  PROVE  RiskPolicy(q, metrics, ago, e, h, p) \in Decision
  <1> DEFINE other == 1 - q.active
  <1>1. other \in Books
    BY Parts0 DEF Books
  <1>2. RiskPolicy(q, metrics, ago, e, h, p)
          \in {WhenPaused(q), DeployToArms(q, e, p), DoBook("SWITCH_BOOK", other),
               ReturnToBooks(q, p), Hold}
              \cup ({Sentinel(q, e, p), SwitchBack(q.active, metrics), Recenter(q, e, p),
                     Surplus(q, e, p)} \ {None})
    BY Zenon DEF RiskPolicy
  <1> HIDE DEF other
  <1>3. DoBook("SWITCH_BOOK", other) \in Decision
    BY <1>1, DoTyped DEF Actions
  <1> QED BY <1>2, <1>3, PausedTyped, DeployTyped, ReturnTyped, HoldTyped, SentinelTyped,
             SwitchBackTyped, RecenterTyped, SurplusTyped

LEMMA KeeperTyped ==
  ASSUME NEW q \in Portfolios, NEW metrics, NEW e \in Hours, NEW h, NEW p \in Configs
  PROVE  KeeperPolicy(q, metrics, e, h, p) \in Decision
  <1> DEFINE choice == DecidePoolSwitch(metrics, q.active, p.switchBuffer)
  <1>1. choice.book \in Books
    BY Parts0 DEF DecidePoolSwitch, Best, Books
  <1>2. KeeperPolicy(q, metrics, e, h, p)
          \in {WhenPaused(q), DeployToArms(q, e, p), DoBook("SWITCH_BOOK", choice.book),
               ReturnToBooks(q, p), Hold}
              \cup ({Sentinel(q, e, p), Recenter(q, e, p)} \ {None})
    BY Zenon DEF KeeperPolicy
  <1> HIDE DEF choice
  <1>3. DoBook("SWITCH_BOOK", choice.book) \in Decision
    BY <1>1, DoTyped DEF Actions
  <1> QED BY <1>2, <1>3, PausedTyped, DeployTyped, ReturnTyped, HoldTyped, SentinelTyped,
             RecenterTyped

\* Whatever the policy, what is decided is an action of the keeper on a natural amount.
LEMMA DecideTyped ==
  ASSUME NEW q \in Portfolios, NEW ago, NEW e \in Hours, NEW h, NEW p \in Configs
  PROVE  Decide(q, ago, e, h, p) \in Decision
  <1> DEFINE m == Candidates(q, ago, e, p)
  <1>1. CASE Idle(h, p)
    BY <1>1, HoldTyped DEF Decide
  <1>2. CASE ~Idle(h, p)
    <2>1. p.policy \in Policies \ {"hodl"}
      BY <1>2, ConfigAssumption DEF Idle
    <2>2. 0 \in Books /\ 1 \in Books
      BY DEF Books
    <2>3. CASE p.policy = "always_arms"
      BY <1>2, <2>3, DeployTyped DEF Decide
    <2>4. CASE p.policy = "always_a"
      BY <1>2, <2>2, <2>4, AlwaysTyped DEF Decide
    <2>5. CASE p.policy = "always_b"
      BY <1>2, <2>2, <2>5, AlwaysTyped DEF Decide
    <2>6. CASE p.policy \in {"risk_only", "risk_fee_il"}
      <3>1. Decide(q, ago, e, h, p) = RiskPolicy(q, m, ago, e, h, p)
        BY <1>2, <2>6 DEF Decide
      <3> HIDE DEF m
      <3> QED BY <3>1, RiskTyped
    <2>7. CASE p.policy = "allocator"
      <3>1. Decide(q, ago, e, h, p) = KeeperPolicy(q, m, e, h, p)
        BY <1>2, <2>7 DEF Decide
      <3> HIDE DEF m
      <3> QED BY <3>1, KeeperTyped
    <2> QED BY <2>1, <2>3, <2>4, <2>5, <2>6, <2>7 DEF Policies
  <1> QED BY <1>1, <1>2

-----------------------------------------------------------------------------
(* The other blocks of an hour.                                                     *)

\* Rules look back a natural number of hours.
LEMMA MemoryNat ==
  ASSUME NEW p \in Configs
  PROVE  Memory(p) \in Nat
  <1> DEFINE need(rule, hours) == IF rule THEN hours ELSE 0
             a == need(p.policy = "risk_fee_il", GateHours(p) + p.feeIlConfirm - 1)
             b == need(p.guardRule = "fee_il" \/ p.rearmGate, GateHours(p))
             c == need(p.oppWindow > 0, Greatest(p.oppWindow, p.bVolumeHours))
             d == need(p.rolling, 1)
             n == a + b + c + d
  <1>1. a \in Nat /\ b \in Nat /\ c \in Nat /\ d \in Nat
    <2>1. GateHours(p) \in Nat /\ GateHours(p) > 0 /\ p.feeIlConfirm \in Nat
      BY Params DEF GateHours
    <2>2. Greatest(p.oppWindow, p.bVolumeHours) \in Nat
      BY Params, LeastMonus
    <2> QED BY <2>1, <2>2
  <1>2. Memory(p) = Max({a, b, c, d})
    BY Zenon DEF Memory
  <1> HIDE DEF a, b, c, d
  <1>3. n \in Nat /\ {a, b, c, d} \in SUBSET (0 .. n) /\ {a, b, c, d} # {}
    BY <1>1
  <1> HIDE DEF n
  <1>4. Max({a, b, c, d}) \in {a, b, c, d}
    BY <1>3, MaxInRange
  <1> QED BY <1>1, <1>2, <1>4

\* The past is made of the hours of the scenario.
LEMMA PastTyped ==
  ASSUME NEW tape \in Seq(Hours), NEW h \in Hours, NEW k \in Nat
  PROVE  SubSeq(Append(tape, h), Greatest(1, Len(Append(tape, h)) - k + 1),
                Len(Append(tape, h))) \in Seq(Hours)
  <1> DEFINE t == Append(tape, h)
             n == Len(t)
             m == Greatest(1, n - k + 1)
  <1>1. t \in Seq(Hours) /\ n \in Nat
    OBVIOUS
  <1> HIDE DEF t, n
  <1>2. m \in Int /\ m >= 1
    BY <1>1 DEF Greatest
  <1> HIDE DEF m
  <1>3. \A i \in m .. n : t[i] \in Hours
    <2>1. \A i \in m .. n : i \in 1 .. Len(t)
      BY <1>1, <1>2 DEF n
    <2> QED BY <1>1, <2>1
  <1>4. SubSeq(t, m, n) \in Seq(Hours)
    BY <1>1, <1>2, <1>3, SubSeqProperties
  <1> QED BY <1>4 DEF t, n, m

\* The end of an hour ages the pulls.
LEMMA CloseTyped ==
  ASSUME pf \in Portfolios, params \in Configs, Close
  PROVE  pf' \in Portfolios /\ pf'.arm = pf.arm
  <1> DEFINE oldest == Greatest(params.rearmDelay, params.guardCooldown)
             aged(b) == IF b.since = NoPull THEN b ELSE [b EXCEPT !.since = Least(@ + 1, oldest)]
             B == [i \in Books |-> aged(pf.books[i])]
  <1>1. oldest \in Nat
    BY Params, LeastMonus
  <1> HIDE DEF oldest
  <1>2. ASSUME NEW b \in GoodBook
        PROVE  aged(b) \in GoodBook
    <2>1. CASE b.since = NoPull
      BY <2>1
    <2>2. CASE b.since # NoPull
      <3> DEFINE s == Least(b.since + 1, oldest)
      <3>1. b.since \in Nat
        BY <2>2 DEF GoodBook, Book
      <3>2. s \in Nat
        BY <1>1, <3>1, LeastNat
      <3> HIDE DEF s
      <3>3. [b EXCEPT !.since = s] \in GoodBook
        BY <3>2 DEF GoodBook, Book
      <3> QED BY <2>2, <3>3 DEF s
    <2> QED BY <2>1, <2>2
  <1>3. B \in [Books -> GoodBook]
    <2> HIDE DEF aged
    <2> QED BY <1>2, Parts0
  <1>4. pf' = [pf EXCEPT !.books = B, !.cum = NoFlow]
    BY Zenon DEF Close, oldest
  <1> HIDE DEF B
  <1> QED BY <1>3, <1>4, FlowDomain DEF Portfolios

\* A run starts with books and amounts.
LEMMA InitialTyped ==
  ASSUME NEW t \in DOMAIN PriceAt, NEW p \in Configs
  PROVE  InitialPortfolio(t, p) \in Portfolios /\ InitialPortfolio(t, p).arm.debt = 0
  <1> DEFINE empty == BookTemplate(t, p)
             full == Funded(empty, p.targetBase, p.targetGuard)
             start == IF p.policy = "always_b" THEN 1 ELSE p.startBook
             idle == p.policy \in {"hodl", "always_arms"}
             B == [i \in Books |-> IF i = start /\ ~idle THEN full ELSE empty]
             u == p.idle + (IF idle THEN BookUsdg(full, t) ELSE 0)
             n == IF idle THEN BookNvda(full, t) ELSE 0
             r == InitialPortfolio(t, p)
  <1>1. empty \in GoodBook
    <2> DEFINE a == t - p.baseWidth
               b == t + p.baseWidth
               c == t - p.guardWidth
               d == t + p.guardWidth
    <2>1. a \in Int /\ b \in Int /\ c \in Int /\ d \in Int /\ a <= b /\ c <= d
      BY Prices, Params
    <2>2. empty = [deployed |-> FALSE, base |-> 0, guard |-> 0, present |-> FALSE, fees |-> 0,
                   since |-> NoPull, entry |-> t, baseLo |-> a, baseHi |-> b,
                   guardLo |-> c, guardHi |-> d]
      BY DEF BookTemplate
    <2> HIDE DEF a, b, c, d, empty
    <2> QED BY <2>1, <2>2 DEF GoodBook, Book
  <1> HIDE DEF empty
  <1>2. full \in GoodBook
    BY <1>1, Targets DEF Funded, GoodBook, Book
  <1> HIDE DEF full
  <1>3. start \in Books
    BY Targets DEF Books
  <1>4. BookUsdg(full, t) \in Nat /\ BookNvda(full, t) \in Nat
    BY <1>2, BookAmounts
  <1>5. u \in Nat /\ n \in Nat
    BY <1>4, Params
  <1>6. B \in [Books -> GoodBook]
    BY <1>1, <1>2
  <1>7. r = [active |-> start, books |-> B, usdg |-> u, nvda |-> n,
             arm |-> [nvda |-> 0, lent |-> 0, debt |-> 0, bad |-> 0], cum |-> NoFlow]
    BY Zenon DEF InitialPortfolio, full, empty
  <1> HIDE DEF B, u, n, start, r
  <1>8. r \in Portfolios /\ r.arm.debt = 0
    BY <1>3, <1>5, <1>6, <1>7, FlowDomain DEF Portfolios, Arm
  <1> QED BY <1>8 DEF r

-----------------------------------------------------------------------------
(* The inductive invariant.                                                         *)

\* Every amount is a natural and every range the right way round; hours are told apart below
\* the bound; and but for the block that books the income, debt is covered.
AInv ==
    /\ env \in Hours /\ past \in Seq(Hours) /\ pf \in Portfolios /\ decision \in Decision
    /\ storm \in 0 .. Storm /\ hour \in Nat /\ hour < Cycle /\ income \in 0 .. MaxIncome
    /\ phase \in Phases
    /\ phase # "income" => Covered(pf, env, params)

\* A run starts at rest, before the first income.
THEOREM InitAInv == Init => AInv
  <1> SUFFICES ASSUME Init PROVE AInv
    OBVIOUS
  <1>1. params \in Configs /\ env \in Hours /\ FirstTick \in DOMAIN PriceAt
    BY HourTypes DEF Init
  <1>2. pf \in Portfolios
    BY <1>1, InitialTyped DEF Init
  <1>3. past \in Seq(Hours)
    BY DEF Init
  <1>4. 0 < Cycle /\ 0 \in 0 .. MaxIncome /\ Storm \in 0 .. Storm
    BY <1>1, Params, ParametersAssumption, HoursAssumption
  <1> QED BY <1>1, <1>2, <1>3, <1>4, HoldTyped DEF Init, AInv, Phases

LEMMA MarketKeepsAInv ==
  ASSUME AInv, params \in Configs, Market
  PROVE  AInv'
  <1>1. env' \in Hours
    BY ConfigAssumption DEF Market
  <1>2. past' \in Seq(Hours)
    BY MemoryNat, PastTyped DEF AInv, Market
  <1>3. storm' \in 0 .. Storm
    BY HoursAssumption DEF AInv, Market
  <1> QED BY <1>1, <1>2, <1>3 DEF AInv, Market, Phases

LEMMA CloseKeepsAInv ==
  ASSUME AInv, params \in Configs, Close
  PROVE  AInv'
  <1>1. pf' \in Portfolios /\ pf'.arm = pf.arm
    BY CloseTyped DEF AInv
  <1>2. hour' \in Nat /\ hour' < Cycle
    BY Params, ParametersAssumption, HoursAssumption DEF AInv, Close
  <1>3. Covered(pf', env', params')
    BY <1>1 DEF AInv, Close, Covered
  <1> QED BY <1>1, <1>2, <1>3, HoldTyped DEF AInv, Close, Phases

\* What an action leaves alone.
LEMMA ActionLeaves ==
  ASSUME ExecuteAction
  PROVE  /\ phase = "execute" /\ phase' = "close"
         /\ UNCHANGED <<params, env, past, decision, storm, hour, income>>
  BY DEF ExecuteAction, ExecuteHold, ExecuteAllocateUsdg, ExecuteAllocateNvda,
         ExecuteBorrow, ExecuteRepay, ExecuteWithdraw, ExecuteDeallocate,
         ExecuteRecall, ExecuteFund, ExecuteRecenter, ExecuteSwitch, Executing,
         Execute, Settle, SettleRecenter, SettleSwitch

LEMMA ExecuteCloses ==
  ASSUME IInv, AInv, ExecuteAction
  PROVE  Closing(pf, pf')
  <1>1. phase = "execute" /\ params \in Configs /\ Sound(pf) /\ DecidedWell(decision)
    BY ActionLeaves DEF IInv
  <1>2. pf \in Portfolios /\ env \in Hours /\ Covered(pf, env, params) /\ decision.amount \in Nat
    BY <1>1 DEF AInv, Decision
  <1> QED BY <1>1, <1>2, ActionCloses

\* Every block of an hour keeps the invariant.
THEOREM NextAInv == IInv /\ AInv /\ [Next]_vars => AInv'
  <1> SUFFICES ASSUME IInv, AInv, [Next]_vars PROVE AInv'
    OBVIOUS
  <1>1. params \in Configs
    BY DEF IInv
  <1>2. CASE Market
    BY <1>1, <1>2, MarketKeepsAInv
  <1>3. CASE Income
    <2>1. Balanced(pf, pf', env.tick) /\ Covered(pf', env, params) /\ income' \in 0 .. MaxIncome
      BY <1>1, <1>3, IncomeBooked DEF AInv
    <2> QED BY <1>3, <2>1 DEF AInv, Income, Balanced, Covered, Phases
  <1>4. CASE MakeDecision
    <2>1. decision' \in Decision
      BY <1>1, <1>4, DecideTyped DEF AInv, MakeDecision
    <2> QED BY <1>4, <2>1 DEF AInv, MakeDecision, Covered, Phases
  <1>5. CASE ExecuteAction
    <2>1. Closing(pf, pf')
      BY <1>5, ExecuteCloses
    <2>2. pf' \in Portfolios /\ Covered(pf', env, params)
      BY <2>1 DEF Closing, Recorded
    <2> QED BY <1>5, <2>2, ActionLeaves DEF AInv, Covered, Phases
  <1>6. CASE Close
    BY <1>1, <1>6, CloseKeepsAInv
  <1>7. CASE UNCHANGED vars
    BY <1>7 DEF vars, AInv, Covered
  <1> QED BY <1>2, <1>3, <1>4, <1>5, <1>6, <1>7 DEF Next

\* The invariant holds throughout a run.
THEOREM AccountsInvariance == Spec => [](IInv /\ AInv)
  <1>1. Init => IInv /\ AInv
    BY InitIInv, InitAInv
  <1>2. (IInv /\ AInv) /\ [Next]_vars => (IInv /\ AInv)'
    BY NextIInv, NextAInv
  <1> QED BY <1>1, <1>2, PTL DEF Spec

-----------------------------------------------------------------------------
(* The properties.                                                                  *)

\* The portfolio of a run is made of natural amounts, whatever the hours, the policy and the
\* parameters: nothing is paid, sold, seized or withdrawn that is not there.
THEOREM AccountsTyped == Spec => []TypeOK
  <1>1. IInv /\ AInv => TypeOK
    BY HoursAssumption DEF IInv, AInv, TypeOK, Portfolios, GoodBook, Arm, Flows, Decision
  <1> QED BY <1>1, AccountsInvariance, PTL

\* Debt is covered whenever the keeper decides or moves: liquidation has dealt with what an
\* hour's interest and price left uncovered, and no action uncovers what is.
THEOREM DebtStaysCovered == Spec => []DebtIsCovered
  <1>1. IInv /\ AInv => DebtIsCovered
    BY DEF AInv, DebtIsCovered, Covered
  <1> QED BY <1>1, AccountsInvariance, PTL

\* The books of account balance at every step: income, liquidation and every action change
\* NAV by what they record, but for a switch that cannot pay its cost.
THEOREM StepsAreBooked == Spec => EveryStepBooked
  <1>1. IInv /\ AInv /\ [Next]_vars => [(phase \in {"income", "execute"}) => Booked]_vars
    <2> SUFFICES ASSUME IInv, AInv, [Next]_vars, phase \in {"income", "execute"},
                        ~(UNCHANGED vars)
                 PROVE  Booked
      OBVIOUS
    <2>1. Income \/ ExecuteAction
      BY DEF Next, Market, MakeDecision, Close
    <2>2. CASE Income
      <3>1. Balanced(pf, pf', env.tick)
        BY <2>2, IncomeBooked DEF IInv, AInv
      <3> QED BY <3>1 DEF Balanced, Booked
    <2>3. CASE ExecuteAction
      <3>1. Recorded(pf, pf', env.tick)
        BY <2>3, ExecuteCloses DEF Closing
      <3> QED BY <3>1 DEF Recorded, Booked
    <2> QED BY <2>1, <2>2, <2>3
  <1> QED BY <1>1, AccountsInvariance, PTL DEF Spec, EveryStepBooked
=============================================================================
