--------------------------- MODULE Allocator_proofs ---------------------------
(***************************************************************************)
(* Where the capital of the allocator is, for every value of the constants: *)
(* in one book at most, free of debt when it enters one, and never back     *)
(* once the keeper as built has left. What the hours bring is not needed:   *)
(* the proofs look at which book is deployed, and at what was decided.      *)
(***************************************************************************)
EXTENDS Allocator, FiniteSums

\* The fields of a portfolio and of its books the argument is about.
Shape(q) ==
    /\ {"active", "books", "arm"} \subseteq DOMAIN q
    /\ "debt" \in DOMAIN q.arm
    /\ q.active \in Books /\ DOMAIN q.books = Books
    /\ \A i \in Books :
          /\ {"deployed", "present", "base", "fees"} \subseteq DOMAIN q.books[i]
          /\ q.books[i].deployed \in BOOLEAN

\* A deployed book has a base; one that is not has neither guard nor fees.
Whole(b) ==
    /\ b.deployed => b.base > 0
    /\ ~b.deployed => b.present = FALSE /\ b.fees = 0

\* A portfolio with at most one book deployed, the active one.
Sound(q) ==
    /\ Shape(q)
    /\ \A i \in Books : Whole(q.books[i]) /\ (i # q.active => ~q.books[i].deployed)

\* r has the books of q where q has them.
KeptBook(b, c) ==
    /\ c.deployed = b.deployed /\ c.base = b.base
    /\ ~b.deployed => c.present = b.present /\ c.fees = b.fees
Kept(q, r) ==
    /\ Shape(r) /\ r.active = q.active
    /\ \A i \in Books : KeptBook(q.books[i], r.books[i])

SameDebt(q, r) == r.arm.debt = q.arm.debt

-----------------------------------------------------------------------------
(* The largest of some naturals up to a bound.                                      *)

\* Max is an element of a non-empty set of naturals that has a bound.
LEMMA MaxInRange ==
  ASSUME NEW n \in Nat, NEW T \in SUBSET (0 .. n), T # {}
  PROVE  Max(T) \in T
  <1> DEFINE U == {n - x : x \in T}
  <1>1. U \in SUBSET Nat /\ U # {}
    <2>1. \A x \in T : x \in 0 .. n
      OBVIOUS
    <2>2. \A x \in T : n - x \in Nat
      BY <2>1
    <2>3. PICK x \in T : TRUE
      OBVIOUS
    <2> QED
      BY <2>2, <2>3
  <1>2. PICK u \in U : \A v \in U : u <= v
    <2> HIDE DEF U
    <2> QED
      BY <1>1, LeastOfNat
  <1>3. PICK x \in T : u = n - x
    OBVIOUS
  <1>4. \A y \in T : x >= y
    <2> SUFFICES ASSUME NEW y \in T PROVE x >= y
      OBVIOUS
    <2>1. u <= n - y
      BY <1>2
    <2>2. x \in Int /\ y \in Int
      OBVIOUS
    <2> HIDE DEF U
    <2> QED
      BY <2>1, <2>2, <1>3
  <1> QED
    BY <1>4 DEF Max

-----------------------------------------------------------------------------
(* Portfolios that keep their books.                                                *)

\* To keep the books of a sound portfolio is to be sound.
LEMMA KeptSound ==
  ASSUME NEW q, NEW r, Sound(q), Kept(q, r)
  PROVE  Sound(r)
  BY DEF Sound, Kept, KeptBook, Whole, Shape

\* Keeping is transitive.
LEMMA KeptTransitive ==
  ASSUME NEW q, NEW r, NEW s, Kept(q, r), Kept(r, s), Shape(q)
  PROVE  Kept(q, s)
  BY DEF Kept, KeptBook, Shape

\* Whatever else of a portfolio changes, it keeps its books when they are not touched.
LEMMA SameBooksKept ==
  ASSUME NEW q, NEW r, Shape(q), DOMAIN r = DOMAIN q, "debt" \in DOMAIN r.arm,
         r.active = q.active, r.books = q.books
  PROVE  Kept(q, r)
  BY DEF Kept, KeptBook, Shape

\* A sound book has positions exactly when it is deployed.
LEMMA DeployedHolds ==
  ASSUME NEW q, Sound(q), NEW i \in Books
  PROVE  HasPositions(q.books[i]) <=> q.books[i].deployed
  BY DEF Sound, Shape, Whole, HasPositions

\* Gas is paid from the fees of a book only when it has some.
LEMMA PayGasKeeps ==
  ASSUME NEW q, Sound(q), NEW gas
  PROVE  Kept(q, PayGas(q, gas)) /\ SameDebt(q, PayGas(q, gas))
  <1> DEFINE from(held, due) == IF due > 0 /\ held > 0 THEN Least(due, held) ELSE 0
             idle == from(q.usdg, gas)
             lent == from(q.arm.lent, gas - idle)
             a == from(q.books[0].fees, gas - idle - lent)
             b == from(q.books[1].fees, gas - idle - lent - a)
             r == [q EXCEPT !.usdg = @ - idle, !.arm.lent = @ - lent,
                            !.books[0].fees = @ - a, !.books[1].fees = @ - b,
                            !.cum.gas = @ + idle + lent + a + b]
  <1>1. PayGas(q, gas) = r
    BY DEF PayGas
  <1>2. /\ q.books[0].fees = 0 => a = 0
        /\ q.books[1].fees = 0 => b = 0
    OBVIOUS
  <1> HIDE DEF a, b, idle, lent
  <1>3. /\ DOMAIN r = DOMAIN q /\ r.active = q.active
        /\ DOMAIN r.arm = DOMAIN q.arm /\ r.arm.debt = q.arm.debt
    BY DEF Sound, Shape
  <1>4. /\ DOMAIN r.books = Books
        /\ r.books[0] = [q.books[0] EXCEPT !.fees = @ - a]
        /\ r.books[1] = [q.books[1] EXCEPT !.fees = @ - b]
    BY DEF Sound, Shape, Books
  <1> HIDE DEF r
  <1>5. \A i \in Books : KeptBook(q.books[i], r.books[i])
    BY <1>2, <1>4 DEF Sound, Shape, Whole, KeptBook, Books
  <1> QED
    BY <1>1, <1>3, <1>4, <1>5 DEF Sound, Shape, Kept, KeptBook, SameDebt, Books

\* Buying what is short touches the idle tokens only.
LEMMA SwapDeficitKeeps ==
  ASSUME NEW q, Shape(q), NEW a, NEW b, NEW e, NEW cost
  PROVE  /\ Kept(q, SwapDeficit(q, a, b, e, cost))
         /\ SameDebt(q, SwapDeficit(q, a, b, e, cost))
  <1> DEFINE r == SwapDeficit(q, a, b, e, cost)
  <1>1. /\ DOMAIN r = DOMAIN q /\ r.books = q.books /\ r.active = q.active
        /\ r.arm = q.arm
    BY DEF SwapDeficit, Shape
  <1> QED
    BY <1>1, SameBooksKept DEF Shape, SameDebt

\* Liquidation takes from the arms alone.
LEMMA LiquidateKeeps ==
  ASSUME NEW q, Shape(q), NEW e, NEW p
  PROVE  Kept(q, Liquidate(q, e, p))
  <1> DEFINE r == Liquidate(q, e, p)
  <1>1. /\ DOMAIN r = DOMAIN q /\ r.books = q.books /\ r.active = q.active
        /\ "debt" \in DOMAIN r.arm
    BY DEF Liquidate, Shape
  <1> QED
    BY <1>1, SameBooksKept

-----------------------------------------------------------------------------
(* Closing and funding.                                                             *)

\* A closed book is closed, and the other one is as it was.
LEMMA CloseBookCloses ==
  ASSUME NEW q, Sound(q), NEW i \in Books, NEW e, NEW r, r = CloseBook(q, i, e)
  PROVE  /\ Sound(r) /\ r.active = q.active /\ SameDebt(q, r)
         /\ ~r.books[i].deployed
         /\ \A j \in Books \ {i} : r.books[j] = q.books[j]
  <1>1. CASE ~q.books[i].deployed
    BY <1>1 DEF CloseBook, Sound, Shape, SameDebt
  <1>2. CASE q.books[i].deployed
    <2> DEFINE c == [q.books[i] EXCEPT !.deployed = FALSE, !.base = 0, !.guard = 0,
                                       !.present = FALSE, !.fees = 0, !.since = NoPull]
    <2>1. /\ c.deployed = FALSE /\ c.present = FALSE /\ c.fees = 0
          /\ DOMAIN c = DOMAIN q.books[i]
      BY DEF Sound, Shape
    <2> HIDE DEF c
    <2>2. /\ DOMAIN r = DOMAIN q /\ r.active = q.active /\ r.arm = q.arm
          /\ r.books = [q.books EXCEPT ![i] = c]
      BY <1>2 DEF CloseBook, Sound, Shape, c
    <2> QED
      BY <2>1, <2>2 DEF Sound, Shape, Whole, SameDebt
  <1> QED
    BY <1>1, <1>2 DEF Sound, Shape

\* Closing if there are positions is the same as closing.
LEMMA CloseHeldCloses ==
  ASSUME NEW q, Sound(q), NEW i \in Books, NEW r, r = CloseHeld(q, i)
  PROVE  /\ Sound(r) /\ r.active = q.active /\ SameDebt(q, r)
         /\ ~r.books[i].deployed
         /\ \A j \in Books \ {i} : r.books[j] = q.books[j]
  BY DeployedHolds, CloseBookCloses DEF CloseHeld, SameDebt

\* A scale is a natural number of parts.
LEMMA ScaleIsNat ==
  ASSUME NEW q, NEW i, NEW skew, NEW e, NEW p, NEW usdg, NEW nvda, NEW most \in Nat
  PROVE  Scale(q, i, skew, e, p, usdg, nvda, most) \in Nat
  <1> DEFINE T == {k \in 1 .. most :
                     /\ BookUsdg(Sized(q, i, k, skew, e, p), e.tick) <= usdg
                     /\ BookNvda(Sized(q, i, k, skew, e, p), e.tick) <= nvda}
  <1>1. {0} \cup T \in SUBSET (0 .. most) /\ {0} \cup T # {}
    OBVIOUS
  <1>2. Scale(q, i, skew, e, p, usdg, nvda, most) = Max({0} \cup T)
    BY DEF Scale
  <1> DEFINE U == {0} \cup T
  <1> HIDE DEF T, U
  <1>3. Max(U) \in U
    BY <1>1, MaxInRange DEF U
  <1> QED
    BY <1>1, <1>2, <1>3 DEF U

\* A book sized by one part or more has a base.
LEMMA SizedIsWhole ==
  ASSUME NEW q, Shape(q), NEW i \in Books, NEW k \in Nat, k > 0, NEW skew, NEW e,
         NEW p \in Configs
  PROVE  /\ Sized(q, i, k, skew, e, p).deployed = TRUE
         /\ Sized(q, i, k, skew, e, p).base > 0
         /\ {"deployed", "present", "base", "fees"} \subseteq DOMAIN Sized(q, i, k, skew, e, p)
  <1>1. p.targetBase \in Nat /\ p.targetBase >= Grain /\ Grain \in Nat \ {0}
    BY ConfigAssumption, TickAssumption
  <1>2. (p.targetBase * k) \div Grain \in Nat /\ (p.targetBase * k) \div Grain >= 1
    <2>1. p.targetBase * k \in Nat /\ p.targetBase * k >= Grain
      BY <1>1
    <2> QED
      BY <1>1, <2>1
  <1> DEFINE base == (p.targetBase * k) \div Grain
             guard == (p.targetGuard * k) \div Grain
  <1> HIDE DEF base, guard
  <1>3. LET c == Funded(q.books[i], base, guard)
        IN  c.deployed = TRUE /\ c.base = base /\ DOMAIN c = DOMAIN q.books[i]
    BY DEF Funded, Shape
  <1>4. LET b == Sized(q, i, k, skew, e, p)
        IN  b.deployed = TRUE /\ b.base = base /\ DOMAIN b = DOMAIN q.books[i]
    BY <1>3 DEF Sized, Shape, base, guard
  <1> QED
    BY <1>2, <1>4 DEF base, Shape

\* What comes of funding a book when no other is deployed: it is deployed and active, or
\* everything is as it was.
FundedWell(q, r, i) ==
    /\ Sound(r) /\ SameDebt(q, r)
    /\ r.active = i \/ Kept(q, r)
    /\ \A j \in Books \ {i} : ~r.books[j].deployed

\* Placing a scale funds the book, or changes nothing.
LEMMA PlacedWell ==
  ASSUME NEW q, Sound(q), NEW i \in Books, \A j \in Books \ {i} : ~q.books[j].deployed,
         NEW skew, NEW k \in Nat, NEW e, NEW p \in Configs
  PROVE  FundedWell(q, Placed(q, i, skew, k, e, p).pf, i)
  <1>1. CASE k <= 0
    BY <1>1 DEF Placed, FundedWell, Sound, Shape, Kept, KeptBook, SameDebt
  <1>2. CASE k > 0
    <2> DEFINE b == Sized(q, i, k, skew, e, p)
               r == Placed(q, i, skew, k, e, p).pf
    <2>0. r = Placed(q, i, skew, k, e, p).pf
      OBVIOUS
    <2>1. /\ b.deployed = TRUE /\ b.base > 0
          /\ {"deployed", "present", "base", "fees"} \subseteq DOMAIN b
      <3>1. Shape(q)
        BY DEF Sound
      <3> QED
        BY <1>2, <3>1, SizedIsWhole
    <2> HIDE DEF b
    <2>2. /\ DOMAIN r = DOMAIN q /\ r.active = i /\ r.arm = q.arm
          /\ r.books = [q.books EXCEPT ![i] = b]
      BY <1>2 DEF Placed, Sound, Shape, b
    <2> HIDE DEF r
    <2>3. /\ r.books[i] = b
          /\ \A j \in Books \ {i} : r.books[j] = q.books[j]
      BY <2>2 DEF Sound, Shape
    <2>4. Shape(r)
      <3>1. Shape(q)
        BY DEF Sound
      <3>2. \A j \in Books : /\ {"deployed", "present", "base", "fees"} \subseteq DOMAIN r.books[j]
                             /\ r.books[j].deployed \in BOOLEAN
        BY <2>1, <2>3, <3>1 DEF Shape
      <3> QED
        BY <2>2, <3>1, <3>2 DEF Shape
    <2>5. \A j \in Books : Whole(r.books[j]) /\ (j # i => ~r.books[j].deployed)
      BY <2>1, <2>3 DEF Sound, Whole
    <2>6. Sound(r)
      BY <2>2, <2>4, <2>5 DEF Sound
    <2> QED
      BY <2>0, <2>2, <2>5, <2>6 DEF FundedWell, SameDebt
  <1> QED
    BY <1>1, <1>2

\* FUND_BOOK, a recenter and a switch fund by this, whichever way the tokens are found.
LEMMA FundBookFunds ==
  ASSUME NEW q, Sound(q), NEW i \in Books, \A j \in Books \ {i} : ~q.books[j].deployed,
         NEW e, NEW p \in Configs
  PROVE  FundedWell(q, FundBook(q, i, e, p).pf, i)
  <1>1. Slice(Grain, p.fundBps) \in Nat /\ Grain \in Nat
    <2>1. p.fundBps \in Nat /\ BPS \in Nat \ {0} /\ Grain \in Nat
      BY ConfigAssumption, DustAssumption, TickAssumption
    <2>2. Least(p.fundBps, BPS) \in Nat
      BY <2>1 DEF Least
    <2>3. Grain * Least(p.fundBps, BPS) \in Nat
      BY <2>1, <2>2
    <2> QED
      BY <2>1, <2>3 DEF Slice
  <1>2. ASSUME NEW skew
        PROVE  FundedWell(q, FundSkewed(q, i, skew, e, p).pf, i)
    <2>1. CASE p.fundingMode # "swap"
      BY <1>1, <2>1, ScaleIsNat, PlacedWell DEF FundSkewed
    <2>2. CASE p.fundingMode = "swap"
      <3> DEFINE full == Sized(q, i, Grain, skew, e, p)
                 held == SwapDeficit(q, Slice(BookUsdg(full, e.tick), p.fundBps),
                                     Slice(BookNvda(full, e.tick), p.fundBps), e,
                                     p.swapCostBps)
                 k == Scale(q, i, skew, e, p, held.usdg, held.nvda, Slice(Grain, p.fundBps))
      <3>1. Kept(q, held) /\ SameDebt(q, held) /\ Sound(held)
        BY SwapDeficitKeeps, KeptSound DEF Sound
      <3>2. FundSkewed(q, i, skew, e, p) = Placed(held, i, skew, k, e, p)
        BY <2>2 DEF FundSkewed
      <3>3. k \in Nat
        BY <1>1, ScaleIsNat
      <3> HIDE DEF held, k
      <3>4. \A j \in Books \ {i} : ~held.books[j].deployed
        BY <3>1 DEF Kept, KeptBook
      <3>5. FundedWell(held, Placed(held, i, skew, k, e, p).pf, i)
        BY <3>1, <3>3, <3>4, PlacedWell
      <3> QED
        BY <3>1, <3>2, <3>5, KeptTransitive DEF FundedWell, SameDebt, Sound
    <2> QED
      BY <2>1, <2>2
  <1> QED
    BY <1>2 DEF FundBook

-----------------------------------------------------------------------------
(* The income of an hour.                                                           *)

\* A book of q that is deployed is r's with its deployment and its base; the other one is
\* the same.
TouchesBook(q, r, i) ==
    /\ DOMAIN r = DOMAIN q /\ r.active = q.active
    /\ "debt" \in DOMAIN r.arm /\ DOMAIN r.books = Books
    /\ DOMAIN r.books[i] = DOMAIN q.books[i]
    /\ r.books[i].deployed = q.books[i].deployed /\ r.books[i].base = q.books[i].base
    /\ \A j \in Books \ {i} : r.books[j] = q.books[j]

\* A deployed book touched so is kept.
LEMMA TouchedKept ==
  ASSUME NEW q, Shape(q), NEW i \in Books, q.books[i].deployed,
         NEW r, TouchesBook(q, r, i)
  PROVE  Kept(q, r)
  <1>1. Shape(r)
    <2>1. \A j \in Books : /\ {"deployed", "present", "base", "fees"} \subseteq DOMAIN r.books[j]
                           /\ r.books[j].deployed \in BOOLEAN
      BY DEF TouchesBook, Shape
    <2> QED
      BY <2>1 DEF TouchesBook, Shape
  <1>2. \A j \in Books : KeptBook(q.books[j], r.books[j])
    BY DEF TouchesBook, KeptBook
  <1> QED
    BY <1>1, <1>2 DEF Kept, TouchesBook

\* Crediting fees, a pull and a re-arm each touch the one book.
LEMMA CreditedTouches ==
  ASSUME NEW q, Shape(q), NEW i \in Books, NEW fees
  PROVE  TouchesBook(q, Credited(q, i, fees), i)
  BY DEF Credited, Shape, TouchesBook

LEMMA PulledTouches ==
  ASSUME NEW q, Shape(q), NEW i \in Books
  PROVE  TouchesBook(q, Pulled(q, i), i)
  BY DEF Pulled, Shape, TouchesBook

LEMMA RearmedTouches ==
  ASSUME NEW q, Shape(q), NEW i \in Books, NEW target
  PROVE  TouchesBook(q, Rearmed(q, i, target), i)
  <1> DEFINE t  == env.tick
             lo == t - params.guardWidth
             hi == t + params.guardWidth
             l  == Max({k \in 0 .. target : /\ Usdg(k, lo, hi, t) <= q.usdg
                                            /\ Nvda(k, lo, hi, t) <= q.nvda})
             b  == [q.books[i] EXCEPT !.guard = l, !.present = TRUE,
                                      !.guardLo = lo, !.guardHi = hi, !.since = NoPull]
             r  == Rearmed(q, i, target)
  <1>1. /\ DOMAIN b = DOMAIN q.books[i]
        /\ b.deployed = q.books[i].deployed /\ b.base = q.books[i].base
    <2> HIDE DEF l
    <2> QED
      BY DEF Shape
  <1>2. CASE l = 0
    BY <1>2 DEF Rearmed, Shape, TouchesBook
  <1>3. CASE l # 0
    <2>1. /\ DOMAIN r = DOMAIN q /\ r.active = q.active /\ r.arm = q.arm
          /\ r.books = [q.books EXCEPT ![i] = b]
      <3>1. r = [q EXCEPT !.usdg = @ - Usdg(l, lo, hi, t), !.nvda = @ - Nvda(l, lo, hi, t),
                          !.books[i].guard = l, !.books[i].present = TRUE,
                          !.books[i].guardLo = lo, !.books[i].guardHi = hi,
                          !.books[i].since = NoPull]
        BY <1>3 DEF Rearmed
      <3> HIDE DEF l, lo, hi, t, r
      <3> QED
        BY <3>1 DEF Shape
    <2> HIDE DEF b, r
    <2>2. TouchesBook(q, r, i)
      BY <1>1, <2>1 DEF Shape, TouchesBook
    <2> QED
      BY <2>2 DEF r
  <1> QED
    BY <1>2, <1>3

\* Fees, a pull and a re-arm leave a deployed book deployed, with its base.
LEMMA BookIncomeKeeps ==
  ASSUME NEW q, Shape(q), NEW i \in Books
  PROVE  Kept(q, BookIncome(q, i))
  <1>1. CASE ~q.books[i].deployed
    BY <1>1 DEF BookIncome, Kept, KeptBook, Shape
  <1>2. CASE q.books[i].deployed
    <2>1. ASSUME NEW bin
          PROVE  Kept(q, WithFees(q, i, bin))
      <3>1. ASSUME NEW fees
            PROVE  Kept(q, Credited(q, i, fees))
        BY <1>2, CreditedTouches, TouchedKept
      <3>2. ASSUME NEW fees
            PROVE  Kept(q, Pulled(Credited(q, i, fees), i))
        <4> DEFINE r == Credited(q, i, fees)
        <4>1. Kept(q, r) /\ Shape(r) /\ r.books[i].deployed
          BY <1>2, <3>1 DEF Kept, KeptBook
        <4> HIDE DEF r
        <4>2. Kept(r, Pulled(r, i))
          BY <4>1, PulledTouches, TouchedKept
        <4>3. Kept(q, Pulled(r, i))
          BY <4>1, <4>2, KeptTransitive
        <4> QED
          BY <4>3 DEF r
      <3> QED
        BY <3>1, <3>2 DEF WithFees
    <2>2. ASSUME NEW r, Shape(r), r.books[i].deployed, NEW signal
          PROVE  Kept(r, WithRearm(r, i, signal))
      <3>1. Kept(r, r)
        BY <2>2 DEF Kept, KeptBook, Shape
      <3>2. ASSUME NEW held, Kept(r, held), NEW target
            PROVE  Kept(r, Rearmed(held, i, target))
        <4>1. Shape(held) /\ held.books[i].deployed
          BY <2>2, <3>2 DEF Kept, KeptBook
        <4>2. Kept(held, Rearmed(held, i, target))
          BY <4>1, RearmedTouches, TouchedKept
        <4> QED
          BY <2>2, <3>2, <4>2, KeptTransitive
      <3>3. \A a, b, e, cost : Kept(r, SwapDeficit(r, a, b, e, cost))
        BY <2>2, SwapDeficitKeeps
      <3> QED
        BY <3>1, <3>2, <3>3 DEF WithRearm
    <2> DEFINE paid == WithFees(q, i, PulledAt(q.books[i], i))
    <2>3. Kept(q, paid) /\ Shape(paid) /\ paid.books[i].deployed
      BY <1>2, <2>1 DEF Kept, KeptBook
    <2> HIDE DEF paid
    <2>4. Kept(paid, WithRearm(paid, i, RearmSignal(q.books[i], i)))
      BY <2>2, <2>3
    <2>5. Kept(q, WithRearm(paid, i, RearmSignal(q.books[i], i)))
      BY <2>3, <2>4, KeptTransitive
    <2> QED
      BY <1>2, <2>5 DEF BookIncome, paid
  <1> QED
    BY <1>1, <1>2 DEF Shape

\* Interest moves the arms only.
LEMMA WithInterestKeeps ==
  ASSUME NEW q, Shape(q)
  PROVE  Kept(q, WithInterest(q))
  <1> DEFINE r == WithInterest(q)
  <1>1. /\ DOMAIN r = DOMAIN q /\ r.books = q.books /\ r.active = q.active
        /\ "debt" \in DOMAIN r.arm
    BY DEF WithInterest, Shape
  <1> QED
    BY <1>1, SameBooksKept

\* So does starting the books of account of a block.
LEMMA NoFlowKeeps ==
  ASSUME NEW q, Sound(q)
  PROVE  LET r == [q EXCEPT !.cum = NoFlow]
         IN  Kept(q, r) /\ SameDebt(q, r) /\ Sound(r) /\ r.books = q.books /\ r.active = q.active
  <1> DEFINE r == [q EXCEPT !.cum = NoFlow]
  <1>1. /\ DOMAIN r = DOMAIN q /\ r.books = q.books /\ r.active = q.active /\ r.arm = q.arm
    BY DEF Sound, Shape
  <1> HIDE DEF r
  <1>2. Kept(q, r) /\ SameDebt(q, r)
    BY <1>1, SameBooksKept DEF Sound, Shape, SameDebt
  <1>3. Sound(r)
    BY <1>2, KeptSound
  <1> QED
    BY <1>1, <1>2, <1>3 DEF r

\* An hour's income keeps the books.
LEMMA IncomeKeeps ==
  ASSUME Sound(pf), Income
  PROVE  Kept(pf, pf')
  <1> DEFINE a == [pf EXCEPT !.cum = NoFlow]
             b == BookIncome(a, 0)
             c == BookIncome(b, 1)
             d == WithInterest(c)
  <1>1. Kept(pf, a) /\ Shape(pf)
    BY NoFlowKeeps DEF Sound
  <1>2. pf' = Liquidate(d, env, params)
    BY DEF Income
  <1> HIDE DEF a
  <1>3. Kept(a, b)
    BY <1>1, BookIncomeKeeps DEF Kept, Books
  <1>4. Kept(pf, b)
    BY <1>1, <1>3, KeptTransitive
  <1> HIDE DEF b
  <1>5. Kept(b, c)
    BY <1>4, BookIncomeKeeps DEF Kept, Books
  <1>6. Kept(pf, c)
    BY <1>1, <1>4, <1>5, KeptTransitive
  <1> HIDE DEF c
  <1>7. Kept(c, d)
    BY <1>6, WithInterestKeeps DEF Kept
  <1>8. Kept(pf, d)
    BY <1>1, <1>6, <1>7, KeptTransitive
  <1> HIDE DEF d
  <1>9. Kept(d, pf')
    BY <1>2, <1>8, LiquidateKeeps DEF Kept
  <1> QED
    BY <1>1, <1>8, <1>9, KeptTransitive

-----------------------------------------------------------------------------
(* What is decided.                                                                 *)

\* A decision names a book where it needs one; a book is funded only when the active one is
\* empty; the keeper as built, with an empty book, neither funds nor switches; a risk-only
\* run in book A neither switches nor funds another.
KeeperAsBuilt == params.policy = "allocator" /\ ~params.fixEmptyBook
RiskOnlyFromA == /\ params.policy \in {"risk_only", "risk_fee_il"}
                 /\ params.oppWindow = 0 /\ params.startBook = 0

DecidedWell(d) ==
    /\ d.action \in {"FUND_BOOK", "SWITCH_BOOK"} => d.book \in Books
    /\ d.action = "FUND_BOOK" => ~HasPositions(Active(pf))
    /\ KeeperAsBuilt /\ ~HasPositions(Active(pf))
         => d.action \notin {"FUND_BOOK", "SWITCH_BOOK"}
    /\ RiskOnlyFromA /\ pf.active = 0
         => d.action # "SWITCH_BOOK" /\ (d.action = "FUND_BOOK" => d.book = 0)

\* A decision that neither funds nor switches.
Stays(d) == d.action \notin {"FUND_BOOK", "SWITCH_BOOK"}

LEMMA StaysWell ==
  ASSUME NEW d, Stays(d)
  PROVE  DecidedWell(d)
  BY DEF Stays, DecidedWell

\* On the way into the arms, when paused, to repay, to recenter and to sweep, nothing is
\* funded and nothing switched.
LEMMA StepsThatStay ==
  /\ \A q, e, p : Stays(DeployToArms(q, e, p))
  /\ \A q : Stays(WhenPaused(q))
  /\ \A q, e, p : Stays(Sentinel(q, e, p))
  /\ \A q, e, p : Stays(Recenter(q, e, p))
  /\ \A q, e, p : Stays(Surplus(q, e, p))
  /\ Stays(Hold)
  <1>1. \A q, e, p : Stays(DeployToArms(q, e, p))
    BY DEF DeployToArms, Stays, Do, Hold
  <1>2. \A q : Stays(WhenPaused(q))
    BY DEF WhenPaused, Stays, Do, Hold
  <1>3. \A q, e, p : Stays(Sentinel(q, e, p))
    BY DEF Sentinel, Stays, Do, None
  <1>4. \A q, e, p : Stays(Recenter(q, e, p))
    BY DEF Recenter, Stays, Do, None
  <1>5. \A q, e, p : Stays(Surplus(q, e, p))
    BY DEF Surplus, Stays, Do, None
  <1> QED
    BY <1>1, <1>2, <1>3, <1>4, <1>5 DEF Stays, Do, Hold

\* The way back funds the active book, once it is empty and the arms are.
LEMMA ReturnFundsActive ==
  ASSUME NEW q, NEW p, NEW d, d = ReturnToBooks(q, p)
  PROVE  \/ Stays(d)
         \/ d.action = "FUND_BOOK" /\ d.book = q.active /\ ~HasPositions(Active(q))
  BY DEF ReturnToBooks, Stays, Do, DoBook, Hold

\* Without positions the guard is away, which triggers.
LEMMA EmptyTriggers ==
  ASSUME Sound(pf), ~HasPositions(Active(pf)), NEW metrics
  PROVE  SafeHarbour(pf, metrics, env, params, FALSE)
  BY DeployedHolds DEF SafeHarbour, GuardTrigger, Active, Sound, Shape, Whole

\* The three kinds of policy decide well.
LEMMA RiskDecidesWell ==
  ASSUME Sound(pf), params.policy \in {"risk_only", "risk_fee_il"}, NEW metrics
  PROVE  DecidedWell(RiskPolicy(pf, metrics, past, env, hour, params))
  <1> DEFINE d == RiskPolicy(pf, metrics, past, env, hour, params)
             back == DoBook("SWITCH_BOOK", 0)
             lead == DoBook("SWITCH_BOOK", 1 - pf.active)
             home == ReturnToBooks(pf, params)
  <1>1. pf.active \in {0, 1}
    BY DEF Sound, Shape, Books
  <1>2. \/ Stays(d)
        \/ d = back /\ pf.active = 1
        \/ d = lead /\ params.oppWindow > 0 /\ HasPositions(Active(pf))
        \/ d = home
    BY StepsThatStay DEF RiskPolicy, SwitchBack, DoBook, None, Do
  <1>3. CASE Stays(d)
    BY <1>3, StaysWell
  <1>4. CASE d = back /\ pf.active = 1
    BY <1>4 DEF DecidedWell, DoBook, Books, KeeperAsBuilt
  <1>5. CASE d = lead /\ params.oppWindow > 0 /\ HasPositions(Active(pf))
    BY <1>1, <1>5 DEF DecidedWell, DoBook, Books, KeeperAsBuilt, RiskOnlyFromA
  <1>6. CASE d = home
    BY <1>1, <1>6, ReturnFundsActive, StaysWell DEF DecidedWell, Books, KeeperAsBuilt
  <1> QED
    BY <1>2, <1>3, <1>4, <1>5, <1>6

LEMMA KeeperDecidesWell ==
  ASSUME Sound(pf), params.policy = "allocator", NEW metrics
  PROVE  DecidedWell(KeeperPolicy(pf, metrics, env, hour, params))
  <1> DEFINE d == KeeperPolicy(pf, metrics, env, hour, params)
             choice == DecidePoolSwitch(metrics, pf.active, params.switchBuffer)
             lead == DoBook("SWITCH_BOOK", choice.book)
             home == ReturnToBooks(pf, params)
  <1>1. pf.active \in {0, 1}
    BY DEF Sound, Shape, Books
  <1>2. choice.action = "SWITCH" => choice.book \in Books
    BY DEF DecidePoolSwitch, Best, Books
  <1>3. \/ Stays(d)
        \/ /\ ~SafeHarbour(pf, metrics, env, params, params.fixEmptyBook)
           /\ d = home \/ (d = lead /\ choice.action = "SWITCH")
    BY StepsThatStay DEF KeeperPolicy
  <1>4. CASE Stays(d)
    BY <1>4, StaysWell
  <1>5. CASE ~SafeHarbour(pf, metrics, env, params, params.fixEmptyBook)
    <2>1. KeeperAsBuilt => HasPositions(Active(pf))
      BY <1>5, EmptyTriggers DEF KeeperAsBuilt, SafeHarbour
    <2>2. CASE d = home
      BY <1>1, <2>1, <2>2, ReturnFundsActive, StaysWell DEF DecidedWell, Books, RiskOnlyFromA
    <2>3. CASE d = lead /\ choice.action = "SWITCH"
      BY <1>2, <2>1, <2>3 DEF DecidedWell, DoBook, RiskOnlyFromA
    <2> QED
      BY <1>3, <1>4, <2>2, <2>3
  <1> QED
    BY <1>3, <1>4, <1>5

LEMMA AlwaysDecidesWell ==
  ASSUME Sound(pf), params.policy \in {"always_a", "always_b"}, NEW i \in Books
  PROVE  DecidedWell(AlwaysBook(pf, i))
  BY DEF AlwaysBook, DecidedWell, DoBook, Do, Hold, Active, KeeperAsBuilt, RiskOnlyFromA

\* So does every policy, in every hour.
LEMMA DecideDecidesWell ==
  ASSUME Sound(pf), params \in Configs
  PROVE  DecidedWell(Decide(pf, past, env, hour, params))
  <1> DEFINE d == Decide(pf, past, env, hour, params)
  <1>1. params.policy \in Policies
    BY ConfigAssumption
  <1>2. CASE Idle(hour, params)
    BY <1>2, StepsThatStay, StaysWell DEF Decide
  <1>3. CASE ~Idle(hour, params) /\ params.policy = "always_arms"
    BY <1>3, StepsThatStay, StaysWell DEF Decide
  <1>4. CASE ~Idle(hour, params) /\ params.policy = "always_a"
    BY <1>4, AlwaysDecidesWell DEF Decide, Books
  <1>5. CASE ~Idle(hour, params) /\ params.policy = "always_b"
    BY <1>5, AlwaysDecidesWell DEF Decide, Books
  <1>6. CASE ~Idle(hour, params) /\ params.policy \in {"risk_only", "risk_fee_il"}
    BY <1>6, RiskDecidesWell DEF Decide
  <1>7. CASE ~Idle(hour, params) /\ params.policy = "allocator"
    BY <1>7, KeeperDecidesWell DEF Decide
  <1> QED
    BY <1>1, <1>2, <1>3, <1>4, <1>5, <1>6, <1>7 DEF Policies, Idle

-----------------------------------------------------------------------------
(* The one action of an hour.                                                       *)

\* How the execution of a decision may change the portfolio: its books are kept, or they
\* are closed; or, free of debt, the named book is funded with the other one closed; or the
\* active book is closed and funded again.
Closed(q, r) ==
    /\ Sound(r) /\ r.active = q.active /\ SameDebt(q, r)
    /\ \A j \in Books : ~r.books[j].deployed

LEMMA ClosedActive ==
  ASSUME NEW q, Sound(q), NEW r, r = CloseBook(q, q.active, env)
  PROVE  Closed(q, r)
  <1>1. q.active \in Books
    BY DEF Sound, Shape
  <1>2. /\ Sound(r) /\ r.active = q.active /\ SameDebt(q, r) /\ ~r.books[q.active].deployed
        /\ \A j \in Books \ {q.active} : r.books[j] = q.books[j]
    BY <1>1, CloseBookCloses
  <1> QED
    BY <1>2 DEF Closed, Sound

\* Gas leaves what was funded funded.
LEMMA GasAfterFunding ==
  ASSUME NEW q, NEW r, NEW i \in Books, FundedWell(q, r, i), NEW gas, Sound(q)
  PROVE  FundedWell(q, PayGas(r, gas), i)
  <1> DEFINE s == PayGas(r, gas)
  <1>1. Kept(r, s) /\ SameDebt(r, s) /\ Sound(s)
    BY PayGasKeeps, KeptSound DEF FundedWell
  <1> HIDE DEF s
  <1>2. \A j \in Books \ {i} : ~s.books[j].deployed
    BY <1>1 DEF FundedWell, Kept, KeptBook
  <1>3. s.active = i \/ Kept(q, s)
    BY <1>1, KeptTransitive DEF FundedWell, Kept, Sound
  <1>4. SameDebt(q, s)
    BY <1>1 DEF FundedWell, SameDebt
  <1> QED
    BY <1>1, <1>2, <1>3, <1>4 DEF FundedWell, s

\* So does the cost of a switch, and a funding that comes to dust.
LEMMA SettleFunds ==
  ASSUME NEW q, Sound(q), NEW i \in Books, NEW funded, FundedWell(q, funded.pf, i),
         NEW cost, Settle(funded, cost)
  PROVE  FundedWell(q, pf', i)
  <1> DEFINE r == [funded.pf EXCEPT !.usdg = Monus(@, cost), !.cum.switch = @ + cost]
  <1>1. /\ DOMAIN r = DOMAIN funded.pf /\ r.books = funded.pf.books
        /\ r.active = funded.pf.active /\ r.arm = funded.pf.arm
    BY DEF FundedWell, Sound, Shape
  <1>2. pf' = funded.pf \/ pf' = PayGas(r, params.gas)
    BY DEF Settle, Execute, Done
  <1> HIDE DEF r
  <1>3. FundedWell(q, r, i)
    <2>1. Kept(funded.pf, r)
      BY <1>1, SameBooksKept DEF FundedWell, Sound, Shape
    <2>2. Sound(r)
      BY <2>1, KeptSound DEF FundedWell
    <2>3. r.active = i \/ Kept(q, r)
      BY <1>1, <2>1, KeptTransitive DEF FundedWell, Sound
    <2> QED
      BY <1>1, <2>2, <2>3 DEF FundedWell, SameDebt
  <1> QED
    BY <1>2, <1>3, GasAfterFunding

\* What became of the portfolio: see Closed and FundedWell.
Outcome ==
    \/ Kept(pf, pf')
    \/ Closed(pf, pf')
    \/ /\ decision.action = "FUND_BOOK" /\ ~(pf.arm.debt > DustUsd) /\ SameDebt(pf, pf')
       /\ decision.book \in Books /\ ~HasPositions(pf.books[decision.book])
       /\ Sound(pf') /\ pf'.active \in {decision.book, pf.active}
       /\ ~HasPositions(Active(pf))
    \/ /\ decision.action = "SWITCH_BOOK" /\ ~(pf.arm.debt > DustUsd) /\ SameDebt(pf, pf')
       /\ Sound(pf')
    \/ /\ decision.action = "RECENTER_BOOK" /\ HasPositions(Active(pf)) /\ SameDebt(pf, pf')
       /\ Sound(pf') /\ pf'.active = pf.active

\* The portfolio an action starts from has the books of the present one.
LEMMA BeforeSame ==
  ASSUME Sound(pf)
  PROVE  /\ Kept(pf, Before) /\ SameDebt(pf, Before) /\ Sound(Before)
         /\ Before.books = pf.books /\ Before.active = pf.active
  BY NoFlowKeeps DEF Before

\* Whatever the arms do, paid for with gas, the books are kept.
SameBooks(r) ==
    /\ DOMAIN r = DOMAIN Before /\ r.books = Before.books /\ r.active = Before.active
    /\ "debt" \in DOMAIN r.arm

LEMMA ArmsKeep ==
  ASSUME Sound(pf), NEW r, SameBooks(r)
  PROVE  Kept(pf, Done(r))
  <1>1. Kept(Before, r)
    BY BeforeSame, SameBooksKept DEF Sound, SameBooks
  <1>2. Kept(pf, r) /\ Sound(r)
    BY <1>1, BeforeSame, KeptTransitive, KeptSound DEF Sound
  <1> QED
    BY <1>2, PayGasKeeps, KeptTransitive DEF Done, Sound

\* The actions that move capital between what is idle and the arms, and HOLD.
ArmAction ==
    \/ ExecuteHold \/ ExecuteAllocateUsdg \/ ExecuteAllocateNvda \/ ExecuteBorrow
    \/ ExecuteRepay \/ ExecuteWithdraw \/ ExecuteDeallocate

LEMMA ArmActionsKeep ==
  ASSUME Sound(pf), ArmAction
  PROVE  Kept(pf, pf')
  <1>1. "debt" \in DOMAIN Before.arm /\ "arm" \in DOMAIN Before
    BY BeforeSame DEF Sound, Shape
  <1>2. Kept(pf, Before)
    BY BeforeSame
  <1>3. CASE ExecuteHold
    BY <1>2, <1>3 DEF ExecuteHold, Execute
  <1>4. CASE ExecuteAllocateUsdg
    <2> DEFINE amount == Least(Least(decision.amount, pf.usdg), LendRoom(pf, env, params))
               r == [Before EXCEPT !.usdg = @ - amount, !.arm.lent = @ + amount]
    <2>1. pf' = Done(r) \/ pf' = Before
      BY <1>4 DEF ExecuteAllocateUsdg, Execute
    <2> HIDE DEF amount
    <2>2. SameBooks(r)
      BY <1>1 DEF SameBooks
    <2> QED
      BY <1>2, <2>1, <2>2, ArmsKeep
  <1>5. CASE ExecuteAllocateNvda
    <2> DEFINE amount == Least(Least(decision.amount, pf.nvda),
                        CollateralRoom(pf, env, params) \div Price(env))
               r == [Before EXCEPT !.nvda = @ - amount, !.arm.nvda = @ + amount]
    <2>1. pf' = Done(r) \/ pf' = Before
      BY <1>5 DEF ExecuteAllocateNvda, Execute
    <2> HIDE DEF amount
    <2>2. SameBooks(r)
      BY <1>1 DEF SameBooks
    <2> QED
      BY <1>2, <2>1, <2>2, ArmsKeep
  <1>6. CASE ExecuteBorrow
    <2> DEFINE amount == Least(decision.amount, BorrowRoom(pf, env, params))
               r == [Before EXCEPT !.usdg = @ + amount, !.arm.debt = @ + amount]
    <2>1. pf' = Done(r) \/ pf' = Before
      BY <1>6 DEF ExecuteBorrow, Execute
    <2> HIDE DEF amount
    <2>2. SameBooks(r)
      BY <1>1 DEF SameBooks
    <2> QED
      BY <1>2, <2>1, <2>2, ArmsKeep
  <1>7. CASE ExecuteRepay
    <2> DEFINE amount == Least(Least(decision.amount, pf.usdg + pf.arm.lent), pf.arm.debt)
               idle == Least(amount, pf.usdg)
               r == [Before EXCEPT !.usdg = @ - idle, !.arm.lent = @ - (amount - idle),
                                     !.arm.debt = @ - amount]
    <2>1. pf' = Done(r) \/ pf' = Before
      BY <1>7 DEF ExecuteRepay, Execute
    <2> HIDE DEF amount, idle
    <2>2. SameBooks(r)
      BY <1>1 DEF SameBooks
    <2> QED
      BY <1>2, <2>1, <2>2, ArmsKeep
  <1>8. CASE ExecuteWithdraw
    <2> DEFINE needed == CeilDiv(pf.arm.debt * params.minHealthBps, params.lltvBps * Price(env))
               free == IF pf.arm.debt > DustUsd THEN Monus(pf.arm.nvda, needed) ELSE pf.arm.nvda
               amount == Least(decision.amount, free)
               r == [Before EXCEPT !.arm.nvda = @ - amount, !.nvda = @ + amount]
    <2>1. pf' = Done(r) \/ pf' = Before
      BY <1>8 DEF ExecuteWithdraw, Execute
    <2> HIDE DEF amount
    <2>2. SameBooks(r)
      BY <1>1 DEF SameBooks
    <2> QED
      BY <1>2, <2>1, <2>2, ArmsKeep
  <1>9. CASE ExecuteDeallocate
    <2> DEFINE amount == Least(decision.amount, pf.arm.lent)
               r == [Before EXCEPT !.arm.lent = @ - amount, !.usdg = @ + amount]
    <2>1. pf' = Done(r) \/ pf' = Before
      BY <1>9 DEF ExecuteDeallocate, Execute
    <2> HIDE DEF amount
    <2>2. SameBooks(r)
      BY <1>1 DEF SameBooks
    <2> QED
      BY <1>2, <2>1, <2>2, ArmsKeep
  <1> QED
    BY <1>3, <1>4, <1>5, <1>6, <1>7, <1>8, <1>9 DEF ArmAction

\* RECALL_BOOK closes the active book.
LEMMA RecallCloses ==
  ASSUME Sound(pf), ExecuteRecall
  PROVE  Closed(pf, pf')
  <1> DEFINE r == CloseBook(Before, pf.active, env)
  <1>1. Closed(Before, r)
    BY BeforeSame, ClosedActive
  <1>2. pf' = PayGas(r, params.gas)
    BY DEF ExecuteRecall, Execute, Done
  <1> HIDE DEF r
  <1>3. Kept(r, pf') /\ SameDebt(r, pf') /\ Sound(pf')
    BY <1>1, <1>2, PayGasKeeps, KeptSound DEF Closed
  <1> QED
    BY <1>1, <1>3, BeforeSame DEF Closed, SameDebt, Kept, KeptBook

\* FUND_BOOK funds an empty book, free of debt, while no other has positions.
LEMMA FundFunds ==
  ASSUME Sound(pf), params \in Configs, DecidedWell(decision), ExecuteFund
  PROVE  Outcome
  <1>1. CASE pf.arm.debt > DustUsd \/ HasPositions(pf.books[decision.book])
    BY <1>1, BeforeSame DEF ExecuteFund, Execute, Outcome
  <1>2. CASE ~(pf.arm.debt > DustUsd \/ HasPositions(pf.books[decision.book]))
    <2> DEFINE funded == FundBook(Before, decision.book, env, params)
    <2>1. decision.action = "FUND_BOOK" /\ decision.book \in Books /\ ~HasPositions(Active(pf))
      BY DEF ExecuteFund, Executing, DecidedWell
    <2>2. \A j \in Books : ~Before.books[j].deployed
      BY <2>1, BeforeSame, DeployedHolds DEF Sound, Shape, Active
    <2>3. FundedWell(Before, funded.pf, decision.book)
      BY <2>1, <2>2, BeforeSame, FundBookFunds
    <2>4. Settle(funded, 0)
      BY <1>2 DEF ExecuteFund
    <2> HIDE DEF funded
    <2>5. FundedWell(Before, pf', decision.book)
      BY <2>1, <2>3, <2>4, BeforeSame, SettleFunds
    <2> QED
      BY <1>2, <2>1, <2>5, BeforeSame DEF FundedWell, Outcome, SameDebt, Kept
  <1> QED
    BY <1>1, <1>2

\* RECENTER_BOOK closes the active book and funds it again.
LEMMA RecenterFunds ==
  ASSUME Sound(pf), params \in Configs, ExecuteRecenter
  PROVE  Outcome
  <1>1. CASE ~HasPositions(Active(pf))
    BY <1>1, BeforeSame DEF ExecuteRecenter, Execute, Outcome
  <1>2. CASE HasPositions(Active(pf))
    <2> DEFINE r == CloseBook(Before, pf.active, env)
               funded == FundBook(r, pf.active, env, params)
               paid == [funded EXCEPT !.pf = PayGas(@, params.recenterGas)]
    <2>1. pf.active \in Books
      BY DEF Sound, Shape
    <2>2. Closed(Before, r)
      BY BeforeSame, ClosedActive
    <2>3. SettleRecenter(funded)
      BY <1>2 DEF ExecuteRecenter
    <2> HIDE DEF r
    <2>4. FundedWell(r, funded.pf, pf.active)
      BY <2>1, <2>2, FundBookFunds DEF Closed
    <2>5. "pf" \in DOMAIN funded
      BY DEF FundBook, FundSkewed, Placed
    <2> HIDE DEF funded
    <2>6. FundedWell(r, paid.pf, pf.active)
      BY <2>1, <2>2, <2>4, <2>5, GasAfterFunding DEF Closed
    <2>7. FundedWell(r, pf', pf.active)
      <3>1. CASE Settle(paid, 0)
        BY <2>1, <2>2, <2>6, <3>1, SettleFunds DEF Closed
      <3>2. CASE pf' = funded.pf
        BY <2>4, <3>2
      <3> QED
        BY <2>3, <3>1, <3>2 DEF SettleRecenter, Execute
    <2>8. pf'.active = pf.active /\ SameDebt(pf, pf') /\ Sound(pf')
      BY <2>2, <2>7, BeforeSame DEF FundedWell, Closed, SameDebt, Kept
    <2> QED
      BY <1>2, <2>8 DEF Outcome, ExecuteRecenter, Executing
  <1> QED
    BY <1>1, <1>2

\* SWITCH_BOOK closes both books and funds the target, free of debt.
LEMMA SwitchFunds ==
  ASSUME Sound(pf), params \in Configs, DecidedWell(decision), ExecuteSwitch
  PROVE  Outcome
  <1> DEFINE target == decision.book
             other == CloseHeld(Before, target)
             both == CloseHeld(other, pf.active)
             funded == FundBook(both, target, env, params)
  <1>1. /\ decision.action = "SWITCH_BOOK" /\ target \in Books /\ pf.active \in Books
    BY DEF ExecuteSwitch, Executing, DecidedWell, Sound, Shape
  <1>2. CASE pf' = Before
    BY <1>2, BeforeSame DEF Outcome
  <1>3. CASE ~(pf.arm.debt > DustUsd) /\ Settle(funded, (funded.value * params.switchBps) \div BPS)
    <2>1. Sound(other) /\ other.active = pf.active /\ SameDebt(pf, other)
      BY <1>1, BeforeSame, CloseHeldCloses DEF SameDebt
    <2> HIDE DEF other
    <2>2. /\ Sound(both) /\ both.active = pf.active /\ SameDebt(pf, both)
          /\ ~both.books[pf.active].deployed
      BY <1>1, <2>1, CloseHeldCloses DEF SameDebt
    <2>3. \A j \in Books : ~both.books[j].deployed
      BY <2>2 DEF Sound
    <2> HIDE DEF both
    <2>4. FundedWell(both, funded.pf, target)
      BY <1>1, <2>2, <2>3, FundBookFunds
    <2> HIDE DEF funded
    <2>5. FundedWell(both, pf', target)
      BY <1>1, <1>3, <2>2, <2>4, SettleFunds
    <2> QED
      BY <1>1, <1>3, <2>2, <2>5 DEF FundedWell, Outcome, SameDebt
  <1> QED
    BY <1>2, <1>3 DEF ExecuteSwitch, SettleSwitch, Execute

\* Every action of the keeper has one of the outcomes.
LEMMA ActionOutcome ==
  ASSUME Sound(pf), params \in Configs, DecidedWell(decision), ExecuteAction
  PROVE  Outcome
  <1>1. CASE ArmAction
    BY <1>1, ArmActionsKeep DEF Outcome
  <1>2. CASE ExecuteRecall
    BY <1>2, RecallCloses DEF Outcome
  <1> QED
    BY <1>1, <1>2, FundFunds, RecenterFunds, SwitchFunds DEF ExecuteAction, ArmAction

-----------------------------------------------------------------------------
(* The inductive invariant.                                                         *)

IInv ==
    /\ params \in Configs /\ Sound(pf)
    /\ phase = "execute" => DecidedWell(decision)
    /\ RiskOnlyFromA => pf.active = 0

\* A run starts with its one book funded, or with none.
THEOREM InitIInv == Init => IInv
  <1> SUFFICES ASSUME Init PROVE IInv
    OBVIOUS
  <1>1. params \in Configs /\ params.startBook \in Books
        /\ params.targetBase \in Nat /\ params.targetBase > 0
    BY ConfigAssumption, TickAssumption DEF Init
  <1> DEFINE empty == BookTemplate(FirstTick, params)
             full  == Funded(empty, params.targetBase, params.targetGuard)
             first == IF params.policy = "always_b" THEN 1 ELSE params.startBook
             idle  == params.policy \in {"hodl", "always_arms"}
  <1>2. /\ {"deployed", "present", "base", "fees"} \subseteq DOMAIN empty
        /\ {"deployed", "present", "base", "fees"} \subseteq DOMAIN full
        /\ empty.deployed = FALSE /\ empty.present = FALSE /\ empty.fees = 0
        /\ full.deployed = TRUE /\ full.base = params.targetBase
    BY DEF BookTemplate, Funded
  <1>3. /\ pf.active = first /\ DOMAIN pf = {"active", "books", "usdg", "nvda", "arm", "cum"}
        /\ pf.books = [i \in Books |-> IF i = first /\ ~idle THEN full ELSE empty]
        /\ DOMAIN pf.arm = {"nvda", "lent", "debt", "bad"}
    BY DEF Init, InitialPortfolio
  <1>4. first \in Books
    BY <1>1 DEF Books
  <1>5. phase # "execute" /\ (RiskOnlyFromA => first = 0)
    BY DEF Init, RiskOnlyFromA
  <1> HIDE DEF empty, full, first, idle
  <1>6. Shape(pf)
    BY <1>2, <1>3, <1>4 DEF Shape
  <1>7. Sound(pf)
    BY <1>1, <1>2, <1>3, <1>6 DEF Sound, Whole
  <1> QED
    BY <1>1, <1>3, <1>5, <1>7 DEF IInv

\* Each outcome of the keeper's action keeps the invariant.
LEMMA OutcomeKeepsIInv ==
  ASSUME IInv, Outcome, params' = params, phase' # "execute",
         DecidedWell(decision)
  PROVE  IInv'
  <1>1. Sound(pf')
    BY KeptSound DEF IInv, Outcome, Closed
  <1>2. RiskOnlyFromA => pf'.active = 0
    BY DEF IInv, Outcome, Kept, Closed, DecidedWell
  <1> QED
    BY <1>1, <1>2 DEF IInv, RiskOnlyFromA

\* The end of the hour ages the pulls, and nothing else.
LEMMA CloseKeeps ==
  ASSUME Sound(pf), Close
  PROVE  Kept(pf, pf')
  <1> DEFINE aged(b) == IF b.since = NoPull THEN b
                        ELSE [b EXCEPT !.since =
                                 Least(@ + 1, Greatest(params.rearmDelay, params.guardCooldown))]
  <1>1. \A b : /\ DOMAIN aged(b) = DOMAIN b
               /\ \A f \in {"deployed", "present", "base", "fees"} \cap DOMAIN b :
                     aged(b)[f] = b[f]
    OBVIOUS
  <1>2. pf' = [pf EXCEPT !.books = [i \in Books |-> aged(@[i])], !.cum = NoFlow]
    BY DEF Close
  <1> HIDE DEF aged
  <1>3. /\ DOMAIN pf' = DOMAIN pf /\ pf'.active = pf.active /\ pf'.arm = pf.arm
        /\ pf'.books = [i \in Books |-> aged(pf.books[i])]
    BY <1>2 DEF Sound, Shape
  <1>4. \A i \in Books :
           LET b == pf.books[i] IN LET c == pf'.books[i] IN
           /\ DOMAIN c = DOMAIN b /\ c.deployed = b.deployed /\ c.base = b.base
           /\ c.present = b.present /\ c.fees = b.fees
    BY <1>1, <1>3 DEF Sound, Shape
  <1> QED
    BY <1>3, <1>4 DEF Sound, Shape, Kept, KeptBook

\* Every block of an hour keeps the invariant.
THEOREM NextIInv == IInv /\ [Next]_vars => IInv'
  <1> SUFFICES ASSUME IInv, [Next]_vars PROVE IInv'
    OBVIOUS
  <1>1. CASE Market
    BY <1>1 DEF Market, IInv, RiskOnlyFromA
  <1>2. CASE Income
    <2>1. Kept(pf, pf') /\ Sound(pf')
      BY <1>2, IncomeKeeps, KeptSound DEF IInv
    <2> QED
      BY <1>2, <2>1 DEF Income, IInv, Kept, RiskOnlyFromA
  <1>3. CASE MakeDecision
    <2>1. DecidedWell(decision')
      BY <1>3, DecideDecidesWell DEF MakeDecision, IInv
    <2> QED
      BY <1>3, <2>1 DEF MakeDecision, IInv, DecidedWell, KeeperAsBuilt, RiskOnlyFromA, Active
  <1>4. CASE ExecuteAction
    <2>1. phase = "execute" /\ phase' = "close" /\ params' = params
      BY <1>4 DEF ExecuteAction, ExecuteHold, ExecuteAllocateUsdg, ExecuteAllocateNvda,
                  ExecuteBorrow, ExecuteRepay, ExecuteWithdraw, ExecuteDeallocate,
                  ExecuteRecall, ExecuteFund, ExecuteRecenter, ExecuteSwitch, Executing,
                  Execute, Settle, SettleRecenter, SettleSwitch
    <2> QED
      BY <1>4, <2>1, ActionOutcome, OutcomeKeepsIInv DEF IInv
  <1>5. CASE Close
    <2>1. Kept(pf, pf')
      BY <1>5, CloseKeeps DEF IInv
    <2>2. Sound(pf')
      BY <2>1, KeptSound DEF IInv
    <2> QED
      BY <1>5, <2>1, <2>2 DEF Close, IInv, Kept, RiskOnlyFromA
  <1>6. CASE UNCHANGED vars
    BY <1>6 DEF vars, IInv, DecidedWell, KeeperAsBuilt, RiskOnlyFromA, Active
  <1> QED
    BY <1>1, <1>2, <1>3, <1>4, <1>5, <1>6 DEF Next

\* The invariant holds throughout a run.
THEOREM Invariance == Spec => []IInv
  BY InitIInv, NextIInv, PTL DEF Spec

-----------------------------------------------------------------------------
(* The properties.                                                                  *)

\* Tokens and fees are in the active book or in none: no sequence of decisions leaves a
\* second book behind.
THEOREM OnlyOneBookEarns == Spec => []OneBookEarns
  <1>1. IInv => OneBookEarns
    BY DEF IInv, Sound, Whole, OneBookEarns
  <1> QED
    BY <1>1, Invariance, PTL

\* The risk-only baseline of book A is never in book B.
THEOREM RiskOnlyInA == Spec => []RiskOnlyStaysInA
  <1>1. IInv => RiskOnlyStaysInA
    BY DEF IInv, Sound, RiskOnlyFromA, RiskOnlyStaysInA, Books
  <1> QED
    BY <1>1, Invariance, PTL

\* What a step of the model does to the books: it keeps them, or it carries out an action.
LEMMA StepOutcome ==
  ASSUME IInv, [Next]_vars
  PROVE  Kept(pf, pf') \/ (DecidedWell(decision) /\ params' = params /\ Outcome)
  <1>1. ASSUME pf' = pf PROVE Kept(pf, pf')
    BY <1>1 DEF IInv, Sound, Shape, Kept, KeptBook
  <1>2. CASE Market \/ MakeDecision \/ UNCHANGED vars
    BY <1>1, <1>2 DEF Market, MakeDecision, vars
  <1>3. CASE Income
    BY <1>3, IncomeKeeps DEF IInv
  <1>4. CASE ExecuteAction
    <2>1. phase = "execute" /\ params' = params
      BY <1>4 DEF ExecuteAction, ExecuteHold, ExecuteAllocateUsdg, ExecuteAllocateNvda,
                  ExecuteBorrow, ExecuteRepay, ExecuteWithdraw, ExecuteDeallocate,
                  ExecuteRecall, ExecuteFund, ExecuteRecenter, ExecuteSwitch, Executing,
                  Execute, Settle, SettleRecenter, SettleSwitch
    <2> QED
      BY <1>4, <2>1, ActionOutcome DEF IInv
  <1>5. CASE Close
    BY <1>5, CloseKeeps DEF IInv
  <1> QED
    BY <1>2, <1>3, <1>4, <1>5 DEF Next

\* The keeper as built never comes back to the books once the active one is empty.
THEOREM NeverBack == Spec => OneWayDoor
  <1>1. IInv /\ IInv' /\ [Next]_vars =>
          [params.policy = "allocator" /\ ~params.fixEmptyBook /\ ~HasPositions(Active(pf))
             => ~HasPositions(Active(pf'))]_vars
    <2> SUFFICES ASSUME IInv, IInv', [Next]_vars, KeeperAsBuilt, ~HasPositions(Active(pf))
                 PROVE  ~HasPositions(Active(pf'))
      BY DEF KeeperAsBuilt
    <2>1. pf.active \in Books /\ ~pf.books[pf.active].deployed /\ pf'.active \in Books
      BY DeployedHolds DEF IInv, Sound, Shape, Active
    <2>2. pf'.active = pf.active /\ ~pf'.books[pf.active].deployed
      BY <2>1, StepOutcome DEF Outcome, DecidedWell, Kept, KeptBook, Closed
    <2> QED
      BY <2>1, <2>2, DeployedHolds DEF IInv, Active
  <1> QED
    BY <1>1, Invariance, PTL DEF OneWayDoor, Spec

-----------------------------------------------------------------------------
(* The refinement.                                                                  *)

\* The place of a sound portfolio is that of its active book, if it is deployed.
PlaceOf(q) == IF q.books[q.active].deployed THEN (IF q.active = 0 THEN "A" ELSE "B") ELSE "out"

LEMMA PlaceOfSound ==
  ASSUME NEW q, Sound(q)
  PROVE  (IF HasPositions(q.books[0]) THEN "A"
          ELSE IF HasPositions(q.books[1]) THEN "B" ELSE "out") = PlaceOf(q)
  <1>1. /\ q.active \in {0, 1} /\ \A i \in {0, 1} : i # q.active => ~q.books[i].deployed
    BY DEF Sound, Shape, Books
  <1>2. \A i \in {0, 1} : HasPositions(q.books[i]) <=> q.books[i].deployed
    BY DeployedHolds DEF Books
  <1> QED
    BY <1>1, <1>2 DEF PlaceOf

\* The abstract place is one of the three, and that of the active book.
LEMMA Places ==
  IInv => place = PlaceOf(pf) /\ place \in Cycles!Places
  BY PlaceOfSound DEF IInv, place, PlaceOf, Cycles!Places

\* Capital enters a book free of debt, and does so, leaves, borrows or repays one at a time.
THEOREM OpensDebtFree == Spec => BooksOpenDebtFree
  <1>1. Init => Cycles!Init
    <2> SUFFICES ASSUME Init PROVE Cycles!Init
      OBVIOUS
    <2>1. place \in Cycles!Places
      BY InitIInv, Places
    <2>2. ~(pf.arm.debt > DustUsd)
      BY DustAssumption DEF Init, InitialPortfolio
    <2> QED
      BY <2>1, <2>2 DEF Cycles!Init
  <1>2. IInv /\ IInv' /\ [Next]_vars => [Cycles!Next]_<<place, pf.arm.debt > DustUsd>>
    <2> SUFFICES ASSUME IInv, IInv', [Next]_vars
                 PROVE  [Cycles!Next]_<<place, pf.arm.debt > DustUsd>>
      OBVIOUS
    <2> DEFINE indebted == pf.arm.debt > DustUsd
    <2>1. /\ place = PlaceOf(pf) /\ place' = PlaceOf(pf')
          /\ place \in Cycles!Places /\ place' \in Cycles!Places
      <3>1. Sound(pf')
        BY DEF IInv
      <3>2. place' = PlaceOf(pf')
        BY <3>1, PlaceOfSound DEF place
      <3>3. place' \in Cycles!Places
        BY <3>2 DEF PlaceOf, Cycles!Places
      <3> QED
        BY <3>2, <3>3, Places
    <2>2. CASE Kept(pf, pf')
      <3>1. place' = place
        BY <2>1, <2>2 DEF PlaceOf, Kept, KeptBook, IInv, Sound, Shape
      <3> QED
        BY <3>1 DEF Cycles!Next, Cycles!Lend, Cycles!Settle
    <2>3. CASE Closed(pf, pf')
      <3>1. place' = "out" /\ SameDebt(pf, pf')
        BY <2>1, <2>3 DEF PlaceOf, Closed, Sound, Shape
      <3> QED
        BY <3>1 DEF Cycles!Next, Cycles!Leave, SameDebt
    <2>4. CASE ~indebted /\ SameDebt(pf, pf')
      <3>1. ~indebted' /\ ~indebted
        BY <2>4 DEF SameDebt
      <3> QED
        BY <2>1, <3>1, <2>4 DEF Cycles!Next, Cycles!Open, Cycles!Leave, Cycles!Places, SameDebt
    <2>5. CASE SameDebt(pf, pf') /\ HasPositions(Active(pf)) /\ pf'.active = pf.active
      <3>1. place' \in {place, "out"}
        BY <2>1, <2>5, DeployedHolds DEF PlaceOf, Active, IInv, Sound, Shape
      <3> QED
        BY <2>1, <2>5, <3>1 DEF Cycles!Next, Cycles!Leave, SameDebt
    <2> QED
      BY <2>2, <2>3, <2>4, <2>5, StepOutcome DEF Outcome
  <1> QED
    BY <1>1, <1>2, Invariance, PTL DEF BooksOpenDebtFree, Cycles!Spec, Spec
=============================================================================
