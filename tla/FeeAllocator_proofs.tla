-------------------------- MODULE FeeAllocator_proofs --------------------------
(***************************************************************************)
(* The 0.30 sleeve of the fee allocator, on any tape and for any run: while *)
(* the risk gate is HIGH it is drained, an hour that adds to it leaves it   *)
(* within its caps, and the cap alone takes it out only after the NAV grew. *)
(* Then the resampled tape, whose blocks join, and the types; the closed    *)
(* form, that no weight does better than; and the readings of a path, that  *)
(* agree however long it is.                                                *)
(***************************************************************************)
EXTENDS FeeStudies, FiniteSums, FiniteSetTheorems, SequenceTheorems

-----------------------------------------------------------------------------
(* Arithmetic.                                                                      *)

LEMMA DivFloor ==
  ASSUME NEW m \in Nat, NEW d \in Nat \ {0}
  PROVE  /\ m \div d \in Nat
         /\ (m \div d) * d <= m
  OBVIOUS

LEMMA DivInt ==
  ASSUME NEW m \in Int, NEW d \in Nat \ {0}
  PROVE  m \div d \in Int
  OBVIOUS

LEMMA DivExact ==
  ASSUME NEW m \in Nat, NEW d \in Nat \ {0}
  PROVE  (d * m) \div d = m
  OBVIOUS

LEMMA DivNat ==
  ASSUME NEW m \in Nat, NEW d \in Nat \ {0}
  PROVE  m \div d \in Nat
  OBVIOUS

LEMMA ProductNat ==
  ASSUME NEW m \in Nat, NEW n \in Nat
  PROVE  m * n \in Nat
  OBVIOUS

LEMMA ProductInt ==
  ASSUME NEW m \in Int, NEW n \in Int
  PROVE  m * n \in Int
  OBVIOUS

LEMMA ProductGrows ==
  ASSUME NEW m \in Nat, NEW n \in Nat, NEW k \in Nat, m <= n
  PROVE  m * k <= n * k
  OBVIOUS

LEMMA Clamps ==
  ASSUME NEW x \in Int, NEW y \in Int
  PROVE  /\ Positive(x) \in Nat /\ (x >= 0 => Positive(x) = x) /\ (x <= 0 => Positive(x) = 0)
         /\ Least(x, y) \in Int /\ Least(x, y) <= x /\ Least(x, y) <= y
         /\ Least(x, y) \in {x, y}
  BY DEF Positive, Least

LEMMA StakeType ==
  ASSUME NEW x \in Int
  PROVE  Stake(x) \in Nat \ {0} /\ Stake(x) >= x
  BY DEF Stake

-----------------------------------------------------------------------------
(* Weights.                                                                         *)

\* Weights come out of Norm as naturals.
LEMMA NormType ==
  ASSUME NEW w, \A q \in Pools : w[q] \in Int
  PROVE  Norm(w) \in [Pools -> Nat]
  <1> DEFINE v == [q \in Pools |-> Positive(w[q])]
  <1>1. v \in [Pools -> Nat]
    BY Clamps
  <1>2. Total(v) \in Nat
    BY <1>1 DEF Total, Pools
  <1>3. AllIn("p05") \in [Pools -> Nat]
    BY UnitAssumption DEF AllIn, Nothing, Pools
  <1>4. Norm(w) = IF Total(v) = 0 THEN AllIn("p05")
                  ELSE [q \in Pools |-> (Unit * v[q]) \div Total(v)]
    BY DEF Norm
  <1> HIDE DEF v
  <1>5. ASSUME Total(v) # 0, NEW q \in Pools PROVE (Unit * v[q]) \div Total(v) \in Nat
    BY <1>1, <1>2, <1>5, UnitAssumption, ProductNat, DivFloor
  <1> QED
    BY <1>3, <1>4, <1>5

\* The capital is divided over the 0.05 and the 0.30 pool.
Whole(w) == w \in [Pools -> Nat] /\ w["p15"] = 0 /\ w["p05"] + w["p30"] = Unit

\* Such weights are what Norm leaves alone.
LEMMA NormWhole ==
  ASSUME NEW w, Whole(w)
  PROVE  Norm(w) = w
  <1> DEFINE v == [q \in Pools |-> Positive(w[q])]
  <1>1. v = w
    BY Clamps DEF Whole
  <1>2. Total(w) = Unit
    BY UnitAssumption DEF Whole, Total, Pools
  <1>3. \A q \in Pools : (Unit * w[q]) \div Unit = w[q]
    BY UnitAssumption, DivExact DEF Whole
  <1>4. Norm(w) = IF Total(v) = 0 THEN AllIn("p05")
                  ELSE [q \in Pools |-> (Unit * v[q]) \div Total(v)]
    BY DEF Norm
  <1> HIDE DEF v
  <1>5. Norm(w) = [q \in Pools |-> w[q]]
    BY <1>1, <1>2, <1>3, <1>4, UnitAssumption
  <1> QED
    BY <1>5 DEF Whole

\* A step from weights towards weights, and how far it gets.
LEMMA StepWhole ==
  ASSUME NEW old, NEW new, NEW most \in Nat, Whole(old), Whole(new)
  PROVE  LET to == NextWeights(old, new, most)
         IN  /\ Whole(to)
             /\ new["p30"] >= old["p30"]
                  => to["p30"] <= new["p30"] /\ to["p30"] >= old["p30"]
             /\ new["p30"] <= old["p30"] => to["p30"] <= old["p30"]
             /\ new["p30"] <= old["p30"] /\ old["p30"] - new["p30"] <= most
                  => to["p30"] = new["p30"]
  <1> DEFINE move(q) == LET delta == new[q] - old[q]
                        IN  old[q] + IF delta < -most THEN -most ELSE Least(delta, most)
             to == [q \in Pools |-> move(q)]
  <1>1. /\ to["p05"] = move("p05") /\ to["p15"] = move("p15") /\ to["p30"] = move("p30")
        /\ to = [q \in Pools |-> to[q]]
    BY DEF Pools
  <1>2. /\ old["p05"] \in Nat /\ old["p15"] = 0 /\ old["p30"] \in Nat
        /\ new["p05"] \in Nat /\ new["p15"] = 0 /\ new["p30"] \in Nat
        /\ old["p05"] + old["p30"] = Unit /\ new["p05"] + new["p30"] = Unit /\ Unit \in Nat
    BY UnitAssumption DEF Whole, Pools
  <1>3. move("p15") = 0
    BY <1>2 DEF Least
  <1>4. move("p05") \in Nat /\ move("p30") \in Nat /\ move("p05") + move("p30") = Unit
    BY <1>2 DEF Least
  <1>5. /\ new["p30"] >= old["p30"] => move("p30") <= new["p30"] /\ move("p30") >= old["p30"]
        /\ new["p30"] <= old["p30"] => move("p30") <= old["p30"]
        /\ new["p30"] <= old["p30"] /\ old["p30"] - new["p30"] <= most
             => move("p30") = new["p30"]
    BY <1>2 DEF Least
  <1>6. NextWeights(old, new, most) = Norm(to)
    BY DEF NextWeights
  <1> HIDE DEF move
  <1>7. Whole(to)
    BY <1>1, <1>3, <1>4 DEF Whole, Pools
  <1>8. NextWeights(old, new, most) = to
    BY <1>6, <1>7, NormWhole
  <1> QED
    BY <1>1, <1>5, <1>7, <1>8

-----------------------------------------------------------------------------
(* The share cap.                                                                   *)

\* The fields of a run the caps read.
LEMMA RunTypes ==
  ASSUME p \in Runs
  PROVE  /\ p.shareCap \in Nat /\ BPS - p.shareCap \in Nat \ {0} /\ BPS \in Nat
         /\ p.capacity["p30"] \in Nat \ {0} /\ p.weightCap \in 0 .. Unit
         /\ p.moveStep \in Nat /\ p.rebalanceHours \in Nat \ {0} /\ Unit \in Nat \ {0}
  BY RunAssumption, UnitAssumption DEF Pools

\* What a sleeve takes of the room under the cap: OverCap, with the sleeve on one side.
LEMMA OverCapRoom ==
  ASSUME p \in Runs, NEW w \in Nat, NEW worth \in Nat
  PROVE  OverCap(w, worth)
           <=> (w * worth) * (BPS - p.shareCap) > p.shareCap * (Unit * p.capacity["p30"])
  <1> DEFINE a == w * worth
             u == Unit * p.capacity["p30"]
  <1>1. a \in Nat /\ u \in Nat /\ p.shareCap \in Nat /\ BPS \in Nat
    BY RunTypes, ProductNat
  <1>2. OverCap(w, worth) <=> a * BPS > p.shareCap * (a + u)
    BY DEF OverCap
  <1> HIDE DEF a, u
  <1>3. a * BPS = a * (BPS - p.shareCap) + a * p.shareCap
    BY <1>1
  <1>4. p.shareCap * (a + u) = p.shareCap * u + a * p.shareCap
    BY <1>1
  <1>5. /\ a * (BPS - p.shareCap) \in Int /\ a * p.shareCap \in Int
        /\ p.shareCap * u \in Int
    BY <1>1, ProductInt
  <1>6. a * BPS > p.shareCap * (a + u) <=> a * (BPS - p.shareCap) > p.shareCap * u
    BY <1>3, <1>4, <1>5
  <1> QED
    BY <1>2, <1>6 DEF a, u

\* The weight of the cap is a natural, and a sleeve no larger is not over the cap.
LEMMA CapWeightFits ==
  ASSUME p \in Runs, NEW worth \in Nat \ {0}
  PROVE  /\ CapWeight(worth) \in Nat
         /\ \A w \in Nat : w <= CapWeight(worth) => ~OverCap(w, worth)
  <1> DEFINE m == Unit * p.shareCap * p.capacity["p30"]
             d == worth * (BPS - p.shareCap)
  <1>1. m \in Nat /\ d \in Nat \ {0}
    <2>1. p.shareCap \in Nat /\ BPS - p.shareCap \in Nat \ {0}
          /\ p.capacity["p30"] \in Nat /\ Unit \in Nat
      BY RunTypes
    <2>2. Unit * p.shareCap \in Nat
      BY <2>1, ProductNat
    <2> QED
      BY <2>1, <2>2, ProductNat
  <1>2. CapWeight(worth) = m \div d
    BY DEF CapWeight
  <1>3. m \div d \in Nat /\ (m \div d) * d <= m
    BY <1>1, DivFloor
  <1>4. ASSUME NEW w \in Nat, w <= m \div d PROVE ~OverCap(w, worth)
    <2>1. w * d <= (m \div d) * d
      BY <1>1, <1>3, <1>4, ProductGrows
    <2>2. w * d <= m
      <3> HIDE DEF m, d
      <3>1. w * d \in Nat /\ (m \div d) * d \in Nat
        BY <1>1, <1>3, ProductNat
      <3> QED
        BY <2>1, <1>1, <1>3, <3>1
    <2>3. w * d = (w * worth) * (BPS - p.shareCap)
      BY RunTypes
    <2>4. m = p.shareCap * (Unit * p.capacity["p30"])
      BY RunTypes
    <2>5. w * d \in Int /\ m \in Int
      BY <1>1, ProductNat
    <2>6. OverCap(w, worth)
            <=> (w * worth) * (BPS - p.shareCap) > p.shareCap * (Unit * p.capacity["p30"])
      BY OverCapRoom
    <2>7. OverCap(w, worth) <=> w * d > m
      BY <2>3, <2>4, <2>6
    <2> HIDE DEF d, m
    <2> QED
      BY <2>2, <2>5, <2>7
  <1> QED
    BY <1>2, <1>3, <1>4

\* A sleeve over the cap that is no larger than one within it: the NAV grew.
LEMMA OverCapGrew ==
  ASSUME p \in Runs, NEW w \in Nat, NEW worth \in Nat, NEW v \in Nat, NEW base \in Nat,
         OverCap(w, worth), ~OverCap(v, base), w <= v
  PROVE  worth > base
  <1> SUFFICES ASSUME worth <= base PROVE FALSE
    OBVIOUS
  <1>1. w * worth <= v * worth /\ worth * v <= base * v
    BY ProductGrows
  <1>2. w * worth <= v * base
    BY <1>1
  <1>3. (w * worth) * (BPS - p.shareCap) <= (v * base) * (BPS - p.shareCap)
    BY <1>2, ProductNat, ProductGrows, RunTypes
  <1>4. /\ (w * worth) * (BPS - p.shareCap) \in Int
        /\ (v * base) * (BPS - p.shareCap) \in Int
        /\ p.shareCap * (Unit * p.capacity["p30"]) \in Int
    <2>1. w * worth \in Nat /\ v * base \in Nat /\ Unit * p.capacity["p30"] \in Nat
      BY RunTypes, ProductNat
    <2> QED
      BY <2>1, RunTypes, ProductInt
  <1> DEFINE x == (w * worth) * (BPS - p.shareCap)
             y == (v * base) * (BPS - p.shareCap)
             z == p.shareCap * (Unit * p.capacity["p30"])
  <1>5. x > z /\ ~(y > z)
    BY OverCapRoom
  <1>6. x <= y /\ x \in Int /\ y \in Int /\ z \in Int
    BY <1>3, <1>4
  <1> HIDE DEF x, y, z
  <1> QED
    BY <1>5, <1>6

-----------------------------------------------------------------------------
(* What a rebalance and the other hours do to the sleeve.                           *)

\* The target of a rebalance is whole. A HIGH gate takes a step off the sleeve, and what is
\* added goes to the smaller of the two caps.
LEMMA FeeCheckTarget ==
  ASSUME p \in Runs, NEW old, Whole(old), NEW worth \in Nat \ {0}, NEW k
  PROVE  LET new == FeeCheck(old, worth, k)
         IN  /\ Whole(new)
             /\ PoolBRisk(k, worth, old["p30"]) # {}
                  => new["p30"] = Positive(old["p30"] - p.moveStep)
             /\ new["p30"] > old["p30"]
                  => new["p30"] <= p.weightCap /\ new["p30"] <= CapWeight(worth)
  <1> DEFINE w    == old.p30
             goal == Least(p.weightCap, CapWeight(worth))
             less == Positive(w - p.moveStep)
             w30  == IF PoolBRisk(k, worth, w) # {} THEN less
                     ELSE IF FeeSwitchEdge(goal, worth, k) > 0 THEN goal
                     ELSE IF w > 0 /\ FeeSwitchEdge(w, worth, k) < 0 THEN less
                     ELSE w
             set  == [q \in Pools |-> IF q = "p30" THEN w30 ELSE IF q = "p15" THEN old.p15
                                      ELSE Positive(Unit - old.p15 - w30)]
  <1>1. FeeCheck(old, worth, k) = Norm(set)
    BY DEF FeeCheck, WithSleeve
  <1>2. CapWeight(worth) \in Nat /\ p.weightCap \in 0 .. Unit /\ p.moveStep \in Nat
        /\ Unit \in Nat
    BY CapWeightFits, RunTypes
  <1>3. w \in 0 .. Unit /\ w = old["p30"]
    BY <1>2 DEF Whole, Pools
  <1>4. goal \in 0 .. Unit /\ goal <= p.weightCap /\ goal <= CapWeight(worth)
    BY <1>2 DEF Least
  <1>5. less \in 0 .. Unit /\ less <= w
    BY <1>2, <1>3 DEF Positive
  <1>6. /\ w30 \in 0 .. Unit
        /\ PoolBRisk(k, worth, w) # {} => w30 = less
        /\ w30 > w => w30 = goal
    <2> HIDE DEF w, goal, less
    <2> QED
      BY <1>3, <1>4, <1>5, <1>2
  <1> HIDE DEF w30, w, goal, less
  <1>7. Positive(Unit - old.p15 - w30) = Unit - w30 /\ Unit - w30 \in Nat
    BY <1>6, <1>2 DEF Whole, Positive
  <1>8. Whole(set) /\ set["p30"] = w30
    BY <1>2, <1>6, <1>7 DEF Whole, Pools
  <1> HIDE DEF set
  <1>9. FeeCheck(old, worth, k) = set
    BY <1>1, <1>8, NormWhole
  <1>10. less = Positive(old["p30"] - p.moveStep)
    BY <1>3 DEF less
  <1> QED
    BY <1>3, <1>4, <1>6, <1>8, <1>9, <1>10

\* The sleeve w after an hour that began with old at the NAV worth, at step s.
Hour(old, worth, s, w) ==
  /\ Whole(w)
  /\ ~Rebalancing(s) => w["p30"] = old["p30"]
  /\ Rebalancing(s) /\ PoolBRisk(s + 1, Stake(worth), old["p30"]) # {}
       => w["p30"] = Positive(old["p30"] - p.moveStep)
  /\ w["p30"] > old["p30"]
       => w["p30"] <= p.weightCap /\ ~OverCap(w["p30"], Stake(worth))

\* What Allocate makes of whole weights is such an hour.
LEMMA AllocateHour ==
  ASSUME p \in Runs, p.policy = "fee_check", NEW old, Whole(old), NEW worth \in Int,
         NEW s \in Nat
  PROVE  Hour(old, worth, s, NextWeights(old, Targets(old, worth, s), p.moveStep))
  <1> DEFINE to == NextWeights(old, Targets(old, worth, s), p.moveStep)
  <1>1. p.moveStep \in Nat /\ Stake(worth) \in Nat \ {0}
    BY RunTypes, StakeType
  <1>2. old["p30"] \in Nat
    BY DEF Whole, Pools
  <1>3. CASE ~Rebalancing(s)
    <2>1. Targets(old, worth, s) = old
      BY <1>3 DEF Targets
    <2>2. Whole(to) /\ to["p30"] = old["p30"]
      BY <2>1, <1>1, <1>2, StepWhole
    <2> QED
      BY <2>2, <1>2, <1>3 DEF Hour
  <1>4. CASE Rebalancing(s)
    <2> DEFINE new == FeeCheck(old, Stake(worth), s + 1)
    <2>1. Targets(old, worth, s) = new
      BY <1>4 DEF Targets
    <2>2. /\ Whole(new)
          /\ PoolBRisk(s + 1, Stake(worth), old["p30"]) # {}
               => new["p30"] = Positive(old["p30"] - p.moveStep)
          /\ new["p30"] > old["p30"]
               => new["p30"] <= p.weightCap /\ new["p30"] <= CapWeight(Stake(worth))
      BY <1>1, FeeCheckTarget
    <2> HIDE DEF new
    <2>3. new["p30"] \in Nat
      BY <2>2 DEF Whole, Pools
    <2>4. /\ Whole(to)
          /\ new["p30"] >= old["p30"] => to["p30"] <= new["p30"]
          /\ new["p30"] <= old["p30"] => to["p30"] <= old["p30"]
          /\ new["p30"] <= old["p30"] /\ old["p30"] - new["p30"] <= p.moveStep
               => to["p30"] = new["p30"]
      BY <2>1, <2>2, <1>1, StepWhole
    <2>5. to["p30"] \in Nat
      BY <2>4 DEF Whole, Pools
    <2> HIDE DEF to
    <2>6. ASSUME PoolBRisk(s + 1, Stake(worth), old["p30"]) # {}
          PROVE  to["p30"] = Positive(old["p30"] - p.moveStep)
      <3>1. new["p30"] = Positive(old["p30"] - p.moveStep)
        BY <2>2, <2>6
      <3>2. new["p30"] <= old["p30"] /\ old["p30"] - new["p30"] <= p.moveStep
        BY <3>1, <1>1, <1>2 DEF Positive
      <3> QED
        BY <3>1, <3>2, <2>4
    <2>7. ASSUME to["p30"] > old["p30"]
          PROVE  to["p30"] <= p.weightCap /\ ~OverCap(to["p30"], Stake(worth))
      <3>1. new["p30"] > old["p30"] /\ to["p30"] <= new["p30"]
        BY <2>4, <2>7, <2>3, <2>5, <1>2
      <3>2. CapWeight(Stake(worth)) \in Nat /\ p.weightCap \in Int
        BY <1>1, CapWeightFits, RunTypes
      <3>3. to["p30"] <= p.weightCap /\ to["p30"] <= CapWeight(Stake(worth))
        BY <3>1, <3>2, <2>2, <2>3, <2>5
      <3> QED
        BY <3>3, <2>5, <1>1, CapWeightFits
    <2> QED
      BY <2>4, <2>6, <2>7, <1>4 DEF Hour, to
  <1> QED
    BY <1>3, <1>4

-----------------------------------------------------------------------------
(* The tape of a run.                                                               *)

\* As many hours as the run is long, each with what its pools earned.
Paid(rows) ==
  /\ Len(rows) = Horizon /\ DOMAIN rows = 1 .. Horizon
  /\ \A k \in 1 .. Horizon : rows[k].bookA.fees \in Nat /\ rows[k].bookB.fees \in Nat

\* A sequence written as a function.
LEMMA MadeSeq ==
  ASSUME NEW n \in Nat, NEW rows, rows = [k \in 1 .. n |-> rows[k]]
  PROVE  Len(rows) = n /\ DOMAIN rows = 1 .. n
  <1>1. rows \in Seq({rows[k] : k \in 1 .. n})
    BY IsASeq
  <1> QED
    BY <1>1, LenProperties

\* The fields of an hour.
LEMMA RowFields ==
  ASSUME NEW row \in Row
  PROVE  /\ DOMAIN row = {"t", "level", "tick", "paused", "bookA", "bookB"}
         /\ \A book \in {"bookA", "bookB"} :
               /\ DOMAIN row[book] = {"fees", "volume", "volatility", "move", "pulls",
                                      "depeg", "ticks"}
               /\ row[book].fees \in Nat
  BY DEF Row, BookRow

\* The last hours of a recorded tape.
LEMMA LoadPaid ==
  ASSUME NEW recorded \in Tapes
  PROVE  /\ Load(recorded, Horizon) \in Seq(Row)
         /\ Paid(Load(recorded, Horizon))
  <1>1. recorded \in Seq(Row) /\ Len(recorded) >= Horizon /\ Horizon \in Nat \ {0}
    BY TapeAssumption, UnitAssumption
  <1> DEFINE rows == SubSeq(recorded, Len(recorded) - Horizon + 1, Len(recorded))
  <1>2. rows \in Seq(Row) /\ Len(rows) = Horizon
    BY <1>1
  <1> HIDE DEF rows
  <1>3. \A k \in 1 .. Horizon : rows[k] \in Row
    BY <1>1, <1>2
  <1>4. DOMAIN rows = 1 .. Horizon
    BY <1>1, <1>2
  <1>5. Paid(rows)
    BY <1>2, <1>3, <1>4 DEF Paid, Row, BookRow
  <1> QED
    BY <1>2, <1>5 DEF Load, rows

\* A market scales what is earned.
LEMMA MarketPaid ==
  ASSUME NEW rows, rows \in Seq(Row), Paid(rows), NEW name \in Markets
  PROVE  Paid(MarketRows(rows, name))
  <1>1. \A k \in 1 .. Horizon : rows[k] \in Row
    BY DEF Paid
  <1>2. ASSUME NEW book \in {"bookA", "bookB"}, NEW mult \in Nat
        PROVE  Paid(ScaleBookVolume(rows, book, mult))
    <2> DEFINE scaled(k) == [rows[k] EXCEPT ![book].volume = @ * mult, ![book].fees = @ * mult]
               all == [k \in DOMAIN rows |-> scaled(k)]
    <2>1. ASSUME NEW k \in 1 .. Horizon
          PROVE  scaled(k).bookA.fees \in Nat /\ scaled(k).bookB.fees \in Nat
      <3> DEFINE row == rows[k]
                 sold == [row[book] EXCEPT !.volume = @ * mult, !.fees = @ * mult]
      <3>1. /\ DOMAIN row = {"t", "level", "tick", "paused", "bookA", "bookB"}
            /\ \A b \in {"bookA", "bookB"} :
                  /\ DOMAIN row[b] = {"fees", "volume", "volatility", "move", "pulls",
                                      "depeg", "ticks"}
                  /\ row[b].fees \in Nat
        BY <1>1, RowFields
      <3> HIDE DEF row
      <3>2. sold.fees \in Nat
        BY <3>1, ProductNat
      <3>3. [row EXCEPT ![book].volume = @ * mult, ![book].fees = @ * mult]
              = [row EXCEPT ![book] = sold]
        BY <3>1
      <3> HIDE DEF sold
      <3>4. /\ [row EXCEPT ![book] = sold].bookA.fees \in Nat
            /\ [row EXCEPT ![book] = sold].bookB.fees \in Nat
        BY <3>1, <3>2
      <3> QED
        BY <3>3, <3>4 DEF row
    <2> HIDE DEF scaled
    <2>2. Len(all) = Horizon /\ DOMAIN all = 1 .. Horizon
      BY UnitAssumption, MadeSeq DEF Paid
    <2> QED
      BY <2>1, <2>2 DEF Paid, ScaleBookVolume, scaled
  <1>3. name = "book_b_10x" \/ VolumeOfA[name] \in Nat
    BY TapeAssumption DEF VolumeOfA
  <1> QED
    BY <1>2, <1>3 DEF MarketRows

\* A resampled hour earns what the hour it is taken from did.
LEMMA BootstrapPaid ==
  ASSUME NEW rows, rows \in Seq(Row), Paid(rows), NEW from \in Starts(rows, BlockHours)
  PROVE  Paid(Bootstrap(rows, from, BlockHours))
  <1> DEFINE shift == Shifts(rows, from, BlockHours)
             block(k) == ((k - 1) \div BlockHours) + 1
             at(k) == from[block(k)] + ((k - 1) % BlockHours)
             row(k) == ShiftRow(rows[at(k)], shift[block(k)], k - 1)
             all == [k \in DOMAIN rows |-> row(k)]
  <1>1. /\ Horizon \in Nat \ {0} /\ BlockHours \in Nat \ {0} /\ BlockHours <= Horizon
        /\ Len(rows) = Horizon /\ DOMAIN rows = 1 .. Horizon
    BY UnitAssumption DEF Paid
  <1>2. ASSUME NEW k \in 1 .. Horizon
        PROVE  at(k) \in 1 .. Horizon
    <2>1. from \in [1 .. (Horizon + BlockHours - 1) \div BlockHours
                       -> 1 .. Horizon - BlockHours + 1]
      BY <1>1 DEF Starts
    <2>2. block(k) \in 1 .. (Horizon + BlockHours - 1) \div BlockHours
      BY <1>1
    <2>3. (k - 1) % BlockHours \in 0 .. BlockHours - 1
      BY <1>1
    <2>4. from[block(k)] \in 1 .. Horizon - BlockHours + 1
      BY <2>1, <2>2
    <2> HIDE DEF block
    <2> QED
      BY <2>3, <2>4, <1>1
  <1>3. ASSUME NEW k \in 1 .. Horizon
        PROVE  row(k).bookA.fees \in Nat /\ row(k).bookB.fees \in Nat
    <2> DEFINE hour == rows[at(k)]
               delta == shift[block(k)]
               ticks(book) == [j \in DOMAIN book.ticks |->
                                 book.ticks[j] + TickOf(hour.level + delta) - hour.tick]
    <2> HIDE DEF at, block, shift
    <2>0. hour \in Row
      BY <1>1, <1>2
    <2>1. /\ DOMAIN hour = {"t", "level", "tick", "paused", "bookA", "bookB"}
          /\ \A b \in {"bookA", "bookB"} :
                /\ DOMAIN hour[b] = {"fees", "volume", "volatility", "move", "pulls",
                                     "depeg", "ticks"}
                /\ hour[b].fees \in Nat
      <3> HIDE DEF hour
      <3> QED
        BY <2>0, RowFields
    <2> HIDE DEF hour, delta
    <2>2. /\ ShiftRow(hour, delta, k - 1).bookA = [hour.bookA EXCEPT !.ticks = ticks(hour.bookA)]
          /\ ShiftRow(hour, delta, k - 1).bookB = [hour.bookB EXCEPT !.ticks = ticks(hour.bookB)]
      BY <2>1 DEF ShiftRow
    <2> HIDE DEF ticks
    <2>3. /\ [hour.bookA EXCEPT !.ticks = ticks(hour.bookA)].fees = hour.bookA.fees
          /\ [hour.bookB EXCEPT !.ticks = ticks(hour.bookB)].fees = hour.bookB.fees
      BY <2>1
    <2> QED
      BY <2>1, <2>2, <2>3 DEF hour, delta
  <1> HIDE DEF row
  <1>4. Len(all) = Horizon /\ DOMAIN all = 1 .. Horizon
    BY <1>1, MadeSeq
  <1>5. Bootstrap(rows, from, BlockHours) = all
    BY DEF Bootstrap, row, at, block, shift
  <1> QED
    BY <1>1, <1>3, <1>4, <1>5 DEF Paid

\* The tape a run starts with.
LEMMA InitTape ==
  ASSUME Init
  PROVE  Paid(tape)
  <1>1. PICK recorded \in Tapes : source = Load(recorded, Horizon)
    BY DEF Init
  <1>2. source \in Seq(Row) /\ Paid(source)
    BY <1>1, LoadPaid
  <1>3. \/ \E name \in Markets : tape = MarketRows(source, name)
        \/ starts \in Starts(source, BlockHours) /\ tape = Bootstrap(source, starts, BlockHours)
    BY DEF Init
  <1> QED
    BY <1>2, <1>3, MarketPaid, BootstrapPaid

-----------------------------------------------------------------------------
(* The invariant.                                                                   *)

Measured == [weights : [Pools -> Nat], fees : [Pools -> Nat], costs : Nat, nav : Int, net : Int]

Types ==
  /\ p \in Runs /\ Paid(tape)
  /\ market \in [Pools -> Nat] /\ weights \in [Pools -> Nat] /\ fees \in [Pools -> Nat]
  /\ costs \in Nat /\ il \in Int /\ nav \in Int /\ step \in Nat /\ phase \in Phases
  /\ path \in Seq(Measured) /\ Len(path) = step

\* The NAV an hour begins with is the one the hour before was measured at.
NavKept == phase # "metrics" => nav = NavBefore(step + 1)

\* Every hour measured moved the sleeve as AllocateHour says, and so did the one under way.
Past(k)  == Hour(WeightsBefore(k), NavBefore(k), k - 1, path[k].weights)
UnderWay == Hour(WeightsBefore(step + 1), NavBefore(step + 1), step, weights)

Hours ==
  /\ Whole(weights)
  /\ \A k \in 1 .. step : Past(k)
  /\ phase \in {"market", "targets"} => weights = WeightsBefore(step + 1)
  /\ phase \in {"fees", "nav", "metrics"} => UnderWay

IInv == Types /\ NavKept /\ (p.policy = "fee_check" => Hours)

\* The invariant holds when a run starts.
LEMMA InitInv ==
  ASSUME Init
  PROVE  IInv
  <1>1. p \in Runs /\ Paid(tape)
    BY InitTape DEF Init
  <1>2. p.static \in [Pools -> Nat] /\ p.initial \in Nat /\ Unit \in Nat
    BY <1>1, RunAssumption, UnitAssumption
  <1>3. Whole(AllIn("p05"))
    BY <1>2 DEF Whole, AllIn, Nothing, Pools
  <1>4. Norm(p.static) \in [Pools -> Nat]
    BY <1>2, NormType
  <1>5. InitialWeights \in [Pools -> Nat]
    BY <1>3, <1>4 DEF InitialWeights, Whole
  <1>6. /\ weights = InitialWeights /\ nav = p.initial /\ step = 0 /\ path = <<>>
        /\ phase = "market" /\ market = Nothing /\ fees = Nothing /\ costs = 0 /\ il = 0
    BY DEF Init
  <1>7. Types
    BY <1>1, <1>2, <1>5, <1>6 DEF Types, Nothing, Phases
  <1>8. NavKept
    BY <1>6 DEF NavKept, NavBefore
  <1>9. p.policy = "fee_check" => Hours
    BY <1>3, <1>6 DEF Hours, WeightsBefore, InitialWeights
  <1> QED
    BY <1>7, <1>8, <1>9 DEF IInv

\* An hour keeps what it did, as long as what the run is given and its measures stay.
LEMMA PastFixed ==
  ASSUME UNCHANGED <<p, tape>>, NEW k, NEW w, w = path'[k].weights,
         WeightsBefore(k)' = WeightsBefore(k), NavBefore(k)' = NavBefore(k),
         Hour(WeightsBefore(k), NavBefore(k), k - 1, w)
  PROVE  Past(k)'
  <1> DEFINE old == WeightsBefore(k)
             worth == Stake(NavBefore(k))
             high == PoolBRisk(k - 1 + 1, worth, old["p30"])
  <1>1. worth' = worth /\ old' = old
    BY DEF Stake
  <1>2. high' = high
    <2> HIDE DEF old, worth
    <2> QED
      BY <1>1 DEF PoolBRisk, VolumeIsThin, Window, OverCap
  <1>3. OverCap(w["p30"], worth)' <=> OverCap(w["p30"], worth)
    <2> HIDE DEF old, worth
    <2> QED
      BY <1>1 DEF OverCap
  <1>4. /\ Whole(w)
        /\ ~Rebalancing(k - 1) => w["p30"] = old["p30"]
        /\ Rebalancing(k - 1) /\ high # {} => w["p30"] = Positive(old["p30"] - p.moveStep)
        /\ w["p30"] > old["p30"] => w["p30"] <= p.weightCap /\ ~OverCap(w["p30"], worth)
    BY DEF Hour
  <1>5. Past(k)' <=> /\ Whole(w)
                     /\ ~Rebalancing(k - 1) => w["p30"] = old["p30"]
                     /\ Rebalancing(k - 1) /\ high' # {}
                          => w["p30"] = Positive(old["p30"] - p.moveStep)
                     /\ w["p30"] > old["p30"]
                          => w["p30"] <= p.weightCap /\ ~OverCap(w["p30"], worth)'
    BY <1>1 DEF Past, Hour, Whole, Rebalancing
  <1> QED
    BY <1>2, <1>3, <1>4, <1>5

LEMMA UnderWayFixed ==
  ASSUME UNCHANGED <<p, tape, step>>, NEW w, w = weights',
         WeightsBefore(step + 1)' = WeightsBefore(step + 1),
         NavBefore(step + 1)' = NavBefore(step + 1),
         Hour(WeightsBefore(step + 1), NavBefore(step + 1), step, w)
  PROVE  UnderWay'
  <1> DEFINE old == WeightsBefore(step + 1)
             worth == Stake(NavBefore(step + 1))
             high == PoolBRisk(step + 1, worth, old["p30"])
  <1>1. worth' = worth /\ old' = old
    BY DEF Stake
  <1>2. high' = high
    <2> HIDE DEF old, worth
    <2> QED
      BY <1>1 DEF PoolBRisk, VolumeIsThin, Window, OverCap
  <1>3. OverCap(w["p30"], worth)' <=> OverCap(w["p30"], worth)
    <2> HIDE DEF old, worth
    <2> QED
      BY <1>1 DEF OverCap
  <1>4. /\ Whole(w)
        /\ ~Rebalancing(step) => w["p30"] = old["p30"]
        /\ Rebalancing(step) /\ high # {} => w["p30"] = Positive(old["p30"] - p.moveStep)
        /\ w["p30"] > old["p30"] => w["p30"] <= p.weightCap /\ ~OverCap(w["p30"], worth)
    BY DEF Hour
  <1>5. UnderWay' <=> /\ Whole(w)
                      /\ ~Rebalancing(step) => w["p30"] = old["p30"]
                      /\ Rebalancing(step) /\ high' # {}
                           => w["p30"] = Positive(old["p30"] - p.moveStep)
                      /\ w["p30"] > old["p30"]
                           => w["p30"] <= p.weightCap /\ ~OverCap(w["p30"], worth)'
    BY <1>1 DEF UnderWay, Hour, Whole, Rebalancing
  <1> QED
    BY <1>2, <1>3, <1>4, <1>5

\* Until the hour is measured what came before it stays.
LEMMA BeforeFixed ==
  ASSUME UNCHANGED <<p, tape, path>>, NEW k
  PROVE  WeightsBefore(k)' = WeightsBefore(k) /\ NavBefore(k)' = NavBefore(k)
  BY DEF WeightsBefore, NavBefore, InitialWeights, Norm, AllIn, Total

\* Market leaves the weights and the NAV alone.
LEMMA MarketInv ==
  ASSUME IInv, Market
  PROVE  IInv'
  <1>1. /\ step \in Nat /\ step + 1 \in 1 .. Horizon /\ p \in Runs
    BY UnitAssumption DEF IInv, Types, Market, Paid
  <1>2. /\ tape[step + 1].bookA.fees \in Nat /\ tape[step + 1].bookB.fees \in Nat
    BY <1>1 DEF IInv, Types, Paid
  <1>3. /\ p.rate["p15"] \in Nat /\ p.rate["p30"] \in Nat \ {0}
        /\ p.vol15 \in Nat /\ p.vol30 \in Nat
    BY <1>1, RunAssumption DEF Pools
  <1>4. market' \in [Pools -> Nat]
    <2>1. /\ (tape[step + 1].bookB.fees * p.rate.p15 * p.vol15) \div p.rate.p30 \in Nat
          /\ tape[step + 1].bookB.fees * p.vol30 \in Nat
      BY <1>2, <1>3, ProductNat, DivFloor
    <2> QED
      BY <1>2, <2>1 DEF Market, Pools
  <1>5. /\ phase = "market" /\ phase' = "targets" /\ p' = p /\ tape' = tape /\ step' = step
        /\ weights' = weights /\ nav' = nav /\ fees' = fees /\ costs' = costs /\ il' = il
        /\ path' = path
    BY DEF Market, fixed
  <1>6. Types'
    BY <1>4, <1>5 DEF IInv, Types, Paid, Phases
  <1>7. NavKept'
    BY <1>5, BeforeFixed DEF IInv, NavKept
  <1>8. ASSUME Hours PROVE Hours'
    <2>1. ASSUME NEW k \in 1 .. step PROVE Past(k)'
      <3>1. Past(k)
        BY <1>8 DEF Hours
      <3> QED
        BY <3>1, <1>5, BeforeFixed, PastFixed DEF Past
    <2>2. weights' = WeightsBefore(step + 1)'
      BY <1>5, <1>8, BeforeFixed DEF Hours
    <2> QED
      BY <1>5, <1>8, <2>1, <2>2 DEF Hours, Whole
  <1> QED
    BY <1>5, <1>6, <1>7, <1>8 DEF IInv

\* What the other policies aim at.
LEMMA FixedTargets ==
  ASSUME p \in Runs, p.policy # "fee_check", NEW old, NEW worth, NEW s
  PROVE  Targets(old, worth, s) \in [Pools -> Nat]
  <1>1. /\ p.static \in [Pools -> Nat] /\ Unit \in Nat
        /\ p.policy \in {"static", "all_05", "all_15", "all_30"}
    BY RunAssumption, UnitAssumption
  <1>2. Norm(p.static) \in [Pools -> Nat]
    BY <1>1, NormType
  <1>3. \A pool \in Pools : AllIn(pool) \in [Pools -> Nat]
    BY <1>1 DEF AllIn, Nothing, Pools
  <1>4. CASE p.policy = "static"
    BY <1>2, <1>4 DEF Targets
  <1>5. CASE p.policy # "static"
    <2> DEFINE pool == [all_05 |-> "p05", all_15 |-> "p15", all_30 |-> "p30"][p.policy]
    <2>1. pool \in Pools
      BY <1>1, <1>5 DEF Pools
    <2>2. Targets(old, worth, s) = AllIn(pool)
      BY <1>5 DEF Targets
    <2> HIDE DEF pool
    <2> QED
      BY <1>3, <2>1, <2>2
  <1> QED
    BY <1>4, <1>5

\* Allocate moves the weights of the hour before, at the NAV of the hour before.
LEMMA AllocateInv ==
  ASSUME IInv, Allocate
  PROVE  IInv'
  <1> DEFINE goal == Targets(weights, nav, step)
             new  == NextWeights(weights, goal, p.moveStep)
             diff == [q \in Pools |-> Positive(new[q] - weights[q]) + Positive(weights[q] - new[q])]
             moved == nav * Total(diff)
  <1>1. /\ phase = "targets" /\ phase' = "fees" /\ p' = p /\ tape' = tape /\ step' = step
        /\ nav' = nav /\ fees' = fees /\ market' = market /\ il' = il /\ path' = path
        /\ weights' = new
        /\ costs' = IF moved <= 0 THEN costs
                    ELSE costs + (moved * p.switchBps) \div (Unit * BPS) + p.gas
    BY DEF Allocate, fixed
  <1>2. /\ p \in Runs /\ nav \in Int /\ costs \in Nat /\ step \in Nat
        /\ weights \in [Pools -> Nat]
    BY DEF IInv, Types
  <1>3. p.moveStep \in Nat /\ p.switchBps \in Nat /\ p.gas \in Nat /\ Unit * BPS \in Nat \ {0}
    BY <1>2, RunAssumption, UnitAssumption, ProductNat
  <1>4. ASSUME p.policy = "fee_check"
        PROVE  Hour(weights, nav, step, new) /\ Whole(new)
    BY <1>2, <1>4, AllocateHour DEF IInv, Hours, Hour
  <1>5. new \in [Pools -> Nat]
    <2>1. CASE p.policy = "fee_check"
      BY <2>1, <1>4 DEF Whole
    <2>2. CASE p.policy # "fee_check"
      <3>1. goal \in [Pools -> Nat]
        BY <1>2, <2>2, FixedTargets
      <3> HIDE DEF goal
      <3> DEFINE to == [q \in Pools |->
                          LET delta == goal[q] - weights[q]
                          IN  weights[q] + IF delta < -p.moveStep THEN -p.moveStep
                                           ELSE Least(delta, p.moveStep)]
      <3>2. \A q \in Pools : to[q] \in Int
        BY <1>2, <1>3, <3>1 DEF Least
      <3>3. new = Norm(to)
        BY DEF NextWeights
      <3> HIDE DEF to
      <3> QED
        BY <3>2, <3>3, NormType
    <2> QED
      BY <2>1, <2>2
  <1> HIDE DEF new
  <1>6. costs' \in Nat
    <2>1. ASSUME NEW q \in Pools PROVE diff[q] \in Nat
      <3>1. new[q] \in Nat /\ weights[q] \in Nat
        BY <1>2, <1>5
      <3> QED
        BY <3>1 DEF Positive
    <2> HIDE DEF diff
    <2>2. Total(diff) \in Int
      BY <2>1 DEF Total, Pools
    <2>3. moved \in Int
      BY <1>2, <2>2, ProductInt
    <2> HIDE DEF moved
    <2>4. CASE moved <= 0
      BY <1>1, <1>2, <2>4
    <2>5. CASE ~(moved <= 0)
      <3>1. moved * p.switchBps \in Nat
        BY <1>3, <2>3, <2>5, ProductNat
      <3>2. (moved * p.switchBps) \div (Unit * BPS) \in Nat
        BY <1>3, <3>1, DivNat
      <3> QED
        BY <1>1, <1>2, <1>3, <2>5, <3>2
    <2> QED
      BY <2>4, <2>5
  <1>7. Types'
    BY <1>1, <1>5, <1>6 DEF IInv, Types, Paid, Phases
  <1>8. NavKept'
    BY <1>1, BeforeFixed DEF IInv, NavKept
  <1>9. ASSUME p.policy = "fee_check" PROVE Hours'
    <2>1. Hours
      BY <1>9 DEF IInv
    <2>2. ASSUME NEW k \in 1 .. step PROVE Past(k)'
      BY <2>1, <2>2, <1>1, BeforeFixed, PastFixed DEF Hours, Past
    <2>3. weights = WeightsBefore(step + 1) /\ nav = NavBefore(step + 1)
      BY <2>1, <1>1 DEF Hours, IInv, NavKept
    <2>4. WeightsBefore(step + 1)' = weights /\ NavBefore(step + 1)' = nav
      BY <2>3, <1>1, BeforeFixed
    <2>5. UnderWay'
      <3>1. Hour(WeightsBefore(step + 1), NavBefore(step + 1), step, new)
        BY <1>9, <1>4, <2>3
      <3> QED
        BY <3>1, <2>3, <2>4, <1>1, UnderWayFixed
    <2>6. Whole(weights)'
      BY <1>9, <1>4, <1>1 DEF Whole
    <2> QED
      BY <1>1, <2>2, <2>5, <2>6 DEF Hours
  <1> QED
    BY <1>1, <1>7, <1>8, <1>9 DEF IInv

\* Earn adds what the pools pay.
LEMMA EarnInv ==
  ASSUME IInv, Earn
  PROVE  IInv'
  <1>1. /\ phase = "fees" /\ phase' = "nav" /\ p' = p /\ tape' = tape /\ step' = step
        /\ weights' = weights /\ nav' = nav /\ costs' = costs /\ market' = market
        /\ path' = path
        /\ fees' = [q \in Pools |-> fees[q] + Earned(q, nav)]
        /\ il' = il + (p.ilTotal * nav) \div (Len(tape) * p.initial)
    BY DEF Earn, fixed
  <1>2. /\ p \in Runs /\ nav \in Int /\ il \in Int /\ Len(tape) = Horizon
        /\ weights \in [Pools -> Nat] /\ market \in [Pools -> Nat] /\ fees \in [Pools -> Nat]
    BY DEF IInv, Types, Paid
  <1>3. /\ p.capacity \in [Pools -> Nat \ {0}] /\ Unit \in Nat \ {0} /\ p.ilTotal \in Int
        /\ p.initial \in Nat \ {0} /\ Horizon \in Nat \ {0}
    BY <1>2, RunAssumption, UnitAssumption
  <1>4. ASSUME NEW q \in Pools PROVE Earned(q, nav) \in Nat
    <2> DEFINE capital == weights[q] * Positive(nav)
               held    == Unit * p.capacity[q]
    <2>1. capital \in Nat /\ held \in Nat \ {0}
      <3>1. weights[q] \in Nat /\ Positive(nav) \in Nat /\ p.capacity[q] \in Nat \ {0}
        BY <1>2, <1>3, Clamps
      <3> QED
        BY <3>1, <1>3, ProductNat
    <2>2. Earned(q, nav) = (market[q] * capital) \div (capital + held)
      BY DEF Earned
    <2> HIDE DEF capital, held
    <2>3. market[q] * capital \in Nat /\ capital + held \in Nat \ {0}
      BY <1>2, <2>1, ProductNat
    <2> QED
      BY <2>2, <2>3, DivFloor
  <1>5. fees' \in [Pools -> Nat]
    BY <1>1, <1>2, <1>4
  <1>6. il' \in Int
    <2>1. p.ilTotal * nav \in Int /\ Len(tape) * p.initial \in Nat \ {0}
      BY <1>2, <1>3, ProductInt
    <2>2. (p.ilTotal * nav) \div (Len(tape) * p.initial) \in Int
      BY <2>1, DivInt
    <2> QED
      BY <1>1, <1>2, <2>2
  <1>7. Types'
    BY <1>1, <1>5, <1>6 DEF IInv, Types, Paid, Phases
  <1>8. NavKept'
    BY <1>1, BeforeFixed DEF IInv, NavKept
  <1>9. ASSUME Hours PROVE Hours'
    <2>1. ASSUME NEW k \in 1 .. step PROVE Past(k)'
      BY <1>9, <2>1, <1>1, BeforeFixed, PastFixed DEF Hours, Past
    <2>2. UnderWay'
      BY <1>9, <1>1, BeforeFixed, UnderWayFixed DEF Hours, UnderWay
    <2> QED
      BY <1>1, <1>9, <2>1, <2>2 DEF Hours, Whole
  <1> QED
    BY <1>1, <1>7, <1>8, <1>9 DEF IInv

\* Mark books the NAV of the hour.
LEMMA MarkInv ==
  ASSUME IInv, Mark
  PROVE  IInv'
  <1>1. /\ phase = "nav" /\ phase' = "metrics" /\ p' = p /\ tape' = tape /\ step' = step
        /\ weights' = weights /\ fees' = fees /\ costs' = costs /\ market' = market
        /\ il' = il /\ path' = path /\ nav' = p.initial + Total(fees) - costs
    BY DEF Mark, fixed
  <1>2. p \in Runs /\ costs \in Nat /\ fees \in [Pools -> Nat]
    BY DEF IInv, Types
  <1>3. nav' \in Int
    <2>1. p.initial \in Int /\ Total(fees) \in Int
      BY <1>2, RunAssumption DEF Total, Pools
    <2> QED
      BY <1>1, <1>2, <2>1
  <1>4. Types'
    BY <1>1, <1>3 DEF IInv, Types, Paid, Phases
  <1>5. NavKept'
    BY <1>1 DEF NavKept
  <1>6. ASSUME Hours PROVE Hours'
    <2>1. ASSUME NEW k \in 1 .. step PROVE Past(k)'
      BY <1>6, <2>1, <1>1, BeforeFixed, PastFixed DEF Hours, Past
    <2>2. UnderWay'
      BY <1>6, <1>1, BeforeFixed, UnderWayFixed DEF Hours, UnderWay
    <2> QED
      BY <1>1, <1>6, <2>1, <2>2 DEF Hours, Whole
  <1> QED
    BY <1>1, <1>4, <1>5, <1>6 DEF IInv

\* Measure makes the hour under way the last of the past.
LEMMA MeasureInv ==
  ASSUME IInv, Measure
  PROVE  IInv'
  <1> DEFINE hour == [weights |-> weights, fees |-> fees, costs |-> costs,
                      nav |-> nav, net |-> nav - p.initial - il]
  <1>1. /\ phase = "metrics" /\ phase' = "market" /\ p' = p /\ tape' = tape
        /\ step' = step + 1 /\ weights' = weights /\ fees' = fees /\ costs' = costs
        /\ market' = market /\ il' = il /\ nav' = nav /\ path' = Append(path, hour)
    BY DEF Measure, fixed
  <1>2. /\ p \in Runs /\ costs \in Nat /\ il \in Int /\ nav \in Int
        /\ fees \in [Pools -> Nat] /\ weights \in [Pools -> Nat]
        /\ step \in Nat /\ path \in Seq(Measured) /\ Len(path) = step
    BY DEF IInv, Types
  <1>3. p.initial \in Int
    BY <1>2, RunAssumption
  <1>4. hour \in Measured
    BY <1>2, <1>3 DEF Measured
  <1>5. hour.weights = weights /\ hour.nav = nav
    OBVIOUS
  <1> HIDE DEF hour
  <1>6. /\ path' \in Seq(Measured) /\ Len(path') = step + 1
        /\ \A k \in 1 .. step : path'[k] = path[k]
        /\ path'[step + 1] = hour
    BY <1>1, <1>2, <1>4
  <1>7. Types'
    BY <1>1, <1>2, <1>6 DEF IInv, Types, Paid, Phases
  <1>8. NavKept'
    BY <1>1, <1>2, <1>5, <1>6 DEF NavKept, NavBefore
  <1>9. ASSUME NEW k \in 1 .. step + 1
        PROVE  WeightsBefore(k)' = WeightsBefore(k) /\ NavBefore(k)' = NavBefore(k)
    <2>1. InitialWeights' = InitialWeights
      BY <1>1 DEF InitialWeights, Norm, AllIn, Total
    <2>2. k # 1 => k - 1 \in 1 .. step
      BY <1>2
    <2> QED
      BY <1>1, <1>6, <2>1, <2>2 DEF WeightsBefore, NavBefore
  <1>10. ASSUME Hours PROVE Hours'
    <2>1. ASSUME NEW k \in 1 .. step PROVE Past(k)'
      <3>1. k \in 1 .. step + 1 /\ path'[k].weights = path[k].weights /\ Past(k)
        BY <1>2, <1>6, <1>10, <2>1 DEF Hours
      <3> QED
        BY <3>1, <1>1, <1>9, PastFixed DEF Past
    <2>2. ASSUME NEW k, k = step + 1 PROVE Past(k)'
      <3>1. UnderWay
        BY <1>10, <1>1 DEF Hours
      <3>2. Hour(WeightsBefore(k), NavBefore(k), k - 1, weights)
        BY <3>1, <2>2, <1>2 DEF UnderWay
      <3>3. WeightsBefore(k)' = WeightsBefore(k) /\ NavBefore(k)' = NavBefore(k)
        BY <2>2, <1>2, <1>9
      <3>4. path'[k].weights = weights
        BY <2>2, <1>5, <1>6
      <3> QED
        BY <3>2, <3>3, <3>4, <1>1, PastFixed
    <2>3. weights' = WeightsBefore(step + 1)'
      BY <1>1, <1>2, <1>5, <1>6 DEF WeightsBefore
    <2> QED
      <3>1. \A k \in 1 .. step' : Past(k)'
        BY <1>1, <1>2, <2>1, <2>2
      <3> QED
        BY <1>1, <1>10, <2>3, <3>1 DEF Hours, Whole
  <1> QED
    BY <1>1, <1>7, <1>8, <1>10 DEF IInv

\* The invariant holds of every run of the fee allocator.
THEOREM Invariance == Spec => []IInv
  <1>1. Init => IInv
    BY InitInv
  <1>2. IInv /\ [Next]_vars => IInv'
    <2> SUFFICES ASSUME IInv, [Next]_vars PROVE IInv'
      OBVIOUS
    <2>1. CASE Next
      BY <2>1, MarketInv, AllocateInv, EarnInv, MarkInv, MeasureInv DEF Next
    <2>2. CASE UNCHANGED vars
      <3>1. /\ phase' = phase /\ p' = p /\ tape' = tape /\ step' = step /\ weights' = weights
            /\ nav' = nav /\ fees' = fees /\ costs' = costs /\ il' = il /\ path' = path
            /\ market' = market
        BY <2>2 DEF vars, fixed
      <3>2. Types' /\ NavKept'
        BY <3>1, BeforeFixed DEF IInv, Types, Paid, NavKept
      <3>3. ASSUME Hours PROVE Hours'
        <4>1. ASSUME NEW k \in 1 .. step PROVE Past(k)'
          BY <3>3, <4>1, <3>1, BeforeFixed, PastFixed DEF Hours, Past
        <4>2. UnderWay => UnderWay'
          BY <3>1, BeforeFixed, UnderWayFixed DEF UnderWay
        <4>3. WeightsBefore(step + 1)' = WeightsBefore(step + 1)
          BY <3>1, BeforeFixed
        <4> QED
          BY <3>1, <3>3, <4>1, <4>2, <4>3 DEF Hours, Whole
      <3> QED
        BY <3>1, <3>2, <3>3 DEF IInv
    <2> QED
      BY <2>1, <2>2
  <1> QED
    BY <1>1, <1>2, PTL DEF Spec

-----------------------------------------------------------------------------
(* What the invariant says of a run that checks its fees.                           *)

\* The sleeve and the NAV an hour begins with.
LEMMA BeforeTypes ==
  ASSUME IInv, Checking, NEW k \in 1 .. step + 1
  PROVE  Whole(WeightsBefore(k)) /\ WeightsBefore(k)["p30"] \in Nat /\ NavBefore(k) \in Int
  <1>1. p \in Runs /\ step \in Nat /\ path \in Seq(Measured) /\ Len(path) = step /\ Hours
    BY DEF IInv, Types, Checking
  <1>2. CASE k = 1
    <2>1. WeightsBefore(k) = AllIn("p05") /\ NavBefore(k) = p.initial
      BY <1>2 DEF WeightsBefore, NavBefore, InitialWeights, Checking
    <2>2. p.initial \in Int /\ Unit \in Nat
      BY <1>1, RunAssumption, UnitAssumption
    <2> QED
      BY <2>1, <2>2 DEF Whole, AllIn, Nothing, Pools
  <1>3. CASE k # 1
    <2>1. k - 1 \in 1 .. step
      BY <1>1, <1>3
    <2>2. Past(k - 1) /\ path[k - 1] \in Measured
      BY <1>1, <2>1 DEF Hours
    <2>3. WeightsBefore(k) = path[k - 1].weights /\ NavBefore(k) = path[k - 1].nav
      BY <1>3 DEF WeightsBefore, NavBefore
    <2> QED
      BY <2>2, <2>3 DEF Past, Hour, Whole, Pools, Measured
  <1> QED
    BY <1>2, <1>3

\* What an hour of the past did, with its reasons.
LEMMA PastHour ==
  ASSUME IInv, Checking, NEW k \in 1 .. step
  PROVE  LET before == WeightsBefore(k)["p30"]
             after  == WeightsBefore(k + 1)["p30"]
         IN  /\ before \in Nat /\ after \in Nat /\ NavBefore(k) \in Int
             /\ path[k].weights["p30"] = after
             /\ ~Rebalancing(k - 1) => after = before
             /\ Rebalancing(k - 1) /\ Reasons(k) # {} => after = Positive(before - p.moveStep)
             /\ after > before => after <= p.weightCap /\ ~OverCap(after, Stake(NavBefore(k)))
  <1>1. step \in Nat /\ k \in 1 .. step + 1 /\ k + 1 \in 1 .. step + 1
    BY DEF IInv, Types
  <1>2. Past(k)
    BY DEF IInv, Hours, Checking
  <1>3. WeightsBefore(k + 1) = path[k].weights
    BY <1>1 DEF WeightsBefore
  <1>4. k - 1 + 1 = k
    BY <1>1
  <1>5. Reasons(k) = PoolBRisk(k - 1 + 1, Stake(NavBefore(k)), WeightsBefore(k)["p30"])
    BY <1>4 DEF Reasons
  <1>6. /\ WeightsBefore(k)["p30"] \in Nat /\ NavBefore(k) \in Int
        /\ WeightsBefore(k + 1)["p30"] \in Nat
    BY <1>1, BeforeTypes
  <1> QED
    BY <1>2, <1>3, <1>5, <1>6 DEF Past, Hour

\* An hour that adds to the sleeve leaves it within its caps.
LEMMA EntryFits ==
  ASSUME IInv
  PROVE  CapHeldOnEntry
  <1> SUFFICES ASSUME Checking, NEW k \in DOMAIN path, Added(k)
               PROVE  /\ ~OverCap(path[k].weights.p30, Stake(NavBefore(k)))
                      /\ path[k].weights.p30 <= p.weightCap
    BY DEF CapHeldOnEntry
  <1>1. k \in 1 .. step
    BY DEF IInv, Types
  <1> QED
    BY <1>1, PastHour DEF Added

\* p_targets, the share cap and the weight cap: an hour that adds to the 0.30 sleeve leaves it
\* within both.
THEOREM EntryWithinCaps == Spec => []CapHeldOnEntry
  <1>1. IInv => CapHeldOnEntry
    BY EntryFits
  <1> QED
    BY <1>1, Invariance, PTL

\* Steps out add up.
LEMMA DrainStep ==
  ASSUME NEW x \in Nat, NEW m \in Nat, NEW c \in Nat, NEW old \in Nat,
         old <= Positive(x - m * c)
  PROVE  Positive(old - m) <= Positive(x - m * (c + 1))
  <1>1. m * (c + 1) = m * c + m
    OBVIOUS
  <1>2. m * c \in Nat
    BY ProductNat
  <1> DEFINE d == m * c
  <1>3. d \in Nat /\ m * (c + 1) = d + m /\ old <= Positive(x - d)
    BY <1>1, <1>2
  <1> HIDE DEF d
  <1> QED
    BY <1>3 DEF Positive

\* The rebalances of the hours up to one, from those up to the hour before.
LEMMA OneMoreHour ==
  ASSUME NEW i \in Nat, NEW n \in Nat, i <= n
  PROVE  /\ IsFiniteSet(Rebalances(i, n)) /\ Cardinality(Rebalances(i, n)) \in Nat
         /\ Rebalancing(n - 1)
              => Cardinality(Rebalances(i, n)) = Cardinality(Rebalances(i, n - 1)) + 1
         /\ ~Rebalancing(n - 1) => Rebalances(i, n) = Rebalances(i, n - 1)
  <1>1. \A m \in Int : IsFiniteSet(Rebalances(i, m)) /\ Cardinality(Rebalances(i, m)) \in Nat
    <2> SUFFICES ASSUME NEW m \in Int
                 PROVE  IsFiniteSet(Rebalances(i, m)) /\ Cardinality(Rebalances(i, m)) \in Nat
      OBVIOUS
    <2>1. IsFiniteSet(i .. m)
      BY FS_Interval
    <2>2. Rebalances(i, m) \subseteq i .. m
      BY DEF Rebalances
    <2> QED
      BY <2>1, <2>2, FS_Subset, FS_CardinalityType
  <1>2. ASSUME Rebalancing(n - 1)
        PROVE  Cardinality(Rebalances(i, n)) = Cardinality(Rebalances(i, n - 1)) + 1
    <2>1. Rebalances(i, n) = Rebalances(i, n - 1) \cup {n}
      BY <1>2 DEF Rebalances
    <2>2. n \notin Rebalances(i, n - 1)
      BY DEF Rebalances
    <2>3. IsFiniteSet(Rebalances(i, n - 1))
      BY <1>1
    <2>4. Cardinality(Rebalances(i, n - 1) \cup {n}) = Cardinality(Rebalances(i, n - 1)) + 1
      BY <2>2, <2>3, FS_AddElement
    <2> QED
      BY <2>1, <2>4
  <1>3. ASSUME ~Rebalancing(n - 1) PROVE Rebalances(i, n) = Rebalances(i, n - 1)
    BY <1>3 DEF Rebalances
  <1> QED
    BY <1>1, <1>2, <1>3

\* Over hours in which no rebalance finds the gate LOW the sleeve loses a step at each.
LEMMA Drained ==
  ASSUME IInv, Checking, NEW i \in Nat \ {0}, NEW j \in Nat, i <= j, j <= step,
         \A k \in Rebalances(i, j) : Reasons(k) # {}
  PROVE  path[j].weights["p30"]
           <= Positive(WeightsBefore(i)["p30"] - p.moveStep * Cardinality(Rebalances(i, j)))
  <1> DEFINE x        == WeightsBefore(i)["p30"]
             count(n) == Cardinality(Rebalances(i, n))
             claim(n) == WeightsBefore(n + 1)["p30"] <= Positive(x - p.moveStep * count(n))
  <1>1. step \in Nat /\ p.moveStep \in Nat
    BY RunTypes DEF IInv, Types
  <1>2. x \in Nat
    BY <1>1, BeforeTypes
  <1>3. claim(i - 1)
    <2>1. Rebalances(i, i - 1) = {}
      BY DEF Rebalances
    <2>2. count(i - 1) = 0
      BY <2>1, FS_EmptySet
    <2>3. i - 1 + 1 = i
      OBVIOUS
    <2> HIDE DEF count
    <2>4. Positive(x - p.moveStep * count(i - 1)) = x
      BY <2>2, <1>1, <1>2 DEF Positive
    <2> QED
      BY <2>3, <2>4, <1>2
  <1>4. ASSUME NEW n \in i .. j, claim(n - 1) PROVE claim(n)
    <2>1. n \in 1 .. step /\ n \in Nat /\ i <= n
      BY <1>1
    <2> DEFINE before == WeightsBefore(n)["p30"]
               after  == WeightsBefore(n + 1)["p30"]
    <2>2. /\ before \in Nat /\ after \in Nat
          /\ ~Rebalancing(n - 1) => after = before
          /\ Rebalancing(n - 1) /\ Reasons(n) # {} => after = Positive(before - p.moveStep)
      BY <2>1, PastHour
    <2>3. n - 1 + 1 = n
      OBVIOUS
    <2>4. before <= Positive(x - p.moveStep * count(n - 1))
      BY <1>4, <2>3
    <2>5. CASE ~Rebalancing(n - 1)
      <3>1. Rebalances(i, n) = Rebalances(i, n - 1)
        BY <2>1, <2>5, OneMoreHour
      <3>2. after = before
        BY <2>2, <2>5
      <3> QED
        BY <3>1, <3>2, <2>4
    <2>6. CASE Rebalancing(n - 1)
      <3>1. Reasons(n) # {}
        BY <2>6 DEF Rebalances
      <3>2. after = Positive(before - p.moveStep)
        BY <3>1, <2>2, <2>6
      <3>3. count(n) = count(n - 1) + 1
        BY <2>1, <2>6, OneMoreHour
      <3>4. count(n - 1) \in Nat
        <4>1. IsFiniteSet(i .. n - 1) /\ Rebalances(i, n - 1) \subseteq i .. n - 1
          BY FS_Interval DEF Rebalances
        <4> QED
          BY <4>1, FS_Subset, FS_CardinalityType
      <3> HIDE DEF count, x, before, after
      <3>5. Positive(before - p.moveStep) <= Positive(x - p.moveStep * (count(n - 1) + 1))
        BY <3>4, <2>2, <2>4, <1>1, <1>2, DrainStep
      <3>6. after <= Positive(x - p.moveStep * count(n))
        BY <3>2, <3>3, <3>5
      <3> QED
        BY <3>6 DEF after
    <2> QED
      BY <2>5, <2>6
  <1> DEFINE T == {n \in i - 1 .. j : ~claim(n)}
  <1> HIDE DEF claim
  <1>5. T = {}
    <2> SUFFICES ASSUME T # {} PROVE FALSE
      OBVIOUS
    <2>1. T \in SUBSET Nat
      OBVIOUS
    <2>2. PICK n \in T : \A m \in T : n <= m
      BY <2>1, LeastOfNat
    <2>3. n # i - 1
      BY <1>3
    <2>4. n \in i .. j
      BY <2>3
    <2>5. n - 1 \in i - 1 .. j /\ n - 1 \notin T
      BY <2>2, <2>4
    <2> QED
      BY <2>4, <2>5, <1>4
  <1>6. claim(j)
    BY <1>5
  <1>7. path[j].weights["p30"] = WeightsBefore(j + 1)["p30"]
    BY <1>1, PastHour
  <1> QED
    BY <1>6, <1>7 DEF claim

\* p_targets: a HIGH gate takes the sleeve out a whole step at every rebalance, however long
\* it stays HIGH, whatever the tape and whatever the fees.
THEOREM HighDrains == Spec => []DrainsWhileHigh
  <1>1. IInv => DrainsWhileHigh
    <2> SUFFICES ASSUME IInv, Checking, NEW j \in DOMAIN path, NEW i \in 1 .. j,
                        \A k \in Rebalances(i, j) : Reasons(k) # {}
                 PROVE  path[j].weights.p30
                          <= Positive(WeightsBefore(i).p30
                                        - p.moveStep * Cardinality(Rebalances(i, j)))
      BY DEF DrainsWhileHigh
    <2>1. j \in 1 .. step /\ step \in Nat
      BY DEF IInv, Types
    <2>2. i \in Nat \ {0} /\ j \in Nat /\ i <= j /\ j <= step
      BY <2>1
    <2> QED
      BY <2>2, Drained
  <1> QED
    BY <1>1, Invariance, PTL

\* A set of hours before another has a last one.
LEMMA LastHour ==
  ASSUME NEW k \in Nat, NEW J \in SUBSET (1 .. k - 1), J # {}
  PROVE  Max(J) \in J /\ \A j \in J : j <= Max(J)
  <1> DEFINE T == {k - j : j \in J}
  <1>1. T \in SUBSET Nat /\ T # {}
    <2>1. \A j \in J : k - j \in Nat
      OBVIOUS
    <2> QED
      BY <2>1
  <1>2. PICK d \in T : \A e \in T : d <= e
    BY <1>1, LeastOfNat
  <1>3. PICK m \in J : d = k - m
    BY <1>2
  <1>4. \A j \in J : m >= j
    <2> SUFFICES ASSUME NEW j \in J PROVE m >= j
      OBVIOUS
    <2>1. d <= k - j
      BY <1>2
    <2> QED
      BY <2>1, <1>3
  <1> QED
    BY <1>3, <1>4 DEF Max

\* After the last hour that added to it the sleeve has not grown.
LEMMA NoGrowth ==
  ASSUME IInv, Checking, NEW from \in 1 .. step, NEW k \in from + 1 .. step,
         \A j \in from + 1 .. k - 1 : ~Added(j)
  PROVE  WeightsBefore(k)["p30"] <= WeightsBefore(from + 1)["p30"]
  <1> DEFINE claim(n) == WeightsBefore(n)["p30"] <= WeightsBefore(from + 1)["p30"]
             T == {n \in from + 1 .. k : ~claim(n)}
  <1>1. step \in Nat
    BY DEF IInv, Types
  <1>2. claim(from + 1)
    <2>1. WeightsBefore(from + 1)["p30"] \in Nat
      BY <1>1, BeforeTypes
    <2> QED
      BY <2>1
  <1>3. ASSUME NEW n \in from + 1 .. k - 1, claim(n) PROVE claim(n + 1)
    <2>1. n \in 1 .. step /\ from + 1 \in 1 .. step + 1
      BY <1>1
    <2>2. /\ WeightsBefore(n)["p30"] \in Nat /\ WeightsBefore(n + 1)["p30"] \in Nat
          /\ path[n].weights["p30"] = WeightsBefore(n + 1)["p30"]
          /\ WeightsBefore(from + 1)["p30"] \in Nat
      BY <2>1, PastHour, BeforeTypes
    <2>3. WeightsBefore(n + 1)["p30"] <= WeightsBefore(n)["p30"]
      BY <2>2 DEF Added
    <2> QED
      BY <2>2, <2>3, <1>3
  <1> HIDE DEF claim
  <1>4. T = {}
    <2> SUFFICES ASSUME T # {} PROVE FALSE
      OBVIOUS
    <2>1. T \in SUBSET Nat
      BY <1>1
    <2>2. PICK n \in T : \A m \in T : n <= m
      BY <2>1, LeastOfNat
    <2>3. n # from + 1
      BY <1>2
    <2>4. n - 1 \in from + 1 .. k - 1
      BY <2>3, <1>1
    <2>5. claim(n - 1)
      BY <2>2, <2>4
    <2>6. claim(n - 1 + 1)
      BY <2>4, <2>5, <1>3
    <2>7. n - 1 + 1 = n
      BY <2>4
    <2> QED
      BY <2>6, <2>7
  <1> QED
    BY <1>1, <1>4 DEF claim

\* When the share is a reason the sleeve, if there is one, is over its cap.
LEMMA ShareIsOverCap ==
  ASSUME p \in Runs, NEW k, NEW w \in Nat, w > 0, NEW worth \in Nat \ {0},
         PoolBRisk(k, worth, w) = {"share"}
  PROVE  OverCap(w, worth)
  <1>1. OverCap(w, worth) \/ p.shareCap * p.capacity.p30 = 0
    <2> DEFINE b == tape[k].bookB
               fires == [volume     |-> VolumeIsThin(k),
                         volatility |-> b.volatility > p.maxVolatility,
                         guard      |-> b.move > p.pullBps \/ b.pulls > p.maxPulls,
                         depeg      |-> b.depeg > p.depegBps \/ tape[k].paused,
                         share      |-> OverCap(w, worth) \/ p.shareCap * p.capacity.p30 = 0]
    <2>1. PoolBRisk(k, worth, w) = {r \in DOMAIN fires : fires[r]}
      BY DEF PoolBRisk
    <2>2. fires["share"] = (OverCap(w, worth) \/ p.shareCap * p.capacity.p30 = 0)
      OBVIOUS
    <2> HIDE DEF fires
    <2>3. fires["share"]
      BY <2>1
    <2> QED
      BY <2>2, <2>3
  <1>2. ASSUME p.shareCap * p.capacity.p30 = 0 PROVE OverCap(w, worth)
    <2>1. /\ p.shareCap \in Nat /\ BPS - p.shareCap \in Nat \ {0}
          /\ p.capacity["p30"] \in Nat \ {0} /\ Unit \in Nat
      BY RunTypes
    <2>2. p.shareCap * (Unit * p.capacity["p30"]) = Unit * (p.shareCap * p.capacity["p30"])
      BY <2>1
    <2>3. p.shareCap * (Unit * p.capacity["p30"]) = 0
      BY <1>2, <2>1, <2>2
    <2>4. w * worth \in Nat \ {0}
      OBVIOUS
    <2>5. (w * worth) * (BPS - p.shareCap) > 0
      BY <2>1, <2>4
    <2> QED
      BY <2>3, <2>5, OverCapRoom
  <1> QED
    BY <1>1, <1>2

\* The NAV an hour begins with, when the cap is all there is against the sleeve.
LEMMA OnlyTheShare ==
  ASSUME IInv, Checking, NEW k \in 1 .. step, Reasons(k) = {"share"},
         WeightsBefore(k)["p30"] > 0
  PROVE  NavBefore(k) > NavBefore(Max({j \in 1 .. k - 1 : Added(j)}))
  <1> DEFINE J == {j \in 1 .. k - 1 : Added(j)}
  <1>1. step \in Nat /\ p \in Runs
    BY DEF IInv, Types
  <1>2. ASSUME NEW n \in 1 .. step + 1
        PROVE  WeightsBefore(n)["p30"] \in Nat /\ NavBefore(n) \in Int
    BY <1>2, BeforeTypes
  <1>3. WeightsBefore(1)["p30"] = 0
    BY DEF WeightsBefore, InitialWeights, Checking, AllIn, Nothing, Pools
  <1>4. J # {}
    <2> SUFFICES ASSUME J = {} PROVE FALSE
      OBVIOUS
    <2> DEFINE T == {n \in 1 .. k : WeightsBefore(n)["p30"] > 0}
    <2>1. T \in SUBSET Nat /\ k \in T
      BY <1>1
    <2>2. PICK n \in T : \A m \in T : n <= m
      BY <2>1, LeastOfNat
    <2>3. n # 1
      BY <1>3
    <2>4. n - 1 \in 1 .. k - 1 /\ n - 1 \in 1 .. step /\ n - 1 \in 1 .. step + 1
      BY <2>3, <1>1
    <2>5. ~(WeightsBefore(n - 1)["p30"] > 0)
      BY <2>2, <2>4
    <2>6. path[n - 1].weights["p30"] = WeightsBefore(n - 1 + 1)["p30"]
      BY <2>4, PastHour
    <2>7. n - 1 + 1 = n
      BY <2>4
    <2>8. WeightsBefore(n)["p30"] > WeightsBefore(n - 1)["p30"]
      BY <2>4, <2>5, <1>2
    <2>9. Added(n - 1)
      BY <2>6, <2>7, <2>8 DEF Added
    <2> QED
      BY <2>4, <2>9
  <1> DEFINE last == Max(J)
  <1>5. last \in J /\ \A j \in J : j <= last
    <2>1. k \in Nat /\ J \in SUBSET (1 .. k - 1)
      BY <1>1
    <2> HIDE DEF J
    <2> QED
      BY <2>1, <1>4, LastHour
  <1> HIDE DEF last
  <1>6. /\ last \in 1 .. k - 1 /\ last \in 1 .. step /\ last + 1 \in 1 .. step + 1
        /\ k \in last + 1 .. step /\ Added(last) /\ k \in 1 .. step + 1
        /\ last \in 1 .. step + 1
    BY <1>1, <1>5
  <1>7. ASSUME NEW j \in last + 1 .. k - 1 PROVE ~Added(j)
    BY <1>5, <1>6, <1>7
  <1> DEFINE w     == WeightsBefore(k)["p30"]
             v     == WeightsBefore(last + 1)["p30"]
             worth == Stake(NavBefore(k))
             base  == Stake(NavBefore(last))
  <1>8. w <= v
    BY <1>6, <1>7, NoGrowth
  <1>9. ~OverCap(v, base)
    BY <1>6, PastHour DEF Added
  <1>10. w \in Nat /\ v \in Nat /\ worth \in Nat \ {0} /\ base \in Nat \ {0}
    BY <1>2, <1>6, StakeType
  <1>11. OverCap(w, worth)
    <2>1. PoolBRisk(k, worth, w) = {"share"}
      BY DEF Reasons
    <2> HIDE DEF worth, w
    <2>2. w > 0
      BY DEF w
    <2> QED
      BY <2>1, <2>2, <1>1, <1>10, ShareIsOverCap
  <1>12. worth > base
    <2> HIDE DEF w, v, worth, base
    <2> QED
      BY <1>1, <1>8, <1>9, <1>10, <1>11, OverCapGrew
  <1>13. NavBefore(k) > NavBefore(last)
    BY <1>2, <1>6, <1>12 DEF Stake
  <1> QED
    BY <1>13 DEF last

\* pool_b_risk, "the at-cap sleeve is not treated as over-cap": what CapWeight sized is over
\* the cap only once the NAV has grown.
THEOREM CapAloneFollowsGrowth == Spec => []AtCapIsNotOverCap
  <1>1. IInv => AtCapIsNotOverCap
    <2> SUFFICES ASSUME IInv, Checking, NEW k \in DOMAIN path,
                        Reasons(k) = {"share"}, WeightsBefore(k).p30 > 0
                 PROVE  NavBefore(k) > NavBefore(Max({j \in 1 .. k - 1 : Added(j)}))
      BY DEF AtCapIsNotOverCap
    <2>1. k \in 1 .. step
      BY DEF IInv, Types
    <2> QED
      BY <2>1, OnlyTheShare
  <1> QED
    BY <1>1, Invariance, PTL

-----------------------------------------------------------------------------
(* The block bootstrap.                                                             *)

LEMMA DivBounds ==
  ASSUME NEW m \in Int, NEW d \in Nat \ {0}
  PROVE  m \div d \in Int /\ (m \div d) * d <= m /\ m < (m \div d) * d + d
  OBVIOUS

LEMMA DivUnique ==
  ASSUME NEW m \in Int, NEW d \in Nat \ {0}, NEW n \in Int, n * d <= m, m < n * d + d
  PROVE  m \div d = n
  <1> DEFINE q == m \div d
  <1>1. q \in Int /\ q * d <= m /\ m < q * d + d
    BY DivBounds
  <1> HIDE DEF q
  <1>2. ASSUME q < n PROVE FALSE
    <2>1. q * d + d <= n * d
      BY <1>1, <1>2
    <2> QED BY <1>1, <2>1, ProductInt
  <1>3. ASSUME n < q PROVE FALSE
    <2>1. n * d + d <= q * d
      BY <1>1, <1>3
    <2> QED BY <1>1, <2>1, ProductInt
  <1>4. q = n
    BY <1>1, <1>2, <1>3
  <1> QED BY <1>4 DEF q

\* A tick is within half a tick of the price it is taken from.
LEMMA TickIsNearest ==
  ASSUME NEW x \in Int
  PROVE  /\ TickOf(x) \in Int /\ LevelOf(TickOf(x)) \in Int
         /\ 2 * LevelOf(TickOf(x)) <= 2 * x + SubTicks
         /\ 2 * x - SubTicks < 2 * LevelOf(TickOf(x))
  <1>1. SubTicks \in Nat \ {0} /\ 2 * SubTicks \in Nat \ {0}
    BY SubTickAssumption
  <1> DEFINE m == 2 * x + SubTicks
             d == 2 * SubTicks
             q == m \div d
  <1>2. q \in Int /\ q * d <= m /\ m < q * d + d
    <2>1. m \in Int /\ d \in Nat \ {0}
      BY <1>1
    <2> HIDE DEF m, d
    <2> QED BY <2>1, DivBounds
  <1> HIDE DEF q
  <1>3. q * d = 2 * (q * SubTicks) /\ q * SubTicks \in Int
    BY <1>1, <1>2
  <1>4. 2 * (q * SubTicks) <= 2 * x + SubTicks /\ 2 * x - SubTicks < 2 * (q * SubTicks)
    <2> DEFINE y == q * SubTicks
    <2>1. y \in Int /\ q * d = 2 * y
      BY <1>3
    <2> HIDE DEF y
    <2> QED BY <1>1, <1>2, <2>1 DEF y
  <1>5. TickOf(x) = q
    BY DEF TickOf, q
  <1> QED
    BY <1>2, <1>3, <1>4, <1>5 DEF LevelOf

\* The tick of the price of a tick is the tick.
LEMMA TickOfLevel ==
  ASSUME NEW n \in Int
  PROVE  TickOf(LevelOf(n)) = n
  <1>1. SubTicks \in Nat \ {0} /\ 2 * SubTicks \in Nat \ {0}
    BY SubTickAssumption
  <1> DEFINE y == n * SubTicks
             d == 2 * SubTicks
  <1>2. y \in Int /\ n * d = 2 * y
    BY <1>1
  <1>3. n * d <= 2 * y + SubTicks /\ 2 * y + SubTicks < n * d + d
    <2> HIDE DEF y
    <2>1. n * d \in Int
      BY <1>2
    <2> QED BY <1>1, <1>2, <2>1
  <1>4. (2 * y + SubTicks) \div d = n
    <2> HIDE DEF y, d
    <2>1. 2 * y + SubTicks \in Int /\ d \in Nat \ {0}
      BY <1>1, <1>2 DEF d
    <2> QED BY <1>3, <2>1, DivUnique
  <1> QED
    BY <1>4 DEF TickOf, LevelOf

\* The blocks of two hours in a row.
LEMMA NextInBlock ==
  ASSUME NEW m \in Nat \ {0}, NEW d \in Nat \ {0}
  PROVE  /\ m % d = 0 => (m - 1) \div d = (m \div d) - 1 /\ (m - 1) % d = d - 1
         /\ m % d # 0 => (m - 1) \div d = m \div d /\ (m - 1) % d = (m % d) - 1
  <1> DEFINE q == m \div d
             r == m % d
  <1>1. q \in Nat /\ r \in 0 .. d - 1 /\ m = q * d + r /\ q * d \in Nat
    OBVIOUS
  <1>2. (m - 1) % d = (m - 1) - ((m - 1) \div d) * d
    OBVIOUS
  <1> HIDE DEF q, r
  <1>3. ASSUME r = 0 PROVE (m - 1) \div d = q - 1 /\ (m - 1) % d = d - 1
    <2>1. (q - 1) * d = q * d - d
      BY <1>1
    <2>2. (q - 1) * d <= m - 1 /\ m - 1 < (q - 1) * d + d
      BY <1>1, <1>3, <2>1
    <2>3. (m - 1) \div d = q - 1
      BY <1>1, <2>2, DivUnique
    <2> QED BY <1>1, <1>2, <1>3, <2>1, <2>3
  <1>4. ASSUME r # 0 PROVE (m - 1) \div d = q /\ (m - 1) % d = r - 1
    <2>1. q * d <= m - 1 /\ m - 1 < q * d + d
      BY <1>1, <1>4
    <2>2. (m - 1) \div d = q
      BY <1>1, <2>1, DivUnique
    <2> QED BY <1>1, <1>2, <2>2
  <1> QED BY <1>3, <1>4 DEF q, r

\* What an hour is shifted to.
LEMMA ShiftedTick ==
  ASSUME NEW row \in Row, NEW delta, NEW t
  PROVE  /\ ShiftRow(row, delta, t).t = t
         /\ ShiftRow(row, delta, t).tick = TickOf(row.level + delta)
         /\ ShiftRow(row, delta, t).level = LevelOf(TickOf(row.level + delta))
  <1>1. DOMAIN row = {"t", "level", "tick", "paused", "bookA", "bookB"}
    BY RowFields
  <1> QED BY <1>1 DEF ShiftRow

\* The recursion of Shifts: what a block is shifted by, from the shift of the one before.
ShiftAt(rows, from, block, g, b) ==
    (IF b = 1 THEN rows[1].level ELSE ShiftRow(rows[from[b - 1] + block - 1], g[b - 1], 0).level)
      - rows[from[b]].level

ShiftsUp(rows, from, block, g) == g = [b \in DOMAIN from |-> ShiftAt(rows, from, block, g, b)]

LEMMA ShiftsAreChosen ==
  ASSUME NEW rows, NEW from, NEW block
  PROVE  Shifts(rows, from, block) = CHOOSE g : ShiftsUp(rows, from, block, g)
  BY DEF Shifts, ShiftsUp, ShiftAt

\* The recursion has a solution, for any number of blocks.
LEMMA ShiftsExist ==
  ASSUME NEW rows, NEW n \in Nat, NEW from, DOMAIN from = 1 .. n, NEW block
  PROVE  \E g : ShiftsUp(rows, from, block, g)
  <1> DEFINE At(g, b)   == ShiftAt(rows, from, block, g, b)
             UpTo(g, m) == \A b \in 1 .. n : b <= m => g[b] = At(g, b)
             T          == {m \in Nat : ~ \E g : UpTo(g, m)}
  <1>1. ASSUME NEW g, NEW h, NEW b \in Nat \ {0}, b = 1 \/ g[b - 1] = h[b - 1]
        PROVE  At(g, b) = At(h, b)
    BY <1>1 DEF ShiftAt
  <1>2. T = {}
    <2> SUFFICES ASSUME T # {} PROVE FALSE
      OBVIOUS
    <2>1. PICK m \in T : \A j \in T : m <= j
      <3>1. T \in SUBSET Nat
        OBVIOUS
      <3> HIDE DEF T
      <3> QED BY <3>1, LeastOfNat
    <2>2. m # 0
      <3>1. \A g : UpTo(g, 0)
        OBVIOUS
      <3> HIDE DEF UpTo
      <3> QED BY <3>1
    <2>3. m - 1 \in Nat /\ m - 1 \notin T
      <3>1. m \in Nat /\ T \in SUBSET Nat
        OBVIOUS
      <3> HIDE DEF T
      <3> QED BY <2>1, <2>2, <3>1
    <2>4. PICK g : UpTo(g, m - 1)
      BY <2>3
    <2> HIDE DEF At
    <2> DEFINE h == [b \in 1 .. n |-> IF b <= m - 1 THEN g[b] ELSE At(g, b)]
    <2>5. ASSUME NEW b \in 1 .. n, b <= m PROVE h[b] = At(h, b)
      <3>1. h[b] = At(g, b)
        BY <2>4
      <3>2. b = 1 \/ g[b - 1] = h[b - 1]
        BY <2>3, <2>5
      <3> HIDE DEF h
      <3> QED BY <3>1, <3>2, <1>1
    <2>6. UpTo(h, m)
      <3> HIDE DEF h
      <3> QED BY <2>5
    <2> QED BY <2>1, <2>6
  <1>3. PICK g : UpTo(g, n)
    BY <1>2
  <1> HIDE DEF At
  <1> DEFINE h == [b \in 1 .. n |-> At(g, b)]
  <1>4. ASSUME NEW b \in 1 .. n PROVE h[b] = At(h, b)
    <2>1. b = 1 \/ g[b - 1] = h[b - 1]
      BY <1>3
    <2>2. h[b] = At(g, b)
      OBVIOUS
    <2> HIDE DEF h
    <2> QED BY <2>1, <2>2, <1>1
  <1>5. h = [b \in 1 .. n |-> At(h, b)]
    <2>1. h = [b \in 1 .. n |-> h[b]]
      OBVIOUS
    <2> HIDE DEF h
    <2> QED BY <2>1, <1>4
  <1>6. ShiftsUp(rows, from, block, h)
    <2> HIDE DEF h
    <2> QED BY <1>5 DEF ShiftsUp, At
  <1> QED BY <1>6

\* So Shifts is that solution, and its values are integers.
LEMMA ShiftsTyped ==
  ASSUME NEW rows, rows \in Seq(Row), Paid(rows), NEW from \in Starts(rows, BlockHours),
         NEW b \in DOMAIN from
  PROVE  LET shift == Shifts(rows, from, BlockHours)
         IN  shift[b] = ShiftAt(rows, from, BlockHours, shift, b) /\ shift[b] \in Int
  <1> DEFINE n     == (Horizon + BlockHours - 1) \div BlockHours
             shift == Shifts(rows, from, BlockHours)
  <1>1. /\ Horizon \in Nat \ {0} /\ BlockHours \in Nat \ {0} /\ BlockHours <= Horizon
        /\ Len(rows) = Horizon /\ DOMAIN rows = 1 .. Horizon
    BY UnitAssumption DEF Paid
  <1>2. n \in Nat
    BY <1>1
  <1>3. from \in [1 .. n -> 1 .. Horizon - BlockHours + 1]
    BY <1>1 DEF Starts
  <1> HIDE DEF n
  <1>4. \E g : ShiftsUp(rows, from, BlockHours, g)
    BY <1>2, <1>3, ShiftsExist
  <1>5. ShiftsUp(rows, from, BlockHours, shift)
    BY <1>4, ShiftsAreChosen
  <1> HIDE DEF shift
  <1>6. \A c \in 1 .. n : shift[c] = ShiftAt(rows, from, BlockHours, shift, c)
    <2>1. shift = [c \in 1 .. n |-> ShiftAt(rows, from, BlockHours, shift, c)]
      BY <1>3, <1>5 DEF ShiftsUp
    <2> QED BY <2>1
  <1>7. \A k \in 1 .. Horizon : rows[k] \in Row /\ rows[k].level \in Int
    <2>1. \A k \in 1 .. Horizon : rows[k] \in Row
      BY <1>1
    <2> QED BY <2>1 DEF Row
  <1> DEFINE T == {c \in 1 .. n : shift[c] \notin Int}
  <1>8. T = {}
    <2> SUFFICES ASSUME T # {} PROVE FALSE
      OBVIOUS
    <2>1. PICK c \in T : \A j \in T : c <= j
      <3>1. T \in SUBSET Nat
        BY <1>2
      <3> HIDE DEF T
      <3> QED BY <3>1, LeastOfNat
    <2>2. c \in 1 .. n /\ from[c] \in 1 .. Horizon /\ rows[from[c]].level \in Int
          /\ rows[1].level \in Int
      BY <1>1, <1>2, <1>3, <1>7
    <2>3. c # 1
      BY <2>1, <2>2, <1>6 DEF ShiftAt
    <2>4. c - 1 \in 1 .. n /\ c - 1 \notin T
      BY <2>1, <2>2, <2>3, <1>2
    <2>5. shift[c - 1] \in Int
      BY <2>4
    <2>6. from[c - 1] + BlockHours - 1 \in 1 .. Horizon
      BY <2>4, <1>1, <1>3
    <2> DEFINE row == rows[from[c - 1] + BlockHours - 1]
    <2>7. row \in Row /\ row.level \in Int
      BY <2>6, <1>7
    <2>8. ShiftRow(row, shift[c - 1], 0).level \in Int
      <3>1. row.level + shift[c - 1] \in Int
        BY <2>5, <2>7
      <3> HIDE DEF row
      <3>2. ShiftRow(row, shift[c - 1], 0).level = LevelOf(TickOf(row.level + shift[c - 1]))
        BY <2>7, ShiftedTick
      <3> QED BY <3>1, <3>2, TickIsNearest
    <2>9. shift[c] = ShiftRow(row, shift[c - 1], 0).level - rows[from[c]].level
      BY <2>2, <2>3, <1>6 DEF ShiftAt
    <2>10. shift[c] \in Int
      BY <2>2, <2>8, <2>9
    <2> QED BY <2>1, <2>10
  <1>9. b \in 1 .. n
    BY <1>3
  <1> QED
    BY <1>6, <1>8, <1>9 DEF shift

-----------------------------------------------------------------------------
(* The blocks of a resampled tape join.                                             *)

\* The hour of the recorded tape an hour is taken from.
TakenFrom(from, k) == from[((k - 1) \div BlockHours) + 1] + ((k - 1) % BlockHours)

\* An hour of a resampled tape is an hour of the recorded one, shifted with its block.
LEMMA ResampledHour ==
  ASSUME NEW rows, rows \in Seq(Row), Paid(rows), NEW from \in Starts(rows, BlockHours),
         NEW k \in 1 .. Horizon
  PROVE  LET b     == ((k - 1) \div BlockHours) + 1
             shift == Shifts(rows, from, BlockHours)
             level == rows[TakenFrom(from, k)].level
             made  == Bootstrap(rows, from, BlockHours)[k]
         IN  /\ b \in DOMAIN from /\ TakenFrom(from, k) \in 1 .. Horizon
             /\ rows[TakenFrom(from, k)] \in Row /\ level \in Int /\ shift[b] \in Int
             /\ made.tick = TickOf(level + shift[b]) /\ made.level = LevelOf(made.tick)
             /\ made.t = k - 1
  <1> DEFINE n     == (Horizon + BlockHours - 1) \div BlockHours
             b     == ((k - 1) \div BlockHours) + 1
             r     == (k - 1) % BlockHours
             shift == Shifts(rows, from, BlockHours)
             row   == rows[TakenFrom(from, k)]
  <1>1. /\ Horizon \in Nat \ {0} /\ BlockHours \in Nat \ {0} /\ BlockHours <= Horizon
        /\ Len(rows) = Horizon /\ DOMAIN rows = 1 .. Horizon
    BY UnitAssumption DEF Paid
  <1>2. from \in [1 .. n -> 1 .. Horizon - BlockHours + 1]
    BY <1>1 DEF Starts
  <1>3. b \in 1 .. n
    BY <1>1
  <1>4. r \in 0 .. BlockHours - 1
    BY <1>1
  <1>5. TakenFrom(from, k) = from[b] + r
    BY DEF TakenFrom
  <1> HIDE DEF n, b, r
  <1>6. b \in DOMAIN from /\ TakenFrom(from, k) \in 1 .. Horizon
    BY <1>1, <1>2, <1>3, <1>4, <1>5
  <1>7. row \in Row
    BY <1>1, <1>6
  <1>8. row.level \in Int
    BY <1>7 DEF Row
  <1>9. shift[b] \in Int
    BY <1>6, ShiftsTyped
  <1>10. Bootstrap(rows, from, BlockHours)[k] = ShiftRow(row, shift[b], k - 1)
    <2>1. k \in DOMAIN rows
      BY <1>1
    <2> HIDE DEF shift
    <2> QED BY <2>1 DEF Bootstrap, TakenFrom, b, shift
  <1> HIDE DEF row, shift
  <1>11. /\ ShiftRow(row, shift[b], k - 1).tick = TickOf(row.level + shift[b])
         /\ ShiftRow(row, shift[b], k - 1).level = LevelOf(TickOf(row.level + shift[b]))
         /\ ShiftRow(row, shift[b], k - 1).t = k - 1
    BY <1>7, ShiftedTick
  <1> QED
    BY <1>6, <1>7, <1>8, <1>9, <1>10, <1>11 DEF row, shift, b

\* The first hour of a block is at the tick the one before it ended on.
LEMMA BlockOpens ==
  ASSUME NEW rows, rows \in Seq(Row), Paid(rows), NEW from \in Starts(rows, BlockHours),
         NEW k \in 2 .. Horizon, (k - 1) % BlockHours = 0
  PROVE  LET all == Bootstrap(rows, from, BlockHours)
         IN  all[k].tick = all[k - 1].tick
  <1> DEFINE b     == ((k - 1) \div BlockHours) + 1
             c     == ((k - 2) \div BlockHours) + 1
             shift == Shifts(rows, from, BlockHours)
             x     == rows[TakenFrom(from, k)].level
             row   == rows[TakenFrom(from, k - 1)]
             y     == row.level
             all   == Bootstrap(rows, from, BlockHours)
  <1>1. Horizon \in Nat \ {0} /\ BlockHours \in Nat \ {0}
    BY UnitAssumption
  <1>2. k - 1 \in Nat \ {0} /\ k - 1 \in 1 .. Horizon /\ k \in 1 .. Horizon /\ k - 1 - 1 = k - 2
    BY <1>1
  <1>3. (k - 2) \div BlockHours = ((k - 1) \div BlockHours) - 1
        /\ (k - 2) % BlockHours = BlockHours - 1
    <2> DEFINE m == k - 1
    <2>1. m \in Nat \ {0} /\ m % BlockHours = 0 /\ k - 2 = m - 1
      BY <1>2
    <2> HIDE DEF m
    <2>2. (m - 1) \div BlockHours = (m \div BlockHours) - 1 /\ (m - 1) % BlockHours = BlockHours - 1
      BY <1>1, <2>1, NextInBlock
    <2> QED BY <2>1, <2>2 DEF m
  <1>4. (k - 1) \div BlockHours \in Nat /\ (k - 2) \div BlockHours \in Nat
    BY <1>1, <1>2
  <1>5. c = b - 1 /\ b \in Nat /\ b # 1
    BY <1>3, <1>4
  <1>6. /\ b \in DOMAIN from /\ x \in Int /\ shift[b] \in Int
        /\ all[k].tick = TickOf(x + shift[b])
    BY <1>2, ResampledHour
  <1>7. /\ row \in Row /\ y \in Int /\ shift[c] \in Int
        /\ all[k - 1].tick = TickOf(y + shift[c])
    <2>1. LET d == ((k - 1 - 1) \div BlockHours) + 1
          IN  /\ row \in Row /\ y \in Int /\ shift[d] \in Int
              /\ all[k - 1].tick = TickOf(y + shift[d])
      BY <1>2, ResampledHour
    <2> QED BY <2>1, <1>2
  <1>8. shift[b] = ShiftAt(rows, from, BlockHours, shift, b)
    BY <1>6, ShiftsTyped
  <1>9. x = rows[from[b]].level
    <2>1. TakenFrom(from, k) = from[b] + 0
      BY DEF TakenFrom
    <2>2. from[b] \in Int
      <3>1. from \in [DOMAIN from -> 1 .. Horizon - BlockHours + 1]
        BY <1>1 DEF Starts, Paid
      <3> HIDE DEF b
      <3> QED BY <3>1, <1>1, <1>6
    <2> QED BY <2>1, <2>2
  <1>10. row = rows[from[b - 1] + BlockHours - 1]
    <2>1. TakenFrom(from, k - 1) = from[c] + (BlockHours - 1)
      BY <1>2, <1>3 DEF TakenFrom
    <2> QED BY <2>1, <1>5
  <1> HIDE DEF b, c, shift, x, row, all
  <1>11. shift[b] = ShiftRow(row, shift[c], 0).level - x
    BY <1>5, <1>8, <1>9, <1>10 DEF ShiftAt
  <1>12. ShiftRow(row, shift[c], 0).level = LevelOf(TickOf(y + shift[c]))
    BY <1>7, ShiftedTick
  <1> HIDE DEF y
  <1>13. y + shift[c] \in Int
    BY <1>7
  <1> DEFINE tick == TickOf(y + shift[c])
  <1>14. tick \in Int /\ LevelOf(tick) \in Int
    BY <1>13, TickIsNearest
  <1>15. x + shift[b] = LevelOf(tick)
    BY <1>6, <1>11, <1>12, <1>14
  <1>16. TickOf(x + shift[b]) = tick
    BY <1>14, <1>15, TickOfLevel
  <1> QED
    BY <1>6, <1>7, <1>16 DEF all

\* Within a block the path makes the steps of the recorded tape, to the tick.
LEMMA BlockFollows ==
  ASSUME NEW rows, rows \in Seq(Row), Paid(rows), NEW from \in Starts(rows, BlockHours),
         NEW k \in 2 .. Horizon, (k - 1) % BlockHours # 0
  PROVE  LET all   == Bootstrap(rows, from, BlockHours)
             drift == LevelOf(all[k].tick - all[k - 1].tick)
                        - (rows[TakenFrom(from, k)].level - rows[TakenFrom(from, k - 1)].level)
         IN  -SubTicks < drift /\ drift < SubTicks
  <1> DEFINE b     == ((k - 1) \div BlockHours) + 1
             s     == Shifts(rows, from, BlockHours)[b]
             x     == rows[TakenFrom(from, k)].level
             y     == rows[TakenFrom(from, k - 1)].level
             all   == Bootstrap(rows, from, BlockHours)
             u     == TickOf(x + s)
             v     == TickOf(y + s)
  <1>1. Horizon \in Nat \ {0} /\ BlockHours \in Nat \ {0} /\ SubTicks \in Nat
    BY UnitAssumption, SubTickAssumption
  <1>2. k - 1 \in Nat \ {0} /\ k - 1 \in 1 .. Horizon /\ k \in 1 .. Horizon
    BY <1>1
  <1>3. (k - 1 - 1) \div BlockHours = (k - 1) \div BlockHours
    BY <1>1, <1>2, NextInBlock
  <1>4. x \in Int /\ s \in Int /\ all[k].tick = u
    BY <1>2, ResampledHour
  <1>5. y \in Int /\ all[k - 1].tick = v
    <2>1. LET d == ((k - 1 - 1) \div BlockHours) + 1
          IN  /\ y \in Int
              /\ all[k - 1].tick = TickOf(y + Shifts(rows, from, BlockHours)[d])
      BY <1>2, ResampledHour
    <2> QED BY <2>1, <1>3
  <1> HIDE DEF x, y, s, all
  <1>6. x + s \in Int /\ y + s \in Int
    BY <1>4, <1>5
  <1>7. /\ u \in Int /\ LevelOf(u) \in Int /\ 2 * LevelOf(u) <= 2 * (x + s) + SubTicks
        /\ 2 * (x + s) - SubTicks < 2 * LevelOf(u)
    BY <1>6, TickIsNearest
  <1>8. /\ v \in Int /\ LevelOf(v) \in Int /\ 2 * LevelOf(v) <= 2 * (y + s) + SubTicks
        /\ 2 * (y + s) - SubTicks < 2 * LevelOf(v)
    BY <1>6, TickIsNearest
  <1> HIDE DEF u, v
  <1>9. LevelOf(u - v) = LevelOf(u) - LevelOf(v)
    BY <1>1, <1>7, <1>8 DEF LevelOf
  <1> DEFINE p1 == LevelOf(u)
             q1 == LevelOf(v)
  <1>10. /\ p1 \in Int /\ q1 \in Int
         /\ 2 * p1 <= 2 * (x + s) + SubTicks /\ 2 * (x + s) - SubTicks < 2 * p1
         /\ 2 * q1 <= 2 * (y + s) + SubTicks /\ 2 * (y + s) - SubTicks < 2 * q1
    BY <1>7, <1>8
  <1> HIDE DEF p1, q1
  <1>11. -SubTicks < (p1 - q1) - (x - y) /\ (p1 - q1) - (x - y) < SubTicks
    BY <1>1, <1>4, <1>5, <1>10
  <1> QED
    BY <1>4, <1>5, <1>9, <1>11 DEF p1, q1, x, y, all

\* BlocksJoin, at any step.
TapeJoins ==
  starts # <<>> => \A k \in 2 .. Len(tape) :
    LET drift == LevelOf(tape[k].tick - tape[k - 1].tick)
                   - (source[TakenFrom(starts, k)].level - source[TakenFrom(starts, k - 1)].level)
    IN  IF (k - 1) % BlockHours = 0 THEN tape[k].tick = tape[k - 1].tick
        ELSE -SubTicks < drift /\ drift < SubTicks

\* block_bootstrap: on any recorded tape and for any choice of blocks, the path never jumps
\* where two blocks meet, and keeps the recorded returns to the tick within one.
THEOREM PathsJoin == Spec => []BlocksJoin
  <1>1. Init => TapeJoins
    <2> SUFFICES ASSUME Init, starts # <<>> PROVE TapeJoins
      BY DEF TapeJoins
    <2>1. PICK recorded \in Tapes : source = Load(recorded, Horizon)
      BY DEF Init
    <2>2. source \in Seq(Row) /\ Paid(source)
      BY <2>1, LoadPaid
    <2>3. starts \in Starts(source, BlockHours) /\ tape = Bootstrap(source, starts, BlockHours)
      BY DEF Init
    <2>4. Len(tape) = Horizon
      BY InitTape DEF Paid
    <2> QED
      BY <2>2, <2>3, <2>4, BlockOpens, BlockFollows DEF TapeJoins
  <1>2. TapeJoins /\ [Next]_vars => TapeJoins'
    <2> SUFFICES ASSUME TapeJoins, [Next]_vars PROVE TapeJoins'
      OBVIOUS
    <2>1. UNCHANGED <<starts, tape, source>>
      BY DEF Next, vars, fixed, Market, Allocate, Earn, Mark, Measure
    <2> QED BY <2>1 DEF TapeJoins, TakenFrom
  <1>3. TapeJoins => BlocksJoin
    BY DEF TapeJoins, BlocksJoin, TakenFrom
  <1> QED
    BY <1>1, <1>2, <1>3, PTL DEF Spec

-----------------------------------------------------------------------------
(* Types.                                                                           *)

\* Parts of the capital.
Parted(w) == w \in [Pools -> 0 .. Unit] /\ Total(w) <= Unit

LEMMA WholeParted ==
  ASSUME NEW w, Whole(w)
  PROVE  Parted(w) /\ Total(w) = Unit
  BY UnitAssumption DEF Whole, Parted, Total, Pools

LEMMA AllInParted ==
  ASSUME NEW pool \in Pools
  PROVE  Parted(AllIn(pool))
  BY UnitAssumption DEF Parted, AllIn, Nothing, Total, Pools

\* The parts Norm gives, rounded down, are together no more than the whole.
LEMMA NormParted ==
  ASSUME NEW w, \A q \in Pools : w[q] \in Int
  PROVE  Parted(Norm(w))
  <1> DEFINE v    == [q \in Pools |-> Positive(w[q])]
             sum  == Total(v)
             f(q) == (Unit * v[q]) \div sum
             to   == [q \in Pools |-> f(q)]
  <1>1. v \in [Pools -> Nat] /\ Unit \in Nat \ {0}
    BY Clamps, UnitAssumption
  <1>2. sum \in Nat /\ sum = v["p05"] + v["p15"] + v["p30"]
    BY <1>1 DEF Total, Pools
  <1>3. Norm(w) = IF sum = 0 THEN AllIn("p05") ELSE to
    BY DEF Norm
  <1>4. Parted(AllIn("p05"))
    BY AllInParted DEF Pools
  <1> HIDE DEF v, sum
  <1>5. ASSUME sum # 0 PROVE Parted(to)
    <2>1. ASSUME NEW q \in Pools
          PROVE  f(q) \in Nat /\ f(q) * sum <= Unit * v[q] /\ f(q) * sum \in Nat
      <3>1. Unit * v[q] \in Nat /\ sum \in Nat \ {0}
        BY <1>1, <1>2, <1>5, ProductNat
      <3> DEFINE m == Unit * v[q]
      <3> HIDE DEF m
      <3>2. m \div sum \in Nat /\ (m \div sum) * sum <= m
        BY <3>1, DivFloor DEF m
      <3> QED BY <3>1, <3>2, ProductNat DEF m
    <2> DEFINE a == f("p05")
               b == f("p15")
               c == f("p30")
               x == v["p05"]
               y == v["p15"]
               z == v["p30"]
    <2>2. to["p05"] = a /\ to["p15"] = b /\ to["p30"] = c
      BY DEF Pools
    <2>3. /\ a \in Nat /\ b \in Nat /\ c \in Nat /\ x \in Nat /\ y \in Nat /\ z \in Nat
          /\ a * sum <= Unit * x /\ b * sum <= Unit * y /\ c * sum <= Unit * z
      BY <1>1, <2>1 DEF Pools
    <2> HIDE DEF f
    <2>4. to \in [Pools -> Nat] /\ to = [q \in Pools |-> to[q]]
      BY <2>1
    <2> HIDE DEF to, a, b, c
    <2>5. sum = x + y + z
      BY <1>2
    <2> HIDE DEF x, y, z
    <2>6. a + b + c <= Unit
      <3>1. (a + b + c) * sum = a * sum + b * sum + c * sum
        BY <1>2, <2>3
      <3>2. Unit * sum = Unit * x + Unit * y + Unit * z
        BY <1>1, <2>3, <2>5
      <3>3. /\ a * sum \in Int /\ b * sum \in Int /\ c * sum \in Int
            /\ Unit * x \in Int /\ Unit * y \in Int /\ Unit * z \in Int
        BY <1>1, <1>2, <2>3, ProductInt
      <3>4. (a + b + c) * sum <= Unit * sum
        BY <3>1, <3>2, <3>3, <2>3
      <3> DEFINE n == a + b + c
      <3>5. n \in Nat
        BY <2>3
      <3> HIDE DEF n
      <3>6. ASSUME n > Unit PROVE FALSE
        <4>1. n * sum >= (Unit + 1) * sum
          BY <3>5, <3>6, <1>1, <1>2, ProductGrows
        <4>2. (Unit + 1) * sum = Unit * sum + sum
          BY <1>1, <1>2
        <4>3. n * sum \in Int /\ Unit * sum \in Int
          BY <3>5, <1>1, <1>2, ProductInt
        <4> QED BY <4>1, <4>2, <4>3, <3>4, <1>2, <1>5 DEF n
      <3> QED BY <3>5, <3>6, <1>1 DEF n
    <2>7. Total(to) = a + b + c
      BY <2>2 DEF Total
    <2>8. a <= Unit /\ b <= Unit /\ c <= Unit
      BY <2>3, <2>6, <1>1
    <2>9. \A q \in Pools : to[q] \in 0 .. Unit
      BY <2>2, <2>3, <2>8, <1>1 DEF Pools
    <2> QED BY <2>4, <2>6, <2>7, <2>9 DEF Parted
  <1> QED BY <1>3, <1>4, <1>5

\* What Targets aims at, and what a step makes of it.
LEMMA AllocateParted ==
  ASSUME p \in Runs, NEW old \in [Pools -> Nat], NEW worth \in Int, NEW s \in Nat,
         p.policy = "fee_check" => Whole(old)
  PROVE  LET goal == Targets(old, worth, s)
             to   == NextWeights(old, goal, p.moveStep)
         IN  /\ Parted(goal) /\ Parted(to)
             /\ p.policy = "fee_check" => Total(goal) = Unit /\ Total(to) = Unit
  <1> DEFINE goal == Targets(old, worth, s)
             to   == NextWeights(old, goal, p.moveStep)
  <1>1. CASE p.policy = "fee_check"
    <2>1. Whole(goal)
      <3>1. Stake(worth) \in Nat \ {0}
        BY StakeType
      <3>2. goal = IF Rebalancing(s) THEN FeeCheck(old, Stake(worth), s + 1) ELSE old
        BY <1>1 DEF Targets
      <3> HIDE DEF goal
      <3>3. Whole(FeeCheck(old, Stake(worth), s + 1))
        BY <1>1, <3>1, FeeCheckTarget
      <3> QED BY <1>1, <3>2, <3>3
    <2>2. Whole(to)
      BY <1>1, AllocateHour DEF Hour
    <2> HIDE DEF goal, to
    <2> QED BY <2>1, <2>2, WholeParted DEF goal, to
  <1>2. CASE p.policy # "fee_check"
    <2>1. Parted(goal)
      <3>1. p.static \in [Pools -> Nat] /\ p.policy \in {"static", "all_05", "all_15", "all_30"}
        BY <1>2, RunAssumption
      <3>2. CASE p.policy = "static"
        BY <3>1, <3>2, NormParted DEF Targets
      <3>3. CASE p.policy # "static"
        <4> DEFINE pool == [all_05 |-> "p05", all_15 |-> "p15", all_30 |-> "p30"][p.policy]
        <4>1. pool \in Pools
          BY <3>1, <3>3 DEF Pools
        <4>2. goal = AllIn(pool)
          BY <1>2, <3>3 DEF Targets
        <4> HIDE DEF pool, goal
        <4> QED BY <4>1, <4>2, AllInParted
      <3> QED BY <3>2, <3>3
    <2> HIDE DEF goal
    <2> DEFINE aim == [q \in Pools |->
                        LET delta == goal[q] - old[q]
                        IN  old[q] + IF delta < -p.moveStep THEN -p.moveStep
                                     ELSE Least(delta, p.moveStep)]
    <2>2. \A q \in Pools : aim[q] \in Int
      <3>1. goal \in [Pools -> Int] /\ p.moveStep \in Nat
        BY <2>1, RunTypes, UnitAssumption DEF Parted
      <3> QED BY <3>1 DEF Least
    <2>3. to = Norm(aim)
      BY DEF NextWeights
    <2> HIDE DEF aim, to
    <2>4. Parted(to)
      BY <2>2, <2>3, NormParted
    <2> QED BY <1>2, <2>1, <2>4 DEF goal, to
  <1> QED BY <1>1, <1>2

\* The parts of TypeOK: what a run is given, its weights, and its progress.
Given ==
  /\ p \in Runs /\ Len(source) = Horizon
  /\ record \in Seq(PathRow) /\ Len(record) \in {0, Horizon}
  /\ starts # <<>> => \A k \in DOMAIN tape : /\ tape[k].t = k - 1
                                           /\ tape[k].level = LevelOf(tape[k].tick)

Weighed(w) == Parted(w) /\ (p.policy = "fee_check" => Total(w) = Unit)

UnderTheTape == step <= Len(tape) /\ (phase # "market" => step < Len(tape))

TInv == Given /\ Weighed(weights) /\ Weighed(targets) /\ UnderTheTape

LEMMA InitGiven ==
  ASSUME Init
  PROVE  Given
  <1>1. PICK recorded \in Tapes : source = Load(recorded, Horizon)
    BY DEF Init
  <1>2. source \in Seq(Row) /\ Paid(source)
    BY <1>1, LoadPaid
  <1>3. record \in Seq(PathRow) /\ Len(record) \in {0, Horizon}
    <2>1. record \in Paths \/ record = <<>>
      BY DEF Init
    <2>2. CASE record \in Paths
      BY <2>2, PathAssumption
    <2>3. CASE record = <<>>
      <3>1. <<>> \in Seq(PathRow) /\ Len(<<>>) = 0
        BY EmptySeq
      <3> QED BY <2>3, <3>1
    <2> QED BY <2>1, <2>2, <2>3
  <1>4. ASSUME starts # <<>>, NEW k \in DOMAIN tape
        PROVE  tape[k].t = k - 1 /\ tape[k].level = LevelOf(tape[k].tick)
    <2>1. starts \in Starts(source, BlockHours) /\ tape = Bootstrap(source, starts, BlockHours)
      BY <1>4 DEF Init
    <2>2. k \in 1 .. Horizon
      BY <1>4, InitTape DEF Paid
    <2> QED BY <1>2, <2>1, <2>2, ResampledHour
  <1>5. p \in Runs /\ Len(source) = Horizon
    BY <1>2 DEF Init, Paid
  <1> QED
    BY <1>3, <1>4, <1>5 DEF Given

LEMMA InitTyped ==
  ASSUME Init
  PROVE  TInv
  <1>1. p \in Runs /\ p.static \in [Pools -> Nat] /\ Unit \in Nat
    BY RunAssumption, UnitAssumption DEF Init
  <1>2. Whole(AllIn("p05"))
    BY <1>1 DEF Whole, AllIn, Nothing, Pools
  <1>3. Parted(Norm(p.static))
    BY <1>1, NormParted
  <1>4. Weighed(InitialWeights)
    BY <1>2, <1>3, WholeParted DEF Weighed, InitialWeights
  <1>5. UnderTheTape
    BY InitTape, UnitAssumption DEF Init, Paid, UnderTheTape
  <1> QED
    BY <1>4, <1>5, InitGiven DEF Init, TInv

LEMMA NextTyped ==
  ASSUME IInv, TInv, [Next]_vars
  PROVE  TInv'
  <1>1. UNCHANGED <<p, source, starts, tape, record>>
    BY DEF Next, vars, fixed, Market, Allocate, Earn, Mark, Measure
  <1>2. Given'
    BY <1>1 DEF TInv, Given
  <1>3. step \in Nat /\ Len(tape) \in Nat
    BY UnitAssumption DEF IInv, Types, Paid
  <1>4. ASSUME UNCHANGED <<weights, targets>> PROVE Weighed(weights)' /\ Weighed(targets)'
    BY <1>1, <1>4 DEF TInv, Weighed, Parted
  <1>5. CASE Market
    BY <1>1, <1>2, <1>4, <1>5 DEF Market, TInv, UnderTheTape
  <1>6. CASE Allocate
    <2>1. /\ targets' = Targets(weights, nav, step)
          /\ weights' = NextWeights(weights, Targets(weights, nav, step), p.moveStep)
          /\ phase = "targets" /\ step' = step
      BY <1>6 DEF Allocate
    <2>2. /\ p \in Runs /\ weights \in [Pools -> Nat] /\ nav \in Int
          /\ p.policy = "fee_check" => Whole(weights)
      BY DEF IInv, Types, Hours
    <2>3. /\ Parted(targets') /\ Parted(weights')
          /\ p.policy = "fee_check" => Total(targets') = Unit /\ Total(weights') = Unit
      BY <1>3, <2>1, <2>2, AllocateParted
    <2>4. Weighed(weights)' /\ Weighed(targets)'
      BY <1>1, <2>3 DEF Weighed, Parted, Total
    <2> QED BY <1>1, <1>2, <2>1, <2>4 DEF TInv, UnderTheTape
  <1>7. CASE Earn
    BY <1>1, <1>2, <1>4, <1>7 DEF Earn, TInv, UnderTheTape
  <1>8. CASE Mark
    BY <1>1, <1>2, <1>4, <1>8 DEF Mark, TInv, UnderTheTape
  <1>9. CASE Measure
    BY <1>1, <1>2, <1>3, <1>4, <1>9 DEF Measure, TInv, UnderTheTape
  <1>10. CASE UNCHANGED vars
    BY <1>1, <1>2, <1>4, <1>10 DEF vars, TInv, UnderTheTape
  <1> QED
    BY <1>5, <1>6, <1>7, <1>8, <1>9, <1>10 DEF Next

\* The weights of every policy are parts of the capital however often they are moved and
\* rounded, all of it where the fee check decides, and no hour is run past the tape.
THEOREM WeightsTyped == Spec => []TypeOK
  <1>1. IInv /\ TInv => TypeOK
    <2> SUFFICES ASSUME IInv, TInv PROVE TypeOK
      OBVIOUS
    <2>1. \A w \in {weights, targets} : Weighed(w)
      BY DEF TInv
    <2>2. step \in 0 .. Len(tape)
      BY UnitAssumption DEF IInv, Types, TInv, UnderTheTape, Paid
    <2> QED BY <2>1, <2>2 DEF IInv, Types, TInv, Given, Weighed, Parted, TypeOK
  <1>2. Init => TInv
    BY InitTyped
  <1>3. IInv /\ TInv /\ [Next]_vars => TInv'
    BY NextTyped
  <1> QED
    BY <1>1, <1>2, <1>3, Invariance, PTL DEF Spec

-----------------------------------------------------------------------------
(* The weight of the closed form.                                                   *)

\* What is known of a rounded quotient of naturals.
LEMMA DivCases ==
  ASSUME NEW m \in Nat, NEW d \in Nat \ {0}, NEW k \in Nat
  PROVE  /\ k * d <= m => k <= m \div d
         /\ m < k * d => m \div d < k
  <1> DEFINE q == m \div d
  <1>1. q \in Nat /\ q * d <= m /\ m < q * d + d
    BY DivBounds, DivNat
  <1> HIDE DEF q
  <1>2. ASSUME k * d <= m, q < k PROVE FALSE
    <2>1. (q + 1) * d <= k * d
      BY <1>1, <1>2, ProductGrows
    <2>2. (q + 1) * d = q * d + d
      BY <1>1
    <2> QED BY <1>1, <1>2, <2>1, <2>2, ProductNat
  <1>3. ASSUME m < k * d, k <= q PROVE FALSE
    <2>1. k * d <= q * d
      BY <1>1, <1>3, ProductGrows
    <2> QED BY <1>1, <1>3, <2>1, ProductNat
  <1>4. q = m \div d
    BY DEF q
  <1> QED BY <1>1, <1>2, <1>3, <1>4

\* Quotients whose products compare crosswise compare.
LEMMA DivCross ==
  ASSUME NEW a \in Nat, NEW b \in Nat \ {0}, NEW c \in Nat, NEW d \in Nat \ {0},
         a * d <= c * b
  PROVE  a \div b <= c \div d
  <1> DEFINE q == a \div b
  <1>1. q \in Nat /\ q * b <= a
    BY DivBounds, DivNat
  <1> HIDE DEF q
  <1>2. (q * d) * b <= c * b
    <2>1. (q * b) * d <= a * d
      BY <1>1, ProductGrows, ProductNat
    <2>2. (q * b) * d = (q * d) * b
      BY <1>1
    <2> QED BY <1>1, <2>1, <2>2, ProductNat
  <1>3. q * d <= c
    <2> DEFINE x == q * d
    <2>1. x \in Nat BY <1>1, ProductNat
    <2>2. x * b <= c * b BY <1>2
    <2> HIDE DEF x
    <2>3. ASSUME c < x PROVE FALSE
      <3>1. (c + 1) * b <= x * b
        BY <2>1, <2>3, ProductGrows
      <3>2. (c + 1) * b = c * b + b
        OBVIOUS
      <3> QED BY <2>1, <2>2, <3>1, <3>2, ProductNat
    <2>4. x <= c BY <2>1, <2>3
    <2> QED BY <2>4 DEF x
  <1>4. q <= c \div d
    BY <1>1, <1>3, DivCases
  <1> QED BY <1>4 DEF q

\* Every natural has a root, rounded down.
LEMMA RootBounds ==
  ASSUME NEW x \in Nat
  PROVE  LET r == Isqrt(x) IN r \in Nat /\ r * r <= x /\ x < (r + 1) * (r + 1)
  <1> DEFINE T == {k \in Nat : x < (k + 1) * (k + 1)}
  <1>1. x \in T
    <2>1. (x + 1) * (x + 1) = x * x + x + x + 1 /\ x * x \in Nat
      BY ProductNat
    <2> QED BY <2>1
  <1>2. PICK r \in T : \A k \in T : r <= k
    BY <1>1, LeastOfNat
  <1>3. r \in 0 .. x
    BY <1>1, <1>2
  <1>4. r * r <= x
    <2>1. CASE r = 0
      BY <2>1
    <2>2. CASE r # 0
      <3>1. r - 1 \in Nat /\ r - 1 \notin T
        BY <1>2, <2>2
      <3> QED BY <3>1
    <2> QED BY <2>1, <2>2
  <1>5. r \in 0 .. x /\ r * r <= x /\ x < (r + 1) * (r + 1)
    BY <1>2, <1>3, <1>4
  <1> DEFINE z == Isqrt(x)
  <1>6. z \in 0 .. x /\ z * z <= x /\ x < (z + 1) * (z + 1)
    BY <1>5 DEF Isqrt
  <1>7. z \in Nat
    BY <1>6
  <1> QED
    BY <1>6, <1>7

LEMMA Cancels ==
  ASSUME NEW m \in Nat, NEW n \in Nat, NEW k \in Nat \ {0}, m * k <= n * k
  PROVE  m <= n
  <1>1. ASSUME n < m PROVE FALSE
    <2>1. (n + 1) * k <= m * k
      BY <1>1, ProductGrows
    <2>2. (n + 1) * k = n * k + k
      OBVIOUS
    <2> QED BY <2>1, <2>2, ProductNat
  <1> QED BY <1>1

LEMMA CancelsInt ==
  ASSUME NEW m \in Int, NEW k \in Nat \ {0}, m * k < 0
  PROVE  m < 0
  <1>1. ASSUME m >= 0 PROVE FALSE
    <2>1. m \in Nat
      BY <1>1
    <2>2. m * k \in Nat
      BY <2>1, ProductNat
    <2> QED BY <2>2
  <1> QED BY <1>1

\* Two differences of quotients, rounded, are as the differences are, to within one.
LEMMA RoundedGap ==
  ASSUME NEW a \in Nat, NEW x \in Nat \ {0}, NEW b \in Nat, NEW y \in Nat \ {0},
         NEW e \in Nat, NEW f \in Nat, NEW u \in Nat \ {0},
         (a * y) * u + f * (x * y) <= (b * x) * u + e * (x * y)
  PROVE  (a \div x) - (e \div u) <= (b \div y) - (f \div u) + 1
  <1> DEFINE qa == a \div x
             qb == b \div y
             qe == e \div u
             qf == f \div u
             xy == x * y
             all == xy * u
  <1>1. /\ qa \in Nat /\ qa * x <= a /\ qb \in Nat /\ b < qb * y + y
        /\ qe \in Nat /\ e < qe * u + u /\ qf \in Nat /\ qf * u <= f
    BY DivBounds, DivNat
  <1> HIDE DEF qa, qb, qe, qf
  <1>2. xy \in Nat \ {0} /\ all \in Nat \ {0}
    <2>1. xy \in Nat \ {0}
      OBVIOUS
    <2> HIDE DEF xy
    <2> QED BY <2>1
  <1>3. qa * all <= (a * y) * u
    <2>1. (qa * x) * (y * u) <= a * (y * u)
      BY <1>1, ProductGrows, ProductNat
    <2> QED BY <1>1, <2>1
  <1>4. (b * x) * u + 1 <= (qb + 1) * all
    <2>1. (b + 1) * (x * u) <= ((qb + 1) * y) * (x * u)
      <3>1. b + 1 <= (qb + 1) * y
        BY <1>1
      <3>2. (qb + 1) * y \in Nat /\ x * u \in Nat /\ b + 1 \in Nat
        BY <1>1, ProductNat
      <3> QED BY <3>1, <3>2, ProductGrows
    <2>2. (b + 1) * (x * u) = (b * x) * u + x * u /\ x * u >= 1
      OBVIOUS
    <2>3. ((qb + 1) * y) * (x * u) = (qb + 1) * all
      BY <1>1
    <2> QED BY <1>1, <2>1, <2>2, <2>3, ProductNat
  <1>5. e * xy <= (qe + 1) * all
    <2>1. e * xy <= ((qe + 1) * u) * xy
      <3>1. e <= (qe + 1) * u
        BY <1>1
      <3>2. (qe + 1) * u \in Nat
        BY <1>1, ProductNat
      <3> HIDE DEF xy
      <3> QED BY <1>2, <3>1, <3>2, ProductGrows
    <2>2. ((qe + 1) * u) * xy = (qe + 1) * all
      BY <1>1
    <2> QED BY <2>1, <2>2
  <1>6. qf * all <= f * xy
    <2>1. (qf * u) * xy <= f * xy
      <3>1. qf * u \in Nat
        BY <1>1, ProductNat
      <3> HIDE DEF xy
      <3> QED BY <1>1, <1>2, <3>1, ProductGrows
    <2>2. (qf * u) * xy = qf * all
      BY <1>1
    <2> QED BY <2>1, <2>2
  <1> DEFINE gap == qa - qe - qb + qf - 2
             ay == (a * y) * u
             bx == (b * x) * u
             ex == e * xy
             fx == f * xy
  <1>7. /\ ay \in Nat /\ bx \in Nat /\ ex \in Nat /\ fx \in Nat /\ ay + fx <= bx + ex
        /\ qa * all <= ay /\ bx + 1 <= (qb + 1) * all /\ ex <= (qe + 1) * all
        /\ qf * all <= fx
    BY <1>3, <1>4, <1>5, <1>6, ProductNat
  <1> HIDE DEF ay, bx, ex, fx, xy, all
  <1>8. gap * all = qa * all + qf * all - (qe + 1) * all - (qb + 1) * all
    BY <1>1, <1>2
  <1>9. gap * all < 0
    <2>1. /\ qa * all \in Int /\ qf * all \in Int /\ (qe + 1) * all \in Int
          /\ (qb + 1) * all \in Int
      BY <1>1, <1>2
    <2> QED BY <1>7, <1>8, <2>1
  <1>10. gap \in Int /\ gap < 0
    <2>1. gap \in Int
      BY <1>1
    <2> HIDE DEF gap
    <2> QED BY <1>2, <1>9, <2>1, CancelsInt
  <1> QED
    BY <1>1, <1>10 DEF qa, qb, qe, qf

\* What a pool holds with a sleeve of w in it.
Share(w, n, d) == w * n + Unit * d

LEMMA ShareType ==
  ASSUME NEW w \in Nat, NEW n \in Nat, NEW d \in Nat \ {0}
  PROVE  Share(w, n, d) \in Nat \ {0}
  <1>1. w * n \in Nat /\ Unit * d \in Nat \ {0}
    BY UnitAssumption, ProductNat
  <1> QED
    BY <1>1 DEF Share

\* The difference of two pools, weighed.
LEMMA SharesCross ==
  ASSUME NEW w \in Nat, NEW v \in Nat, NEW n \in Nat, NEW d \in Nat, w <= v
  PROVE  v * Share(w, n, d) = w * Share(v, n, d) + (v - w) * (Unit * d)
  <1> DEFINE c == Unit * d
  <1>1. c \in Nat
    BY UnitAssumption, ProductNat
  <1> HIDE DEF c
  <1>2. v * (w * n + c) = w * (v * n + c) + (v - w) * c
    BY <1>1
  <1> QED
    BY <1>2 DEF Share, c

\* As long as the next part earns more in the 0.30 pool than it gives up, the gain grows
\* with the weight; and falls from where it earns less.
LEMMA GainTurns ==
  ASSUME NEW A \in Nat, NEW B \in Nat, NEW n \in Nat \ {0}, NEW d \in Nat \ {0},
         NEW w \in Nat, NEW v \in Nat,
         LET earns == ((B * n) * Unit) * (Unit * d)
             gives == A * (Share(w, n, d) * Share(v, n, d))
         IN  (w <= v /\ gives <= earns) \/ (v <= w /\ earns <= gives)
  PROVE  Gain(w, A, B, n, d) <= Gain(v, A, B, n, d) + 1
  <1> DEFINE x == Share(w, n, d)
             y == Share(v, n, d)
             c == Unit * d
             K == ((Fine * B) * n) * Unit
             R == (B * n) * Unit
             Q == R * c
             AP == A * (x * y)
             a == Fine * B * w * n
             b == Fine * B * v * n
             e == Fine * w * A
             f == Fine * v * A
  <1>1. Unit \in Nat \ {0} /\ Fine \in Nat \ {0}
    BY UnitAssumption, HundredAssumption
  <1>2. x \in Nat \ {0} /\ y \in Nat \ {0} /\ c \in Nat
    BY <1>1, ShareType, ProductNat
  <1>3. /\ w <= v => v * x = w * y + (v - w) * c
        /\ v <= w => w * y = v * x + (w - v) * c
    <2>1. w <= v => v * x = w * y + (v - w) * c
      BY SharesCross
    <2>2. v <= w => w * y = v * x + (w - v) * c
      BY SharesCross
    <2> QED BY <2>1, <2>2
  <1>4. (w <= v /\ AP <= Q) \/ (v <= w /\ Q <= AP)
    OBVIOUS
  <1> HIDE DEF x, y, c
  <1>5. R \in Nat /\ K \in Nat /\ K = Fine * R
    <2>1. B * n \in Nat
      BY ProductNat
    <2>2. R \in Nat
      BY <1>1, <2>1, ProductNat
    <2>3. K = Fine * R
      BY <1>1
    <2> HIDE DEF K, R
    <2> QED BY <1>1, <2>2, <2>3, ProductNat
  <1>6. Q \in Nat /\ AP \in Nat /\ x * y \in Nat
    <2>1. x * y \in Nat
      BY <1>2, ProductNat
    <2> HIDE DEF R
    <2> QED BY <1>2, <1>5, <2>1, ProductNat
  <1>7. a \in Nat /\ b \in Nat /\ e \in Nat /\ f \in Nat
    <2>1. Fine * B \in Nat /\ Fine * w \in Nat /\ Fine * v \in Nat
      BY <1>1, ProductNat
    <2>2. Fine * B * w \in Nat /\ Fine * B * v \in Nat
      BY <2>1, ProductNat
    <2> QED BY <2>1, <2>2, ProductNat
  <1>8. (a * y) * Unit = K * (w * y) /\ (b * x) * Unit = K * (v * x)
    BY <1>1, <1>2
  <1>9. e * (x * y) = (Fine * w) * AP /\ f * (x * y) = (Fine * v) * AP
    BY <1>1, <1>2
  <1>10. \A D \in Nat : K * (D * c) = (Fine * D) * Q
    <2> SUFFICES ASSUME NEW D \in Nat PROVE K * (D * c) = (Fine * D) * Q
      OBVIOUS
    <2> HIDE DEF R, K
    <2>1. (Fine * R) * (D * c) = (Fine * D) * (R * c)
      BY <1>1, <1>2, <1>5
    <2> QED BY <1>5, <2>1
  <1> HIDE DEF K, R, Q, AP, a, b, e, f
  <1> DEFINE wy == w * y
             vx == v * x
  <1>11. wy \in Nat /\ vx \in Nat
    BY <1>2, ProductNat
  <1>12. ASSUME w <= v, AP <= Q PROVE (a * y) * Unit + f * (x * y) <= (b * x) * Unit + e * (x * y)
    <2> DEFINE D == v - w
               FD == Fine * D
               Dc == D * c
               more == K * Dc
    <2>1. D \in Nat /\ vx = wy + Dc /\ v = w + D
      BY <1>3, <1>12
    <2>2. Dc \in Nat /\ FD \in Nat
      BY <1>1, <1>2, <2>1, ProductNat
    <2>3. more = FD * Q
      BY <1>10, <2>1
    <2>4. AP * FD <= Q * FD
      BY <1>6, <1>12, <2>2, ProductGrows
    <2>5. (Fine * v) * AP = (Fine * w) * AP + AP * FD
      <3>1. (Fine * (w + D)) * AP = (Fine * w) * AP + AP * (Fine * D)
        <4> HIDE DEF D
        <4> QED BY <1>1, <1>6, <2>1
      <3> QED BY <2>1, <3>1
    <2>6. K * vx = K * wy + Q * FD
      <3>1. K * (wy + Dc) = K * wy + K * Dc
        <4> HIDE DEF Dc, wy
        <4> QED BY <1>5, <1>11, <2>2
      <3>2. FD * Q = Q * FD
        <4> HIDE DEF FD
        <4> QED BY <1>6, <2>2
      <3> QED BY <2>1, <2>3, <3>1, <3>2
    <2> HIDE DEF D, FD, Dc, more, wy, vx
    <2>7. K * wy \in Nat /\ K * vx \in Nat /\ AP * FD \in Nat /\ Q * FD \in Nat
      BY <1>5, <1>6, <1>11, <2>2, ProductNat
    <2>8. Fine * w \in Nat /\ (Fine * w) * AP \in Nat
      BY <1>1, <1>6, ProductNat
    <2> DEFINE g == (Fine * w) * AP
               h == (Fine * v) * AP
    <2>9. h = g + AP * FD
      BY <2>5
    <2> HIDE DEF g, h
    <2>10. K * wy + h <= K * vx + g
      BY <2>4, <2>6, <2>7, <2>8, <2>9 DEF g
    <2> QED
      BY <1>8, <1>9, <2>10 DEF g, h, wy, vx
  <1>13. ASSUME v <= w, Q <= AP PROVE (a * y) * Unit + f * (x * y) <= (b * x) * Unit + e * (x * y)
    <2> DEFINE D == w - v
               FD == Fine * D
               Dc == D * c
               more == K * Dc
    <2>1. D \in Nat /\ wy = vx + Dc /\ w = v + D
      BY <1>3, <1>13
    <2>2. Dc \in Nat /\ FD \in Nat
      BY <1>1, <1>2, <2>1, ProductNat
    <2>3. more = FD * Q
      BY <1>10, <2>1
    <2>4. Q * FD <= AP * FD
      BY <1>6, <1>13, <2>2, ProductGrows
    <2>5. (Fine * w) * AP = (Fine * v) * AP + AP * FD
      <3>1. (Fine * (v + D)) * AP = (Fine * v) * AP + AP * (Fine * D)
        <4> HIDE DEF D
        <4> QED BY <1>1, <1>6, <2>1
      <3> QED BY <2>1, <3>1
    <2>6. K * wy = K * vx + Q * FD
      <3>1. K * (vx + Dc) = K * vx + K * Dc
        <4> HIDE DEF Dc, vx
        <4> QED BY <1>5, <1>11, <2>2
      <3>2. FD * Q = Q * FD
        <4> HIDE DEF FD
        <4> QED BY <1>6, <2>2
      <3> QED BY <2>1, <2>3, <3>1, <3>2
    <2> HIDE DEF D, FD, Dc, more, wy, vx
    <2>7. K * wy \in Nat /\ K * vx \in Nat /\ AP * FD \in Nat /\ Q * FD \in Nat
      BY <1>5, <1>6, <1>11, <2>2, ProductNat
    <2>8. Fine * v \in Nat /\ (Fine * v) * AP \in Nat
      BY <1>1, <1>6, ProductNat
    <2> DEFINE g == (Fine * w) * AP
               h == (Fine * v) * AP
    <2>9. g = h + AP * FD
      BY <2>5
    <2> HIDE DEF g, h
    <2>10. K * wy + h <= K * vx + g
      BY <2>4, <2>6, <2>7, <2>8, <2>9 DEF h
    <2> QED
      BY <1>8, <1>9, <2>10 DEF g, h, wy, vx
  <1>14. (a * y) * Unit + f * (x * y) <= (b * x) * Unit + e * (x * y)
    BY <1>4, <1>12, <1>13
  <1>15. (a \div x) - (e \div Unit) <= (b \div y) - (f \div Unit) + 1
    BY <1>1, <1>2, <1>7, <1>14, RoundedGap
  <1>16. Gain(w, A, B, n, d) = (a \div x) - (e \div Unit)
    BY DEF Gain, a, x, e, Share
  <1>17. Gain(v, A, B, n, d) = (b \div y) - (f \div Unit)
    BY DEF Gain, b, y, f, Share
  <1> QED
    BY <1>15, <1>16, <1>17

\* A pool no larger than t, weighed by the square of its size.
LEMMA ShareGrows ==
  ASSUME NEW w \in Nat, NEW v \in Nat, NEW n \in Nat, NEW d \in Nat, w <= v
  PROVE  Share(w, n, d) <= Share(v, n, d)
  <1>1. w * n <= v * n
    BY ProductGrows
  <1>2. w * n \in Nat /\ v * n \in Nat /\ Unit * d \in Nat
    BY UnitAssumption, ProductNat
  <1> QED
    BY <1>1, <1>2 DEF Share

LEMMA ProductsGrow ==
  ASSUME NEW a \in Nat, NEW b \in Nat, NEW c \in Nat, NEW d \in Nat, a <= c, b <= d
  PROVE  a * b <= c * d
  <1>1. a * b <= c * b /\ b * c <= d * c
    BY ProductGrows
  <1>2. b * c = c * b /\ d * c = c * d
    OBVIOUS
  <1>3. a * b \in Nat /\ c * b \in Nat /\ c * d \in Nat
    BY ProductNat
  <1> QED BY <1>1, <1>2, <1>3

\* Two pools no larger than r parts in Fine of what the 0.30 pool holds: what a sleeve gives
\* up against what it earns, when r * r is below the ratio of the fees; and no smaller.
LEMMA RootTurns ==
  ASSUME NEW A \in Nat \ {0}, NEW B \in Nat, NEW n \in Nat \ {0}, NEW d \in Nat \ {0},
         NEW x \in Nat, NEW y \in Nat, NEW r \in Nat
  PROVE  LET earns == ((B * n) * Unit) * (Unit * d)
             gives == A * (x * y)
             most  == (r * Unit) * d
             rAd   == (r * r) * (A * d)
             whole == ((B * n) * Fine) * Fine
         IN  /\ Fine * x <= most /\ Fine * y <= most /\ rAd <= whole => gives <= earns
             /\ most <= Fine * x /\ most <= Fine * y /\ whole <= rAd => earns <= gives
  <1> DEFINE S == Unit * Unit
             F2 == Fine * Fine
             most == (r * Unit) * d
             earns == ((B * n) * Unit) * (Unit * d)
             gives == A * (x * y)
             rAd   == (r * r) * (A * d)
             whole == ((B * n) * Fine) * Fine
             Sd    == S * d
  <1>1. Unit \in Nat \ {0} /\ Fine \in Nat \ {0}
    BY UnitAssumption, HundredAssumption
  <1>2. S \in Nat /\ F2 \in Nat \ {0} /\ Sd \in Nat /\ most \in Nat
    <2>1. S \in Nat /\ F2 \in Nat \ {0} /\ r * Unit \in Nat
      BY <1>1, ProductNat
    <2> HIDE DEF S, F2
    <2> QED BY <2>1, ProductNat
  <1>3. rAd \in Nat /\ whole \in Nat /\ gives \in Nat /\ earns \in Nat
    <2>1. /\ r * r \in Nat /\ A * d \in Nat /\ B * n \in Nat /\ x * y \in Nat
          /\ Unit * d \in Nat
      BY <1>1, ProductNat
    <2>2. (B * n) * Fine \in Nat /\ (B * n) * Unit \in Nat
      BY <1>1, <2>1, ProductNat
    <2> QED BY <1>1, <2>1, <2>2, ProductNat
  <1>4. rAd * Sd = A * (most * most)
    BY <1>1
  <1>5. whole * Sd = earns * F2
    BY <1>1
  <1>6. A * ((Fine * x) * (Fine * y)) = gives * F2
    BY <1>1
  <1> DEFINE fx == Fine * x
             fy == Fine * y
  <1>7. fx \in Nat /\ fy \in Nat /\ fx * fy \in Nat /\ most * most \in Nat
    <2>1. fx \in Nat /\ fy \in Nat
      BY <1>1, ProductNat
    <2> HIDE DEF fx, fy, most
    <2> QED BY <1>2, <2>1, ProductNat
  <1>8. A * (fx * fy) = gives * F2
    BY <1>6
  <1> HIDE DEF S, F2, Sd, most, earns, gives, rAd, whole, fx, fy
  <1>9. ASSUME fx <= most, fy <= most, rAd <= whole PROVE gives <= earns
    <2>1. fx * fy <= most * most
      BY <1>2, <1>7, <1>9, ProductsGrow
    <2>2. (fx * fy) * A <= (most * most) * A
      <3> DEFINE fxy == fx * fy
                 mm == most * most
      <3> HIDE DEF fxy, mm
      <3>1. fxy * A <= mm * A
        BY <1>7, <2>1, ProductGrows DEF fxy, mm
      <3> QED BY <3>1 DEF fxy, mm
    <2>3. (fx * fy) * A = A * (fx * fy) /\ (most * most) * A = A * (most * most)
      BY <1>2, <1>7
    <2>4. rAd * Sd <= whole * Sd
      BY <1>2, <1>3, <1>9, ProductGrows
    <2>5. gives * F2 <= earns * F2
      BY <1>4, <1>5, <1>8, <2>2, <2>3, <2>4, <1>2, <1>3, ProductNat
    <2> QED BY <1>2, <1>3, <2>5, Cancels
  <1>10. ASSUME most <= fx, most <= fy, whole <= rAd PROVE earns <= gives
    <2>1. most * most <= fx * fy
      BY <1>2, <1>7, <1>10, ProductsGrow
    <2>2. (most * most) * A <= (fx * fy) * A
      <3> DEFINE fxy == fx * fy
                 mm == most * most
      <3> HIDE DEF fxy, mm
      <3>1. mm * A <= fxy * A
        BY <1>7, <2>1, ProductGrows DEF fxy, mm
      <3> QED BY <3>1 DEF fxy, mm
    <2>3. (fx * fy) * A = A * (fx * fy) /\ (most * most) * A = A * (most * most)
      BY <1>2, <1>7
    <2>4. whole * Sd <= rAd * Sd
      BY <1>2, <1>3, <1>10, ProductGrows
    <2>5. earns * F2 <= gives * F2
      BY <1>4, <1>5, <1>8, <2>2, <2>3, <2>4, <1>2, <1>3, ProductNat
    <2> QED BY <1>2, <1>3, <2>5, Cancels
  <1> QED
    BY <1>9, <1>10 DEF most, earns, gives, rAd, whole, fx, fy

LEMMA GainIsInt ==
  ASSUME NEW A \in Nat, NEW B \in Nat, NEW n \in Nat, NEW d \in Nat \ {0}, NEW w \in Nat
  PROVE  Gain(w, A, B, n, d) \in Int
  <1> DEFINE x == Share(w, n, d)
             a == Fine * B * w * n
             e == Fine * w * A
  <1>1. x \in Nat \ {0} /\ a \in Nat /\ e \in Nat /\ Unit \in Nat \ {0}
    <2>1. Fine * B \in Nat /\ Fine * w \in Nat
      BY HundredAssumption, ProductNat
    <2>2. Fine * B * w \in Nat
      BY <2>1, ProductNat
    <2> QED BY <2>1, <2>2, ShareType, ProductNat, UnitAssumption
  <1>2. Gain(w, A, B, n, d) = (a \div x) - (e \div Unit)
    BY DEF Gain, Share
  <1> HIDE DEF a, e, x
  <1>3. a \div x \in Nat /\ e \div Unit \in Nat
    BY <1>1, DivNat
  <1> QED
    BY <1>2, <1>3

\* No weight gains more than one the closed form rounds to, but for a rounded dollar.
LEMMA StarGains ==
  ASSUME NEW A \in Nat \ {0}, NEW B \in Nat, NEW n \in Nat \ {0}, NEW d \in Nat \ {0},
         NEW w \in 0 .. Unit
  PROVE  LET star == WStar(A, B, n, d)
         IN  \E near \in star .. Least(Unit, star + Short(n, d)) :
                Gain(w, A, B, n, d) <= Gain(near, A, B, n, d) + 1
  <1> DEFINE whole == ((B * n) * Fine) * Fine
             Ad    == A * d
             q     == whole \div Ad
             r     == Isqrt(q)
             nF    == n * Fine
             Ud    == Unit * d
             top   == (Unit * Positive(r - Fine)) * d
             z     == top \div nF
             star  == Least(Unit, z)
             k     == Ud \div nF
             t     == star + Short(n, d)
  <1>1. Unit \in Nat \ {0} /\ Fine \in Nat \ {0} /\ w \in Nat /\ w <= Unit
    BY UnitAssumption, HundredAssumption
  <1>2. whole \in Nat /\ Ad \in Nat \ {0} /\ nF \in Nat \ {0} /\ Ud \in Nat
    <2>1. B * n \in Nat
      BY ProductNat
    <2>2. (B * n) * Fine \in Nat
      BY <1>1, <2>1, ProductNat
    <2> QED BY <1>1, <2>2, ProductNat
  <1>3. WStar(A, B, n, d) = star
    BY DEF WStar
  <1>4. Short(n, d) = 2 + k
    BY DEF Short
  <1>5. q \in Nat /\ q * Ad <= whole /\ whole < q * Ad + Ad
    <2> HIDE DEF whole, Ad
    <2> QED BY <1>2, DivBounds, DivNat
  <1>6. k \in Nat /\ Ud < k * nF + nF
    <2> HIDE DEF Ud, nF
    <2> QED BY <1>2, DivBounds, DivNat
  <1> HIDE DEF q, k
  <1>7. r \in Nat /\ r * r <= q /\ q < (r + 1) * (r + 1)
    BY <1>5, RootBounds
  <1> HIDE DEF r
  <1>8. (r * r) * Ad <= whole /\ whole <= ((r + 1) * (r + 1)) * Ad
    <2> HIDE DEF whole, Ad
    <2>1. r * r \in Nat /\ (r + 1) * (r + 1) \in Nat
      BY <1>7, ProductNat
    <2>2. (r * r) * Ad <= q * Ad
      BY <1>2, <1>5, <1>7, <2>1, ProductGrows
    <2>3. (q + 1) * Ad <= ((r + 1) * (r + 1)) * Ad
      <3>1. q + 1 <= (r + 1) * (r + 1)
        BY <1>5, <1>7, <2>1
      <3> QED BY <1>2, <1>5, <2>1, <3>1, ProductGrows
    <2>4. (q + 1) * Ad = q * Ad + Ad
      BY <1>2, <1>5
    <2>5. /\ q * Ad \in Nat /\ (r * r) * Ad \in Nat
          /\ ((r + 1) * (r + 1)) * Ad \in Nat
      BY <1>2, <1>5, <2>1, ProductNat
    <2> QED BY <1>2, <1>5, <2>2, <2>3, <2>4, <2>5
  <1>9. top \in Nat /\ (r >= Fine => top + Fine * Ud = (r * Unit) * d)
        /\ (r < Fine => top = 0) /\ (r * Unit) * d <= top + Fine * Ud
    <2>1. CASE r >= Fine
      <3>1. Positive(r - Fine) = r - Fine /\ r - Fine \in Nat
        BY <1>1, <1>7, <2>1, Clamps
      <3>2. (Unit * (r - Fine)) * d + Fine * (Unit * d) = (r * Unit) * d
        BY <1>1, <1>7
      <3>3. Unit * (r - Fine) \in Nat
        BY <1>1, <3>1, ProductNat
      <3>4. (Unit * (r - Fine)) * d \in Nat
        BY <3>3, ProductNat
      <3>5. top = (Unit * (r - Fine)) * d
        BY <3>1
      <3> HIDE DEF top
      <3>6. top + Fine * Ud = (r * Unit) * d
        BY <3>2, <3>5
      <3>7. Fine * Ud \in Nat
        BY <1>1, <1>2, ProductNat
      <3> HIDE DEF Ud
      <3> QED BY <1>1, <1>7, <2>1, <3>4, <3>5, <3>6, <3>7
    <2>2. CASE r < Fine
      <3>1. Positive(r - Fine) = 0
        BY <1>1, <1>7, <2>2, Clamps
      <3>2. top = 0
        BY <1>1, <3>1
      <3>3. r * Ud <= Fine * Ud /\ r * Ud = (r * Unit) * d
        BY <1>1, <1>2, <1>7, <2>2, ProductGrows
      <3> HIDE DEF top, Ud
      <3> QED BY <1>1, <1>2, <1>7, <2>2, <3>2, <3>3, ProductNat
    <2> QED BY <1>1, <1>7, <2>1, <2>2
  <1> HIDE DEF top
  <1>10. z \in Nat /\ z * nF <= top /\ top < z * nF + nF
    <2> HIDE DEF nF
    <2> QED BY <1>2, <1>9, DivBounds, DivNat
  <1> HIDE DEF z
  <1>11. star \in Nat /\ star <= Unit /\ star <= z /\ (star < Unit => star = z)
    BY <1>1, <1>10, Clamps DEF Least
  <1> HIDE DEF star
  <1>12. t \in Nat /\ t = star + 2 + k /\ \A near \in Nat :
           star <= near /\ near <= Unit /\ near <= t => near \in star .. Least(Unit, t)
    BY <1>1, <1>4, <1>6, <1>11 DEF Least
  <1>13. \A v \in Nat : Fine * Share(v, n, d) = v * nF + Fine * Ud
    BY <1>1 DEF Share
  <1> HIDE DEF t, whole, Ad
  <1>14. ASSUME w <= star PROVE Gain(w, A, B, n, d) <= Gain(star, A, B, n, d) + 1
    <2>1. CASE r < Fine
      <3>1. z * nF <= 0
        BY <1>9, <1>10, <2>1
      <3>2. ASSUME z # 0 PROVE FALSE
        <4>1. 1 * nF <= z * nF
          BY <1>2, <1>10, <3>2, ProductGrows
        <4>2. z * nF \in Nat /\ 1 * nF = nF
          BY <1>2, <1>10, ProductNat
        <4> HIDE DEF nF
        <4> QED BY <1>2, <3>1, <4>1, <4>2
      <3>3. w = star
        BY <1>1, <1>11, <1>14, <3>2
      <3>4. Gain(w, A, B, n, d) \in Int
        BY <1>1, GainIsInt
      <3> QED BY <3>3, <3>4
    <2>2. CASE r >= Fine
      <3> DEFINE x == Share(w, n, d)
                 y == Share(star, n, d)
      <3>1. x \in Nat /\ y \in Nat /\ x <= y
        BY <1>1, <1>11, <1>14, ShareType, ShareGrows
      <3>2. Fine * y <= (r * Unit) * d
        <4>1. star * nF <= z * nF
          BY <1>2, <1>10, <1>11, ProductGrows
        <4>2. Fine * y = star * nF + Fine * Ud
          BY <1>11, <1>13
        <4>3. top + Fine * Ud = (r * Unit) * d
          BY <1>9, <2>2
        <4>4. star * nF \in Nat /\ z * nF \in Nat /\ Fine * Ud \in Nat
          BY <1>1, <1>2, <1>10, <1>11, ProductNat
        <4> HIDE DEF nF, Ud, y
        <4> QED BY <1>9, <1>10, <4>1, <4>2, <4>3, <4>4
      <3>3. Fine * x <= (r * Unit) * d
        <4> HIDE DEF x, y
        <4>1. x * Fine <= y * Fine
          BY <1>1, <3>1, ProductGrows
        <4>2. Fine * x \in Nat /\ Fine * y \in Nat /\ x * Fine = Fine * x /\ y * Fine = Fine * y
          BY <1>1, <3>1, ProductNat
        <4>3. (r * Unit) * d \in Nat
          <5>1. r * Unit \in Nat
            BY <1>1, <1>7, ProductNat
          <5> QED BY <5>1, ProductNat
        <4> QED BY <3>2, <4>1, <4>2, <4>3
      <3>4. A * (x * y) <= ((B * n) * Unit) * (Unit * d)
        <4> HIDE DEF x, y
        <4> QED BY <1>7, <1>8, <3>1, <3>2, <3>3, RootTurns DEF whole, Ad
      <3> QED BY <1>1, <1>11, <1>14, <3>4, GainTurns
    <2> QED BY <1>1, <1>7, <2>1, <2>2
  <1>15. ASSUME t <= w PROVE t <= Unit /\ Gain(w, A, B, n, d) <= Gain(t, A, B, n, d) + 1
    <2> DEFINE x == Share(w, n, d)
               y == Share(t, n, d)
    <2>1. t <= Unit /\ star = z
      BY <1>1, <1>6, <1>11, <1>12, <1>15
    <2>2. x \in Nat /\ y \in Nat /\ y <= x
      BY <1>1, <1>12, <1>15, ShareType, ShareGrows
    <2>3. ((r + 1) * Unit) * d <= Fine * y
      <3>1. t * nF = z * nF + nF + (k * nF + nF)
        <4>1. t = z + 2 + k
          BY <1>12, <2>1
        <4> HIDE DEF nF
        <4>2. (z + 2 + k) * nF = z * nF + nF + (k * nF + nF)
          BY <1>2, <1>6, <1>10
        <4> QED BY <4>1, <4>2
      <3>2. Fine * y = t * nF + Fine * Ud
        BY <1>12, <1>13
      <3>3. ((r + 1) * Unit) * d = (r * Unit) * d + Ud
        BY <1>1, <1>7
      <3>4. z * nF \in Nat /\ k * nF \in Nat /\ Fine * Ud \in Nat
        BY <1>1, <1>2, <1>6, <1>10, ProductNat
      <3>5. (r * Unit) * d \in Nat
        <4>1. r * Unit \in Nat
          BY <1>1, <1>7, ProductNat
        <4> QED BY <4>1, ProductNat
      <3> DEFINE rUd == (r * Unit) * d
                 zn == z * nF
                 kn == k * nF
                 fu == Fine * Ud
      <3>6. rUd <= top + fu
        BY <1>9
      <3>7. top < zn + nF /\ Ud < kn + nF
        BY <1>6, <1>10
      <3> HIDE DEF nF, Ud, y, rUd, zn, kn, fu
      <3>8. rUd + Ud <= zn + nF + (kn + nF) + fu
        BY <1>2, <1>9, <3>4, <3>5, <3>6, <3>7 DEF rUd, zn, kn, fu
      <3> QED BY <3>1, <3>2, <3>3, <3>8 DEF rUd, zn, kn, fu
    <2>4. ((r + 1) * Unit) * d <= Fine * x
      <3> HIDE DEF x, y
      <3>1. y * Fine <= x * Fine
        BY <1>1, <2>2, ProductGrows
      <3>2. Fine * x \in Nat /\ Fine * y \in Nat /\ x * Fine = Fine * x /\ y * Fine = Fine * y
        BY <1>1, <2>2, ProductNat
      <3>3. ((r + 1) * Unit) * d \in Nat
        <4>1. (r + 1) * Unit \in Nat
          BY <1>1, <1>7, ProductNat
        <4> QED BY <4>1, ProductNat
      <3> QED BY <2>3, <3>1, <3>2, <3>3
    <2>5. ((B * n) * Unit) * (Unit * d) <= A * (x * y)
      <3> HIDE DEF x, y
      <3>1. r + 1 \in Nat
        BY <1>7
      <3> QED BY <1>8, <2>2, <2>3, <2>4, <3>1, RootTurns DEF whole, Ad
    <2>6. Gain(w, A, B, n, d) <= Gain(t, A, B, n, d) + 1
      BY <1>1, <1>12, <1>15, <2>5, GainTurns
    <2> QED BY <2>1, <2>6
  <1>16. \E near \in star .. Least(Unit, t) : Gain(w, A, B, n, d) <= Gain(near, A, B, n, d) + 1
    <2>1. CASE w <= star
      <3>1. star \in star .. Least(Unit, t)
        BY <1>6, <1>11, <1>12
      <3> QED BY <1>14, <2>1, <3>1
    <2>2. CASE t <= w
      <3>1. t \in star .. Least(Unit, t)
        BY <1>6, <1>11, <1>12, <1>15, <2>2
      <3> QED BY <1>15, <2>2, <3>1
    <2>3. CASE star <= w /\ w <= t
      <3>1. w \in star .. Least(Unit, t)
        BY <1>1, <1>12, <2>3
      <3>2. Gain(w, A, B, n, d) \in Int
        BY <1>1, GainIsInt
      <3> QED BY <3>1, <3>2
    <2> QED BY <1>1, <1>11, <1>12, <2>1, <2>2, <2>3
  <1> QED
    BY <1>3, <1>16 DEF t

\* A sleeve that breaks even at less than the fees there are gains; at more, it does not.
LEMMA EvenGains ==
  ASSUME NEW A \in Nat, NEW B \in Nat, NEW n \in Nat \ {0}, NEW d \in Nat \ {0},
         NEW w \in Nat
  PROVE  LET even == BreakEven(w, A, B, n, d)
         IN  /\ even.num < even.den => Gain(w, A, B, n, d) >= 0
             /\ even.num > even.den => Gain(w, A, B, n, d) <= 0
  <1> DEFINE x == Share(w, n, d)
             a == Fine * B * w * n
             e == Fine * w * A
             num == A * x
             den == (B * n) * Unit
             Fw == Fine * w
  <1>1. Unit \in Nat \ {0} /\ Fine \in Nat \ {0} /\ x \in Nat \ {0}
    BY UnitAssumption, HundredAssumption, ShareType
  <1>2. BreakEven(w, A, B, n, d).num = num /\ BreakEven(w, A, B, n, d).den = den
    BY DEF BreakEven, Share
  <1>3. Gain(w, A, B, n, d) = (a \div x) - (e \div Unit)
    BY DEF Gain, Share
  <1> HIDE DEF x
  <1>4. num \in Nat /\ den \in Nat /\ Fw \in Nat /\ a \in Nat /\ e \in Nat
    <2>1. B * n \in Nat /\ Fine * B \in Nat /\ Fw \in Nat
      BY <1>1, ProductNat
    <2>2. Fine * B * w \in Nat
      BY <2>1, ProductNat
    <2> QED BY <1>1, <2>1, <2>2, ProductNat
  <1>5. a * Unit = den * Fw /\ e * x = num * Fw
    BY <1>1
  <1> HIDE DEF num, den, Fw, a, e
  <1>6. a \div x \in Nat /\ e \div Unit \in Nat
    BY <1>1, <1>4, DivNat
  <1>7. ASSUME num < den PROVE e \div Unit <= a \div x
    <2>1. num * Fw <= den * Fw
      BY <1>4, <1>7, ProductGrows
    <2>2. e * x <= a * Unit
      BY <1>5, <2>1
    <2> QED BY <1>1, <1>4, <2>2, DivCross
  <1>8. ASSUME num > den PROVE a \div x <= e \div Unit
    <2>1. den * Fw <= num * Fw
      BY <1>4, <1>8, ProductGrows
    <2>2. a * Unit <= e * x
      BY <1>5, <2>1
    <2> QED BY <1>1, <1>4, <2>2, DivCross
  <1> QED
    BY <1>2, <1>3, <1>6, <1>7, <1>8

\* Counted in hundreds.
LEMMA Hundreds ==
  ASSUME p \in Runs
  PROVE  LET n == p.initial \div Hundred
             d == p.capacity.p30 \div Hundred
         IN  /\ n \in Nat \ {0} /\ d \in Nat \ {0} /\ Hundred \in Nat \ {0}
             /\ p.initial = Hundred * n /\ p.capacity["p30"] = Hundred * d
  <1> DEFINE I == p.initial
             C == p.capacity["p30"]
  <1>1. I \in Nat \ {0} /\ C \in Nat \ {0} /\ Hundred \in Nat \ {0}
    BY RunAssumption, HundredAssumption DEF Pools
  <1>2. I % Hundred = 0 /\ C % Hundred = 0
    BY HundredAssumption
  <1> HIDE DEF I, C
  <1>3. I = Hundred * (I \div Hundred) /\ C = Hundred * (C \div Hundred)
    BY <1>1, <1>2
  <1>4. I \div Hundred \in Nat /\ C \div Hundred \in Nat
    BY <1>1, DivNat
  <1>5. I \div Hundred # 0 /\ C \div Hundred # 0
    <2> DEFINE x == I \div Hundred
               y == C \div Hundred
    <2>1. x \in Nat /\ y \in Nat /\ I = Hundred * x /\ C = Hundred * y
      BY <1>3, <1>4
    <2> HIDE DEF x, y
    <2>2. x # 0 /\ y # 0
      BY <1>1, <2>1
    <2> QED BY <2>2 DEF x, y
  <1> QED
    BY <1>1, <1>3, <1>4, <1>5 DEF I, C

\* A part of the capital in a pool earns at least its part of what all of it would.
LEMMA SleeveKeeps ==
  ASSUME p \in Runs, NEW revenue \in Nat, NEW w \in Nat, w <= Unit
  PROVE  LET all  == Sleeve("p05", revenue, Unit)
             part == Sleeve("p05", revenue, Unit - w)
         IN  /\ all \in Nat /\ part \in Nat
             /\ ((Unit - w) * all) \div Unit <= part
  <1> DEFINE I == p.initial
             C == p.capacity["p05"]
             v == Unit - w
             a == (revenue * Unit) * I
             x == Unit * I + Unit * C
             b == (revenue * v) * I
             y == v * I + Unit * C
             q == a \div x
             R == revenue * I
             vq == v * q
  <1>1. I \in Nat \ {0} /\ C \in Nat \ {0} /\ Unit \in Nat \ {0} /\ v \in Nat /\ v <= Unit
    BY RunAssumption, UnitAssumption DEF Pools
  <1>2. Sleeve("p05", revenue, Unit) = q /\ Sleeve("p05", revenue, v) = b \div y
    BY DEF Sleeve
  <1> HIDE DEF I, C, v
  <1>3. /\ Unit * C \in Nat \ {0} /\ Unit * I \in Nat /\ v * I \in Nat /\ R \in Nat
        /\ v * I <= Unit * I
    BY <1>1, ProductNat, ProductGrows
  <1>4. x \in Nat \ {0} /\ y \in Nat \ {0} /\ y <= x
    BY <1>3
  <1>5. a \in Nat /\ b \in Nat /\ a = R * Unit /\ b = R * v
    <2>1. a = R * Unit /\ b = R * v
      BY <1>1
    <2> HIDE DEF R, a, b
    <2> QED BY <1>1, <1>3, <2>1, ProductNat
  <1> HIDE DEF x, y, a, b, R
  <1>6. q \in Nat /\ q * x <= a
    BY <1>4, <1>5, DivBounds, DivNat
  <1> HIDE DEF q
  <1>7. vq \in Nat
    BY <1>1, <1>6, ProductNat
  <1>8. vq * y <= b * Unit
    <2>1. (q * x) * v <= a * v
      <3>1. q * x \in Nat
        BY <1>4, <1>6, ProductNat
      <3> QED BY <1>1, <1>5, <1>6, <3>1, ProductGrows
    <2>2. (q * x) * v = vq * x
      BY <1>1, <1>4, <1>6
    <2>3. a * v = b * Unit
      BY <1>1, <1>3, <1>5
    <2>4. y * vq <= x * vq
      BY <1>4, <1>7, ProductGrows
    <2>5. y * vq = vq * y /\ x * vq = vq * x /\ vq * y \in Nat /\ vq * x \in Nat
      <3> HIDE DEF vq
      <3> QED BY <1>4, <1>7, ProductNat
    <2>6. b * Unit \in Nat
      BY <1>1, <1>5, ProductNat
    <2> HIDE DEF vq
    <2> QED BY <2>1, <2>2, <2>3, <2>4, <2>5, <2>6
  <1>9. vq \div Unit <= b \div y
    <2> HIDE DEF vq
    <2> QED BY <1>1, <1>4, <1>5, <1>7, <1>8, DivCross
  <1>10. b \div y \in Nat
    BY <1>4, <1>5, DivNat
  <1> QED
    BY <1>2, <1>6, <1>9, <1>10 DEF v

\* A sleeve that breaks even earns in the 0.30 pool what it gives up.
LEMMA SleeveEarns ==
  ASSUME p \in Runs, NEW B \in Nat, NEW g \in Nat, NEW w \in Nat,
         LET even == BreakEven(w, g, B, p.initial \div Hundred, p.capacity.p30 \div Hundred)
         IN  even.num < even.den
  PROVE  Sleeve("p30", B, w) \in Nat /\ (w * g) \div Unit <= Sleeve("p30", B, w)
  <1> DEFINE n == p.initial \div Hundred
             d == p.capacity.p30 \div Hundred
             I == p.initial
             C == p.capacity["p30"]
             x == Share(w, n, d)
             b == (B * w) * I
             y == w * I + Unit * C
             num == g * x
             den == (B * n) * Unit
             wH == w * Hundred
             wg == w * g
  <1>1. /\ n \in Nat \ {0} /\ d \in Nat \ {0} /\ Hundred \in Nat \ {0} /\ Unit \in Nat \ {0}
        /\ I = Hundred * n /\ C = Hundred * d
    BY Hundreds, UnitAssumption
  <1>2. Sleeve("p30", B, w) = b \div y
    BY DEF Sleeve
  <1>3. num < den
    BY DEF BreakEven, Share
  <1> HIDE DEF n, d, I, C
  <1>4. y = Hundred * x
    BY <1>1 DEF Share
  <1>5. x \in Nat \ {0}
    BY <1>1, ShareType
  <1> HIDE DEF x
  <1>6. b = B * w * (Hundred * n)
    BY <1>1
  <1> HIDE DEF y
  <1>7. y \in Nat \ {0} /\ b \in Nat /\ wg \in Nat /\ wH \in Nat /\ num \in Nat /\ den \in Nat
    <2>1. B * w \in Nat /\ Hundred * n \in Nat /\ B * n \in Nat /\ Hundred * x \in Nat \ {0}
      BY <1>1, <1>5, ProductNat
    <2>2. (B * w) * (Hundred * n) \in Nat
      BY <2>1, ProductNat
    <2> HIDE DEF b
    <2> QED BY <1>1, <1>4, <1>5, <1>6, <2>1, <2>2, ProductNat
  <1>8. wg * y = num * wH
    <2>1. (w * g) * (Hundred * x) = (g * x) * (w * Hundred)
      BY <1>1, <1>5
    <2> QED BY <1>4, <2>1
  <1>9. b * Unit = den * wH
    <2>1. (B * w * (Hundred * n)) * Unit = ((B * n) * Unit) * (w * Hundred)
      BY <1>1
    <2> QED BY <1>6, <2>1
  <1> HIDE DEF b, num, den, wH, wg
  <1>10. num * wH <= den * wH
    BY <1>3, <1>7, ProductGrows
  <1>11. wg \div Unit <= b \div y
    BY <1>1, <1>7, <1>8, <1>9, <1>10, DivCross
  <1>12. b \div y \in Nat
    BY <1>7, DivNat
  <1> QED
    BY <1>2, <1>11, <1>12 DEF wg

\* Rounded down, two parts are at most one short of the whole.
LEMMA PartsRounded ==
  ASSUME NEW a \in Nat, NEW b \in Nat, NEW c \in Nat, NEW m \in Nat, NEW u \in Nat \ {0},
         a + b = u * m + c
  PROVE  (a \div u) + (b \div u) >= m + (c \div u) - 1
  <1> DEFINE qa == a \div u
             qb == b \div u
             qc == c \div u
  <1>1. /\ qa \in Nat /\ a < qa * u + u /\ qb \in Nat /\ b < qb * u + u
        /\ qc \in Nat /\ qc * u <= c
    BY DivBounds, DivNat
  <1> HIDE DEF qa, qb, qc
  <1> DEFINE gap == m + qc - qa - qb - 2
  <1>2. gap * u = u * m + qc * u - qa * u - qb * u - u - u
    BY <1>1
  <1>3. u * m \in Nat /\ qc * u \in Nat /\ qa * u \in Nat /\ qb * u \in Nat
    BY <1>1, ProductNat
  <1>4. gap * u < 0
    BY <1>1, <1>2, <1>3
  <1>5. gap \in Int
    BY <1>1
  <1>6. gap < 0
    <2> HIDE DEF gap
    <2> QED BY <1>4, <1>5, CancelsInt
  <1> QED
    BY <1>1, <1>6 DEF qa, qb, qc

\* What a sleeve is asked for, and brings, with what is left of the other pool.
LEMMA SplitKeepsUp ==
  ASSUME p \in Runs, NEW revenue \in Nat, NEW B \in Nat, NEW h \in Nat,
         NEW w \in Nat, w <= Unit
  PROVE  LET A    == Sleeve("p05", revenue, Unit)
             even == BreakEven(w, A + h, B, p.initial \div Hundred, p.capacity.p30 \div Hundred)
             back == RequiredVolume(A, w, h, 0, Sleeve("p30", B, w),
                                    Sleeve("p05", revenue, Unit - w))
         IN  /\ even.num < even.den => Combined(w, revenue, B, h) >= -1
             /\ back.num <= w * (A + h) + Unit
  <1> DEFINE A    == Sleeve("p05", revenue, Unit)
             part == Sleeve("p05", revenue, Unit - w)
             own  == Sleeve("p30", B, w)
             kept == (Unit - w) * A
             wh   == w * h
             wg   == w * (A + h)
             n    == p.initial \div Hundred
             d    == p.capacity.p30 \div Hundred
             even == BreakEven(w, A + h, B, n, d)
  <1>1. A \in Nat /\ part \in Nat /\ kept \div Unit <= part
    BY SleeveKeeps
  <1>2. Unit \in Nat \ {0} /\ Unit - w \in Nat
    BY UnitAssumption
  <1>3. RequiredVolume(A, w, h, 0, own, part).num = Unit * (A + 0 - part) + wh
    BY DEF RequiredVolume
  <1>4. even.num < even.den => own \in Nat /\ wg \div Unit <= own
    <2> HIDE DEF own, A
    <2> SUFFICES ASSUME even.num < even.den PROVE own \in Nat /\ wg \div Unit <= own
      OBVIOUS
    <2>1. A + h \in Nat
      BY <1>1
    <2> QED BY <2>1, SleeveEarns DEF own
  <1>5. Combined(w, revenue, B, h)
          = (part + own) - (Sleeve("p05", revenue, Unit - 0) + Sleeve("p30", B, 0))
              - (wh \div Unit)
    BY DEF Combined, SplitGain, SplitFees
  <1>6. Unit - 0 = Unit
    BY <1>2
  <1>7. Sleeve("p30", B, 0) = 0
    <2> DEFINE y == 0 * p.initial + Unit * p.capacity["p30"]
    <2>1. p.initial \in Nat /\ p.capacity["p30"] \in Nat \ {0}
      BY RunAssumption DEF Pools
    <2>2. y \in Nat \ {0}
      BY <1>2, <2>1
    <2>3. (B * 0) * p.initial = 0
      BY <2>1
    <2>4. Sleeve("p30", B, 0) = 0 \div y
      BY <2>3 DEF Sleeve
    <2> HIDE DEF y
    <2>5. 0 \div y = 0
      BY <2>2
    <2> QED BY <2>4, <2>5
  <1>8. Combined(w, revenue, B, h) = (part + own) - (A + 0) - (wh \div Unit)
    BY <1>5, <1>6, <1>7
  <1> HIDE DEF A, part, own, even, n, d
  <1>9. kept \in Nat /\ wh \in Nat /\ wg \in Nat
    BY <1>1, <1>2, ProductNat
  <1>10. kept + wg = Unit * A + wh
    BY <1>1, <1>2
  <1>11. Unit * A = kept + w * A /\ wg = w * A + wh
    BY <1>1, <1>2
  <1> HIDE DEF kept, wh, wg
  <1>12. (kept \div Unit) + (wg \div Unit) >= A + (wh \div Unit) - 1
    BY <1>1, <1>2, <1>9, <1>10, PartsRounded
  <1>13. kept \div Unit \in Nat /\ wg \div Unit \in Nat /\ wh \div Unit \in Nat
    BY <1>2, <1>9, DivNat
  <1>14. even.num < even.den => Combined(w, revenue, B, h) >= -1
    BY <1>1, <1>4, <1>8, <1>12, <1>13
  <1>15. Unit * (A + 0 - part) + wh <= wg + Unit
    <2> DEFINE k == kept \div Unit
    <2>1. k \in Nat /\ kept < k * Unit + Unit
      BY <1>2, <1>9, DivBounds, DivNat
    <2>2. k <= part
      BY <1>1
    <2> HIDE DEF k
    <2>3. k * Unit <= part * Unit
      BY <1>1, <1>2, <2>1, <2>2, ProductGrows
    <2>4. Unit * (A + 0 - part) = Unit * A - part * Unit
      BY <1>1, <1>2
    <2>5. part * Unit \in Nat /\ Unit * A \in Nat /\ w * A \in Nat /\ k * Unit \in Nat
      BY <1>1, <1>2, <2>1, ProductNat
    <2> QED BY <1>2, <1>9, <1>11, <2>1, <2>3, <2>4, <2>5
  <1> QED
    BY <1>3, <1>14, <1>15 DEF A, part, own, even, n, d, wg

\* The weight of the cap is where the fee allocator stops.
LEMMA CapsAgree ==
  ASSUME p \in Runs
  PROVE  WCap(p.shareCap, p.initial \div Hundred, p.capacity.p30 \div Hundred)
           = Least(Unit, CapWeight(p.initial))
  <1> DEFINE n == p.initial \div Hundred
             d == p.capacity.p30 \div Hundred
             I == p.initial
             C == p.capacity["p30"]
             cap == p.shareCap
             K == BPS - cap
             U == Unit * cap
             a == U * d
             b == n * K
             c == U * C
             e == I * K
  <1>1. /\ n \in Nat \ {0} /\ d \in Nat \ {0} /\ Hundred \in Nat \ {0}
        /\ I = Hundred * n /\ C = Hundred * d
    BY Hundreds
  <1>2. cap \in Nat /\ K \in Nat \ {0} /\ Unit \in Nat
    BY RunAssumption, UnitAssumption
  <1>3. /\ WCap(cap, n, d) = Least(Unit, a \div b)
        /\ CapWeight(p.initial) = c \div e
    BY DEF WCap, CapWeight
  <1> HIDE DEF n, d, I, C, cap, K
  <1>4. U \in Nat
    BY <1>2, ProductNat
  <1> HIDE DEF U
  <1>5. a \in Nat /\ b \in Nat \ {0}
    BY <1>1, <1>2, <1>4, ProductNat
  <1>6. c = Hundred * a /\ e = Hundred * b
    BY <1>1, <1>2, <1>4
  <1> HIDE DEF a, b, c, e
  <1>7. c \in Nat /\ e \in Nat \ {0}
    BY <1>1, <1>5, <1>6, ProductNat
  <1>8. a * e = c * b
    BY <1>1, <1>5, <1>6
  <1>9. a \div b <= c \div e
    <2>1. a * e <= c * b
      BY <1>5, <1>7, <1>8, ProductNat
    <2> QED BY <1>5, <1>7, <2>1, DivCross
  <1>10. c \div e <= a \div b
    <2>1. c * b <= a * e
      BY <1>5, <1>7, <1>8, ProductNat
    <2> QED BY <1>5, <1>7, <2>1, DivCross
  <1>11. a \div b \in Nat /\ c \div e \in Nat
    BY <1>5, <1>7, DivNat
  <1>12. a \div b = c \div e
    BY <1>9, <1>10, <1>11
  <1> QED
    BY <1>3, <1>12 DEF n, d, cap

\* What the books of a tape are paid.
LEMMA BooksPaid ==
  ASSUME Paid(tape)
  PROVE  /\ SumOf([k \in DOMAIN tape |-> tape[k].bookA.fees]) \in Nat
         /\ SumOf([k \in DOMAIN tape |-> tape[k].bookB.fees]) \in Nat
  <1>1. DOMAIN tape = 1 .. Horizon /\ IsFiniteSet(1 .. Horizon)
    BY UnitAssumption, FS_Interval DEF Paid
  <1>2. /\ [k \in DOMAIN tape |-> tape[k].bookA.fees] \in [1 .. Horizon -> Nat]
        /\ [k \in DOMAIN tape |-> tape[k].bookB.fees] \in [1 .. Horizon -> Nat]
    BY <1>1 DEF Paid
  <1>3. \A f \in [1 .. Horizon -> Nat] : SumOf(f) \in Nat
    BY <1>1, SumType DEF SumOf, SumFunction, SumFunctionOnSet, FoldFunction
  <1> QED
    BY <1>2, <1>3

\* The closed forms of the break-even study, for every tape, run, precision and size of Unit:
\* no weight gains more than the closed form's, but for its rounding; a sleeve that breaks even
\* gains, whichever run it is held against; and the caps are one.
THEOREM ClosedFormIsBest == Spec => []StarIsBest
  <1>1. IInv => StarIsBest
    <2> DEFINE n     == p.initial \div Hundred
               d     == p.capacity.p30 \div Hundred
               poolA == SumOf([k \in DOMAIN tape |-> tape[k].bookA.fees])
               feesA == Sleeve("p05", poolA, Unit)
               feesB == SumOf([k \in DOMAIN tape |-> tape[k].bookB.fees])
               gain(w) == Gain(w, feesA, feesB, n, d)
               star  == WStar(feesA, feesB, n, d)
               best  == \A w \in 0 .. Unit : \E near \in star .. Least(Unit, star + Short(n, d)) :
                            gain(w) <= gain(near) + 1
               evens == \A w \in 1 .. Unit :
                            LET even == BreakEven(w, feesA, feesB, n, d)
                            IN  /\ even.num < even.den => gain(w) >= 0
                                /\ even.num > even.den => gain(w) <= 0
               keeps == \A w \in 1 .. Unit, hurdle \in {0, 4} :
                            LET even == BreakEven(w, feesA + hurdle, feesB, n, d)
                                back == RequiredVolume(feesA, w, hurdle, 0,
                                          Sleeve("p30", feesB, w), Sleeve("p05", poolA, Unit - w))
                            IN  /\ even.num < even.den => Combined(w, poolA, feesB, hurdle) >= -1
                                /\ back.num <= w * (feesA + hurdle) + Unit
               caps  == WCap(p.shareCap, n, d) = Least(Unit, CapWeight(p.initial))
    <2> SUFFICES ASSUME IInv, feesA > 0 PROVE best /\ evens /\ keeps /\ caps
      BY DEF StarIsBest
    <2>1. p \in Runs /\ Paid(tape) /\ Unit \in Nat \ {0}
      BY UnitAssumption DEF IInv, Types
    <2>2. poolA \in Nat /\ feesB \in Nat
      BY <2>1, BooksPaid
    <2>3. n \in Nat \ {0} /\ d \in Nat \ {0}
      BY <2>1, Hundreds
    <2>4. feesA \in Nat \ {0}
      <3> HIDE DEF poolA
      <3>1. feesA \in Nat
        BY <2>1, <2>2, SleeveKeeps
      <3> QED BY <3>1
    <2>5. best
      <3> HIDE DEF n, d, feesA, feesB
      <3> QED BY <2>2, <2>3, <2>4, StarGains
    <2>6. evens
      <3> HIDE DEF n, d, feesA, feesB
      <3> QED BY <2>2, <2>3, <2>4, EvenGains
    <2>7. keeps
      <3> SUFFICES ASSUME NEW w \in 1 .. Unit, NEW h \in {0, 4}
                   PROVE  LET even == BreakEven(w, feesA + h, feesB, n, d)
                              back == RequiredVolume(feesA, w, h, 0,
                                        Sleeve("p30", feesB, w), Sleeve("p05", poolA, Unit - w))
                          IN  /\ even.num < even.den => Combined(w, poolA, feesB, h) >= -1
                              /\ back.num <= w * (feesA + h) + Unit
        OBVIOUS
      <3>1. w \in Nat /\ w <= Unit /\ h \in Nat
        BY <2>1
      <3> HIDE DEF poolA, feesB
      <3> QED BY <2>1, <2>2, <3>1, SplitKeepsUp
    <2>8. caps
      BY <2>1, CapsAgree
    <2> QED BY <2>5, <2>6, <2>7, <2>8
  <1> QED
    BY <1>1, Invariance, PTL

-----------------------------------------------------------------------------
(* What the reports read off a path.                                                *)

\* The fields of a point of a path.
LEMMA PointType ==
  ASSUME NEW points \in Seq(PathRow), NEW k \in 1 .. Len(points)
  PROVE  /\ points[k].mode \in {"BOOKS", "ARMS"} /\ points[k].active \in {0, 1}
         /\ points[k].bookA \in Nat /\ points[k].bookB \in Nat /\ BookOf(points[k]) \in Nat
         /\ points[k].nav \in Int /\ points[k].hodl \in Nat
  <1>1. points[k] \in PathRow
    OBVIOUS
  <1>2. /\ points[k].mode \in {"BOOKS", "ARMS"} /\ points[k].active \in {0, 1}
        /\ points[k].bookA \in Nat /\ points[k].bookB \in Nat
        /\ points[k].nav \in Int /\ points[k].hodl \in Nat
    BY <1>1 DEF PathRow
  <1> QED
    BY <1>2 DEF BookOf

\* The hours up to k that have an event of a kind.
Had(events, kind, k) == {j \in 2 .. k : kind \in events[j]}

\* Up to an hour, the events are those up to the hour before and its own.
LEMMA HadOneMore ==
  ASSUME NEW events, NEW kind, NEW k \in Nat \ {0, 1}
  PROVE  /\ Had(events, kind, k) \in SUBSET (1 .. k)
         /\ IsFiniteSet(Had(events, kind, k)) /\ Cardinality(Had(events, kind, k)) \in Nat
         /\ kind \in events[k] => /\ Had(events, kind, k) = Had(events, kind, k - 1) \cup {k}
                                  /\ Cardinality(Had(events, kind, k))
                                       = Cardinality(Had(events, kind, k - 1)) + 1
         /\ kind \notin events[k] => Had(events, kind, k) = Had(events, kind, k - 1)
  <1>1. \A m \in Nat : Had(events, kind, m) \in SUBSET (1 .. m)
    BY DEF Had
  <1>2. \A m \in Nat : IsFiniteSet(Had(events, kind, m)) /\ Cardinality(Had(events, kind, m)) \in Nat
    <2> SUFFICES ASSUME NEW m \in Nat
                 PROVE  IsFiniteSet(Had(events, kind, m)) /\ Cardinality(Had(events, kind, m)) \in Nat
      OBVIOUS
    <2>1. IsFiniteSet(1 .. m)
      BY FS_Interval
    <2> QED
      BY <1>1, <2>1, FS_Subset, FS_CardinalityType
  <1>3. ASSUME kind \in events[k]
        PROVE  /\ Had(events, kind, k) = Had(events, kind, k - 1) \cup {k}
               /\ Cardinality(Had(events, kind, k)) = Cardinality(Had(events, kind, k - 1)) + 1
    <2>1. Had(events, kind, k) = Had(events, kind, k - 1) \cup {k}
      BY <1>3 DEF Had
    <2>2. k \notin Had(events, kind, k - 1)
      BY DEF Had
    <2>3. IsFiniteSet(Had(events, kind, k - 1))
      BY <1>2
    <2>4. Cardinality(Had(events, kind, k - 1) \cup {k}) = Cardinality(Had(events, kind, k - 1)) + 1
      BY <2>2, <2>3, FS_AddElement
    <2> QED BY <2>1, <2>4
  <1>4. kind \notin events[k] => Had(events, kind, k) = Had(events, kind, k - 1)
    BY DEF Had
  <1> QED
    BY <1>1, <1>2, <1>3, <1>4

Funded(pt) == BookOf(pt) > BookCapitalFloor

\* What the events of an hour say of it and the hour before.
LEMMA EventsOfHour ==
  ASSUME NEW points \in Seq(PathRow), NEW k \in 2 .. Len(points)
  PROVE  LET events == BookEvents(points)
             was    == points[k - 1]
             is     == points[k]
         IN  /\ "return" \in events[k] <=> ~Funded(was) /\ Funded(is)
             /\ "recall" \in events[k] <=> Funded(was) /\ ~Funded(is)
             /\ "switch" \in events[k] <=> was.active # is.active
  <1>1. Len(points) \in Nat /\ k \in 1 .. Len(points) /\ k - 1 \in 1 .. Len(points)
    OBVIOUS
  <1>2. BookOf(points[k]) \in Nat /\ BookOf(points[k - 1]) \in Nat /\ BookCapitalFloor \in Nat
    BY <1>1, PointType, RecordAssumption
  <1>3. BookEvents(points)[k]
          = Crossing(points[k - 1], points[k])
              \cup IF points[k - 1].active # points[k].active THEN {"switch"} ELSE {}
    BY DEF BookEvents
  <1>4. /\ ~Funded(points[k - 1]) /\ Funded(points[k])
             => Crossing(points[k - 1], points[k]) = {"return"}
        /\ Funded(points[k - 1]) /\ ~Funded(points[k])
             => Crossing(points[k - 1], points[k]) = {"recall"}
        /\ (Funded(points[k - 1]) <=> Funded(points[k]))
             => Crossing(points[k - 1], points[k]) = {}
    BY <1>2 DEF Crossing, Funded
  <1> QED
    BY <1>3, <1>4

\* Whether a book is funded follows from the first hour and the last crossing.
LEMMA CrossingsTell ==
  ASSUME NEW points \in Seq(PathRow), NEW k \in 1 .. Len(points)
  PROVE  LET events  == BookEvents(points)
             crossed == Had(events, "recall", k) \cup Had(events, "return", k)
         IN  Funded(points[k]) <=> IF crossed = {} THEN Funded(points[1])
                                   ELSE "return" \in events[Max(crossed)]
  <1> DEFINE events == BookEvents(points)
             crossed(n) == Had(events, "recall", n) \cup Had(events, "return", n)
             claim(n) == Funded(points[n]) <=> IF crossed(n) = {} THEN Funded(points[1])
                                               ELSE "return" \in events[Max(crossed(n))]
             T == {n \in 1 .. Len(points) : ~claim(n)}
  <1> SUFFICES ASSUME T # {} PROVE FALSE
    OBVIOUS
  <1>1. T \in SUBSET Nat /\ Len(points) \in Nat
    OBVIOUS
  <1>2. PICK n \in T : \A m \in T : n <= m
    <2> HIDE DEF T
    <2> QED BY <1>1, LeastOfNat
  <1>3. n \in 1 .. Len(points) /\ ~claim(n)
    BY <1>2
  <1>4. crossed(1) = {}
    BY DEF Had
  <1>5. n # 1
    BY <1>3, <1>4
  <1>6. n - 1 \in 1 .. Len(points) /\ n \in 2 .. Len(points) /\ n \in Nat \ {0, 1}
    BY <1>1, <1>3, <1>5
  <1>7. claim(n - 1)
    <2>1. n - 1 \notin T
      BY <1>2, <1>6
    <2> QED BY <1>6, <2>1
  <1>8. /\ "return" \in events[n] <=> ~Funded(points[n - 1]) /\ Funded(points[n])
        /\ "recall" \in events[n] <=> Funded(points[n - 1]) /\ ~Funded(points[n])
    BY <1>6, EventsOfHour
  <1> HIDE DEF events, T
  <1>9. CASE "return" \in events[n] \/ "recall" \in events[n]
    <2>1. crossed(n) \in SUBSET (1 .. n) /\ n \in crossed(n)
      BY <1>6, <1>9, HadOneMore
    <2>2. Max(crossed(n)) \in crossed(n) /\ n <= Max(crossed(n))
      <3> HIDE DEF crossed
      <3>1. n + 1 \in Nat /\ (n + 1) - 1 = n /\ crossed(n) # {}
        BY <1>6, <2>1
      <3>2. crossed(n) \in SUBSET (1 .. ((n + 1) - 1))
        BY <2>1, <3>1
      <3> QED BY <2>1, <3>1, <3>2, LastHour
    <2>3. Max(crossed(n)) = n
      <3> HIDE DEF crossed
      <3>1. Max(crossed(n)) \in 1 .. n
        BY <2>1, <2>2
      <3> QED BY <1>6, <2>2, <3>1
    <2> QED BY <1>3, <1>8, <1>9, <2>1, <2>3
  <1>10. CASE "return" \notin events[n] /\ "recall" \notin events[n]
    <2>1. crossed(n) = crossed(n - 1)
      BY <1>6, <1>10, HadOneMore
    <2> QED BY <1>3, <1>7, <1>8, <1>10, <2>1
  <1> QED BY <1>9, <1>10

\* The active book follows from the first hour and the number of switches.
LEMMA SwitchesTell ==
  ASSUME NEW points \in Seq(PathRow), NEW k \in 1 .. Len(points)
  PROVE  points[k].active = points[1].active
           <=> Cardinality(Had(BookEvents(points), "switch", k)) % 2 = 0
  <1> DEFINE events == BookEvents(points)
             many(n) == Cardinality(Had(events, "switch", n))
             claim(n) == points[n].active = points[1].active <=> many(n) % 2 = 0
             T == {n \in 1 .. Len(points) : ~claim(n)}
  <1> SUFFICES ASSUME T # {} PROVE FALSE
    OBVIOUS
  <1>1. T \in SUBSET Nat /\ Len(points) \in Nat
    OBVIOUS
  <1>2. PICK n \in T : \A m \in T : n <= m
    <2> HIDE DEF T
    <2> QED BY <1>1, LeastOfNat
  <1>3. n \in 1 .. Len(points) /\ ~claim(n)
    BY <1>2
  <1>4. many(1) = 0
    <2>1. Had(events, "switch", 1) = {}
      BY DEF Had
    <2> QED BY <2>1, FS_EmptySet
  <1>5. n # 1
    <2> HIDE DEF many
    <2> QED BY <1>3, <1>4
  <1>6. n - 1 \in 1 .. Len(points) /\ n \in 2 .. Len(points) /\ n \in Nat \ {0, 1}
    BY <1>1, <1>3, <1>5
  <1>7. claim(n - 1)
    <2>1. n - 1 \notin T
      BY <1>2, <1>6
    <2> QED BY <1>6, <2>1
  <1>8. "switch" \in events[n] <=> points[n - 1].active # points[n].active
    BY <1>6, EventsOfHour
  <1>9. /\ points[n].active \in {0, 1} /\ points[n - 1].active \in {0, 1}
        /\ points[1].active \in {0, 1}
    BY <1>6, PointType
  <1>10. many(n) = many(n - 1) + IF "switch" \in events[n] THEN 1 ELSE 0
    <2>1. many(n) \in Nat
      BY <1>6, HadOneMore
    <2> QED BY <1>6, <2>1, HadOneMore
  <1>11. many(n - 1) \in Nat
    <2>1. many(n) \in Nat
      BY <1>6, HadOneMore
    <2>2. CASE "switch" \in events[n]
      <3>1. IsFiniteSet(Had(events, "switch", n)) /\ Had(events, "switch", n - 1) \in SUBSET Had(events, "switch", n)
        BY <1>6, <2>2, HadOneMore
      <3> QED BY <3>1, FS_Subset, FS_CardinalityType
    <2>3. CASE "switch" \notin events[n]
      BY <1>6, <2>1, <2>3, HadOneMore
    <2> QED BY <2>2, <2>3
  <1> HIDE DEF many, events, T
  <1>12. many(n) = many(n - 1) + 1 => (many(n) % 2 = 0 <=> ~(many(n - 1) % 2 = 0))
    BY <1>11
  <1> QED
    BY <1>3, <1>7, <1>8, <1>9, <1>10, <1>11, <1>12

\* A set in two parts.
LEMMA TwoParts ==
  ASSUME NEW S, IsFiniteSet(S), NEW A \in SUBSET S, NEW B \in SUBSET S,
         A \cup B = S, A \cap B = {}
  PROVE  /\ Cardinality(A) \in Nat /\ Cardinality(B) \in Nat /\ Cardinality(S) \in Nat
         /\ Cardinality(A) + Cardinality(B) = Cardinality(S)
  <1>1. IsFiniteSet(A) /\ IsFiniteSet(B)
    BY FS_Subset
  <1>2. Cardinality(A \cup B) = Cardinality(A) + Cardinality(B) - Cardinality(A \cap B)
    BY <1>1, FS_Union
  <1>3. Cardinality(A) \in Nat /\ Cardinality(B) \in Nat /\ Cardinality(S) \in Nat
    BY <1>1, FS_CardinalityType
  <1>4. Cardinality(A \cap B) = 0
    BY FS_EmptySet
  <1>5. Cardinality(S) = Cardinality(A) + Cardinality(B) - 0
    BY <1>2, <1>4
  <1> QED
    BY <1>3, <1>5

\* An hour is in one mode and in one state.
LEMMA HoursParted ==
  ASSUME NEW points \in Seq(PathRow), NEW run
  PROVE  LET arms  == InMode(points, "ARMS")
             books == InMode(points, "BOOKS")
             inState(s) == Cardinality({k \in DOMAIN points : StateOf(points[k]) = s})
             split == TimeSplit(points, run)
         IN  /\ Cardinality(arms) \in Nat /\ Cardinality(books) \in Nat
             /\ Cardinality(arms) + Cardinality(books) = Len(points)
             /\ books = DOMAIN points \ arms /\ IsFiniteSet(books)
             /\ inState("Morpho") = Cardinality(arms)
             /\ inState("0.05 pool") + inState("0.30 pool") = Cardinality(books)
             /\ split.hoursArm = Cardinality(arms)
             /\ split.hours30 + split.hours05 = Cardinality(books)
  <1> DEFINE arms  == InMode(points, "ARMS")
             books == InMode(points, "BOOKS")
             of(s) == {k \in DOMAIN points : StateOf(points[k]) = s}
             all   == DOMAIN points
             in30  == {k \in all \ arms : run[k].weights["p30"] > 0}
  <1>1. all = 1 .. Len(points) /\ Len(points) \in Nat
    OBVIOUS
  <1>2. IsFiniteSet(all) /\ Cardinality(all) = Len(points)
    BY <1>1, FS_Interval
  <1>3. \A k \in all : points[k].mode \in {"BOOKS", "ARMS"} /\ points[k].active \in {0, 1}
    BY PointType
  <1>4. arms \in SUBSET all /\ books \in SUBSET all /\ arms \cup books = all /\ arms \cap books = {}
    BY <1>3 DEF InMode
  <1>5. /\ Cardinality(arms) \in Nat /\ Cardinality(books) \in Nat
        /\ Cardinality(arms) + Cardinality(books) = Len(points)
    <2> HIDE DEF all, arms, books
    <2> QED BY <1>2, <1>4, TwoParts
  <1>6. of("Morpho") = arms
    BY DEF StateOf, InMode
  <1>7. /\ of("0.05 pool") \in SUBSET books /\ of("0.30 pool") \in SUBSET books
        /\ of("0.05 pool") \cup of("0.30 pool") = books
        /\ of("0.05 pool") \cap of("0.30 pool") = {}
    <2>1. \A k \in all : StateOf(points[k]) = "0.05 pool" => k \in books
      BY <1>3 DEF StateOf, InMode
    <2>2. \A k \in all : StateOf(points[k]) = "0.30 pool" => k \in books
      BY <1>3 DEF StateOf, InMode
    <2>3. \A k \in books : k \in all /\ StateOf(points[k]) \in {"0.05 pool", "0.30 pool"}
      BY DEF StateOf, InMode
    <2> HIDE DEF books, all
    <2> QED BY <2>1, <2>2, <2>3 DEF all
  <1>8. IsFiniteSet(books)
    BY <1>2, <1>4, FS_Subset
  <1>9. Cardinality(of("0.05 pool")) + Cardinality(of("0.30 pool")) = Cardinality(books)
    <2> HIDE DEF of, books
    <2> QED BY <1>7, <1>8, TwoParts
  <1>10. books = all \ arms
    BY <1>4
  <1>11. Cardinality(in30) + Cardinality((all \ arms) \ in30) = Cardinality(books)
    <2>1. in30 \in SUBSET books /\ books \ in30 \in SUBSET books
      BY <1>10
    <2> HIDE DEF in30, books
    <2>2. in30 \cup (books \ in30) = books /\ in30 \cap (books \ in30) = {}
      BY <2>1
    <2>3. Cardinality(in30) + Cardinality(books \ in30) = Cardinality(books)
      BY <1>8, <2>1, <2>2, TwoParts
    <2> QED BY <1>10, <2>3
  <1>12. /\ TimeSplit(points, run).hoursArm = Cardinality(arms)
         /\ TimeSplit(points, run).hours30 = Cardinality(in30)
         /\ TimeSplit(points, run).hours05 = Cardinality((all \ arms) \ in30)
    BY DEF TimeSplit
  <1> HIDE DEF arms, books, of, in30
  <1> QED
    BY <1>5, <1>6, <1>8, <1>9, <1>10, <1>11, <1>12 DEF arms, books, of

\* What an entry into book B is: the first hour, a switch or a return.
LEMMA EntriesAreEvents ==
  ASSUME NEW points \in Paths, NEW n \in Nat, n = Len(points)
  PROVE  Entries(points) <= Cardinality(Had(BookEvents(points), "switch", n))
                              + Cardinality(Had(BookEvents(points), "return", n)) + 1
  <1> DEFINE events == BookEvents(points)
             switches == Had(events, "switch", n)
             returns  == Had(events, "return", n)
             enters == {k \in DOMAIN points : InBookB(points[k])
                                                /\ (k = 1 \/ ~InBookB(points[k - 1]))}
  <1>1. points \in Seq(PathRow) /\ DOMAIN points = 1 .. n
    BY PathAssumption
  <1>2. enters \subseteq (switches \cup returns) \cup {1}
    <2> SUFFICES ASSUME NEW k \in enters, k # 1 PROVE k \in switches \cup returns
      OBVIOUS
    <2>1. k \in 2 .. Len(points) /\ k \in 1 .. n /\ k - 1 \in 1 .. n /\ k \in 2 .. n
      BY <1>1
    <2>2. InBookB(points[k]) /\ ~InBookB(points[k - 1])
      OBVIOUS
    <2>3. /\ "return" \in events[k] <=> ~Funded(points[k - 1]) /\ Funded(points[k])
          /\ "switch" \in events[k] <=> points[k - 1].active # points[k].active
      BY <1>1, <2>1, EventsOfHour
    <2>4. /\ points[k - 1].bookB \in Nat /\ points[k].bookB \in Nat
          /\ BookOf(points[k - 1]) \in Nat /\ BookOf(points[k]) \in Nat
      BY <1>1, <2>1, PointType
    <2>5. CASE points[k - 1].active # points[k].active
      BY <2>1, <2>3, <2>5 DEF Had
    <2>6. CASE points[k - 1].active = points[k].active
      <3>1. /\ points[k - 1].active = 1 /\ points[k].active = 1
            /\ points[k - 1].bookB = 0 /\ points[k].bookB > 0
        BY <2>2, <2>4, <2>6 DEF InBookB
      <3>2. BookOf(points[k - 1]) <= BookCapitalFloor /\ BookOf(points[k]) > BookCapitalFloor
        BY <1>1, <2>1, <3>1, RecordAssumption
      <3>3. "return" \in events[k]
        BY <2>3, <2>4, <3>2, RecordAssumption DEF Funded
      <3> QED BY <2>1, <3>3 DEF Had
    <2> QED BY <2>5, <2>6
  <1>3. switches \in SUBSET (1 .. n) /\ returns \in SUBSET (1 .. n) /\ IsFiniteSet(1 .. n)
    <2>1. IsFiniteSet(1 .. n)
      BY FS_Interval
    <2> HIDE DEF events
    <2>2. switches \in SUBSET (1 .. n) /\ returns \in SUBSET (1 .. n)
      BY DEF Had
    <2> QED BY <2>1, <2>2
  <1>4. Entries(points) = Cardinality(enters)
    BY DEF Entries
  <1> HIDE DEF enters, switches, returns
  <1>5. IsFiniteSet(switches) /\ IsFiniteSet(returns)
    BY <1>3, FS_Subset
  <1>6. /\ IsFiniteSet(switches \cup returns)
        /\ Cardinality(switches \cup returns)
             = Cardinality(switches) + Cardinality(returns) - Cardinality(switches \cap returns)
        /\ IsFiniteSet(switches \cap returns)
    BY <1>5, FS_Union, FS_Subset
  <1>7. /\ IsFiniteSet((switches \cup returns) \cup {1})
        /\ Cardinality((switches \cup returns) \cup {1}) <= Cardinality(switches \cup returns) + 1
    <2> DEFINE both == switches \cup returns
    <2>1. IsFiniteSet(both) /\ Cardinality(both) \in Nat
      BY <1>6, FS_CardinalityType
    <2> HIDE DEF both
    <2>2. /\ IsFiniteSet(both \cup {1})
          /\ Cardinality(both \cup {1}) = IF 1 \in both THEN Cardinality(both)
                                                       ELSE Cardinality(both) + 1
      BY <2>1, FS_AddElement
    <2>3. Cardinality(both \cup {1}) <= Cardinality(both) + 1
      BY <2>1, <2>2
    <2> QED BY <2>2, <2>3 DEF both
  <1>8. /\ IsFiniteSet(enters)
        /\ Cardinality(enters) <= Cardinality((switches \cup returns) \cup {1})
    BY <1>2, <1>7, FS_Subset
  <1>9. /\ Cardinality(switches) \in Nat /\ Cardinality(returns) \in Nat
        /\ Cardinality(switches \cap returns) \in Nat /\ Cardinality(enters) \in Nat
        /\ Cardinality((switches \cup returns) \cup {1}) \in Nat
    BY <1>5, <1>6, <1>7, <1>8, FS_CardinalityType
  <1> QED
    BY <1>4, <1>6, <1>7, <1>8, <1>9 DEF switches, returns

\* Two functions that are c together have sums that are c for each element.
LEMMA SumsToWhole ==
  ASSUME NEW S, IsFiniteSet(S), NEW f \in [S -> Nat], NEW h \in [S -> Nat], NEW c \in Nat,
         \A x \in S : f[x] + h[x] = c
  PROVE  SumFunction(f) + SumFunction(h) = c * Cardinality(S)
  <1>1. DOMAIN f = S /\ DOMAIN h = S
    OBVIOUS
  <1>2. PICK g : /\ \A s \in SUBSET S : g[s] = SumAt(f, g, s)
                 /\ SumFunction(f) = g[S]
    BY <1>1, FoldSumsUp
  <1>3. PICK k : /\ \A s \in SUBSET S : k[s] = SumAt(h, k, s)
                 /\ SumFunction(h) = k[S]
    BY <1>1, FoldSumsUp
  <1>4. \A s \in SUBSET S : g[s] \in Nat /\ k[s] \in Nat
    BY <1>2, <1>3, PartialSums
  <1> DEFINE C == {s \in SUBSET S : g[s] + k[s] # c * Cardinality(s)}
  <1> SUFFICES ASSUME C # {} PROVE FALSE
    BY <1>2, <1>3
  <1>5. PICK s \in C : s # {} => s \ {Pick(s)} \notin C
    <2> HIDE DEF C
    <2>1. C \in SUBSET (SUBSET S)
      BY DEF C
    <2> QED BY <2>1, SmallestSubset
  <1>6. s \in SUBSET S /\ g[s] + k[s] # c * Cardinality(s)
    BY <1>5
  <1>7. g[s] = SumAt(f, g, s) /\ k[s] = SumAt(h, k, s)
    BY <1>2, <1>3, <1>6
  <1>8. CASE s = {}
    <2>1. g[s] = 0 /\ k[s] = 0 /\ Cardinality(s) = 0
      BY <1>7, <1>8, FS_EmptySet DEF SumAt
    <2>2. c * Cardinality(s) = 0
      BY <2>1
    <2> QED BY <1>6, <2>1, <2>2
  <1>9. CASE s # {}
    <2> DEFINE x == Pick(s)
               r == s \ {x}
    <2>1. /\ x \in s /\ x \in S /\ r \in SUBSET S
          /\ Cardinality(s) \in Nat /\ Cardinality(r) = Cardinality(s) - 1
          /\ Cardinality(r) \in Nat
      BY <1>6, <1>9, PickLeavesLess
    <2>2. g[r] + k[r] = c * Cardinality(r)
      BY <1>5, <1>9, <2>1
    <2>3. g[s] = f[x] + g[r] /\ k[s] = h[x] + k[r]
      BY <1>7, <1>9 DEF SumAt
    <2>4. f[x] \in Nat /\ h[x] \in Nat /\ f[x] + h[x] = c /\ g[r] \in Nat /\ k[r] \in Nat
      BY <1>4, <2>1
    <2>5. c * Cardinality(s) = c * Cardinality(r) + c
      BY <2>1
    <2> HIDE DEF x, r
    <2> DEFINE y == c * Cardinality(r)
    <2>6. y \in Nat
      BY <2>1, ProductNat
    <2>7. c * Cardinality(s) = y + c /\ g[r] + k[r] = y
      BY <2>2, <2>5
    <2> HIDE DEF y
    <2> QED BY <1>6, <2>3, <2>4, <2>6, <2>7
  <1> QED BY <1>8, <1>9

\* The capital of an hour is in one pool or the other.
LEMMA CapitalAddsUp ==
  ASSUME NEW points \in Seq(PathRow), NEW run,
         \A k \in DOMAIN points : run[k].weights["p30"] \in 0 .. Unit
  PROVE  LET split == TimeSplit(points, run)
         IN  split.capArm + split.cap30 + split.cap05 = Unit * Len(points)
  <1> DEFINE all == DOMAIN points
             arm == InMode(points, "ARMS")
             out == all \ arm
             f == [k \in out |-> run[k].weights["p30"]]
             h == [k \in out |-> Unit - run[k].weights["p30"]]
             split == TimeSplit(points, run)
             nArm == Cardinality(arm)
             nOut == Cardinality(out)
  <1>1. Unit \in Nat
    BY UnitAssumption
  <1>2. /\ split.capArm = Unit * nArm
        /\ split.cap30 = SumOf(f) /\ split.cap05 = SumOf(h)
    BY DEF TimeSplit
  <1>3. SumOf(f) = SumFunction(f) /\ SumOf(h) = SumFunction(h)
    BY DEF SumOf, SumFunction, SumFunctionOnSet, FoldFunction
  <1>4. IsFiniteSet(out) /\ nArm \in Nat /\ nOut \in Nat /\ nArm + nOut = Len(points)
    <2>1. out = InMode(points, "BOOKS")
      BY HoursParted
    <2> QED BY <2>1, HoursParted
  <1>5. /\ f \in [out -> Nat] /\ h \in [out -> Nat]
        /\ \A k \in out : f[k] + h[k] = Unit
    BY <1>1
  <1> HIDE DEF out, arm, f, h, split
  <1>6. SumFunction(f) \in Nat /\ SumFunction(h) \in Nat
    BY <1>4, <1>5, SumType
  <1>7. SumFunction(f) + SumFunction(h) = Unit * nOut
    <2>1. IsFiniteSet(out)
      BY <1>4
    <2>2. SumFunction(f) + SumFunction(h) = Unit * Cardinality(out)
      <3>1. f \in [out -> Nat]
        BY <1>5
      <3>2. h \in [out -> Nat]
        BY <1>5
      <3>3. \A k \in out : f[k] + h[k] = Unit
        BY <1>5
      <3>4. \A c \in Nat : (\A k \in out : f[k] + h[k] = c)
                             => SumFunction(f) + SumFunction(h) = c * Cardinality(out)
        BY <2>1, <3>1, <3>2, SumsToWhole
      <3> HIDE DEF nOut, nArm, all
      <3> QED BY <1>1, <3>3, <3>4
    <2> QED BY <2>2
  <1> HIDE DEF nArm, nOut
  <1>8. Unit * Len(points) = Unit * nArm + Unit * nOut /\ Unit * nArm \in Nat /\ Unit * nOut \in Nat
    <2>1. Unit * (nArm + nOut) = Unit * nArm + Unit * nOut
      BY <1>1, <1>4
    <2> QED BY <1>1, <1>4, <2>1, ProductNat
  <1>9. split.capArm + split.cap30 + split.cap05 = Unit * Len(points)
    BY <1>2, <1>3, <1>6, <1>7, <1>8
  <1> QED BY <1>9 DEF split

-----------------------------------------------------------------------------
(* Folds along a path.                                                              *)

\* The recursion of a fold from the left: what is folded up to the last element, and that.
FoldAt(op, base, g, s) == IF s = {} THEN base ELSE op[<<g[s \ {Max(s)}], Max(s)>>]

\* The last of some of the first n.
LEMMA LastOfSome ==
  ASSUME NEW n \in Nat, NEW s \in SUBSET (1 .. n), s # {}
  PROVE  /\ Max(s) \in s /\ s \ {Max(s)} \in SUBSET (1 .. n)
         /\ Cardinality(s) \in Nat /\ Cardinality(s \ {Max(s)}) \in Nat
         /\ Cardinality(s \ {Max(s)}) = Cardinality(s) - 1
  <1>1. Max(s) \in s
    <2>1. n + 1 \in Nat /\ (n + 1) - 1 = n
      OBVIOUS
    <2> QED BY <2>1, LastHour
  <1>2. IsFiniteSet(1 .. n)
    BY FS_Interval
  <1>3. IsFiniteSet(s)
    BY <1>2, FS_Subset
  <1>4. IsFiniteSet(s \ {Max(s)}) /\ Cardinality(s \ {Max(s)}) = Cardinality(s) - 1
    BY <1>1, <1>3, FS_RemoveElement
  <1>5. Cardinality(s) \in Nat /\ Cardinality(s \ {Max(s)}) \in Nat
    BY <1>3, <1>4, FS_CardinalityType
  <1> QED BY <1>1, <1>4, <1>5

\* A solution of the recursion on the sets of up to m of the first n.
FoldsTo(op, base, n, V, g, m) ==
  /\ g \in [SUBSET (1 .. n) -> V]
  /\ \A s \in SUBSET (1 .. n) : Cardinality(s) <= m => g[s] = FoldAt(op, base, g, s)

\* There is one, however many the sets have.
LEMMA FoldToSize ==
  ASSUME NEW n \in Nat, NEW V, NEW base \in V, NEW op \in [V \X (1 .. n) -> V], NEW m \in Nat
  PROVE  \E g : FoldsTo(op, base, n, V, g, m)
  <1> DEFINE All == SUBSET (1 .. n)
             Folds(g, k) == FoldsTo(op, base, n, V, g, k)
             T == {k \in Nat : ~ \E g : Folds(g, k)}
  <1> SUFFICES ASSUME T # {} PROVE FALSE
    OBVIOUS
  <1>1. PICK k \in T : \A j \in T : k <= j
    <2>1. T \in SUBSET Nat
      OBVIOUS
    <2> HIDE DEF T
    <2> QED BY <2>1, LeastOfNat
  <1>2. \A s \in All : Cardinality(s) \in Nat /\ (Cardinality(s) = 0 <=> s = {})
    <2>1. IsFiniteSet(1 .. n)
      BY FS_Interval
    <2> QED BY <2>1, FS_Subset, FS_CardinalityType, FS_EmptySet
  <1>3. CASE k = 0
    <2> DEFINE g == [s \in All |-> base]
    <2>1. Folds(g, 0)
      BY <1>2 DEF FoldAt, FoldsTo
    <2> QED BY <2>1, <1>3, <1>1
  <1>4. CASE k # 0
    <2>1. k \in Nat /\ k - 1 \in Nat /\ k - 1 \notin T
      <3>1. k \in Nat
        OBVIOUS
      <3> HIDE DEF T
      <3> QED BY <1>1, <1>4, <3>1
    <2>2. PICK g : Folds(g, k - 1)
      BY <2>1
    <2>9. /\ g \in [All -> V]
          /\ \A s \in All : Cardinality(s) <= k - 1 => g[s] = FoldAt(op, base, g, s)
      BY <2>2 DEF FoldsTo
    <2> DEFINE h == [s \in All |-> IF Cardinality(s) <= k - 1 THEN g[s] ELSE FoldAt(op, base, g, s)]
    <2>3. \A s \in All : s # {} => /\ Max(s) \in 1 .. n /\ s \ {Max(s)} \in All
                                 /\ Cardinality(s \ {Max(s)}) = Cardinality(s) - 1
      BY LastOfSome
    <2>4. \A s \in All : FoldAt(op, base, g, s) \in V
      <3> SUFFICES ASSUME NEW s \in All PROVE FoldAt(op, base, g, s) \in V
        OBVIOUS
      <3>1. CASE s = {}
        BY <3>1 DEF FoldAt
      <3>2. CASE s # {}
        <4>1. <<g[s \ {Max(s)}], Max(s)>> \in V \X (1 .. n)
          BY <2>3, <2>9, <3>2
        <4> QED BY <3>2, <4>1 DEF FoldAt
      <3> QED BY <3>1, <3>2
    <2>5. h \in [All -> V]
      BY <2>4, <2>9
    <2>6. ASSUME NEW s \in All, Cardinality(s) <= k
          PROVE  h[s] = FoldAt(op, base, h, s)
      <3>1. h[s] = FoldAt(op, base, g, s)
        BY <2>9
      <3>2. CASE s = {}
        BY <3>1, <3>2 DEF FoldAt
      <3>3. CASE s # {}
        <4>1. s \ {Max(s)} \in All /\ Cardinality(s \ {Max(s)}) <= k - 1
          BY <1>2, <2>1, <2>3, <2>6, <3>3
        <4>2. h[s \ {Max(s)}] = g[s \ {Max(s)}]
          BY <4>1
        <4> HIDE DEF h
        <4> QED BY <3>1, <3>3, <4>2 DEF FoldAt
      <3> QED BY <3>2, <3>3
    <2>7. Folds(h, k)
      <3> HIDE DEF h
      <3> QED BY <2>5, <2>6 DEF FoldsTo
    <2> HIDE DEF h, Folds
    <2> QED BY <2>7, <1>1
  <1> QED BY <1>3, <1>4

\* A solution of the recursion.
FoldsAll(op, base, n, V, g) ==
  /\ g \in [SUBSET (1 .. n) -> V]
  /\ g = [s \in SUBSET (1 .. n) |-> FoldAt(op, base, g, s)]

LEMMA FoldExists ==
  ASSUME NEW n \in Nat, NEW V, NEW base \in V, NEW op \in [V \X (1 .. n) -> V]
  PROVE  \E g : FoldsAll(op, base, n, V, g)
  <1> DEFINE All == SUBSET (1 .. n)
  <1>1. IsFiniteSet(1 .. n) /\ Cardinality(1 .. n) = n
    BY FS_Interval
  <1>2. PICK g : FoldsTo(op, base, n, V, g, n)
    BY FoldToSize
  <1>5. /\ g \in [All -> V]
        /\ \A s \in All : Cardinality(s) <= n => g[s] = FoldAt(op, base, g, s)
    BY <1>2 DEF FoldsTo
  <1>3. \A s \in All : Cardinality(s) <= n
    <2> SUFFICES ASSUME NEW s \in All PROVE Cardinality(s) <= n
      OBVIOUS
    <2>1. Cardinality(s) <= Cardinality(1 .. n)
      BY <1>1, FS_Subset
    <2> QED BY <1>1, <2>1
  <1>4. g = [s \in All |-> FoldAt(op, base, g, s)]
    BY <1>3, <1>5
  <1> QED BY <1>4, <1>5 DEF FoldsAll

\* The first k, and the last of them.
LEMMA FirstOnes ==
  ASSUME NEW k \in Nat \ {0}
  PROVE  Max(1 .. k) = k /\ (1 .. k) \ {Max(1 .. k)} = 1 .. k - 1
  <1>1. Max(1 .. k) \in 1 .. k /\ \A j \in 1 .. k : j <= Max(1 .. k)
    <2>1. k + 1 \in Nat /\ 1 .. k \in SUBSET (1 .. ((k + 1) - 1)) /\ 1 .. k # {}
      OBVIOUS
    <2> QED BY <2>1, LastHour
  <1>2. Max(1 .. k) = k
    <2>1. k \in 1 .. k
      OBVIOUS
    <2>2. k <= Max(1 .. k)
      BY <1>1, <2>1
    <2> QED BY <1>1, <2>2
  <1> QED BY <1>2

-----------------------------------------------------------------------------
(* The segments of a path.                                                           *)

\* A run of hours of one mode.
Segment == [mode : {"BOOKS", "ARMS"}, first : Nat, last : Nat]

\* The segments with one hour more.
SegmentsWith(points, segments, k) ==
  LET mode == points[k].mode
      n    == Len(segments)
  IN  IF n > 0 /\ segments[n].mode = mode THEN [segments EXCEPT ![n].last = k]
      ELSE Append(segments, [mode |-> mode, first |-> k, last |-> k])

LEMMA SegmentsType ==
  ASSUME NEW points \in Seq(PathRow), NEW k \in 1 .. Len(points), NEW segments \in Seq(Segment)
  PROVE  SegmentsWith(points, segments, k) \in Seq(Segment)
  <1> DEFINE n == Len(segments)
             mode == points[k].mode
  <1>1. mode \in {"BOOKS", "ARMS"} /\ k \in Nat /\ n \in Nat
    BY PointType
  <1>2. CASE n > 0 /\ segments[n].mode = mode
    <2>1. n \in 1 .. Len(segments) /\ segments[n] \in Segment
      BY <1>1, <1>2
    <2>2. [segments[n] EXCEPT !.last = k] \in Segment
      BY <1>1, <2>1 DEF Segment
    <2>3. [segments EXCEPT ![n].last = k] = [segments EXCEPT ![n] = [segments[n] EXCEPT !.last = k]]
      OBVIOUS
    <2>4. [segments EXCEPT ![n].last = k] \in Seq(Segment)
      BY <2>1, <2>2, <2>3, ExceptSeq
    <2> QED BY <1>2, <2>4 DEF SegmentsWith
  <1>3. CASE ~(n > 0 /\ segments[n].mode = mode)
    <2>1. [mode |-> mode, first |-> k, last |-> k] \in Segment
      BY <1>1 DEF Segment
    <2>2. Append(segments, [mode |-> mode, first |-> k, last |-> k]) \in Seq(Segment)
      BY <2>1
    <2> QED BY <1>3, <2>2 DEF SegmentsWith
  <1> QED BY <1>2, <1>3

\* The segments of the first hours, hour by hour.
Segmented(points, g) ==
  \A s \in SUBSET (1 .. Len(points)) :
     g[s] = IF s = {} THEN <<>> ELSE SegmentsWith(points, g[s \ {Max(s)}], Max(s))

LEMMA SegmentsFold ==
  ASSUME NEW points \in Seq(PathRow)
  PROVE  \E g : Segmented(points, g) /\ ModeSegments(points) = g[1 .. Len(points)]
  <1> DEFINE n == Len(points)
             at == [i \in DOMAIN points |-> i]
             op == [x \in Seq(Segment) \X (1 .. n) |-> SegmentsWith(points, x[1], x[2])]
             Q(g) == g = [s \in SUBSET DOMAIN at |->
                            IF s = {} THEN <<>>
                            ELSE SegmentsWith(points, g[s \ {Max(s)}], at[Max(s)])]
  <1>1. n \in Nat /\ DOMAIN at = 1 .. n
    OBVIOUS
  <1>2. \A s \in SUBSET (1 .. n) : s # {} => /\ Max(s) \in 1 .. n /\ at[Max(s)] = Max(s)
                                            /\ s \ {Max(s)} \in SUBSET (1 .. n)
    BY <1>1, LastOfSome
  <1>3. PICK g : /\ g \in [SUBSET (1 .. n) -> Seq(Segment)]
                 /\ g = [s \in SUBSET (1 .. n) |-> FoldAt(op, <<>>, g, s)]
    <2>1. op \in [Seq(Segment) \X (1 .. n) -> Seq(Segment)]
      BY SegmentsType
    <2> DEFINE V == Seq(Segment)
               base == <<>>
    <2>2. base \in V /\ op \in [V \X (1 .. n) -> V]
      BY <2>1
    <2> HIDE DEF op, n, V, base
    <2>3. \E g : FoldsAll(op, base, n, V, g)
      BY <1>1, <2>2, FoldExists
    <2> QED BY <2>3 DEF V, base, FoldsAll
  <1>4. Q(g)
    <2>1. \A s \in SUBSET (1 .. n) :
             FoldAt(op, <<>>, g, s) = IF s = {} THEN <<>>
                                     ELSE SegmentsWith(points, g[s \ {Max(s)}], at[Max(s)])
      <3> SUFFICES ASSUME NEW s \in SUBSET (1 .. n)
                   PROVE  FoldAt(op, <<>>, g, s)
                            = IF s = {} THEN <<>>
                              ELSE SegmentsWith(points, g[s \ {Max(s)}], at[Max(s)])
        OBVIOUS
      <3>3. CASE s = {}
        BY <3>3 DEF FoldAt
      <3> SUFFICES ASSUME s # {}
                   PROVE  FoldAt(op, <<>>, g, s)
                            = SegmentsWith(points, g[s \ {Max(s)}], at[Max(s)])
        BY <3>3
      <3>1. g[s \ {Max(s)}] \in Seq(Segment) /\ Max(s) \in 1 .. n /\ at[Max(s)] = Max(s)
        <4> HIDE DEF n, at, op
        <4> QED BY <1>2, <1>3
      <3>2. op[<<g[s \ {Max(s)}], Max(s)>>] = SegmentsWith(points, g[s \ {Max(s)}], Max(s))
        <4> HIDE DEF n
        <4> QED BY <3>1
      <3> QED BY <3>1, <3>2 DEF FoldAt
    <2> HIDE DEF op, at, n
    <2> QED BY <1>1, <1>3, <2>1
  <1>5. ModeSegments(points) = (CHOOSE h : Q(h))[DOMAIN at]
    BY DEF ModeSegments, FoldLeftDomain, FoldLeft, MapThenFoldSet, SegmentsWith
  <1>6. Q(CHOOSE h : Q(h))
    <2> HIDE DEF Q
    <2> QED BY <1>4
  <1> DEFINE r == CHOOSE h : Q(h)
  <1>7. Q(r)
    BY <1>6
  <1> HIDE DEF r
  <1>8. Segmented(points, r)
    <2> SUFFICES ASSUME NEW s \in SUBSET (1 .. n)
                 PROVE  r[s] = IF s = {} THEN <<>> ELSE SegmentsWith(points, r[s \ {Max(s)}], Max(s))
      BY DEF Segmented
    <2> HIDE DEF at, n
    <2> QED BY <1>1, <1>2, <1>7
  <1>9. ModeSegments(points) = r[1 .. n]
    <2>1. ModeSegments(points) = r[DOMAIN at]
      BY <1>5 DEF r
    <2> QED BY <1>1, <2>1
  <1> QED BY <1>8, <1>9

\* The segments of the first k hours tile them.
Tiled(points, segments, k) ==
  /\ segments \in Seq(Segment)
  /\ k > 0 => Len(segments) > 0 /\ segments[Len(segments)].last = k
  /\ \A n \in 1 .. Len(segments) :
        /\ 1 <= segments[n].first /\ segments[n].first <= segments[n].last /\ segments[n].last <= k
        /\ \A j \in segments[n].first .. segments[n].last : points[j].mode = segments[n].mode
  /\ \A n \in 2 .. Len(segments) : /\ segments[n].first = segments[n - 1].last + 1
                                   /\ segments[n].mode # segments[n - 1].mode
  /\ \A n, m \in 1 .. Len(segments) : n < m => segments[n].last < segments[m].first
  /\ \A j \in 1 .. k : \E n \in 1 .. Len(segments) : segments[n].first <= j /\ j <= segments[n].last

LEMMA SegmentFields ==
  ASSUME NEW segments \in Seq(Segment), NEW n \in 1 .. Len(segments)
  PROVE  /\ segments[n].first \in Nat /\ segments[n].last \in Nat
         /\ segments[n].mode \in {"BOOKS", "ARMS"}
  <1>1. segments[n] \in Segment
    OBVIOUS
  <1> QED BY <1>1 DEF Segment

\* One hour more is the last of the last segment, or one of its own.
LEMMA TiledFurther ==
  ASSUME NEW points \in Seq(PathRow), NEW k \in 1 .. Len(points), NEW segments,
         Tiled(points, segments, k - 1)
  PROVE  Tiled(points, SegmentsWith(points, segments, k), k)
  <1> DEFINE n == Len(segments)
             mode == points[k].mode
             t == SegmentsWith(points, segments, k)
  <1>1. segments \in Seq(Segment) /\ n \in Nat /\ k \in Nat /\ k >= 1
    BY DEF Tiled
  <1>2. t \in Seq(Segment)
    BY <1>1, SegmentsType
  <1>3. \A i \in 1 .. n : /\ segments[i].first \in Nat /\ segments[i].last \in Nat
                          /\ segments[i].mode \in {"BOOKS", "ARMS"}
    BY <1>1, SegmentFields
  <1>7. k - 1 > 0 => n > 0 /\ segments[n].last = k - 1
    BY DEF Tiled
  <1>4. /\ k > 1 => n > 0 /\ segments[n].last = k - 1
        /\ \A i \in 1 .. n : 1 <= segments[i].first /\ segments[i].first <= segments[i].last
                               /\ segments[i].last <= k - 1
        /\ \A i \in 1 .. n : \A j \in segments[i].first .. segments[i].last :
              points[j].mode = segments[i].mode
        /\ \A i \in 2 .. n : segments[i].first = segments[i - 1].last + 1
                               /\ segments[i].mode # segments[i - 1].mode
        /\ \A i, m \in 1 .. n : i < m => segments[i].last < segments[m].first
        /\ \A j \in 1 .. k - 1 : \E i \in 1 .. n : segments[i].first <= j /\ j <= segments[i].last
    <2>1. k > 1 => k - 1 > 0
      BY <1>1
    <2> QED BY <1>7, <2>1, Zenon DEF Tiled
  <1>5. CASE n > 0 /\ segments[n].mode = mode
    <2>1. t = [segments EXCEPT ![n].last = k]
      BY <1>5 DEF SegmentsWith
    <2>2. segments[n] \in Segment /\ n \in 1 .. n
      BY <1>1, <1>5
    <2>3. /\ Len(t) = n
          /\ \A i \in 1 .. n : i # n => t[i] = segments[i]
          /\ t[n] = [segments[n] EXCEPT !.last = k]
      BY <1>1, <1>5, <2>1
    <2>4. t[n].last = k /\ t[n].first = segments[n].first /\ t[n].mode = mode
      BY <1>5, <2>2, <2>3 DEF Segment
    <2> HIDE DEF t, n
    <2>5. k > 1
      BY <1>1, <1>4, <1>5, <1>3, <2>2
    <2>6. segments[n].last = k - 1
      BY <1>4, <2>5
    <2>7. \A i \in 1 .. n : /\ 1 <= t[i].first /\ t[i].first <= t[i].last /\ t[i].last <= k
      <3> SUFFICES ASSUME NEW i \in 1 .. n
                   PROVE  1 <= t[i].first /\ t[i].first <= t[i].last /\ t[i].last <= k
        OBVIOUS
      <3>1. CASE i = n
        BY <3>1, <1>1, <1>3, <1>4, <2>4, <2>6
      <3>2. CASE i # n
        BY <3>2, <1>1, <1>3, <1>4, <2>3
      <3> QED BY <3>1, <3>2
    <2>8. \A i \in 1 .. n : \A j \in t[i].first .. t[i].last : points[j].mode = t[i].mode
      <3> SUFFICES ASSUME NEW i \in 1 .. n, NEW j \in t[i].first .. t[i].last
                   PROVE  points[j].mode = t[i].mode
        OBVIOUS
      <3>1. CASE i = n /\ j = k
        BY <3>1, <2>4
      <3>2. CASE i = n /\ j # k
        <4>1. j \in segments[n].first .. segments[n].last
          BY <3>2, <1>1, <1>3, <2>2, <2>4, <2>6
        <4> QED BY <3>2, <4>1, <1>4, <1>5, <2>2, <2>4
      <3>3. CASE i # n
        BY <3>3, <1>4, <2>3
      <3> QED BY <3>1, <3>2, <3>3
    <2>9. \A i \in 2 .. n : t[i].first = t[i - 1].last + 1 /\ t[i].mode # t[i - 1].mode
      <3> SUFFICES ASSUME NEW i \in 2 .. n
                   PROVE  t[i].first = t[i - 1].last + 1 /\ t[i].mode # t[i - 1].mode
        OBVIOUS
      <3>1. i \in 1 .. n /\ i - 1 \in 1 .. n /\ i - 1 # n
        BY <1>1
      <3>2. t[i].first = segments[i].first /\ t[i].mode = segments[i].mode
        BY <3>1, <1>5, <2>3, <2>4
      <3>3. t[i - 1] = segments[i - 1]
        BY <3>1, <2>3
      <3> QED BY <3>2, <3>3, <1>4
    <2>10. \A i, m \in 1 .. n : i < m => t[i].last < t[m].first
      <3> SUFFICES ASSUME NEW i \in 1 .. n, NEW m \in 1 .. n, i < m
                   PROVE  t[i].last < t[m].first
        OBVIOUS
      <3>1. t[m].first = segments[m].first
        BY <2>3, <2>4
      <3>2. t[i] = segments[i]
        BY <1>1, <2>3
      <3> QED BY <3>1, <3>2, <1>4
    <2>11. \A j \in 1 .. k : \E i \in 1 .. n : t[i].first <= j /\ j <= t[i].last
      <3> SUFFICES ASSUME NEW j \in 1 .. k
                   PROVE  \E i \in 1 .. n : t[i].first <= j /\ j <= t[i].last
        OBVIOUS
      <3>1. CASE j = k
        <4>1. n \in 1 .. n /\ segments[n].first <= segments[n].last /\ segments[n].first \in Nat
          BY <2>2, <1>3, <1>4
        <4>2. t[n].first <= k /\ k <= t[n].last
          BY <4>1, <1>1, <2>4, <2>6
        <4> QED BY <3>1, <4>1, <4>2
      <3>2. CASE j # k
        <4>1. j \in 1 .. k - 1
          BY <3>2, <1>1
        <4>2. PICK i \in 1 .. n : segments[i].first <= j /\ j <= segments[i].last
          BY <4>1, <1>4
        <4>3. CASE i = n
          BY <4>2, <4>3, <2>2, <2>4, <1>1
        <4>4. CASE i # n
          BY <4>2, <4>4, <2>3
        <4> QED BY <4>3, <4>4
      <3> QED BY <3>1, <3>2
    <2> QED
      BY <1>2, <1>5, <2>3, <2>4, <2>7, <2>8, <2>9, <2>10, <2>11 DEF Tiled, t
  <1>6. CASE ~(n > 0 /\ segments[n].mode = mode)
    <2> DEFINE e == [mode |-> mode, first |-> k, last |-> k]
    <2>1. t = Append(segments, e)
      BY <1>6 DEF SegmentsWith
    <2>2. /\ Len(t) = n + 1
          /\ \A i \in 1 .. n : t[i] = segments[i]
          /\ t[n + 1] = e
      BY <1>1, <2>1
    <2>3. t[n + 1].last = k /\ t[n + 1].first = k /\ t[n + 1].mode = mode
      BY <2>2
    <2> HIDE DEF t, n, e
    <2>4. n + 1 \in 1 .. n + 1 /\ \A i \in 1 .. n + 1 : i # n + 1 => i \in 1 .. n
      BY <1>1
    <2>7. \A i \in 1 .. n + 1 : 1 <= t[i].first /\ t[i].first <= t[i].last /\ t[i].last <= k
      <3> SUFFICES ASSUME NEW i \in 1 .. n + 1
                   PROVE  1 <= t[i].first /\ t[i].first <= t[i].last /\ t[i].last <= k
        OBVIOUS
      <3>1. CASE i = n + 1
        BY <3>1, <1>1, <2>3
      <3>2. CASE i # n + 1
        BY <3>2, <1>1, <1>3, <1>4, <2>2, <2>4
      <3> QED BY <3>1, <3>2
    <2>8. \A i \in 1 .. n + 1 : \A j \in t[i].first .. t[i].last : points[j].mode = t[i].mode
      <3> SUFFICES ASSUME NEW i \in 1 .. n + 1, NEW j \in t[i].first .. t[i].last
                   PROVE  points[j].mode = t[i].mode
        OBVIOUS
      <3>1. CASE i = n + 1
        <4>1. j = k
          BY <3>1, <2>3, <1>1
        <4> QED BY <3>1, <4>1, <2>3
      <3>2. CASE i # n + 1
        BY <3>2, <1>4, <2>2, <2>4
      <3> QED BY <3>1, <3>2
    <2>9. \A i \in 2 .. n + 1 : t[i].first = t[i - 1].last + 1 /\ t[i].mode # t[i - 1].mode
      <3> SUFFICES ASSUME NEW i \in 2 .. n + 1
                   PROVE  t[i].first = t[i - 1].last + 1 /\ t[i].mode # t[i - 1].mode
        OBVIOUS
      <3>1. i - 1 \in 1 .. n /\ t[i - 1] = segments[i - 1]
        BY <1>1, <2>2
      <3>2. CASE i = n + 1
        <4>1. n > 0 /\ i - 1 = n /\ n \in 1 .. n
          BY <3>1, <3>2, <1>1
        <4>2. k > 1
          BY <4>1, <1>1, <1>3, <1>4
        <4>3. segments[n].last = k - 1 /\ segments[n].mode # mode
          BY <4>1, <4>2, <1>4, <1>6
        <4> QED BY <3>1, <3>2, <4>1, <4>3, <2>3, <1>1
      <3>3. CASE i # n + 1
        <4>1. i \in 1 .. n /\ i \in 2 .. n
          BY <3>3, <1>1
        <4>2. t[i] = segments[i]
          BY <4>1, <2>2
        <4> QED BY <3>1, <4>1, <4>2, <1>4
      <3> QED BY <3>2, <3>3
    <2>10. \A i, m \in 1 .. n + 1 : i < m => t[i].last < t[m].first
      <3> SUFFICES ASSUME NEW i \in 1 .. n + 1, NEW m \in 1 .. n + 1, i < m
                   PROVE  t[i].last < t[m].first
        OBVIOUS
      <3>1. i \in 1 .. n /\ t[i] = segments[i]
        BY <1>1, <2>2
      <3>2. CASE m = n + 1
        BY <3>1, <3>2, <2>3, <1>1, <1>3, <1>4
      <3>3. CASE m # n + 1
        BY <3>1, <3>3, <2>2, <2>4, <1>4
      <3> QED BY <3>2, <3>3
    <2>11. \A j \in 1 .. k : \E i \in 1 .. n + 1 : t[i].first <= j /\ j <= t[i].last
      <3> SUFFICES ASSUME NEW j \in 1 .. k
                   PROVE  \E i \in 1 .. n + 1 : t[i].first <= j /\ j <= t[i].last
        OBVIOUS
      <3>1. CASE j = k
        BY <3>1, <1>1, <2>3, <2>4
      <3>2. CASE j # k
        <4>1. j \in 1 .. k - 1
          BY <3>2, <1>1
        <4>2. PICK i \in 1 .. n : segments[i].first <= j /\ j <= segments[i].last
          BY <4>1, <1>4
        <4>3. i \in 1 .. n + 1 /\ t[i] = segments[i]
          BY <1>1, <2>2
        <4> QED BY <4>2, <4>3
      <3> QED BY <3>1, <3>2
    <2>12. Len(t) > 0 /\ t[Len(t)].last = k
      BY <1>1, <2>2, <2>3
    <2> QED
      BY <1>2, <2>2, <2>7, <2>8, <2>9, <2>10, <2>11, <2>12 DEF Tiled, t
  <1> QED BY <1>5, <1>6

\* The mode segments of a path tile it.
LEMMA SegmentsTile ==
  ASSUME NEW points \in Seq(PathRow)
  PROVE  Tiled(points, ModeSegments(points), Len(points))
  <1>1. Len(points) \in Nat
    OBVIOUS
  <1>2. PICK g : Segmented(points, g) /\ ModeSegments(points) = g[1 .. Len(points)]
    BY SegmentsFold
  <1> DEFINE T == {k \in 0 .. Len(points) : ~Tiled(points, g[1 .. k], k)}
  <1> SUFFICES ASSUME T # {} PROVE FALSE
    BY <1>1, <1>2
  <1>3. PICK k \in T : \A j \in T : k <= j
    <2>1. T \in SUBSET Nat
      OBVIOUS
    <2> HIDE DEF T
    <2> QED BY <2>1, LeastOfNat
  <1>4. k \in 0 .. Len(points) /\ ~Tiled(points, g[1 .. k], k)
    OBVIOUS
  <1>5. CASE k = 0
    <2>1. 1 .. k = {} /\ {} \in SUBSET (1 .. Len(points))
      BY <1>5
    <2>2. g[1 .. k] = <<>>
      BY <1>2, <2>1 DEF Segmented
    <2>3. /\ <<>> \in Seq(Segment) /\ Len(<<>>) = 0 /\ 1 .. 0 = {} /\ 2 .. 0 = {}
      OBVIOUS
    <2>4. Tiled(points, <<>>, 0)
      <3> DEFINE none == <<>>
      <3>1. none \in Seq(Segment) /\ Len(none) = 0 /\ 1 .. 0 = {} /\ 2 .. 0 = {} /\ ~(0 > 0)
        BY <2>3
      <3> HIDE DEF none
      <3>2. Tiled(points, none, 0)
        BY <3>1 DEF Tiled
      <3> QED BY <3>2 DEF none
    <2> QED BY <1>4, <1>5, <2>2, <2>4
  <1>6. CASE k # 0
    <2>1. k \in Nat \ {0} /\ k \in 1 .. Len(points) /\ k - 1 \in 0 .. Len(points)
      BY <1>1, <1>4, <1>6
    <2>2. Tiled(points, g[1 .. k - 1], k - 1)
      <3>1. k - 1 \notin T
        <4> HIDE DEF T
        <4> QED BY <1>3, <2>1
      <3> QED BY <2>1, <3>1
    <2>3. 1 .. k \in SUBSET (1 .. Len(points)) /\ 1 .. k # {}
      <3>1. k \in 1 .. k /\ \A j \in 1 .. k : j \in 1 .. Len(points)
        BY <1>1, <2>1
      <3> QED BY <3>1
    <2>4. Max(1 .. k) = k /\ (1 .. k) \ {Max(1 .. k)} = 1 .. k - 1
      BY <2>1, FirstOnes
    <2>5. g[1 .. k] = SegmentsWith(points, g[1 .. k - 1], k)
      BY <1>2, <2>3, <2>4 DEF Segmented
    <2> QED BY <1>4, <2>1, <2>2, <2>5, TiledFurther
  <1> QED BY <1>5, <1>6

\* No segment is shorter than the hours between changes of state.
LEMMA ChangesOfMode ==
  ASSUME NEW points \in Seq(PathRow)
  PROVE  Cardinality(Changes(points)) >= Len(ModeSegments(points))
  <1> DEFINE segments == ModeSegments(points)
             n == Len(segments)
             f == [i \in 1 .. n |-> segments[i].first]
             C == Changes(points)
  <1>1. Tiled(points, segments, Len(points))
    BY SegmentsTile
  <1>2. DOMAIN points = 1 .. Len(points) /\ Len(points) \in Nat
    OBVIOUS
  <1>3. C \in SUBSET (1 .. Len(points))
    BY DEF Changes
  <1> HIDE DEF segments
  <1>4. segments \in Seq(Segment) /\ n \in Nat
    BY <1>1 DEF Tiled
  <1>5. \A i \in 1 .. n : /\ segments[i].first \in Nat /\ segments[i].last \in Nat
                          /\ segments[i].mode \in {"BOOKS", "ARMS"}
                          /\ 1 <= segments[i].first /\ segments[i].first <= segments[i].last
                          /\ segments[i].last <= Len(points)
    BY <1>1, <1>4, SegmentFields DEF Tiled
  <1>6. \A i \in 1 .. n : points[segments[i].first].mode = segments[i].mode
                            /\ points[segments[i].last].mode = segments[i].mode
    <2> SUFFICES ASSUME NEW i \in 1 .. n
                 PROVE  points[segments[i].first].mode = segments[i].mode
                          /\ points[segments[i].last].mode = segments[i].mode
      OBVIOUS
    <2>1. /\ segments[i].first \in segments[i].first .. segments[i].last
          /\ segments[i].last \in segments[i].first .. segments[i].last
      BY <1>5
    <2> QED BY <1>1, <2>1 DEF Tiled
  <1>7. ASSUME NEW i \in 1 .. n
        PROVE  segments[i].first \in C
    <2>1. segments[i].first \in DOMAIN points
      BY <1>2, <1>5
    <2>2. CASE i = 1
      <3>1. PICK j \in 1 .. n : segments[j].first <= 1
        <4>1. 1 \in 1 .. Len(points)
          BY <1>2, <1>5
        <4> QED BY <1>1, <4>1 DEF Tiled
      <3>2. j = 1
        <4>1. 1 < j => segments[1].last < segments[j].first
          BY <1>1, <2>2 DEF Tiled
        <4> QED BY <3>1, <4>1, <1>4, <1>5, <2>2
      <3>3. segments[i].first = 1
        BY <1>5, <2>2, <3>1, <3>2
      <3> QED BY <2>1, <3>3 DEF Changes
    <2>3. CASE i # 1
      <3>1. i - 1 \in 1 .. n /\ i \in 2 .. n
        BY <1>4, <2>3
      <3>2. segments[i].first = segments[i - 1].last + 1 /\ segments[i].mode # segments[i - 1].mode
        BY <1>1, <3>1 DEF Tiled
      <3>3. segments[i].first - 1 = segments[i - 1].last
        BY <3>1, <3>2, <1>5
      <3>4. points[segments[i].first].mode # points[segments[i].first - 1].mode
        BY <1>6, <3>1, <3>2, <3>3
      <3>5. /\ points[segments[i].first].mode \in {"BOOKS", "ARMS"}
            /\ points[segments[i].first - 1].mode \in {"BOOKS", "ARMS"}
        BY <1>6, <1>5, <3>1, <3>3
      <3>6. StateOf(points[segments[i].first]) # StateOf(points[segments[i].first - 1])
        BY <3>4, <3>5 DEF StateOf
      <3> QED BY <2>1, <3>6 DEF Changes
    <2> QED BY <2>2, <2>3
  <1>8. \A i, j \in 1 .. n : i # j => segments[i].first # segments[j].first
    <2> SUFFICES ASSUME NEW i \in 1 .. n, NEW j \in 1 .. n, i < j
                 PROVE  segments[i].first # segments[j].first
      BY <1>4
    <2>1. segments[i].last < segments[j].first
      BY <1>1 DEF Tiled
    <2> QED BY <1>5, <2>1
  <1> HIDE DEF n, C
  <1>9. f \in Injection(1 .. n, C)
    <2>1. f \in [1 .. n -> C]
      BY <1>7
    <2>2. \A i, j \in 1 .. n : f[i] = f[j] => i = j
      BY <1>8
    <2> HIDE DEF f
    <2> QED BY <2>1, <2>2 DEF Injection, IsInjective
  <1>10. IsFiniteSet(C) /\ IsFiniteSet(1 .. n) /\ Cardinality(1 .. n) = n
    <2>1. IsFiniteSet(1 .. Len(points))
      BY <1>2, FS_Interval
    <2>2. IsFiniteSet(C)
      BY <1>3, <2>1, FS_Subset
    <2>3. IsFiniteSet(1 .. n) /\ Cardinality(1 .. n) = n
      <3>1. 1 \in Int /\ n \in Int /\ (IF 1 > n THEN 0 ELSE n - 1 + 1) = n
        BY <1>4
      <3> QED BY <1>4, <3>1, FS_Interval
    <2> QED BY <2>2, <2>3
  <1>11. Cardinality(1 .. n) <= Cardinality(C)
    <2> HIDE DEF f
    <2> QED BY <1>9, <1>10, FS_Injection
  <1>12. Cardinality(C) \in Nat
    BY <1>10, FS_CardinalityType
  <1>13. n <= Cardinality(C)
    BY <1>10, <1>11
  <1> QED BY <1>4, <1>12, <1>13 DEF n, C, segments

\* The hours of some segments.
HoursOf(segments, s) == UNION {segments[i].first .. segments[i].last : i \in s}

\* The strip shows as many hours of a mode as the path has.
LEMMA StripCounts ==
  ASSUME NEW points \in Seq(PathRow), NEW mode
  PROVE  StripHours(points, mode) = Cardinality(InMode(points, mode))
  <1> DEFINE segments == ModeSegments(points)
             n == Len(segments)
             D == {m \in DOMAIN segments : segments[m].mode = mode}
             f == [i \in D |-> segments[i].last - segments[i].first + 1]
             hours(s) == HoursOf(segments, s)
             all == 1 .. Len(points)
  <1>1. Tiled(points, segments, Len(points))
    BY SegmentsTile
  <1>2. DOMAIN points = all /\ Len(points) \in Nat /\ IsFiniteSet(all)
    BY FS_Interval
  <1>3. StripHours(points, mode) = SumFunction(f)
    BY DEF StripHours, SumOf, SumFunction, SumFunctionOnSet, FoldFunction
  <1> HIDE DEF segments
  <1>4. segments \in Seq(Segment) /\ n \in Nat /\ DOMAIN segments = 1 .. n
    BY <1>1 DEF Tiled
  <1>5. \A i \in 1 .. n : /\ segments[i].first \in Nat /\ segments[i].last \in Nat
                          /\ 1 <= segments[i].first /\ segments[i].first <= segments[i].last
                          /\ segments[i].last <= Len(points)
    BY <1>1, <1>4, SegmentFields DEF Tiled
  <1>6. D \in SUBSET (1 .. n)
    BY <1>4
  <1>7. IsFiniteSet(D)
    <2>1. IsFiniteSet(1 .. n)
      BY <1>4, FS_Interval
    <2> QED BY <1>6, <2>1, FS_Subset
  <1>8. f \in [D -> Nat] /\ DOMAIN f = D
    BY <1>5, <1>6
  <1>9. PICK g : /\ \A s \in SUBSET D : g[s] = SumAt(f, g, s)
                 /\ SumFunction(f) = g[D]
    <2> HIDE DEF f, D
    <2> QED BY <1>7, <1>8, FoldSumsUp
  <1>10. \A s \in SUBSET D : hours(s) \in SUBSET all
    <2> SUFFICES ASSUME NEW s \in SUBSET D, NEW j \in hours(s) PROVE j \in all
      OBVIOUS
    <2>1. PICK i \in s : j \in segments[i].first .. segments[i].last
      BY DEF HoursOf
    <2>2. i \in 1 .. n
      BY <1>6
    <2> QED BY <1>2, <1>5, <2>1, <2>2
  <1> DEFINE C == {s \in SUBSET D : g[s] # Cardinality(hours(s))}
  <1>11. C = {}
    <2> SUFFICES ASSUME C # {} PROVE FALSE
      OBVIOUS
    <2>1. PICK s \in C : s # {} => s \ {Pick(s)} \notin C
      <3>1. C \in SUBSET (SUBSET D)
        OBVIOUS
      <3> HIDE DEF C, D
      <3> QED BY <1>7, <3>1, SmallestSubset
    <2>2. s \in SUBSET D /\ g[s] # Cardinality(hours(s))
      OBVIOUS
    <2>3. g[s] = SumAt(f, g, s)
      BY <1>9
    <2>4. CASE s = {}
      <3>1. hours(s) = {}
        BY <2>4 DEF HoursOf
      <3>2. g[s] = 0
        BY <2>3, <2>4 DEF SumAt
      <3> QED BY <2>2, <3>1, <3>2, FS_EmptySet
    <2>5. CASE s # {}
      <3> DEFINE x == Pick(s)
                 r == s \ {x}
                 I == segments[x].first .. segments[x].last
      <3>1. x \in s /\ r \in SUBSET D /\ x \in D
        BY <2>2, <2>5, PickIsMember
      <3>2. g[r] = Cardinality(hours(r))
        BY <2>1, <2>5, <3>1
      <3>3. g[s] = f[x] + g[r]
        BY <2>3, <2>5 DEF SumAt
      <3> HIDE DEF C
      <3>4. x \in 1 .. n
        BY <1>6, <3>1
      <3>5. f[x] = segments[x].last - segments[x].first + 1
        BY <3>1
      <3>6. Cardinality(I) = f[x]
        <4> DEFINE a == segments[x].first
                   b == segments[x].last
        <4>1. a \in Int /\ b \in Int /\ a <= b
          BY <1>5, <3>4
        <4> HIDE DEF a, b
        <4>2. Cardinality(a .. b) = IF a > b THEN 0 ELSE b - a + 1
          BY <4>1, FS_Interval
        <4>3. Cardinality(a .. b) = b - a + 1
          BY <4>1, <4>2
        <4> QED BY <3>5, <4>3 DEF a, b
      <3> HIDE DEF x
      <3>7. hours(s) = I \cup hours(r)
        BY <3>1 DEF HoursOf
      <3>8. I \cap hours(r) = {}
        <4> SUFFICES ASSUME NEW j \in I, j \in hours(r) PROVE FALSE
          OBVIOUS
        <4>1. PICK i \in r : j \in segments[i].first .. segments[i].last
          BY DEF HoursOf
        <4>2. i \in 1 .. n /\ i # x
          BY <1>6, <3>1
        <4>3. /\ i < x => segments[i].last < segments[x].first
              /\ x < i => segments[x].last < segments[i].first
          BY <1>1, <3>4, <4>2 DEF Tiled
        <4> QED BY <1>4, <1>5, <3>4, <4>1, <4>2, <4>3
      <3>9. hours(s) \in SUBSET all /\ IsFiniteSet(hours(s))
        <4>1. hours(s) \in SUBSET all
          BY <1>10, <2>2
        <4> HIDE DEF all
        <4> QED BY <1>2, <4>1, FS_Subset
      <3>10. /\ Cardinality(I) \in Nat /\ Cardinality(hours(r)) \in Nat
             /\ Cardinality(I) + Cardinality(hours(r)) = Cardinality(hours(s))
        <4>1. I \in SUBSET hours(s) /\ hours(r) \in SUBSET hours(s)
          BY <3>7
        <4> HIDE DEF I, hours
        <4> QED BY <3>7, <3>8, <3>9, <4>1, TwoParts
      <3> HIDE DEF I, hours, r, f
      <3> QED BY <2>2, <3>2, <3>3, <3>6, <3>10
    <2> QED BY <2>4, <2>5
  <1>12. g[D] = Cardinality(hours(D))
    BY <1>11
  <1>13. hours(D) = InMode(points, mode)
    <2>1. ASSUME NEW j \in hours(D) PROVE j \in InMode(points, mode)
      <3>1. PICK i \in D : j \in segments[i].first .. segments[i].last
        BY DEF HoursOf
      <3>2. i \in 1 .. n /\ segments[i].mode = mode /\ j \in all
        BY <1>6, <1>10
      <3>3. points[j].mode = segments[i].mode
        BY <1>1, <3>1, <3>2 DEF Tiled
      <3> QED BY <1>2, <3>2, <3>3 DEF InMode
    <2>2. ASSUME NEW j \in InMode(points, mode) PROVE j \in hours(D)
      <3>1. j \in 1 .. Len(points) /\ points[j].mode = mode
        BY <1>2 DEF InMode
      <3>2. PICK i \in 1 .. n : segments[i].first <= j /\ j <= segments[i].last
        BY <1>1, <3>1 DEF Tiled
      <3>3. j \in segments[i].first .. segments[i].last
        BY <1>5, <3>1, <3>2
      <3>4. segments[i].mode = mode
        BY <1>1, <3>1, <3>3 DEF Tiled
      <3>5. i \in D
        BY <1>4, <3>4
      <3> QED BY <3>3, <3>5 DEF HoursOf
    <2> QED BY <2>1, <2>2
  <1> QED BY <1>3, <1>9, <1>12, <1>13

-----------------------------------------------------------------------------
(* The drawdown of a path.                                                           *)

\* What a report makes a drawdown of: a value for every hour, none of them nothing.
Valued(values) == values \in Seq(Nat \ {0}) /\ Len(values) > 0

\* The drops so far, and the highest value they are from.
Curve == [peak : Nat \ {0}, drops : Seq(Int)]

\* The loss, in bps, of hour j against hour i.
Drop(values, j, i) == (values[j] * BPS) \div values[i] - BPS

CurveWith(values, curve, k) ==
  LET v    == values[k]
      peak == IF curve.peak > v THEN curve.peak ELSE v
  IN  [peak |-> peak, drops |-> Append(curve.drops, (v * BPS) \div peak - BPS)]

LEMMA ValueType ==
  ASSUME NEW values, Valued(values), NEW k \in 1 .. Len(values)
  PROVE  values[k] \in Nat \ {0} /\ k \in Nat \ {0} /\ Len(values) \in Nat
  BY DEF Valued

\* A drop is more than all there is; an hour has none against itself; and it is the deeper
\* the higher the value it is from.
LEMMA DropOrder ==
  ASSUME NEW values, Valued(values), NEW j \in 1 .. Len(values), NEW i \in 1 .. Len(values)
  PROVE  /\ Drop(values, j, i) \in Int /\ -BPS <= Drop(values, j, i)
         /\ Drop(values, j, j) = 0
         /\ \A l \in 1 .. Len(values) :
               values[l] <= values[i] => Drop(values, j, i) <= Drop(values, j, l)
  <1> DEFINE m == values[j] * BPS
             a == values[i]
  <1>1. /\ values[j] \in Nat \ {0} /\ a \in Nat \ {0} /\ BPS \in Nat \ {0}
    BY ValueType, UnitAssumption
  <1>2. m \in Nat
    BY <1>1, ProductNat
  <1>3. (values[j] * BPS) \div values[j] = BPS
    BY <1>1, DivExact
  <1>4. ASSUME NEW l \in 1 .. Len(values), values[l] <= a
        PROVE  m \div a <= m \div values[l]
    <2> DEFINE c == values[l]
    <2>1. c \in Nat \ {0} /\ c <= a
      BY <1>4, ValueType
    <2> HIDE DEF m, a, c
    <2>2. m * c <= m * a
      <3>1. c * m <= a * m
        BY <1>1, <1>2, <2>1, ProductGrows
      <3>2. c * m = m * c /\ a * m = m * a
        BY <1>1, <1>2, <2>1
      <3> QED BY <3>1, <3>2
    <2>3. m \div a <= m \div c
      BY <1>1, <1>2, <2>1, <2>2, DivCross
    <2> QED BY <2>3 DEF c
  <1>5. m \div a \in Nat
    <2> HIDE DEF m, a
    <2> QED BY <1>1, <1>2, DivNat
  <1>6. \A l \in 1 .. Len(values) : m \div values[l] \in Nat
    <2> HIDE DEF m
    <2> QED BY <1>2, ValueType, DivNat
  <1>7. Drop(values, j, i) = m \div a - BPS /\ Drop(values, j, j) = BPS - BPS
    BY <1>3 DEF Drop
  <1>8. \A l \in 1 .. Len(values) : Drop(values, j, l) = m \div values[l] - BPS
    BY DEF Drop
  <1> HIDE DEF m, a
  <1>9. \A l \in 1 .. Len(values) : values[l] <= values[i] => m \div a <= m \div values[l]
    BY <1>4 DEF a
  <1> QED BY <1>1, <1>5, <1>6, <1>7, <1>8, <1>9

LEMMA CurveType ==
  ASSUME NEW values, Valued(values), NEW k \in 1 .. Len(values), NEW curve \in Curve
  PROVE  CurveWith(values, curve, k) \in Curve
  <1> DEFINE v    == values[k]
             peak == IF curve.peak > v THEN curve.peak ELSE v
             drop == (v * BPS) \div peak - BPS
  <1>1. v \in Nat \ {0} /\ curve.peak \in Nat \ {0} /\ curve.drops \in Seq(Int) /\ BPS \in Nat \ {0}
    BY ValueType, UnitAssumption DEF Curve
  <1>2. peak \in Nat \ {0}
    BY <1>1
  <1>3. drop \in Int
    <2>1. v * BPS \in Nat
      BY <1>1, ProductNat
    <2> HIDE DEF v, peak
    <2>2. (v * BPS) \div peak \in Nat
      BY <1>2, <2>1, DivNat
    <2> QED BY <1>1, <2>2
  <1>4. CurveWith(values, curve, k) = [peak |-> peak, drops |-> Append(curve.drops, drop)]
    BY DEF CurveWith
  <1> HIDE DEF peak, drop, v
  <1>5. Append(curve.drops, drop) \in Seq(Int)
    BY <1>1, <1>3
  <1> QED BY <1>2, <1>4, <1>5 DEF Curve

\* The curve of the first hours, hour by hour.
NoDrops(values) == [peak |-> values[1], drops |-> <<>>]
Curved(values, g) ==
  \A s \in SUBSET (1 .. Len(values)) :
     g[s] = IF s = {} THEN NoDrops(values) ELSE CurveWith(values, g[s \ {Max(s)}], Max(s))

LEMMA DrawdownsFold ==
  ASSUME NEW values, Valued(values)
  PROVE  \E g : Curved(values, g) /\ Drawdowns(values) = g[1 .. Len(values)].drops
  <1> DEFINE n == Len(values)
             op == [x \in Curve \X (1 .. n) |-> CurveWith(values, x[1], x[2])]
             base == NoDrops(values)
             Q(g) == g = [s \in SUBSET DOMAIN values |->
                            IF s = {} THEN base ELSE CurveWith(values, g[s \ {Max(s)}], Max(s))]
  <1>1. n \in Nat /\ DOMAIN values = 1 .. n /\ 1 \in 1 .. n
    BY DEF Valued
  <1>2. \A s \in SUBSET (1 .. n) : s # {} => Max(s) \in 1 .. n /\ s \ {Max(s)} \in SUBSET (1 .. n)
    BY <1>1, LastOfSome
  <1>3. PICK g : /\ g \in [SUBSET (1 .. n) -> Curve]
                 /\ g = [s \in SUBSET (1 .. n) |-> FoldAt(op, base, g, s)]
    <2>1. op \in [Curve \X (1 .. n) -> Curve]
      BY CurveType
    <2>2. base \in Curve
      <3>1. values[1] \in Nat \ {0} /\ <<>> \in Seq(Int)
        BY <1>1, ValueType
      <3> QED BY <3>1 DEF Curve, NoDrops
    <2> DEFINE V == Curve
    <2>3. base \in V /\ op \in [V \X (1 .. n) -> V]
      BY <2>1, <2>2
    <2> HIDE DEF op, n, V, base
    <2>4. \E g : FoldsAll(op, base, n, V, g)
      BY <1>1, <2>3, FoldExists
    <2> QED BY <2>4 DEF V, FoldsAll
  <1>4. Q(g)
    <2>1. \A s \in SUBSET (1 .. n) :
             FoldAt(op, base, g, s) = IF s = {} THEN base
                                      ELSE CurveWith(values, g[s \ {Max(s)}], Max(s))
      <3> SUFFICES ASSUME NEW s \in SUBSET (1 .. n)
                   PROVE  FoldAt(op, base, g, s)
                            = IF s = {} THEN base ELSE CurveWith(values, g[s \ {Max(s)}], Max(s))
        OBVIOUS
      <3>1. CASE s = {}
        BY <3>1 DEF FoldAt
      <3> SUFFICES ASSUME s # {}
                   PROVE  FoldAt(op, base, g, s) = CurveWith(values, g[s \ {Max(s)}], Max(s))
        BY <3>1
      <3>2. g[s \ {Max(s)}] \in Curve /\ Max(s) \in 1 .. n
        <4> HIDE DEF n, op, base
        <4> QED BY <1>2, <1>3
      <3>3. op[<<g[s \ {Max(s)}], Max(s)>>] = CurveWith(values, g[s \ {Max(s)}], Max(s))
        <4> HIDE DEF n
        <4> QED BY <3>2
      <3> QED BY <3>3 DEF FoldAt
    <2> HIDE DEF op, n, base
    <2> QED BY <1>1, <1>3, <2>1
  <1>5. Drawdowns(values) = (CHOOSE h : Q(h))[DOMAIN values].drops
    BY DEF Drawdowns, FoldLeft, MapThenFoldSet, CurveWith, NoDrops
  <1>6. Q(CHOOSE h : Q(h))
    <2> HIDE DEF Q
    <2> QED BY <1>4
  <1> DEFINE r == CHOOSE h : Q(h)
  <1>7. Q(r)
    BY <1>6
  <1> HIDE DEF r
  <1>8. Curved(values, r)
    <2> SUFFICES ASSUME NEW s \in SUBSET (1 .. n)
                 PROVE  r[s] = IF s = {} THEN NoDrops(values)
                               ELSE CurveWith(values, r[s \ {Max(s)}], Max(s))
      BY DEF Curved
    <2> HIDE DEF n
    <2> QED BY <1>1, <1>2, <1>7
  <1>9. Drawdowns(values) = r[1 .. n].drops
    <2>1. Drawdowns(values) = r[DOMAIN values].drops
      BY <1>5 DEF r
    <2> QED BY <1>1, <2>1
  <1> QED BY <1>8, <1>9

\* Every drop so far is from the highest value up to its hour.
Peaked(values, curve, k) ==
  /\ curve \in Curve /\ Len(curve.drops) = k
  /\ k = 0 => curve.peak = values[1]
  /\ k > 0 => \E i \in 1 .. k : curve.peak = values[i]
  /\ \A l \in 1 .. k : values[l] <= curve.peak
  /\ \A j \in 1 .. k : \E i \in 1 .. j : /\ curve.drops[j] = Drop(values, j, i)
                                         /\ \A l \in 1 .. j : values[l] <= values[i]

\* One hour more has its drop from the peak so far or is the peak.
LEMMA PeakedFurther ==
  ASSUME NEW values, Valued(values), NEW k \in 1 .. Len(values), NEW curve,
         Peaked(values, curve, k - 1)
  PROVE  Peaked(values, CurveWith(values, curve, k), k)
  <1> DEFINE v    == values[k]
             peak == IF curve.peak > v THEN curve.peak ELSE v
             drop == (v * BPS) \div peak - BPS
             next == CurveWith(values, curve, k)
  <1>1. /\ k \in Nat \ {0} /\ v \in Nat \ {0}
        /\ \A l \in 1 .. k : l \in 1 .. Len(values) /\ values[l] \in Nat \ {0}
    <2>1. \A l \in 1 .. k : l \in 1 .. Len(values)
      BY ValueType
    <2> QED BY <2>1, ValueType
  <1>2. curve \in Curve /\ Len(curve.drops) = k - 1
    BY DEF Peaked
  <1>3. /\ curve.peak \in Nat \ {0} /\ curve.drops \in Seq(Int)
    BY <1>2 DEF Curve
  <1>4. next \in Curve
    BY <1>2, CurveType
  <1>5. next.peak = peak /\ next.drops = Append(curve.drops, drop)
    BY DEF CurveWith
  <1>6. \E i \in 1 .. k : peak = values[i]
    <2>1. CASE curve.peak > v
      <3>1. peak = curve.peak
        BY <2>1
      <3>2. CASE k = 1
        <4>1. curve.peak = values[1]
          BY <3>2 DEF Peaked
        <4> QED BY <2>1, <3>2, <4>1, <1>3
      <3>3. CASE k # 1
        <4>1. k - 1 > 0
          BY <3>3, <1>1
        <4>2. PICK i \in 1 .. k - 1 : curve.peak = values[i]
          BY <4>1 DEF Peaked
        <4>3. i \in 1 .. k
          BY <1>1
        <4> QED BY <3>1, <4>2, <4>3
      <3> QED BY <3>2, <3>3
    <2>2. CASE ~(curve.peak > v)
      <3>1. peak = values[k] /\ k \in 1 .. k
        BY <2>2, <1>1
      <3> QED BY <3>1
    <2> QED BY <2>1, <2>2
  <1>7. \A l \in 1 .. k : values[l] <= peak
    <2> SUFFICES ASSUME NEW l \in 1 .. k PROVE values[l] <= peak
      OBVIOUS
    <2>1. CASE l = k
      BY <2>1, <1>1, <1>3
    <2>2. CASE l # k
      <3>1. l \in 1 .. k - 1
        BY <2>2, <1>1
      <3>2. values[l] <= curve.peak
        BY <3>1 DEF Peaked
      <3>3. curve.peak <= peak
        BY <1>1, <1>3
      <3>4. values[l] \in Nat /\ peak \in Nat
        BY <1>1, <1>3
      <3> HIDE DEF peak
      <3> QED BY <1>3, <3>2, <3>3, <3>4
    <2> QED BY <2>1, <2>2
  <1>8. drop \in Int
    <2>1. next.drops \in Seq(Int)
      BY <1>4 DEF Curve
    <2>2. peak \in Nat \ {0} /\ v * BPS \in Nat /\ BPS \in Nat
      BY <1>1, <1>3, UnitAssumption, ProductNat
    <2> HIDE DEF peak, v
    <2>3. (v * BPS) \div peak \in Nat
      BY <2>2, DivNat
    <2> QED BY <2>2, <2>3
  <1> HIDE DEF drop
  <1>9. /\ Len(next.drops) = k /\ next.drops[k] = drop
        /\ \A j \in 1 .. k - 1 : next.drops[j] = curve.drops[j]
    BY <1>1, <1>2, <1>3, <1>5, <1>8
  <1>10. \A j \in 1 .. k : \E i \in 1 .. j : /\ next.drops[j] = Drop(values, j, i)
                                             /\ \A l \in 1 .. j : values[l] <= values[i]
    <2> SUFFICES ASSUME NEW j \in 1 .. k
                 PROVE  \E i \in 1 .. j : /\ next.drops[j] = Drop(values, j, i)
                                          /\ \A l \in 1 .. j : values[l] <= values[i]
      OBVIOUS
    <2>1. CASE j = k
      <3>1. PICK i \in 1 .. k : peak = values[i]
        BY <1>6
      <3> HIDE DEF peak
      <3>2. drop = Drop(values, k, i)
        BY <3>1 DEF drop, Drop
      <3>3. \A l \in 1 .. k : values[l] <= values[i]
        BY <1>7, <3>1
      <3>4. next.drops[k] = Drop(values, k, i)
        BY <1>9, <3>2
      <3> HIDE DEF next
      <3> QED BY <2>1, <3>3, <3>4
    <2>2. CASE j # k
      <3>1. j \in 1 .. k - 1
        BY <2>2, <1>1
      <3>2. PICK i \in 1 .. j : /\ curve.drops[j] = Drop(values, j, i)
                                /\ \A l \in 1 .. j : values[l] <= values[i]
        BY <3>1 DEF Peaked
      <3>3. next.drops[j] = curve.drops[j]
        BY <1>9, <3>1
      <3> HIDE DEF next
      <3> QED BY <3>2, <3>3
    <2> QED BY <2>1, <2>2
  <1> HIDE DEF next, peak
  <1>11. /\ \E i \in 1 .. k : next.peak = values[i]
         /\ \A l \in 1 .. k : values[l] <= next.peak
    BY <1>5, <1>6, <1>7
  <1>12. ~(k = 0)
    BY <1>1
  <1>13. Peaked(values, next, k)
    BY <1>4, <1>9, <1>10, <1>11, <1>12 DEF Peaked
  <1> QED BY <1>13 DEF next

\* The drops of a report are from the highest value up to their hour.
LEMMA DropsFromPeak ==
  ASSUME NEW values, Valued(values)
  PROVE  \E curve : Peaked(values, curve, Len(values)) /\ Drawdowns(values) = curve.drops
  <1>1. Len(values) \in Nat
    BY DEF Valued
  <1>2. PICK g : Curved(values, g) /\ Drawdowns(values) = g[1 .. Len(values)].drops
    BY DrawdownsFold
  <1> DEFINE T == {k \in 0 .. Len(values) : ~Peaked(values, g[1 .. k], k)}
  <1> SUFFICES ASSUME T # {} PROVE FALSE
    BY <1>1, <1>2
  <1>3. PICK k \in T : \A j \in T : k <= j
    <2>1. T \in SUBSET Nat
      OBVIOUS
    <2> HIDE DEF T
    <2> QED BY <2>1, LeastOfNat
  <1>4. k \in 0 .. Len(values) /\ ~Peaked(values, g[1 .. k], k)
    OBVIOUS
  <1>5. CASE k = 0
    <2>1. 1 .. k = {} /\ {} \in SUBSET (1 .. Len(values))
      BY <1>5
    <2>2. g[1 .. k] = NoDrops(values)
      BY <1>2, <2>1 DEF Curved
    <2>3. /\ NoDrops(values) \in Curve /\ NoDrops(values).peak = values[1]
          /\ NoDrops(values).drops = <<>>
      <3>1. 1 \in 1 .. Len(values)
        BY DEF Valued
      <3>2. values[1] \in Nat \ {0} /\ <<>> \in Seq(Int)
        BY <3>1, ValueType
      <3> QED BY <3>2 DEF Curve, NoDrops
    <2>4. Len(NoDrops(values).drops) = 0 /\ 1 .. 0 = {} /\ ~(0 > 0)
      BY <2>3
    <2>5. Peaked(values, NoDrops(values), 0)
      BY <2>3, <2>4 DEF Peaked
    <2> QED BY <1>4, <1>5, <2>2, <2>5
  <1>6. CASE k # 0
    <2>1. k \in Nat \ {0} /\ k \in 1 .. Len(values) /\ k - 1 \in 0 .. Len(values)
      BY <1>1, <1>4, <1>6
    <2>2. Peaked(values, g[1 .. k - 1], k - 1)
      <3>1. k - 1 \notin T
        <4> HIDE DEF T
        <4> QED BY <1>3, <2>1
      <3> QED BY <2>1, <3>1
    <2>3. 1 .. k \in SUBSET (1 .. Len(values)) /\ 1 .. k # {}
      <3>1. k \in 1 .. k /\ \A j \in 1 .. k : j \in 1 .. Len(values)
        BY <1>1, <2>1
      <3> QED BY <3>1
    <2>4. Max(1 .. k) = k /\ (1 .. k) \ {Max(1 .. k)} = 1 .. k - 1
      BY <2>1, FirstOnes
    <2>5. g[1 .. k] = CurveWith(values, g[1 .. k - 1], k)
      BY <1>2, <2>3, <2>4 DEF Curved
    <2> QED BY <1>4, <2>1, <2>2, <2>5, PeakedFurther
  <1> QED BY <1>5, <1>6

\* The minimum of integers that have a lower bound.
LEMMA MinOfBounded ==
  ASSUME NEW S \in SUBSET Int, S # {}, NEW b \in Int, \A y \in S : b <= y
  PROVE  Min(S) \in S /\ \A y \in S : Min(S) <= y
  <1> DEFINE T == {y - b : y \in S}
  <1>1. T \in SUBSET Nat /\ T # {}
    <2>1. \A y \in S : y - b \in Nat
      OBVIOUS
    <2> QED BY <2>1
  <1>2. PICK d \in T : \A e \in T : d <= e
    <2> HIDE DEF T
    <2> QED BY <1>1, LeastOfNat
  <1>3. PICK x \in S : d = x - b
    OBVIOUS
  <1>4. \A y \in S : x <= y
    <2> SUFFICES ASSUME NEW y \in S PROVE x <= y
      OBVIOUS
    <2>1. d <= y - b
      BY <1>2
    <2> QED BY <1>3, <2>1
  <1> QED BY <1>4 DEF Min

\* The deepest drop from a peak is the worst loss between any hour and a later one.
LEMMA DeepestDrop ==
  ASSUME NEW values, Valued(values)
  PROVE  MaxDrawdown(values) = Min({WorstFrom(values, i) : i \in DOMAIN values})
  <1> DEFINE n == Len(values)
             drops == Drawdowns(values)
             all == {0} \cup Range(drops)
             m == Min(all)
             from(i) == {Drop(values, j, i) : j \in i .. n}
             worst == {WorstFrom(values, i) : i \in 1 .. n}
  <1>1. n \in Nat /\ DOMAIN values = 1 .. n /\ 1 \in 1 .. n
    BY DEF Valued
  <1>2. \A j, i \in 1 .. n : /\ Drop(values, j, i) \in Int /\ -BPS <= Drop(values, j, i)
                             /\ Drop(values, j, j) = 0
                             /\ \A l \in 1 .. n : values[l] <= values[i]
                                                    => Drop(values, j, i) <= Drop(values, j, l)
    BY DropOrder
  <1>3. PICK curve : Peaked(values, curve, n) /\ drops = curve.drops
    BY DropsFromPeak
  <1>4. drops \in Seq(Int) /\ Len(drops) = n
    BY <1>3 DEF Peaked, Curve
  <1> HIDE DEF drops
  <1>5. Range(drops) = {drops[j] : j \in 1 .. n}
    BY <1>4 DEF Range
  <1>6. \A j \in 1 .. n : \E i \in 1 .. j : /\ drops[j] = Drop(values, j, i)
                                            /\ \A l \in 1 .. j : values[l] <= values[i]
    BY <1>3 DEF Peaked
  <1>7. \A x \in all : \E i \in 1 .. n : x \in from(i)
    <2> SUFFICES ASSUME NEW x \in all PROVE \E i \in 1 .. n : x \in from(i)
      OBVIOUS
    <2>1. CASE x = 0
      <3>1. Drop(values, 1, 1) = 0 /\ 1 \in 1 .. n
        BY <1>1, <1>2
      <3> QED BY <1>1, <2>1, <3>1
    <2>2. CASE x \in Range(drops)
      <3>1. PICK j \in 1 .. n : x = drops[j]
        BY <2>2, <1>5
      <3>2. PICK i \in 1 .. j : x = Drop(values, j, i)
        BY <1>6, <3>1
      <3>3. i \in 1 .. n /\ j \in i .. n
        BY <1>1
      <3> QED BY <3>2, <3>3
    <2> QED BY <2>1, <2>2
  <1>8. \A i \in 1 .. n : /\ from(i) \in SUBSET Int /\ from(i) # {}
                          /\ \A x \in from(i) : -BPS <= x
    <2> SUFFICES ASSUME NEW i \in 1 .. n
                 PROVE  /\ from(i) \in SUBSET Int /\ from(i) # {}
                        /\ \A x \in from(i) : -BPS <= x
      OBVIOUS
    <2>1. i \in i .. n /\ \A j \in i .. n : j \in 1 .. n
      BY <1>1
    <2> QED BY <1>2, <2>1
  <1>9. -BPS \in Int
    BY UnitAssumption
  <1>10. /\ all \in SUBSET Int /\ all # {} /\ \A x \in all : -BPS <= x
    <2> HIDE DEF from
    <2>1. \A x \in all : x \in Int /\ -BPS <= x
      BY <1>7, <1>8
    <2> QED BY <2>1
  <1>11. m \in all /\ \A x \in all : m <= x
    <2> HIDE DEF all
    <2> QED BY <1>9, <1>10, MinOfBounded
  <1>12. \A i \in 1 .. n : Min(from(i)) \in from(i) /\ \A x \in from(i) : Min(from(i)) <= x
    <2> HIDE DEF from
    <2> QED BY <1>8, <1>9, MinOfBounded
  <1>13. \A i \in 1 .. n : WorstFrom(values, i) = Min(from(i))
    BY DEF WorstFrom, Drop
  <1>14. \A i \in 1 .. n : \A x \in from(i) : m <= x
    <2> SUFFICES ASSUME NEW i \in 1 .. n, NEW j \in i .. n PROVE m <= Drop(values, j, i)
      OBVIOUS
    <2>1. j \in 1 .. n /\ i \in 1 .. j
      BY <1>1
    <2>2. PICK l \in 1 .. j : /\ drops[j] = Drop(values, j, l)
                              /\ \A h \in 1 .. j : values[h] <= values[l]
      BY <1>6, <2>1
    <2>3. l \in 1 .. n
      BY <1>1, <2>1
    <2>4. Drop(values, j, l) <= Drop(values, j, i)
      BY <1>2, <2>1, <2>2, <2>3
    <2>5. drops[j] \in all
      BY <1>5, <2>1
    <2>6. m <= Drop(values, j, l) /\ m \in Int
      BY <1>10, <1>11, <2>2, <2>5
    <2>7. Drop(values, j, l) \in Int /\ Drop(values, j, i) \in Int
      BY <1>2, <2>1, <2>3
    <2> HIDE DEF m
    <2> QED BY <2>4, <2>6, <2>7
  <1>15. PICK i \in 1 .. n : m \in from(i)
    BY <1>7, <1>11
  <1> DEFINE least(h) == Min(from(h))
  <1>16. \A h \in 1 .. n : least(h) \in Int /\ m <= least(h) /\ m \in Int
    <2> HIDE DEF from, m, all
    <2> QED BY <1>8, <1>10, <1>11, <1>12, <1>14
  <1>17. m = least(i)
    <2>1. least(i) <= m
      <3> HIDE DEF from, m
      <3> QED BY <1>12, <1>15
    <2> HIDE DEF m, least
    <2> QED BY <1>16, <2>1
  <1>18. Min(worst) = m
    <2>1. m \in worst
      <3>1. m = WorstFrom(values, i)
        BY <1>13, <1>17
      <3> HIDE DEF m
      <3> QED BY <3>1
    <2>2. \A x \in worst : m <= x
      <3> HIDE DEF m, from
      <3> QED BY <1>13, <1>16
    <2>3. worst \in SUBSET Int
      <3> HIDE DEF m, from
      <3> QED BY <1>13, <1>16
    <2>4. m \in Int
      BY <1>16
    <2> HIDE DEF m, worst
    <2>5. Min(worst) \in worst /\ \A x \in worst : Min(worst) <= x
      BY <2>1, <2>2, <2>3, <2>4, MinOfBounded
    <2> DEFINE q == Min(worst)
    <2>6. q \in Int /\ q <= m /\ m <= q
      BY <2>1, <2>2, <2>3, <2>5
    <2> HIDE DEF q
    <2>7. q = m
      BY <2>4, <2>6
    <2> QED BY <2>7 DEF q
  <1>19. MaxDrawdown(values) = m
    BY DEF MaxDrawdown, drops
  <1> QED BY <1>1, <1>18, <1>19

-----------------------------------------------------------------------------
(* The readings of a path.                                                           *)

\* Hours whose values are naturals, none of them nothing.
LEMMA ValuesOfPath ==
  ASSUME NEW points \in Paths, NEW values \in {Navs(points), Hodls(points)}
  PROVE  Valued(values)
  <1>1. points \in Seq(PathRow) /\ Len(points) = Horizon /\ Horizon \in Nat \ {0}
    BY PathAssumption, UnitAssumption
  <1>2. DOMAIN points = 1 .. Horizon
    BY <1>1
  <1>3. \A k \in 1 .. Horizon : points[k].nav \in Nat \ {0} /\ points[k].hodl \in Nat \ {0}
    <2> SUFFICES ASSUME NEW k \in 1 .. Horizon
                 PROVE  points[k].nav \in Nat \ {0} /\ points[k].hodl \in Nat \ {0}
      OBVIOUS
    <2>1. points[k].nav \in Int /\ points[k].hodl \in Nat
      BY <1>1, PointType
    <2>2. points[k].nav > 0 /\ points[k].hodl > 0
      BY <1>2, RecordAssumption
    <2> QED BY <2>1, <2>2
  <1>4. /\ Navs(points) = [k \in 1 .. Horizon |-> points[k].nav]
        /\ Hodls(points) = [k \in 1 .. Horizon |-> points[k].hodl]
    BY <1>2 DEF Navs, Hodls
  <1>5. values \in [1 .. Horizon -> Nat \ {0}]
    BY <1>3, <1>4
  <1>6. values \in Seq(Nat \ {0}) /\ Len(values) = Horizon
    BY <1>1, <1>5
  <1> QED BY <1>1, <1>6 DEF Valued

\* What each of two readings says of a path of the recommended run is the same.
LEMMA ReadingsOfPath ==
  ASSUME NEW points \in Paths, NEW run,
         \A k \in DOMAIN points : run[k].weights["p30"] \in 0 .. Unit
  PROVE  LET events   == BookEvents(points)
             crossed(k) == Had(events, "recall", k) \cup Had(events, "return", k)
             segments == ModeSegments(points)
             split    == TimeSplit(points, run)
             sum      == Summary(points)
             inState(s) == Cardinality({k \in DOMAIN points : StateOf(points[k]) = s})
         IN  /\ \A k \in DOMAIN points :
                   /\ Funded(points[k]) <=> IF crossed(k) = {} THEN Funded(points[1])
                                            ELSE "return" \in events[Max(crossed(k))]
                   /\ points[k].active = points[1].active
                        <=> Cardinality(Had(events, "switch", k)) % 2 = 0
             /\ \A k \in DOMAIN points : \E n \in DOMAIN segments :
                   /\ segments[n].first <= k /\ k <= segments[n].last
                   /\ segments[n].mode = points[k].mode
             /\ \A n \in 2 .. Len(segments) :
                   /\ segments[n].first = segments[n - 1].last + 1
                   /\ segments[n].mode # segments[n - 1].mode
             /\ Cardinality(Changes(points)) >= Len(segments)
             /\ StripHours(points, "ARMS") = sum.arms /\ StripHours(points, "BOOKS") = sum.books
             /\ sum.arms + sum.books = Len(points) /\ split.hoursArm = sum.arms
             /\ inState("Morpho") = sum.arms
             /\ inState("0.05 pool") + inState("0.30 pool") = sum.books
             /\ split.hours30 + split.hours05 = sum.books
             /\ split.capArm + split.cap30 + split.cap05 = Unit * Len(points)
             /\ Entries(points) <= Cardinality(Had(events, "switch", Len(points)))
                                     + Cardinality(Had(events, "return", Len(points))) + 1
             /\ \A values \in {Navs(points), Hodls(points)} :
                   MaxDrawdown(values) = Min({WorstFrom(values, i) : i \in DOMAIN values})
  <1> DEFINE events == BookEvents(points)
             segments == ModeSegments(points)
             sum == Summary(points)
  <1>1. points \in Seq(PathRow) /\ DOMAIN points = 1 .. Len(points) /\ Len(points) \in Nat
    BY PathAssumption
  <1>2. Tiled(points, segments, Len(points))
    BY <1>1, SegmentsTile
  <1>3. ASSUME NEW k \in DOMAIN points
        PROVE  \E n \in DOMAIN segments : /\ segments[n].first <= k /\ k <= segments[n].last
                                          /\ segments[n].mode = points[k].mode
    <2> HIDE DEF segments
    <2>1. segments \in Seq(Segment) /\ DOMAIN segments = 1 .. Len(segments)
      BY <1>2 DEF Tiled
    <2>2. PICK n \in 1 .. Len(segments) : segments[n].first <= k /\ k <= segments[n].last
      BY <1>1, <1>2 DEF Tiled
    <2>3. k \in segments[n].first .. segments[n].last
      BY <1>1, <2>1, <2>2, SegmentFields
    <2>4. points[k].mode = segments[n].mode
      BY <1>2, <2>3 DEF Tiled
    <2> QED BY <2>1, <2>2, <2>4
  <1>4. \A n \in 2 .. Len(segments) : /\ segments[n].first = segments[n - 1].last + 1
                                      /\ segments[n].mode # segments[n - 1].mode
    <2> HIDE DEF segments
    <2> QED BY <1>2 DEF Tiled
  <1>5. sum.arms = Cardinality(InMode(points, "ARMS")) /\ sum.books = Cardinality(InMode(points, "BOOKS"))
    BY DEF Summary
  <1>6. StripHours(points, "ARMS") = sum.arms /\ StripHours(points, "BOOKS") = sum.books
    BY <1>1, <1>5, StripCounts
  <1>7. \A values \in {Navs(points), Hodls(points)} :
           MaxDrawdown(values) = Min({WorstFrom(values, i) : i \in DOMAIN values})
    BY ValuesOfPath, DeepestDrop
  <1>8. Cardinality(Changes(points)) >= Len(segments)
    BY <1>1, ChangesOfMode
  <1>9. ASSUME NEW k \in DOMAIN points
        PROVE  points[k].active = points[1].active
                 <=> Cardinality(Had(events, "switch", k)) % 2 = 0
    BY <1>1, SwitchesTell
  <1>10. ASSUME NEW k \in DOMAIN points
         PROVE  LET crossed == Had(events, "recall", k) \cup Had(events, "return", k)
                IN  Funded(points[k]) <=> IF crossed = {} THEN Funded(points[1])
                                          ELSE "return" \in events[Max(crossed)]
    BY <1>1, CrossingsTell
  <1>11. Entries(points) <= Cardinality(Had(events, "switch", Len(points)))
                              + Cardinality(Had(events, "return", Len(points))) + 1
    BY <1>1, EntriesAreEvents
  <1>12. LET split == TimeSplit(points, run)
         IN  split.capArm + split.cap30 + split.cap05 = Unit * Len(points)
    BY <1>1, CapitalAddsUp
  <1>13. LET split == TimeSplit(points, run)
             inState(s) == Cardinality({k \in DOMAIN points : StateOf(points[k]) = s})
         IN  /\ sum.arms + sum.books = Len(points) /\ split.hoursArm = sum.arms
             /\ inState("Morpho") = sum.arms
             /\ inState("0.05 pool") + inState("0.30 pool") = sum.books
             /\ split.hours30 + split.hours05 = sum.books
    <2> HIDE DEF sum
    <2> QED BY <1>1, <1>5, HoursParted
  <1> QED
    BY <1>3, <1>4, <1>6, <1>7, <1>8, <1>9, <1>10, <1>11, <1>12, <1>13, Zenon

\* What the reports read of a run: a path of the recommended run, unless the tape is
\* resampled, and for every hour the part of the capital that was in the 0.30 pool.
Readable ==
  /\ record = <<>> \/ record \in Paths
  /\ \A k \in DOMAIN path : path[k].weights["p30"] \in 0 .. Unit

LEMMA NextReadable ==
  ASSUME IInv, TInv, Readable, [Next]_vars
  PROVE  Readable'
  <1>1. record' = record
    BY DEF Next, vars, fixed, Market, Allocate, Earn, Mark, Measure
  <1>2. CASE path' = path
    BY <1>1, <1>2 DEF Readable
  <1>3. CASE Measure
    <2> DEFINE hour == [weights |-> weights, fees |-> fees, costs |-> costs,
                        nav |-> nav, net |-> nav - p.initial - il]
    <2>1. path' = Append(path, hour) /\ hour.weights = weights
      BY <1>3 DEF Measure
    <2>2. path \in Seq(Measured)
      BY DEF IInv, Types
    <2>3. weights["p30"] \in 0 .. Unit
      BY DEF TInv, Weighed, Parted, Pools
    <2>4. hour \in Measured
      <3>1. /\ p \in Runs /\ costs \in Nat /\ il \in Int /\ nav \in Int
            /\ fees \in [Pools -> Nat] /\ weights \in [Pools -> Nat]
        BY DEF IInv, Types
      <3>2. p.initial \in Int
        BY <3>1, RunAssumption
      <3> QED BY <3>1, <3>2 DEF Measured
    <2> HIDE DEF hour
    <2>5. ASSUME NEW k \in DOMAIN path' PROVE path'[k].weights["p30"] \in 0 .. Unit
      <3>1. Len(path) \in Nat /\ DOMAIN path' = 1 .. Len(path) + 1 /\ DOMAIN path = 1 .. Len(path)
        BY <2>1, <2>2, <2>4
      <3>2. CASE k = Len(path) + 1
        BY <2>1, <2>2, <2>3, <2>4, <3>2
      <3>3. CASE k # Len(path) + 1
        <4>1. k \in 1 .. Len(path)
          BY <3>1, <3>3
        <4>2. path'[k] = path[k]
          BY <2>1, <2>2, <2>4, <4>1
        <4> QED BY <3>1, <4>1, <4>2 DEF Readable
      <3> QED BY <3>2, <3>3
    <2> QED BY <1>1, <2>5 DEF Readable
  <1> QED
    BY <1>2, <1>3 DEF Next, vars, Market, Allocate, Earn, Mark

\* Whatever is read off a path of the recommended run, off its hours, its segments, its
\* events or its drawdown, says the same of it.
THEOREM OnePathOneStory == Spec => []ReadingsAgree
  <1>1. Init => Readable
    <2>1. DOMAIN <<>> = {}
      OBVIOUS
    <2> QED BY <2>1 DEF Init, Readable
  <1>2. IInv /\ TInv /\ Readable /\ [Next]_vars => Readable'
    BY NextReadable
  <1>3. IInv /\ TInv /\ Readable => ReadingsAgree
    <2> SUFFICES ASSUME IInv, TInv, Readable, AtRest PROVE ReadingsAgree
      BY DEF ReadingsAgree
    <2>1. record \in Paths
      BY DEF AtRest, Readable
    <2>2. Len(path) = Horizon /\ path \in Seq(Measured) /\ Len(record) = Horizon
          /\ record \in Seq(PathRow)
      BY <2>1, PathAssumption DEF IInv, Types, Paid, AtRest
    <2>3. DOMAIN record = DOMAIN path
      BY <2>2
    <2>4. \A k \in DOMAIN record : path[k].weights["p30"] \in 0 .. Unit
      BY <2>3 DEF Readable
    <2> QED BY <2>1, <2>4, ReadingsOfPath, Zenon DEF ReadingsAgree, Had, Funded
  <1>4. Init => TInv
    BY InitTyped
  <1>5. IInv /\ TInv /\ [Next]_vars => TInv'
    BY NextTyped
  <1> QED
    BY <1>1, <1>2, <1>3, <1>4, <1>5, Invariance, PTL DEF Spec
=============================================================================
