------------------------ MODULE TrancheEpochs_proofs -------------------------
(***************************************************************************)
(* Proofs about TrancheEpochs: types, backed locks, and the step properties *)
(* of fills and epochs, for any users, supply, prices and fixed-point scale.*)
(***************************************************************************)
EXTENDS TrancheEpochs, FiniteSums

-----------------------------------------------------------------------------
(* Arithmetic *)

\* Floored division of naturals is a natural, and the largest that fits.
LEMMA DivFloor ==
    ASSUME NEW m \in Nat, NEW d \in Nat \ {0}
    PROVE  /\ m \div d \in Nat
           /\ (m \div d) * d <= m
           /\ m < ((m \div d) + 1) * d
  OBVIOUS

\* Products of naturals are natural and grow with their factors.
LEMMA ProductNat ==
    ASSUME NEW m \in Nat, NEW n \in Nat
    PROVE  m * n \in Nat
  OBVIOUS

LEMMA ProductGrows ==
    ASSUME NEW m \in Nat, NEW n \in Nat, NEW k \in Nat, m <= n
    PROVE  m * k <= n * k
  OBVIOUS

\* A positive common factor cancels.
LEMMA ProductCancels ==
    ASSUME NEW m \in Nat, NEW n \in Nat, NEW k \in Nat \ {0}, m * k <= n * k
    PROVE  m <= n
  OBVIOUS

LEMMA Clamps ==
    ASSUME NEW m \in Nat, NEW n \in Nat
    PROVE  /\ Monus(m, n) \in Nat /\ Monus(m, n) <= m
           /\ Least(m, n) \in Nat /\ Least(m, n) <= m /\ Least(m, n) <= n
  BY DEF Monus, Least

-----------------------------------------------------------------------------
(* Types of the accountant's views *)

LEMMA ValueType ==
    ASSUME TypeOK, NEW n \in Nat
    PROVE  market.nav \in Nat /\ Value(n) \in Nat
  BY MarketsAssumption, ProductNat DEF TypeOK, Value

LEMMA ClaimTypes ==
    ASSUME TypeOK
    PROVE  /\ EffectivePool \in Nat /\ SeniorClaim \in Nat
           /\ SeniorClaim <= EffectivePool
           /\ \A t \in Tranches : ClaimOf(t) \in Nat
  <1>1. /\ balance["senior"] + balance["junior"] \in Nat
        /\ locked["senior"] + locked["junior"] \in Nat /\ locked["senior"] \in Nat
    BY DEF TypeOK, Tranches
  <1>2. EffectivePool \in Nat
    BY <1>1, ValueType, Clamps DEF EffectivePool, PoolValue
  <1>3. Monus(seniorPrincipal, Value(locked["senior"])) \in Nat
    BY <1>1, ValueType, Clamps DEF TypeOK
  <1>4. SeniorClaim \in Nat /\ SeniorClaim <= EffectivePool
    BY <1>2, <1>3, Clamps DEF SeniorClaim
  <1> QED BY <1>2, <1>4 DEF ClaimOf

LEMMA SupplyType ==
    ASSUME TypeOK, NEW t \in Tranches
    PROVE  Supply(t) \in Nat /\ requested[t] <= Supply(t)
  BY DEF TypeOK, Supply

LEMMA SpendableType ==
    ASSUME TypeOK, NEW held \in [Tranches -> Nat], NEW t \in Tranches
    PROVE  Spendable(t, held) \in Nat /\ Spendable(t, held) <= held[t]
  BY Clamps DEF TypeOK, Spendable

LEMMA ToAssetsType ==
    ASSUME TypeOK, NEW held \in [Tranches -> Nat], NEW t \in Tranches, NEW n \in Nat
    PROVE  ToAssets(t, held, n) \in Nat
  <1>1. n * (held[t] + 1) \in Nat
    BY ProductNat
  <1>2. Supply(t) + Offset \in Nat \ {0}
    BY SupplyType, UnitsAssumption
  <1> QED BY <1>1, <1>2, DivFloor DEF ToAssets

\* Rebalancing moves hook shares between the vaults, and none that is locked.
LEMMA RebalancedType ==
    ASSUME TypeOK
    PROVE  /\ Rebalanced \in [Tranches -> Nat]
           /\ Rebalanced["senior"] + Rebalanced["junior"]
                = balance["senior"] + balance["junior"]
           /\ (\A t \in Tranches : locked[t] <= balance[t])
                => \A t \in Tranches : locked[t] <= Rebalanced[t]
  <1> DEFINE total  == balance["senior"] + balance["junior"]
             target == (total * (SeniorClaim + Value(locked["senior"]))) \div PoolValue
             moved(t) == Least(IF t = "senior" THEN Monus(target, balance["senior"])
                               ELSE Monus(balance["senior"], target),
                               Spendable(Sibling(t), balance))
  <1>1. CASE PoolValue = 0
    BY <1>1 DEF Rebalanced, TypeOK, Tranches
  <1>2. CASE PoolValue # 0
    <2>1. target \in Nat
      <3>1. total \in Nat /\ locked["senior"] \in Nat
        BY DEF TypeOK, Tranches
      <3>2. PoolValue \in Nat \ {0}
        BY <3>1, <1>2, ValueType DEF PoolValue
      <3>3. SeniorClaim + Value(locked["senior"]) \in Nat
        BY <3>1, ClaimTypes, ValueType
      <3>4. total * (SeniorClaim + Value(locked["senior"])) \in Nat
        BY <3>1, <3>3, ProductNat
      <3> HIDE DEF total
      <3> QED BY <3>2, <3>4, DivFloor
    <2> HIDE DEF target
    <2>2. /\ balance["senior"] \in Nat /\ balance["junior"] \in Nat
          /\ locked["senior"] \in Nat /\ locked["junior"] \in Nat
      BY DEF TypeOK, Tranches
    <2>3. /\ moved("senior") = Least(Monus(target, balance["senior"]),
                                     Monus(balance["junior"], locked["junior"]))
          /\ moved("junior") = Least(Monus(balance["senior"], target),
                                     Monus(balance["senior"], locked["senior"]))
      BY DEF Spendable, Sibling
    <2>4. Rebalanced = [t \in Tranches |-> balance[t] + moved(t) - moved(Sibling(t))]
      BY <1>2 DEF Rebalanced, target
    <2> HIDE DEF moved
    <2>5. /\ Rebalanced = [t \in Tranches |-> Rebalanced[t]]
          /\ Rebalanced["senior"] = balance["senior"] + moved("senior") - moved("junior")
          /\ Rebalanced["junior"] = balance["junior"] + moved("junior") - moved("senior")
      BY <2>4 DEF Tranches, Sibling
    <2>6. /\ Rebalanced["senior"] \in Nat /\ Rebalanced["junior"] \in Nat
          /\ Rebalanced["senior"] + Rebalanced["junior"]
               = balance["senior"] + balance["junior"]
          /\ locked["senior"] <= balance["senior"] => locked["senior"] <= Rebalanced["senior"]
          /\ locked["junior"] <= balance["junior"] => locked["junior"] <= Rebalanced["junior"]
      BY <2>1, <2>2, <2>3, <2>5 DEF Least, Monus
    <2> QED BY <2>5, <2>6 DEF Tranches
  <1> QED BY <1>1, <1>2

\* A fill is bounded by its quotation, by what the vault holds unlocked, and in value by
\* the order's part of its tranche's claim.
LEMMA FillableType ==
    ASSUME TypeOK, NEW held \in [Tranches -> Nat], NEW t \in Tranches,
           NEW shares \in Nat, NEW assets \in Nat
    PROVE  /\ Fillable(t, held, shares, assets) \in Nat
           /\ Fillable(t, held, shares, assets) <= Spendable(t, held)
  <1> DEFINE backed == Least(assets, Spendable(t, held))
             part   == (ClaimOf(t) * shares) \div Supply(t)
             cap    == (part * HookSupply) \div Value(HookSupply)
  <1>1. backed \in Nat /\ backed <= Spendable(t, held) /\ Spendable(t, held) \in Nat
    BY SpendableType, Clamps
  <1>2. CASE Supply(t) = 0 \/ Value(HookSupply) = 0
    <2>1. Fillable(t, held, shares, assets) = backed
      BY <1>2 DEF Fillable
    <2> QED BY <1>1, <2>1
  <1>3. CASE ~(Supply(t) = 0 \/ Value(HookSupply) = 0)
    <2>1. Fillable(t, held, shares, assets) = Least(backed, cap)
      BY <1>3 DEF Fillable
    <2>2. part \in Nat
      BY <1>3, ClaimTypes, SupplyType, ProductNat, DivFloor
    <2> HIDE DEF part
    <2>3. cap \in Nat
      BY <1>3, <2>2, UnitsAssumption, ValueType, ProductNat, DivFloor
    <2> HIDE DEF backed, cap
    <2> QED BY <1>1, <2>1, <2>3, Clamps
  <1> QED BY <1>2, <1>3

LEMMA FillableValue ==
    ASSUME TypeOK, NEW held \in [Tranches -> Nat], NEW t \in Tranches,
           NEW shares \in Nat, NEW assets \in Nat, Supply(t) # 0
    PROVE  Value(Fillable(t, held, shares, assets)) <= (ClaimOf(t) * shares) \div Supply(t)
  <1> DEFINE paid == Fillable(t, held, shares, assets)
             part == (ClaimOf(t) * shares) \div Supply(t)
             cap  == (part * HookSupply) \div Value(HookSupply)
             nav  == market.nav
  <1>1. paid \in Nat /\ part \in Nat /\ nav \in Nat /\ HookSupply \in Nat \ {0}
    BY FillableType, ClaimTypes, SupplyType, ProductNat, DivFloor, ValueType,
       UnitsAssumption
  <1>2. CASE Value(HookSupply) = 0
    <2>1. nav = 0
      BY <1>1, <1>2 DEF Value
    <2>2. Value(paid) = 0
      BY <1>1, <2>1 DEF Value
    <2> HIDE DEF part
    <2> QED BY <1>1, <2>2 DEF part
  <1>3. CASE Value(HookSupply) # 0
    <2>1. paid <= cap /\ cap \in Nat
      <3>1. paid = Least(Least(assets, Spendable(t, held)), cap)
        BY <1>3 DEF Fillable
      <3> HIDE DEF part
      <3>2. cap \in Nat
        BY <1>1, <1>3, ValueType, ProductNat, DivFloor
      <3>3. Least(assets, Spendable(t, held)) \in Nat
        BY SpendableType, Clamps
      <3> HIDE DEF cap
      <3> QED BY <3>1, <3>2, <3>3, Clamps
    <2> HIDE DEF part, paid
    <2>2. cap * (HookSupply * nav) <= part * HookSupply
      <3>1. Value(HookSupply) \in Nat \ {0} /\ part * HookSupply \in Nat
        BY <1>1, <1>3, ValueType, ProductNat
      <3> QED BY <3>1, DivFloor DEF Value
    <2> HIDE DEF cap, nav
    <2>3. paid * (HookSupply * nav) <= cap * (HookSupply * nav)
      BY <1>1, <2>1, ProductNat, ProductGrows
    <2>4. (paid * nav) * HookSupply <= part * HookSupply
      <3>1. paid * (HookSupply * nav) = (paid * nav) * HookSupply
        BY <1>1
      <3>2. /\ paid * (HookSupply * nav) \in Nat /\ cap * (HookSupply * nav) \in Nat
            /\ part * HookSupply \in Nat
        BY <1>1, <2>1, ProductNat
      <3> QED BY <2>2, <2>3, <3>1, <3>2
    <2>5. paid * nav <= part
      BY <1>1, <2>4, ProductNat, ProductCancels
    <2> QED BY <2>5 DEF Value, nav, paid, part
  <1> QED BY <1>2, <1>3

\* An order of shares out of the tranche's supply takes no more than its part of the
\* tranche's claim.
LEMMA FillWithinClaim ==
    ASSUME TypeOK, NEW held \in [Tranches -> Nat], NEW t \in Tranches,
           NEW shares \in Nat \ {0}, NEW assets \in Nat, shares <= requested[t]
    PROVE  LET worth == Value(Fillable(t, held, shares, assets))
           IN  /\ worth \in Nat /\ worth <= ClaimOf(t)
               /\ worth * Supply(t) <= ClaimOf(t) * shares
  <1> DEFINE worth == Value(Fillable(t, held, shares, assets))
             claim == ClaimOf(t)
             part  == (claim * shares) \div Supply(t)
  <1>1. shares <= Supply(t) /\ Supply(t) \in Nat \ {0} /\ claim \in Nat
    BY SupplyType, ClaimTypes DEF TypeOK
  <1>2. worth \in Nat /\ worth <= part
    BY <1>1, FillableType, ValueType, FillableValue
  <1>3. part \in Nat /\ part * Supply(t) <= claim * shares
    BY <1>1, ProductNat, DivFloor
  <1> HIDE DEF worth, claim, part
  <1>4. worth * Supply(t) <= claim * shares
    <2>1. worth * Supply(t) <= part * Supply(t)
      BY <1>1, <1>2, <1>3, ProductGrows
    <2>2. worth * Supply(t) \in Nat /\ part * Supply(t) \in Nat /\ claim * shares \in Nat
      BY <1>1, <1>2, <1>3, ProductNat
    <2> QED BY <1>3, <2>1, <2>2
  <1>5. worth <= claim
    <2>1. claim * shares <= claim * Supply(t)
      BY <1>1
    <2>2. worth * Supply(t) <= claim * Supply(t)
      BY <1>1, <1>2, <1>3, <1>4, <2>1, ProductNat
    <2> QED BY <1>1, <1>2, <2>2, ProductCancels
  <1> QED BY <1>2, <1>4, <1>5 DEF worth, claim

-----------------------------------------------------------------------------
(* Types of the epochs *)

\* A side is filled with no more than it holds unlocked.
LEMMA SeniorFillType ==
    ASSUME TypeOK, NEW held \in [Tranches -> Nat]
    PROVE  /\ SeniorFill(held) \in [f : Nat, rate : Nat, demand : Nat, fill : Nat]
           /\ SeniorFill(held).fill <= Spendable("senior", held)
  <1> DEFINE demand == ToAssets("senior", held, requested["senior"])
             rate   == (demand * RateUnit) \div requested["senior"]
             room   == Spendable("senior", held)
             fill   == IF rate = 0 THEN 0 ELSE Least(demand, room)
  <1>1. /\ requested["senior"] \in Nat /\ demand \in Nat /\ room \in Nat
        /\ BPS \in Nat /\ RateUnit \in Nat
    BY ToAssetsType, SpendableType, FloorAssumption, UnitsAssumption DEF TypeOK, Tranches
  <1>2. SeniorFill(held) =
          CASE requested["senior"] = 0 -> [f |-> BPS, rate |-> 0, demand |-> 0, fill |-> 0]
            [] demand = 0 -> [f |-> 0, rate |-> 0, demand |-> 0, fill |-> 0]
            [] OTHER -> [f |-> (fill * BPS) \div demand, rate |-> rate,
                         demand |-> demand, fill |-> fill]
    BY DEF SeniorFill
  <1> HIDE DEF demand, room
  <1>3. CASE requested["senior"] = 0 \/ demand = 0
    <2>1. \/ SeniorFill(held) = [f |-> BPS, rate |-> 0, demand |-> 0, fill |-> 0]
          \/ SeniorFill(held) = [f |-> 0, rate |-> 0, demand |-> 0, fill |-> 0]
      BY <1>2, <1>3
    <2> QED BY <1>1, <2>1 DEF room
  <1>4. CASE requested["senior"] # 0 /\ demand # 0
    <2>1. rate \in Nat
      BY <1>1, <1>4, ProductNat, DivFloor
    <2> HIDE DEF rate
    <2>2. fill \in Nat /\ fill <= room
      BY <1>1, <2>1, Clamps
    <2> HIDE DEF fill
    <2>3. (fill * BPS) \div demand \in Nat
      BY <1>1, <1>4, <2>2, ProductNat, DivFloor
    <2>4. SeniorFill(held) = [f |-> (fill * BPS) \div demand, rate |-> rate,
                              demand |-> demand, fill |-> fill]
      BY <1>2, <1>4 DEF fill, rate
    <2> QED BY <1>1, <2>1, <2>2, <2>3, <2>4 DEF room
  <1> QED BY <1>1, <1>3, <1>4

LEMMA JuniorFillType ==
    ASSUME TypeOK, NEW held \in [Tranches -> Nat],
           NEW senior \in [f : Nat, rate : Nat, demand : Nat, fill : Nat],
           senior.fill <= Spendable("senior", held)
    PROVE  JuniorFill(held, senior) \in [f : Nat, rate : Nat]
  <1> DEFINE demand    == ToAssets("junior", held, requested["junior"])
             rate      == (demand * RateUnit) \div requested["junior"]
             available == Spendable("junior", held)
             backing   == Spendable("senior", held)
             keep      == ((backing - senior.fill) * FloorBps) \div (BPS - FloorBps)
             floorMax  == Monus(available, IF frozen THEN 0 ELSE keep)
             ratioMax  == IF senior.demand = 0 \/ (senior.fill = 0 /\ backing = 0)
                          THEN demand ELSE (demand * senior.fill) \div senior.demand
             fill      == IF rate = 0 THEN 0 ELSE Least(demand, Least(floorMax, ratioMax))
  <1>1. /\ requested["junior"] \in Nat /\ demand \in Nat
        /\ available \in Nat /\ backing \in Nat
        /\ BPS \in Nat /\ FloorBps \in Nat /\ FloorBps < BPS /\ RateUnit \in Nat
        /\ senior.demand \in Nat /\ senior.fill \in Nat
    BY ToAssetsType, SpendableType, FloorAssumption, UnitsAssumption DEF TypeOK, Tranches
  <1>2. JuniorFill(held, senior) =
          CASE requested["junior"] = 0 -> [f |-> BPS, rate |-> 0]
            [] demand = 0 -> [f |-> 0, rate |-> 0]
            [] OTHER -> [f |-> (fill * BPS) \div demand, rate |-> rate]
    BY DEF JuniorFill
  <1> HIDE DEF demand, available
  <1>3. CASE requested["junior"] = 0 \/ demand = 0
    <2> HIDE DEF fill, rate
    <2>1. \/ JuniorFill(held, senior) = [f |-> BPS, rate |-> 0]
          \/ JuniorFill(held, senior) = [f |-> 0, rate |-> 0]
      BY <1>2, <1>3
    <2> QED BY <1>1, <2>1
  <1>4. CASE requested["junior"] # 0 /\ demand # 0
    <2>1. rate \in Nat
      BY <1>1, <1>4, ProductNat, DivFloor
    <2>2. keep \in Nat
      <3>1. backing - senior.fill \in Nat /\ BPS - FloorBps \in Nat \ {0}
        BY <1>1
      <3> HIDE DEF backing
      <3> QED BY <1>1, <3>1, ProductNat, DivFloor
    <2> HIDE DEF keep, backing
    <2>3. floorMax \in Nat
      BY <1>1, <2>2, Clamps
    <2>4. ratioMax \in Nat
      BY <1>1, ProductNat, DivFloor
    <2> HIDE DEF rate, floorMax, ratioMax
    <2>5. fill \in Nat
      <3>1. Least(floorMax, ratioMax) \in Nat
        BY <2>3, <2>4, Clamps
      <3> QED BY <1>1, <3>1, Clamps
    <2> HIDE DEF fill
    <2>6. (fill * BPS) \div demand \in Nat
      BY <1>1, <1>4, <2>5, ProductNat, DivFloor
    <2>7. JuniorFill(held, senior) = [f |-> (fill * BPS) \div demand, rate |-> rate]
      BY <1>2, <1>4
    <2> QED BY <2>1, <2>6, <2>7
  <1> QED BY <1>1, <1>3, <1>4

-----------------------------------------------------------------------------
(* Each call keeps the types, and the locks backed *)

IInv == TypeOK /\ LockedIsBacked

LEMMA InitIInv == Init => IInv
  <1> SUFFICES ASSUME Init PROVE TypeOK /\ LockedIsBacked
    BY DEF IInv
  <1>1. Nothing \in [Tranches -> Nat]
    BY DEF Nothing
  <1>2. snap \in [taken : BOOLEAN, f : [Tranches -> Nat], rate : [Tranches -> Nat]]
    BY DEF Init, NoSnap
  <1>3. pending \in [Tranches -> [Users -> Nat]] /\ claimable \in [Tranches -> [Users -> Nat]]
    BY DEF Init
  <1>4. TypeOK
    BY <1>1, <1>2, <1>3 DEF Init, TypeOK
  <1>5. LockedIsBacked
    BY DEF Init, LockedIsBacked, Nothing
  <1> QED BY <1>4, <1>5

LEMMA DepositIInv ==
    ASSUME IInv, NEW t \in Tranches, NEW n \in 1..Wallets, Deposit(t, n)
    PROVE  IInv'
  <1>1. TypeOK
    BY DEF IInv
  <1>2. n \in Nat
    OBVIOUS
  <1>3. Minted(t, n) \in Nat
    <2>1. balance[t] + 1 \in Nat \ {0} /\ Supply(t) + Offset \in Nat
      BY <1>1, SupplyType, UnitsAssumption DEF TypeOK
    <2>2. n * (Supply(t) + Offset) \in Nat
      BY <1>2, <2>1, ProductNat
    <2> QED BY <2>1, <2>2, DivFloor DEF Minted
  <1>4. Value(n) \in Nat
    BY <1>1, <1>2, ValueType
  <1>5. TypeOK'
    <2>1. balance' \in [Tranches -> Nat] /\ free' \in [Tranches -> Nat]
      BY <1>1, <1>2, <1>3 DEF Deposit, TypeOK
    <2>2. seniorPrincipal' \in Nat
      BY <1>1, <1>4 DEF Deposit, TypeOK
    <2> QED BY <1>1, <2>1, <2>2 DEF Deposit, TypeOK
  <1>6. LockedIsBacked'
    BY <1>1, <1>2 DEF Deposit, TypeOK, IInv, LockedIsBacked
  <1> QED BY <1>5, <1>6 DEF IInv

LEMMA RequestRedeemIInv ==
    ASSUME IInv, NEW t \in Tranches, NEW u \in Users, NEW n \in 1..free[t],
           RequestRedeem(t, u, n)
    PROVE  IInv'
  <1>1. n \in Nat /\ n <= free[t] /\ free[t] \in Nat
    BY DEF IInv, TypeOK
  <1>2. free' \in [Tranches -> Nat] /\ requested' \in [Tranches -> Nat]
    BY <1>1 DEF IInv, TypeOK, RequestRedeem
  <1>3. pending' \in [Tranches -> [Users -> Nat]]
    BY <1>1 DEF IInv, TypeOK, RequestRedeem
  <1>4. TypeOK'
    BY <1>2, <1>3 DEF IInv, TypeOK, RequestRedeem
  <1> QED BY <1>4 DEF IInv, LockedIsBacked, RequestRedeem

\* A fill out of balances that are backed.
LEMMA ApplyFillIInv ==
    ASSUME TypeOK, NEW t \in Tranches, NEW u \in Users, NEW held \in [Tranches -> Nat],
           NEW shares \in Nat, NEW assets \in Nat,
           ApplyFill(t, u, held, shares, assets), balance' = held,
           ~expired => \A s \in Tranches : locked[s] <= held[s],
           UNCHANGED <<market, free, seniorPrincipal, snap, frozen, expired>>
    PROVE  IInv'
  <1> DEFINE paid == Fillable(t, held, shares, assets)
  <1>1. paid \in Nat /\ paid <= Spendable(t, held)
    BY FillableType
  <1> HIDE DEF paid
  <1>2. /\ shares <= pending[t][u] /\ shares <= requested[t]
        /\ requested' = [requested EXCEPT ![t] = @ - shares]
        /\ pending' = [pending EXCEPT ![t][u] = @ - shares]
        /\ claimable' = [claimable EXCEPT ![t][u] = @ + paid]
        /\ locked' = [locked EXCEPT ![t] = @ + paid]
    BY DEF ApplyFill, paid
  <1>3. requested' \in [Tranches -> Nat]
    BY <1>2 DEF TypeOK
  <1>4. pending' \in [Tranches -> [Users -> Nat]]
    BY <1>2 DEF TypeOK
  <1>5. claimable' \in [Tranches -> [Users -> Nat]]
    BY <1>1, <1>2 DEF TypeOK
  <1>6. locked' \in [Tranches -> Nat]
    BY <1>1, <1>2 DEF TypeOK
  <1>7. TypeOK'
    BY <1>3, <1>4, <1>5, <1>6 DEF TypeOK
  <1>8. LockedIsBacked'
    <2> SUFFICES ASSUME ~expired, NEW s \in Tranches
                 PROVE  locked'[s] <= held[s]
      BY DEF LockedIsBacked
    <2>1. CASE s = t
      <3>1. locked'[t] = locked[t] + paid /\ locked[t] \in Nat /\ held[t] \in Nat
        BY <1>2 DEF TypeOK
      <3>2. locked[t] <= held[t] /\ paid <= Monus(held[t], locked[t])
        BY <1>1 DEF Spendable
      <3> QED BY <1>1, <2>1, <3>1, <3>2 DEF Monus
    <2>2. CASE s # t
      BY <1>2, <2>2 DEF TypeOK
    <2> QED BY <2>1, <2>2
  <1> QED BY <1>7, <1>8 DEF IInv

LEMMA FulfillRedeemIInv ==
    ASSUME IInv, NEW t \in Tranches, NEW u \in Users, FulfillRedeem(t, u)
    PROVE  IInv'
  <1>1. TypeOK /\ pending[t][u] \in Nat
    BY DEF IInv, TypeOK
  <1>2. Rebalanced \in [Tranches -> Nat]
    BY <1>1, RebalancedType
  <1>3. ~expired => \A s \in Tranches : locked[s] <= Rebalanced[s]
    BY <1>1, RebalancedType DEF IInv, LockedIsBacked
  <1>4. ToAssets(t, Rebalanced, pending[t][u]) \in Nat
    BY <1>1, <1>2, ToAssetsType
  <1>5. /\ balance' = Rebalanced
        /\ ApplyFill(t, u, Rebalanced, pending[t][u],
                     ToAssets(t, Rebalanced, pending[t][u]))
        /\ UNCHANGED <<market, free, seniorPrincipal, snap, frozen, expired>>
    BY DEF FulfillRedeem
  <1> QED BY <1>1, <1>2, <1>3, <1>4, <1>5, ApplyFillIInv

\* The order and the price of a claim against the snapshot.
EpochShares(t, u) == (pending[t][u] * snap.f[t]) \div BPS
EpochAssets(t, u) == (EpochShares(t, u) * snap.rate[t]) \div RateUnit

LEMMA EpochTypes ==
    ASSUME TypeOK, NEW t \in Tranches, NEW u \in Users
    PROVE  EpochShares(t, u) \in Nat /\ EpochAssets(t, u) \in Nat
  <1>1. pending[t][u] \in Nat /\ snap.f[t] \in Nat /\ snap.rate[t] \in Nat
    BY DEF TypeOK
  <1>2. BPS \in Nat \ {0} /\ RateUnit \in Nat \ {0}
    BY FloorAssumption, UnitsAssumption
  <1>3. EpochShares(t, u) \in Nat
    BY <1>1, <1>2, ProductNat, DivFloor DEF EpochShares
  <1> QED BY <1>1, <1>2, <1>3, ProductNat, DivFloor DEF EpochAssets

LEMMA ClaimEpochIInv ==
    ASSUME IInv, NEW t \in Tranches, NEW u \in Users, ClaimEpoch(t, u)
    PROVE  IInv'
  <1>1. TypeOK /\ balance \in [Tranches -> Nat]
    BY DEF IInv, TypeOK
  <1>2. EpochShares(t, u) \in Nat /\ EpochAssets(t, u) \in Nat
    BY <1>1, EpochTypes
  <1>3. /\ balance' = balance
        /\ ApplyFill(t, u, balance, EpochShares(t, u), EpochAssets(t, u))
        /\ UNCHANGED <<market, free, seniorPrincipal, snap, frozen, expired>>
    BY DEF ClaimEpoch, EpochShares, EpochAssets
  <1>4. ~expired => \A s \in Tranches : locked[s] <= balance[s]
    BY DEF IInv, LockedIsBacked
  <1> QED BY <1>1, <1>2, <1>3, <1>4, ApplyFillIInv

LEMMA RedeemIInv ==
    ASSUME IInv, NEW t \in Tranches, NEW u \in Users, NEW paid \in 1..claimable[t][u],
           Redeem(t, u, paid)
    PROVE  IInv'
  <1> DEFINE value == IF expired THEN paid ELSE Value(paid)
  <1>1. TypeOK /\ paid \in Nat /\ paid <= claimable[t][u]
    BY DEF IInv, TypeOK
  <1>2. value \in Nat
    BY <1>1, ValueType
  <1> HIDE DEF value
  <1>3. /\ paid <= balance[t]
        /\ claimable' = [claimable EXCEPT ![t][u] = @ - paid]
        /\ balance' = [balance EXCEPT ![t] = @ - paid]
        /\ seniorPrincipal' = IF t = "senior" THEN Monus(seniorPrincipal, value)
                              ELSE seniorPrincipal
        /\ locked' = IF expired THEN locked ELSE [locked EXCEPT ![t] = Monus(@, paid)]
        /\ UNCHANGED <<market, free, requested, pending, snap, frozen, expired>>
    BY DEF Redeem, value
  <1>4. claimable' \in [Tranches -> [Users -> Nat]]
    BY <1>1, <1>3 DEF TypeOK
  <1>5. balance' \in [Tranches -> Nat]
    BY <1>1, <1>3 DEF TypeOK
  <1>6. locked' \in [Tranches -> Nat]
    BY <1>1, <1>3 DEF TypeOK, Monus
  <1>7. seniorPrincipal' \in Nat
    BY <1>1, <1>2, <1>3, Clamps DEF TypeOK
  <1>8. TypeOK'
    BY <1>1, <1>3, <1>4, <1>5, <1>6, <1>7 DEF TypeOK
  <1>9. LockedIsBacked'
    BY <1>1, <1>3 DEF IInv, LockedIsBacked, TypeOK, Monus
  <1> QED BY <1>8, <1>9 DEF IInv

LEMMA RebalanceIInv ==
    ASSUME IInv, Rebalance
    PROVE  IInv'
  <1>1. TypeOK
    BY DEF IInv
  <1>2. TypeOK'
    BY <1>1, RebalancedType DEF Rebalance, TypeOK
  <1>3. LockedIsBacked'
    BY <1>1, RebalancedType DEF Rebalance, IInv, LockedIsBacked
  <1> QED BY <1>2, <1>3 DEF IInv

LEMMA ExecuteEpochIInv ==
    ASSUME IInv, ExecuteEpoch
    PROVE  IInv'
  <1> DEFINE senior == SeniorFill(Rebalanced)
             junior == JuniorFill(Rebalanced, senior)
  <1>1. TypeOK /\ Rebalanced \in [Tranches -> Nat]
    BY RebalancedType DEF IInv
  <1>2. /\ senior \in [f : Nat, rate : Nat, demand : Nat, fill : Nat]
        /\ senior.fill <= Spendable("senior", Rebalanced)
    BY <1>1, SeniorFillType
  <1>3. junior \in [f : Nat, rate : Nat]
    <2> HIDE DEF senior
    <2> QED BY <1>1, <1>2, JuniorFillType
  <1>4. /\ balance' = Rebalanced
        /\ snap' = [taken |-> TRUE,
                    f |-> [t \in Tranches |-> IF t = "senior" THEN senior.f ELSE junior.f],
                    rate |-> [t \in Tranches |->
                                IF t = "senior" THEN senior.rate ELSE junior.rate]]
        /\ UNCHANGED <<market, free, requested, pending, claimable, seniorPrincipal,
                       locked, frozen, expired>>
    BY DEF ExecuteEpoch
  <1> HIDE DEF senior, junior
  <1>5. snap' \in [taken : BOOLEAN, f : [Tranches -> Nat], rate : [Tranches -> Nat]]
    BY <1>2, <1>3, <1>4
  <1>6. TypeOK'
    BY <1>1, <1>4, <1>5 DEF TypeOK
  <1>7. LockedIsBacked'
    BY <1>1, <1>4, RebalancedType DEF IInv, LockedIsBacked
  <1> QED BY <1>6, <1>7 DEF IInv

LEMMA EnvironmentIInv ==
    ASSUME IInv, SetFrozen \/ MarketMoves \/ Expire \/ UNCHANGED vars
    PROVE  IInv'
  BY DEF IInv, TypeOK, LockedIsBacked, SetFrozen, MarketMoves, Expire, vars

LEMMA NextIInv == IInv /\ [Next]_vars => IInv'
  <1> SUFFICES ASSUME IInv, [Next]_vars PROVE IInv'
    OBVIOUS
  <1>1. ASSUME NEW t \in Tranches, NEW n \in 1..Wallets, Deposit(t, n) PROVE IInv'
    BY <1>1, DepositIInv
  <1>2. ASSUME NEW t \in Tranches, NEW u \in Users, NEW n \in 1..free[t],
               RequestRedeem(t, u, n)
        PROVE  IInv'
    BY <1>2, RequestRedeemIInv
  <1>3. ASSUME NEW t \in Tranches, NEW u \in Users, FulfillRedeem(t, u) PROVE IInv'
    BY <1>3, FulfillRedeemIInv
  <1>4. ASSUME NEW t \in Tranches, NEW u \in Users, ClaimEpoch(t, u) PROVE IInv'
    BY <1>4, ClaimEpochIInv
  <1>5. ASSUME NEW t \in Tranches, NEW u \in Users, NEW n \in 1..claimable[t][u],
               Redeem(t, u, n)
        PROVE  IInv'
    BY <1>5, RedeemIInv
  <1>6. CASE ExecuteEpoch
    BY <1>6, ExecuteEpochIInv
  <1>7. CASE Rebalance
    BY <1>7, RebalanceIInv
  <1>8. CASE SetFrozen \/ MarketMoves \/ Expire \/ UNCHANGED vars
    BY <1>8, EnvironmentIInv
  <1> QED BY <1>1, <1>2, <1>3, <1>4, <1>5, <1>6, <1>7, <1>8 DEF Next

LEMMA Invariance == Spec => []IInv
  BY InitIInv, NextIInv, PTL DEF Spec

\* Types: balances, orders, locks and principal stay natural, so no handler of the
\* accountant or the vaults ever takes more than there is.
THEOREM TypeCorrect == Spec => []TypeOK
  <1>1. IInv => TypeOK
    BY DEF IInv
  <1> QED BY Invariance, <1>1, PTL

\* Until expiry every vault holds what its filled orders are owed (fills of the keeper
\* and of snapshots, rebalancing, partial claims, at any price).
THEOREM LocksAreBacked == Spec => []LockedIsBacked
  <1>1. IInv => LockedIsBacked
    BY DEF IInv
  <1> QED BY Invariance, <1>1, PTL

-----------------------------------------------------------------------------
(* A tranche's lock is what its filled orders are owed *)

Owed(t) == SumFunction(claimable[t])

\* What is owed is a natural, and at least what is owed to any one user.
LEMMA OwedType ==
    ASSUME TypeOK, NEW t \in Tranches
    PROVE  Owed(t) \in Nat /\ \A u \in Users : claimable[t][u] <= Owed(t)
  <1>1. claimable[t] \in [Users -> Nat]
    BY DEF TypeOK
  <1> QED BY <1>1, UsersAssumption, SumType, SummandWithinSum DEF Owed

\* A change of one user's filled order changes what its tranche owes by as much.
LEMMA OrderChanges ==
    ASSUME TypeOK, NEW t \in Tranches, NEW u \in Users, NEW n \in Nat,
           claimable' = [claimable EXCEPT ![t][u] = n]
    PROVE  /\ Owed(t)' = Owed(t) + n - claimable[t][u]
           /\ \A s \in Tranches \ {t} : Owed(s)' = Owed(s)
  <1> DEFINE before == claimable[t]
             after  == [before EXCEPT ![u] = n]
  <1>1. claimable \in [Tranches -> [Users -> Nat]] /\ before \in [Users -> Nat]
    BY DEF TypeOK
  <1>2. claimable'[t] = after /\ \A s \in Tranches \ {t} : claimable'[s] = claimable[s]
    BY <1>1
  <1>3. /\ after \in [Users -> Nat] /\ after[u] = n
        /\ \A v \in Users \ {u} : after[v] = before[v]
    BY <1>1
  <1> HIDE DEF after
  <1>4. SumFunction(after) = SumFunction(before) + after[u] - before[u]
    <2> HIDE DEF before
    <2> QED BY <1>1, <1>3, UsersAssumption, SumOfChanged
  <1> QED BY <1>2, <1>3, <1>4 DEF Owed

LEMMA FillOwed ==
    ASSUME TypeOK, NEW t \in Tranches, NEW u \in Users, NEW held \in [Tranches -> Nat],
           NEW shares \in Nat, NEW assets \in Nat, ApplyFill(t, u, held, shares, assets),
           \A s \in Tranches : locked[s] = Owed(s)
    PROVE  \A s \in Tranches : locked'[s] = Owed(s)'
  <1> DEFINE paid == Fillable(t, held, shares, assets)
  <1>1. paid \in Nat
    BY FillableType
  <1>2. /\ claimable' = [claimable EXCEPT ![t][u] = @ + paid]
        /\ locked' = [locked EXCEPT ![t] = @ + paid]
    BY DEF ApplyFill
  <1> HIDE DEF paid
  <1>3. claimable[t][u] \in Nat /\ Owed(t) \in Nat
    BY OwedType DEF TypeOK
  <1> DEFINE filled == claimable[t][u] + paid
  <1>4. claimable' = [claimable EXCEPT ![t][u] = filled] /\ filled \in Nat
    BY <1>1, <1>2, <1>3
  <1>5. /\ Owed(t)' = Owed(t) + filled - claimable[t][u]
        /\ \A s \in Tranches \ {t} : Owed(s)' = Owed(s)
    <2> HIDE DEF filled
    <2> QED BY <1>4, OrderChanges
  <1>6. Owed(t)' = Owed(t) + paid
    BY <1>1, <1>3, <1>5
  <1>7. locked'[t] = locked[t] + paid /\ \A s \in Tranches \ {t} : locked'[s] = locked[s]
    BY <1>2 DEF TypeOK
  <1> QED BY <1>5, <1>6, <1>7

LEMMA RedeemOwed ==
    ASSUME TypeOK, ~expired, NEW t \in Tranches, NEW u \in Users,
           NEW paid \in 1..claimable[t][u], Redeem(t, u, paid),
           \A s \in Tranches : locked[s] = Owed(s)
    PROVE  \A s \in Tranches : locked'[s] = Owed(s)'
  <1>1. /\ claimable[t][u] \in Nat /\ Owed(t) \in Nat /\ claimable[t][u] <= Owed(t)
        /\ paid \in Nat /\ paid <= claimable[t][u]
    BY OwedType DEF TypeOK
  <1>2. /\ claimable' = [claimable EXCEPT ![t][u] = claimable[t][u] - paid]
        /\ locked' = [locked EXCEPT ![t] = Monus(@, paid)]
    BY DEF Redeem
  <1>3. claimable[t][u] - paid \in Nat
    BY <1>1
  <1>4. /\ Owed(t)' = Owed(t) + (claimable[t][u] - paid) - claimable[t][u]
        /\ \A s \in Tranches \ {t} : Owed(s)' = Owed(s)
    BY <1>2, <1>3, OrderChanges
  <1>5. Owed(t)' = Owed(t) - paid
    BY <1>1, <1>4
  <1>6. /\ locked'[t] = Monus(locked[t], paid)
        /\ \A s \in Tranches \ {t} : locked'[s] = locked[s]
    BY <1>2 DEF TypeOK
  <1>7. Monus(Owed(t), paid) = Owed(t) - paid
    BY <1>1 DEF Monus
  <1> QED BY <1>4, <1>5, <1>6, <1>7

LEMMA OwedStep == TypeOK /\ LockIsOwed /\ [Next]_vars => LockIsOwed'
  <1> SUFFICES ASSUME TypeOK, LockIsOwed, [Next]_vars, ~expired'
               PROVE  \A s \in Tranches : locked'[s] = Owed(s)'
    BY DEF LockIsOwed, Owed
  <1> DEFINE Goal == \A s \in Tranches : locked'[s] = Owed(s)'
  <1>1. ASSUME ~expired PROVE \A s \in Tranches : locked[s] = Owed(s)
    BY <1>1 DEF LockIsOwed, Owed
  <1>2. ASSUME expired' = expired, UNCHANGED <<claimable, locked>> PROVE Goal
    BY <1>1, <1>2 DEF Owed
  <1> HIDE DEF Goal
  <1>3. ASSUME NEW t \in Tranches, NEW n \in 1..Wallets, Deposit(t, n) PROVE Goal
    BY <1>2, <1>3 DEF Deposit
  <1>4. ASSUME NEW t \in Tranches, NEW u \in Users, NEW n \in 1..free[t],
               RequestRedeem(t, u, n)
        PROVE  Goal
    BY <1>2, <1>4 DEF RequestRedeem
  <1>5. ASSUME NEW t \in Tranches, NEW u \in Users, FulfillRedeem(t, u) PROVE Goal
    <2>1. ~expired
      BY <1>5 DEF FulfillRedeem
    <2>2. pending[t][u] \in Nat /\ Rebalanced \in [Tranches -> Nat]
      BY RebalancedType DEF TypeOK
    <2>3. ToAssets(t, Rebalanced, pending[t][u]) \in Nat
      BY <2>2, ToAssetsType
    <2>4. ApplyFill(t, u, Rebalanced, pending[t][u],
                    ToAssets(t, Rebalanced, pending[t][u]))
      BY <1>5 DEF FulfillRedeem
    <2> QED BY <1>1, <2>1, <2>2, <2>3, <2>4, FillOwed DEF Goal
  <1>6. ASSUME NEW t \in Tranches, NEW u \in Users, ClaimEpoch(t, u) PROVE Goal
    <2>1. ~expired /\ balance \in [Tranches -> Nat]
      BY <1>6 DEF ClaimEpoch, TypeOK
    <2>2. EpochShares(t, u) \in Nat /\ EpochAssets(t, u) \in Nat
      BY EpochTypes
    <2>3. ApplyFill(t, u, balance, EpochShares(t, u), EpochAssets(t, u))
      BY <1>6 DEF ClaimEpoch, EpochShares, EpochAssets
    <2> QED BY <1>1, <2>1, <2>2, <2>3, FillOwed DEF Goal
  <1>7. ASSUME NEW t \in Tranches, NEW u \in Users, NEW n \in 1..claimable[t][u],
               Redeem(t, u, n)
        PROVE  Goal
    <2>1. ~expired
      BY <1>7 DEF Redeem
    <2> QED BY <1>1, <1>7, <2>1, RedeemOwed DEF Goal
  <1>8. ASSUME \/ ExecuteEpoch \/ Rebalance \/ SetFrozen \/ MarketMoves
               \/ UNCHANGED vars
        PROVE  Goal
    BY <1>2, <1>8 DEF ExecuteEpoch, Rebalance, SetFrozen, MarketMoves, vars
  <1>9. ASSUME Expire PROVE Goal
    BY <1>9 DEF Expire
  <1>10. Goal
    BY <1>3, <1>4, <1>5, <1>6, <1>7, <1>8, <1>9 DEF Next
  <1> QED BY <1>10 DEF Goal

\* Whatever is filled, claimed in parts or rebalanced, the accountant's lock of a tranche
\* is the sum of what the filled orders of its users are still owed, until expiry.
THEOREM LocksAreOwed == Spec => []LockIsOwed
  <1>1. Init => LockIsOwed
    <2> SUFFICES ASSUME Init, NEW t \in Tranches
                 PROVE  locked[t] = SumFunction(claimable[t])
      BY DEF LockIsOwed
    <2> DEFINE f == claimable[t]
    <2>1. f \in [Users -> Nat] /\ \A u \in Users : f[u] = 0
      BY DEF Init
    <2>2. locked[t] = 0
      BY DEF Init, Nothing
    <2> HIDE DEF f
    <2>3. SumFunction(f) = 0
      BY <2>1, UsersAssumption, SumOfZeros
    <2> QED BY <2>2, <2>3 DEF f
  <1> QED BY TypeCorrect, <1>1, OwedStep, PTL DEF Spec

-----------------------------------------------------------------------------
(* Fills *)

\* A fill of tranche t out of balances that hold as many hook shares as before.
Fills(t, u, held, shares, assets) ==
    /\ ApplyFill(t, u, held, shares, assets)
    /\ balance' = held
    /\ held["senior"] + held["junior"] = balance["senior"] + balance["junior"]
    /\ UNCHANGED <<market, free, seniorPrincipal>>

LEMMA FulfillRedeemFills ==
    ASSUME TypeOK, NEW t \in Tranches, NEW u \in Users, FulfillRedeem(t, u)
    PROVE  \E held \in [Tranches -> Nat], shares \in Nat \ {0}, assets \in Nat :
              Fills(t, u, held, shares, assets)
  <1>1. pending[t][u] \in Nat \ {0}
    BY DEF TypeOK, FulfillRedeem
  <1>2. Rebalanced \in [Tranches -> Nat]
    BY RebalancedType
  <1>3. ToAssets(t, Rebalanced, pending[t][u]) \in Nat
    BY <1>1, <1>2, ToAssetsType
  <1>4. Fills(t, u, Rebalanced, pending[t][u], ToAssets(t, Rebalanced, pending[t][u]))
    BY RebalancedType DEF Fills, FulfillRedeem
  <1> QED BY <1>1, <1>2, <1>3, <1>4

LEMMA ClaimEpochFills ==
    ASSUME TypeOK, NEW t \in Tranches, NEW u \in Users, ClaimEpoch(t, u)
    PROVE  \E held \in [Tranches -> Nat], shares \in Nat \ {0}, assets \in Nat :
              Fills(t, u, held, shares, assets)
  <1>1. EpochShares(t, u) \in Nat /\ EpochAssets(t, u) \in Nat
    BY EpochTypes
  <1>2. EpochAssets(t, u) # 0
    BY DEF ClaimEpoch, EpochAssets, EpochShares
  <1>3. EpochShares(t, u) # 0
    <2>1. snap.rate[t] \in Nat /\ RateUnit \in Nat \ {0}
      BY UnitsAssumption DEF TypeOK
    <2>2. (0 * snap.rate[t]) \div RateUnit = 0
      BY <2>1
    <2> QED BY <1>2, <2>2 DEF EpochAssets
  <1>4. Fills(t, u, balance, EpochShares(t, u), EpochAssets(t, u))
    BY DEF Fills, ClaimEpoch, EpochAssets, EpochShares, TypeOK, Tranches
  <1> QED BY <1>1, <1>3, <1>4 DEF TypeOK

\* The steps that take shares out of a tranche's orders or add to its locks.
LEMMA FillSteps ==
    ASSUME TypeOK, [Next]_vars, NEW t \in Tranches,
           requested'[t] < requested[t] \/ locked'[t] > locked[t]
    PROVE  \E u \in Users, held \in [Tranches -> Nat], shares \in Nat \ {0}, assets \in Nat :
              Fills(t, u, held, shares, assets)
  <1>1. ASSUME NEW s \in Tranches, NEW n \in 1..Wallets, Deposit(s, n) PROVE FALSE
    BY <1>1 DEF Deposit, TypeOK
  <1>2. ASSUME NEW s \in Tranches, NEW u \in Users, NEW n \in 1..free[s],
               RequestRedeem(s, u, n)
        PROVE  FALSE
    BY <1>2 DEF RequestRedeem, TypeOK
  <1>3. ASSUME NEW s \in Tranches, NEW u \in Users, NEW held, NEW shares, NEW assets,
               ApplyFill(s, u, held, shares, assets)
        PROVE  s = t
    BY <1>3 DEF ApplyFill, TypeOK
  <1>4. ASSUME NEW s \in Tranches, NEW u \in Users, FulfillRedeem(s, u) PROVE s = t
    BY <1>3, <1>4 DEF FulfillRedeem
  <1>5. ASSUME NEW s \in Tranches, NEW u \in Users, ClaimEpoch(s, u) PROVE s = t
    BY <1>3, <1>5 DEF ClaimEpoch
  <1>6. ASSUME NEW s \in Tranches, NEW u \in Users, NEW n \in 1..claimable[s][u],
               Redeem(s, u, n)
        PROVE  FALSE
    <2>1. n \in Nat /\ locked[s] \in Nat /\ locked[t] \in Nat
      BY DEF TypeOK
    <2>2. requested' = requested
      BY <1>6 DEF Redeem
    <2>3. locked' = locked \/ locked' = [locked EXCEPT ![s] = Monus(@, n)]
      BY <1>6 DEF Redeem
    <2>4. Monus(locked[s], n) \in Nat /\ Monus(locked[s], n) <= locked[s]
      BY <2>1, Clamps
    <2>5. locked'[t] \in Nat /\ locked'[t] <= locked[t]
      BY <2>1, <2>3, <2>4 DEF TypeOK
    <2> QED BY <2>1, <2>2, <2>5 DEF TypeOK
  <1>7. ASSUME \/ ExecuteEpoch \/ Rebalance \/ SetFrozen \/ MarketMoves \/ Expire
               \/ UNCHANGED vars
        PROVE  FALSE
    BY <1>7 DEF ExecuteEpoch, Rebalance, SetFrozen, MarketMoves, Expire, vars, TypeOK
  <1>8. \E u \in Users : FulfillRedeem(t, u) \/ ClaimEpoch(t, u)
    BY <1>1, <1>2, <1>4, <1>5, <1>6, <1>7 DEF Next
  <1> QED BY <1>8, FulfillRedeemFills, ClaimEpochFills

LEMMA ValueSum ==
    ASSUME TypeOK, NEW m \in Nat, NEW n \in Nat
    PROVE  Value(m + n) = Value(m) + Value(n)
  BY ValueType DEF Value

\* The locks of a filled tranche grow by what the fill pays.
LEMMA FillLocks ==
    ASSUME TypeOK, NEW t \in Tranches, NEW u \in Users, NEW held \in [Tranches -> Nat],
           NEW shares \in Nat \ {0}, NEW assets \in Nat, Fills(t, u, held, shares, assets)
    PROVE  LET paid == Fillable(t, held, shares, assets)
           IN  /\ paid \in Nat /\ shares <= requested[t]
               /\ requested' = [requested EXCEPT ![t] = @ - shares]
               /\ locked' = [locked EXCEPT ![t] = @ + paid]
  BY FillableType DEF Fills, ApplyFill

LEMMA PromiseStep == TypeOK /\ [Next]_vars /\ locked'["senior"] > locked["senior"]
                        => Value(locked'["senior"]) <= seniorPrincipal
  <1> SUFFICES ASSUME TypeOK, [Next]_vars, locked'["senior"] > locked["senior"]
               PROVE  Value(locked'["senior"]) <= seniorPrincipal
    OBVIOUS
  <1>0. "senior" \in Tranches
    BY DEF Tranches
  <1>1. PICK u \in Users, held \in [Tranches -> Nat], shares \in Nat \ {0},
             assets \in Nat : Fills("senior", u, held, shares, assets)
    BY <1>0, FillSteps
  <1> DEFINE paid == Fillable("senior", held, shares, assets)
             before == locked["senior"]
  <1>2. /\ paid \in Nat /\ before \in Nat /\ seniorPrincipal \in Nat
        /\ locked'["senior"] = before + paid /\ shares <= requested["senior"]
    <2>1. /\ paid \in Nat /\ shares <= requested["senior"]
          /\ locked' = [locked EXCEPT !["senior"] = @ + paid]
      BY <1>0, <1>1, FillLocks
    <2> HIDE DEF paid
    <2> QED BY <1>0, <2>1 DEF TypeOK
  <1>3. Value(paid) <= SeniorClaim
    BY <1>0, <1>1, <1>2, FillWithinClaim DEF ClaimOf
  <1> HIDE DEF paid
  <1>4. Value(before + paid) = Value(before) + Value(paid)
    BY <1>2, ValueSum
  <1>5. Value(paid) \in Nat /\ Value(before) \in Nat /\ EffectivePool \in Nat
    BY <1>2, ValueType, ClaimTypes
  <1>6. SeniorClaim <= Monus(seniorPrincipal, Value(before))
    <2>1. Monus(seniorPrincipal, Value(before)) \in Nat
      BY <1>2, <1>5, Clamps
    <2> QED BY <1>5, <2>1, Clamps DEF SeniorClaim
  <1>7. CASE seniorPrincipal > Value(before)
    <2>1. Monus(seniorPrincipal, Value(before)) = seniorPrincipal - Value(before)
      BY <1>7 DEF Monus
    <2> QED BY <1>2, <1>3, <1>4, <1>5, <1>6, <2>1, ClaimTypes
  <1>8. CASE ~(seniorPrincipal > Value(before))
    <2>1. SeniorClaim = 0
      BY <1>6, <1>8, ClaimTypes DEF Monus
    <2>2. Value(paid) = 0
      BY <1>3, <1>5, <2>1
    <2>3. paid \in Nat \ {0}
      BY <1>2
    <2>4. market.nav = 0
      BY <2>2, <2>3, ValueType DEF Value
    <2>5. Value(before + paid) = 0
      BY <1>2, <2>4 DEF Value
    <2> QED BY <1>2, <2>5
  <1> QED BY <1>7, <1>8

\* However many fills, at whatever prices, no fill locks more for senior than its
\* principal.
THEOREM SeniorPromiseKept == Spec => SeniorWithinPromise
  <1>1. TypeOK /\ [Next]_vars
          => [locked'["senior"] > locked["senior"]
                => Value(locked'["senior"]) <= seniorPrincipal]_vars
    BY PromiseStep
  <1> QED BY TypeCorrect, <1>1, PTL DEF Spec, SeniorWithinPromise

\* What locking more, on either side, does to the two claims.
LEMMA SeniorLocks ==
    ASSUME NEW pool \in Nat, NEW lock \in Nat, NEW promise \in Nat, NEW mine \in Nat,
           NEW worth \in Nat, worth <= Least(Monus(promise, mine), Monus(pool, lock))
    PROVE  /\ Monus(pool, lock + worth) = Monus(pool, lock) - worth
           /\ Least(Monus(promise, mine + worth), Monus(pool, lock + worth))
                = Least(Monus(promise, mine), Monus(pool, lock)) - worth
  BY DEF Least, Monus

LEMMA JuniorLocks ==
    ASSUME NEW pool \in Nat, NEW lock \in Nat, NEW promise \in Nat, NEW mine \in Nat,
           NEW worth \in Nat,
           worth <= Monus(pool, lock) - Least(Monus(promise, mine), Monus(pool, lock))
    PROVE  /\ Monus(pool, lock + worth) = Monus(pool, lock) - worth
           /\ Least(Monus(promise, mine), Monus(pool, lock + worth))
                = Least(Monus(promise, mine), Monus(pool, lock))
  BY DEF Least, Monus

LEMMA ShareOfTheRest ==
    ASSUME NEW claim \in Nat, NEW supply \in Nat, NEW worth \in Nat, NEW shares \in Nat,
           worth <= claim, shares <= supply, worth * supply <= claim * shares
    PROVE  (claim - worth) * supply >= claim * (supply - shares)
  <1>1. (claim - worth) * supply = claim * supply - worth * supply
    OBVIOUS
  <1>2. claim * (supply - shares) = claim * supply - claim * shares
    OBVIOUS
  <1>3. /\ claim * supply \in Nat /\ worth * supply \in Nat /\ claim * shares \in Nat
    BY ProductNat
  <1> QED BY <1>1, <1>2, <1>3

\* A fill takes its worth out of the claim of its tranche, and nothing out of the other.
LEMMA FillClaims ==
    ASSUME TypeOK, NEW t \in Tranches, NEW u \in Users, NEW held \in [Tranches -> Nat],
           NEW shares \in Nat \ {0}, NEW assets \in Nat, Fills(t, u, held, shares, assets)
    PROVE  LET worth == Value(Fillable(t, held, shares, assets))
           IN  /\ ClaimOf(t)' = ClaimOf(t) - worth
               /\ ClaimOf(Sibling(t))' = ClaimOf(Sibling(t))
  <1> DEFINE paid  == Fillable(t, held, shares, assets)
             worth == Value(paid)
             lock  == Value(locked["senior"] + locked["junior"])
             mine  == Value(locked["senior"])
  <1>1. /\ paid \in Nat /\ shares <= requested[t]
        /\ locked' = [locked EXCEPT ![t] = @ + paid]
    BY FillLocks
  <1>2. worth \in Nat /\ worth <= ClaimOf(t)
    BY <1>1, FillWithinClaim
  <1> HIDE DEF paid
  <1>3. /\ locked["senior"] \in Nat /\ locked["junior"] \in Nat
        /\ locked["senior"] + locked["junior"] \in Nat
        /\ balance["senior"] + balance["junior"] \in Nat /\ seniorPrincipal \in Nat
    BY DEF TypeOK, Tranches
  <1>4. /\ lock \in Nat /\ mine \in Nat /\ PoolValue \in Nat
    BY <1>3, ValueType DEF PoolValue
  <1>5. PoolValue' = PoolValue /\ seniorPrincipal' = seniorPrincipal
    BY DEF Fills, PoolValue, Value
  <1>6. \A n \in Nat : Value(n)' = Value(n)
    BY DEF Fills, Value
  <1>7. Value(locked["senior"] + locked["junior"])' = lock + worth
    <2>1. locked'["senior"] + locked'["junior"]
            = (locked["senior"] + locked["junior"]) + paid
      BY <1>1, <1>3 DEF Tranches, TypeOK
    <2>2. Value((locked["senior"] + locked["junior"]) + paid) = lock + worth
      BY <1>1, <1>3, ValueSum
    <2> QED BY <2>1, <2>2 DEF Value, Fills
  <1> DEFINE Goal == /\ ClaimOf(t)' = ClaimOf(t) - worth
                     /\ ClaimOf(Sibling(t))' = ClaimOf(Sibling(t))
  <1>8. /\ ClaimOf("senior") = SeniorClaim
        /\ ClaimOf("junior") = EffectivePool - SeniorClaim
        /\ ClaimOf("senior")' = SeniorClaim'
        /\ ClaimOf("junior")' = EffectivePool' - SeniorClaim'
    BY DEF ClaimOf
  <1>9. ASSUME t = "senior" PROVE Goal
    <2>1. Value(locked["senior"])' = mine + worth
      <3>1. locked'["senior"] = locked["senior"] + paid
        BY <1>1, <1>9 DEF Tranches, TypeOK
      <3>2. Value(locked["senior"] + paid) = mine + worth
        BY <1>1, <1>3, ValueSum
      <3> QED BY <3>1, <3>2 DEF Value, Fills
    <2> HIDE DEF worth, lock, mine
    <2>2. worth <= Least(Monus(seniorPrincipal, mine), Monus(PoolValue, lock))
      BY <1>2, <1>9 DEF ClaimOf, SeniorClaim, EffectivePool, mine, lock
    <2>3. /\ EffectivePool' = EffectivePool - worth
          /\ SeniorClaim' = SeniorClaim - worth
      <3>1. EffectivePool' = Monus(PoolValue, lock + worth)
        BY <1>5, <1>7 DEF EffectivePool
      <3>2. SeniorClaim' = Least(Monus(seniorPrincipal, mine + worth),
                                 Monus(PoolValue, lock + worth))
        BY <1>5, <2>1, <3>1 DEF SeniorClaim
      <3>3. /\ EffectivePool = Monus(PoolValue, lock)
            /\ SeniorClaim = Least(Monus(seniorPrincipal, mine), Monus(PoolValue, lock))
        BY DEF EffectivePool, SeniorClaim, lock, mine
      <3>4. /\ Monus(PoolValue, lock + worth) = Monus(PoolValue, lock) - worth
            /\ Least(Monus(seniorPrincipal, mine + worth), Monus(PoolValue, lock + worth))
                 = Least(Monus(seniorPrincipal, mine), Monus(PoolValue, lock)) - worth
        <4>1. /\ PoolValue \in Nat /\ lock \in Nat /\ mine \in Nat /\ worth \in Nat
              /\ seniorPrincipal \in Nat
          BY <1>2, <1>3, <1>4
        <4> QED BY <4>1, <2>2, SeniorLocks
      <3> QED BY <3>1, <3>2, <3>3, <3>4
    <2> QED BY <1>2, <1>8, <1>9, <2>3, ClaimTypes DEF Sibling
  <1>10. ASSUME t = "junior" PROVE Goal
    <2>1. Value(locked["senior"])' = mine
      <3>1. locked'["senior"] = locked["senior"]
        BY <1>1, <1>10 DEF Tranches, TypeOK
      <3> QED BY <3>1 DEF Value, Fills
    <2> HIDE DEF worth, lock, mine
    <2>2. /\ EffectivePool = Monus(PoolValue, lock)
          /\ SeniorClaim = Least(Monus(seniorPrincipal, mine), Monus(PoolValue, lock))
      BY DEF EffectivePool, SeniorClaim, lock, mine
    <2>3. /\ EffectivePool' = EffectivePool - worth
          /\ SeniorClaim' = SeniorClaim
      <3>1. EffectivePool' = Monus(PoolValue, lock + worth)
        BY <1>5, <1>7 DEF EffectivePool
      <3>2. SeniorClaim' = Least(Monus(seniorPrincipal, mine),
                                 Monus(PoolValue, lock + worth))
        BY <1>5, <2>1, <3>1 DEF SeniorClaim
      <3>3. worth <= EffectivePool - SeniorClaim
        BY <1>2, <1>10 DEF ClaimOf
      <3>4. /\ Monus(PoolValue, lock + worth) = Monus(PoolValue, lock) - worth
            /\ Least(Monus(seniorPrincipal, mine), Monus(PoolValue, lock + worth))
                 = Least(Monus(seniorPrincipal, mine), Monus(PoolValue, lock))
        <4>1. /\ PoolValue \in Nat /\ lock \in Nat /\ mine \in Nat /\ worth \in Nat
              /\ seniorPrincipal \in Nat
          BY <1>2, <1>3, <1>4
        <4>2. worth <= Monus(PoolValue, lock)
                        - Least(Monus(seniorPrincipal, mine), Monus(PoolValue, lock))
          BY <2>2, <3>3
        <4> QED BY <4>1, <4>2, JuniorLocks
      <3> QED BY <2>2, <3>1, <3>2, <3>4
    <2> QED BY <1>2, <1>8, <1>10, <2>3, ClaimTypes DEF Sibling
  <1> QED BY <1>9, <1>10 DEF Tranches, worth, paid

LEMMA StayersStep ==
    ASSUME TypeOK, [Next]_vars, NEW t \in Tranches, requested'[t] < requested[t]
    PROVE  /\ ClaimOf(t)' * Supply(t) >= ClaimOf(t) * Supply(t)'
           /\ ClaimOf(Sibling(t))' = ClaimOf(Sibling(t))
  <1>1. PICK u \in Users, held \in [Tranches -> Nat], shares \in Nat \ {0},
             assets \in Nat : Fills(t, u, held, shares, assets)
    BY FillSteps
  <1> DEFINE worth == Value(Fillable(t, held, shares, assets))
  <1>2. /\ ClaimOf(t)' = ClaimOf(t) - worth
        /\ ClaimOf(Sibling(t))' = ClaimOf(Sibling(t))
    BY <1>1, FillClaims
  <1>3. shares <= requested[t] /\ requested' = [requested EXCEPT ![t] = @ - shares]
    BY <1>1, FillLocks
  <1>4. worth \in Nat /\ worth <= ClaimOf(t) /\ worth * Supply(t) <= ClaimOf(t) * shares
    BY <1>1, <1>3, FillWithinClaim
  <1> HIDE DEF worth
  <1>5. Supply(t) \in Nat /\ shares <= Supply(t) /\ ClaimOf(t) \in Nat
    BY <1>3, SupplyType, ClaimTypes DEF TypeOK
  <1>6. Supply(t)' = Supply(t) - shares
    <2>1. free' = free /\ requested'[t] = requested[t] - shares
      BY <1>1, <1>3 DEF Fills, TypeOK
    <2> QED BY <2>1 DEF Supply, TypeOK
  <1>7. (ClaimOf(t) - worth) * Supply(t) >= ClaimOf(t) * (Supply(t) - shares)
    BY <1>4, <1>5, ShareOfTheRest
  <1> QED BY <1>2, <1>6, <1>7

\* A fill never lowers the claim per share of those who stay, nor touches the other
\* tranche, for any fixed-point scale, price, snapshot and sequence of fills.
THEOREM StayersKeepTheirClaim == Spec => FillsFavourStayers
  <1>1. TypeOK /\ [Next]_vars
          => [\A t \in Tranches : requested'[t] < requested[t]
                => /\ ClaimOf(t)' * Supply(t) >= ClaimOf(t) * Supply(t)'
                   /\ ClaimOf(Sibling(t))' = ClaimOf(Sibling(t))]_vars
    BY StayersStep
  <1> QED BY TypeCorrect, <1>1, PTL DEF Spec, FillsFavourStayers

-----------------------------------------------------------------------------
(* Rebalancing *)

LEMMA DivLargest ==
    ASSUME NEW m \in Nat, NEW d \in Nat \ {0}, NEW n \in Nat, n * d <= m
    PROVE  n <= m \div d
  OBVIOUS

\* Senior's target in whole hook shares is its locks and the whole shares of its claim.
LEMMA TargetFloor ==
    ASSUME NEW total \in Nat \ {0}, NEW nav \in Nat \ {0}, NEW worth \in Nat
    PROVE  LET target == (total * worth) \div (total * nav)
           IN  target \in Nat /\ target * nav <= worth /\ worth < (target + 1) * nav
  <1> DEFINE target == (total * worth) \div (total * nav)
  <1>1. total * worth \in Nat /\ total * nav \in Nat \ {0}
    BY ProductNat
  <1>2. /\ target \in Nat /\ target * (total * nav) <= total * worth
        /\ total * worth < (target + 1) * (total * nav)
    BY <1>1, DivFloor
  <1> HIDE DEF target
  <1>3. (target * nav) * total <= worth * total
    BY <1>2
  <1>4. target * nav <= worth
    BY <1>2, <1>3, ProductNat, ProductCancels
  <1>5. worth < (target + 1) * nav
    <2>1. SUFFICES ASSUME (target + 1) * nav <= worth PROVE FALSE
      BY <1>2, ProductNat
    <2>2. (target + 1) * nav \in Nat
      BY <1>2, ProductNat
    <2>3. ((target + 1) * nav) * total <= worth * total
      BY <2>1, <2>2, ProductGrows
    <2>4. ((target + 1) * nav) * total = (target + 1) * (total * nav)
      BY <1>2
    <2>5. worth * total \in Nat /\ worth * total = total * worth
      BY ProductNat
    <2> QED BY <1>1, <1>2, <2>2, <2>3, <2>4, <2>5
  <1> QED BY <1>2, <1>4, <1>5 DEF target

\* The moves of _rebalance, in hook shares: given a target of mine + whole for senior,
\* with whole at most what both vaults hold unlocked, both sides end up with their part.
LEMMA MovesBack ==
    ASSUME NEW bs \in Nat, NEW bj \in Nat, NEW mine \in Nat, NEW theirs \in Nat,
           NEW whole \in Nat, whole <= Monus(bs + bj, mine + theirs)
    PROVE  LET target == mine + whole
               up     == Least(Monus(target, bs), Monus(bj, theirs))
               down   == Least(Monus(bs, target), Monus(bs, mine))
           IN  /\ whole <= Monus(bs + up - down, mine)
               /\ Monus(bs + bj, mine + theirs) - whole <= Monus(bj + down - up, theirs)
  BY DEF Least, Monus

LEMMA PartOfPool ==
    ASSUME NEW m \in Nat, NEW n \in Nat, NEW nav \in Nat
    PROVE  Monus(m * nav, n * nav) = Monus(m, n) * nav
  <1>1. CASE m > n
    <2>1. m * nav - n * nav = (m - n) * nav
      OBVIOUS
    <2>2. n * nav <= m * nav /\ n * nav \in Nat /\ m * nav \in Nat
      BY <1>1, ProductGrows, ProductNat
    <2> QED BY <1>1, <2>1, <2>2 DEF Monus
  <1>2. CASE ~(m > n)
    <2>1. m * nav <= n * nav /\ n * nav \in Nat /\ m * nav \in Nat
      BY <1>2, ProductGrows, ProductNat
    <2> QED BY <1>2, <2>1 DEF Monus
  <1> QED BY <1>1, <1>2

LEMMA RebalancedBacks ==
    ASSUME TypeOK, market.nav # 0, NEW t \in Tranches
    PROVE  ClaimOf(t) < Value(Spendable(t, Rebalanced) + 1)
  <1> DEFINE nav    == market.nav
             bs     == balance["senior"]
             bj     == balance["junior"]
             mine   == locked["senior"]
             theirs == locked["junior"]
             rooms  == Monus(bs + bj, mine + theirs)
             target == ((bs + bj) * (SeniorClaim + Value(mine))) \div PoolValue
             up     == Least(Monus(target, bs), Monus(bj, theirs))
             down   == Least(Monus(bs, target), Monus(bs, mine))
  <1>1. /\ bs \in Nat /\ bj \in Nat /\ mine \in Nat /\ theirs \in Nat
        /\ bs + bj \in Nat /\ mine + theirs \in Nat /\ nav \in Nat \ {0}
    BY ValueType DEF TypeOK, Tranches
  <1>2. EffectivePool = rooms * nav
    BY <1>1, PartOfPool DEF EffectivePool, PoolValue, Value
  <1>3. rooms \in Nat
    BY <1>1, Clamps
  <1>4. SeniorClaim \in Nat /\ SeniorClaim <= rooms * nav
    BY <1>2, ClaimTypes
  <1>5. /\ \A n \in Nat : n < (n + 1) * nav /\ 0 < (n + 1) * nav
        /\ \A m, n \in Nat : m <= n => m * nav <= n * nav
    BY <1>1, ProductGrows
  <1>6. CASE PoolValue = 0
    <2>1. bs + bj = 0
      BY <1>1, <1>6 DEF PoolValue, Value
    <2>2. rooms = 0
      BY <1>1, <2>1 DEF Monus
    <2>3. ClaimOf(t) = 0
      BY <1>1, <1>2, <1>4, <2>2 DEF ClaimOf
    <2>4. Spendable(t, Rebalanced) \in Nat
      BY RebalancedType, SpendableType
    <2> QED BY <1>5, <2>3, <2>4 DEF Value
  <1>7. CASE PoolValue # 0
    <2> DEFINE whole == target - mine
    <2>1. PoolValue = (bs + bj) * nav /\ bs + bj \in Nat \ {0}
      BY <1>1, <1>7 DEF PoolValue, Value
    <2>2. Value(mine) = mine * nav /\ Value(mine) \in Nat
      BY <1>1, ValueType DEF Value
    <2> HIDE DEF nav, bs, bj, mine, theirs
    <2>3. /\ target \in Nat
          /\ target * nav <= SeniorClaim + mine * nav
          /\ SeniorClaim + mine * nav < (target + 1) * nav
      BY <1>1, <1>4, <2>1, <2>2, TargetFloor
    <2> HIDE DEF target, rooms
    <2>4. /\ whole \in Nat /\ whole * nav <= SeniorClaim
          /\ SeniorClaim < (whole + 1) * nav
      <3>1. whole * nav = target * nav - mine * nav
        BY <1>1, <2>3
      <3>2. (target + 1) * nav - mine * nav = (target + 1 - mine) * nav
        BY <1>1, <2>3
      <3>3. /\ target * nav \in Nat /\ mine * nav \in Nat /\ (target + 1) * nav \in Nat
        BY <1>1, <2>3, ProductNat
      <3>4. 0 < (target + 1 - mine) * nav
        BY <1>4, <2>3, <3>2, <3>3
      <3>5. target + 1 - mine > 0
        BY <1>1, <2>3, <3>4
      <3>6. whole \in Nat /\ target + 1 - mine = whole + 1
        BY <1>1, <2>3, <3>5
      <3> QED BY <1>4, <2>3, <3>1, <3>2, <3>3, <3>6
    <2> HIDE DEF whole
    <2>5. whole <= rooms
      <3>1. whole * nav \in Nat /\ rooms * nav \in Nat /\ whole * nav <= rooms * nav
        BY <1>1, <1>3, <1>4, <2>4, ProductNat
      <3> QED BY <1>1, <1>3, <2>4, <3>1, ProductCancels
    <2>6. target = mine + whole
      BY <1>1, <2>3 DEF whole
    <2>7. /\ whole <= Monus(bs + up - down, mine)
          /\ rooms - whole <= Monus(bj + down - up, theirs)
      BY <1>1, <2>4, <2>5, <2>6, MovesBack DEF rooms
    <2>8. /\ Spendable("senior", Rebalanced) = Monus(bs + up - down, mine)
          /\ Spendable("junior", Rebalanced) = Monus(bj + down - up, theirs)
      BY <1>7 DEF Rebalanced, Spendable, Sibling, Tranches, target, bs, bj, mine, theirs
    <2> HIDE DEF up, down
    <2>9. /\ Spendable("senior", Rebalanced) \in Nat
          /\ Spendable("junior", Rebalanced) \in Nat
      BY RebalancedType, SpendableType DEF Tranches
    <2>10. CASE t = "senior"
      <3>1. whole + 1 <= Spendable("senior", Rebalanced) + 1
        BY <2>4, <2>7, <2>8, <2>9
      <3>2. (whole + 1) * nav <= (Spendable("senior", Rebalanced) + 1) * nav
        BY <1>5, <2>4, <2>9, <3>1
      <3>3. /\ (whole + 1) * nav \in Nat
            /\ (Spendable("senior", Rebalanced) + 1) * nav \in Nat
        BY <1>1, <2>4, <2>9, ProductNat
      <3>4. ClaimOf(t) = SeniorClaim /\ t = "senior"
        BY <2>10 DEF ClaimOf
      <3>5. Value(Spendable(t, Rebalanced) + 1) = (Spendable("senior", Rebalanced) + 1) * nav
        BY <3>4 DEF Value, nav
      <3>6. SeniorClaim < (Spendable("senior", Rebalanced) + 1) * nav
        BY <1>4, <2>4, <3>2, <3>3
      <3> QED BY <3>4, <3>5, <3>6
    <2>11. CASE t = "junior"
      <3>1. rooms - whole \in Nat /\ rooms - whole <= Spendable("junior", Rebalanced)
        BY <1>3, <2>4, <2>5, <2>7, <2>8, <2>9
      <3>2. (rooms - whole) * nav <= Spendable("junior", Rebalanced) * nav
        BY <1>5, <2>9, <3>1
      <3>3. (rooms - whole) * nav = rooms * nav - whole * nav
        BY <1>1, <1>3, <2>4
      <3>4. /\ (rooms - whole) * nav \in Nat /\ rooms * nav \in Nat /\ whole * nav \in Nat
            /\ Spendable("junior", Rebalanced) * nav \in Nat
        BY <1>1, <1>3, <2>4, <2>9, <3>1, ProductNat
      <3>5. (Spendable("junior", Rebalanced) + 1) * nav
              = Spendable("junior", Rebalanced) * nav + nav
        BY <1>1, <2>9
      <3>6. EffectivePool - SeniorClaim <= Spendable("junior", Rebalanced) * nav
        BY <1>2, <1>4, <2>4, <3>2, <3>3, <3>4 DEF nav, rooms, bs, bj, mine, theirs
      <3>7. ClaimOf(t) = EffectivePool - SeniorClaim /\ t = "junior"
        BY <2>11 DEF ClaimOf
      <3>8. Value(Spendable(t, Rebalanced) + 1) = (Spendable("junior", Rebalanced) + 1) * nav
        BY <3>7 DEF Value, nav
      <3>9. EffectivePool - SeniorClaim < (Spendable("junior", Rebalanced) + 1) * nav
        BY <1>1, <1>4, <3>4, <3>5, <3>6, ClaimTypes
      <3> QED BY <3>7, <3>8, <3>9
    <2> QED BY <2>10, <2>11 DEF Tranches
  <1> QED BY <1>6, <1>7

\* Rebalancing moves shares from vault to vault, and claims are over both.
LEMMA RebalanceNeutral ==
    ASSUME TypeOK, Rebalance \/ ExecuteEpoch, NEW t \in Tranches
    PROVE  ClaimOf(t)' = ClaimOf(t)
  <1>1. balance' = Rebalanced /\ UNCHANGED <<market, seniorPrincipal, locked>>
    BY DEF Rebalance, ExecuteEpoch
  <1>2. balance'["senior"] + balance'["junior"] = balance["senior"] + balance["junior"]
    BY <1>1, RebalancedType
  <1>3. PoolValue' = PoolValue
    BY <1>1, <1>2 DEF PoolValue, Value
  <1>4. EffectivePool' = EffectivePool /\ SeniorClaim' = SeniorClaim
    BY <1>1, <1>3 DEF EffectivePool, SeniorClaim, Value
  <1> QED BY <1>4 DEF ClaimOf

LEMMA BackingStep ==
    ASSUME TypeOK, Rebalance \/ ExecuteEpoch, NEW t \in Tranches, market'.nav # 0
    PROVE  (ClaimOf(t) < Value(Spendable(t, balance) + 1))'
  <1>1. balance' = Rebalanced /\ UNCHANGED <<market, seniorPrincipal, locked>>
    BY DEF Rebalance, ExecuteEpoch
  <1>5. ClaimOf(t)' = ClaimOf(t)
    BY RebalanceNeutral
  <1>6. Value(Spendable(t, balance) + 1)' = Value(Spendable(t, Rebalanced) + 1)
    BY <1>1 DEF Value, Spendable
  <1>7. ClaimOf(t) < Value(Spendable(t, Rebalanced) + 1)
    BY <1>1, RebalancedBacks
  <1> QED BY <1>5, <1>6, <1>7

\* Rebalancing gives each vault every whole hook share of its tranche's claim, with any
\* locks, even those that are no longer backed after expiry.
THEOREM RebalancingBacksClaims == Spec => BackingFollowsClaims
  <1>1. TypeOK /\ [Next]_vars
          => [Rebalance \/ ExecuteEpoch
                => \A t \in Tranches :
                     market.nav # 0 => (ClaimOf(t) < Value(Spendable(t, balance) + 1))']_vars
    BY BackingStep DEF Rebalance, ExecuteEpoch
  <1> QED BY TypeCorrect, <1>1, PTL DEF Spec, BackingFollowsClaims

-----------------------------------------------------------------------------
(* Settling filled orders *)

\* A claim depends on the shares in the pool less the locked ones, and on the promise less
\* what senior has locked.
LEMMA ClaimsFromRooms ==
    ASSUME TypeOK, TypeOK', market' = market,
           Monus(balance["senior"] + balance["junior"], locked["senior"] + locked["junior"])'
             = Monus(balance["senior"] + balance["junior"], locked["senior"] + locked["junior"]),
           Monus(seniorPrincipal, Value(locked["senior"]))'
             = Monus(seniorPrincipal, Value(locked["senior"])),
           NEW t \in Tranches
    PROVE  ClaimOf(t)' = ClaimOf(t)
  <1> DEFINE held  == balance["senior"] + balance["junior"]
             owing == locked["senior"] + locked["junior"]
             heldAfter  == balance'["senior"] + balance'["junior"]
             owingAfter == locked'["senior"] + locked'["junior"]
             nav   == market.nav
  <1>1. held \in Nat /\ owing \in Nat /\ heldAfter \in Nat /\ owingAfter \in Nat /\ nav \in Nat
    BY ValueType DEF TypeOK, Tranches
  <1>2. EffectivePool = Monus(held * nav, owing * nav)
    BY DEF EffectivePool, PoolValue, Value
  <1>3. EffectivePool' = Monus(heldAfter * nav, owingAfter * nav)
    BY DEF EffectivePool, PoolValue, Value, Monus
  <1>4. Monus(heldAfter, owingAfter) = Monus(held, owing)
    BY DEF Monus
  <1> HIDE DEF held, owing, heldAfter, owingAfter, nav
  <1>5. EffectivePool' = EffectivePool
    <2>1. EffectivePool = Monus(held, owing) * nav
      BY <1>1, <1>2, PartOfPool
    <2>2. EffectivePool' = Monus(heldAfter, owingAfter) * nav
      <3>1. Monus(heldAfter * nav, owingAfter * nav) = Monus(heldAfter, owingAfter) * nav
        BY <1>1, PartOfPool
      <3> QED BY <1>3, <3>1
    <2> QED BY <1>4, <2>1, <2>2
  <1>6. SeniorClaim' = SeniorClaim
    BY <1>5 DEF SeniorClaim, Least
  <1> QED BY <1>5, <1>6 DEF ClaimOf

\* Taking what is settled out of both sides of a difference leaves the difference.
LEMMA SettledDifference ==
    ASSUME NEW m \in Nat, NEW n \in Nat, NEW k \in Nat, k <= n
    PROVE  Monus(Monus(m, k), n - k) = Monus(m, n)
  BY DEF Monus

\* A payment of what is owed takes as much out of the vault as out of its lock, and as
\* much out of the promise as out of what senior has locked.
LEMMA RedeemNeutral ==
    ASSUME IInv, TypeOK', LockIsOwed, ~expired, NEW t \in Tranches, NEW u \in Users,
           NEW paid \in 1..claimable[t][u], Redeem(t, u, paid), NEW s \in Tranches
    PROVE  ClaimOf(s)' = ClaimOf(s)
  <1> DEFINE mine   == locked["senior"]
             theirs == locked["junior"]
             bs     == balance["senior"]
             bj     == balance["junior"]
  <1>1. TypeOK /\ paid \in Nat
    BY DEF IInv, TypeOK
  <1>2. paid <= locked[t] /\ locked[t] <= balance[t]
    <2>1. Owed(t) \in Nat /\ claimable[t][u] <= Owed(t) /\ claimable[t][u] \in Nat
      BY <1>1, OwedType DEF TypeOK
    <2>2. Owed(t) = locked[t]
      BY DEF LockIsOwed, Owed
    <2> QED BY <2>1, <2>2 DEF IInv, LockedIsBacked
  <1>3. /\ balance' = [balance EXCEPT ![t] = @ - paid]
        /\ seniorPrincipal' = IF t = "senior" THEN Monus(seniorPrincipal, Value(paid))
                              ELSE seniorPrincipal
        /\ locked' = [locked EXCEPT ![t] = Monus(@, paid)]
        /\ market' = market
    BY DEF Redeem
  <1>4. /\ mine \in Nat /\ theirs \in Nat /\ bs \in Nat /\ bj \in Nat
        /\ seniorPrincipal \in Nat
    BY <1>1 DEF TypeOK, Tranches
  <1>5. Monus(locked[t], paid) = locked[t] - paid
    BY <1>1, <1>2, <1>4 DEF Monus, Tranches
  <1>6. CASE t = "senior"
    <2>1. /\ balance'["senior"] = bs - paid /\ balance'["junior"] = bj
          /\ locked'["senior"] = mine - paid /\ locked'["junior"] = theirs
          /\ paid <= mine /\ mine <= bs
      BY <1>1, <1>2, <1>3, <1>5, <1>6 DEF TypeOK, Tranches
    <2> HIDE DEF mine, theirs, bs, bj
    <2>2. Monus(balance'["senior"] + balance'["junior"], locked'["senior"] + locked'["junior"])
            = Monus(bs + bj, mine + theirs)
      BY <1>1, <1>4, <2>1 DEF Monus
    <2>3. Value(mine) = Value(mine - paid) + Value(paid)
      <3>1. mine - paid \in Nat /\ mine = (mine - paid) + paid
        BY <1>1, <1>4, <2>1
      <3> QED BY <1>1, <3>1, ValueSum
    <2>4. Value(mine) \in Nat /\ Value(paid) \in Nat /\ Value(mine - paid) \in Nat
      <3>1. mine - paid \in Nat
        BY <1>1, <1>4, <2>1
      <3> QED BY <1>1, <1>4, <3>1, ValueType
    <2>5. Monus(Monus(seniorPrincipal, Value(paid)), Value(mine) - Value(paid))
            = Monus(seniorPrincipal, Value(mine))
      BY <1>4, <2>3, <2>4, SettledDifference
    <2>6. Value(mine) - Value(paid) = Value(mine - paid)
      BY <2>3, <2>4
    <2>7. Value(locked["senior"])' = Value(mine - paid)
      BY <1>3, <2>1 DEF Value
    <2>8. Monus(seniorPrincipal, Value(locked["senior"]))'
            = Monus(seniorPrincipal, Value(locked["senior"]))
      BY <1>3, <1>6, <2>5, <2>6, <2>7 DEF Monus, mine
    <2>9. Monus(balance["senior"] + balance["junior"], locked["senior"] + locked["junior"])'
            = Monus(balance["senior"] + balance["junior"], locked["senior"] + locked["junior"])
      BY <2>2 DEF mine, theirs, bs, bj, Monus
    <2> QED BY <1>1, <1>3, <2>8, <2>9, ClaimsFromRooms
  <1>7. CASE t = "junior"
    <2>1. /\ balance'["junior"] = bj - paid /\ balance'["senior"] = bs
          /\ locked'["junior"] = theirs - paid /\ locked'["senior"] = mine
          /\ paid <= theirs /\ theirs <= bj
      BY <1>1, <1>2, <1>3, <1>5, <1>7 DEF TypeOK, Tranches
    <2>2. seniorPrincipal' = seniorPrincipal
      BY <1>3, <1>7
    <2> HIDE DEF mine, theirs, bs, bj
    <2>3. Monus(balance'["senior"] + balance'["junior"], locked'["senior"] + locked'["junior"])
            = Monus(bs + bj, mine + theirs)
      BY <1>1, <1>4, <2>1 DEF Monus
    <2>4. Monus(seniorPrincipal, Value(locked["senior"]))'
            = Monus(seniorPrincipal, Value(locked["senior"]))
      BY <1>3, <2>1, <2>2 DEF Monus, Value, mine
    <2>5. Monus(balance["senior"] + balance["junior"], locked["senior"] + locked["junior"])'
            = Monus(balance["senior"] + balance["junior"], locked["senior"] + locked["junior"])
      BY <2>3 DEF mine, theirs, bs, bj, Monus
    <2> QED BY <1>1, <1>3, <2>4, <2>5, ClaimsFromRooms
  <1> QED BY <1>6, <1>7 DEF Tranches

\* A fill takes shares out of a tranche's orders.
LEMMA FillTakesShares ==
    ASSUME TypeOK, NEW t \in Tranches, NEW u \in Users,
           FulfillRedeem(t, u) \/ ClaimEpoch(t, u)
    PROVE  requested' # requested
  <1>1. PICK held \in [Tranches -> Nat], shares \in Nat \ {0}, assets \in Nat :
             Fills(t, u, held, shares, assets)
    BY FulfillRedeemFills, ClaimEpochFills
  <1>2. requested' = [requested EXCEPT ![t] = @ - shares]
    BY <1>1 DEF Fills, ApplyFill
  <1>3. requested'[t] = requested[t] - shares /\ requested[t] \in Nat
    BY <1>2 DEF TypeOK
  <1> QED BY <1>3

LEMMA NeutralStep ==
    ASSUME IInv, TypeOK', LockIsOwed, [Next]_vars, ~expired, Wallets' >= Wallets,
           UNCHANGED <<market, free, requested>>, NEW s \in Tranches
    PROVE  ClaimOf(s)' = ClaimOf(s)
  <1> DEFINE Goal == ClaimOf(s)' = ClaimOf(s)
  <1>0. TypeOK
    BY DEF IInv
  <1>1. ASSUME NEW t \in Tranches, NEW n \in 1..Wallets, Deposit(t, n) PROVE Goal
    <2>1. n \in Nat \ {0} /\ balance' = [balance EXCEPT ![t] = @ + n]
      BY <1>1 DEF Deposit
    <2>2. Wallets' = Wallets - n /\ Wallets \in Int
      BY <1>0, <2>1, UnitsAssumption DEF Wallets, TypeOK, Tranches
    <2> QED BY <2>1, <2>2
  <1>2. ASSUME NEW t \in Tranches, NEW u \in Users, NEW n \in 1..free[t],
               RequestRedeem(t, u, n)
        PROVE  Goal
    <2>1. free' = [free EXCEPT ![t] = @ - n] /\ n \in Nat \ {0}
      BY <1>0, <1>2 DEF RequestRedeem, TypeOK
    <2>2. free'[t] = free[t] - n /\ free[t] \in Nat
      BY <1>0, <2>1 DEF TypeOK
    <2> QED BY <2>1, <2>2
  <1>3. ASSUME NEW t \in Tranches, NEW u \in Users, FulfillRedeem(t, u) \/ ClaimEpoch(t, u)
        PROVE  Goal
    BY <1>0, <1>3, FillTakesShares
  <1>4. ASSUME NEW t \in Tranches, NEW u \in Users, NEW n \in 1..claimable[t][u],
               Redeem(t, u, n)
        PROVE  Goal
    BY <1>4, RedeemNeutral
  <1>5. ASSUME Rebalance \/ ExecuteEpoch PROVE Goal
    BY <1>0, <1>5, RebalanceNeutral
  <1>6. ASSUME SetFrozen \/ MarketMoves \/ Expire \/ UNCHANGED vars PROVE Goal
    <2>1. UNCHANGED <<market, balance, seniorPrincipal, locked>>
      BY <1>6 DEF SetFrozen, MarketMoves, Expire, vars
    <2> QED BY <2>1 DEF ClaimOf, SeniorClaim, EffectivePool, PoolValue, Value, Monus, Least
  <1> HIDE DEF Goal
  <1>7. Goal
    BY <1>1, <1>2, <1>3, <1>4, <1>5, <1>6 DEF Next
  <1> QED BY <1>7 DEF Goal

\* Paying filled orders, in whole or in parts, rebalancing and closing an epoch leave the
\* claims of both tranches as they were, at any price and with any locks.
THEOREM SettlingMovesNoClaim == Spec => SettlingIsNeutral
  <1>1. IInv /\ TypeOK' /\ LockIsOwed /\ [Next]_vars
          => [~expired /\ Wallets' >= Wallets /\ UNCHANGED <<market, free, requested>>
                => \A t \in Tranches : ClaimOf(t)' = ClaimOf(t)]_vars
    BY NeutralStep
  <1> QED BY Invariance, TypeCorrect, LocksAreOwed, <1>1, PTL DEF Spec, SettlingIsNeutral

-----------------------------------------------------------------------------
(* The equal-ratio rule *)

\* A fill within the sibling's ratio is, in parts of BPS, no larger a part.
LEMMA RatioInParts ==
    ASSUME NEW jd \in Nat \ {0}, NEW sd \in Nat \ {0}, NEW jf \in Nat, NEW sf \in Nat,
           NEW unit \in Nat, jf <= (jd * sf) \div sd
    PROVE  (jf * unit) \div jd <= (sf * unit) \div sd
  <1> DEFINE part == (jf * unit) \div jd
             all  == jd * sf
  <1>1. /\ jf * unit \in Nat /\ all \in Nat /\ sf * unit \in Nat
        /\ jf * sd \in Nat
    BY ProductNat
  <1>2. part \in Nat /\ part * jd <= jf * unit
    BY <1>1, DivFloor
  <1>3. all \div sd \in Nat /\ (all \div sd) * sd <= all
    BY <1>1, DivFloor
  <1>4. jf * sd <= (all \div sd) * sd
    BY <1>3, ProductGrows
  <1> HIDE DEF part
  <1>5. jf * sd <= jd * sf
    <2>1. (all \div sd) * sd \in Nat
      BY <1>3, ProductNat
    <2> QED BY <1>1, <1>3, <1>4, <2>1
  <1>6. (part * jd) * sd <= (jf * unit) * sd
    BY <1>1, <1>2, ProductNat, ProductGrows
  <1>7. (jf * sd) * unit <= (jd * sf) * unit
    BY <1>1, <1>5, ProductGrows
  <1>8. /\ (part * jd) * sd = (part * sd) * jd
        /\ (jf * unit) * sd = (jf * sd) * unit
        /\ (jd * sf) * unit = (sf * unit) * jd
    BY <1>2
  <1>9. /\ part * sd \in Nat /\ (part * sd) * jd \in Nat
        /\ (jf * sd) * unit \in Nat /\ (sf * unit) * jd \in Nat
    BY <1>1, <1>2, ProductNat
  <1>10. (part * sd) * jd <= (sf * unit) * jd
    BY <1>6, <1>7, <1>8, <1>9
  <1>11. part * sd <= sf * unit
    BY <1>1, <1>9, <1>10, ProductCancels
  <1>12. part <= (sf * unit) \div sd
    BY <1>1, <1>2, <1>11, DivLargest
  <1> QED BY <1>12 DEF part

LEMMA RatioOfFills ==
    ASSUME TypeOK, NEW held \in [Tranches -> Nat], requested["senior"] # 0,
           requested["junior"] # 0, ToAssets("senior", held, requested["senior"]) # 0,
           Spendable("senior", held) # 0
    PROVE  JuniorFill(held, SeniorFill(held)).f <= SeniorFill(held).f
  <1> DEFINE senior == SeniorFill(held)
             sd     == ToAssets("senior", held, requested["senior"])
             jd     == ToAssets("junior", held, requested["junior"])
             ratio  == (jd * senior.fill) \div sd
             keep   == ((Spendable("senior", held) - senior.fill) * FloorBps)
                         \div (BPS - FloorBps)
             room   == Monus(Spendable("junior", held), IF frozen THEN 0 ELSE keep)
             rate   == (jd * RateUnit) \div requested["junior"]
             fill   == IF rate = 0 THEN 0 ELSE Least(jd, Least(room, ratio))
  <1>1. "senior" \in Tranches /\ "junior" \in Tranches
    BY DEF Tranches
  <1>2. requested["senior"] \in Nat /\ requested["junior"] \in Nat
    BY <1>1 DEF TypeOK
  <1>3. sd \in Nat \ {0} /\ jd \in Nat
    BY <1>1, <1>2, ToAssetsType
  <1>4. senior \in [f : Nat, rate : Nat, demand : Nat, fill : Nat]
    BY SeniorFillType
  <1>5. senior.demand = sd /\ senior.f = (senior.fill * BPS) \div sd
    BY <1>3 DEF SeniorFill
  <1>6. CASE jd = 0
    <2>1. JuniorFill(held, senior).f = 0
      BY <1>6 DEF JuniorFill
    <2> QED BY <1>4, <2>1
  <1>7. CASE jd # 0
    <2>1. JuniorFill(held, senior).f = (fill * BPS) \div jd
      BY <1>3, <1>5, <1>7 DEF JuniorFill
    <2>2. senior.fill \in Nat /\ jd * senior.fill \in Nat /\ senior.fill <= Spendable("senior", held)
      BY <1>3, <1>4, ProductNat, SeniorFillType
    <2>3. ratio \in Nat
      BY <1>3, <2>2, DivFloor
    <2>4. room \in Nat
      <3>1. /\ BPS - FloorBps \in Nat \ {0} /\ FloorBps \in Nat
            /\ Spendable("senior", held) \in Nat /\ Spendable("junior", held) \in Nat
        BY <1>1, FloorAssumption, SpendableType
      <3>2. (Spendable("senior", held) - senior.fill) * FloorBps \in Nat
        BY <2>2, <3>1, ProductNat
      <3>3. keep \in Nat
        BY <3>1, <3>2, DivFloor
      <3> QED BY <3>1, <3>3, Clamps
    <2> HIDE DEF ratio, room, rate
    <2>5. Least(room, ratio) \in Nat /\ Least(room, ratio) <= ratio
      BY <2>3, <2>4, Clamps
    <2>6. Least(jd, Least(room, ratio)) \in Nat /\ Least(jd, Least(room, ratio)) <= ratio
      BY <1>3, <2>3, <2>5, Clamps
    <2>7. fill \in Nat /\ fill <= ratio
      BY <2>3, <2>6
    <2> HIDE DEF fill
    <2>8. (fill * BPS) \div jd <= (senior.fill * BPS) \div sd
      BY <1>3, <1>7, <2>2, <2>7, FloorAssumption, RatioInParts DEF ratio
    <2> QED BY <1>5, <2>1, <2>8
  <1> QED BY <1>6, <1>7

\* Junior's part of an epoch is never larger than senior's, at any prices, floors,
\* locks and rates, wherever the equal-ratio rule is not waived.
THEOREM SeniorFilledFirst == Spec => JuniorNeverAhead
  <1>1. ASSUME TypeOK, ExecuteEpoch, requested["senior"] # 0, requested["junior"] # 0,
               ToAssets("senior", balance', requested["senior"]) # 0,
               Spendable("senior", balance') # 0
        PROVE  snap'.f["junior"] <= snap'.f["senior"]
    <2>1. balance' = Rebalanced /\ Rebalanced \in [Tranches -> Nat]
      BY <1>1, RebalancedType DEF ExecuteEpoch
    <2>2. /\ snap'.f["junior"] = JuniorFill(Rebalanced, SeniorFill(Rebalanced)).f
          /\ snap'.f["senior"] = SeniorFill(Rebalanced).f
      BY <1>1 DEF ExecuteEpoch, Tranches
    <2> QED BY <1>1, <2>1, <2>2, RatioOfFills
  <1>2. TypeOK /\ [Next]_vars
          => [(/\ ExecuteEpoch
               /\ \A t \in Tranches : requested[t] # 0
               /\ ToAssets("senior", balance', requested["senior"]) # 0
               /\ Spendable("senior", balance') # 0)
                => snap'.f["junior"] <= snap'.f["senior"]]_vars
    BY <1>1 DEF Tranches
  <1> QED BY TypeCorrect, <1>2, PTL DEF Spec, JuniorNeverAhead
=============================================================================
