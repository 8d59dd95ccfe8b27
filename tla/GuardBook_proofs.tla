--------------------------- MODULE GuardBook_proofs ---------------------------
(***************************************************************************)
(* GuardBook for every value of its constants: types, conservation of the   *)
(* tokens, an exited book is out, the band on every deployment, and the     *)
(* refinement of BookLifecycle.                                             *)
(***************************************************************************)
EXTENDS GuardBook, BookHandlers_proofs

Funds == [Assets -> Nat]

-----------------------------------------------------------------------------
(* Tokens and positions *)

LEMMA FundsAdd ==
  ASSUME NEW f \in Funds, NEW g \in Funds
  PROVE  /\ f ++ g \in Funds
         /\ Covers(f, g) => f -- g \in Funds
         /\ \A a \in Assets : (f ++ g)[a] = f[a] + g[a] /\ (f -- g)[a] = f[a] - g[a]
  BY DEF Funds, ++, --, Covers

LEMMA NothingIsFunds == Nothing \in Funds /\ \A a \in Assets : Nothing[a] = 0
  BY DEF Funds, Nothing

LEMMA WithinType ==
  ASSUME NEW n \in Int, NEW top \in Nat
  PROVE  Within(n, top) \in 0..top
  BY DEF Within

LEMMA ProductIsNat ==
  ASSUME NEW m \in Nat, NEW n \in Nat
  PROVE  m * n \in Nat
  OBVIOUS

LEMMA PositionType ==
  ASSUME NEW position \in Position
  PROVE  position.center \in Nat /\ position.liquidity \in Nat
  <1>1. position.center \in Prices \union {0} /\ position.liquidity \in Nat
    BY DEF Position
  <1>2. \A c \in Prices \union {0} : c \in Nat
    BY PricesAssumption
  <1> QED
    BY <1>1, <1>2

LEMMA AmountsType ==
  ASSUME NEW position \in Position, NEW width \in Nat, NEW p \in Nat
  PROVE  /\ Amounts(position, width, p) \in Funds
         /\ position.liquidity = 0 => Amounts(position, width, p) = Nothing
  <1> DEFINE below == Within(p - position.center + width, 2 * width)
             share(a) == IF a = "quote" THEN below ELSE 2 * width - below
  <1>1. position.center \in Nat /\ position.liquidity \in Nat
    BY PositionType
  <1>2. below \in 0..(2 * width)
    <2>1. p - position.center + width \in Int /\ 2 * width \in Nat
      BY <1>1
    <2> QED
      BY <2>1, WithinType
  <1>3. \A a \in Assets : share(a) \in Nat
    BY <1>2
  <1> HIDE DEF share
  <1>4. \A a \in Assets : position.liquidity * share(a) \in Nat
    BY <1>1, <1>3, ProductIsNat
  <1>5. Amounts(position, width, p) = [a \in Assets |-> position.liquidity * share(a)]
    BY DEF Amounts, share
  <1>6. position.liquidity = 0 => \A a \in Assets : position.liquidity * share(a) = 0
    BY <1>3
  <1> QED
    BY <1>4, <1>5, <1>6 DEF Funds, Nothing

-----------------------------------------------------------------------------
(* The internals of the hook keep its type, its flags and what it owns *)

\* The presence flag and the stored position agree.
Flagged(h) == h.guardPresent <=> h.guardPosition.liquidity # 0

Owned(h, p, asset) == h.idle[asset] + h.claims[asset] + Held(h, p)[asset]

SameOwned(g, h, p) == \A asset \in Assets : Owned(g, p, asset) = Owned(h, p, asset)

SamePhase(g, h) ==
    /\ g.poolInitialized = h.poolInitialized /\ g.exited = h.exited
    /\ g.deployEnabled = h.deployEnabled

LEMMA NoPositionType == NoPosition \in Position /\ NoPosition.liquidity = 0
  BY DEF NoPosition, Position

LEMMA HeldType ==
  ASSUME NEW h \in Hook, NEW p \in Nat
  PROVE  /\ GuardAmounts(h, p) \in Funds /\ BaseAmounts(h, p) \in Funds
         /\ Held(h, p) \in Funds
         /\ \A a \in Assets : Held(h, p)[a] = GuardAmounts(h, p)[a] + BaseAmounts(h, p)[a]
         /\ h.guardPosition.liquidity = 0 => GuardAmounts(h, p) = Nothing
         /\ h.basePosition.liquidity = 0 => BaseAmounts(h, p) = Nothing
  <1>1. h.guardPosition \in Position /\ h.basePosition \in Position
    BY DEF Hook
  <1>2. GuardWidth \in Nat /\ BaseWidth \in Nat
    BY WidthsAssumption
  <1>3. /\ GuardAmounts(h, p) \in Funds /\ BaseAmounts(h, p) \in Funds
        /\ h.guardPosition.liquidity = 0 => GuardAmounts(h, p) = Nothing
        /\ h.basePosition.liquidity = 0 => BaseAmounts(h, p) = Nothing
    BY <1>1, <1>2, AmountsType DEF GuardAmounts, BaseAmounts
  <1> QED
    BY <1>3, FundsAdd DEF Held

LEMMA RedeemKeeps ==
  ASSUME NEW h \in Hook, NEW p \in Nat, NEW amount \in Funds, Covers(h.claims, amount)
  PROVE  LET g == Redeem(h, amount)
         IN  /\ g \in Hook /\ SameOwned(g, h, p) /\ SamePhase(g, h)
             /\ g.guardPresent = h.guardPresent /\ g.guardPosition = h.guardPosition
             /\ g.basePosition = h.basePosition /\ g.pulledAt = h.pulledAt
             /\ g.idle = h.idle ++ amount /\ g.claims = h.claims -- amount
  <1> DEFINE g == Redeem(h, amount)
  <1>1. h.idle \in Funds /\ h.claims \in Funds
    BY DEF Hook, Funds
  <1>2. h.idle ++ amount \in Funds /\ h.claims -- amount \in Funds
    BY <1>1, FundsAdd
  <1>3. g = [h EXCEPT !.idle = h.idle ++ amount, !.claims = h.claims -- amount]
    BY DEF Redeem, Hook
  <1>4. /\ g.guardPresent = h.guardPresent /\ g.guardPosition = h.guardPosition
        /\ g.basePosition = h.basePosition /\ g.pulledAt = h.pulledAt
        /\ g.poolInitialized = h.poolInitialized /\ g.exited = h.exited
        /\ g.deployEnabled = h.deployEnabled
        /\ g.idle = h.idle ++ amount /\ g.claims = h.claims -- amount
    BY <1>3 DEF Hook
  <1>5. g \in Hook
    BY <1>2, <1>3 DEF Hook, Funds
  <1>6. Held(g, p) = Held(h, p)
    BY <1>4 DEF Held, GuardAmounts, BaseAmounts
  <1>7. SameOwned(g, h, p)
    <2> SUFFICES ASSUME NEW a \in Assets PROVE Owned(g, p, a) = Owned(h, p, a)
      BY DEF SameOwned
    <2>1. /\ (h.idle ++ amount)[a] = h.idle[a] + amount[a]
          /\ (h.claims -- amount)[a] = h.claims[a] - amount[a]
      BY <1>1, FundsAdd
    <2>2. h.idle[a] \in Nat /\ h.claims[a] \in Nat /\ amount[a] \in Nat
      BY <1>1 DEF Funds
    <2>3. Held(h, p)[a] \in Nat
      BY HeldType DEF Funds
    <2>4. g.idle[a] = h.idle[a] + amount[a] /\ g.claims[a] = h.claims[a] - amount[a]
      BY <1>4, <2>1
    <2> HIDE DEF g
    <2> QED
      BY <1>6, <2>2, <2>3, <2>4 DEF Owned
  <1> QED
    BY <1>4, <1>5, <1>7 DEF SamePhase

\* What every internal call of the hook keeps.
Keeps(g, h, p) == g \in Hook /\ Flagged(g) /\ SameOwned(g, h, p)

LEMMA KeepsTransitive ==
  ASSUME NEW f, NEW g, NEW h, NEW p, Keeps(f, g, p), Keeps(g, h, p)
  PROVE  Keeps(f, h, p)
  BY DEF Keeps, SameOwned

LEMMA UnwindAllKeeps ==
  ASSUME NEW h \in Hook, NEW p \in Nat, Flagged(h)
  PROVE  LET g == UnwindAll(h)
         IN  /\ Keeps(g, h, p) /\ SamePhase(g, h)
             /\ g.guardPresent = h.guardPresent /\ g.guardPosition = h.guardPosition
             /\ g.basePosition = h.basePosition /\ g.pulledAt = h.pulledAt
             /\ g.claims = Nothing
  <1>1. h.claims \in Funds /\ Covers(h.claims, h.claims)
    BY DEF Hook, Funds, Covers
  <1>2. h.claims -- h.claims = Nothing
    BY <1>1 DEF Funds, --, Nothing
  <1> QED
    BY <1>1, <1>2, RedeemKeeps DEF UnwindAll, Keeps, Flagged

LEMMA ChosenIsCovered ==
  ASSUME NEW f \in Funds, NEW amount \in [quote : 0..f["quote"], equity : 0..f["equity"]]
  PROVE  amount \in Funds /\ Covers(f, amount)
  <1>1. f["quote"] \in Nat /\ f["equity"] \in Nat
    BY DEF Funds, Assets
  <1>2. DOMAIN amount = Assets /\ amount = [a \in Assets |-> amount[a]]
    BY DEF Assets
  <1>3. amount["quote"] \in 0..f["quote"] /\ amount["equity"] \in 0..f["equity"]
    OBVIOUS
  <1>4. \A a \in Assets : amount[a] \in Nat /\ f[a] >= amount[a]
    BY <1>1, <1>3 DEF Assets
  <1> QED
    BY <1>2, <1>4 DEF Funds, Covers

LEMMA RedemptionsCovered ==
  ASSUME NEW h \in Hook, NEW amount \in Redemptions(h)
  PROVE  amount \in Funds /\ Covers(h.claims, amount)
  <1>1. h.claims \in Funds
    BY DEF Hook, Funds
  <1>2. amount \in [quote : 0..h.claims["quote"], equity : 0..h.claims["equity"]]
    BY DEF Redemptions
  <1> QED
    BY <1>1, <1>2, ChosenIsCovered

LEMMA PullGuardIdleKeeps ==
  ASSUME NEW h \in Hook, NEW p \in Nat, Flagged(h)
  PROVE  LET g == PullGuardIdle(h, p)
         IN  /\ Keeps(g, h, p) /\ SamePhase(g, h)
             /\ ~g.guardPresent /\ g.basePosition = h.basePosition
             /\ g.pulledAt = IF h.guardPresent THEN 0 ELSE h.pulledAt
             /\ ~h.guardPresent => g = h
  <1> DEFINE g == PullGuardIdle(h, p)
             taken == GuardAmounts(h, p)
  <1>1. CASE ~h.guardPresent
    <2>1. g = h
      BY <1>1 DEF PullGuardIdle
    <2> QED
      BY <1>1, <2>1 DEF Keeps, SameOwned, SamePhase
  <1>2. CASE h.guardPresent
    <2>1. h.idle \in Funds /\ taken \in Funds /\ h.idle ++ taken \in Funds
      BY HeldType, FundsAdd DEF Hook, Funds
    <2>2. g = [h EXCEPT !.idle = h.idle ++ taken, !.guardPosition = NoPosition,
                        !.guardPresent = FALSE, !.pulledAt = 0]
      BY <1>2 DEF PullGuardIdle, Flagged, Hook
    <2>3. /\ g.idle = h.idle ++ taken /\ g.guardPosition = NoPosition
          /\ ~g.guardPresent /\ g.pulledAt = 0
          /\ g.basePosition = h.basePosition /\ g.claims = h.claims
          /\ SamePhase(g, h)
      BY <2>2 DEF Hook, SamePhase
    <2>4. g \in Hook
      BY <2>1, <2>2, TimeIsAnAge, NoPositionType DEF Hook, Funds
    <2>5. Flagged(g)
      BY <2>3, NoPositionType DEF Flagged
    <2>6. GuardAmounts(g, p) = Nothing /\ BaseAmounts(g, p) = BaseAmounts(h, p)
      <3>1. GuardAmounts(g, p) = Nothing
        BY <2>3, <2>4, NoPositionType, HeldType
      <3> QED
        BY <3>1, <2>3 DEF BaseAmounts
    <2>7. SameOwned(g, h, p)
      <3> SUFFICES ASSUME NEW a \in Assets PROVE Owned(g, p, a) = Owned(h, p, a)
        BY DEF SameOwned
      <3>1. g.idle[a] = h.idle[a] + taken[a]
        BY <2>1, <2>3, FundsAdd
      <3>2. Held(h, p)[a] = taken[a] + BaseAmounts(h, p)[a]
        BY HeldType
      <3>3. Held(g, p)[a] = 0 + BaseAmounts(h, p)[a]
        BY <2>4, <2>6, HeldType, NothingIsFunds
      <3>4. /\ h.idle[a] \in Nat /\ h.claims[a] \in Nat
            /\ taken[a] \in Nat /\ BaseAmounts(h, p)[a] \in Nat
        <4>1. h.idle \in Funds /\ h.claims \in Funds /\ BaseAmounts(h, p) \in Funds
          BY HeldType DEF Hook, Funds
        <4> QED
          BY <2>1, <4>1 DEF Funds
      <3> HIDE DEF g, taken
      <3> QED
        BY <2>3, <3>1, <3>2, <3>3, <3>4 DEF Owned
    <2> QED
      BY <1>2, <2>3, <2>4, <2>5, <2>7 DEF Keeps
  <1> QED
    BY <1>1, <1>2

LEMMA PullGuardClaimsKeeps ==
  ASSUME NEW h \in Hook, NEW p \in Nat, Flagged(h)
  PROVE  LET g == PullGuardClaims(h, p)
         IN  /\ Keeps(g, h, p) /\ SamePhase(g, h)
             /\ ~g.guardPresent /\ g.basePosition = h.basePosition
             /\ g.pulledAt = IF h.guardPresent THEN 0 ELSE h.pulledAt
             /\ ~h.guardPresent => g = h
  <1> DEFINE g == PullGuardClaims(h, p)
             taken == GuardAmounts(h, p)
  <1>1. CASE ~h.guardPresent
    <2>1. g = h
      BY <1>1 DEF PullGuardClaims
    <2> QED
      BY <1>1, <2>1 DEF Keeps, SameOwned, SamePhase
  <1>2. CASE h.guardPresent
    <2>1. h.claims \in Funds /\ taken \in Funds /\ h.claims ++ taken \in Funds
      BY HeldType, FundsAdd DEF Hook, Funds
    <2>2. g = [h EXCEPT !.claims = h.claims ++ taken, !.guardPosition = NoPosition,
                        !.guardPresent = FALSE, !.pulledAt = 0]
      BY <1>2 DEF PullGuardClaims, Flagged, Hook
    <2>3. /\ g.claims = h.claims ++ taken /\ g.guardPosition = NoPosition
          /\ ~g.guardPresent /\ g.pulledAt = 0
          /\ g.basePosition = h.basePosition /\ g.idle = h.idle
          /\ SamePhase(g, h)
      BY <2>2 DEF Hook, SamePhase
    <2>4. g \in Hook
      BY <2>1, <2>2, TimeIsAnAge, NoPositionType DEF Hook, Funds
    <2>5. Flagged(g)
      BY <2>3, NoPositionType DEF Flagged
    <2>6. GuardAmounts(g, p) = Nothing /\ BaseAmounts(g, p) = BaseAmounts(h, p)
      <3>1. GuardAmounts(g, p) = Nothing
        BY <2>3, <2>4, NoPositionType, HeldType
      <3> QED
        BY <3>1, <2>3 DEF BaseAmounts
    <2>7. SameOwned(g, h, p)
      <3> SUFFICES ASSUME NEW a \in Assets PROVE Owned(g, p, a) = Owned(h, p, a)
        BY DEF SameOwned
      <3>1. g.claims[a] = h.claims[a] + taken[a]
        BY <2>1, <2>3, FundsAdd
      <3>2. Held(h, p)[a] = taken[a] + BaseAmounts(h, p)[a]
        BY HeldType
      <3>3. Held(g, p)[a] = 0 + BaseAmounts(h, p)[a]
        BY <2>4, <2>6, HeldType, NothingIsFunds
      <3>4. /\ h.idle[a] \in Nat /\ h.claims[a] \in Nat
            /\ taken[a] \in Nat /\ BaseAmounts(h, p)[a] \in Nat
        <4>1. h.idle \in Funds /\ h.claims \in Funds /\ BaseAmounts(h, p) \in Funds
          BY HeldType DEF Hook, Funds
        <4> QED
          BY <2>1, <4>1 DEF Funds
      <3> HIDE DEF g, taken
      <3> QED
        BY <2>3, <3>1, <3>2, <3>3, <3>4 DEF Owned
    <2> QED
      BY <1>2, <2>3, <2>4, <2>5, <2>7 DEF Keeps
  <1> QED
    BY <1>1, <1>2

LEMMA PullBaseKeeps ==
  ASSUME NEW h \in Hook, NEW p \in Nat, Flagged(h)
  PROVE  LET g == PullBase(h, p)
         IN  /\ Keeps(g, h, p) /\ SamePhase(g, h)
             /\ g.guardPresent = h.guardPresent /\ g.guardPosition = h.guardPosition
             /\ g.basePosition.liquidity = 0 /\ g.pulledAt = h.pulledAt
  <1> DEFINE g == PullBase(h, p)
             taken == BaseAmounts(h, p)
  <1>1. CASE h.basePosition.liquidity = 0
    <2>1. g = h
      BY <1>1 DEF PullBase
    <2> QED
      BY <1>1, <2>1 DEF Keeps, SameOwned, SamePhase
  <1>2. CASE h.basePosition.liquidity # 0
    <2>1. h.idle \in Funds /\ taken \in Funds /\ h.idle ++ taken \in Funds
      BY HeldType, FundsAdd DEF Hook, Funds
    <2>2. g = [h EXCEPT !.idle = h.idle ++ taken, !.basePosition = NoPosition]
      BY <1>2 DEF PullBase, Hook
    <2>3. /\ g.idle = h.idle ++ taken /\ g.basePosition = NoPosition
          /\ g.guardPosition = h.guardPosition /\ g.guardPresent = h.guardPresent
          /\ g.pulledAt = h.pulledAt /\ g.claims = h.claims
          /\ SamePhase(g, h)
      BY <2>2 DEF Hook, SamePhase
    <2>4. g \in Hook
      BY <2>1, <2>2, NoPositionType DEF Hook, Funds
    <2>5. Flagged(g)
      BY <2>3 DEF Flagged
    <2>6. BaseAmounts(g, p) = Nothing /\ GuardAmounts(g, p) = GuardAmounts(h, p)
      <3>1. BaseAmounts(g, p) = Nothing
        BY <2>3, <2>4, NoPositionType, HeldType
      <3> QED
        BY <3>1, <2>3 DEF GuardAmounts
    <2>7. SameOwned(g, h, p)
      <3> SUFFICES ASSUME NEW a \in Assets PROVE Owned(g, p, a) = Owned(h, p, a)
        BY DEF SameOwned
      <3>1. g.idle[a] = h.idle[a] + taken[a]
        BY <2>1, <2>3, FundsAdd
      <3>2. Held(h, p)[a] = GuardAmounts(h, p)[a] + taken[a]
        BY HeldType
      <3>3. Held(g, p)[a] = GuardAmounts(h, p)[a] + 0
        BY <2>4, <2>6, HeldType, NothingIsFunds
      <3>4. /\ h.idle[a] \in Nat /\ h.claims[a] \in Nat
            /\ taken[a] \in Nat /\ GuardAmounts(h, p)[a] \in Nat
        <4>1. h.idle \in Funds /\ h.claims \in Funds /\ GuardAmounts(h, p) \in Funds
          BY HeldType DEF Hook, Funds
        <4> QED
          BY <2>1, <4>1 DEF Funds
      <3> HIDE DEF g, taken
      <3> QED
        BY <2>3, <3>1, <3>2, <3>3, <3>4 DEF Owned
    <2> QED
      BY <1>2, <2>3, <2>4, <2>5, <2>7, NoPositionType DEF Keeps
  <1> QED
    BY <1>1, <1>2

-----------------------------------------------------------------------------
(* Deployments *)

LEMMA ParamsType ==
  ASSUME params \in ParamChoices
  PROVE  /\ params.guardLiquidity \in Nat /\ params.guardLiquidity # 0
         /\ params.maxDeviation \in Nat
  BY ParamsAssumption

LEMMA OpenGuardKeeps ==
  ASSUME NEW h \in Hook, NEW p \in Prices, Flagged(h), params \in ParamChoices,
         ~h.guardPresent, Covers(h.idle, GuardNeed(p))
  PROVE  LET g == OpenGuard(h, p)
         IN  /\ Keeps(g, h, p) /\ SamePhase(g, h)
             /\ g.guardPresent /\ g.guardPosition = GuardAt(p)
             /\ g.basePosition = h.basePosition /\ g.pulledAt = NoTime
  <1> DEFINE g == OpenGuard(h, p)
             need == GuardNeed(p)
  <1>1. p \in Nat /\ GuardAt(p) \in Position /\ GuardAt(p).liquidity # 0
    <2>1. params.guardLiquidity \in Nat /\ params.guardLiquidity # 0
      BY ParamsType
    <2> QED
      BY <2>1, PricesAssumption DEF GuardAt, Position
  <1>2. need \in Funds
    BY <1>1, WidthsAssumption, AmountsType DEF GuardNeed
  <1>3. h.idle \in Funds /\ h.idle -- need \in Funds
    <2>1. h.idle \in Funds
      BY DEF Hook, Funds
    <2> QED
      BY <2>1, <1>2, FundsAdd
  <1>4. g = [h EXCEPT !.idle = h.idle -- need, !.guardPosition = GuardAt(p),
                      !.guardPresent = TRUE, !.pulledAt = NoTime]
    BY DEF OpenGuard, Hook
  <1>5. /\ g.idle = h.idle -- need /\ g.guardPosition = GuardAt(p)
        /\ g.guardPresent /\ g.pulledAt = NoTime
        /\ g.basePosition = h.basePosition /\ g.claims = h.claims
        /\ SamePhase(g, h)
    BY <1>4 DEF Hook, SamePhase
  <1>6. g \in Hook
    BY <1>1, <1>3, <1>4, TimeIsAnAge DEF Hook, Funds
  <1>7. Flagged(g)
    BY <1>1, <1>5 DEF Flagged
  <1>8. GuardAmounts(g, p) = need /\ BaseAmounts(g, p) = BaseAmounts(h, p)
    BY <1>5 DEF GuardAmounts, BaseAmounts, GuardNeed
  <1>9. GuardAmounts(h, p) = Nothing
    BY <1>1, HeldType DEF Flagged
  <1>10. SameOwned(g, h, p)
    <2> SUFFICES ASSUME NEW a \in Assets PROVE Owned(g, p, a) = Owned(h, p, a)
      BY DEF SameOwned
    <2>1. g.idle[a] = h.idle[a] - need[a]
      BY <1>2, <1>3, <1>5, FundsAdd
    <2>2. Held(h, p)[a] = 0 + BaseAmounts(h, p)[a]
      BY <1>1, <1>9, HeldType, NothingIsFunds
    <2>3. Held(g, p)[a] = need[a] + BaseAmounts(h, p)[a]
      BY <1>1, <1>6, <1>8, HeldType
    <2>4. /\ h.idle[a] \in Nat /\ h.claims[a] \in Nat
          /\ need[a] \in Nat /\ BaseAmounts(h, p)[a] \in Nat
      <3>1. h.claims \in Funds /\ BaseAmounts(h, p) \in Funds
        BY <1>1, HeldType DEF Hook, Funds
      <3> QED
        BY <1>2, <1>3, <3>1 DEF Funds
    <2> HIDE DEF g, need
    <2> QED
      BY <1>5, <2>1, <2>2, <2>3, <2>4 DEF Owned
  <1> QED
    BY <1>5, <1>6, <1>7, <1>10 DEF Keeps

LEMMA DeployBaseKeeps ==
  ASSUME NEW h \in Hook, NEW p \in Prices, Flagged(h), NEW g \in DeployBase(h, p)
  PROVE  /\ Keeps(g, h, p) /\ SamePhase(g, h)
         /\ g.guardPresent = h.guardPresent /\ g.guardPosition = h.guardPosition
         /\ g.basePosition.liquidity # 0 /\ g.pulledAt = h.pulledAt
  <1> DEFINE position == [center |-> p, liquidity |-> BaseLiquidity]
             need == Amounts(position, BaseWidth, p)
  <1>1. CASE h.basePosition.liquidity # 0
    <2>1. g = h
      BY <1>1 DEF DeployBase
    <2> QED
      BY <1>1, <2>1 DEF Keeps, SameOwned, SamePhase
  <1>2. CASE h.basePosition.liquidity = 0
    <2>1. p \in Nat /\ position \in Position /\ position.liquidity # 0
      BY PricesAssumption, ParamsAssumption DEF Position
    <2>2. need \in Funds
      BY <2>1, WidthsAssumption, AmountsType
    <2>3. /\ Covers(h.idle, need)
          /\ g = [h EXCEPT !.idle = h.idle -- need, !.basePosition = position]
      BY <1>2 DEF DeployBase, Hook
    <2>4. h.idle \in Funds /\ h.idle -- need \in Funds
      <3>1. h.idle \in Funds
        BY DEF Hook, Funds
      <3> QED
        BY <3>1, <2>2, <2>3, FundsAdd
    <2> HIDE DEF need, position
    <2>5. /\ g.idle = h.idle -- need /\ g.basePosition = position
          /\ g.guardPosition = h.guardPosition /\ g.guardPresent = h.guardPresent
          /\ g.pulledAt = h.pulledAt /\ g.claims = h.claims
          /\ SamePhase(g, h)
      BY <2>3 DEF Hook, SamePhase
    <2>6. g \in Hook
      BY <2>1, <2>3, <2>4 DEF Hook, Funds
    <2>7. Flagged(g)
      BY <2>5 DEF Flagged
    <2>8. BaseAmounts(g, p) = need /\ GuardAmounts(g, p) = GuardAmounts(h, p)
      BY <2>5 DEF GuardAmounts, BaseAmounts, need
    <2>9. BaseAmounts(h, p) = Nothing
      BY <1>2, <2>1, HeldType
    <2>10. SameOwned(g, h, p)
      <3> SUFFICES ASSUME NEW a \in Assets PROVE Owned(g, p, a) = Owned(h, p, a)
        BY DEF SameOwned
      <3>1. g.idle[a] = h.idle[a] - need[a]
        BY <2>2, <2>4, <2>5, FundsAdd
      <3>2. Held(h, p)[a] = GuardAmounts(h, p)[a] + 0
        BY <2>1, <2>9, HeldType, NothingIsFunds
      <3>3. Held(g, p)[a] = GuardAmounts(h, p)[a] + need[a]
        BY <2>1, <2>6, <2>8, HeldType
      <3>4. /\ h.idle[a] \in Nat /\ h.claims[a] \in Nat
            /\ need[a] \in Nat /\ GuardAmounts(h, p)[a] \in Nat
        <4>1. h.claims \in Funds /\ GuardAmounts(h, p) \in Funds
          BY <2>1, HeldType DEF Hook, Funds
        <4> QED
          BY <2>2, <2>4, <4>1 DEF Funds
      <3> QED
        BY <2>5, <3>1, <3>2, <3>3, <3>4 DEF Owned
    <2> QED
      BY <2>1, <2>5, <2>6, <2>7, <2>10 DEF Keeps
  <1> QED
    BY <1>1, <1>2

LEMMA DeployGuardKeeps ==
  ASSUME NEW h \in Hook, NEW p \in Prices, Flagged(h), params \in ParamChoices,
         NEW g \in DeployGuardStrict(h, p)
  PROVE  /\ Keeps(g, h, p) /\ SamePhase(g, h)
         /\ ~h.guardPresent /\ (oracle.usable => ~OffBand(p))
         /\ g.guardPresent /\ g.guardPosition = GuardAt(p)
         /\ g.basePosition = h.basePosition /\ g.pulledAt = NoTime
  <1> DEFINE u == UnwindAll(h)
  <1>1. /\ ~h.guardPresent /\ (oracle.usable => ~OffBand(p))
        /\ Covers(u.idle, GuardNeed(p)) /\ g = OpenGuard(u, p)
    BY DEF DeployGuardStrict
  <1>2. p \in Nat
    BY PricesAssumption
  <1>3. /\ Keeps(u, h, p) /\ SamePhase(u, h) /\ u \in Hook /\ Flagged(u)
        /\ ~u.guardPresent /\ u.basePosition = h.basePosition
    BY <1>1, <1>2, UnwindAllKeeps DEF Keeps
  <1> HIDE DEF u
  <1>4. /\ Keeps(g, u, p) /\ SamePhase(g, u)
        /\ g.guardPresent /\ g.guardPosition = GuardAt(p)
        /\ g.basePosition = u.basePosition /\ g.pulledAt = NoTime
    BY <1>1, <1>3, OpenGuardKeeps
  <1>5. Keeps(g, h, p)
    BY <1>3, <1>4, KeepsTransitive
  <1> QED
    BY <1>1, <1>3, <1>4, <1>5 DEF SamePhase

LEMMA TryDeployKeeps ==
  ASSUME NEW h \in Hook, NEW p \in Prices, Flagged(h), params \in ParamChoices,
         ~h.guardPresent, NEW g \in TryDeployGuardInSwap(h, p)
  PROVE  /\ Keeps(g, h, p) /\ SamePhase(g, h)
         /\ g.basePosition = h.basePosition
         /\ \/ ~g.guardPresent /\ g.pulledAt = h.pulledAt
            \/ /\ g.guardPresent /\ g.guardPosition = GuardAt(p)
               /\ g.pulledAt = NoTime /\ (oracle.usable => ~OffBand(p))
  <1>1. CASE params.maxDeviation # 0 /\ (~oracle.usable \/ OffBand(p))
    <2>1. g = h
      BY <1>1 DEF TryDeployGuardInSwap
    <2> QED
      BY <2>1 DEF Keeps, SameOwned, SamePhase
  <1>2. CASE ~(params.maxDeviation # 0 /\ (~oracle.usable \/ OffBand(p)))
    <2>1. PICK amount \in Redemptions(h) :
             g = IF Covers(Redeem(h, amount).idle, GuardNeed(p))
                 THEN OpenGuard(Redeem(h, amount), p) ELSE Redeem(h, amount)
      BY <1>2 DEF TryDeployGuardInSwap
    <2> DEFINE r == Redeem(h, amount)
    <2>2. p \in Nat
      BY PricesAssumption
    <2>3. /\ Keeps(r, h, p) /\ r \in Hook /\ Flagged(r) /\ SamePhase(r, h)
          /\ ~r.guardPresent /\ r.basePosition = h.basePosition
          /\ r.pulledAt = h.pulledAt
      <3>1. amount \in Funds /\ Covers(h.claims, amount)
        BY RedemptionsCovered
      <3> QED
        BY <2>2, <3>1, RedeemKeeps DEF Keeps, Flagged
    <2>4. oracle.usable => ~OffBand(p)
      BY <1>2 DEF OffBand
    <2> HIDE DEF r
    <2>5. CASE g = r
      BY <2>3, <2>5
    <2>6. CASE Covers(r.idle, GuardNeed(p)) /\ g = OpenGuard(r, p)
      <3>1. /\ Keeps(g, r, p) /\ SamePhase(g, r)
            /\ g.guardPresent /\ g.guardPosition = GuardAt(p)
            /\ g.basePosition = r.basePosition /\ g.pulledAt = NoTime
        BY <2>3, <2>6, OpenGuardKeeps
      <3>2. Keeps(g, h, p)
        BY <2>3, <3>1, KeepsTransitive
      <3> QED
        BY <2>3, <2>4, <3>1, <3>2 DEF SamePhase
    <2> QED
      BY <2>1, <2>5, <2>6 DEF r
  <1> QED
    BY <1>1, <1>2

\* The three things a call can do to the guard.
GuardStays(g, h) ==
    /\ g.guardPresent <=> h.guardPresent
    /\ g.guardPosition = h.guardPosition /\ g.pulledAt = h.pulledAt
GuardPulled(g, h) ==
    ~g.guardPresent /\ g.pulledAt = IF h.guardPresent THEN 0 ELSE h.pulledAt
GuardPlaced(g, p) ==
    /\ g.guardPresent /\ g.guardPosition = GuardAt(p) /\ g.pulledAt = NoTime
    /\ oracle.usable => ~OffBand(p)

LEMMA ArmHookKeeps ==
  ASSUME NEW h \in Hook, NEW p \in Prices, Flagged(h), params \in ParamChoices,
         NEW g \in ArmHook(h, p)
  PROVE  /\ Keeps(g, h, p) /\ SamePhase(g, h) /\ g.basePosition.liquidity # 0
         /\ IF h.deployEnabled THEN GuardPlaced(g, p) ELSE GuardStays(g, h)
  <1>1. PICK b \in DeployBase(h, p) :
           g \in IF h.deployEnabled THEN DeployGuardStrict(b, p) ELSE {b}
    BY DEF ArmHook
  <1>2. /\ Keeps(b, h, p) /\ SamePhase(b, h) /\ b \in Hook /\ Flagged(b)
        /\ b.guardPresent = h.guardPresent /\ b.guardPosition = h.guardPosition
        /\ b.basePosition.liquidity # 0 /\ b.pulledAt = h.pulledAt
    BY DeployBaseKeeps DEF Keeps
  <1>3. CASE h.deployEnabled
    <2>1. /\ Keeps(g, b, p) /\ SamePhase(g, b) /\ GuardPlaced(g, p)
          /\ g.basePosition = b.basePosition
      BY <1>1, <1>2, <1>3, DeployGuardKeeps DEF GuardPlaced
    <2>2. Keeps(g, h, p)
      BY <1>2, <2>1, KeepsTransitive
    <2> QED
      BY <1>2, <1>3, <2>1, <2>2 DEF SamePhase
  <1>4. CASE ~h.deployEnabled
    BY <1>1, <1>2, <1>4 DEF GuardStays
  <1> QED
    BY <1>3, <1>4

LEMMA BeforeSwapKeeps ==
  ASSUME NEW h \in Hook, NEW p \in Prices, Flagged(h), params \in ParamChoices,
         NEW g \in BeforeSwap(h, p)
  PROVE  /\ Keeps(g, h, p) /\ SamePhase(g, h)
         /\ g.basePosition = h.basePosition
         /\ h.exited => g = h
         /\ \/ GuardStays(g, h)
            \/ ~g.guardPresent /\ ~h.guardPresent /\ g.pulledAt = h.pulledAt
            \/ GuardPulled(g, h)
            \/ h.deployEnabled /\ GuardPlaced(g, p)
  <1>1. p \in Nat
    BY PricesAssumption
  <1>2. CASE g = h
    BY <1>2 DEF Keeps, SameOwned, SamePhase, GuardStays
  <1>3. CASE ~h.exited /\ g = PullGuardClaims(h, p)
    BY <1>1, <1>3, PullGuardClaimsKeeps DEF GuardPulled
  <1>4. CASE /\ ~h.exited /\ ~h.guardPresent /\ h.deployEnabled
             /\ g \in TryDeployGuardInSwap(h, p)
    BY <1>4, TryDeployKeeps DEF GuardPlaced
  <1> QED
    BY <1>2, <1>3, <1>4 DEF BeforeSwap

-----------------------------------------------------------------------------
(* The inductive invariant *)

OutOfPool(h) ==
    /\ h.guardPosition.liquidity = 0 /\ h.basePosition.liquidity = 0
    /\ h.claims = Nothing

\* What ExitedBookIsOut says, and as much of a book that is not initialised yet.
OutUnlessLive(h) ==
    /\ ~LiveHook(h) => OutOfPool(h)
    /\ h.exited => h.poolInitialized

IInv == TypeOK /\ Flagged(hook) /\ Conserved /\ OutUnlessLive(hook)

LEMMA OutHoldsNothing ==
  ASSUME NEW h \in Hook, NEW p \in Nat, OutOfPool(h)
  PROVE  Held(h, p) = Nothing
  <1>1. GuardAmounts(h, p) = Nothing /\ BaseAmounts(h, p) = Nothing
    BY HeldType DEF OutOfPool
  <1>2. \A a \in Assets : (Nothing ++ Nothing)[a] = 0
    BY FundsAdd, NothingIsFunds
  <1> QED
    BY <1>1, <1>2 DEF Held, ++, Nothing

LEMMA InitIInv == Init => IInv
  <1> SUFFICES ASSUME Init PROVE IInv
    OBVIOUS
  <1>1. Nothing \in Funds /\ NoPosition \in Position /\ NoPosition.liquidity = 0
    BY NothingIsFunds, NoPositionType
  <1>2. /\ hook \in Hook /\ Flagged(hook) /\ OutOfPool(hook)
        /\ hook.idle = Nothing /\ hook.claims = Nothing /\ ~hook.exited
    BY <1>1, TimeIsAnAge DEF Init, FreshHook, Hook, Funds, Flagged, OutOfPool
  <1>3. vault \in Funds /\ traders \in Funds
    BY FundsAssumption DEF Init, Funds
  <1>4. price \in Prices /\ price \in Nat
    BY PricesAssumption DEF Init
  <1>5. TypeOK
    BY <1>2, <1>3, <1>4 DEF TypeOK, Init, Funds
  <1>6. Held(hook, price) = Nothing
    BY <1>2, <1>4, OutHoldsNothing
  <1>7. Conserved
    <2> SUFFICES ASSUME NEW a \in Assets
                 PROVE  vault[a] + traders[a] + hook.idle[a] + hook.claims[a]
                          + Held(hook, price)[a] = VaultFunds + TraderFunds
      BY DEF Conserved
    <2>1. vault[a] = VaultFunds /\ traders[a] = TraderFunds
      BY DEF Init
    <2>2. hook.idle[a] = 0 /\ hook.claims[a] = 0 /\ Held(hook, price)[a] = 0
      BY <1>2, <1>6, NothingIsFunds
    <2> QED
      BY <2>1, <2>2, FundsAssumption
  <1> QED
    BY <1>2, <1>5, <1>7 DEF IInv, OutUnlessLive

\* Everything the books of all parties add up to, for one asset.
Total(v, t, h, p, a) == v[a] + t[a] + h.idle[a] + h.claims[a] + Held(h, p)[a]

LEMMA TotalOfParts ==
  ASSUME NEW v \in Funds, NEW t \in Funds, NEW h \in Hook, NEW p \in Nat, NEW a \in Assets
  PROVE  /\ v[a] \in Nat /\ t[a] \in Nat /\ h.idle[a] \in Nat /\ h.claims[a] \in Nat
         /\ Held(h, p)[a] \in Nat /\ Owned(h, p, a) \in Nat
         /\ Total(v, t, h, p, a) = v[a] + t[a] + Owned(h, p, a)
  <1>1. h.idle \in Funds /\ h.claims \in Funds /\ Held(h, p) \in Funds
    BY HeldType DEF Hook, Funds
  <1> DEFINE i == h.idle[a]
             c == h.claims[a]
             x == Held(h, p)[a]
  <1>2. v[a] \in Nat /\ t[a] \in Nat /\ i \in Nat /\ c \in Nat /\ x \in Nat
    BY <1>1 DEF Funds
  <1>3. Owned(h, p, a) = i + c + x /\ Total(v, t, h, p, a) = v[a] + t[a] + i + c + x
    BY DEF Owned, Total
  <1> HIDE DEF i, c, x
  <1>4. Owned(h, p, a) \in Nat /\ Total(v, t, h, p, a) = v[a] + t[a] + Owned(h, p, a)
    BY <1>2, <1>3
  <1> QED
    BY <1>2, <1>4 DEF i, c, x

\* A step keeps the invariant when it keeps the types, the flag, what an idle book
\* has in the pool, and the totals.
LEMMA AnyCall ==
  ASSUME IInv, hook' \in Hook, Flagged(hook'), OutUnlessLive(hook'),
         params' \in ParamChoices, price' \in Prices,
         oracle' \in [mid : Prices, usable : BOOLEAN],
         vault' \in Funds, traders' \in Funds,
         \A a \in Assets : vault'[a] + traders'[a] + Owned(hook', price', a)
                             = vault[a] + traders[a] + Owned(hook, price, a)
  PROVE  IInv'
  <1>1. TypeOK'
    BY DEF TypeOK, Funds
  <1>2. Flagged(hook)' /\ OutUnlessLive(hook)'
    BY DEF Flagged, OutUnlessLive, LiveHook, OutOfPool
  <1>3. Conserved'
    <2> SUFFICES ASSUME NEW a \in Assets
                 PROVE  Total(vault', traders', hook', price', a) = VaultFunds + TraderFunds
      BY DEF Conserved, Total
    <2>1. Total(vault, traders, hook, price, a) = VaultFunds + TraderFunds
      BY DEF IInv, Conserved, Total
    <2>2. /\ vault \in Funds /\ traders \in Funds /\ hook \in Hook
          /\ price \in Nat /\ price' \in Nat
      BY PricesAssumption DEF IInv, TypeOK, Funds
    <2>3. /\ Total(vault, traders, hook, price, a)
               = vault[a] + traders[a] + Owned(hook, price, a)
          /\ Total(vault', traders', hook', price', a)
               = vault'[a] + traders'[a] + Owned(hook', price', a)
      BY <2>2, TotalOfParts
    <2> QED
      BY <2>1, <2>3
  <1> QED
    BY <1>1, <1>2, <1>3 DEF IInv

\* A call that moves tokens only between the hook and its own positions and claims.
LEMMA InternalCall ==
  ASSUME IInv, UNCHANGED <<price, oracle, vault, traders>>, params' \in ParamChoices,
         Keeps(hook', hook, price), OutUnlessLive(hook')
  PROVE  IInv'
  <1>1. \A a \in Assets : vault'[a] + traders'[a] + Owned(hook', price', a)
                             = vault[a] + traders[a] + Owned(hook, price, a)
    BY DEF Keeps, SameOwned
  <1>2. /\ hook' \in Hook /\ Flagged(hook') /\ vault' \in Funds /\ traders' \in Funds
        /\ price' \in Prices /\ oracle' \in [mid : Prices, usable : BOOLEAN]
    BY DEF IInv, TypeOK, Keeps, Funds
  <1> QED
    BY <1>1, <1>2, AnyCall

\* A change of the hook's idle tokens alone.
LEMMA IdleMoves ==
  ASSUME NEW h \in Hook, NEW p \in Nat, NEW f \in Funds, Flagged(h)
  PROVE  LET g == [h EXCEPT !.idle = f]
         IN  /\ g \in Hook /\ Flagged(g) /\ SamePhase(g, h) /\ GuardStays(g, h)
             /\ g.basePosition = h.basePosition /\ g.claims = h.claims
             /\ OutOfPool(h) => OutOfPool(g)
             /\ \A a \in Assets : Owned(g, p, a) = (Owned(h, p, a) - h.idle[a]) + f[a]
  <1> DEFINE g == [h EXCEPT !.idle = f]
  <1>1. g \in Hook
    BY DEF Hook, Funds
  <1>2. /\ g.idle = f /\ g.claims = h.claims /\ g.guardPresent = h.guardPresent
        /\ g.guardPosition = h.guardPosition /\ g.basePosition = h.basePosition
        /\ g.pulledAt = h.pulledAt /\ SamePhase(g, h)
    BY DEF Hook, SamePhase
  <1>3. Held(g, p) = Held(h, p)
    BY <1>2 DEF Held, GuardAmounts, BaseAmounts
  <1>4. ASSUME NEW a \in Assets
        PROVE  Owned(g, p, a) = (Owned(h, p, a) - h.idle[a]) + f[a]
    <2> DEFINE i == h.idle[a]
               c == h.claims[a]
               x == Held(h, p)[a]
    <2>1. i \in Nat /\ c \in Nat /\ x \in Nat /\ f[a] \in Nat
      BY HeldType DEF Hook, Funds
    <2>2. Owned(h, p, a) = i + c + x /\ Owned(g, p, a) = f[a] + c + x
      BY <1>2, <1>3 DEF Owned
    <2> HIDE DEF i, c, x, g
    <2>3. Owned(g, p, a) = (Owned(h, p, a) - i) + f[a]
      BY <2>1, <2>2
    <2> QED
      BY <2>3 DEF i
  <1> QED
    BY <1>1, <1>2, <1>4 DEF Flagged, GuardStays, OutOfPool

\* recallToVault and pullAll end with a sweep of the idle tokens to the vault.
LEMMA SweepKeeps ==
  ASSUME IInv, UNCHANGED <<params, price, oracle, traders>>,
         NEW g, Keeps(g, hook, price), OutUnlessLive(g), Sweep(g)
  PROVE  /\ IInv' /\ SamePhase(hook', g) /\ GuardStays(hook', g)
         /\ hook'.basePosition = g.basePosition
  <1>1. /\ g \in Hook /\ Flagged(g) /\ price \in Nat /\ price \in Prices
        /\ hook \in Hook /\ vault \in Funds /\ traders \in Funds
    BY PricesAssumption DEF IInv, TypeOK, Keeps, Funds
  <1>2. g.idle \in Funds /\ vault' = vault ++ g.idle /\ vault' \in Funds
    BY <1>1, FundsAdd DEF Hook, Funds, Sweep
  <1>3. hook' = [g EXCEPT !.idle = Nothing]
    BY DEF Sweep
  <1>4. /\ hook' \in Hook /\ Flagged(hook') /\ SamePhase(hook', g)
        /\ GuardStays(hook', g) /\ hook'.basePosition = g.basePosition
        /\ OutOfPool(g) => OutOfPool(hook')
        /\ \A a \in Assets : Owned(hook', price, a)
                                = (Owned(g, price, a) - g.idle[a]) + Nothing[a]
    BY <1>1, <1>3, NothingIsFunds, IdleMoves
  <1>5. OutUnlessLive(hook')
    BY <1>4 DEF OutUnlessLive, LiveHook, SamePhase
  <1>6. ASSUME NEW a \in Assets
        PROVE  vault'[a] + traders'[a] + Owned(hook', price', a)
                 = vault[a] + traders[a] + Owned(hook, price, a)
    <2>1. Owned(g, price, a) = Owned(hook, price, a)
      BY DEF Keeps, SameOwned
    <2>2. /\ vault[a] \in Nat /\ traders[a] \in Nat /\ g.idle[a] \in Nat
          /\ Owned(g, price, a) \in Nat
      BY <1>1, TotalOfParts
    <2>3. vault'[a] = vault[a] + g.idle[a]
      BY <1>1, <1>2, FundsAdd
    <2>4. Owned(hook', price, a) = Owned(g, price, a) - g.idle[a]
      BY <1>4, <2>2, NothingIsFunds
    <2> QED
      BY <2>1, <2>2, <2>3, <2>4
  <1>7. oracle' \in [mid : Prices, usable : BOOLEAN] /\ params' \in ParamChoices
    BY DEF IInv, TypeOK
  <1>8. IInv'
    BY <1>1, <1>2, <1>4, <1>5, <1>6, <1>7, AnyCall
  <1> QED
    BY <1>4, <1>8

-----------------------------------------------------------------------------
(* Every step keeps the invariant, moves the guard in one of three ways and is a *)
(* step of the abstract book                                                     *)

\* The refinement mapping.
Mapped(h) == [initialized |-> h.poolInitialized, exited |-> h.exited,
              deployEnabled |-> h.deployEnabled, base |-> h.basePosition.liquidity # 0,
              guard |-> h.guardPresent, pulled |-> h.pulledAt]

SameBase(g, h) == g.basePosition.liquidity # 0 <=> h.basePosition.liquidity # 0

LEMMA SameBook ==
  ASSUME NEW x \in Book, NEW y \in Book,
         x.initialized <=> y.initialized, x.exited <=> y.exited,
         x.deployEnabled <=> y.deployEnabled, x.base <=> y.base, x.guard <=> y.guard,
         x.pulled = y.pulled
  PROVE  x = y
  BY DEF Book

LEMMA MappedType ==
  ASSUME NEW h \in Hook
  PROVE  /\ Mapped(h) \in Book
         /\ Mapped(h).initialized <=> h.poolInitialized
         /\ Mapped(h).exited <=> h.exited
         /\ Mapped(h).deployEnabled <=> h.deployEnabled
         /\ Mapped(h).base <=> h.basePosition.liquidity # 0
         /\ Mapped(h).guard <=> h.guardPresent
         /\ Mapped(h).pulled = h.pulledAt
  BY DEF Hook, Book, Mapped

LEMMA PullGuardFields ==
  ASSUME NEW b \in Book
  PROVE  LET c == PullGuard(b)
         IN  /\ c \in Book /\ ~c.guard
             /\ c.initialized <=> b.initialized
             /\ c.exited <=> b.exited
             /\ c.deployEnabled <=> b.deployEnabled
             /\ c.base <=> b.base
             /\ c.pulled = IF b.guard THEN 0 ELSE b.pulled
  BY GuardMovesType DEF PullGuard, Book

LEMMA PlaceGuardFields ==
  ASSUME NEW b \in Book
  PROVE  LET c == PlaceGuard(b)
         IN  /\ c \in Book /\ c.guard
             /\ c.initialized <=> b.initialized
             /\ c.exited <=> b.exited
             /\ c.deployEnabled <=> b.deployEnabled
             /\ c.base <=> b.base
             /\ c.pulled = NoTime
  BY GuardMovesType DEF PlaceGuard, Book

LEMMA ArmFields ==
  ASSUME NEW b \in Book
  PROVE  /\ Arm(b) \in Book /\ Arm(b).base
         /\ Arm(b).initialized <=> b.initialized
         /\ Arm(b).exited <=> b.exited
         /\ Arm(b).deployEnabled <=> b.deployEnabled
         /\ b.deployEnabled => Arm(b).guard /\ Arm(b).pulled = NoTime
         /\ ~b.deployEnabled => (Arm(b).guard <=> b.guard) /\ Arm(b).pulled = b.pulled
  <1> DEFINE based == [b EXCEPT !.base = TRUE]
  <1>1. /\ based \in Book /\ based.base /\ based.initialized = b.initialized
        /\ based.exited = b.exited /\ based.deployEnabled = b.deployEnabled
        /\ based.guard = b.guard /\ based.pulled = b.pulled
    BY DEF Book
  <1>2. Arm(b) = IF b.deployEnabled THEN PlaceGuard(based) ELSE based
    BY DEF Arm
  <1> HIDE DEF based
  <1> QED
    BY <1>1, <1>2, PlaceGuardFields

\* What the guard of the hook does, the guard of the abstract book does.
LEMMA MappedGuardMoves ==
  ASSUME NEW g \in Hook, NEW h \in Hook, NEW p \in Prices, SamePhase(g, h)
  PROVE  /\ SameBase(g, h) /\ GuardStays(g, h) => Mapped(g) = Mapped(h)
         /\ SameBase(g, h) /\ GuardPulled(g, h) => Mapped(g) = PullGuard(Mapped(h))
         /\ SameBase(g, h) /\ GuardPlaced(g, p) => Mapped(g) = PlaceGuard(Mapped(h))
         /\ /\ g.basePosition.liquidity # 0
            /\ IF h.deployEnabled THEN GuardPlaced(g, p) ELSE GuardStays(g, h)
            => Mapped(g) = Arm(Mapped(h))
  <1>1. /\ Mapped(g) \in Book /\ Mapped(h) \in Book
        /\ PullGuard(Mapped(h)) \in Book /\ PlaceGuard(Mapped(h)) \in Book
        /\ Arm(Mapped(h)) \in Book
    BY MappedType, PullGuardFields, PlaceGuardFields, ArmFields
  <1>2. /\ SameBase(g, h) /\ GuardStays(g, h) => Mapped(g) = Mapped(h)
    BY <1>1, MappedType, SameBook DEF SamePhase, SameBase, GuardStays
  <1>3. SameBase(g, h) /\ GuardPulled(g, h) => Mapped(g) = PullGuard(Mapped(h))
    BY <1>1, MappedType, PullGuardFields, SameBook DEF SamePhase, SameBase, GuardPulled
  <1>4. SameBase(g, h) /\ GuardPlaced(g, p) => Mapped(g) = PlaceGuard(Mapped(h))
    BY <1>1, MappedType, PlaceGuardFields, SameBook DEF SamePhase, SameBase, GuardPlaced
  <1>5. ASSUME g.basePosition.liquidity # 0,
               IF h.deployEnabled THEN GuardPlaced(g, p) ELSE GuardStays(g, h)
        PROVE  Mapped(g) = Arm(Mapped(h))
    BY <1>1, <1>5, MappedType, ArmFields, SameBook
    DEF SamePhase, GuardPlaced, GuardStays
  <1> QED
    BY <1>2, <1>3, <1>4, <1>5

\* A guard that is placed is placed in band, and an outage only ages.
GuardStep ==
    /\ hook'.guardPresent /\ hook'.guardPosition # hook.guardPosition
          => (oracle.usable => ~OffBand(hook'.guardPosition.center))
    /\ ~hook.guardPresent /\ ~hook'.guardPresent => hook'.pulledAt >= hook.pulledAt

LEMMA GuardStepCases ==
  ASSUME IInv, hook' \in Hook, NEW p \in Prices,
         \/ GuardStays(hook', hook)
         \/ ~hook.guardPresent /\ ~hook'.guardPresent /\ hook'.pulledAt = hook.pulledAt
         \/ GuardPulled(hook', hook)
         \/ GuardPlaced(hook', p)
  PROVE  GuardStep
  <1>1. hook.pulledAt \in Int /\ hook'.pulledAt \in Int
    BY RecheckIntervalAssumption DEF IInv, TypeOK, Hook, Ages, NoTime
  <1>2. GuardAt(p).center = p
    BY DEF GuardAt
  <1> QED
    BY <1>1, <1>2 DEF GuardStep, GuardStays, GuardPulled, GuardPlaced

\* The steps of the abstract book, a stutter included.
BookStep(b, c) ==
    \/ c \in HookInitialize(b)
    \/ \E enabled \in BOOLEAN : c \in HookSetDeployEnabled(b, enabled)
    \/ c \in HookDeployGuard(b)
    \/ c \in HookRecenterGuard(b)
    \/ c \in HookRecallToVault(b)
    \/ c \in HookPullAll(b)
    \/ c \in HookRearm(b)
    \/ c \in HookRecheckGuard(b)
    \/ c \in HookSwap(b)
    \/ c = OlderBook(b)
    \/ c = b

StepKeeps == IInv' /\ GuardStep /\ BookStep(Mapped(hook), Mapped(hook'))

LEMMA StateTypes ==
  ASSUME IInv
  PROVE  /\ hook \in Hook /\ Flagged(hook) /\ OutUnlessLive(hook)
         /\ params \in ParamChoices /\ price \in Prices /\ price \in Nat
         /\ vault \in Funds /\ traders \in Funds
         /\ oracle \in [mid : Prices, usable : BOOLEAN]
         /\ Flagged(hook) => Keeps(hook, hook, price)
         /\ SamePhase(hook, hook) /\ SameBase(hook, hook)
  BY PricesAssumption DEF IInv, TypeOK, Funds, Keeps, SameOwned, SamePhase, SameBase

LEMMA InitializeBookStep ==
  ASSUME IInv, InitializeBook
  PROVE  StepKeeps
  <1>1. PICK p \in Prices :
           /\ oracle.usable => ~OffBand(p)
           /\ price' = p
           /\ hook' \in ArmHook([hook EXCEPT !.poolInitialized = TRUE,
                                           !.deployEnabled = TRUE], p)
    BY DEF InitializeBook
  <1> DEFINE h == [hook EXCEPT !.poolInitialized = TRUE, !.deployEnabled = TRUE]
  <1>2. /\ ~hook.poolInitialized /\ params' = params /\ oracle' = oracle
        /\ vault' = vault /\ traders' = traders
    BY DEF InitializeBook
  <1>3. OutOfPool(hook)
    BY <1>2, StateTypes DEF OutUnlessLive, LiveHook
  <1>4. /\ h \in Hook /\ h.poolInitialized /\ h.deployEnabled /\ h.exited = hook.exited
        /\ h.guardPresent = hook.guardPresent /\ h.guardPosition = hook.guardPosition
        /\ h.basePosition = hook.basePosition /\ h.pulledAt = hook.pulledAt
        /\ h.idle = hook.idle /\ h.claims = hook.claims
    BY StateTypes DEF Hook
  <1>5. Flagged(h) /\ ~h.guardPresent
    BY <1>3, <1>4, StateTypes DEF Flagged, OutOfPool
  <1> HIDE DEF h
  <1>6. /\ Keeps(hook', h, p) /\ SamePhase(hook', h) /\ hook'.basePosition.liquidity # 0
        /\ GuardPlaced(hook', p)
    BY <1>1, <1>4, <1>5, StateTypes, ArmHookKeeps DEF h
  <1>7. OutUnlessLive(hook')
    <2>1. ~hook.exited
      BY <1>2, StateTypes DEF OutUnlessLive
    <2> QED
      BY <1>4, <1>6, <2>1 DEF OutUnlessLive, LiveHook, SamePhase
  <1>8. IInv'
    <2>1. p \in Nat /\ hook' \in Hook /\ Flagged(hook')
      BY <1>6, PricesAssumption DEF Keeps
    <2>2. Held(h, p) = Nothing /\ Held(hook, price) = Nothing
      <3>1. OutOfPool(h)
        BY <1>3, <1>4 DEF OutOfPool
      <3> QED
        BY <1>3, <1>4, <2>1, <3>1, StateTypes, OutHoldsNothing
    <2>3. \A a \in Assets : Owned(hook', price', a) = Owned(hook, price, a)
      <3>1. \A a \in Assets : Owned(h, p, a) = Owned(hook, price, a)
        BY <1>4, <2>2 DEF Owned
      <3> QED
        BY <1>1, <1>6, <3>1 DEF Keeps, SameOwned
    <2> QED
      BY <1>1, <1>2, <1>7, <2>1, <2>3, StateTypes, AnyCall
  <1>9. Mapped(hook') \in HookInitialize(Mapped(hook))
    <2> DEFINE armed == [Mapped(hook) EXCEPT !.initialized = TRUE, !.deployEnabled = TRUE]
    <2>1. Mapped(hook') = Arm(Mapped(h))
      BY <1>4, <1>6, MappedGuardMoves DEF Keeps
    <2>2. Mapped(h) = armed
      <3>1. /\ armed \in Book /\ armed.initialized /\ armed.deployEnabled
            /\ armed.exited = Mapped(hook).exited /\ armed.base = Mapped(hook).base
            /\ armed.guard = Mapped(hook).guard /\ armed.pulled = Mapped(hook).pulled
        BY StateTypes, MappedType DEF Book
      <3> HIDE DEF armed
      <3> QED
        BY <1>4, <3>1, StateTypes, MappedType, SameBook
    <2>3. ~Mapped(hook).initialized
      BY <1>2, StateTypes, MappedType
    <2> QED
      BY <2>1, <2>2, <2>3 DEF HookInitialize
  <1>10. GuardStep
    BY <1>6, GuardStepCases DEF Keeps
  <1> QED
    BY <1>8, <1>9, <1>10 DEF StepKeeps, BookStep

LEMMA DeployGuardStep ==
  ASSUME IInv, DeployGuard
  PROVE  StepKeeps
  <1>1. /\ LiveHook(hook) /\ hook.deployEnabled /\ ~hook.guardPresent
        /\ hook' \in DeployGuardStrict(hook, price)
        /\ UNCHANGED <<params, price, oracle, vault, traders>>
    BY DEF DeployGuard
  <1>2. /\ Keeps(hook', hook, price) /\ SamePhase(hook', hook)
        /\ GuardPlaced(hook', price) /\ SameBase(hook', hook)
    BY <1>1, StateTypes, DeployGuardKeeps DEF GuardPlaced, SameBase
  <1>3. OutUnlessLive(hook')
    BY <1>1, <1>2 DEF OutUnlessLive, LiveHook, SamePhase
  <1>4. IInv'
    BY <1>1, <1>2, <1>3, StateTypes, InternalCall
  <1>5. Mapped(hook') \in HookDeployGuard(Mapped(hook))
    <2>1. Mapped(hook') = PlaceGuard(Mapped(hook))
      BY <1>2, StateTypes, MappedGuardMoves DEF Keeps
    <2> QED
      BY <1>1, <2>1, StateTypes, MappedType DEF HookDeployGuard, Live, LiveHook
  <1>6. GuardStep
    BY <1>2, StateTypes, GuardStepCases DEF Keeps
  <1> QED
    BY <1>4, <1>5, <1>6 DEF StepKeeps, BookStep

LEMMA RecenterGuardStep ==
  ASSUME IInv, RecenterGuard
  PROVE  StepKeeps
  <1> DEFINE pulled == PullGuardIdle(hook, price)
  <1>1. /\ LiveHook(hook) /\ (hook.guardPresent \/ hook.deployEnabled)
        /\ hook' \in IF hook.deployEnabled THEN DeployGuardStrict(pulled, price) ELSE {pulled}
        /\ UNCHANGED <<params, price, oracle, vault, traders>>
    BY DEF RecenterGuard
  <1>2. /\ Keeps(pulled, hook, price) /\ SamePhase(pulled, hook)
        /\ pulled.basePosition = hook.basePosition /\ GuardPulled(pulled, hook)
        /\ pulled \in Hook /\ Flagged(pulled)
    BY StateTypes, PullGuardIdleKeeps DEF Keeps, GuardPulled
  <1> HIDE DEF pulled
  <1>3. /\ Keeps(hook', hook, price) /\ SamePhase(hook', hook) /\ SameBase(hook', hook)
        /\ IF hook.deployEnabled THEN GuardPlaced(hook', price) ELSE GuardPulled(hook', hook)
    <2>1. CASE ~hook.deployEnabled
      BY <1>1, <1>2, <2>1 DEF SameBase
    <2>2. CASE hook.deployEnabled
      <3>1. /\ Keeps(hook', pulled, price) /\ SamePhase(hook', pulled)
            /\ GuardPlaced(hook', price) /\ hook'.basePosition = pulled.basePosition
        BY <1>1, <1>2, <2>2, StateTypes, DeployGuardKeeps DEF GuardPlaced
      <3>2. Keeps(hook', hook, price)
        BY <1>2, <3>1, KeepsTransitive
      <3> QED
        BY <1>2, <2>2, <3>1, <3>2 DEF SamePhase, SameBase
    <2> QED
      BY <2>1, <2>2
  <1>4. OutUnlessLive(hook')
    BY <1>1, <1>3 DEF OutUnlessLive, LiveHook, SamePhase
  <1>5. IInv'
    BY <1>1, <1>3, <1>4, StateTypes, InternalCall
  <1>6. Mapped(hook') \in HookRecenterGuard(Mapped(hook))
    <2>1. Mapped(hook') = IF hook.deployEnabled THEN PlaceGuard(Mapped(hook))
                          ELSE PullGuard(Mapped(hook))
      BY <1>3, StateTypes, MappedGuardMoves DEF Keeps
    <2> QED
      BY <1>1, <2>1, StateTypes, MappedType DEF HookRecenterGuard, Live, LiveHook
  <1>7. GuardStep
    BY <1>3, StateTypes, GuardStepCases DEF Keeps
  <1> QED
    BY <1>5, <1>6, <1>7 DEF StepKeeps, BookStep

LEMMA RecallToVaultStep ==
  ASSUME IInv, RecallToVault
  PROVE  StepKeeps
  <1> DEFINE pulled == PullGuardIdle(hook, price)
             swept == UnwindAll(pulled)
  <1>1. /\ hook.poolInitialized /\ Sweep(swept)
        /\ UNCHANGED <<params, price, oracle, traders>>
    BY DEF RecallToVault
  <1>2. /\ Keeps(pulled, hook, price) /\ SamePhase(pulled, hook)
        /\ pulled.basePosition = hook.basePosition /\ GuardPulled(pulled, hook)
        /\ pulled \in Hook /\ Flagged(pulled) /\ ~pulled.guardPresent
    BY StateTypes, PullGuardIdleKeeps DEF Keeps, GuardPulled
  <1> HIDE DEF pulled
  <1>3. /\ Keeps(swept, pulled, price) /\ SamePhase(swept, pulled)
        /\ swept.basePosition = pulled.basePosition /\ GuardStays(swept, pulled)
        /\ swept.claims = Nothing
    BY <1>2, StateTypes, UnwindAllKeeps DEF GuardStays
  <1> HIDE DEF swept
  <1>4. Keeps(swept, hook, price)
    BY <1>2, <1>3, KeepsTransitive
  <1>5. OutUnlessLive(swept)
    <2>1. /\ swept.guardPosition.liquidity = 0
      BY <1>2, <1>3, <1>4 DEF GuardStays, Flagged, Keeps
    <2> QED
      BY <1>2, <1>3, <2>1, StateTypes DEF OutUnlessLive, OutOfPool, LiveHook, SamePhase
  <1>6. /\ IInv' /\ SamePhase(hook', swept) /\ GuardStays(hook', swept)
        /\ hook'.basePosition = swept.basePosition
    BY <1>1, <1>4, <1>5, SweepKeeps
  <1>7. /\ SamePhase(hook', hook) /\ SameBase(hook', hook) /\ GuardPulled(hook', hook)
    BY <1>2, <1>3, <1>6 DEF SamePhase, SameBase, GuardStays, GuardPulled
  <1>8. hook' \in Hook
    BY <1>6 DEF IInv, TypeOK
  <1>9. Mapped(hook') \in HookRecallToVault(Mapped(hook))
    <2>1. Mapped(hook') = PullGuard(Mapped(hook))
      BY <1>7, <1>8, StateTypes, MappedGuardMoves
    <2> QED
      BY <1>1, <2>1, StateTypes, MappedType DEF HookRecallToVault
  <1>10. GuardStep
    BY <1>7, <1>8, StateTypes, GuardStepCases
  <1> QED
    BY <1>6, <1>9, <1>10 DEF StepKeeps, BookStep

LEMMA WithdrawInventoryStep ==
  ASSUME IInv, WithdrawInventory
  PROVE  StepKeeps
  <1>1. PICK amount \in [quote : 0..hook.idle["quote"], equity : 0..hook.idle["equity"]] :
           hook' = [hook EXCEPT !.idle = @ -- amount] /\ vault' = vault ++ amount
    BY DEF WithdrawInventory
  <1>2. UNCHANGED <<params, price, oracle, traders>>
    BY DEF WithdrawInventory
  <1>3. /\ hook.idle \in Funds /\ vault \in Funds /\ amount \in Funds
        /\ Covers(hook.idle, amount)
    <2>1. hook.idle \in Funds /\ vault \in Funds
      BY StateTypes DEF Hook, Funds
    <2> QED
      BY <2>1, ChosenIsCovered
  <1>4. /\ hook.idle -- amount \in Funds /\ vault ++ amount \in Funds
        /\ hook' = [hook EXCEPT !.idle = hook.idle -- amount]
    BY <1>1, <1>3, StateTypes, FundsAdd DEF Hook
  <1>5. /\ hook' \in Hook /\ Flagged(hook') /\ SamePhase(hook', hook)
        /\ GuardStays(hook', hook) /\ SameBase(hook', hook)
        /\ OutOfPool(hook) => OutOfPool(hook')
        /\ \A a \in Assets : Owned(hook', price, a)
               = (Owned(hook, price, a) - hook.idle[a]) + (hook.idle -- amount)[a]
    BY <1>4, StateTypes, IdleMoves DEF SameBase
  <1>6. OutUnlessLive(hook')
    BY <1>5, StateTypes DEF OutUnlessLive, LiveHook, SamePhase
  <1>7. ASSUME NEW a \in Assets
        PROVE  vault'[a] + traders'[a] + Owned(hook', price', a)
                 = vault[a] + traders[a] + Owned(hook, price, a)
    <2> DEFINE v == vault[a]
               t == traders[a]
               i == hook.idle[a]
               m == amount[a]
               o == Owned(hook, price, a)
    <2>1. v \in Nat /\ t \in Nat /\ i \in Nat /\ m \in Nat /\ o \in Nat
      <3>1. v \in Nat /\ t \in Nat /\ i \in Nat /\ o \in Nat
        BY StateTypes, TotalOfParts
      <3> QED
        BY <1>3, <3>1 DEF Funds
    <2>2. vault'[a] = v + m /\ (hook.idle -- amount)[a] = i - m
      BY <1>1, <1>3, FundsAdd
    <2>3. Owned(hook', price', a) = (o - i) + (i - m) /\ traders'[a] = t
      BY <1>2, <1>5, <2>2
    <2> HIDE DEF v, t, i, m, o
    <2>4. vault'[a] + traders'[a] + Owned(hook', price', a) = v + t + o
      BY <2>1, <2>2, <2>3
    <2> QED
      BY <2>4 DEF v, t, o
  <1>8. IInv'
    BY <1>1, <1>2, <1>4, <1>5, <1>6, <1>7, StateTypes, AnyCall
  <1>9. Mapped(hook') = Mapped(hook)
    BY <1>5, StateTypes, MappedGuardMoves
  <1>10. GuardStep
    BY <1>5, StateTypes, GuardStepCases
  <1> QED
    BY <1>8, <1>9, <1>10 DEF StepKeeps, BookStep

LEMMA FundHookStep ==
  ASSUME IInv, FundHook
  PROVE  StepKeeps
  <1>1. PICK amount \in [quote : 0..vault["quote"], equity : 0..vault["equity"]] :
           hook' = [hook EXCEPT !.idle = @ ++ amount] /\ vault' = vault -- amount
    BY DEF FundHook
  <1>2. UNCHANGED <<params, price, oracle, traders>>
    BY DEF FundHook
  <1>3. /\ hook.idle \in Funds /\ vault \in Funds /\ amount \in Funds
        /\ Covers(vault, amount)
    <2>1. hook.idle \in Funds /\ vault \in Funds
      BY StateTypes DEF Hook, Funds
    <2> QED
      BY <2>1, ChosenIsCovered
  <1>4. /\ hook.idle ++ amount \in Funds /\ vault -- amount \in Funds
        /\ hook' = [hook EXCEPT !.idle = hook.idle ++ amount]
    BY <1>1, <1>3, StateTypes, FundsAdd DEF Hook
  <1>5. /\ hook' \in Hook /\ Flagged(hook') /\ SamePhase(hook', hook)
        /\ GuardStays(hook', hook) /\ SameBase(hook', hook)
        /\ OutOfPool(hook) => OutOfPool(hook')
        /\ \A a \in Assets : Owned(hook', price, a)
               = (Owned(hook, price, a) - hook.idle[a]) + (hook.idle ++ amount)[a]
    BY <1>4, StateTypes, IdleMoves DEF SameBase
  <1>6. OutUnlessLive(hook')
    BY <1>5, StateTypes DEF OutUnlessLive, LiveHook, SamePhase
  <1>7. ASSUME NEW a \in Assets
        PROVE  vault'[a] + traders'[a] + Owned(hook', price', a)
                 = vault[a] + traders[a] + Owned(hook, price, a)
    <2> DEFINE v == vault[a]
               t == traders[a]
               i == hook.idle[a]
               m == amount[a]
               o == Owned(hook, price, a)
    <2>1. v \in Nat /\ t \in Nat /\ i \in Nat /\ m \in Nat /\ o \in Nat
      <3>1. v \in Nat /\ t \in Nat /\ i \in Nat /\ o \in Nat
        BY StateTypes, TotalOfParts
      <3> QED
        BY <1>3, <3>1 DEF Funds
    <2>2. vault'[a] = v - m /\ (hook.idle ++ amount)[a] = i + m
      BY <1>1, <1>3, FundsAdd
    <2>3. Owned(hook', price', a) = (o - i) + (i + m) /\ traders'[a] = t
      BY <1>2, <1>5, <2>2
    <2> HIDE DEF v, t, i, m, o
    <2>4. vault'[a] + traders'[a] + Owned(hook', price', a) = v + t + o
      BY <2>1, <2>2, <2>3
    <2> QED
      BY <2>4 DEF v, t, o
  <1>8. IInv'
    BY <1>1, <1>2, <1>4, <1>5, <1>6, <1>7, StateTypes, AnyCall
  <1>9. Mapped(hook') = Mapped(hook)
    BY <1>5, StateTypes, MappedGuardMoves
  <1>10. GuardStep
    BY <1>5, StateTypes, GuardStepCases
  <1> QED
    BY <1>8, <1>9, <1>10 DEF StepKeeps, BookStep

\* The steps that leave the guard and the phase of the book alone.
LEMMA StillGuard ==
  ASSUME IInv, IInv', SamePhase(hook', hook), SameBase(hook', hook), GuardStays(hook', hook)
  PROVE  StepKeeps
  <1>1. hook' \in Hook
    BY DEF IInv, TypeOK
  <1>2. Mapped(hook') = Mapped(hook) /\ GuardStep
    BY <1>1, StateTypes, MappedGuardMoves, GuardStepCases
  <1> QED
    BY <1>2 DEF StepKeeps, BookStep

LEMMA UnwindClaimsStep ==
  ASSUME IInv, UnwindClaims
  PROVE  StepKeeps
  <1>1. /\ hook' = UnwindAll(hook) /\ UNCHANGED <<params, price, oracle, vault, traders>>
    BY DEF UnwindClaims
  <1>2. /\ Keeps(hook', hook, price) /\ SamePhase(hook', hook)
        /\ GuardStays(hook', hook) /\ hook'.basePosition = hook.basePosition
        /\ hook'.claims = Nothing
    BY <1>1, StateTypes, UnwindAllKeeps DEF GuardStays
  <1>3. OutUnlessLive(hook')
    BY <1>2, StateTypes DEF OutUnlessLive, OutOfPool, LiveHook, SamePhase, GuardStays
  <1>4. IInv'
    BY <1>1, <1>2, <1>3, StateTypes, InternalCall
  <1> QED
    BY <1>2, <1>4, StillGuard DEF SameBase

LEMMA SetGuardParamsStep ==
  ASSUME IInv, SetGuardParams
  PROVE  StepKeeps
  <1>1. /\ params' \in ParamChoices /\ UNCHANGED <<hook, price, oracle, vault, traders>>
    BY DEF SetGuardParams
  <1>2. /\ Keeps(hook', hook, price) /\ OutUnlessLive(hook') /\ SamePhase(hook', hook)
        /\ SameBase(hook', hook) /\ GuardStays(hook', hook)
    BY <1>1, StateTypes DEF GuardStays
  <1>3. IInv'
    BY <1>1, <1>2, InternalCall
  <1> QED
    BY <1>2, <1>3, StillGuard

LEMMA StillHook ==
  ASSUME IInv, UNCHANGED <<hook, params, price, vault, traders>>,
         oracle' \in [mid : Prices, usable : BOOLEAN]
  PROVE  StepKeeps
  <1>1. /\ OutUnlessLive(hook') /\ SamePhase(hook', hook) /\ hook' \in Hook
        /\ Flagged(hook') /\ SameBase(hook', hook) /\ GuardStays(hook', hook)
        /\ params' \in ParamChoices /\ price' \in Prices
        /\ vault' \in Funds /\ traders' \in Funds
    BY StateTypes DEF GuardStays
  <1>2. IInv'
    BY <1>1, AnyCall
  <1> QED
    BY <1>1, <1>2, StillGuard

LEMMA SetDeployEnabledStep ==
  ASSUME IInv, SetDeployEnabled
  PROVE  StepKeeps
  <1>1. PICK enabled \in BOOLEAN : hook' = [hook EXCEPT !.deployEnabled = enabled]
    BY DEF SetDeployEnabled
  <1>2. UNCHANGED <<params, price, oracle, vault, traders>>
    BY DEF SetDeployEnabled
  <1>3. /\ hook' \in Hook /\ hook'.deployEnabled = enabled
        /\ hook'.poolInitialized = hook.poolInitialized /\ hook'.exited = hook.exited
        /\ hook'.guardPresent = hook.guardPresent /\ hook'.guardPosition = hook.guardPosition
        /\ hook'.basePosition = hook.basePosition /\ hook'.pulledAt = hook.pulledAt
        /\ hook'.idle = hook.idle /\ hook'.claims = hook.claims
    BY <1>1, StateTypes DEF Hook
  <1>4. Keeps(hook', hook, price)
    BY <1>3, StateTypes
    DEF Keeps, Flagged, SameOwned, Owned, Held, GuardAmounts, BaseAmounts
  <1>5. OutUnlessLive(hook')
    BY <1>3, StateTypes DEF OutUnlessLive, OutOfPool, LiveHook
  <1>6. IInv'
    BY <1>2, <1>4, <1>5, StateTypes, InternalCall
  <1>7. Mapped(hook') \in HookSetDeployEnabled(Mapped(hook), enabled)
    <2> DEFINE c == [Mapped(hook) EXCEPT !.deployEnabled = enabled]
    <2>1. /\ c \in Book /\ c.deployEnabled = enabled
          /\ c.initialized = Mapped(hook).initialized /\ c.exited = Mapped(hook).exited
          /\ c.base = Mapped(hook).base /\ c.guard = Mapped(hook).guard
          /\ c.pulled = Mapped(hook).pulled
      BY StateTypes, MappedType DEF Book
    <2>2. Mapped(hook') = c
      <3> HIDE DEF c
      <3> QED
        BY <1>3, <2>1, StateTypes, MappedType, SameBook
    <2> QED
      BY <2>2 DEF HookSetDeployEnabled
  <1>8. GuardStep
    BY <1>3, StateTypes, GuardStepCases DEF GuardStays
  <1> QED
    BY <1>6, <1>7, <1>8 DEF StepKeeps, BookStep

LEMMA PullAllStep ==
  ASSUME IInv, PullAll
  PROVE  StepKeeps
  <1> DEFINE pulled == PullGuardIdle(hook, price)
             based == PullBase(pulled, price)
             unwound == UnwindAll(based)
             left == [unwound EXCEPT !.exited = TRUE]
  <1>1. /\ LiveHook(hook) /\ Sweep(left)
        /\ UNCHANGED <<params, price, oracle, traders>>
    BY DEF PullAll
  <1>2. /\ Keeps(pulled, hook, price) /\ SamePhase(pulled, hook)
        /\ GuardPulled(pulled, hook) /\ pulled \in Hook /\ Flagged(pulled)
    BY StateTypes, PullGuardIdleKeeps DEF Keeps, GuardPulled
  <1> HIDE DEF pulled
  <1>3. /\ Keeps(based, pulled, price) /\ SamePhase(based, pulled)
        /\ GuardStays(based, pulled) /\ based.basePosition.liquidity = 0
        /\ based \in Hook /\ Flagged(based)
    BY <1>2, StateTypes, PullBaseKeeps DEF Keeps, GuardStays
  <1> HIDE DEF based
  <1>4. /\ Keeps(unwound, based, price) /\ SamePhase(unwound, based)
        /\ GuardStays(unwound, based) /\ unwound.basePosition = based.basePosition
        /\ unwound.claims = Nothing /\ unwound \in Hook /\ Flagged(unwound)
    BY <1>3, StateTypes, UnwindAllKeeps DEF Keeps, GuardStays
  <1> HIDE DEF unwound
  <1>5. /\ left \in Hook /\ left.exited /\ left.poolInitialized = unwound.poolInitialized
        /\ left.deployEnabled = unwound.deployEnabled
        /\ left.guardPresent = unwound.guardPresent
        /\ left.guardPosition = unwound.guardPosition
        /\ left.basePosition = unwound.basePosition /\ left.pulledAt = unwound.pulledAt
        /\ left.idle = unwound.idle /\ left.claims = unwound.claims
    BY <1>4 DEF Hook
  <1> HIDE DEF left
  <1>6. Keeps(left, hook, price)
    <2>1. Keeps(left, unwound, price)
      BY <1>4, <1>5
      DEF Keeps, Flagged, SameOwned, Owned, Held, GuardAmounts, BaseAmounts
    <2>2. Keeps(left, based, price)
      BY <1>4, <2>1, KeepsTransitive
    <2>3. Keeps(left, pulled, price)
      BY <1>3, <2>2, KeepsTransitive
    <2> QED
      BY <1>2, <2>3, KeepsTransitive
  <1>7. /\ left.poolInitialized /\ left.deployEnabled = hook.deployEnabled
        /\ left.basePosition.liquidity = 0 /\ left.claims = Nothing
        /\ GuardPulled(left, hook)
    BY <1>1, <1>2, <1>3, <1>4, <1>5 DEF SamePhase, GuardStays, GuardPulled, LiveHook
  <1>8. OutUnlessLive(left)
    <2>1. left.guardPosition.liquidity = 0
      BY <1>6, <1>7 DEF Keeps, Flagged, GuardPulled
    <2> QED
      BY <1>7, <2>1 DEF OutUnlessLive, OutOfPool
  <1>9. /\ IInv' /\ SamePhase(hook', left) /\ GuardStays(hook', left)
        /\ hook'.basePosition = left.basePosition
    BY <1>1, <1>6, <1>8, SweepKeeps
  <1>10. /\ hook' \in Hook /\ GuardPulled(hook', hook) /\ hook'.poolInitialized
         /\ hook'.exited /\ hook'.deployEnabled = hook.deployEnabled
         /\ hook'.basePosition.liquidity = 0
    BY <1>5, <1>7, <1>9 DEF IInv, TypeOK, SamePhase, GuardStays, GuardPulled
  <1>11. Mapped(hook') \in HookPullAll(Mapped(hook))
    <2> DEFINE b == PullGuard(Mapped(hook))
               c == [b EXCEPT !.base = FALSE, !.exited = TRUE]
    <2>1. /\ b \in Book /\ ~b.guard
          /\ b.initialized <=> hook.poolInitialized
          /\ b.deployEnabled <=> hook.deployEnabled
          /\ b.pulled = IF hook.guardPresent THEN 0 ELSE hook.pulledAt
      <3>1. Mapped(hook) \in Book
        BY StateTypes, MappedType
      <3> QED
        BY <3>1, StateTypes, MappedType, PullGuardFields
    <2> HIDE DEF b
    <2>2. /\ c \in Book /\ ~c.base /\ c.exited /\ c.initialized = b.initialized
          /\ c.deployEnabled = b.deployEnabled /\ c.guard = b.guard /\ c.pulled = b.pulled
      BY <2>1 DEF Book
    <2> HIDE DEF c
    <2>3. Mapped(hook') = c
      <3>1. /\ Mapped(hook') \in Book
            /\ Mapped(hook').initialized <=> c.initialized
            /\ Mapped(hook').exited <=> c.exited
            /\ Mapped(hook').deployEnabled <=> c.deployEnabled
            /\ Mapped(hook').base <=> c.base
            /\ Mapped(hook').guard <=> c.guard
            /\ Mapped(hook').pulled = c.pulled
        BY <1>1, <1>10, <2>1, <2>2, MappedType DEF GuardPulled, LiveHook
      <3> QED
        BY <2>2, <3>1, SameBook
    <2>4. Live(Mapped(hook))
      BY <1>1, StateTypes, MappedType DEF Live, LiveHook
    <2> QED
      BY <2>3, <2>4 DEF HookPullAll, b, c
  <1>12. GuardStep
    BY <1>10, StateTypes, GuardStepCases
  <1> QED
    BY <1>9, <1>11, <1>12 DEF StepKeeps, BookStep

LEMMA RearmStep ==
  ASSUME IInv, Rearm
  PROVE  StepKeeps
  <1> DEFINE h == [hook EXCEPT !.exited = FALSE]
  <1>1. /\ hook.poolInitialized /\ hook.exited /\ hook' \in ArmHook(h, price)
        /\ UNCHANGED <<params, price, oracle, vault, traders>>
    BY DEF Rearm
  <1>2. /\ h \in Hook /\ ~h.exited /\ h.poolInitialized = hook.poolInitialized
        /\ h.deployEnabled = hook.deployEnabled
        /\ h.guardPresent = hook.guardPresent /\ h.guardPosition = hook.guardPosition
        /\ h.basePosition = hook.basePosition /\ h.pulledAt = hook.pulledAt
        /\ h.idle = hook.idle /\ h.claims = hook.claims
    BY StateTypes DEF Hook
  <1> HIDE DEF h
  <1>3. Keeps(h, hook, price) /\ Flagged(h)
    BY <1>2, StateTypes
    DEF Keeps, Flagged, SameOwned, Owned, Held, GuardAmounts, BaseAmounts
  <1>4. /\ Keeps(hook', h, price) /\ SamePhase(hook', h)
        /\ hook'.basePosition.liquidity # 0
        /\ IF h.deployEnabled THEN GuardPlaced(hook', price) ELSE GuardStays(hook', h)
    BY <1>1, <1>2, <1>3, StateTypes, ArmHookKeeps
  <1>5. Keeps(hook', hook, price) /\ hook' \in Hook
    BY <1>3, <1>4, KeepsTransitive DEF Keeps
  <1>6. OutUnlessLive(hook')
    BY <1>1, <1>2, <1>4 DEF OutUnlessLive, LiveHook, SamePhase
  <1>7. IInv'
    BY <1>1, <1>5, <1>6, StateTypes, InternalCall
  <1>8. Mapped(hook') \in HookRearm(Mapped(hook))
    <2> DEFINE c == [Mapped(hook) EXCEPT !.exited = FALSE]
    <2>1. Mapped(hook') = Arm(Mapped(h))
      BY <1>2, <1>4, <1>5, StateTypes, MappedGuardMoves
    <2>2. /\ c \in Book /\ ~c.exited /\ c.initialized = Mapped(hook).initialized
          /\ c.deployEnabled = Mapped(hook).deployEnabled /\ c.base = Mapped(hook).base
          /\ c.guard = Mapped(hook).guard /\ c.pulled = Mapped(hook).pulled
      <3>1. Mapped(hook) \in Book
        BY StateTypes, MappedType
      <3> QED
        BY <3>1 DEF Book
    <2> HIDE DEF c
    <2>3. Mapped(h) = c
      BY <1>2, <2>2, StateTypes, MappedType, SameBook
    <2>4. Mapped(hook).initialized /\ Mapped(hook).exited
      BY <1>1, StateTypes, MappedType
    <2> QED
      BY <2>1, <2>3, <2>4 DEF HookRearm, c
  <1>9. GuardStep
    BY <1>2, <1>4, <1>5, StateTypes, GuardStepCases DEF GuardStays
  <1> QED
    BY <1>7, <1>8, <1>9 DEF StepKeeps, BookStep

LEMMA RecheckGuardStep ==
  ASSUME IInv, RecheckGuard
  PROVE  StepKeeps
  <1>1. /\ RecheckDue /\ UNCHANGED <<params, price, oracle, vault, traders>>
        /\ hook' = hook \/ hook' \in DeployGuardStrict(hook, price)
    BY DEF RecheckGuard
  <1>2. CASE hook' = hook
    <2>1. oracle' \in [mid : Prices, usable : BOOLEAN]
      BY <1>1, StateTypes
    <2> QED
      BY <1>1, <1>2, <2>1, StillHook
  <1>3. CASE hook' \in DeployGuardStrict(hook, price)
    <2>1. /\ LiveHook(hook) /\ hook.deployEnabled /\ ~hook.guardPresent
          /\ hook.pulledAt = RecheckInterval
      BY <1>1 DEF RecheckDue
    <2>2. /\ Keeps(hook', hook, price) /\ SamePhase(hook', hook)
          /\ GuardPlaced(hook', price) /\ SameBase(hook', hook)
      BY <1>3, StateTypes, DeployGuardKeeps DEF GuardPlaced, SameBase
    <2>3. OutUnlessLive(hook')
      BY <2>1, <2>2 DEF OutUnlessLive, LiveHook, SamePhase
    <2>4. IInv'
      BY <1>1, <2>2, <2>3, StateTypes, InternalCall
    <2>5. Mapped(hook') \in HookRecheckGuard(Mapped(hook))
      <3>1. Mapped(hook') = PlaceGuard(Mapped(hook))
        BY <2>2, StateTypes, MappedGuardMoves DEF Keeps
      <3> QED
        BY <2>1, <3>1, StateTypes, MappedType DEF HookRecheckGuard, Live, LiveHook
    <2>6. GuardStep
      BY <2>2, StateTypes, GuardStepCases DEF Keeps
    <2> QED
      BY <2>4, <2>5, <2>6 DEF StepKeeps, BookStep
  <1> QED
    BY <1>1, <1>2, <1>3

LEMMA SwapStep ==
  ASSUME IInv, Swap
  PROVE  StepKeeps
  <1>1. /\ hook.poolInitialized /\ hook' \in BeforeSwap(hook, price) /\ price' \in Prices
        /\ Covers(traders ++ Held(hook', price), Held(hook', price'))
        /\ traders' = (traders ++ Held(hook', price)) -- Held(hook', price')
        /\ UNCHANGED <<params, oracle, vault>>
    BY DEF Swap
  <1>2. /\ Keeps(hook', hook, price) /\ SamePhase(hook', hook)
        /\ hook'.basePosition = hook.basePosition
        /\ hook.exited => hook' = hook
        /\ \/ GuardStays(hook', hook)
           \/ ~hook'.guardPresent /\ ~hook.guardPresent /\ hook'.pulledAt = hook.pulledAt
           \/ GuardPulled(hook', hook)
           \/ hook.deployEnabled /\ GuardPlaced(hook', price)
    BY <1>1, StateTypes, BeforeSwapKeeps
  <1>3. hook' \in Hook /\ Flagged(hook') /\ price' \in Nat
    BY <1>1, <1>2, PricesAssumption DEF Keeps
  <1>4. OutUnlessLive(hook')
    BY <1>1, <1>2, StateTypes DEF OutUnlessLive, LiveHook, SamePhase
  <1> DEFINE before == Held(hook', price)
             after == Held(hook', price')
  <1>5. /\ before \in Funds /\ after \in Funds /\ traders ++ before \in Funds
        /\ traders' \in Funds /\ vault' \in Funds
    <2>1. before \in Funds /\ after \in Funds
      BY <1>3, StateTypes, HeldType
    <2> QED
      BY <1>1, <2>1, StateTypes, FundsAdd
  <1>6. ASSUME NEW a \in Assets
        PROVE  vault'[a] + traders'[a] + Owned(hook', price', a)
                 = vault[a] + traders[a] + Owned(hook, price, a)
    <2> DEFINE t == traders[a]
               i == hook'.idle[a]
               c == hook'.claims[a]
               x == before[a]
               y == after[a]
    <2>1. t \in Nat /\ i \in Nat /\ c \in Nat /\ x \in Nat /\ y \in Nat
      <3>1. hook'.idle \in Funds /\ hook'.claims \in Funds
        BY <1>3 DEF Hook, Funds
      <3> QED
        BY <1>5, <3>1, StateTypes DEF Funds
    <2>2. traders'[a] = (t + x) - y
      <3>1. (traders ++ before)[a] = t + x
        BY <1>5, StateTypes, FundsAdd
      <3>2. traders'[a] = (traders ++ before)[a] - y
        BY <1>1, <1>5, FundsAdd
      <3> QED
        BY <3>1, <3>2
    <2>3. /\ Owned(hook', price, a) = i + c + x /\ Owned(hook', price', a) = i + c + y
          /\ Owned(hook', price, a) = Owned(hook, price, a)
      BY <1>2 DEF Owned, Keeps, SameOwned
    <2>4. vault'[a] = vault[a] /\ vault[a] \in Nat
      BY <1>1, StateTypes DEF Funds
    <2> HIDE DEF t, i, c, x, y
    <2>5. traders'[a] + Owned(hook', price', a) = t + Owned(hook, price, a)
      BY <2>1, <2>2, <2>3
    <2>6. /\ Owned(hook, price, a) \in Nat /\ Owned(hook', price', a) \in Nat
          /\ traders'[a] \in Nat
      BY <1>3, <1>5, StateTypes, TotalOfParts
    <2>7. vault[a] + traders'[a] + Owned(hook', price', a) = vault[a] + t + Owned(hook, price, a)
      BY <2>1, <2>4, <2>5, <2>6
    <2> QED
      BY <2>4, <2>7 DEF t
  <1>7. IInv'
    <2>1. params' \in ParamChoices /\ oracle' \in [mid : Prices, usable : BOOLEAN]
      BY <1>1, StateTypes
    <2> HIDE DEF before, after
    <2> QED
      BY <1>1, <1>3, <1>4, <1>5, <1>6, <2>1, AnyCall
  <1>8. BookStep(Mapped(hook), Mapped(hook'))
    <2>1. SameBase(hook', hook)
      BY <1>2 DEF SameBase
    <2>2. Mapped(hook).initialized /\ (hook.exited <=> Mapped(hook).exited)
      BY <1>1, StateTypes, MappedType
    <2>3. CASE hook.exited
      BY <1>2, <2>3 DEF BookStep
    <2>4. CASE ~hook.exited
      <3>1. Live(Mapped(hook))
        BY <2>2, <2>4 DEF Live
      <3>2. CASE \/ GuardStays(hook', hook)
                 \/ ~hook'.guardPresent /\ ~hook.guardPresent /\ hook'.pulledAt = hook.pulledAt
                 \/ GuardPulled(hook', hook)
        <4>1. GuardStays(hook', hook) \/ GuardPulled(hook', hook)
          BY <3>2 DEF GuardPulled
        <4>2. Mapped(hook') \in {Mapped(hook), PullGuard(Mapped(hook))}
          BY <1>2, <1>3, <2>1, <4>1, StateTypes, MappedGuardMoves
        <4>3. Mapped(hook') \in HookSwap(Mapped(hook))
          BY <2>2, <3>1, <4>2 DEF HookSwap
        <4> QED
          BY <4>3 DEF BookStep
      <3>3. CASE hook.deployEnabled /\ GuardPlaced(hook', price)
        <4>1. Mapped(hook') = PlaceGuard(Mapped(hook)) /\ Mapped(hook).deployEnabled
          BY <1>2, <1>3, <2>1, <3>3, StateTypes, MappedGuardMoves, MappedType
        <4>2. Mapped(hook') \in HookSwap(Mapped(hook))
          BY <2>2, <3>1, <4>1 DEF HookSwap
        <4> QED
          BY <4>2 DEF BookStep
      <3> QED
        BY <1>2, <3>2, <3>3
    <2> QED
      BY <2>3, <2>4
  <1>9. GuardStep
    BY <1>2, <1>3, StateTypes, GuardStepCases
  <1> QED
    BY <1>7, <1>8, <1>9 DEF StepKeeps

LEMMA TickStep ==
  ASSUME IInv, Tick
  PROVE  StepKeeps
  <1>1. /\ hook' = [hook EXCEPT !.pulledAt = Older(hook.pulledAt, RecheckInterval)]
        /\ UNCHANGED <<params, price, oracle, vault, traders>>
    BY StateTypes DEF Tick, Hook
  <1>2. /\ hook.pulledAt \in Ages(RecheckInterval) /\ hook.pulledAt \in Int
        /\ Older(hook.pulledAt, RecheckInterval) \in Ages(RecheckInterval)
        /\ Older(hook.pulledAt, RecheckInterval) \in Int
        /\ Older(hook.pulledAt, RecheckInterval) >= hook.pulledAt
    <2>1. hook.pulledAt \in Ages(RecheckInterval)
      BY StateTypes DEF Hook
    <2> QED
      BY <2>1, RecheckIntervalAssumption DEF Ages, Older, NoTime
  <1>3. /\ hook' \in Hook /\ hook'.deployEnabled = hook.deployEnabled
        /\ hook'.poolInitialized = hook.poolInitialized /\ hook'.exited = hook.exited
        /\ hook'.guardPresent = hook.guardPresent /\ hook'.guardPosition = hook.guardPosition
        /\ hook'.basePosition = hook.basePosition
        /\ hook'.pulledAt = Older(hook.pulledAt, RecheckInterval)
        /\ hook'.idle = hook.idle /\ hook'.claims = hook.claims
    BY <1>1, <1>2, StateTypes DEF Hook
  <1>4. Keeps(hook', hook, price)
    BY <1>3, StateTypes
    DEF Keeps, Flagged, SameOwned, Owned, Held, GuardAmounts, BaseAmounts
  <1>5. OutUnlessLive(hook')
    BY <1>3, StateTypes DEF OutUnlessLive, OutOfPool, LiveHook
  <1>6. IInv'
    BY <1>1, <1>4, <1>5, StateTypes, InternalCall
  <1>7. Mapped(hook') = OlderBook(Mapped(hook))
    <2> DEFINE c == OlderBook(Mapped(hook))
    <2>1. /\ c \in Book /\ c.initialized = Mapped(hook).initialized
          /\ c.exited = Mapped(hook).exited /\ c.deployEnabled = Mapped(hook).deployEnabled
          /\ c.base = Mapped(hook).base /\ c.guard = Mapped(hook).guard
          /\ c.pulled = Older(Mapped(hook).pulled, RecheckInterval)
      <3>1. Mapped(hook) \in Book /\ Mapped(hook).pulled = hook.pulledAt
        BY StateTypes, MappedType
      <3> QED
        BY <1>2, <3>1 DEF OlderBook, Book
    <2> HIDE DEF c
    <2>2. Mapped(hook') = c
      BY <1>3, <2>1, StateTypes, MappedType, SameBook
    <2> QED
      BY <2>2 DEF c
  <1>8. GuardStep
    BY <1>2, <1>3 DEF GuardStep
  <1> QED
    BY <1>6, <1>7, <1>8 DEF StepKeeps, BookStep

LEMMA EveryStep ==
  ASSUME IInv, [Next]_vars
  PROVE  StepKeeps
  <1>1. CASE InitializeBook BY <1>1, InitializeBookStep
  <1>2. CASE SetDeployEnabled BY <1>2, SetDeployEnabledStep
  <1>3. CASE SetGuardParams BY <1>3, SetGuardParamsStep
  <1>4. CASE DeployGuard BY <1>4, DeployGuardStep
  <1>5. CASE RecenterGuard BY <1>5, RecenterGuardStep
  <1>6. CASE RecallToVault BY <1>6, RecallToVaultStep
  <1>7. CASE WithdrawInventory BY <1>7, WithdrawInventoryStep
  <1>8. CASE PullAll BY <1>8, PullAllStep
  <1>9. CASE Rearm BY <1>9, RearmStep
  <1>10. CASE FundHook BY <1>10, FundHookStep
  <1>11. CASE RecheckGuard BY <1>11, RecheckGuardStep
  <1>12. CASE UnwindClaims BY <1>12, UnwindClaimsStep
  <1>13. CASE Swap BY <1>13, SwapStep
  <1>14. CASE OracleMove BY <1>14, StillHook DEF OracleMove
  <1>15. CASE Tick BY <1>15, TickStep
  <1>16. CASE UNCHANGED vars
    <2>1. /\ UNCHANGED <<hook, params, price, vault, traders>>
          /\ oracle' \in [mid : Prices, usable : BOOLEAN]
      BY <1>16, StateTypes DEF vars
    <2> QED
      BY <2>1, StillHook
  <1> QED
    BY <1>1, <1>2, <1>3, <1>4, <1>5, <1>6, <1>7, <1>8, <1>9, <1>10, <1>11, <1>12, <1>13,
       <1>14, <1>15, <1>16
    DEF Next, OwnerCall

-----------------------------------------------------------------------------
(* Theorems *)

\* The inductive invariant holds.
THEOREM Invariance == Spec => []IInv
  <1>1. IInv /\ [Next]_vars => IInv'
    BY EveryStep DEF StepKeeps
  <1> QED
    BY InitIInv, <1>1, PTL DEF Spec

\* Every state the hook reaches has the types of its storage; in particular a swap
\* never leaves it with less than nothing of a token.
THEOREM TypeCorrect == Spec => []TypeOK
  <1>1. IInv => TypeOK
    BY DEF IInv
  <1> QED
    BY Invariance, <1>1, PTL

\* No call and no swap creates or loses a token (_pullGuard, _unwindClaims,
\* _openBand, _sweepToVault).
THEOREM TokensConserved == Spec => []Conserved
  <1>1. IInv => Conserved
    BY DEF IInv
  <1> QED
    BY Invariance, <1>1, PTL

\* pullAll leaves nothing of the book in its pool (pullAll, beforeSwap).
THEOREM ExitIsComplete == Spec => []ExitedBookIsOut
  <1>1. IInv => ExitedBookIsOut
    <2> SUFFICES ASSUME IInv, hook.exited
                 PROVE  Held(hook, price) = Nothing /\ hook.claims = Nothing
      BY DEF ExitedBookIsOut
    <2>1. OutOfPool(hook)
      BY StateTypes DEF OutUnlessLive, LiveHook
    <2> QED
      BY <2>1, StateTypes, OutHoldsNothing DEF OutOfPool
  <1> QED
    BY Invariance, <1>1, PTL

\* Whoever deploys the guard, it lands where a live oracle agrees (_requireOracle,
\* _tryDeployGuardInSwap, recheckGuard).
THEOREM PlacedInBand == Spec => GuardLandsInBand
  <1>1. IInv /\ [Next]_vars
          => [hook'.guardPresent /\ hook'.guardPosition # hook.guardPosition
                => (oracle.usable => ~OffBand(hook'.guardPosition.center))]_vars
    BY EveryStep DEF StepKeeps, GuardStep
  <1> QED
    BY Invariance, <1>1, PTL DEF Spec, GuardLandsInBand

\* An outage of the guard is never restarted (_pullGuard, recheckGuard).
THEOREM OutageAges == Spec => OutageNeverRestarts
  <1>1. IInv /\ [Next]_vars
          => [hook.poolInitialized /\ ~hook.guardPresent /\ ~hook'.guardPresent
                => hook'.pulledAt >= hook.pulledAt]_vars
    BY EveryStep DEF StepKeeps, GuardStep
  <1> QED
    BY Invariance, <1>1, PTL DEF Spec, OutageNeverRestarts

\* The hook implements the abstract book the vault is composed with.
THEOREM Refinement == Spec => BookPromise
  <1>1. Init => Promise!Init
    <2> SUFFICES ASSUME Init PROVE Promise!Init
      OBVIOUS
    <2>1. /\ hook.poolInitialized = FALSE /\ hook.exited = FALSE
          /\ hook.deployEnabled = FALSE /\ hook.guardPresent = FALSE
          /\ hook.pulledAt = NoTime
          /\ (hook.basePosition.liquidity # 0) = FALSE
      BY DEF Init, FreshHook, NoPosition
    <2>2. Promise!NoTime = NoTime
      BY DEF Promise!NoTime, NoTime
    <2> QED
      BY <2>1, <2>2 DEF Promise!Init, Promise!FreshBook
  <1>2. IInv /\ [Next]_vars => [Promise!Next]_(Mapped(hook))
    <2> SUFFICES ASSUME IInv, [Next]_vars PROVE [Promise!Next]_(Mapped(hook))
      OBVIOUS
    <2>1. BookStep(Mapped(hook), Mapped(hook'))
      BY EveryStep DEF StepKeeps
    <2>2. BookStep(Mapped(hook), Mapped(hook)')
      BY <2>1 DEF Mapped
    <2> DEFINE b == Mapped(hook)
    <2>3. BookStep(b, b') => Promise!Next \/ UNCHANGED b
      BY DEF BookStep, Promise!Next, Mapped,
             HookInitialize, HookSetDeployEnabled, HookDeployGuard, HookRecenterGuard,
             HookRecallToVault, HookPullAll, HookRearm, HookRecheckGuard, HookSwap,
             OlderBook, Arm, PlaceGuard, PullGuard, Live, NoTime, Older,
             Promise!HookInitialize, Promise!HookSetDeployEnabled,
             Promise!HookDeployGuard, Promise!HookRecenterGuard,
             Promise!HookRecallToVault, Promise!HookPullAll, Promise!HookRearm,
             Promise!HookRecheckGuard, Promise!HookSwap, Promise!OlderBook,
             Promise!Arm, Promise!PlaceGuard, Promise!PullGuard, Promise!Live,
             Promise!NoTime, Promise!Older
    <2> QED
      BY <2>2, <2>3
  <1> QED
    BY Invariance, <1>1, <1>2, PTL DEF Spec, BookPromise, Promise!Spec, Mapped
=============================================================================
