---------------------------- MODULE TrancheEpochs ----------------------------
(***************************************************************************)
(* TrancheAccountant over the two tranche vaults: deposits and exit orders, *)
(* the rebalancing of hook shares between the tranches, the daily epochs    *)
(* and the fills and claims of orders, up to the settlement of the book.    *)
(*                                                                         *)
(* A vault holds hook shares; its own shares are the claims of its users.   *)
(* The hook prices a hook share (NAV) at whatever the market makes of it.   *)
(***************************************************************************)
EXTENDS Integers, FiniteSets, Functions

CONSTANTS
    Users,              \* who places orders
    HookSupply,         \* hook shares in existence, in the vaults and outside
    Markets,            \* what the hook may read: nav, quote to a hook share, and valid
    BPS,                \* BPS, ten thousand in the code
    FloorBps,           \* MIN_JUNIOR_FLOOR_BPS
    RateUnit,           \* fixed-point scale of the epoch rates, 1e18 in the code
    Offset,             \* virtual vault shares, 10 ** _decimalsOffset()
    Dust,               \* SENIOR_PRIORITY_DUST
    MaxSupply,          \* bound: vault shares of one tranche
    MaxPrincipal        \* bound: seniorPrincipal

ASSUME UnitsAssumption ==
    /\ HookSupply \in Nat \ {0} /\ RateUnit \in Nat \ {0}
    /\ Offset \in Nat \ {0} /\ Dust \in Nat

ASSUME FloorAssumption == BPS \in Nat /\ FloorBps \in Nat /\ FloorBps < BPS

ASSUME MarketsAssumption == \A m \in Markets : m.nav \in Nat /\ m.valid \in BOOLEAN

ASSUME UsersAssumption == IsFiniteSet(Users)

Tranches == {"senior", "junior"}
Sibling(t) == IF t = "senior" THEN "junior" ELSE "senior"

VARIABLES
    market,             \* what the hook reads: its NAV, and whether its oracle is valid
    balance,            \* hook shares in each vault
    free,               \* vault shares in users' hands
    requested,          \* vault shares in unfilled orders (totalPendingRedeemShares)
    pending,            \* the same, by user
    claimable,          \* filled orders: vault shares, and the hook shares they pay
    seniorPrincipal,    \* quote; juniorPrincipal is read by setEscrowBps alone
    locked,             \* claimableSenior, claimableJunior: hook shares
    snap,               \* the latest snapshot: what part of an order it fills, per
                        \* tranche, and its rate, hook shares to a vault share
    frozen,
    expired

vars == <<market, balance, free, requested, pending, claimable, seniorPrincipal, locked,
          snap, frozen, expired>>

NoSnap == [taken |-> FALSE, f |-> [t \in Tranches |-> 0], rate |-> [t \in Tranches |-> 0]]

TypeOK ==
    /\ market \in Markets
    /\ balance \in [Tranches -> Nat]
    /\ free \in [Tranches -> Nat]
    /\ requested \in [Tranches -> Nat]
    /\ pending \in [Tranches -> [Users -> Nat]]
    /\ claimable \in [Tranches -> [Users -> Nat]]
    /\ seniorPrincipal \in Nat
    /\ locked \in [Tranches -> Nat]
    /\ snap \in [taken : BOOLEAN, f : [Tranches -> Nat], rate : [Tranches -> Nat]]
    /\ frozen \in BOOLEAN /\ expired \in BOOLEAN

Nothing == [t \in Tranches |-> 0]

Init ==
    /\ market \in Markets
    /\ balance = Nothing /\ free = Nothing /\ requested = Nothing
    /\ pending = [t \in Tranches |-> [u \in Users |-> 0]]
    /\ claimable = [t \in Tranches |-> [u \in Users |-> 0]]
    /\ seniorPrincipal = 0 /\ locked = Nothing
    /\ snap = NoSnap
    /\ frozen = FALSE /\ expired = FALSE

-----------------------------------------------------------------------------
(* Claims of the tranches *)

\* Mutant of Monus: the subtraction is not clamped.
Minus(m, n) == m - n

Least(m, n) == IF m < n THEN m ELSE n
Monus(m, n) == IF m > n THEN m - n ELSE 0

Wallets == HookSupply - balance["senior"] - balance["junior"]
Supply(t) == free[t] + requested[t]

\* convertToQuote.
Value(shares) == shares * market.nav
PoolValue == Value(balance["senior"] + balance["junior"])
EffectivePool == Monus(PoolValue, Value(locked["senior"] + locked["junior"]))

\* Mutant of SeniorClaim: value already locked for senior is promised again.
SeniorClaimTwice == Least(seniorPrincipal, EffectivePool)

SeniorClaim ==
    Least(Monus(seniorPrincipal, Value(locked["senior"])), EffectivePool)

ClaimOf(t) == IF t = "senior" THEN SeniorClaim ELSE EffectivePool - SeniorClaim

\* The accounting oracle gate; past expiry nothing asks for it.
OracleAllows == expired \/ market.valid

Spendable(t, held) == Monus(held[t], locked[t])
ToAssets(t, held, shares) == (shares * (held[t] + 1)) \div (Supply(t) + Offset)

\* Mutant of Rebalanced: senior's target forgets what is locked for senior.
RebalancedNet ==
    LET total     == balance["senior"] + balance["junior"]
        target    == (total * SeniorClaim) \div PoolValue
        moved(t)  == Least(IF t = "senior" THEN Monus(target, balance["senior"])
                           ELSE Monus(balance["senior"], target),
                           Spendable(Sibling(t), balance))
    IN  IF PoolValue = 0 THEN balance
        ELSE [t \in Tranches |-> balance[t] + moved(t) - moved(Sibling(t))]

\* The balances _rebalance leaves: senior at its entitlement, locks never touched.
Rebalanced ==
    LET total     == balance["senior"] + balance["junior"]
        target    == (total * (SeniorClaim + Value(locked["senior"]))) \div PoolValue
        moved(t)  == Least(IF t = "senior" THEN Monus(target, balance["senior"])
                           ELSE Monus(balance["senior"], target),
                           Spendable(Sibling(t), balance))
    IN  IF PoolValue = 0 THEN balance
        ELSE [t \in Tranches |-> balance[t] + moved(t) - moved(Sibling(t))]

-----------------------------------------------------------------------------
(* Deposits and orders *)

Minted(t, assets) == (assets * (Supply(t) + Offset)) \div (balance[t] + 1)

FloorHolds(held) == held["junior"] * BPS >= FloorBps * (held["junior"] + held["senior"])

\* deposit, or depositQuote once the quote is wrapped. Principal takes the value the
\* hook reads, whether or not its oracle is valid.
Deposit(t, assets) ==
    LET held == [balance EXCEPT ![t] = @ + assets] IN
    /\ ~expired
    /\ t = "senior" => FloorHolds(held)
    /\ Supply(t) + Minted(t, assets) <= MaxSupply
    /\ t = "senior" => seniorPrincipal + Value(assets) <= MaxPrincipal
    /\ balance' = held
    /\ free' = [free EXCEPT ![t] = @ + Minted(t, assets)]
    /\ seniorPrincipal' = seniorPrincipal + IF t = "senior" THEN Value(assets) ELSE 0
    /\ UNCHANGED <<market, requested, pending, claimable, locked,
                   snap, frozen, expired>>

\* requestRedeem: any user may hold any of the free shares, which are ERC-20 tokens.
RequestRedeem(t, u, shares) ==
    /\ free' = [free EXCEPT ![t] = @ - shares]
    /\ requested' = [requested EXCEPT ![t] = @ + shares]
    /\ pending' = [pending EXCEPT ![t][u] = @ + shares]
    /\ UNCHANGED <<market, balance, claimable, seniorPrincipal, locked,
                   snap, frozen, expired>>

-----------------------------------------------------------------------------
(* Fills *)

\* Mutant of Fillable: no value cap, the vault's balance only.
FillableByBacking(t, held, shares, assets) == Least(assets, Spendable(t, held))

\* Mutant of Fillable: the cap on what the vault holds forgets the locks.
FillableByBalance(t, held, shares, assets) ==
    LET cap == (((ClaimOf(t) * shares) \div Supply(t)) * HookSupply) \div Value(HookSupply)
    IN  IF Supply(t) = 0 \/ Value(HookSupply) = 0 THEN Least(assets, held[t])
        ELSE Least(Least(assets, held[t]), cap)

\* The hook shares an order may take: backed, and within the tranche's claim.
Fillable(t, held, shares, assets) ==
    LET backed == Least(assets, Spendable(t, held))
        cap    == (((ClaimOf(t) * shares) \div Supply(t)) * HookSupply)
                    \div Value(HookSupply)
    IN  IF Supply(t) = 0 \/ Value(HookSupply) = 0 THEN backed ELSE Least(backed, cap)

\* _applyFill, fulfillRedeem of the vault and onTrancheRedeem. The vault's counters
\* are checked arithmetic.
ApplyFill(t, u, held, shares, assets) ==
    LET paid == Fillable(t, held, shares, assets) IN
    /\ OracleAllows
    /\ shares <= pending[t][u] /\ shares <= requested[t]
    /\ requested' = [requested EXCEPT ![t] = @ - shares]
    /\ pending' = [pending EXCEPT ![t][u] = @ - shares]
    /\ claimable' = [claimable EXCEPT ![t][u] = @ + paid]
    /\ locked' = [locked EXCEPT ![t] = @ + paid]

\* The keeper's fill of a whole order; anyone's once expired.
FulfillRedeem(t, u) ==
    /\ t = "junior" /\ ~frozen => requested["senior"] <= Dust
    /\ pending[t][u] # 0
    /\ balance' = Rebalanced
    /\ ApplyFill(t, u, Rebalanced, pending[t][u],
                 ToAssets(t, Rebalanced, pending[t][u]))
    /\ UNCHANGED <<market, free, seniorPrincipal, snap, frozen, expired>>

\* claimEpoch: the snapshot's fraction of an order, at the snapshot's rate.
ClaimEpoch(t, u) ==
    LET shares == (pending[t][u] * snap.f[t]) \div BPS
        assets == (shares * snap.rate[t]) \div RateUnit
    IN  /\ ~expired
        /\ snap.taken
        /\ assets # 0
        /\ ApplyFill(t, u, balance, shares, assets)
        /\ UNCHANGED <<market, balance, free, seniorPrincipal, snap, frozen, expired>>

\* Mutant of Redeem: the lock outlives the payment.
RedeemKeepingLock(t, u, paid) ==
    LET value == IF expired THEN paid ELSE Value(paid)
    IN  /\ paid <= balance[t]
        /\ claimable' = [claimable EXCEPT ![t][u] = @ - paid]
        /\ balance' = [balance EXCEPT ![t] = @ - paid]
        /\ seniorPrincipal' = IF t = "senior" THEN Monus(seniorPrincipal, value)
                              ELSE seniorPrincipal
        /\ UNCHANGED <<market, free, requested, pending, locked, snap, frozen,
                       expired>>

\* Mutant of Redeem: the principal stays what it was when the order was filled.
RedeemKeepingPrincipal(t, u, paid) ==
    /\ paid <= balance[t]
    /\ claimable' = [claimable EXCEPT ![t][u] = @ - paid]
    /\ balance' = [balance EXCEPT ![t] = @ - paid]
    /\ locked' = [locked EXCEPT ![t] = Monus(@, paid)]
    /\ UNCHANGED <<market, free, requested, pending, seniorPrincipal, snap, frozen,
                   expired>>

\* redeem of filled shares, with _withdraw and onTrancheClaim: of all that is owed to a
\* user, or of a part. Once expired the accountant takes the report for quote.
Redeem(t, u, paid) ==
    LET value == IF expired THEN paid ELSE Value(paid)
    IN  /\ paid <= balance[t]
        /\ claimable' = [claimable EXCEPT ![t][u] = @ - paid]
        /\ balance' = [balance EXCEPT ![t] = @ - paid]
        /\ seniorPrincipal' = IF t = "senior" THEN Monus(seniorPrincipal, value)
                              ELSE seniorPrincipal
        /\ locked' = IF expired THEN locked ELSE [locked EXCEPT ![t] = Monus(@, paid)]
        /\ UNCHANGED <<market, free, requested, pending, snap, frozen, expired>>

-----------------------------------------------------------------------------
(* Epochs *)

\* The senior side: its demand in hook shares, its rate, and what it is filled with. A
\* side that cannot be filled rolls over, with f = 0.
SeniorFill(held) ==
    LET demand == ToAssets("senior", held, requested["senior"])
        rate   == (demand * RateUnit) \div requested["senior"]
        fill   == IF rate = 0 THEN 0 ELSE Least(demand, Spendable("senior", held))
    IN  CASE requested["senior"] = 0 -> [f |-> BPS, rate |-> 0, demand |-> 0, fill |-> 0]
          [] demand = 0 -> [f |-> 0, rate |-> 0, demand |-> 0, fill |-> 0]
          [] OTHER -> [f |-> (fill * BPS) \div demand, rate |-> rate,
                       demand |-> demand, fill |-> fill]

\* Mutant of JuniorFill: no equal-ratio rule.
JuniorFillUncapped(held, senior) ==
    LET demand   == ToAssets("junior", held, requested["junior"])
        rate     == (demand * RateUnit) \div requested["junior"]
        keep     == ((Spendable("senior", held) - senior.fill) * FloorBps)
                       \div (BPS - FloorBps)
        floorMax == Monus(Spendable("junior", held), IF frozen THEN 0 ELSE keep)
        fill     == IF rate = 0 THEN 0 ELSE Least(demand, floorMax)
    IN  CASE requested["junior"] = 0 -> [f |-> BPS, rate |-> 0]
          [] demand = 0 -> [f |-> 0, rate |-> 0]
          [] OTHER -> [f |-> (fill * BPS) \div demand, rate |-> rate]

\* The junior side: its demand, what backs it, the floor it must leave under senior, and
\* the fraction senior gets.
JuniorFill(held, senior) ==
    LET demand    == ToAssets("junior", held, requested["junior"])
        rate      == (demand * RateUnit) \div requested["junior"]
        available == Spendable("junior", held)
        backing   == Spendable("senior", held)
        keep      == ((backing - senior.fill) * FloorBps) \div (BPS - FloorBps)
        floorMax  == Monus(available, IF frozen THEN 0 ELSE keep)
        ratioMax  == IF senior.demand = 0 \/ (senior.fill = 0 /\ backing = 0) THEN demand
                     ELSE (demand * senior.fill) \div senior.demand
        fill      == IF rate = 0 THEN 0 ELSE Least(demand, Least(floorMax, ratioMax))
    IN  CASE requested["junior"] = 0 -> [f |-> BPS, rate |-> 0]
          [] demand = 0 -> [f |-> 0, rate |-> 0]
          [] OTHER -> [f |-> (fill * BPS) \div demand, rate |-> rate]

\* executeEpoch; that a boundary has passed since the last one is always possible.
ExecuteEpoch ==
    LET senior == SeniorFill(Rebalanced)
        junior == JuniorFill(Rebalanced, senior)
    IN  /\ ~expired
        /\ OracleAllows
        /\ balance' = Rebalanced
        /\ snap' = [taken |-> TRUE,
                    f |-> [t \in Tranches |-> IF t = "senior" THEN senior.f ELSE junior.f],
                    rate |-> [t \in Tranches |->
                                IF t = "senior" THEN senior.rate ELSE junior.rate]]
        /\ UNCHANGED <<market, free, requested, pending, claimable, seniorPrincipal,
                       locked, frozen, expired>>

\* rebalance, the keeper's.
Rebalance ==
    /\ OracleAllows
    /\ balance' = Rebalanced
    /\ UNCHANGED <<market, free, requested, pending, claimable, seniorPrincipal, locked,
                   snap, frozen, expired>>

SetFrozen ==
    /\ frozen' = ~frozen
    /\ UNCHANGED <<market, balance, free, requested, pending, claimable, seniorPrincipal,
                   locked, snap, expired>>

-----------------------------------------------------------------------------
(* Environment *)

MarketMoves ==
    /\ market' \in Markets
    /\ UNCHANGED <<balance, free, requested, pending, claimable, seniorPrincipal, locked,
                   snap, frozen, expired>>

Expire ==
    /\ ~expired
    /\ expired' = TRUE
    /\ UNCHANGED <<market, balance, free, requested, pending, claimable, seniorPrincipal,
                   locked, snap, frozen>>

Next ==
    \/ \E t \in Tranches, n \in 1..Wallets : Deposit(t, n)
    \/ \E t \in Tranches, u \in Users :
          \/ \E n \in 1..free[t] : RequestRedeem(t, u, n)
          \/ FulfillRedeem(t, u)
          \/ ClaimEpoch(t, u)
          \/ \E n \in 1..claimable[t][u] : Redeem(t, u, n)
    \/ ExecuteEpoch \/ Rebalance \/ SetFrozen
    \/ MarketMoves \/ Expire

Spec == Init /\ [][Next]_vars

-----------------------------------------------------------------------------
(* What the comments claim and the code does not do *)

\* claimEpoch: "zero-rate / zero-fill snapshots roll (revert), never burn for ~nothing".
\* Roundings below a hook share aside: a tranche that may claim nothing burns no order.
ClaimNeverBurnsForNothing ==
    [][\A t \in Tranches, u \in Users :
          ClaimEpoch(t, u) /\ ClaimOf(t) = 0 => claimable'[t][u] > claimable[t][u]]_vars

\* onTrancheClaim: "the locked assets are no longer a liability of the tranche once they
\* leave the vault".
PaymentReleasesLock ==
    [][\A t \in Tranches, u \in Users, paid \in 1..HookSupply :
          Redeem(t, u, paid) => locked'[t] = locked[t] - paid]_vars

-----------------------------------------------------------------------------
(* Properties *)

\* ACCOUNTANT.md: fills are "clamped ... so integer dust can never leave a fulfilled
\* claim unbacked" and rebalancing goes "never below a vault's locked balance". A filled
\* order can always be paid by the vault that owes it.
LockedIsBacked == ~expired => \A t \in Tranches : locked[t] <= balance[t]

\* The lock of a tranche is what its users can still claim: no fill, partial claim or
\* clamp ever lets the accountant's counter drift from the vault's orders.
LockIsOwed ==
    ~expired => \A t \in Tranches : locked[t] = SumFunction(claimable[t])

\* seniorClaim is net of locked value, "else senior could exceed its promise across
\* fills": however many fills, what senior has locked is within its principal.
SeniorWithinPromise ==
    [][locked'["senior"] > locked["senior"]
         => Value(locked'["senior"]) <= seniorPrincipal]_vars

\* "Floor-rounding favors whoever stays": a fill, by the keeper or at a snapshot's old
\* rate, never lowers the claim per share of those who stay in its tranche, and leaves
\* the other tranche's claim alone.
FillsFavourStayers ==
    [][\A t \in Tranches : requested'[t] < requested[t]
         => /\ ClaimOf(t)' * Supply(t) >= ClaimOf(t) * Supply(t)'
            /\ ClaimOf(Sibling(t))' = ClaimOf(Sibling(t))]_vars

\* Paying out filled orders, rebalancing and closing an epoch leave what each tranche
\* may still claim as it was: they settle debts, and make nobody richer.
SettlingIsNeutral ==
    [][~expired /\ Wallets' >= Wallets /\ UNCHANGED <<market, free, requested>>
         => \A t \in Tranches : ClaimOf(t)' = ClaimOf(t)]_vars

\* After a rebalance each vault holds, net of its locks, every whole hook share of its
\* tranche's claim, even when locks limit what may move.
BackingFollowsClaims ==
    [][Rebalance \/ ExecuteEpoch
         => \A t \in Tranches :
               market.nav # 0 => (ClaimOf(t) < Value(Spendable(t, balance) + 1))']_vars

\* "Junior fill % never exceeds senior fill %", when senior has orders worth a hook
\* share and anything to fill them with.
JuniorNeverAhead ==
    [][(/\ ExecuteEpoch
        /\ \A t \in Tranches : requested[t] # 0
        /\ ToAssets("senior", balance', requested["senior"]) # 0
        /\ Spendable("senior", balance') # 0)
         => snap'.f["junior"] <= snap'.f["senior"]]_vars
=============================================================================
