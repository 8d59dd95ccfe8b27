------------------------------ MODULE GuardBook ------------------------------
(***************************************************************************)
(* PoolGuardHook in full: the base and guard positions a book holds in its  *)
(* pool, the tokens and ERC-6909 claims they turn into, the oracle band on  *)
(* every deployment, and the swaps that pull and place the guard from       *)
(* inside the pool.                                                         *)
(*                                                                         *)
(* A tick is an integer price; a position of liquidity L and half-width w   *)
(* around a centre holds L quote or L equity for every price step it spans. *)
(* A handler is an operator from a hook (a record) to the set of hooks its  *)
(* call may leave behind, empty when it reverts.                            *)
(***************************************************************************)
EXTENDS BookHandlers

CONSTANTS
    Prices,             \* the ticks the pool and the oracle visit
    GuardWidth,         \* guardTickWidth
    BaseWidth,          \* baseTickWidth
    BaseLiquidity,      \* baseLiquidity
    ParamChoices,       \* the (guardLiquidity, maxDeviation) pairs the keeper sets
    VaultFunds,         \* tokens of each asset the vault starts with
    TraderFunds         \* tokens of each asset the swappers start with

ASSUME PricesAssumption == Prices \subseteq Nat /\ Prices # {}

ASSUME WidthsAssumption == GuardWidth \in Nat \ {0} /\ BaseWidth \in Nat \ {0}

\* GuardParams.validate: liquidities are not zero; a zero band is a disabled one.
ASSUME ParamsAssumption ==
    /\ BaseLiquidity \in Nat \ {0}
    /\ \A choice \in ParamChoices :
          choice.guardLiquidity \in Nat \ {0} /\ choice.maxDeviation \in Nat

ASSUME FundsAssumption == VaultFunds \in Nat /\ TraderFunds \in Nat

VARIABLES
    hook,               \* the storage of the hook and its token balances
    params,             \* its guard parameters
    price,              \* the pool's current tick
    oracle,             \* [mid, usable]: the price feed, and whether it passes the gate
    vault, traders      \* tokens of the vault and of everyone who swaps

vars == <<hook, params, price, oracle, vault, traders>>

-----------------------------------------------------------------------------
(* Tokens and positions *)

Assets == {"quote", "equity"}
Nothing == [asset \in Assets |-> 0]

f ++ g == [asset \in Assets |-> f[asset] + g[asset]]
f -- g == [asset \in Assets |-> f[asset] - g[asset]]
Covers(f, g) == \A asset \in Assets : f[asset] >= g[asset]

Position == [center : Prices \union {0}, liquidity : Nat]

\* The ticks of a position without liquidity are never read.
NoPosition == [center |-> 0, liquidity |-> 0]

Within(n, top) == IF n < 0 THEN 0 ELSE IF n > top THEN top ELSE n

\* What a position is worth at tick p: quote for the steps below, equity above.
Amounts(position, width, p) ==
    LET below == Within(p - position.center + width, 2 * width)
    IN  [asset \in Assets |->
            position.liquidity * (IF asset = "quote" THEN below ELSE 2 * width - below)]

GuardAmounts(h, p) == Amounts(h.guardPosition, GuardWidth, p)
BaseAmounts(h, p) == Amounts(h.basePosition, BaseWidth, p)
Held(h, p) == GuardAmounts(h, p) ++ BaseAmounts(h, p)

Hook == [poolInitialized : BOOLEAN, exited : BOOLEAN, deployEnabled : BOOLEAN,
         guardPresent : BOOLEAN, guardPosition : Position, basePosition : Position,
         pulledAt : Ages(RecheckInterval),
         idle : [Assets -> Nat], claims : [Assets -> Nat]]

FreshHook == [poolInitialized |-> FALSE, exited |-> FALSE, deployEnabled |-> FALSE,
              guardPresent |-> FALSE, guardPosition |-> NoPosition,
              basePosition |-> NoPosition, pulledAt |-> NoTime,
              idle |-> Nothing, claims |-> Nothing]

TypeOK ==
    /\ hook \in Hook
    /\ params \in ParamChoices
    /\ price \in Prices
    /\ oracle \in [mid : Prices, usable : BOOLEAN]
    /\ vault \in [Assets -> Nat]
    /\ traders \in [Assets -> Nat]

Init ==
    /\ hook = FreshHook
    /\ params \in ParamChoices
    /\ price \in Prices
    /\ oracle \in [mid : Prices, usable : BOOLEAN]
    /\ vault = [asset \in Assets |-> VaultFunds]
    /\ traders = [asset \in Assets |-> TraderFunds]

-----------------------------------------------------------------------------
(* Internals of the hook *)

LiveHook(h) == h.poolInitialized /\ ~h.exited

Deviation(p) == IF p > oracle.mid THEN p - oracle.mid ELSE oracle.mid - p
OffBand(p) == params.maxDeviation # 0 /\ Deviation(p) > params.maxDeviation

\* The unwind is limited by the tokens in the pool manager, which only a swap's own
\* session can have taken out.
Redeem(h, amount) == [h EXCEPT !.idle = @ ++ amount, !.claims = @ -- amount]
UnwindAll(h) == Redeem(h, h.claims)
Redemptions(h) ==
    {amount \in [quote : 0..h.claims["quote"], equity : 0..h.claims["equity"]] : TRUE}

\* Mutant of PullGuardIdle: pulls the configured liquidity, not the deployed one.
PullGuardConfigured(h, p) ==
    IF ~h.guardPresent THEN h
    ELSE [h EXCEPT !.idle = @ ++ Amounts([center |-> h.guardPosition.center,
                                          liquidity |-> params.guardLiquidity],
                                         GuardWidth, p),
                   !.guardPosition = NoPosition, !.guardPresent = FALSE, !.pulledAt = 0]

\* _pullGuard(false): the tokens come to the hook.
PullGuardIdle(h, p) ==
    IF ~h.guardPresent \/ h.guardPosition.liquidity = 0 THEN h
    ELSE [h EXCEPT !.idle = @ ++ GuardAmounts(h, p), !.guardPosition = NoPosition,
                   !.guardPresent = FALSE, !.pulledAt = 0]

\* Mutant of PullGuardClaims: an in-swap pull does not record when.
PullGuardUndated(h, p) ==
    IF ~h.guardPresent THEN h
    ELSE [h EXCEPT !.claims = @ ++ GuardAmounts(h, p), !.guardPosition = NoPosition,
                   !.guardPresent = FALSE]

\* _pullGuard(true): inside a swap the tokens stay in the pool as claims.
PullGuardClaims(h, p) ==
    IF ~h.guardPresent \/ h.guardPosition.liquidity = 0 THEN h
    ELSE [h EXCEPT !.claims = @ ++ GuardAmounts(h, p), !.guardPosition = NoPosition,
                   !.guardPresent = FALSE, !.pulledAt = 0]

PullBase(h, p) ==
    IF h.basePosition.liquidity = 0 THEN h
    ELSE [h EXCEPT !.idle = @ ++ BaseAmounts(h, p), !.basePosition = NoPosition]

GuardAt(p) == [center |-> p, liquidity |-> params.guardLiquidity]
GuardNeed(p) == Amounts(GuardAt(p), GuardWidth, p)

OpenGuard(h, p) ==
    [h EXCEPT !.idle = @ -- GuardNeed(p), !.guardPosition = GuardAt(p),
              !.guardPresent = TRUE, !.pulledAt = NoTime]

DeployBase(h, p) ==
    LET position == [center |-> p, liquidity |-> BaseLiquidity]
        need == Amounts(position, BaseWidth, p)
    IN  IF h.basePosition.liquidity # 0 THEN {h}
        ELSE IF Covers(h.idle, need)
        THEN {[h EXCEPT !.idle = @ -- need, !.basePosition = position]}
        ELSE {}

\* Mutant of DeployGuardStrict: checks the inventory before the claims are redeemed.
DeployGuardOneShot(h, p) ==
    IF ~h.guardPresent /\ (oracle.usable => ~OffBand(p)) /\ Covers(h.idle, GuardNeed(p))
    THEN {OpenGuard(h, p)}
    ELSE {}

\* A read that is not available does not stop a deliberate deployment.
DeployGuardStrict(h, p) ==
    IF /\ ~h.guardPresent
       /\ oracle.usable => ~OffBand(p)
       /\ Covers(UnwindAll(h).idle, GuardNeed(p))
    THEN {OpenGuard(UnwindAll(h), p)}
    ELSE {}

\* Mutants of TryDeployGuardInSwap: no band check; no inventory check.
TryDeployOnAnyTick(h, p) ==
    {IF Covers(g.idle, GuardNeed(p)) THEN OpenGuard(g, p) ELSE g
        : g \in {Redeem(h, amount) : amount \in Redemptions(h)}}

TryDeployUnfunded(h, p) ==
    IF params.maxDeviation # 0 /\ (~oracle.usable \/ OffBand(p)) THEN {h}
    ELSE {OpenGuard(Redeem(h, amount), p) : amount \in Redemptions(h)}

\* A shortfall rolls the published position back and keeps the redeemed claims.
TryDeployGuardInSwap(h, p) ==
    IF params.maxDeviation # 0 /\ (~oracle.usable \/ OffBand(p)) THEN {h}
    ELSE {IF Covers(g.idle, GuardNeed(p)) THEN OpenGuard(g, p) ELSE g
            : g \in {Redeem(h, amount) : amount \in Redemptions(h)}}

ArmHook(h, p) ==
    UNION {IF h.deployEnabled THEN DeployGuardStrict(g, p) ELSE {g} : g \in DeployBase(h, p)}

\* What beforeSwap leaves behind, for every verdict of the EV simulation.
BeforeSwap(h, p) ==
    IF h.exited THEN {h}
    ELSE IF ~oracle.usable THEN {}
    ELSE {h} \union {PullGuardClaims(h, p)}
             \union (IF ~h.guardPresent /\ h.deployEnabled
                     THEN TryDeployGuardInSwap(h, p) ELSE {})

-----------------------------------------------------------------------------
(* Calls of the owning vault *)

Sweep(h) ==
    /\ hook' = [h EXCEPT !.idle = Nothing]
    /\ vault' = vault ++ h.idle

\* The owner picks the initial tick; a live oracle must agree with it.
InitializeBook ==
    /\ ~hook.poolInitialized
    /\ \E p \in Prices :
        /\ oracle.usable => ~OffBand(p)
        /\ price' = p
        /\ hook' \in ArmHook([hook EXCEPT !.poolInitialized = TRUE, !.deployEnabled = TRUE], p)
    /\ UNCHANGED <<params, oracle, vault, traders>>

SetDeployEnabled ==
    /\ \E enabled \in BOOLEAN : hook' = [hook EXCEPT !.deployEnabled = enabled]
    /\ UNCHANGED <<params, price, oracle, vault, traders>>

SetGuardParams ==
    /\ params' \in ParamChoices
    /\ UNCHANGED <<hook, price, oracle, vault, traders>>

DeployGuard ==
    /\ LiveHook(hook) /\ hook.deployEnabled /\ ~hook.guardPresent
    /\ hook' \in DeployGuardStrict(hook, price)
    /\ UNCHANGED <<params, price, oracle, vault, traders>>

RecenterGuard ==
    /\ LiveHook(hook)
    /\ hook.guardPresent \/ hook.deployEnabled
    /\ LET pulled == PullGuardIdle(hook, price)
       IN  hook' \in IF hook.deployEnabled THEN DeployGuardStrict(pulled, price) ELSE {pulled}
    /\ UNCHANGED <<params, price, oracle, vault, traders>>

RecallToVault ==
    /\ hook.poolInitialized
    /\ Sweep(UnwindAll(PullGuardIdle(hook, price)))
    /\ UNCHANGED <<params, price, oracle, traders>>

WithdrawInventory ==
    /\ \E amount \in [quote : 0..hook.idle["quote"], equity : 0..hook.idle["equity"]] :
        /\ hook' = [hook EXCEPT !.idle = @ -- amount]
        /\ vault' = vault ++ amount
    /\ UNCHANGED <<params, price, oracle, traders>>

\* Mutant of PullAll: leaves the claims of in-swap pulls in the pool.
PullAllButClaims ==
    /\ LiveHook(hook)
    /\ Sweep([PullBase(PullGuardIdle(hook, price), price) EXCEPT !.exited = TRUE])
    /\ UNCHANGED <<params, price, oracle, traders>>

PullAll ==
    /\ LiveHook(hook)
    /\ Sweep([UnwindAll(PullBase(PullGuardIdle(hook, price), price)) EXCEPT !.exited = TRUE])
    /\ UNCHANGED <<params, price, oracle, traders>>

Rearm ==
    /\ hook.poolInitialized /\ hook.exited
    /\ hook' \in ArmHook([hook EXCEPT !.exited = FALSE], price)
    /\ UNCHANGED <<params, price, oracle, vault, traders>>

\* LedgerVault.fundHook: a plain transfer to the hook.
FundHook ==
    /\ \E amount \in [quote : 0..vault["quote"], equity : 0..vault["equity"]] :
        /\ hook' = [hook EXCEPT !.idle = @ ++ amount]
        /\ vault' = vault -- amount
    /\ UNCHANGED <<params, price, oracle, traders>>

-----------------------------------------------------------------------------
(* Permissionless calls, swaps and the world *)

RecheckDue ==
    /\ LiveHook(hook) /\ hook.deployEnabled /\ ~hook.guardPresent
    /\ hook.pulledAt = RecheckInterval

\* Mutant of RecheckGuard: a skipped recheck counts as a new pull.
RecheckRestarts ==
    /\ RecheckDue
    /\ IF params.maxDeviation # 0 /\ (~oracle.usable \/ OffBand(price))
       THEN hook' = [hook EXCEPT !.pulledAt = 0]
       ELSE hook' \in DeployGuardStrict(hook, price)
    /\ UNCHANGED <<params, price, oracle, vault, traders>>

RecheckGuard ==
    /\ RecheckDue
    /\ IF params.maxDeviation # 0 /\ (~oracle.usable \/ OffBand(price))
       THEN UNCHANGED hook
       ELSE hook' \in DeployGuardStrict(hook, price)
    /\ UNCHANGED <<params, price, oracle, vault, traders>>

UnwindClaims ==
    /\ hook.poolInitialized
    /\ hook' = UnwindAll(hook)
    /\ UNCHANGED <<params, price, oracle, vault, traders>>

\* The swap itself moves the price along the positions beforeSwap left, and the
\* swappers pay for what the positions now hold.
Swap ==
    /\ hook.poolInitialized
    /\ hook' \in BeforeSwap(hook, price)
    /\ price' \in Prices
    /\ Covers(traders ++ Held(hook', price), Held(hook', price'))
    /\ traders' = (traders ++ Held(hook', price)) -- Held(hook', price')
    /\ UNCHANGED <<params, oracle, vault>>

OracleMove ==
    /\ oracle' \in [mid : Prices, usable : BOOLEAN]
    /\ UNCHANGED <<hook, params, price, vault, traders>>

Tick ==
    /\ hook' = [hook EXCEPT !.pulledAt = Older(@, RecheckInterval)]
    /\ UNCHANGED <<params, price, oracle, vault, traders>>

OwnerCall ==
    \/ InitializeBook \/ SetDeployEnabled \/ SetGuardParams \/ DeployGuard
    \/ RecenterGuard \/ RecallToVault \/ WithdrawInventory \/ PullAll \/ Rearm
    \/ FundHook

Next == OwnerCall \/ RecheckGuard \/ UnwindClaims \/ Swap \/ OracleMove \/ Tick

Spec == Init /\ [][Next]_vars

\* The keeper rechecks whenever recheckDue() says so, and time passes.
FairSpec == Spec /\ WF_vars(RecheckGuard) /\ WF_vars(Tick)

-----------------------------------------------------------------------------
(* Properties *)

\* Every token is somewhere: pulls, redeploys with changed parameters, in-swap claims,
\* partial redemptions and sweeps neither lose nor count twice what the book holds.
Conserved ==
    \A asset \in Assets :
        vault[asset] + traders[asset] + hook.idle[asset] + hook.claims[asset]
            + Held(hook, price)[asset] = VaultFunds + TraderFunds

\* An exited book is really out: no position and no claim is left in the pool, so a
\* dead oracle that no longer gates its swaps endangers nothing (pullAll, beforeSwap).
ExitedBookIsOut ==
    hook.exited => Held(hook, price) = Nothing /\ hook.claims = Nothing

\* A guard never lands on a tick the live oracle calls off-market, on any of its five
\* ways in: initialisation, deploy, recenter, recheck and inside a swap.
GuardLandsInBand ==
    [][hook'.guardPresent /\ hook'.guardPosition # hook.guardPosition
         => (oracle.usable => ~OffBand(hook'.guardPosition.center))]_vars

\* While the guard stays out its outage only ages: no skipped recheck, failed in-swap
\* deploy or recall moves pulledAt forward and keeps the guard out for longer.
OutageNeverRestarts ==
    [][hook.poolInitialized /\ ~hook.guardPresent /\ ~hook'.guardPresent
         => hook'.pulledAt >= hook.pulledAt]_vars

\* A guard that may be out is never out for good: on a live, enabled, funded book the
\* market keeps in band, it comes back after every pull.
Welcome ==
    /\ LiveHook(hook) /\ hook.deployEnabled
    /\ oracle.usable /\ ~OffBand(price)
    /\ hook.guardPresent \/ Covers(UnwindAll(hook).idle, GuardNeed(price))

GuardReturns == <>[]Welcome => []<>(hook.guardPresent)

\* The hook keeps the promise the vault is modelled with.
Promise == INSTANCE BookLifecycle WITH
    book <- [initialized |-> hook.poolInitialized, exited |-> hook.exited,
             deployEnabled |-> hook.deployEnabled,
             base |-> hook.basePosition.liquidity # 0,
             guard |-> hook.guardPresent, pulled |-> hook.pulledAt]

BookPromise == Promise!Spec
=============================================================================
