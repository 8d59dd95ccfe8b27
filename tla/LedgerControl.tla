---------------------------- MODULE LedgerControl ----------------------------
(***************************************************************************)
(* The control plane of a LedgerVault over the book it owns: the depeg      *)
(* latch and its heartbeat, the terminal halt, expiry, settlement, and the  *)
(* keeper and owner calls that arm, fund and recall the hook, interleaved   *)
(* with the hook's own swaps and permissionless rechecks.                   *)
(*                                                                         *)
(* Token amounts are abstracted to whether the hook holds idle tokens or    *)
(* claims (inventory); block.timestamp to ages and to time left.            *)
(***************************************************************************)
EXTENDS BookHandlers

CONSTANTS
    Term,           \* time units from deployment to expiry
    MinDuration,    \* time units a divergence must last before the latch
    MaxCheckAge,    \* freshness bound of the re-arm paths; 0 disables it
    MaxGrace        \* longest corporate-action grace the owner sets

ASSUME LedgerControlAssumption ==
    /\ Term \in Nat \ {0}
    /\ MinDuration \in Nat
    /\ MaxCheckAge \in Nat
    /\ MaxGrace \in Nat

VARIABLES
    book,               \* the hook's book
    inventory,          \* does the hook hold idle tokens or claims?
    halted, settled,    \* terminal flags of the vault
    expiryLeft,         \* time to expiry, 0 once expired
    depegPaused, disabledByDepeg,       \* the depeg latch
    deviationSince, lastDepegCheck,     \* its two timestamps, as ages
    graceLeft,          \* time to corporateActionGraceUntil
    thresholdOn,        \* depegThresholdBps # 0
    market,             \* what a depeg read finds now
    \* History of past calls, which no action reads:
    standDown,          \* last call that took deployments into its own hands
    cleanRead,          \* age of the last read that found the peg clean
    stranded,           \* settlement left hook inventory behind
    lateInit            \* the book was initialised while halted or paused

hookVars    == <<book, inventory>>
haltVars    == <<halted, settled, expiryLeft>>
latchVars   == <<depegPaused, disabledByDepeg, deviationSince, lastDepegCheck>>
policyVars  == <<graceLeft, thresholdOn>>
historyVars == <<standDown, cleanRead, stranded, lateInit>>
vars == <<hookVars, haltVars, latchVars, policyVars, market, historyVars>>

\* "dark": stale feed, closed market, thin or dead deep pool.
Markets == {"clean", "over", "dark"}

StandDowns == {"none", "keeper", "halt"}

TimesTypeOK ==
    /\ expiryLeft \in 0..Term /\ graceLeft \in 0..MaxGrace
    /\ deviationSince \in Ages(MinDuration)
    /\ lastDepegCheck \in Ages(MaxCheckAge + 1)
    /\ cleanRead \in Ages(MinDuration)

TypeOK ==
    /\ book \in Book
    /\ inventory \in BOOLEAN
    /\ halted \in BOOLEAN /\ settled \in BOOLEAN
    /\ depegPaused \in BOOLEAN /\ disabledByDepeg \in BOOLEAN
    /\ thresholdOn \in BOOLEAN
    /\ market \in Markets
    /\ standDown \in StandDowns
    /\ stranded \in BOOLEAN /\ lateInit \in BOOLEAN
    /\ TimesTypeOK

Init ==
    /\ book = FreshBook
    /\ inventory = FALSE
    /\ halted = FALSE /\ settled = FALSE /\ expiryLeft = Term
    /\ depegPaused = FALSE /\ disabledByDepeg = FALSE
    /\ deviationSince = NoTime /\ lastDepegCheck = NoTime
    /\ graceLeft = 0 /\ thresholdOn = TRUE
    /\ market \in Markets
    /\ standDown = "none" /\ cleanRead = NoTime
    /\ stranded = FALSE /\ lateInit = FALSE

-----------------------------------------------------------------------------
(* Guards and helpers *)

Expired == expiryLeft = 0

Fresh ==
    MaxCheckAge # 0 => lastDepegCheck # NoTime /\ lastDepegCheck <= MaxCheckAge

\* A position that appears is paid from inventory; a pulled one returns to it.
MovesBook(outcomes) ==
    /\ book' \in outcomes
    /\ book'.guard /\ ~book.guard => inventory
    /\ inventory' \in CASE book'.guard /\ ~book.guard -> BOOLEAN
                        [] book.guard /\ ~book'.guard -> {TRUE}
                        [] OTHER -> {inventory}

\* Mutant of LatchDepeg: a second trip forgets what the first one disabled.
LatchDepegAgain ==
    /\ depegPaused' = TRUE
    /\ disabledByDepeg' = book.deployEnabled
    /\ book' \in HookSetDeployEnabled(book, FALSE)

LatchDepeg ==
    IF depegPaused THEN UNCHANGED <<depegPaused, disabledByDepeg, book>>
    ELSE /\ depegPaused' = TRUE
         /\ disabledByDepeg' = book.deployEnabled
         /\ book' \in IF book.deployEnabled THEN HookSetDeployEnabled(book, FALSE)
                      ELSE {book}

\* Mutant of ClearDepegLatch: restores without asking for halt or expiry.
ClearRestoresAlways ==
    IF ~depegPaused THEN UNCHANGED <<depegPaused, disabledByDepeg, book>>
    ELSE /\ depegPaused' = FALSE
         /\ disabledByDepeg' = FALSE
         /\ book' \in IF disabledByDepeg THEN HookSetDeployEnabled(book, TRUE) ELSE {book}

ClearDepegLatch ==
    IF ~depegPaused THEN UNCHANGED <<depegPaused, disabledByDepeg, book>>
    ELSE /\ depegPaused' = FALSE
         /\ disabledByDepeg' = FALSE
         /\ book' \in IF disabledByDepeg /\ ~halted /\ ~Expired
                      THEN HookSetDeployEnabled(book, TRUE) ELSE {book}

-----------------------------------------------------------------------------
(* The depeg heartbeat and the latch *)

CheckDisabled ==
    /\ ~thresholdOn
    /\ ClearDepegLatch
    /\ UNCHANGED <<deviationSince, cleanRead>>

NoOpinion == graceLeft > 0 \/ market = "dark"

CheckWithoutOpinion ==
    /\ thresholdOn /\ NoOpinion
    /\ UNCHANGED <<book, depegPaused, disabledByDepeg, deviationSince, cleanRead>>

\* Mutant of CheckOver: every observation restarts the divergence.
CheckOverRestarts ==
    /\ thresholdOn /\ ~NoOpinion /\ market = "over"
    /\ deviationSince' = 0
    /\ IF deviationSince >= MinDuration THEN LatchDepeg
       ELSE UNCHANGED <<depegPaused, disabledByDepeg, book>>
    /\ UNCHANGED cleanRead

CheckOver ==
    /\ thresholdOn /\ ~NoOpinion /\ market = "over"
    /\ deviationSince' = IF deviationSince = NoTime THEN 0 ELSE deviationSince
    /\ IF deviationSince' >= MinDuration THEN LatchDepeg
       ELSE UNCHANGED <<depegPaused, disabledByDepeg, book>>
    /\ UNCHANGED cleanRead

\* Mutants of CheckClean: the divergence is not reset, the latch is not cleared.
CheckCleanKeepsSince ==
    /\ thresholdOn /\ ~NoOpinion /\ market = "clean"
    /\ ClearDepegLatch
    /\ cleanRead' = 0
    /\ UNCHANGED deviationSince

CheckCleanKeepsLatch ==
    /\ thresholdOn /\ ~NoOpinion /\ market = "clean"
    /\ deviationSince' = NoTime
    /\ cleanRead' = 0
    /\ UNCHANGED <<depegPaused, disabledByDepeg, book>>

CheckClean ==
    /\ thresholdOn /\ ~NoOpinion /\ market = "clean"
    /\ deviationSince' = NoTime
    /\ ClearDepegLatch
    /\ cleanRead' = 0

CheckDepeg ==
    /\ lastDepegCheck' = 0
    /\ CheckDisabled \/ CheckWithoutOpinion \/ CheckOver \/ CheckClean
    /\ UNCHANGED <<inventory, haltVars, policyVars, market, standDown, stranded, lateInit>>

ForceDepeg ==
    /\ LatchDepeg
    /\ UNCHANGED <<inventory, haltVars, deviationSince, lastDepegCheck, policyVars,
                   market, historyVars>>

ResumeFromDepeg ==
    /\ ClearDepegLatch
    /\ UNCHANGED <<inventory, haltVars, deviationSince, lastDepegCheck, policyVars,
                   market, historyVars>>

SetDepegThreshold ==
    /\ thresholdOn' \in BOOLEAN
    /\ UNCHANGED <<hookVars, haltVars, latchVars, graceLeft, market, historyVars>>

SetCorporateActionGrace ==
    /\ graceLeft' \in 0..MaxGrace
    /\ UNCHANGED <<hookVars, haltVars, latchVars, thresholdOn, market, historyVars>>

-----------------------------------------------------------------------------
(* Halt, exit and settlement *)

PullOut(b) == IF Live(b) THEN HookPullAll(b) ELSE {b}

DoHalt ==
    IF halted THEN UNCHANGED <<hookVars, halted, standDown>>
    ELSE /\ halted' = Expired
         /\ \E stopped \in HookSetDeployEnabled(book, FALSE) : book' \in PullOut(stopped)
         /\ inventory' = (inventory /\ ~Live(book))
         /\ standDown' = "halt"

Halt ==
    /\ DoHalt
    /\ UNCHANGED <<settled, expiryLeft, latchVars, policyVars, market,
                   cleanRead, stranded, lateInit>>

HaltIfExpired == Expired /\ Halt

ExitHook ==
    /\ book' \in HookPullAll(book)
    /\ inventory' = FALSE
    /\ UNCHANGED <<haltVars, latchVars, policyVars, market, historyVars>>

\* Settlement sweeps the hook only when the book has not exited before.
FinalizeSettlement ==
    /\ Expired /\ ~settled
    /\ book.initialized
    /\ settled' = TRUE
    /\ book' \in PullOut(book)
    /\ inventory' = (inventory /\ book.exited)
    /\ stranded' = inventory'
    /\ UNCHANGED <<halted, expiryLeft, latchVars, policyVars, market,
                   standDown, cleanRead, lateInit>>

-----------------------------------------------------------------------------
(* Keeper and owner calls that arm, fund and recall the hook *)

InitializeHook ==
    /\ inventory
    /\ book' \in HookInitialize(book)
    /\ inventory' \in BOOLEAN
    /\ standDown' = "none"
    /\ lateInit' = (lateInit \/ halted \/ depegPaused)
    /\ UNCHANGED <<haltVars, latchVars, policyVars, market, cleanRead, stranded>>

\* Mutants of SetHookDeployEnabled: enabling ignores the latch; standing down leaves
\* the latch its memory.
EnableWhilePaused(enabled) ==
    /\ enabled => ~halted /\ Fresh
    /\ book' \in HookSetDeployEnabled(book, enabled)
    /\ disabledByDepeg' = (disabledByDepeg /\ enabled)
    /\ standDown' = IF enabled THEN "none" ELSE "keeper"
    /\ UNCHANGED <<inventory, haltVars, depegPaused, deviationSince, lastDepegCheck,
                   policyVars, market, cleanRead, stranded, lateInit>>

StandDownUnderLatch(enabled) ==
    /\ enabled => ~halted /\ ~depegPaused /\ Fresh
    /\ book' \in HookSetDeployEnabled(book, enabled)
    /\ standDown' = IF enabled THEN "none" ELSE "keeper"
    /\ UNCHANGED <<inventory, haltVars, latchVars, policyVars, market, cleanRead,
                   stranded, lateInit>>

SetHookDeployEnabled(enabled) ==
    /\ enabled => ~halted /\ ~depegPaused /\ Fresh
    /\ book' \in HookSetDeployEnabled(book, enabled)
    /\ disabledByDepeg' = (disabledByDepeg /\ enabled)
    /\ standDown' = IF enabled THEN "none" ELSE "keeper"
    /\ UNCHANGED <<inventory, haltVars, depegPaused, deviationSince, lastDepegCheck,
                   policyVars, market, cleanRead, stranded, lateInit>>

RecenterGuard ==
    /\ ~halted /\ ~depegPaused
    /\ book.guard \/ inventory
    /\ book' \in HookRecenterGuard(book)
    /\ inventory' \in IF book'.guard THEN BOOLEAN ELSE {TRUE}
    /\ UNCHANGED <<haltVars, latchVars, policyVars, market, historyVars>>

DeployGuard ==
    /\ ~halted /\ ~depegPaused /\ Fresh
    /\ MovesBook(HookDeployGuard(book))
    /\ UNCHANGED <<haltVars, latchVars, policyVars, market, historyVars>>

RearmHook ==
    /\ ~halted /\ ~depegPaused /\ Fresh
    /\ inventory
    /\ book' \in HookRearm(book)
    /\ inventory' \in BOOLEAN
    /\ UNCHANGED <<haltVars, latchVars, policyVars, market, historyVars>>

\* Mutant of FundHook: stays open after expiry and settlement.
FundHookLate ==
    /\ ~halted /\ ~depegPaused
    /\ inventory' = TRUE
    /\ UNCHANGED <<book, haltVars, latchVars, policyVars, market, historyVars>>

FundHook ==
    /\ ~halted /\ ~settled /\ ~Expired /\ ~depegPaused
    /\ inventory' = TRUE
    /\ UNCHANGED <<book, haltVars, latchVars, policyVars, market, historyVars>>

RecallFromHook ==
    /\ book' \in HookRecallToVault(book)
    /\ inventory' = FALSE
    /\ UNCHANGED <<haltVars, latchVars, policyVars, market, historyVars>>

\* A redemption or rebalance pull: hook inventory first, the guard as last resort.
PullLiquidity ==
    /\ ~Expired \/ ~depegPaused
    /\ inventory \/ book.guard
    /\ \/ UNCHANGED book /\ inventory' \in BOOLEAN
       \/ book' \in HookRecallToVault(book) /\ inventory' = FALSE
    /\ inventory' => inventory
    /\ UNCHANGED <<haltVars, latchVars, policyVars, market, historyVars>>

-----------------------------------------------------------------------------
(* Calls that reach the hook without the vault, the market, and time *)

RecheckGuard ==
    /\ MovesBook(HookRecheckGuard(book))
    /\ UNCHANGED <<haltVars, latchVars, policyVars, market, historyVars>>

Swap ==
    /\ MovesBook(HookSwap(book))
    /\ UNCHANGED <<haltVars, latchVars, policyVars, market, historyVars>>

MarketMove ==
    /\ market' \in Markets
    /\ UNCHANGED <<hookVars, haltVars, latchVars, policyVars, historyVars>>

OneLess(left) == IF left = 0 THEN 0 ELSE left - 1

Tick ==
    /\ book' = OlderBook(book)
    /\ expiryLeft' = OneLess(expiryLeft)
    /\ graceLeft' = OneLess(graceLeft)
    /\ deviationSince' = Older(deviationSince, MinDuration)
    /\ lastDepegCheck' = Older(lastDepegCheck, MaxCheckAge + 1)
    /\ cleanRead' = Older(cleanRead, MinDuration)
    /\ UNCHANGED <<inventory, halted, settled, depegPaused, disabledByDepeg,
                   thresholdOn, market, standDown, stranded, lateInit>>

KeeperCall ==
    \/ CheckDepeg \/ ForceDepeg \/ ResumeFromDepeg
    \/ \E enabled \in BOOLEAN : SetHookDeployEnabled(enabled)
    \/ RecenterGuard \/ DeployGuard \/ RearmHook \/ FundHook \/ RecallFromHook

OwnerCall ==
    \/ InitializeHook \/ Halt \/ ExitHook
    \/ SetDepegThreshold \/ SetCorporateActionGrace

AnyoneCall ==
    \/ HaltIfExpired \/ FinalizeSettlement \/ PullLiquidity \/ RecheckGuard \/ Swap

Next == KeeperCall \/ OwnerCall \/ AnyoneCall \/ MarketMove \/ Tick

Spec == Init /\ [][Next]_vars

\* The keeper loop sends a heartbeat every 300 seconds and time passes; no other
\* caller is obliged to act.
Fairness == WF_vars(CheckDepeg) /\ WF_vars(Tick)

FairSpec == Spec /\ Fairness

-----------------------------------------------------------------------------
(* Properties *)

\* Every interleaving of vault calls, swaps, rechecks and latch moves keeps the
\* hook's positions, its exit flag and its pull time consistent.
BookCoherent == Coherent(book)

\* A terminal halt is never undone: no keeper call, recheck, swap or latch clear
\* turns deployments back on or redeploys (LedgerVault._halt).  The owner's first
\* initialisation of a book that was never deployed is not closed by the flag.
HaltIsTerminal ==
    halted /\ ~lateInit => ~book.deployEnabled /\ ~book.base /\ ~book.guard

\* A book that is stopped while halted or under the latch is not started again, not even
\* one whose first initialisation came that late: it is initialised once, an exit is final,
\* its guard is not put back, and only a clear returns the deployments the latch took, of a
\* book that may still trade (LedgerVault.initializeHook asks for neither halt nor latch).
StoppedStaysStopped ==
    [][(halted \/ depegPaused) /\ book.initialized =>
          /\ book.exited => book'.exited
          /\ ~book.deployEnabled /\ book'.guard => book.guard
          /\ ~book.deployEnabled /\ book'.deployEnabled
               => disabledByDepeg /\ ~depegPaused' /\ ~halted /\ ~Expired]_vars

\* While the latch is set deployments are off, so neither a swap nor a recheck can
\* put a guard out, whichever call set the latch and whatever followed.
PauseStandsDown == depegPaused /\ ~lateInit => ~book.deployEnabled

\* What the keeper stood down stays down through latch and clear, until the keeper
\* turns it on again (LedgerVault.setHookDeployEnabled, disabledByDepeg).
KeeperStandDownHolds == standDown = "keeper" => ~book.deployEnabled

\* A latch cycle restores what it took: a book nobody stood down is never left with
\* deployments off by a trip and a clear (LedgerVault._clearDepegLatch).
LatchCycleRestores ==
    book.initialized /\ standDown = "none" /\ ~depegPaused /\ ~Expired
        => book.deployEnabled

\* After settlement the book is out for good, unless settlement left inventory
\* behind: no later rearm, recenter or swap finds anything to deploy.
SettledBookStaysOut ==
    settled /\ ~stranded => ~book.base /\ ~book.guard /\ ~inventory

\* The heartbeat latches only when no read within MinDuration found the peg clean
\* (LedgerVault.checkDepeg resets deviationSince on every clean read).
LatchOutlastsCleanReads ==
    [][CheckDepeg /\ ~depegPaused /\ depegPaused'
         => cleanRead = NoTime \/ cleanRead >= MinDuration]_vars

\* With the heartbeat running, a divergence that lasts is latched again and again,
\* whatever the keeper clears in between.
LastingDivergenceLatches ==
    <>[](market = "over" /\ thresholdOn /\ graceLeft = 0) => []<>depegPaused

\* With the heartbeat running, a peg that stays clean keeps reopening the book,
\* whatever forced the latch.
LastingPegReopens ==
    <>[](market = "clean" /\ graceLeft = 0) => []<>(~depegPaused)

-----------------------------------------------------------------------------
(* What comments in the code say and the code does not do *)

\* LedgerVault.sol:530 "Owner early halt: stop deployments", 503-504 "never on a
\* halted/expired book": what the owner halted stays down until someone enables it.
OwnerHaltHolds == standDown = "halt" => ~book.deployEnabled

\* LedgerSettlement.sol:22-23 "pulls the book out of the hook": nothing of the book
\* is left in the hook after settlement.
SettlementEmptiesHook == settled => ~inventory
=============================================================================
