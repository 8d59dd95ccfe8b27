------------------------ MODULE LedgerControl_proofs ------------------------
(***************************************************************************)
(* The safety properties of LedgerControl for every value of its constants, *)
(* from one inductive invariant.                                            *)
(***************************************************************************)
EXTENDS LedgerControl, BookHandlers_proofs

\* A latch that remembers a deployment is a set latch.
LatchInv == disabledByDepeg => depegPaused

\* What the keeper stood down no latch remembers, so no clear can restore it.
KeeperInv ==
    standDown = "keeper" => ~book.deployEnabled /\ ~disabledByDepeg

\* Deployments nobody stood down are on, or held by the latch that will restore them.
RestoreInv ==
    book.initialized /\ standDown = "none" /\ ~Expired
        => book.deployEnabled \/ (depegPaused /\ disabledByDepeg)

\* The terminal flag is only set at expiry, which closes the clear as well.
HaltInv ==
    halted => Expired /\ (~lateInit => ~book.deployEnabled /\ ~Live(book))

SettleInv ==
    settled => /\ book.initialized
               /\ ~stranded => book.exited /\ ~inventory

\* A divergence counted from is no older than the last clean read.
CleanInv ==
    deviationSince # NoTime /\ cleanRead # NoTime => deviationSince <= cleanRead

ControlInv ==
    /\ LatchInv /\ PauseStandsDown /\ KeeperInv /\ RestoreInv
    /\ HaltInv /\ SettleInv

IInv == TypeOK /\ Coherent(book) /\ ControlInv /\ CleanInv

-----------------------------------------------------------------------------
THEOREM InitIInv == Init => IInv
  <1> SUFFICES ASSUME Init PROVE IInv
    OBVIOUS
  <1> USE DEF Init
  <1>1. book \in Book /\ Coherent(book)
    BY TimeIsAnAge DEF FreshBook, Book, Coherent, Live
  <1>2. TimesTypeOK
    BY LedgerControlAssumption DEF TimesTypeOK, Ages, NoTime
  <1>3. TypeOK
    BY <1>1, <1>2 DEF TypeOK, Markets, StandDowns
  <1>4. ControlInv /\ CleanInv
    BY DEF ControlInv, LatchInv, PauseStandsDown, KeeperInv, RestoreInv, HaltInv,
           SettleInv, CleanInv, FreshBook
  <1> QED
    BY <1>1, <1>3, <1>4 DEF IInv

-----------------------------------------------------------------------------
(* The latch *)

\* Setting the latch: the book keeps its phase, and deployments end up off.
LEMMA LatchSets ==
  ASSUME IInv, LatchDepeg
  PROVE  /\ book' \in Book /\ Coherent(book')
         /\ book'.initialized <=> book.initialized
         /\ book'.exited <=> book.exited
         /\ depegPaused' = TRUE
         /\ disabledByDepeg' \in BOOLEAN
         /\ depegPaused => book' = book /\ disabledByDepeg' = disabledByDepeg
         /\ ~depegPaused => /\ ~book'.deployEnabled
                            /\ disabledByDepeg' <=> book.deployEnabled
  <1>1. CASE depegPaused
    BY <1>1 DEF LatchDepeg, IInv, TypeOK
  <1>2. CASE ~depegPaused
    <2>1. book.deployEnabled \in BOOLEAN
      BY DEF IInv, TypeOK, Book
    <2>2. CASE book.deployEnabled
      BY <1>2, <2>1, <2>2, SetDeployEnabledKeeps DEF LatchDepeg, IInv, TypeOK
    <2>3. CASE ~book.deployEnabled
      BY <1>2, <2>1, <2>3 DEF LatchDepeg, IInv, TypeOK
    <2> QED
      BY <2>2, <2>3
  <1> QED
    BY <1>1, <1>2

\* Clearing the latch: deployments come back exactly when the latch took them and the
\* book may still trade.
LEMMA LatchClears ==
  ASSUME IInv, ClearDepegLatch
  PROVE  /\ book' \in Book /\ Coherent(book')
         /\ book'.initialized <=> book.initialized
         /\ book'.exited <=> book.exited
         /\ depegPaused' = FALSE /\ disabledByDepeg' = FALSE
         /\ book'.deployEnabled
               <=> book.deployEnabled \/ (disabledByDepeg /\ ~halted /\ ~Expired)
  <1> USE DEF IInv, TypeOK
  <1>1. CASE ~depegPaused
    BY <1>1 DEF ClearDepegLatch, ControlInv, LatchInv, Book
  <1>2. CASE depegPaused /\ disabledByDepeg /\ ~halted /\ ~Expired
    BY <1>2, SetDeployEnabledKeeps DEF ClearDepegLatch
  <1>3. CASE depegPaused /\ ~(disabledByDepeg /\ ~halted /\ ~Expired)
    BY <1>3 DEF ClearDepegLatch, Book
  <1> QED
    BY <1>1, <1>2, <1>3

\* What the four outcomes of a heartbeat and the two overrides have in common.
LatchFrame == UNCHANGED <<inventory, haltVars, policyVars, market, standDown, stranded,
                          lateInit>>

LEMMA LatchSetsKeeps ==
  ASSUME IInv, LatchDepeg, LatchFrame
  PROVE  Coherent(book)' /\ ControlInv' /\ (TimesTypeOK' => TypeOK')
  <1>1. Coherent(book)'
    BY LatchSets
  <1>2. TimesTypeOK' => TypeOK'
    BY LatchSets DEF LatchFrame, haltVars, policyVars, IInv, TypeOK
  <1>3. LatchInv' /\ PauseStandsDown' /\ KeeperInv'
    BY LatchSets DEF LatchFrame, IInv, ControlInv, LatchInv, PauseStandsDown, KeeperInv
  <1>4. RestoreInv'
    BY LatchSets DEF LatchFrame, haltVars, IInv, ControlInv, RestoreInv, Expired
  <1>5. HaltInv' /\ SettleInv'
    BY LatchSets
    DEF LatchFrame, haltVars, IInv, ControlInv, HaltInv, SettleInv, Expired, Live
  <1> QED
    BY <1>1, <1>2, <1>3, <1>4, <1>5 DEF ControlInv

LEMMA LatchClearsKeeps ==
  ASSUME IInv, ClearDepegLatch, LatchFrame
  PROVE  Coherent(book)' /\ ControlInv' /\ (TimesTypeOK' => TypeOK')
  <1>1. Coherent(book)'
    BY LatchClears
  <1>2. TimesTypeOK' => TypeOK'
    BY LatchClears DEF LatchFrame, haltVars, policyVars, IInv, TypeOK
  <1>3. LatchInv' /\ PauseStandsDown' /\ KeeperInv'
    BY LatchClears DEF LatchFrame, IInv, ControlInv, LatchInv, PauseStandsDown, KeeperInv
  <1>4. RestoreInv'
    BY LatchClears DEF LatchFrame, haltVars, IInv, ControlInv, RestoreInv, HaltInv, Expired
  <1>5. HaltInv' /\ SettleInv'
    BY LatchClears
    DEF LatchFrame, haltVars, IInv, ControlInv, HaltInv, SettleInv, Expired, Live
  <1> QED
    BY <1>1, <1>2, <1>3, <1>4, <1>5 DEF ControlInv

LEMMA CheckDepegKeeps == ASSUME IInv, CheckDepeg PROVE IInv'
  <1> USE LedgerControlAssumption
  <1>1. LatchFrame /\ lastDepegCheck' = 0
    BY DEF CheckDepeg, LatchFrame
  <1>2. CASE CheckDisabled
    <2>1. UNCHANGED <<deviationSince, cleanRead>> /\ ClearDepegLatch
      BY <1>2 DEF CheckDisabled
    <2>2. TimesTypeOK' /\ CleanInv'
      BY <1>1, <2>1 DEF LatchFrame, haltVars, policyVars, IInv, TypeOK, TimesTypeOK,
                        CleanInv, Ages, NoTime
    <2> QED
      BY <1>1, <2>1, <2>2, LatchClearsKeeps DEF IInv
  <1>3. CASE CheckWithoutOpinion
    <2>1. UNCHANGED <<book, depegPaused, disabledByDepeg, deviationSince, cleanRead>>
      BY <1>3 DEF CheckWithoutOpinion
    <2>2. TimesTypeOK' /\ CleanInv'
      BY <1>1, <2>1 DEF LatchFrame, haltVars, policyVars, IInv, TypeOK, TimesTypeOK,
                        CleanInv, Ages, NoTime
    <2>3. TypeOK' /\ Coherent(book)'
      BY <1>1, <2>1, <2>2 DEF LatchFrame, haltVars, policyVars, IInv, TypeOK
    <2>4. ControlInv'
      BY <1>1, <2>1
      DEF LatchFrame, haltVars, IInv, ControlInv, LatchInv, PauseStandsDown, KeeperInv,
          RestoreInv, HaltInv, SettleInv, Expired
    <2> QED
      BY <2>2, <2>3, <2>4 DEF IInv
  <1>4. CASE CheckOver
    <2>1. TimesTypeOK' /\ CleanInv'
      BY <1>1, <1>4 DEF CheckOver, LatchFrame, haltVars, policyVars, IInv, TypeOK,
                        TimesTypeOK, CleanInv, Ages, NoTime
    <2>2. CASE LatchDepeg
      BY <1>1, <2>1, <2>2, LatchSetsKeeps DEF IInv
    <2>3. CASE UNCHANGED <<depegPaused, disabledByDepeg, book>>
      <3>1. TypeOK' /\ Coherent(book)'
        BY <1>1, <2>1, <2>3 DEF LatchFrame, haltVars, policyVars, IInv, TypeOK
      <3>2. ControlInv'
        BY <1>1, <2>3
        DEF LatchFrame, haltVars, IInv, ControlInv, LatchInv, PauseStandsDown, KeeperInv,
            RestoreInv, HaltInv, SettleInv, Expired
      <3> QED
        BY <2>1, <3>1, <3>2 DEF IInv
    <2> QED
      BY <1>4, <2>2, <2>3 DEF CheckOver
  <1>5. CASE CheckClean
    <2>1. deviationSince' = NoTime /\ cleanRead' = 0 /\ ClearDepegLatch
      BY <1>5 DEF CheckClean
    <2>2. TimesTypeOK' /\ CleanInv'
      BY <1>1, <2>1 DEF LatchFrame, haltVars, policyVars, IInv, TypeOK, TimesTypeOK,
                        CleanInv, Ages, NoTime
    <2> QED
      BY <1>1, <2>1, <2>2, LatchClearsKeeps DEF IInv
  <1> QED
    BY <1>2, <1>3, <1>4, <1>5 DEF CheckDepeg

LEMMA OverridesKeep ==
  ASSUME IInv, ForceDepeg \/ ResumeFromDepeg
  PROVE  IInv'
  <1>1. LatchFrame /\ UNCHANGED <<deviationSince, lastDepegCheck, cleanRead>>
    BY DEF ForceDepeg, ResumeFromDepeg, LatchFrame, historyVars
  <1>2. TimesTypeOK' /\ CleanInv'
    BY <1>1 DEF LatchFrame, haltVars, policyVars, IInv, TypeOK, TimesTypeOK, CleanInv
  <1> QED
    BY <1>1, <1>2, LatchSetsKeeps, LatchClearsKeeps DEF ForceDepeg, ResumeFromDepeg, IInv

\* Threshold, grace and market moves touch nothing the invariant speaks of but types.
LEMMA PolicyKeeps ==
  ASSUME IInv, SetDepegThreshold \/ SetCorporateActionGrace \/ MarketMove
  PROVE  IInv'
  <1>1. /\ UNCHANGED <<hookVars, haltVars, latchVars, historyVars>>
        /\ thresholdOn' \in BOOLEAN /\ graceLeft' \in 0..MaxGrace /\ market' \in Markets
    BY DEF SetDepegThreshold, SetCorporateActionGrace, MarketMove, policyVars, IInv,
           TypeOK, TimesTypeOK
  <1> USE DEF hookVars, haltVars, latchVars, historyVars
  <1>2. TimesTypeOK' /\ CleanInv'
    BY <1>1 DEF IInv, TypeOK, TimesTypeOK, CleanInv
  <1>3. TypeOK' /\ Coherent(book)'
    BY <1>1, <1>2 DEF IInv, TypeOK
  <1>4. ControlInv'
    BY <1>1 DEF IInv, ControlInv, LatchInv, PauseStandsDown, KeeperInv, RestoreInv,
                HaltInv, SettleInv, Expired
  <1> QED
    BY <1>2, <1>3, <1>4 DEF IInv

-----------------------------------------------------------------------------
(* Calls that move the hook alone *)

\* A call that leaves the vault alone keeps the invariant when it keeps the book's
\* deployment flag and phase, re-enters only an unsettled, unhalted book, and leaves no
\* inventory behind on a settled one.
LEMMA HookCallKeeps ==
  ASSUME IInv,
         UNCHANGED <<haltVars, latchVars, policyVars, market, historyVars>>,
         book' \in Book, Coherent(book'), inventory' \in BOOLEAN,
         book'.deployEnabled <=> book.deployEnabled,
         book'.initialized <=> book.initialized,
         halted => (book.exited => book'.exited),
         settled /\ ~stranded => book'.exited /\ ~inventory'
  PROVE  IInv'
  <1> USE DEF haltVars, latchVars, policyVars, historyVars
  <1>1. TimesTypeOK' /\ CleanInv'
    BY DEF IInv, TypeOK, TimesTypeOK, CleanInv
  <1>2. TypeOK' /\ Coherent(book)'
    BY <1>1 DEF IInv, TypeOK
  <1>3. LatchInv' /\ PauseStandsDown' /\ KeeperInv' /\ RestoreInv'
    BY DEF IInv, ControlInv, LatchInv, PauseStandsDown, KeeperInv, RestoreInv, Expired
  <1>4. HaltInv'
    BY DEF IInv, ControlInv, HaltInv, Expired, Live
  <1>5. SettleInv'
    BY DEF IInv, ControlInv, SettleInv
  <1> QED
    BY <1>1, <1>2, <1>3, <1>4, <1>5 DEF IInv, ControlInv

LEMMA MovesBookKeeps ==
  ASSUME IInv,
         UNCHANGED <<haltVars, latchVars, policyVars, market, historyVars>>,
         NEW outcomes \in SUBSET (HookDeployGuard(book) \union HookRecheckGuard(book)
                                    \union HookSwap(book)),
         MovesBook(outcomes)
  PROVE  IInv'
  <1>1. book \in Book /\ Coherent(book) /\ inventory \in BOOLEAN
    BY DEF IInv, TypeOK
  <1>2. book' \in outcomes
    BY DEF MovesBook
  <1>3. /\ book' \in Book /\ Coherent(book')
        /\ book'.deployEnabled = book.deployEnabled
        /\ book'.initialized = book.initialized /\ book'.exited = book.exited
    BY <1>1, <1>2, GuardCallsKeep
  <1>4. inventory' \in BOOLEAN
    BY <1>1 DEF MovesBook
  <1>5. ASSUME settled, ~stranded PROVE book'.exited /\ ~inventory'
    <2>1. book.exited /\ ~inventory
      BY <1>5 DEF IInv, ControlInv, SettleInv
    <2>2. ~book.guard /\ ~book'.guard
      BY <1>1, <1>3, <2>1 DEF Coherent, Live
    <2> QED
      BY <1>3, <2>1, <2>2 DEF MovesBook
  <1> QED
    BY <1>3, <1>4, <1>5, HookCallKeeps

LEMMA HookCallsKeep ==
  ASSUME IInv,
         \/ RecenterGuard \/ DeployGuard \/ RearmHook \/ FundHook \/ RecallFromHook
         \/ PullLiquidity \/ ExitHook \/ RecheckGuard \/ Swap
  PROVE  IInv'
  <1> USE DEF IInv, TypeOK
  <1>1. CASE RecenterGuard
    <2>1. /\ UNCHANGED <<haltVars, latchVars, policyVars, market, historyVars>>
          /\ book' \in HookRecenterGuard(book) /\ inventory' \in BOOLEAN
      BY <1>1 DEF RecenterGuard
    <2>2. ~(settled /\ ~stranded)
      BY <2>1 DEF HookRecenterGuard, Live, ControlInv, SettleInv
    <2> QED
      BY <2>1, <2>2, GuardCallsKeep, HookCallKeeps
  <1>2. CASE DeployGuard
    BY <1>2, MovesBookKeeps DEF DeployGuard
  <1>3. CASE RearmHook
    <2>1. /\ UNCHANGED <<haltVars, latchVars, policyVars, market, historyVars>>
          /\ book' \in HookRearm(book) /\ inventory' \in BOOLEAN
          /\ inventory /\ ~halted
      BY <1>3 DEF RearmHook
    <2>2. ~(settled /\ ~stranded)
      BY <2>1 DEF ControlInv, SettleInv
    <2> QED
      BY <2>1, <2>2, RearmKeeps, HookCallKeeps
  <1>4. CASE FundHook
    BY <1>4, HookCallKeeps DEF FundHook
  <1>5. CASE RecallFromHook
    <2>1. book' \in HookRecallToVault(book) /\ inventory' = FALSE
          /\ UNCHANGED <<haltVars, latchVars, policyVars, market, historyVars>>
      BY <1>5 DEF RecallFromHook
    <2>2. settled /\ ~stranded => book.exited
      BY DEF ControlInv, SettleInv
    <2> QED
      BY <2>1, <2>2, GuardCallsKeep, HookCallKeeps
  <1>6. CASE PullLiquidity
    <2>1. /\ book' = book \/ book' \in HookRecallToVault(book)
          /\ inventory' \in BOOLEAN /\ (inventory' => inventory)
          /\ UNCHANGED <<haltVars, latchVars, policyVars, market, historyVars>>
      BY <1>6 DEF PullLiquidity
    <2>2. settled /\ ~stranded => book.exited /\ ~inventory
      BY DEF ControlInv, SettleInv
    <2>3. /\ book' \in Book /\ Coherent(book')
          /\ book'.deployEnabled = book.deployEnabled
          /\ book'.initialized = book.initialized /\ book'.exited = book.exited
      BY <2>1, GuardCallsKeep
    <2> QED
      BY <2>1, <2>2, <2>3, HookCallKeeps
  <1>7. CASE ExitHook
    <2>1. book' \in HookPullAll(book) /\ inventory' = FALSE
          /\ UNCHANGED <<haltVars, latchVars, policyVars, market, historyVars>>
      BY <1>7 DEF ExitHook
    <2> QED
      BY <2>1, PullAllKeeps, HookCallKeeps
  <1>8. CASE RecheckGuard
    BY <1>8, MovesBookKeeps DEF RecheckGuard
  <1>9. CASE Swap
    BY <1>9, MovesBookKeeps DEF Swap
  <1> QED
    BY <1>1, <1>2, <1>3, <1>4, <1>5, <1>6, <1>7, <1>8, <1>9

-----------------------------------------------------------------------------
(* Calls that move the vault's own flags *)

LEMMA InitializeHookKeeps ==
  ASSUME IInv, InitializeHook
  PROVE  IInv'
  <1>1. /\ book' \in HookInitialize(book) /\ inventory' \in BOOLEAN
        /\ standDown' = "none" /\ lateInit' = (lateInit \/ halted \/ depegPaused)
        /\ UNCHANGED <<haltVars, latchVars, policyVars, market, cleanRead, stranded>>
    BY DEF InitializeHook
  <1>2. /\ book' \in Book /\ Coherent(book') /\ book'.deployEnabled
        /\ book'.initialized /\ ~book.initialized
    BY <1>1, InitializeKeeps DEF IInv, TypeOK
  <1> USE DEF haltVars, latchVars, policyVars
  <1>3. TimesTypeOK' /\ CleanInv'
    BY <1>1 DEF IInv, TypeOK, TimesTypeOK, CleanInv
  <1>4. TypeOK' /\ Coherent(book)'
    BY <1>1, <1>2, <1>3 DEF IInv, TypeOK, StandDowns
  <1>5. ControlInv'
    BY <1>1, <1>2 DEF IInv, ControlInv, LatchInv, PauseStandsDown, KeeperInv, RestoreInv,
                      HaltInv, SettleInv, Expired
  <1> QED
    BY <1>3, <1>4, <1>5 DEF IInv

LEMMA SetHookDeployEnabledKeeps ==
  ASSUME IInv, NEW enabled \in BOOLEAN, SetHookDeployEnabled(enabled)
  PROVE  IInv'
  <1>1. /\ enabled => ~halted /\ ~depegPaused
        /\ book' \in HookSetDeployEnabled(book, enabled)
        /\ disabledByDepeg' = (disabledByDepeg /\ enabled)
        /\ standDown' = IF enabled THEN "none" ELSE "keeper"
        /\ UNCHANGED <<inventory, haltVars, depegPaused, deviationSince, lastDepegCheck,
                       policyVars, market, cleanRead, stranded, lateInit>>
    BY DEF SetHookDeployEnabled
  <1>2. /\ book' \in Book /\ Coherent(book') /\ book'.deployEnabled = enabled
        /\ book'.initialized = book.initialized /\ book'.exited = book.exited
    BY <1>1, SetDeployEnabledKeeps DEF IInv, TypeOK
  <1> USE DEF haltVars, policyVars
  <1>3. TimesTypeOK' /\ CleanInv'
    BY <1>1 DEF IInv, TypeOK, TimesTypeOK, CleanInv
  <1>4. TypeOK' /\ Coherent(book)'
    BY <1>1, <1>2, <1>3 DEF IInv, TypeOK, StandDowns
  <1>5. LatchInv' /\ PauseStandsDown' /\ KeeperInv' /\ RestoreInv'
    BY <1>1, <1>2 DEF IInv, ControlInv, LatchInv, PauseStandsDown, KeeperInv, RestoreInv
  <1>6. HaltInv' /\ SettleInv'
    BY <1>1, <1>2 DEF IInv, ControlInv, HaltInv, SettleInv, Expired, Live
  <1> QED
    BY <1>3, <1>4, <1>5, <1>6 DEF IInv, ControlInv

\* Pulling a book out leaves no live book, whatever its phase was.
LEMMA PullOutKeeps ==
  ASSUME NEW b \in Book, Coherent(b), NEW c \in PullOut(b)
  PROVE  /\ c \in Book /\ Coherent(c) /\ c.deployEnabled = b.deployEnabled
         /\ c.initialized = b.initialized /\ ~Live(c) /\ (b.exited => c.exited)
  <1>1. CASE Live(b)
    BY <1>1, PullAllKeeps DEF PullOut, Live, Book
  <1>2. CASE ~Live(b)
    BY <1>2 DEF PullOut
  <1> QED
    BY <1>1, <1>2

LEMMA HaltKeeps ==
  ASSUME IInv, Halt
  PROVE  IInv'
  <1>1. UNCHANGED <<settled, expiryLeft, latchVars, policyVars, market, cleanRead,
                   stranded, lateInit>>
    BY DEF Halt
  <1> USE DEF latchVars, policyVars
  <1>2. TimesTypeOK' /\ CleanInv'
    BY <1>1 DEF IInv, TypeOK, TimesTypeOK, CleanInv
  <1>3. CASE halted
    <2>1. UNCHANGED <<book, inventory, halted, standDown>>
      BY <1>3 DEF Halt, DoHalt, hookVars
    <2>2. TypeOK' /\ Coherent(book)'
      BY <1>1, <1>2, <2>1 DEF IInv, TypeOK
    <2>3. ControlInv'
      BY <1>1, <2>1 DEF IInv, ControlInv, LatchInv, PauseStandsDown, KeeperInv,
                        RestoreInv, HaltInv, SettleInv, Expired
    <2> QED
      BY <1>2, <2>2, <2>3 DEF IInv
  <1>4. CASE ~halted
    <2>1. /\ halted' = Expired /\ standDown' = "halt"
          /\ inventory' = (inventory /\ ~Live(book))
      BY <1>4 DEF Halt, DoHalt
    <2>2. PICK stopped \in HookSetDeployEnabled(book, FALSE) : book' \in PullOut(stopped)
      BY <1>4 DEF Halt, DoHalt
    <2>3. /\ stopped \in Book /\ Coherent(stopped) /\ ~stopped.deployEnabled
          /\ stopped.initialized = book.initialized /\ stopped.exited = book.exited
      BY SetDeployEnabledKeeps DEF IInv, TypeOK
    <2>4. /\ book' \in Book /\ Coherent(book') /\ ~book'.deployEnabled
          /\ book'.initialized = book.initialized /\ ~Live(book')
          /\ book.exited => book'.exited
      BY <2>2, <2>3, PullOutKeeps
    <2>5. TypeOK' /\ Coherent(book)'
      BY <1>1, <1>2, <2>1, <2>4 DEF IInv, TypeOK, StandDowns, Expired
    <2>6. LatchInv' /\ PauseStandsDown' /\ KeeperInv' /\ RestoreInv'
      BY <1>1, <2>1, <2>4
      DEF IInv, ControlInv, LatchInv, PauseStandsDown, KeeperInv, RestoreInv
    <2>7. HaltInv'
      BY <1>1, <2>1, <2>4 DEF HaltInv, Expired, Live
    <2>8. SettleInv'
      BY <1>1, <2>1, <2>4 DEF IInv, ControlInv, SettleInv
    <2> QED
      BY <1>2, <2>5, <2>6, <2>7, <2>8 DEF IInv, ControlInv
  <1> QED
    BY <1>3, <1>4

LEMMA FinalizeSettlementKeeps ==
  ASSUME IInv, FinalizeSettlement
  PROVE  IInv'
  <1>1. /\ Expired /\ book.initialized /\ settled' = TRUE
        /\ book' \in PullOut(book)
        /\ inventory' = (inventory /\ book.exited) /\ stranded' = inventory'
        /\ UNCHANGED <<halted, expiryLeft, latchVars, policyVars, market, standDown,
                       cleanRead, lateInit>>
    BY DEF FinalizeSettlement
  <1>2. /\ book' \in Book /\ Coherent(book') /\ book'.deployEnabled = book.deployEnabled
        /\ book'.initialized /\ ~Live(book')
    BY <1>1, PullOutKeeps DEF IInv, TypeOK
  <1> USE DEF latchVars, policyVars
  <1>3. TimesTypeOK' /\ CleanInv'
    BY <1>1 DEF IInv, TypeOK, TimesTypeOK, CleanInv
  <1>4. TypeOK' /\ Coherent(book)'
    BY <1>1, <1>2, <1>3 DEF IInv, TypeOK
  <1>5. LatchInv' /\ PauseStandsDown' /\ KeeperInv' /\ RestoreInv'
    BY <1>1, <1>2
    DEF IInv, ControlInv, LatchInv, PauseStandsDown, KeeperInv, RestoreInv, Expired
  <1>6. HaltInv'
    BY <1>1, <1>2 DEF IInv, ControlInv, HaltInv, Expired
  <1>7. SettleInv'
    BY <1>1, <1>2 DEF SettleInv, Live
  <1> QED
    BY <1>3, <1>4, <1>5, <1>6, <1>7 DEF IInv, ControlInv

LEMMA TickKeeps ==
  ASSUME IInv, Tick
  PROVE  IInv'
  <1>1. /\ book' = OlderBook(book) /\ expiryLeft' = OneLess(expiryLeft)
        /\ graceLeft' = OneLess(graceLeft)
        /\ deviationSince' = Older(deviationSince, MinDuration)
        /\ lastDepegCheck' = Older(lastDepegCheck, MaxCheckAge + 1)
        /\ cleanRead' = Older(cleanRead, MinDuration)
        /\ UNCHANGED <<inventory, halted, settled, depegPaused, disabledByDepeg,
                       thresholdOn, market, standDown, stranded, lateInit>>
    BY DEF Tick
  <1>2. /\ book' \in Book /\ Coherent(book')
        /\ book'.deployEnabled = book.deployEnabled
        /\ book'.initialized = book.initialized /\ book'.exited = book.exited
    BY <1>1, OlderBookKeeps DEF IInv, TypeOK
  <1>3. TimesTypeOK'
    BY <1>1, LedgerControlAssumption
    DEF IInv, TypeOK, TimesTypeOK, Ages, NoTime, Older, OneLess
  <1>4. CleanInv'
    BY <1>1, LedgerControlAssumption
    DEF IInv, TypeOK, TimesTypeOK, CleanInv, Ages, NoTime, Older
  <1>5. TypeOK' /\ Coherent(book)'
    BY <1>1, <1>2, <1>3 DEF IInv, TypeOK
  <1>6. Expired => Expired'
    BY <1>1 DEF Expired, OneLess
  <1>7. ControlInv'
    BY <1>1, <1>2, <1>6
    DEF IInv, ControlInv, LatchInv, PauseStandsDown, KeeperInv, RestoreInv, HaltInv,
        SettleInv, Live
  <1> QED
    BY <1>4, <1>5, <1>7 DEF IInv

LEMMA StutterKeeps ==
  ASSUME IInv, UNCHANGED vars
  PROVE  IInv'
  <1>1. UNCHANGED <<book, inventory, halted, settled, expiryLeft, depegPaused,
                   disabledByDepeg, deviationSince, lastDepegCheck, graceLeft,
                   thresholdOn, market, standDown, cleanRead, stranded, lateInit>>
    BY DEF vars, hookVars, haltVars, latchVars, policyVars, historyVars
  <1>2. TypeOK' /\ CleanInv' /\ Coherent(book)'
    BY <1>1 DEF IInv, TypeOK, TimesTypeOK, CleanInv
  <1>3. ControlInv'
    BY <1>1 DEF IInv, ControlInv, LatchInv, PauseStandsDown, KeeperInv, RestoreInv,
                HaltInv, SettleInv, Expired
  <1> QED
    BY <1>2, <1>3 DEF IInv

-----------------------------------------------------------------------------
THEOREM StepIInv == IInv /\ [Next]_vars => IInv'
  <1> SUFFICES ASSUME IInv, [Next]_vars PROVE IInv'
    OBVIOUS
  <1>1. CASE CheckDepeg
    BY <1>1, CheckDepegKeeps
  <1>2. CASE ForceDepeg \/ ResumeFromDepeg
    BY <1>2, OverridesKeep
  <1>3. ASSUME NEW enabled \in BOOLEAN, SetHookDeployEnabled(enabled) PROVE IInv'
    BY <1>3, SetHookDeployEnabledKeeps
  <1>4. CASE \/ RecenterGuard \/ DeployGuard \/ RearmHook \/ FundHook \/ RecallFromHook
             \/ PullLiquidity \/ ExitHook \/ RecheckGuard \/ Swap
    BY <1>4, HookCallsKeep
  <1>5. CASE InitializeHook
    BY <1>5, InitializeHookKeeps
  <1>6. CASE Halt \/ HaltIfExpired
    BY <1>6, HaltKeeps DEF HaltIfExpired
  <1>7. CASE SetDepegThreshold \/ SetCorporateActionGrace \/ MarketMove
    BY <1>7, PolicyKeeps
  <1>8. CASE FinalizeSettlement
    BY <1>8, FinalizeSettlementKeeps
  <1>9. CASE Tick
    BY <1>9, TickKeeps
  <1>10. CASE UNCHANGED vars
    BY <1>10, StutterKeeps
  <1> QED
    BY <1>1, <1>2, <1>3, <1>4, <1>5, <1>6, <1>7, <1>8, <1>9, <1>10
    DEF Next, KeeperCall, OwnerCall, AnyoneCall

THEOREM Invariance == Spec => []IInv
  BY InitIInv, StepIInv, PTL DEF Spec

-----------------------------------------------------------------------------
(* The properties *)

\* Positions, exit flag and pull time of the hook stay consistent.
THEOREM BookStaysCoherent == Spec => []BookCoherent
  <1>1. IInv => BookCoherent
    BY DEF IInv, BookCoherent
  <1> QED
    BY <1>1, Invariance, PTL

\* A terminal halt is never undone.
THEOREM TerminalHalt == Spec => []HaltIsTerminal
  <1>1. IInv => HaltIsTerminal
    BY DEF IInv, TypeOK, Book, ControlInv, HaltInv, HaltIsTerminal, Coherent
  <1> QED
    BY <1>1, Invariance, PTL

\* Calls of the hook that leave its deployments as they are: none ends an exit but a
\* rearm, and none puts a guard out while deployments are off.
LEMMA HookCallStopped ==
  ASSUME NEW b \in Book, Coherent(b),
         NEW c \in {b} \union HookRecallToVault(b) \union HookRecheckGuard(b)
                     \union HookSwap(b) \union HookPullAll(b) \union PullOut(b)
                     \union {OlderBook(b)}
  PROVE  /\ c.deployEnabled = b.deployEnabled
         /\ b.exited => c.exited
         /\ ~b.deployEnabled /\ c.guard => b.guard
  <1>1. CASE c \in {b, OlderBook(b)}
    BY <1>1 DEF OlderBook, Book
  <1>2. CASE c \in HookRecallToVault(b) \union HookRecheckGuard(b) \union HookSwap(b)
    <2>1. c.deployEnabled = b.deployEnabled /\ c.exited = b.exited
      BY <1>2, GuardCallsKeep
    <2>2. ASSUME ~b.deployEnabled PROVE c \in {b, PullGuard(b)}
      BY <1>2, <2>2 DEF HookRecallToVault, HookRecheckGuard, HookSwap
    <2>3. PullGuard(b).guard => b.guard
      BY DEF PullGuard, Book
    <2> QED
      BY <2>1, <2>2, <2>3
  <1>3. CASE c \in HookPullAll(b) \union PullOut(b)
    <2>1. CASE c \in HookPullAll(b)
      <3>1. c.deployEnabled = b.deployEnabled /\ c.exited
        BY <2>1, PullAllKeeps
      <3>2. ~c.guard
        BY <2>1, PullAllKeeps DEF Coherent, Live
      <3> QED
        BY <3>1, <3>2
    <2>2. CASE c = b
      BY <2>2
    <2> QED
      BY <1>3, <2>1, <2>2 DEF PullOut
  <1> QED
    BY <1>1, <1>2, <1>3

\* One step of a book that is closed, by the terminal flag or by the latch.
LEMMA StoppedStep ==
  ASSUME IInv, [Next]_vars, halted \/ depegPaused, book.initialized
  PROVE  /\ book.exited => book'.exited
         /\ ~book.deployEnabled /\ book'.guard => book.guard
         /\ ~book.deployEnabled /\ book'.deployEnabled
              => disabledByDepeg /\ ~depegPaused' /\ ~halted /\ ~Expired
  <1> DEFINE Stopped == /\ book.exited => book'.exited
                        /\ ~book.deployEnabled /\ book'.guard => book.guard
                        /\ ~book.deployEnabled /\ book'.deployEnabled
                             => disabledByDepeg /\ ~depegPaused' /\ ~halted /\ ~Expired
  <1> SUFFICES Stopped
    OBVIOUS
  <1>1. book \in Book /\ Coherent(book)
    BY DEF IInv, TypeOK
  <1>2. ASSUME book' \in {book} \union HookRecallToVault(book)
                        \union HookRecheckGuard(book) \union HookSwap(book)
                        \union HookPullAll(book) \union PullOut(book)
                        \union {OlderBook(book)}
        PROVE  Stopped
    BY <1>1, <1>2, HookCallStopped
  <1>3. CASE LatchDepeg
    <2>1. CASE depegPaused
      BY <1>1, <1>2, <1>3, <2>1, Zenon DEF LatchDepeg
    <2>2. CASE ~depegPaused
      <3>1. book' = book \/ book' \in HookSetDeployEnabled(book, FALSE)
        BY <1>3, <2>2 DEF LatchDepeg
      <3> QED
        BY <1>1, <1>2, <3>1, SetDeployEnabledKeeps
    <2> QED
      BY <2>1, <2>2
  <1>4. CASE ClearDepegLatch
    <2>1. book' = book \/ book' \in HookSetDeployEnabled(book, TRUE)
      BY <1>4 DEF ClearDepegLatch
    <2>2. book'.exited = book.exited /\ book'.guard = book.guard
      BY <1>1, <2>1, SetDeployEnabledKeeps
    <2>3. book'.deployEnabled
            <=> book.deployEnabled \/ (disabledByDepeg /\ ~halted /\ ~Expired)
      BY <1>4, LatchClears
    <2>4. ~depegPaused'
      BY <1>4, LatchClears
    <2> QED
      BY <2>2, <2>3, <2>4
  <1>5. CASE CheckDepeg \/ ForceDepeg \/ ResumeFromDepeg
    BY <1>2, <1>3, <1>4, <1>5
    DEF CheckDepeg, CheckDisabled, CheckWithoutOpinion, CheckOver, CheckClean,
        ForceDepeg, ResumeFromDepeg
  <1>6. ASSUME NEW enabled \in BOOLEAN, SetHookDeployEnabled(enabled) PROVE Stopped
    <2>1. ~enabled /\ book' \in HookSetDeployEnabled(book, enabled)
      BY <1>6 DEF SetHookDeployEnabled
    <2> QED
      BY <1>1, <2>1, SetDeployEnabledKeeps
  <1>7. CASE InitializeHook
    BY <1>7 DEF InitializeHook, HookInitialize
  <1>8. CASE Halt \/ HaltIfExpired
    <2>1. CASE halted
      BY <1>2, <1>8, <2>1 DEF Halt, HaltIfExpired, DoHalt, hookVars
    <2>2. CASE ~halted
      <3>1. PICK stopped \in HookSetDeployEnabled(book, FALSE) : book' \in PullOut(stopped)
        BY <1>8, <2>2 DEF Halt, HaltIfExpired, DoHalt
      <3>2. /\ stopped \in Book /\ Coherent(stopped) /\ ~stopped.deployEnabled
            /\ stopped.exited = book.exited /\ stopped.guard = book.guard
        BY <1>1, <3>1, SetDeployEnabledKeeps
      <3>3. /\ book'.deployEnabled = stopped.deployEnabled
            /\ stopped.exited => book'.exited
            /\ book'.guard => stopped.guard
        BY <3>1, <3>2, HookCallStopped
      <3> QED
        BY <3>2, <3>3
    <2> QED
      BY <2>1, <2>2
  <1>9. CASE RecenterGuard \/ DeployGuard \/ RearmHook
    BY <1>9 DEF RecenterGuard, DeployGuard, RearmHook
  <1>10. CASE \/ FundHook \/ RecallFromHook \/ ExitHook \/ FinalizeSettlement
              \/ PullLiquidity \/ RecheckGuard \/ Swap \/ Tick
    BY <1>2, <1>10
    DEF FundHook, RecallFromHook, ExitHook, FinalizeSettlement, PullLiquidity,
        RecheckGuard, Swap, MovesBook, Tick
  <1>11. CASE SetDepegThreshold \/ SetCorporateActionGrace \/ MarketMove
              \/ UNCHANGED vars
    BY <1>2, <1>11
    DEF SetDepegThreshold, SetCorporateActionGrace, MarketMove, vars, hookVars
  <1> HIDE DEF Stopped
  <1> QED
    BY <1>5, <1>6, <1>7, <1>8, <1>9, <1>10, <1>11
    DEF Next, KeeperCall, OwnerCall, AnyoneCall

\* A book stopped under halt or latch is not started again but by a clear that may.
THEOREM StoppedStays == Spec => StoppedStaysStopped
  <1>1. IInv /\ [Next]_vars
          => [(halted \/ depegPaused) /\ book.initialized =>
                /\ book.exited => book'.exited
                /\ ~book.deployEnabled /\ book'.guard => book.guard
                /\ ~book.deployEnabled /\ book'.deployEnabled
                     => disabledByDepeg /\ ~depegPaused' /\ ~halted /\ ~Expired]_vars
    BY StoppedStep
  <1> QED
    BY <1>1, Invariance, PTL DEF StoppedStaysStopped, Spec

\* A set latch keeps deployments off.
THEOREM PauseHolds == Spec => []PauseStandsDown
  <1>1. IInv => PauseStandsDown
    BY DEF IInv, ControlInv
  <1> QED
    BY <1>1, Invariance, PTL

\* What the keeper stood down stays down.
THEOREM KeeperHolds == Spec => []KeeperStandDownHolds
  <1>1. IInv => KeeperStandDownHolds
    BY DEF IInv, ControlInv, KeeperInv, KeeperStandDownHolds
  <1> QED
    BY <1>1, Invariance, PTL

\* A latch cycle gives back the deployments it took.
THEOREM LatchRestores == Spec => []LatchCycleRestores
  <1>1. IInv => LatchCycleRestores
    BY DEF IInv, ControlInv, RestoreInv, LatchCycleRestores
  <1> QED
    BY <1>1, Invariance, PTL

\* A settled book stays out.
THEOREM SettledStaysOut == Spec => []SettledBookStaysOut
  <1>1. IInv => SettledBookStaysOut
    BY DEF IInv, TypeOK, Book, ControlInv, SettleInv, SettledBookStaysOut, Coherent, Live
  <1> QED
    BY <1>1, Invariance, PTL

\* The heartbeat never latches within MinDuration of a clean read.
THEOREM LatchWaits == Spec => LatchOutlastsCleanReads
  <1>1. ASSUME IInv, CheckDepeg, ~depegPaused, depegPaused'
        PROVE  cleanRead = NoTime \/ cleanRead >= MinDuration
    <2>1. CheckOver
      BY <1>1 DEF CheckDepeg, CheckDisabled, CheckWithoutOpinion, CheckClean,
                  ClearDepegLatch
    <2>2. IF deviationSince = NoTime THEN 0 >= MinDuration ELSE deviationSince >= MinDuration
      BY <1>1, <2>1 DEF CheckOver
    <2> QED
      BY <1>1, <2>2, LedgerControlAssumption
      DEF IInv, TypeOK, TimesTypeOK, CleanInv, Ages, NoTime
  <1>2. IInv => [CheckDepeg /\ ~depegPaused /\ depegPaused'
                  => cleanRead = NoTime \/ cleanRead >= MinDuration]_vars
    BY <1>1
  <1> QED
    BY <1>2, Invariance, PTL DEF LatchOutlastsCleanReads, Spec
=============================================================================
