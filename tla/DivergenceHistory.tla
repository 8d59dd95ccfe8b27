-------------------------- MODULE DivergenceHistory --------------------------
(***************************************************************************)
(* LedgerControl with one more fact of its past beside it: when a heartbeat *)
(* last ran with the latch disabled (depegThresholdBps = 0).                *)
(***************************************************************************)
EXTENDS LedgerControl

VARIABLE disabledRead   \* age of the last check made while the latch was disabled

HInit == Init /\ disabledRead = NoTime

HNext ==
    /\ Next
    /\ disabledRead' = CASE CheckDepeg /\ ~thresholdOn -> 0
                         [] Tick -> Older(disabledRead, MinDuration)
                         [] OTHER -> disabledRead

HSpec == HInit /\ [][HNext]_<<vars, disabledRead>>

\* LedgerVault.sol:110-111 "Zero disables the latch (checks always read clean)": such
\* a check, like any clean read, ends the divergence the latch counts from.
LatchOutlastsDisabledReads ==
    [][CheckDepeg /\ ~depegPaused /\ depegPaused'
         => disabledRead = NoTime \/ disabledRead >= MinDuration]_<<vars, disabledRead>>
=============================================================================
