---------------------------- MODULE EpochHistory ----------------------------
(***************************************************************************)
(* TrancheEpochs with what its latest snapshot has still to fill of each    *)
(* order beside it.                                                         *)
(***************************************************************************)
EXTENDS TrancheEpochs

VARIABLE due    \* vault shares, by tranche and user

HInit == Init /\ due = pending

HNext ==
    /\ Next
    /\ due' = [t \in Tranches |-> [u \in Users |->
                 IF ExecuteEpoch THEN (pending[t][u] * snap'.f[t]) \div BPS
                 ELSE Monus(due[t][u], Monus(pending[t][u], pending'[t][u]))]]

HSpec == HInit /\ [][HNext]_<<vars, due>>

\* TrancheAccountant.sol:17-18 "every exit order waits for the next" boundary, and 39-40
\* "leftovers auto-roll to the next boundary": a snapshot fills the orders it was taken
\* of, each up to its fraction and no further.
SnapshotFillsItsOrders ==
    [][\A t \in Tranches, u \in Users :
          ClaimEpoch(t, u) => pending[t][u] - pending'[t][u] <= due[t][u]]_<<vars, due>>
=============================================================================
