----------------------------- MODULE SurplusSweep -----------------------------
(***************************************************************************)
(* What model.py says of the surplus sweep, on the run that only adds it.   *)
(***************************************************************************)
EXTENDS MCAllocator

SweepConfigs == {Baseline["risk_only_a_sweep"]}

\* _surplus_action, "push the excess to the Spiral collateral arm; then borrow at the LTV
\* target": in a calm market, once excess NVDA of a deployed book is collateral and gives
\* room to borrow, the sweep comes to borrow against it.
SweepBorrows ==
    /\ storm = 0 /\ env \in Calm /\ phase = "close"
    /\ HasPositions(Active(pf)) /\ Active(pf).present
    /\ decision.action = "ALLOCATE_NVDA" /\ BorrowRoom(pf, env, params) > DustUsd
    ~> decision.action = "BORROW_USDG"
=============================================================================
