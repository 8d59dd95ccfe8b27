----------------------------- MODULE MCGuardBook -----------------------------
\* GuardBook on three ticks, with a guard size that can change under a deployed guard
\* and funds that cover the base and the larger guard.
EXTENDS GuardBook

MCPrices == 0..2
MCParamChoices ==
    {[guardLiquidity |-> 1, maxDeviation |-> 0], [guardLiquidity |-> 1, maxDeviation |-> 1],
     [guardLiquidity |-> 2, maxDeviation |-> 1]}
=============================================================================
