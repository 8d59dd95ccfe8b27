----------------------------- MODULE MCAllocator -----------------------------
(***************************************************************************)
(* The allocator on three ticks, the price halving from one to the next.    *)
(***************************************************************************)
EXTENDS AllocatorRuns, RangeStudy

MCPrices == (0 :> 4) @@ (1 :> 2) @@ (2 :> 1)

\* An hour of one minute, in which the pool pays v on a unit of liquidity.
Quiet(t, v) ==
    [minutes |-> <<[tick |-> t, volOverL |-> v, volOverL2 |-> 0, volume |-> 5]>>,
     moves |-> <<0>>, volatility |-> 0, volume |-> 5, hourVolume |-> 5, liquidity |-> 5,
     poolL |-> 200]
Row(t, a, b) == [tick |-> t, depeg |-> FALSE, books |-> (0 :> a) @@ (1 :> b)]

Volatile(row) == [row EXCEPT !.volatility = 400]
Thin(row)     == [row EXCEPT !.volume = 1, !.hourVolume = 1, !.minutes[1].volume = 1]
Moved(row)    == [row EXCEPT !.moves = <<300>>]

MCCalm == {Row(t, Quiet(t, 1), Quiet(t, 0)) : t \in 0 .. 2}
            \cup {Row(1, Quiet(1, 1), Thin(Quiet(1, 0)))}

\* Also: a jump that pulls the guards, an hour of volatility in which book B earns, one in
\* which book B is thin, and a depeg.
MCHours == MCCalm \cup
   {Row(2, Moved(Quiet(2, 1)), Moved(Quiet(2, 0))),
    Row(1, Volatile(Quiet(1, 0)), Quiet(1, 1)),
    Row(1, Volatile(Quiet(1, 0)), Thin(Quiet(1, 0))),
    [Row(1, Quiet(1, 1), Quiet(1, 0)) EXCEPT !.depeg = TRUE]}

\* One run of each kind of path.
MCConfigs ==
    {Baseline[run] : run \in {"hodl", "always_a", "always_arms", "allocator_as_built",
                              "allocator_fixed_apr_gate", "risk_only_b", "risk_only_a_stress"}}
    \cup {Optimize[run] : run \in {"swap30", "recenter500", "feeil_gate", "guard_feeil",
                                   "base3000", "C_sweep"}}
    \cup {Recommended}
=============================================================================
