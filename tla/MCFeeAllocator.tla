---------------------------- MODULE MCFeeAllocator ----------------------------
(***************************************************************************)
(* Tapes of eight hours, in blocks of three; steps of one part in twenty.   *)
(***************************************************************************)
EXTENDS FeeStudies, FeeRuns, PoolStudies

Check(vol30) == RunCase("fee_check", 0, 0, 2, vol30)

\* Of the runs, one of each policy; and the check at other costs, steps and intervals.
MCRuns ==
    {Check(1), Check(5),
     [Check(5) EXCEPT !.rebalanceHours = 2, !.gas = 1],
     [Check(5) EXCEPT !.moveStep = 8, !.gas = 3],
     RunCase("all_05", 0, 0, 2, 1), RunCase("all_15", 0, 0, 2, 1), RunCase("all_30", 0, 0, 2, 1),
     RunCase("static", Parts(15), Parts(15), 2, 1)}

\* An hour at a level; in the mid of a book's two minutes there may be no price.
PaidRow(paid, volume, tick) ==
    [fees |-> paid, volume |-> volume, volatility |-> 20, move |-> 50, pulls |-> 0,
     depeg |-> 0, ticks |-> (1 :> tick) @@ (2 :> tick + 1)]
Hour(level, a, b) ==
    [t |-> 0, level |-> level, tick |-> TickOf(level), paused |-> FALSE,
     bookA |-> PaidRow(a, 10, TickOf(level)), bookB |-> PaidRow(b, IF b > 0 THEN 10 ELSE 0,
                                                               TickOf(level))]

MCTapes ==
    {<<Hour(3, 5, 20), Hour(0, 5, 20), Hour(4, 5, 20), Hour(5, 5, 20), Hour(2, 5, 20), Hour(7, 20, 0),
       [Hour(-2, 5, 20) EXCEPT !.bookB.move = 300],
       [Hour(1, 5, 20) EXCEPT !.bookB.volatility = 400],
       [Hour(8, 0, 20) EXCEPT !.bookB.depeg = 300]>>}

Point(mode, active, a, b, arm, worth) ==
    [mode |-> mode, active |-> active, bookA |-> a, bookB |-> b, arm |-> arm,
     idle |-> worth - a - b - arm, nav |-> worth, hodl |-> 200 - worth]

Points ==
    {Point("BOOKS", 0, 90, 0, 0, 100), Point("ARMS", 0, 1, 0, 90, 96),
     Point("BOOKS", 1, 0, 95, 0, 105), Point("ARMS", 1, 0, 0, 100, 102)}

\* The recommended run changes at most every three hours.
MCPaths == {[k \in 1 .. 8 |-> days[(k + 2) \div 3]] : days \in [1 .. 3 -> Points]}
=============================================================================
