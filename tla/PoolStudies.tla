----------------------------- MODULE PoolStudies -----------------------------
(***************************************************************************)
(* What the studies compute from the tables of finished runs: the path and  *)
(* the guard hits of the hours, the winning cases of the 0.30 pool, the     *)
(* rolling ratio of the pools' fees and the books of another quote.         *)
(***************************************************************************)
EXTENDS Integers, SequencesExt

-----------------------------------------------------------------------------
(* The hours of a run.                                                              *)

\* load_focus_path: the rows by their step, and no step missing, so that an hour can be
\* looked up by its index.
FocusPath(rows)  == SetToSortSeq(rows, LAMBDA a, b : a.step < b.step)
Contiguous(path) == \A k \in DOMAIN path : path[k].step = k - 1

\* The hours whose move in a book is over the threshold. At 50 bps some of them are known
\* to be without a pull; the hours are split into those with and without.
GuardThresholds == {50, 100, 200}
GuardHits(moves, threshold) == {k \in DOMAIN moves : moves[k] > threshold}
GuardStatus(hits, threshold, absent) ==
    [k \in hits |-> IF threshold = 50 /\ k \in absent THEN "no pull" ELSE "pull"]
GuardMarkers(statuses) ==
    [shown \in {"pull", "no pull"} |-> {k \in DOMAIN statuses : statuses[k] = shown}]

\* Every so many hours of n, and the last.
DisplayIndexes(n, every) == {k \in 1 .. n : (k - 1) % every = 0} \cup ({n} \ {0})

-----------------------------------------------------------------------------
(* The cases of the 0.30 pool. A case is [vol, cap, config, delta45, delta20].          *)

\* Of the cases that gain in 45 days, the tightest cap of those that gain the same.
Winners(cases) ==
    {c \in cases :
        /\ c.delta45 > 0
        /\ \A d \in cases : d.vol = c.vol /\ d.config = c.config /\ d.delta45 = c.delta45
                              => c.cap <= d.cap}

Best(cases)     == {c \in Winners(cases) : \A d \in Winners(cases) : d.delta45 <= c.delta45}
BestBoth(cases) ==
    LET both == {c \in Winners(cases) : c.delta20 > 0}
    IN  {c \in both : \A d \in both : d.delta45 <= c.delta45}

-----------------------------------------------------------------------------
(* The ratio of the pools' fees over a window that rolls; ratios are fractions.         *)

FeesOver(fees, first, hours) == FoldLeft(+, 0, SubSeq(fees, first, first + hours - 1))

RollingRatios(feesA, feesB, hours) ==
    SelectSeq([i \in 1 .. Len(feesA) - hours + 1 |->
                  [num |-> FeesOver(feesB, i, hours), den |-> FeesOver(feesA, i, hours)]],
              LAMBDA r : r.den > 0)

Sorted(ratios) == SortSeq(ratios, LAMBDA r, s : r.num * s.den < s.num * r.den)
Median(ratios) == Sorted(ratios)[Len(ratios) \div 2 + 1]

-----------------------------------------------------------------------------
(* compare_books: a book of another quote, in parts of its capital, which is 100.       *)

Decomposition(fees, position, hodl) ==
    [fee |-> fees, il |-> position - hodl, net |-> fees + position - hodl,
     hodl |-> hodl - 100, total |-> fees + position - hodl + hodl - 100]

\* The total in dollars, in parts of 100 x 100, when the quote itself moves.
TotalUsd(total, quoteMove) == (100 + total) * (100 + quoteMove) - 100 * 100

-----------------------------------------------------------------------------
\* Tables with one case for every volume and cap.
Gains == {[delta45 |-> d, delta20 |-> e] : d \in -1 .. 1, e \in {-1, 1}}
Grids ==
    {{[vol |-> at[1], cap |-> at[2], config |-> "c1", delta45 |-> gains[at].delta45,
       delta20 |-> gains[at].delta20] : at \in (1 .. 2) \X (1 .. 2)} :
        gains \in [(1 .. 2) \X (1 .. 2) -> Gains]}

\* On small tables: a path is contiguous exactly when no hour is missing or twice; a wider
\* threshold hits fewer hours, and the markers show each hour once; an index is never more
\* than a step away, and the ends are shown; no case gains more than the best; the median
\* is between the ends; and the decomposition adds up to what the book is worth, in the
\* quote and, where the quote moves, in dollars.
TablesAssumption ==
    /\ \A steps \in SUBSET (0 .. 3) :
          Contiguous(FocusPath({[step |-> s] : s \in steps}))
              <=> steps = 0 .. Cardinality(steps) - 1
    /\ \A moves \in [1 .. 3 -> {40, 60, 150, 250}], t \in GuardThresholds :
          /\ \A u \in GuardThresholds : t < u => GuardHits(moves, u) \subseteq GuardHits(moves, t)
          /\ LET hits    == GuardHits(moves, t)
                 markers == GuardMarkers(GuardStatus(hits, t, {2}))
             IN  /\ markers["pull"] \cup markers["no pull"] = hits
                 /\ markers["pull"] \cap markers["no pull"] = {}
                 /\ t # 50 => markers["pull"] = hits
    /\ \A n \in 0 .. 8, every \in 1 .. 4 :
          \A k \in 1 .. n :
              /\ {1, n} \subseteq DisplayIndexes(n, every)
              /\ \E i \in DisplayIndexes(n, every) : i <= k /\ k - i < every
    /\ \A g \in Grids :
          /\ (\E c \in g : c.delta45 > 0) => Best(g) # {}
          /\ \A best \in Best(g), c \in g : c.delta45 <= best.delta45
          /\ \A best \in BestBoth(g) : best.delta45 > 0 /\ best.delta20 > 0
    /\ \A feesA, feesB \in [1 .. 4 -> 0 .. 2] :
          LET ratios == RollingRatios(feesA, feesB, 2)
              sorted == Sorted(ratios)
          IN  ratios # <<>> =>
              \A k \in DOMAIN sorted :
                  LET mid == Median(ratios)
                  IN  IF 2 * k <= Len(ratios) + 1
                      THEN sorted[k].num * mid.den <= mid.num * sorted[k].den
                      ELSE sorted[k].num * mid.den >= mid.num * sorted[k].den
    /\ \A fees \in {0, 10}, position \in {80, 110}, hodl \in {90, 120}, quoteMove \in {-50, 0, 10} :
          LET book == Decomposition(fees, position, hodl)
          IN  /\ book.total = fees + position - 100
              /\ TotalUsd(book.total, quoteMove) + 100 * 100 =
                    (fees + position) * (100 + quoteMove)

ASSUME TablesAssumption
=============================================================================
