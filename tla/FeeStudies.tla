------------------------------ MODULE FeeStudies ------------------------------
(***************************************************************************)
(* What the reports read off finished runs: the segments, events and hours  *)
(* of a path of the allocator, how capital is divided between it and the    *)
(* fee allocator, and the closed form for the weight of the 0.30 pool.      *)
(* A point of a path has mode, active, bookA, bookB, arm, idle, nav, hodl.  *)
(***************************************************************************)
EXTENDS FeeAllocator, SequencesExt

CONSTANTS
    BookCapitalFloor,    \* a book above this counts as funded
    Fine,                \* bound: square roots are taken to one part in Fine
    Hundred              \* bound: the closed form counts capital in hundreds

BookOf(pt) == pt.bookA + pt.bookB

\* check_allocation: the books, the arms and what is idle make up the NAV, or the study stops.
Reconciles(points) == \A k \in DOMAIN points :
    BookOf(points[k]) + points[k].arm + points[k].idle = points[k].nav

ASSUME PathsAssumption == \A points \in Paths : Reconciles(points)

\* The drawdown divides by NAV and hold value. In a recorded path a book that comes to hold
\* something, without a switch, comes from under the floor and then holds more.
ASSUME RecordAssumption ==
    /\ BookCapitalFloor \in Nat
    /\ \A points \in Paths : \A k \in DOMAIN points :
          /\ points[k].nav > 0 /\ points[k].hodl > 0
          /\ k > 1 /\ points[k - 1].active = 1 /\ points[k].active = 1
             /\ points[k - 1].bookB = 0 /\ points[k].bookB > 0
               => /\ BookOf(points[k - 1]) <= BookCapitalFloor
                  /\ BookOf(points[k]) > BookCapitalFloor

\* Counted in hundreds, the capital of a run and of its pool lose nothing.
ASSUME HundredAssumption ==
    /\ Fine \in Nat \ {0} /\ Hundred \in Nat \ {0}
    /\ \A r \in Runs : r.initial % Hundred = 0 /\ r.capacity.p30 % Hundred = 0

\* The pool a point of the recommended run is in.
StateOf(pt) == IF pt.mode = "ARMS" THEN "Morpho"
               ELSE IF pt.active = 1 THEN "0.30 pool" ELSE "0.05 pool"

\* The hours a path spends in a mode.
InMode(points, mode) == {k \in DOMAIN points : points[k].mode = mode}

\* The hours at which the state is not that of the hour before; the first is one.
Changes(points) ==
    {k \in DOMAIN points : k = 1 \/ StateOf(points[k]) # StateOf(points[k - 1])}

\* Runs of one mode, with their first and last hour.
ModeSegments(points) ==
    FoldLeftDomain(LAMBDA segments, k :
        LET mode == points[k].mode
            n    == Len(segments)
        IN  IF n > 0 /\ segments[n].mode = mode THEN [segments EXCEPT ![n].last = k]
            ELSE Append(segments, [mode |-> mode, first |-> k, last |-> k]),
        <<>>, points)

\* The hours the strip shows of a mode.
StripHours(points, mode) ==
    LET segments == ModeSegments(points)
    IN  SumOf([n \in {m \in DOMAIN segments : segments[m].mode = mode} |->
                  segments[n].last - segments[n].first + 1])

Crossing(before, after) ==
    IF BookOf(before) > BookCapitalFloor /\ BookOf(after) <= BookCapitalFloor THEN {"recall"}
    ELSE IF BookOf(before) <= BookCapitalFloor /\ BookOf(after) > BookCapitalFloor
    THEN {"return"} ELSE {}

\* Mutant: a switch is looked for only where no capital crossed the floor.
BookEventsApart(points) ==
    [k \in 2 .. Len(points) |->
        LET crossed == Crossing(points[k - 1], points[k])
        IN  IF crossed # {} THEN crossed
            ELSE IF points[k - 1].active # points[k].active THEN {"switch"} ELSE {}]

\* An hour may both move capital over the floor and change the active book.
BookEvents(points) ==
    [k \in 2 .. Len(points) |->
        Crossing(points[k - 1], points[k])
            \cup IF points[k - 1].active # points[k].active THEN {"switch"} ELSE {}]

InBookB(pt) == pt.active = 1 /\ pt.bookB > 0

\* How often a case entered book B.
Entries(points) ==
    Cardinality({k \in DOMAIN points : InBookB(points[k])
                                         /\ (k = 1 \/ ~InBookB(points[k - 1]))})

\* The drop from the peak so far, in bps, after every hour.
Drawdowns(values) ==
    FoldLeft(LAMBDA curve, v :
                LET peak == IF curve.peak > v THEN curve.peak ELSE v
                IN  [peak |-> peak, drops |-> Append(curve.drops, (v * BPS) \div peak - BPS)],
             [peak |-> values[1], drops |-> <<>>], values).drops

\* The deepest of them.
MaxDrawdown(values) == LET drops == Drawdowns(values) IN Min({0} \cup Range(drops))

Navs(points)  == [k \in DOMAIN points |-> points[k].nav]
Hodls(points) == [k \in DOMAIN points |-> points[k].hodl]

\* What run_config counts of a path.
Summary(points) ==
    [arms   |-> Cardinality(InMode(points, "ARMS")),
     books  |-> Cardinality(InMode(points, "BOOKS")),
     funded |-> Cardinality({k \in DOMAIN points : BookOf(points[k]) > BookCapitalFloor}),
     drop   |-> MaxDrawdown(Navs(points)),
     net    |-> points[Len(points)].nav - points[Len(points)].hodl]

\* Hours and capital in the arms, in the 0.30 and in the 0.05 pool when the sleeve follows
\* the fee allocator outside the arms; capital in parts of Unit for each hour.
TimeSplit(points, run) ==
    LET arm   == InMode(points, "ARMS")
        out   == DOMAIN points \ arm
        w(k)  == run[k].weights.p30
        in30  == {k \in out : w(k) > 0}
    IN  [hoursArm |-> Cardinality(arm), hours30 |-> Cardinality(in30),
         hours05  |-> Cardinality(out \ in30),
         capArm   |-> Unit * Cardinality(arm), cap30 |-> SumOf([k \in out |-> w(k)]),
         cap05    |-> SumOf([k \in out |-> Unit - w(k)])]

-----------------------------------------------------------------------------
(* The weight of the 0.30 pool that earns most.                                     *)

Isqrt(x) == CHOOSE r \in 0 .. x : r * r <= x /\ x < (r + 1) * (r + 1)

\* Mutant: the fees given up in the 0.05 pool are those of one more all-in share.
WStarUnshifted(feesA, feesB, n, d) ==
    LET root == Isqrt((feesB * n * Fine * Fine) \div (feesA * d))
    IN  Least(Unit, (Unit * root * d) \div (n * Fine))

\* With all capital in, the fees of the 0.30 pool are a/(1+a) of feesB, a = n/d: the weight
\* is (sqrt(a * feesB / feesA) - 1) / a, no less than nothing and no more than all.
WStar(feesA, feesB, n, d) ==
    LET root == Isqrt((feesB * n * Fine * Fine) \div (feesA * d))
    IN  Least(Unit, (Unit * Positive(root - Fine) * d) \div (n * Fine))

\* The weight at which a sleeve has the share cap of the pool, and the volume of the pool
\* over today's at which a sleeve pays what it gives up, as a fraction.
WCap(cap, n, d) == Least(Unit, (Unit * cap * d) \div (n * (BPS - cap)))
BreakEven(w, feesA, feesB, n, d) ==
    [num |-> feesA * (w * n + Unit * d), den |-> feesB * n * Unit]

\* run_split: what a sleeve of w in a pool earns of its revenue over the whole tape, and both
\* sleeves earn when w is in the 0.30 pool. The code takes, minute by minute, the share of the
\* sleeve's liquidity in that of the pool; here the pool is worth its capacity in dollars at
\* every minute. The sleeves have one shape, so that however capital is divided their tokens
\* are worth the same.
Sleeve(pool, revenue, w) ==
    (revenue * w * p.initial) \div (w * p.initial + Unit * p.capacity[pool])
SplitFees(w, revenueA, revenueB) ==
    Sleeve("p05", revenueA, Unit - w) + Sleeve("p30", revenueB, w)

\* What a split gains on all in the 0.05 pool; and on the risk-only run, which earns hurdle
\* more than that pool with the capital it keeps.
SplitGain(w, revenueA, revenueB) ==
    SplitFees(w, revenueA, revenueB) - SplitFees(0, revenueA, revenueB)
Combined(w, revenueA, revenueB, hurdle) ==
    SplitGain(w, revenueA, revenueB) - (w * hurdle) \div Unit

\* reverse: the volume over today's at which fees of own in the 0.30 pool, with other in the
\* rest, reach those of the 0.05 pool and what moving w has to bring on top.
RequiredVolume(base, w, hurdle, margin, own, other) ==
    [num |-> Unit * (base + margin - other) + w * hurdle, den |-> Unit * own]

-----------------------------------------------------------------------------
(* Properties.                                                                      *)

AtRest == phase = "market" /\ step = Len(tape) /\ record # <<>>

\* The worst an hour from i on stands against hour i, in bps.
WorstFrom(values, i) ==
    Min({(values[j] * BPS) \div values[i] - BPS : j \in i .. Len(values)})

\* The reports' readings of one path agree, and lose nothing of it. From the first hour and
\* the events, the hours with a funded book and the active book of every hour come back; the
\* mode segments tile the path; the hours of the states, of the modes and of the time split
\* add up; an entry into book B is an event too; and the deepest drop from a running peak is
\* the worst loss between any hour and a later one.
ReadingsAgree ==
    AtRest =>
        LET events   == BookEvents(record)
            upTo(k, kind) == {j \in 2 .. k : kind \in events[j]}
            crossed(k) == upTo(k, "recall") \cup upTo(k, "return")
            segments == ModeSegments(record)
            split    == TimeSplit(record, path)
            sum      == Summary(record)
            inState(s) == Cardinality({k \in DOMAIN record : StateOf(record[k]) = s})
        IN  /\ \A k \in DOMAIN record :
                  /\ (BookOf(record[k]) > BookCapitalFloor)
                        <=> IF crossed(k) = {} THEN BookOf(record[1]) > BookCapitalFloor
                            ELSE "return" \in events[Max(crossed(k))]
                  /\ (record[k].active = record[1].active)
                        <=> Cardinality(upTo(k, "switch")) % 2 = 0
            /\ \A k \in DOMAIN record : \E n \in DOMAIN segments :
                  /\ segments[n].first <= k /\ k <= segments[n].last
                  /\ segments[n].mode = record[k].mode
            /\ \A n \in 2 .. Len(segments) :
                  /\ segments[n].first = segments[n - 1].last + 1
                  /\ segments[n].mode # segments[n - 1].mode
            /\ Cardinality(Changes(record)) >= Len(segments)
            /\ StripHours(record, "ARMS") = sum.arms /\ StripHours(record, "BOOKS") = sum.books
            /\ sum.arms + sum.books = Len(record) /\ split.hoursArm = sum.arms
            /\ inState("Morpho") = sum.arms
            /\ inState("0.05 pool") + inState("0.30 pool") = sum.books
            /\ split.hours30 + split.hours05 = sum.books
            /\ split.capArm + split.cap30 + split.cap05 = Unit * Len(record)
            /\ Entries(record) <= Cardinality(upTo(Len(record), "switch"))
                                    + Cardinality(upTo(Len(record), "return")) + 1
            /\ \A values \in {Navs(record), Hodls(record)} :
                  MaxDrawdown(values) = Min({WorstFrom(values, i) : i \in DOMAIN values})

\* The fees of a sleeve w with all capital at the first NAV, over the fees it gives up.
Gain(w, feesA, feesB, n, d) ==
    (Fine * feesB * w * n) \div (w * n + Unit * d) - (Fine * w * feesA) \div Unit

\* The parts of Unit the closed form is short of the best weight at most: what the root to
\* one part in Fine and then the weight to one part in Unit lose.
Short(n, d) == 2 + (Unit * d) \div (n * Fine)

\* w_star of the break-even study, against the pool share the fee allocator earns by: with
\* the fees of this tape no weight does better than the closed form's, but for its rounding;
\* a sleeve gains if it breaks even at less than today's volume, also on the risk-only run
\* and with both sleeves simulated, and loses if at more; the volume the fee allocator asks
\* for is no higher; and the weight of the cap is where the allocator stops.
StarIsBest ==
    phase = "market" /\ step = 0 =>
        LET n     == p.initial \div Hundred
            d     == p.capacity.p30 \div Hundred
            poolA == SumOf([k \in DOMAIN tape |-> tape[k].bookA.fees])
            feesA == Sleeve("p05", poolA, Unit)
            feesB == SumOf([k \in DOMAIN tape |-> tape[k].bookB.fees])
            gain(w) == Gain(w, feesA, feesB, n, d)
            star  == WStar(feesA, feesB, n, d)
        IN  feesA > 0 =>
            /\ \A w \in 0 .. Unit : \E near \in star .. Least(Unit, star + Short(n, d)) :
                  gain(w) <= gain(near) + 1
            /\ \A w \in 1 .. Unit :
                  LET even == BreakEven(w, feesA, feesB, n, d)
                  IN  /\ even.num < even.den => gain(w) >= 0
                      /\ even.num > even.den => gain(w) <= 0
            /\ \A w \in 1 .. Unit, hurdle \in {0, 4} :
                  LET even == BreakEven(w, feesA + hurdle, feesB, n, d)
                      back == RequiredVolume(feesA, w, hurdle, 0, Sleeve("p30", feesB, w),
                                      Sleeve("p05", poolA, Unit - w))
                  IN  /\ even.num < even.den => Combined(w, poolA, feesB, hurdle) >= -1
                      /\ back.num <= w * (feesA + hurdle) + Unit
            /\ WCap(p.shareCap, n, d) = Least(Unit, CapWeight(p.initial))
=============================================================================
