----------------------------- MODULE RangeStudy -----------------------------
(***************************************************************************)
(* The static loss of a position in ranges of several widths, in USDG to    *)
(* the capital it is opened with, and against the tokens it opened with.    *)
(* The square root of the price doubles from a tick to the next: what a     *)
(* unit of liquidity holds and is worth are then whole parts of Whole.      *)
(***************************************************************************)
EXTENDS Integers

Opening == 3                    \* the tick a position is opened at
Whole   == 2 ^ (4 * Opening)
Moves   == -Opening .. Opening
Widths  == 1 .. Opening         \* RANGES, narrow to wide

SqrtAt(t) == 2 ^ t

\* range_from_half_width.
RangeAround(t, width) == <<t - width, t + width>>

Within(t, range) == IF t < range[1] THEN range[1] ELSE IF t > range[2] THEN range[2] ELSE t

\* A unit of liquidity holds 1/sqrt - 1/sqrt_b of USDG and sqrt - sqrt_a of NVDA.
UsdgHeld(t, range) == Whole \div SqrtAt(Within(t, range)) - Whole \div SqrtAt(range[2])
NvdaHeld(t, range) == SqrtAt(Within(t, range)) - SqrtAt(range[1])

Worth(usdg, nvda, t) == usdg + (nvda * Whole) \div (SqrtAt(t) * SqrtAt(t))

\* What a position opened in range, and its first tokens, are worth after the move.
PositionWorth(range, move) ==
    Worth(UsdgHeld(Opening + move, range), NvdaHeld(Opening + move, range), Opening + move)
HodlWorth(range, move) ==
    Worth(UsdgHeld(Opening, range), NvdaHeld(Opening, range), Opening + move)

\* il_by_move, for a capital of one; and the loss to what the first tokens became.
IlByMove(width, move) ==
    LET range == RangeAround(Opening, width)
    IN  [num |-> PositionWorth(range, move) - HodlWorth(range, move),
         den |-> PositionWorth(range, 0)]
IlOfHodl(width, move) ==
    LET range == RangeAround(Opening, width)
    IN  [num |-> PositionWorth(range, move) - HodlWorth(range, move),
         den |-> HodlWorth(range, move)]

\* The full range, where the price goes to r of what it was: 2 sqrt(r) / (1 + r) - 1.
IlFullRange(move) ==
    LET root == 2 ^ (IF move < 0 THEN -move ELSE move)
    IN  [num |-> 2 * root - (1 + root * root), den |-> 1 + root * root]

Less(a, b) == a.num * b.den < b.num * a.den

\* il_sanity_problems finds none: a position loses nothing where it was opened and something
\* elsewhere, the more the narrower its range; and always more than in the full range.
RangeStudyAssumption ==
    \A width \in Widths, move \in Moves :
        /\ IF move = 0 THEN IlByMove(width, move).num = 0
           ELSE /\ IlByMove(width, move).num < 0
                /\ Less(IlOfHodl(width, move), IlFullRange(move))
        /\ \A wider \in Widths :
              move # 0 /\ width < wider => Less(IlByMove(width, move), IlByMove(wider, move))

ASSUME RangeStudyAssumption
=============================================================================
