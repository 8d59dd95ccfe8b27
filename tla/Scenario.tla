------------------------------- MODULE Scenario -------------------------------
(***************************************************************************)
(* The tape of hours the cadCAD models run on: its last hours, its volume   *)
(* scaled, and its resampling in blocks for the Monte Carlo runs.           *)
(* A price is held as its logarithm, 1e12 / price in steps of SubTicks to   *)
(* the tick, so that a factor on the price is a shift. A tick is the        *)
(* nearest; with an odd SubTicks there is never a tie to round.             *)
(***************************************************************************)
EXTENDS Integers, Sequences

CONSTANT SubTicks

ASSUME SubTickAssumption == SubTicks \in Nat /\ SubTicks % 2 = 1

TickOf(level) == (2 * level + SubTicks) \div (2 * SubTicks)
LevelOf(tick) == tick * SubTicks

\* The last hours of a tape, of which it has that many.
Load(tape, hours) == SubSeq(tape, Len(tape) - hours + 1, Len(tape))

\* A book's volume, and with it the fees of its pool, times mult.
ScaleBookVolume(tape, book, mult) ==
    [k \in DOMAIN tape |-> [tape[k] EXCEPT ![book].volume = @ * mult, ![book].fees = @ * mult]]

VolumeOfA == [base |-> 1, volume_2x |-> 2, volume_3x |-> 3, volume_2x_fee_2x |-> 2, fee_2x |-> 1,
            risk_150 |-> 1, risk_500 |-> 1, arm_high |-> 1, arm_stress |-> 1]

\* The tape of a market of the scenario lab.
MarketRows(tape, market) ==
    IF market = "book_b_10x" THEN ScaleBookVolume(tape, "bookB", 10)
    ELSE ScaleBookVolume(tape, "bookA", VolumeOfA[market])

-----------------------------------------------------------------------------
(* The block bootstrap.                                                             *)

\* Mutant: the price is scaled and not put on a tick.
ShiftRowOffTick(row, delta, t) ==
    [row EXCEPT !.t = t, !.tick = TickOf(row.level + delta), !.level = @ + delta]

\* A row at a price shifted by delta: the tick nearest to it, the price of that tick, and
\* the ticks of both books, where a minute has one, moved along.
ShiftRow(row, delta, t) ==
    LET tick  == TickOf(row.level + delta)
        moved(book) == [book EXCEPT !.ticks = [j \in DOMAIN @ |-> @[j] + tick - row.tick]]
    IN  [row EXCEPT !.t = t, !.tick = tick, !.level = LevelOf(tick),
                    !.bookA = moved(@), !.bookB = moved(@)]

\* Mutant: a block goes on from the price of the tape, not of the path.
ShiftsOfTape(tape, starts, block) ==
    [b \in DOMAIN starts |->
        (IF b = 1 THEN tape[1].level ELSE tape[starts[b - 1] + block - 1].level)
            - tape[starts[b]].level]

\* How far block b is shifted, for its first row to open at the price the path has reached.
\* starts holds the first hour of each block.
Shifts(tape, starts, block) ==
    LET shift[b \in DOMAIN starts] ==
            LET reached == IF b = 1 THEN tape[1].level
                           ELSE ShiftRow(tape[starts[b - 1] + block - 1], shift[b - 1], 0).level
            IN  reached - tape[starts[b]].level
    IN  shift

\* As long as the tape; the last block is cut.
Bootstrap(tape, starts, block) ==
    LET shift == Shifts(tape, starts, block)
    IN  [k \in DOMAIN tape |->
            LET b == ((k - 1) \div block) + 1
            IN  ShiftRow(tape[starts[b] + ((k - 1) % block)], shift[b], k - 1)]

\* Where the blocks may start.
Starts(tape, block) ==
    [1 .. (Len(tape) + block - 1) \div block -> 1 .. Len(tape) - block + 1]
=============================================================================
