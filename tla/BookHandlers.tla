----------------------------- MODULE BookHandlers -----------------------------
(***************************************************************************)
(* What each call of a PoolGuardHook does to the phase of its book, without *)
(* tokens, prices or bands: which positions exist, whether deployments are  *)
(* on, and how long the guard has been out.                                 *)
(*                                                                         *)
(* A handler is an operator from a book to the set of books its call may    *)
(* leave behind.  The empty set is a call that always reverts; a member     *)
(* equal to the argument is a call that succeeds and changes nothing here.  *)
(***************************************************************************)
EXTENDS Integers

CONSTANTS
    RecheckInterval     \* time units a pulled guard stays out before a recheck

ASSUME RecheckIntervalAssumption == RecheckInterval \in Nat \ {0}

\* Timestamps are kept as ages, because the code only ever compares them with
\* block.timestamp; an age stops growing where the comparison stops changing.
NoTime == -1

Ages(cap) == NoTime .. cap

Older(age, cap) == IF age = NoTime \/ age = cap THEN age ELSE age + 1

Book == [initialized : BOOLEAN, exited : BOOLEAN, deployEnabled : BOOLEAN,
         base : BOOLEAN, guard : BOOLEAN, pulled : Ages(RecheckInterval)]

FreshBook == [initialized |-> FALSE, exited |-> FALSE, deployEnabled |-> FALSE,
              base |-> FALSE, guard |-> FALSE, pulled |-> NoTime]

Live(b) == b.initialized /\ ~b.exited

PullGuard(b) == IF b.guard THEN [b EXCEPT !.guard = FALSE, !.pulled = 0] ELSE b

PlaceGuard(b) == [b EXCEPT !.guard = TRUE, !.pulled = NoTime]

\* ACTION_INIT: the base, then the guard when deployments are on.
Arm(b) == LET based == [b EXCEPT !.base = TRUE]
          IN IF b.deployEnabled THEN PlaceGuard(based) ELSE based

\* Mutant of HookInitialize: a book may be initialised again.
ReinitializeBook(b) ==
    {Arm([b EXCEPT !.initialized = TRUE, !.exited = FALSE, !.deployEnabled = TRUE])}

HookInitialize(b) ==
    IF b.initialized THEN {}
    ELSE {Arm([b EXCEPT !.initialized = TRUE, !.deployEnabled = TRUE])}

HookSetDeployEnabled(b, enabled) == {[b EXCEPT !.deployEnabled = enabled]}

HookDeployGuard(b) ==
    IF Live(b) /\ b.deployEnabled /\ ~b.guard THEN {PlaceGuard(b)} ELSE {}

HookRecenterGuard(b) ==
    IF Live(b) /\ (b.guard \/ b.deployEnabled)
    THEN {IF b.deployEnabled THEN PlaceGuard(b) ELSE PullGuard(b)}
    ELSE {}

HookRecallToVault(b) == IF b.initialized THEN {PullGuard(b)} ELSE {}

\* Mutant of HookPullAll: exits and forgets the guard.
PullAllButGuard(b) ==
    IF Live(b) THEN {[b EXCEPT !.base = FALSE, !.exited = TRUE]} ELSE {}

HookPullAll(b) ==
    IF Live(b) THEN {[PullGuard(b) EXCEPT !.base = FALSE, !.exited = TRUE]} ELSE {}

HookRearm(b) ==
    IF b.initialized /\ b.exited THEN {Arm([b EXCEPT !.exited = FALSE])} ELSE {}

\* A due recheck may be skipped: the oracle is unavailable or the pool off band.
HookRecheckGuard(b) ==
    IF Live(b) /\ b.deployEnabled /\ ~b.guard /\ b.pulled = RecheckInterval
    THEN {b, PlaceGuard(b)}
    ELSE {}

\* beforeSwap: the guard may be pulled, or placed when deployments are on.
HookSwap(b) ==
    IF ~b.initialized THEN {}
    ELSE {b} \union (IF Live(b) THEN {PullGuard(b)} ELSE {})
             \union (IF Live(b) /\ b.deployEnabled THEN {PlaceGuard(b)} ELSE {})

OlderBook(b) == [b EXCEPT !.pulled = Older(b.pulled, RecheckInterval)]

\* The base is out exactly on a live book, the guard only there, and a guard is out
\* exactly while a pull time is recorded: a live book without one can recheck.
Coherent(b) ==
    /\ b.base <=> Live(b)
    /\ b.guard => Live(b)
    /\ b.initialized => (b.guard <=> b.pulled = NoTime)
    /\ ~b.initialized => b.pulled = NoTime
    /\ b.exited => b.initialized
=============================================================================
