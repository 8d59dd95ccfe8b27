------------------------- MODULE BookHandlers_proofs -------------------------
(***************************************************************************)
(* What each call of the hook keeps of its book: the lemmas that the proofs *)
(* about the vault, and about the hook itself, cite.                        *)
(***************************************************************************)
EXTENDS BookHandlers, TLAPS

LEMMA TimeIsAnAge == NoTime \in Ages(RecheckInterval) /\ 0 \in Ages(RecheckInterval)
  BY RecheckIntervalAssumption DEF Ages, NoTime

\* Pulling the guard and placing it keep the book's type.
LEMMA GuardMovesType ==
  ASSUME NEW b \in Book
  PROVE  PullGuard(b) \in Book /\ PlaceGuard(b) \in Book
  BY TimeIsAnAge DEF Book, PullGuard, PlaceGuard

\* A guard pulled on any book, or placed on a live one, leaves a coherent book with
\* the same initialisation, exit and deployment flags.
LEMMA GuardMovesCoherent ==
  ASSUME NEW b \in Book, Coherent(b)
  PROVE  /\ Coherent(PullGuard(b))
         /\ Live(b) => Coherent(PlaceGuard(b))
         /\ \A c \in {PullGuard(b), PlaceGuard(b)} :
               /\ c.initialized = b.initialized /\ c.exited = b.exited
               /\ c.deployEnabled = b.deployEnabled /\ c.base = b.base
  BY RecheckIntervalAssumption
  DEF Book, Ages, NoTime, Coherent, Live, PullGuard, PlaceGuard

LEMMA InitializeKeeps ==
  ASSUME NEW b \in Book, Coherent(b), NEW c \in HookInitialize(b)
  PROVE  /\ c \in Book /\ Coherent(c)
         /\ c.deployEnabled /\ c.initialized /\ ~b.initialized
  BY TimeIsAnAge
  DEF Book, Coherent, Live, HookInitialize, Arm, PlaceGuard

LEMMA SetDeployEnabledKeeps ==
  ASSUME NEW b \in Book, Coherent(b), NEW e \in BOOLEAN,
         NEW c \in HookSetDeployEnabled(b, e)
  PROVE  /\ c \in Book /\ Coherent(c) /\ c.deployEnabled = e
         /\ c.initialized = b.initialized /\ c.exited = b.exited
         /\ c.base = b.base /\ c.guard = b.guard
  BY DEF Book, Coherent, Live, HookSetDeployEnabled

\* The calls that move only the guard of a book.
LEMMA GuardCallsKeep ==
  ASSUME NEW b \in Book, Coherent(b),
         NEW c \in HookDeployGuard(b) \union HookRecenterGuard(b)
                     \union HookRecallToVault(b) \union HookRecheckGuard(b)
                     \union HookSwap(b)
  PROVE  /\ c \in Book /\ Coherent(c) /\ c.deployEnabled = b.deployEnabled
         /\ c.initialized = b.initialized /\ c.exited = b.exited
  <1>1. c \in {b, PullGuard(b), PlaceGuard(b)}
    BY DEF HookDeployGuard, HookRecenterGuard, HookRecallToVault, HookRecheckGuard,
           HookSwap
  <1>2. c = PlaceGuard(b) => Live(b) \/ c = b \/ c = PullGuard(b)
    BY DEF HookDeployGuard, HookRecenterGuard, HookRecallToVault, HookRecheckGuard,
           HookSwap
  <1> QED
    BY <1>1, <1>2, GuardMovesType, GuardMovesCoherent

LEMMA PullAllKeeps ==
  ASSUME NEW b \in Book, Coherent(b), NEW c \in HookPullAll(b)
  PROVE  /\ c \in Book /\ Coherent(c) /\ c.deployEnabled = b.deployEnabled
         /\ c.initialized /\ c.exited /\ b.initialized
  <1> DEFINE p == PullGuard(b)
  <1>1. p \in Book /\ p.deployEnabled = b.deployEnabled /\ p.initialized = b.initialized
    BY GuardMovesType, GuardMovesCoherent
  <1>2. Live(b) /\ c = [p EXCEPT !.base = FALSE, !.exited = TRUE]
    BY DEF HookPullAll
  <1>3. ~p.guard /\ p.pulled # NoTime
    BY <1>2 DEF PullGuard, Coherent, Live, Book, NoTime
  <1> HIDE DEF p
  <1> QED
    BY <1>1, <1>2, <1>3 DEF Book, Coherent, Live

LEMMA RearmKeeps ==
  ASSUME NEW b \in Book, Coherent(b), NEW c \in HookRearm(b)
  PROVE  /\ c \in Book /\ Coherent(c) /\ c.deployEnabled = b.deployEnabled
         /\ c.initialized /\ ~c.exited /\ b.initialized /\ b.exited
  BY TimeIsAnAge
  DEF Book, Coherent, Live, HookRearm, Arm, PlaceGuard

LEMMA OlderBookKeeps ==
  ASSUME NEW b \in Book, Coherent(b)
  PROVE  /\ OlderBook(b) \in Book /\ Coherent(OlderBook(b))
         /\ OlderBook(b).deployEnabled = b.deployEnabled
         /\ OlderBook(b).initialized = b.initialized
         /\ OlderBook(b).exited = b.exited
  BY RecheckIntervalAssumption
  DEF Book, Ages, NoTime, Older, Coherent, Live, OlderBook
=============================================================================
