---------------------------- MODULE BookLifecycle ----------------------------
(***************************************************************************)
(* The abstract specification of one book: what a PoolGuardHook promises    *)
(* the vault that owns it.  GuardBook, with tokens, prices and bands,       *)
(* implements it; LedgerControl composes the vault with the same handlers.  *)
(***************************************************************************)
EXTENDS BookHandlers

VARIABLE book

Init == book = FreshBook

Next ==
    \/ book' \in HookInitialize(book)
    \/ \E enabled \in BOOLEAN : book' \in HookSetDeployEnabled(book, enabled)
    \/ book' \in HookDeployGuard(book)
    \/ book' \in HookRecenterGuard(book)
    \/ book' \in HookRecallToVault(book)
    \/ book' \in HookPullAll(book)
    \/ book' \in HookRearm(book)
    \/ book' \in HookRecheckGuard(book)
    \/ book' \in HookSwap(book)
    \/ book' = OlderBook(book)

Spec == Init /\ [][Next]_book

-----------------------------------------------------------------------------
\* Type invariant of the abstract book.
TypeOK == book \in Book

\* Positions exist only on a live book, and a live book whose guard is out always
\* has the pull time that lets a recheck bring it back (PoolGuardHook.pulledAt).
BookCoherent == Coherent(book)
=============================================================================
