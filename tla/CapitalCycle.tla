----------------------------- MODULE CapitalCycle -----------------------------
(***************************************************************************)
(* What an hour of the allocator promises about where the book capital is:  *)
(* in book A, in book B, or in neither; and whether debt is outstanding. A  *)
(* book is opened, and the pools are switched, free of debt only. Capital   *)
(* leaves a book at any time.                                               *)
(***************************************************************************)
VARIABLES place, indebted

Places == {"A", "B", "out"}

TypeOK == place \in Places /\ indebted \in BOOLEAN

Init == place \in Places /\ indebted = FALSE

\* Into a book, from neither or from the other one.
Open ==
    /\ ~indebted /\ place' \in {"A", "B"} \ {place}
    /\ UNCHANGED indebted

Leave == place # "out" /\ place' = "out" /\ UNCHANGED indebted

Lend == ~indebted /\ indebted' = TRUE /\ UNCHANGED place

\* Repayment, or liquidation.
Settle == indebted /\ indebted' = FALSE /\ UNCHANGED place

Next == Open \/ Leave \/ Lend \/ Settle

Spec == Init /\ [][Next]_<<place, indebted>>
=============================================================================
