--------------------------- MODULE MCQuoteEditing ---------------------------
(* Symmetry and bounds for the runs of QuoteEditing.  The pages of a tab   *)
(* and the families are interchangeable.                                   *)
EXTENDS QuoteEditing, TLC

Symmetry ==
  UNION {Permutations(t) : t \in Tabs} \cup Permutations(Families)

(* Bound: no page is left during an operation.                             *)
NoneLeft == left = {}

(* Bound: a tab that saves nothing has no older version in its list; of    *)
(* that list only Delete reads which quotes are in it.                     *)
ManagersUpToDate ==
  \A t \in Tabs :
    t \cap Savers = {} => \A q \in Numbers : store[t][q] \in {0, db[q].version}
=============================================================================
