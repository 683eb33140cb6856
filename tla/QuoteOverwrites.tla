-------------------------- MODULE QuoteOverwrites --------------------------
(* Of which version of a quote are the contents that a save is made of?    *)
(* The version that the optimistic lock compares is that of the list in    *)
(* the store, and the list is fetched again without the contents.          *)
EXTENDS QuoteEditing

VARIABLE base  \* history: the version that the contents in the calculator
               \* of each tab were loaded from or saved as

BaseInit == Init /\ base = [t \in Tabs |-> 0]

(* A quote that is no longer in the list is not loaded.  Neither leaving a *)
(* page nor a draft plays a part in what this module shows.                *)
BaseNext(e) ==
  LET t == TabOf(e) IN
  \/ \E q \in Numbers :
       /\ Open(e, q) \/ (Reload(e) /\ active[t] = q)
       /\ base' = [base EXCEPT ![t] = IF Exists(q) THEN store'[t][q] ELSE @]
  \/ /\ Persist(e)
     /\ base' = [base EXCEPT ![t] = db'[op[e].number].version]
  \/ /\ \/ Refetch(t)
        \/ SaveStart(e) \/ SaveForced(e) \/ Cancel(e) \/ SaveSelect(e)
        \/ PersistRefused(e) \/ SaveDone(e) \/ SaveDoubted(e)
     /\ UNCHANGED base

BaseSpec == BaseInit /\ [][\E e \in Editors : BaseNext(e)]_<<vars, base>>

(* The dialog on a conflict says that "This quote has been modified by     *)
(* another user since you loaded it" before the other's changes can be     *)
(* overwritten (QuoteSaveModal.tsx).  A plain save should then replace     *)
(* nothing later than what its contents were loaded from.                  *)
NoSilentOverwrite ==
  [][\A e \in Editors :
       op[e].kind = "selected" /\ op[e].mode = "plain" /\ ~Inserts(op[e])
         /\ db'[op[e].number] # db[op[e].number] /\ op'[e] # op[e]
       => db[op[e].number].header <= base[TabOf(e)]]_<<vars, base>>
=============================================================================
