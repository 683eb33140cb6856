-------------------------- MODULE VersionedQuotes --------------------------
(***************************************************************************)
(* What optimistic locking promises of the quotes of an organisation: who  *)
(* saves a quote has been given the version that is replaced, unless he    *)
(* insists on overwriting it, and leaves its status as it is; who changes  *)
(* the status leaves the contents.  Revisions are not promised as much:    *)
(* their figures are settled after they have appeared.                     *)
(***************************************************************************)
EXTENDS Integers

CONSTANTS Tabs, Numbers, Revisions, Versions, Statuses

(* A tab is the set of the editors that share what it has been given.      *)
Editors == UNION Tabs

VARIABLES
  rows,      \* version, status and contents of the quotes: the contents are
             \* told apart by the version they were written at
  given,     \* the versions each tab has been given
  insisting  \* the editors who have chosen to overwrite

None == [version |-> 0, status |-> "none", contents |-> 0]

Init ==
  /\ rows = [q \in Numbers |-> None]
  /\ given = [t \in Tabs |-> {}]
  /\ insisting = {}

(* Any tab may forget what it was given; only the one served learns.       *)
Learn(t, S) ==
  /\ given' \in [Tabs -> SUBSET (Numbers \X Nat)]
  /\ \A x \in Tabs :
       given'[x] \subseteq given[x] \cup (IF x = t THEN S ELSE {})

(* A tab may give up whatever its editors were about to overwrite.         *)
CeaseInsisting(t) == insisting \ t \subseteq insisting' /\ insisting' \subseteq insisting

Become(q, status, contents) ==
  rows' = [rows EXCEPT ![q] = [version |-> rows[q].version + 1,
                               status |-> status, contents |-> contents]]

(* Some quotes are read for a tab.                                         *)
Read(t) ==
  /\ Learn(t, {<<q, rows[q].version>> : q \in Numbers})
  /\ CeaseInsisting(t)
  /\ UNCHANGED rows

Insist(t, e) ==
  /\ insisting' = insisting \cup {e}
  /\ Learn(t, {})
  /\ UNCHANGED rows

(* A quote appears as a draft: saved, copied or revised.                   *)
Create(t, q) ==
  \E v, contents \in Versions :
    /\ rows[q] = None
    /\ rows' = [rows EXCEPT ![q] = [version |-> v, status |-> "draft",
                                    contents |-> contents]]
    /\ Learn(t, {<<q, v>>})
    /\ CeaseInsisting(t)

(* Version 1 needs no proof: the browser assumes it of a quote that is not *)
(* in its list.                                                            *)
Save(t, q) ==
  /\ rows[q] # None
  /\ <<q, rows[q].version>> \in given[t] \cup {<<q, 1>>}
  /\ Become(q, rows[q].status, rows[q].version + 1)
  /\ Learn(t, {<<q, rows[q].version + 1>>})
  /\ UNCHANGED insisting

Overwrite(t, e, q) ==
  \E status \in Statuses :
    /\ rows[q] # None
    /\ e \in insisting
    /\ Become(q, status, rows[q].version + 1)
    /\ Learn(t, {<<q, rows[q].version + 1>>})
    /\ insisting' = insisting \ {e}

ChangeStatus(t, q) ==
  \E status \in Statuses :
    /\ rows[q] # None
    /\ Become(q, status, rows[q].contents)
    /\ Learn(t, {})
    /\ UNCHANGED insisting

Settle(t, q) ==
  \E contents \in Versions :
    /\ rows[q] # None
    /\ q \in Revisions
    /\ Become(q, rows[q].status, contents)
    /\ Learn(t, {})
    /\ UNCHANGED insisting

Delete(t, q) ==
  /\ rows' = [rows EXCEPT ![q] = None]
  /\ Learn(t, {})
  /\ UNCHANGED insisting

Next ==
  \E t \in Tabs :
    \/ Read(t)
    \/ \E e \in t : Insist(t, e)
    \/ \E q \in Numbers :
         \/ Create(t, q) \/ Save(t, q) \/ ChangeStatus(t, q)
         \/ Settle(t, q) \/ Delete(t, q)
         \/ \E e \in t : Overwrite(t, e, q)

vars == <<rows, given, insisting>>

Spec == Init /\ [][Next]_vars
=============================================================================
