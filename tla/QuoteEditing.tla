---------------------------- MODULE QuoteEditing ----------------------------
(***************************************************************************)
(* Quotes edited by several people at once.  A browser tab has one store:  *)
(* the contents that its calculator works on, and a list of quotes, which  *)
(* now and then is fetched again.  The editors of a tab are the pages it   *)
(* shows one after the other: one that is left during an operation goes on *)
(* with it unseen, beside those shown later.  A tab is the set of its      *)
(* pages.  A quote's row has a version that rises with every update;       *)
(* saving, changing a status and revising read the row with one statement  *)
(* and write it with a later one.                                          *)
(*                                                                         *)
(* A quote number is <<family, n>>: n = 0 for a saved or copied quote, and *)
(* n for the revision "...-vn".  The contents of a header, and each batch  *)
(* of line items, are told apart by the version of the row they were       *)
(* written at.  The expiry of quotes is left out: no code sets valid_until.*)
(***************************************************************************)
EXTENDS Integers, FiniteSets

CONSTANTS
  Tabs,        \* browser tabs, each of one user: the set of its pages
  Savers,      \* those who open quotes in the calculator and save them
  Managers,    \* those who change statuses, delete and copy
  Revisers,    \* those who revise
  Families,    \* random quote ids, each with its revisions
  Chosen,      \* the statuses that are set by hand
  MaxVersion,  \* bound: versions, hence revision numbers
  MaxRows,     \* bound: rows ever inserted
  MaxTroubles  \* bound: replies lost and verifications failed

Statuses == {"draft", "sent", "won", "lost"}

Editors == UNION Tabs

TabOf(e) == CHOOSE t \in Tabs : e \in t

ASSUME QuoteConstants ==
  /\ \A t, u \in Tabs : t # u => t \cap u = {}
  /\ Savers \subseteq Editors /\ Managers \subseteq Editors
  /\ Revisers \subseteq Editors
  /\ Chosen \subseteq Statuses
  /\ MaxVersion \in Nat \ {0} /\ MaxRows \in Nat /\ MaxTroubles \in Nat

VARIABLES
  db,        \* quotes, with quote_items, by quote_number
  lastId,    \* identity of the row inserted last
  used,      \* families whose random id has been drawn
  active,    \* activeQuoteId of each tab's store, or NoNumber
  store,     \* quotes of each tab's store
  op,        \* the operation in progress of each page
  left,      \* pages that were left during their operation
  copies,    \* history: quotes inserted from the contents in each calculator,
             \* less those whose author was not told on the page
  troubles,  \* history: replies lost and verifications failed
  disturbed  \* history: rows whose revision stopped or was saved half-way

calculator == <<active, copies, troubles>>
local == <<calculator, store>>
ops == <<op, left>>
vars == <<db, lastId, used, disturbed, local, ops>>

Versions == 1 .. MaxVersion
Revisions == Families \X (2 .. MaxVersion)
Numbers == Families \X ({0} \cup 2 .. MaxVersion)
Family(q) == q[1]
NoNumber == <<>>

NoRow == [id |-> 0, version |-> 0, status |-> "none", header |-> 0,
          items |-> {}]
Row == [id : 1 .. MaxRows, version : Versions, status : Statuses,
        header : Versions, items : SUBSET Versions]
KeyRow == [id : 0 .. MaxRows, version : 0 .. MaxVersion,
           status : Statuses \cup {"none"}, header : 0 .. MaxVersion,
           items : SUBSET Versions]
Exists(q) == db[q] # NoRow

(* A list gives the version of each quote in it, and 0 for the others.     *)
Lists == [Numbers -> 0 .. MaxVersion]
EmptyList == [q \in Numbers |-> 0]
CurrentList == [q \in Numbers |-> db[q].version]

OpKinds == {"idle",
            "captured", "selected", "verifying", "conflict",  \* a save
            "restatus",
            "original", "numbered", "inserted", "itemised"}   \* a revision

Operations == [kind : OpKinds, mode : {"plain", "forced", "empty"},
               number : Numbers \cup {NoNumber}, list : Lists, row : KeyRow]

NoOp == [kind |-> "idle", mode |-> "plain", number |-> NoNumber,
         list |-> EmptyList, row |-> NoRow]

(* A save is plain or forced, and keeps the list that the store had when   *)
(* it began; the revision of a quote without items is "empty".  "row" is   *)
(* the row that was read, or is to be written.                             *)
Begin(e, kind, mode, q, list, row) ==
  /\ op' = [op EXCEPT ![e] = [kind |-> kind, mode |-> mode, number |-> q,
                              list |-> list, row |-> row]]
  /\ UNCHANGED left

(* What a save or a change of status reads of a row.                       *)
Key(row) == [id |-> row.id, version |-> row.version, status |-> row.status,
             header |-> 0, items |-> {}]

End(e) ==
  /\ op' = [op EXCEPT ![e] = NoOp]
  /\ left' = left \ {e}

Idle(e) == op[e].kind = "idle"

(* The page is the one shown: whatever else its tab was doing is over, or  *)
(* was left.                                                               *)
Shown(e) == \A d \in TabOf(e) : d # e => Idle(d) \/ d \in left

(* Nothing else is begun by a page until its operation ends: the buttons   *)
(* of the dialog are disabled, and closing it keeps them so.               *)
Free(e) == Idle(e) /\ Shown(e)

Insert(q, row) ==
  /\ lastId < MaxRows
  /\ lastId' = lastId + 1
  /\ db' = [db EXCEPT ![q] = row]
  /\ used' = used \cup {Family(q)}

Write(q, row) ==
  /\ row.version <= MaxVersion
  /\ db' = [db EXCEPT ![q] = row]
  /\ UNCHANGED <<lastId, used>>

UnchangedRows == UNCHANGED <<db, lastId, used, disturbed>>

(* Somebody is still making the revision whose row is "id".                *)
Revising(id) ==
  \E e \in Editors : /\ op[e].kind \in {"inserted", "itemised"}
                     /\ op[e].row.id = id

-----------------------------------------------------------------------------
(* The list of quotes                                                      *)

(* A refetch of the list, after a change in this tab or because a page     *)
(* with the list was opened, is copied by the shell to the store of the    *)
(* calculator: at any time, in the middle of a save too.  A reply that is  *)
(* late would only make the list older.                                    *)
Refetch(t) ==
  /\ store' = [store EXCEPT ![t] = CurrentList]
  /\ UnchangedRows /\ UNCHANGED <<calculator, ops>>

-----------------------------------------------------------------------------
(* Choosing what the calculator works on                                   *)

(* The list is read and the quote is loaded from it; a clone is loaded and *)
(* then no longer active.  A quote that is not in the list is left alone.  *)
Load(t, q, clone) ==
  /\ store' = [store EXCEPT ![t] = CurrentList]
  /\ IF Exists(q)
     THEN /\ active' = [active EXCEPT ![t] = IF clone THEN NoNumber ELSE q]
          /\ copies' = [copies EXCEPT ![t] = {}]
     ELSE UNCHANGED <<active, copies>>
  /\ UnchangedRows /\ UNCHANGED troubles

(* From the page with the list, which a save of this tab may have been     *)
(* left for.                                                               *)
Open(e, q) ==
  LET t == TabOf(e) IN
  /\ Free(e) /\ store[t][q] # 0
  /\ \E clone \in BOOLEAN : Load(t, q, clone)
  /\ UNCHANGED ops

(* "Discard and reload" of the dialog on a conflict.                       *)
Reload(e) ==
  LET t == TabOf(e) IN
  /\ op[e].kind = "conflict" /\ active[t] # NoNumber
  /\ Load(t, active[t], FALSE)
  /\ End(e)

(* The draft is put into the store: contents with the activeQuoteId they   *)
(* had, if any.  It is asked for when a calculator opens without an active *)
(* quote, and arrives at any time after that.                              *)
RestoreDraft(t) ==
  /\ t \cap Savers # {}
  /\ \E q \in {NoNumber, active[t]} \cup {n \in Numbers : Exists(n)} :
       active' = [active EXCEPT ![t] = q]
  /\ copies' = [copies EXCEPT ![t] = {}]
  /\ UnchangedRows /\ UNCHANGED <<troubles, store, ops>>

(* The page is left for another while its operation is under way, which    *)
(* goes on.  That a quote was inserted is then not told on the page.       *)
Leave(e) ==
  LET t == TabOf(e) IN
  /\ op[e].kind \notin {"idle", "conflict"} /\ e \notin left
  /\ left' = left \cup {e}
  /\ copies' = IF op[e].kind = "verifying"
               THEN [copies EXCEPT ![t] = @ \ {op[e].number}] ELSE copies
  /\ UnchangedRows /\ UNCHANGED <<active, troubles, store, op>>

-----------------------------------------------------------------------------
(* Saving                                                                  *)

(* The state of the store is captured before the first await, and used     *)
(* after all of them.                                                      *)
Capture(e, mode) ==
  Begin(e, "captured", mode, active[TabOf(e)], store[TabOf(e)], NoRow)

SaveStart(e) ==
  /\ Free(e)
  /\ Capture(e, "plain")
  /\ UnchangedRows /\ UNCHANGED local

SaveForced(e) ==
  /\ op[e].kind = "conflict"
  /\ Capture(e, "forced")
  /\ UnchangedRows /\ UNCHANGED local

Cancel(e) ==
  /\ op[e].kind = "conflict"
  /\ End(e)
  /\ UnchangedRows /\ UNCHANGED local

(* Of a quote that is not in the list, version 1 is assumed.               *)
LocalVersion(o) == IF o.list[o.number] = 0 THEN 1 ELSE o.list[o.number]

(* An error of the query that looks for the row is ignored: the quote then *)
(* counts as one that is not there.                                        *)
Found(q) == IF q = NoNumber THEN {NoRow} ELSE {db[q], NoRow}

Mismatch(o, row) == o.mode = "plain" /\ LocalVersion(o) # row.version

(* The dialog on a conflict opens, if its page is still shown.             *)
Conflict(e) ==
  LET o == op[e] IN
  IF e \in left THEN End(e)
  ELSE Begin(e, "conflict", o.mode, o.number, o.list, NoRow)

SaveSelect(e) ==
  LET o == op[e] IN
  /\ o.kind = "captured"
  /\ \E row \in Found(o.number) :
       \/ /\ row # NoRow /\ Mismatch(o, row)
          /\ Conflict(e)
       \/ /\ row # NoRow /\ ~Mismatch(o, row)
          /\ Begin(e, "selected", o.mode, o.number, o.list, Key(row))
       \/ /\ row = NoRow /\ o.number # NoNumber
          /\ Begin(e, "selected", o.mode, o.number, o.list, NoRow)
       \/ /\ o.number = NoNumber
          /\ \E f \in Families \ used :
               Begin(e, "selected", o.mode, <<f, 0>>, o.list, NoRow)
  /\ UnchangedRows /\ UNCHANGED local

(* Mutants: a save that gives a new quote the status of no row, and one    *)
(* that keeps the old items.                                               *)
SavedRowWithoutDefault(o, id, version) ==
  [id |-> id, version |-> version, status |-> o.row.status,
   header |-> version, items |-> {version}]

SavedRowKeepsItems(o, id, version) ==
  [id |-> id, version |-> version,
   status |-> IF o.row = NoRow THEN "draft" ELSE o.row.status,
   header |-> version, items |-> db[o.number].items \cup {version}]

(* persist_quote_atomic: the header, the items and the costs are written   *)
(* in one transaction.                                                     *)
SavedRow(o, id, version) ==
  [id |-> id, version |-> version,
   status |-> IF o.row = NoRow THEN "draft" ELSE o.row.status,
   header |-> version, items |-> {version}]

(* Mutant: the update that does not compare the version again.             *)
VersionNotCompared(o) == TRUE

VersionMatches(o) ==
  \/ o.mode = "forced"
  \/ db[o.number].version = LocalVersion(o)

MayUpdate(o) == db[o.number].id = o.row.id /\ VersionMatches(o)

Inserts(o) == o.row = NoRow

(* Mutant: an insert that replaces the row of its number, if there is one. *)
AcceptsUpsert(o) == IF Inserts(o) THEN TRUE ELSE MayUpdate(o)

Accepts(o) == IF Inserts(o) THEN ~Exists(o.number) ELSE MayUpdate(o)

PersistRefused(e) ==
  LET o == op[e] IN
  /\ o.kind = "selected"
  /\ ~Accepts(o)
  /\ IF Inserts(o) THEN End(e) ELSE Conflict(e)
  /\ UnchangedRows /\ UNCHANGED local

(* The contents become a quote of a number that was drawn for them.        *)
IsNew(o) == Inserts(o) /\ Family(o.number) \notin used

(* The reply may be lost: the save has happened and its author is told     *)
(* that it has failed.                                                     *)
Persist(e) ==
  LET o == op[e]
      saved == IF Inserts(o) THEN SavedRow(o, lastId + 1, 1)
               ELSE SavedRow(o, o.row.id, db[o.number].version + 1)
  IN
  /\ o.kind = "selected"
  /\ Accepts(o)
  /\ IF Inserts(o) THEN Insert(o.number, saved) ELSE Write(o.number, saved)
  /\ disturbed' = IF Revising(saved.id) THEN disturbed \cup {saved.id}
                  ELSE disturbed
  /\ \/ /\ Begin(e, "verifying", o.mode, o.number, o.list, saved)
        /\ copies' = IF IsNew(o) /\ e \notin left
                     THEN [copies EXCEPT ![TabOf(e)] = @ \cup {o.number}]
                     ELSE copies
        /\ UNCHANGED troubles
     \/ /\ troubles < MaxTroubles
        /\ troubles' = troubles + 1
        /\ End(e)
        /\ UNCHANGED copies
  /\ UNCHANGED <<active, store>>

(* The items are counted after the transaction: those of a later save may  *)
(* be as many, or not, and the count may fail.                             *)
CountMayMatch(o) ==
  /\ db[o.number].id = o.row.id
  /\ Cardinality(db[o.number].items) = 1

(* Mutant: the saved quote does not become the active one.                 *)
SaveDoneForgetsNumber(e) ==
  LET o == op[e]
      t == TabOf(e)
  IN
  /\ o.kind = "verifying"
  /\ CountMayMatch(o)
  /\ store' = [store EXCEPT ![t] = [o.list EXCEPT ![o.number] = o.row.version]]
  /\ End(e)
  /\ UnchangedRows
  /\ UNCHANGED calculator

(* The list goes back to what it was when the save began, and the saved    *)
(* quote is the active one, whatever was refetched or opened meanwhile.    *)
SaveDone(e) ==
  LET o == op[e]
      t == TabOf(e)
  IN
  /\ o.kind = "verifying"
  /\ CountMayMatch(o)
  /\ store' = [store EXCEPT ![t] = [o.list EXCEPT ![o.number] = o.row.version]]
  /\ active' = [active EXCEPT ![t] = o.number]
  /\ End(e)
  /\ UnchangedRows
  /\ UNCHANGED <<copies, troubles>>

SaveDoubted(e) ==
  LET o == op[e] IN
  /\ o.kind = "verifying"
  /\ troubles < MaxTroubles
  /\ troubles' = troubles + 1
  /\ copies' = [copies EXCEPT ![TabOf(e)] = @ \ {o.number}]
  /\ End(e)
  /\ UnchangedRows /\ UNCHANGED <<active, store>>

-----------------------------------------------------------------------------
(* Status and deletion                                                     *)

StatusRead(e, q, status) ==
  /\ Free(e) /\ Exists(q)
  /\ Begin(e, "restatus", "plain", q, EmptyList, [Key(db[q]) EXCEPT !.status = status])
  /\ UnchangedRows /\ UNCHANGED local

(* When the version no longer matches nothing is written: the list page    *)
(* reports a conflict, the quote page a success.                           *)
StatusWrite(e) ==
  LET o == op[e]
      matches == /\ db[o.number].id = o.row.id
                 /\ db[o.number].version = o.row.version
  IN
  /\ o.kind = "restatus"
  /\ IF matches
     THEN Write(o.number, [db[o.number] EXCEPT !.version = @ + 1,
                                               !.status = o.row.status])
     ELSE UNCHANGED <<db, lastId, used>>
  /\ End(e)
  /\ UNCHANGED <<local, disturbed>>

(* The deleted quote leaves the list at once; it stays in the calculator   *)
(* that has it open, of this tab or another.                               *)
Delete(e, q) ==
  /\ Free(e) /\ store[TabOf(e)][q] # 0
  /\ db' = [db EXCEPT ![q] = NoRow]
  /\ store' = [store EXCEPT ![TabOf(e)][q] = 0]
  /\ UNCHANGED <<lastId, used, disturbed, calculator, ops>>

-----------------------------------------------------------------------------
(* Copies and revisions                                                    *)

(* duplicate_quote_atomic.                                                 *)
Duplicate(e, q) ==
  /\ Free(e) /\ Exists(q)
  /\ \E f \in Families \ used :
       Insert(<<f, 0>>, [db[q] EXCEPT !.id = lastId + 1, !.version = 1,
                                      !.status = "draft"])
  /\ disturbed' = IF db[q].items = {db[q].header} THEN disturbed
                  ELSE disturbed \cup {lastId + 1}
  /\ UNCHANGED <<local, ops>>

(* reviseQuote reads the quote, then the versions of its family, inserts   *)
(* the revision, then its items, then its totals: five requests.           *)
ReviseRead(e, q) ==
  /\ Free(e) /\ Exists(q)
  /\ Begin(e, "original", "plain", q, EmptyList, [db[q] EXCEPT !.status = "draft"])
  /\ UnchangedRows /\ UNCHANGED local

Siblings(q) == {n \in Numbers : Family(n) = Family(q) /\ Exists(n)}

IsNextVersion(v, o) ==
  LET taken == {o.row.version} \cup {db[n].version : n \in Siblings(o.number)}
  IN v - 1 \in taken /\ \A u \in taken : u < v

ReviseNumber(e) ==
  LET o == op[e] IN
  /\ o.kind = "original"
  /\ \E v \in Versions :
       /\ IsNextVersion(v, o)
       /\ Begin(e, "numbered", o.mode, <<Family(o.number), v>>, EmptyList,
                [o.row EXCEPT !.version = v])
  /\ UnchangedRows /\ UNCHANGED local

(* The unique index on quote_number refuses a number another reviser took. *)
ReviseInsert(e) ==
  LET o == op[e]
      row == [id |-> lastId + 1, version |-> o.row.version, status |-> "draft",
              header |-> o.row.version, items |-> {}]
  IN
  /\ o.kind = "numbered"
  /\ IF Exists(o.number)
     THEN End(e) /\ UNCHANGED <<db, lastId, used>>
     ELSE /\ Insert(o.number, row)
          /\ Begin(e, "inserted", IF o.row.items = {} THEN "empty" ELSE o.mode,
                   o.number, EmptyList, row)
  /\ UNCHANGED <<local, disturbed>>

(* The items go to the new row by its id; without that row they are        *)
(* refused.  A quote without items has none to copy.                       *)
ReviseItems(e) ==
  LET o == op[e]
      there == db[o.number].id = o.row.id
  IN
  /\ o.kind = "inserted"
  /\ IF there \/ o.mode = "empty"
     THEN Begin(e, "itemised", o.mode, o.number, EmptyList, o.row) ELSE End(e)
  /\ db' = IF there /\ o.mode # "empty"
           THEN [db EXCEPT ![o.number].items = @ \cup {o.row.header}] ELSE db
  /\ UNCHANGED <<lastId, used, local, disturbed>>

(* The totals are written by id whatever the version is by now.            *)
ReviseTotals(e) ==
  LET o == op[e] IN
  /\ o.kind = "itemised"
  /\ IF db[o.number].id = o.row.id
     THEN Write(o.number, [db[o.number] EXCEPT !.version = @ + 1,
                                               !.header = o.row.header])
     ELSE UNCHANGED <<db, lastId, used>>
  /\ disturbed' = IF o.mode = "empty" THEN disturbed \cup {o.row.id}
                  ELSE disturbed
  /\ End(e)
  /\ UNCHANGED local

-----------------------------------------------------------------------------
(* The tab                                                                 *)

(* The tab is closed, or reloaded, whatever its pages were doing.          *)
Restart(t) ==
  /\ active' = [active EXCEPT ![t] = NoNumber]
  /\ store' = [store EXCEPT ![t] = EmptyList]
  /\ copies' = [copies EXCEPT ![t] = {}]
  /\ disturbed' = disturbed \cup
       {op[e].row.id : e \in {d \in t : op[d].kind \in {"inserted", "itemised"}}}
  /\ op' = [e \in Editors |-> IF e \in t THEN NoOp ELSE op[e]]
  /\ left' = left \ t
  /\ UNCHANGED <<db, lastId, used, troubles>>

-----------------------------------------------------------------------------
Init ==
  /\ db = [q \in Numbers |-> NoRow]
  /\ lastId = 0
  /\ used = {}
  /\ active = [t \in Tabs |-> NoNumber]
  /\ store = [t \in Tabs |-> EmptyList]
  /\ op = [e \in Editors |-> NoOp]
  /\ left = {}
  /\ copies = [t \in Tabs |-> {}]
  /\ troubles = 0
  /\ disturbed = {}

Work(e) ==
  \/ \E q \in Numbers : Open(e, q)
  \/ SaveStart(e) \/ SaveSelect(e) \/ Persist(e) \/ PersistRefused(e)
  \/ SaveDone(e) \/ SaveDoubted(e)

Dialog(e) == SaveForced(e) \/ Reload(e) \/ Cancel(e)

Manage(e) ==
  \/ \E q \in Numbers, status \in Chosen : StatusRead(e, q, status)
  \/ StatusWrite(e)
  \/ \E q \in Numbers : Delete(e, q) \/ Duplicate(e, q)

Revise(e) ==
  \/ \E q \in Numbers : ReviseRead(e, q)
  \/ ReviseNumber(e) \/ ReviseInsert(e) \/ ReviseItems(e) \/ ReviseTotals(e)

Next ==
  \/ \E t \in Tabs : Refetch(t) \/ RestoreDraft(t) \/ Restart(t)
  \/ \E e \in Editors : Leave(e)
  \/ \E e \in Savers : Work(e) \/ Dialog(e)
  \/ \E e \in Managers : Manage(e)
  \/ \E e \in Revisers : Revise(e)

Spec == Init /\ [][Next]_vars

-----------------------------------------------------------------------------
RowsOK ==
  /\ db \in [Numbers -> Row \cup {NoRow}]
  /\ lastId \in 0 .. MaxRows
  /\ used \subseteq Families
  /\ disturbed \subseteq 1 .. MaxRows

CalculatorsOK ==
  /\ active \in [Tabs -> Numbers \cup {NoNumber}]
  /\ store \in [Tabs -> Lists]
  /\ copies \in [Tabs -> SUBSET Numbers]
  /\ troubles \in 0 .. MaxTroubles

OpsOK ==
  /\ op \in [Editors -> Operations]
  /\ left \subseteq Editors

(* Types of the rows, the lists and what the pages are doing.              *)
TypeOK == RowsOK /\ CalculatorsOK /\ OpsOK

(* The header and the line items of a quote were written together: figures *)
(* of one save never stand over the items of another, except in a revision *)
(* still being made, one whose making stopped or met a save, or a copy.    *)
(* persist_quote_atomic writes them in one transaction; reviseQuote does   *)
(* not.                                                                    *)
WholeUnlessRevised ==
  \A q \in Numbers :
    Exists(q) /\ db[q].items # {db[q].header} =>
      db[q].id \in disturbed \/ Revising(db[q].id)

(* The contents in a calculator, as they were loaded or put back last,     *)
(* become a second quote by saving them again only if the outcome of an    *)
(* earlier save was not told (a reply lost, a count that failed) or its    *)
(* page was left before it was: however saves that were left end beside    *)
(* later ones, lists are refetched, drafts arrive and other quotes opened. *)
OneQuotePerContents ==
  \A t \in Tabs : Cardinality(copies[t]) <= 1

(* Optimistic locking keeps its promise, of the versions that the lists of *)
(* the browsers hold.                                                      *)
Given(t) ==
  {g \in Numbers \X Versions :
     \/ store[t][g[1]] = g[2]
     \/ \E e \in t :
          \/ op[e].list[g[1]] = g[2]
          \/ /\ op[e].kind = "verifying"
             /\ g = <<op[e].number, op[e].row.version>>}

Rows ==
  [q \in Numbers |-> [version |-> db[q].version, status |-> db[q].status,
                      contents |-> db[q].header]]

GivenTo == [t \in Tabs |-> Given(t)]

Overwriting ==
  {e \in Editors : /\ op[e].kind \in {"captured", "selected"}
                   /\ op[e].mode = "forced"}

Promise == INSTANCE VersionedQuotes
           WITH rows <- Rows, given <- GivenTo, insisting <- Overwriting

KeepsPromise == Promise!Spec
=============================================================================
