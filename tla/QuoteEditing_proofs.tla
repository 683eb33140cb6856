------------------------ MODULE QuoteEditing_proofs ------------------------
(***************************************************************************)
(* Proofs about QuoteEditing, for any tabs, pages, numbers and bounds:     *)
(* its types, the two invariants that the runs check, and that it does     *)
(* what VersionedQuotes promises.                                          *)
(***************************************************************************)
EXTENDS QuoteEditing, FiniteSetTheorems, TLAPS

Saving == {"captured", "selected", "verifying", "conflict"}
Making == {"inserted", "itemised"}
WithNumber == {"selected", "verifying", "restatus", "original", "numbered"}
                \cup Making

(* What is known of an operation by how far it has got.                    *)
OpInProgress(o, last) ==
  /\ o.kind \in Saving => o.mode # "empty"
  /\ o.kind \in WithNumber => o.number \in Numbers
  /\ \/ o.kind \in {"verifying", "restatus"} \cup Making
     \/ o.kind = "selected" /\ ~Inserts(o)
     => o.row.id \in 1 .. last /\ o.row.status \in Statuses
  /\ o.kind = "verifying" => o.row.version \in Versions
  /\ o.kind = "original" => o.row \in Row
  /\ o.kind \in {"numbered"} \cup Making => o.number \in Revisions
  /\ o.kind = "numbered" => o.row.version \in Versions
  /\ o.kind \in Making => o.row.header \in Versions

OpsInProgress == \A e \in Editors : OpInProgress(op[e], lastId)

(* Identities are given out in order, and numbers only of used families.   *)
RowIds ==
  \A q \in Numbers : db[q].id <= lastId /\ (Exists(q) => Family(q) \in used)

Typing ==
  /\ RowsOK /\ CalculatorsOK /\ op \in [Editors -> Operations]
  /\ OpsInProgress /\ RowIds

LEMMA Bounds ==
  /\ Savers \subseteq Editors /\ Managers \subseteq Editors
  /\ Revisers \subseteq Editors /\ Chosen \subseteq Statuses
  /\ MaxVersion \in Nat \ {0} /\ MaxRows \in Nat /\ MaxTroubles \in Nat
BY QuoteConstants

USE Bounds

LEMMA TabTyping ==
  /\ \A t \in Tabs : \A e \in t : e \in Editors /\ TabOf(e) = t
  /\ \A e \in Editors : TabOf(e) \in Tabs /\ e \in TabOf(e)
<1>1. ASSUME NEW e \in Editors
      PROVE  TabOf(e) \in Tabs /\ e \in TabOf(e)
  <2>1. \E t \in Tabs : e \in t
    BY DEF Editors
  <2> QED
    BY <2>1 DEF TabOf
<1>2. ASSUME NEW t \in Tabs, NEW e \in t
      PROVE  e \in Editors /\ TabOf(e) = t
  <2>1. e \in Editors
    BY DEF Editors
  <2>2. TabOf(e) \in Tabs /\ e \in TabOf(e) \cap t
    BY <1>1, <2>1
  <2> QED
    BY <2>1, <2>2, QuoteConstants
<1> QED
  BY <1>1, <1>2

LEMMA ConstantTyping ==
  /\ 1 \in Versions /\ Versions \subseteq Nat \ {0}
  /\ Revisions \subseteq Numbers
  /\ NoRow \in KeyRow /\ NoRow \notin Row /\ Row \subseteq KeyRow
  /\ EmptyList \in Lists
BY DEF Versions, Revisions, Numbers, NoRow, Row, KeyRow, EmptyList, Lists

LEMMA NumberParts ==
  /\ \A q \in Numbers : Family(q) \in Families
  /\ \A f \in Families : <<f, 0>> \in Numbers
  /\ \A q \in Numbers : q # NoNumber
BY DEF Numbers, Family, NoNumber

LEMMA RowFields ==
  ASSUME NEW row \in Row
  PROVE  /\ row.id \in 1 .. MaxRows /\ row.version \in Versions
         /\ row.status \in Statuses /\ row.header \in Versions
         /\ row.items \subseteq Versions /\ row # NoRow
BY DEF Row, NoRow

LEMMA NoRowFields ==
  /\ NoRow.id = 0 /\ NoRow.version = 0 /\ NoRow.header = 0
  /\ NoRow.status = "none" /\ NoRow.items = {}
BY DEF NoRow

LEMMA KeyRowFields ==
  ASSUME NEW row \in KeyRow
  PROVE  /\ row.id \in 0 .. MaxRows /\ row.version \in 0 .. MaxVersion
         /\ row.status \in Statuses \cup {"none"}
         /\ row.header \in 0 .. MaxVersion /\ row.items \subseteq Versions
BY DEF KeyRow

LEMMA KeyTyping ==
  ASSUME NEW row \in KeyRow
  PROVE  /\ Key(row) \in KeyRow
         /\ Key(row).id = row.id /\ Key(row).version = row.version
         /\ Key(row).status = row.status
         /\ Key(row) = NoRow => row.id = 0
BY DEF Key, KeyRow, NoRow

LEMMA RowTyping ==
  ASSUME NEW id \in 1 .. MaxRows, NEW version \in Versions,
         NEW status \in Statuses, NEW header \in Versions,
         NEW items \in SUBSET Versions
  PROVE  [id |-> id, version |-> version, status |-> status,
          header |-> header, items |-> items] \in Row
BY DEF Row

LEMMA OperationFields ==
  ASSUME NEW o \in Operations
  PROVE  /\ o.kind \in OpKinds /\ o.mode \in {"plain", "forced", "empty"}
         /\ o.number \in Numbers \cup {NoNumber}
         /\ o.list \in Lists /\ o.row \in KeyRow
BY DEF Operations

LEMMA OperationTyping ==
  ASSUME NEW kind \in OpKinds, NEW mode \in {"plain", "forced", "empty"},
         NEW q \in Numbers \cup {NoNumber}, NEW list \in Lists,
         NEW row \in KeyRow
  PROVE  [kind |-> kind, mode |-> mode, number |-> q,
          list |-> list, row |-> row] \in Operations
BY DEF Operations

LEMMA Idling ==
  /\ NoOp \in Operations /\ \A last : OpInProgress(NoOp, last)
  /\ NoOp.kind = "idle" /\ NoOp.list = EmptyList
<1>1. /\ "idle" \in OpKinds /\ EmptyList \in Lists /\ NoRow \in KeyRow
  BY ConstantTyping DEF OpKinds
<1> QED
  BY <1>1, OperationTyping DEF NoOp, OpInProgress, Saving, Making, WithNumber

LEMMA ListTyping ==
  ASSUME RowsOK
  PROVE  /\ CurrentList \in Lists
         /\ \A q \in Numbers : db[q] \in KeyRow
         /\ \A q \in Numbers : Exists(q) <=> db[q] \in Row
         /\ \A q \in Numbers : db[q].version \in 0 .. MaxVersion
         /\ \A q \in Numbers : Exists(q) <=> db[q].version # 0
         /\ \A q \in Numbers : Exists(q) <=> db[q].id # 0
<1>1. \A q \in Numbers : db[q] \in Row \/ db[q] = NoRow
  BY DEF RowsOK
<1>2. \A q \in Numbers : Exists(q) <=> db[q] \in Row
  BY <1>1, ConstantTyping DEF Exists
<1>3. \A q \in Numbers : db[q] \in Row =>
         db[q].version \in 1 .. MaxVersion /\ db[q].id # 0
  BY RowFields DEF Versions
<1>4. \A q \in Numbers : ~Exists(q) => db[q].version = 0 /\ db[q].id = 0
  BY NoRowFields DEF Exists
<1>5. \A q \in Numbers : db[q].version \in 0 .. MaxVersion
  BY <1>2, <1>3, <1>4
<1> QED
  BY <1>1, <1>2, <1>3, <1>4, <1>5, ConstantTyping DEF CurrentList, Lists

(* One operation is replaced, and no identity is taken back.               *)
LEMMA OpsKept ==
  ASSUME op \in [Editors -> Operations], OpsInProgress,
         NEW e \in Editors, NEW o \in Operations,
         op' = [op EXCEPT ![e] = o], OpInProgress(o, lastId'),
         lastId \in Nat, lastId' \in Nat, lastId <= lastId'
  PROVE  op' \in [Editors -> Operations] /\ OpsInProgress'
<1>1. ASSUME NEW x \in Editors PROVE OpInProgress(op'[x], lastId')
  <2>1. CASE x = e BY <2>1
  <2>2. CASE x # e
    <3>1. op'[x] = op[x] /\ OpInProgress(op[x], lastId)
      BY <2>2 DEF OpsInProgress
    <3> QED BY <3>1 DEF OpInProgress
  <2> QED BY <2>1, <2>2
<1> QED
  BY <1>1 DEF OpsInProgress

LEMMA RowsUnchanged ==
  ASSUME RowsOK, RowIds, UnchangedRows
  PROVE  /\ RowsOK' /\ RowIds' /\ lastId' = lastId
         /\ lastId \in Nat /\ lastId' \in Nat /\ lastId <= lastId'
BY DEF RowsOK, RowIds, UnchangedRows, Exists

USE DEF Typing

LEMMA RefetchTyping ==
  ASSUME Typing, NEW t \in Tabs, Refetch(t)
  PROVE  Typing'
<1>1. RowsOK' /\ RowIds'
  BY RowsUnchanged DEF Refetch
<1>2. CalculatorsOK'
  BY ListTyping DEF Refetch, CalculatorsOK, calculator
<1>3. op' \in [Editors -> Operations] /\ OpsInProgress'
  BY DEF Refetch, OpsInProgress, OpInProgress, UnchangedRows, ops
<1> QED
  BY <1>1, <1>2, <1>3

LEMMA RestoreDraftTyping ==
  ASSUME Typing, NEW t \in Tabs, RestoreDraft(t)
  PROVE  Typing'
<1>1. RowsOK' /\ RowIds'
  BY RowsUnchanged DEF RestoreDraft
<1>2. CalculatorsOK'
  BY DEF RestoreDraft, CalculatorsOK
<1>3. op' \in [Editors -> Operations] /\ OpsInProgress'
  BY DEF RestoreDraft, OpsInProgress, OpInProgress, UnchangedRows, ops
<1> QED
  BY <1>1, <1>2, <1>3

LEMMA LeaveTyping ==
  ASSUME Typing, NEW e \in Editors, Leave(e)
  PROVE  Typing'
<1>1. RowsOK' /\ RowIds'
  BY RowsUnchanged DEF Leave
<1>2. CalculatorsOK'
  BY TabTyping DEF Leave, CalculatorsOK
<1>3. op' \in [Editors -> Operations] /\ OpsInProgress'
  BY DEF Leave, OpsInProgress, OpInProgress, UnchangedRows
<1> QED
  BY <1>1, <1>2, <1>3

LEMMA RestartTyping ==
  ASSUME Typing, NEW t \in Tabs, Restart(t)
  PROVE  Typing'
<1>1. RowsOK' /\ RowIds'
  <2>1. \A e \in t : op[e].kind \in Making => op[e].row.id \in 1 .. MaxRows
    BY TabTyping DEF OpsInProgress, OpInProgress, RowsOK
  <2>2. disturbed' \subseteq 1 .. MaxRows
    BY <2>1 DEF Restart, RowsOK, Making
  <2> QED
    BY <2>2 DEF Restart, RowsOK, RowIds, Exists
<1>2. CalculatorsOK'
  BY ConstantTyping DEF Restart, CalculatorsOK
<1>3. op' \in [Editors -> Operations] /\ OpsInProgress'
  <2>1. \A e \in Editors : op'[e] \in {NoOp, op[e]} /\ lastId' = lastId
    BY DEF Restart
  <2>2. op' \in [Editors -> Operations]
    BY Idling DEF Restart
  <2> QED
    BY <2>1, <2>2, Idling DEF OpsInProgress
<1> QED
  BY <1>1, <1>2, <1>3

LEMMA LoadTyping ==
  ASSUME Typing, NEW e \in Editors, NEW q \in Numbers, NEW clone \in BOOLEAN,
         Load(TabOf(e), q, clone), UNCHANGED op \/ End(e)
  PROVE  Typing'
<1>1. /\ RowsOK' /\ RowIds' /\ lastId' = lastId
      /\ lastId \in Nat /\ lastId' \in Nat /\ lastId <= lastId'
  BY RowsUnchanged DEF Load
<1>2. CalculatorsOK'
  BY ListTyping, TabTyping DEF Load, CalculatorsOK
<1>3. op' \in [Editors -> Operations] /\ OpsInProgress'
  <2>1. CASE UNCHANGED op
    BY <1>1, <2>1 DEF OpsInProgress
  <2> QED
    BY <1>1, <2>1, Idling, OpsKept DEF End
<1> QED
  BY <1>1, <1>2, <1>3

(* A step that only replaces an operation.                                 *)
LEMMA OperationTypingStep ==
  ASSUME Typing, NEW e \in Editors, NEW o \in Operations,
         op' = [op EXCEPT ![e] = o],
         OpInProgress(o, lastId),
         UnchangedRows, UNCHANGED local
  PROVE  Typing'
<1>1. /\ RowsOK' /\ RowIds' /\ lastId' = lastId
      /\ lastId \in Nat /\ lastId' \in Nat /\ lastId <= lastId'
  BY RowsUnchanged
<1>2. CalculatorsOK'
  BY DEF CalculatorsOK, local, calculator
<1>3. op' \in [Editors -> Operations] /\ OpsInProgress'
  <2>1. OpInProgress(o, lastId')
    BY <1>1 DEF OpInProgress
  <2> QED
    BY <1>1, <2>1, OpsKept
<1> QED
  BY <1>1, <1>2, <1>3

LEMMA CaptureTyping ==
  ASSUME Typing, NEW e \in Editors, NEW mode \in {"plain", "forced"},
         Capture(e, mode),
         UnchangedRows, UNCHANGED local
  PROVE  Typing'
<1> DEFINE o == [kind |-> "captured", mode |-> mode, number |-> active[TabOf(e)],
                 list |-> store[TabOf(e)], row |-> NoRow]
<1>1. o \in Operations
  BY OperationTyping, ConstantTyping, TabTyping DEF CalculatorsOK, OpKinds
<1>2. OpInProgress(o, lastId)
  BY DEF OpInProgress, Saving, Making, WithNumber
<1> QED
  BY <1>1, <1>2, OperationTypingStep DEF Capture, Begin

LEMMA CancelTyping ==
  ASSUME Typing, NEW e \in Editors, Cancel(e)
  PROVE  Typing'
BY Idling, OperationTypingStep DEF Cancel, End

LEMMA SaveSelectTyping ==
  ASSUME Typing, NEW e \in Editors, SaveSelect(e)
  PROVE  Typing'
<1> DEFINE o == op[e]
           Next1(kind, q, row) ==
             [kind |-> kind, mode |-> o.mode, number |-> q, list |-> o.list,
              row |-> row]
<1>1. /\ o \in Operations /\ OpInProgress(o, lastId) /\ o.kind = "captured"
      /\ o.mode \in {"plain", "forced"}
  BY OperationFields DEF OpsInProgress, SaveSelect, OpInProgress, Saving
<1>2. ASSUME NEW row \in Found(o.number), row # NoRow
      PROVE  /\ o.number \in Numbers /\ row = db[o.number]
             /\ row \in Row /\ Key(row) \in KeyRow
             /\ Key(row).id \in 1 .. lastId /\ Key(row).status \in Statuses
  <2>1. o.number \in Numbers /\ row = db[o.number]
    BY <1>1, <1>2, OperationFields DEF Found
  <2>2. row \in Row
    BY <1>2, <2>1, ListTyping DEF Exists
  <2>3. row.id \in 1 .. MaxRows /\ row.id <= lastId /\ row.status \in Statuses
    BY <2>1, <2>2, RowFields DEF RowIds
  <2> QED
    BY <2>1, <2>2, <2>3, KeyTyping, ConstantTyping DEF RowsOK
<1>3. ASSUME NEW kind \in {"conflict", "selected"}, NEW q \in Numbers,
             NEW row \in KeyRow,
             row # NoRow => row.id \in 1 .. lastId /\ row.status \in Statuses,
             Begin(e, kind, o.mode, q, o.list, row)
      PROVE  Typing'
  <2>1. Next1(kind, q, row) \in Operations
    BY <1>1, OperationTyping, OperationFields DEF OpKinds
  <2>2. OpInProgress(Next1(kind, q, row), lastId)
    BY <1>1, <1>3 DEF OpInProgress, Saving, Making, WithNumber, Inserts
  <2>3. op' = [op EXCEPT ![e] = Next1(kind, q, row)]
    BY <1>3 DEF Begin
  <2> HIDE DEF Next1
  <2> QED
    BY <1>1, <2>1, <2>2, <2>3, OperationTypingStep DEF SaveSelect
<1>4. PICK row \in Found(o.number) :
        \/ /\ row # NoRow
           /\ \/ End(e)
              \/ Begin(e, "conflict", o.mode, o.number, o.list, NoRow)
              \/ Begin(e, "selected", o.mode, o.number, o.list, Key(row))
        \/ /\ o.number # NoNumber
           /\ Begin(e, "selected", o.mode, o.number, o.list, NoRow)
        \/ \E f \in Families \ used :
             Begin(e, "selected", o.mode, <<f, 0>>, o.list, NoRow)
  BY DEF SaveSelect, Conflict
<1>9. CASE End(e)
  BY <1>9, Idling, OperationTypingStep DEF SaveSelect, End
<1>5. CASE row # NoRow /\ Begin(e, "conflict", o.mode, o.number, o.list, NoRow)
  BY <1>2, <1>3, <1>5, ConstantTyping
<1>6. CASE row # NoRow /\ Begin(e, "selected", o.mode, o.number, o.list, Key(row))
  BY <1>2, <1>3, <1>6
<1>7. CASE /\ o.number # NoNumber
           /\ Begin(e, "selected", o.mode, o.number, o.list, NoRow)
  <2>1. o.number \in Numbers
    BY <1>1, <1>7, OperationFields
  <2> QED
    BY <2>1, <1>3, <1>7, ConstantTyping
<1>8. CASE \E f \in Families \ used :
             Begin(e, "selected", o.mode, <<f, 0>>, o.list, NoRow)
  BY <1>3, <1>8, ConstantTyping, NumberParts
<1> QED
  BY <1>4, <1>5, <1>6, <1>7, <1>8, <1>9

LEMMA PersistRefusedTyping ==
  ASSUME Typing, NEW e \in Editors, PersistRefused(e)
  PROVE  Typing'
<1> DEFINE o == op[e]
           c == [kind |-> "conflict", mode |-> o.mode, number |-> o.number,
                 list |-> o.list, row |-> NoRow]
<1>1. o \in Operations /\ OpInProgress(o, lastId) /\ o.kind = "selected"
  BY DEF OpsInProgress, PersistRefused
<1>2. c \in Operations /\ OpInProgress(c, lastId)
  BY <1>1, OperationTyping, OperationFields, ConstantTyping
  DEF OpKinds, OpInProgress, Saving, Making, WithNumber
<1>3. CASE op' = [op EXCEPT ![e] = NoOp]
  BY <1>1, <1>3, Idling, OperationTypingStep DEF PersistRefused
<1>4. CASE op' = [op EXCEPT ![e] = c]
  <2> HIDE DEF c
  <2> QED
    BY <1>1, <1>2, <1>4, OperationTypingStep DEF PersistRefused
<1> QED
  BY <1>3, <1>4 DEF PersistRefused, Conflict, Begin, End

(* The row a save inserts or updates, and what it takes to be written.     *)
LEMMA SavedRowTyping ==
  ASSUME Typing, NEW e \in Editors, op[e].kind = "selected", Accepts(op[e]),
         NEW saved,
         saved = IF Inserts(op[e]) THEN SavedRow(op[e], lastId + 1, 1)
                 ELSE SavedRow(op[e], op[e].row.id,
                               db[op[e].number].version + 1),
         IF Inserts(op[e]) THEN lastId < MaxRows ELSE saved.version <= MaxVersion
  PROVE  /\ op[e].number \in Numbers /\ saved \in Row
         /\ saved.items = {saved.header}
         /\ Inserts(op[e]) =>
              /\ ~Exists(op[e].number)
              /\ saved.id = lastId + 1 /\ saved.version = 1
              /\ saved.header = 1 /\ saved.status = "draft"
         /\ ~Inserts(op[e]) =>
              /\ Exists(op[e].number) /\ VersionMatches(op[e])
              /\ saved.id = op[e].row.id /\ saved.id = db[op[e].number].id
              /\ saved.id <= lastId
              /\ saved.version = db[op[e].number].version + 1
              /\ saved.header = saved.version
              /\ saved.status = op[e].row.status
<1> DEFINE o == op[e]
<1>1. /\ o \in Operations /\ OpInProgress(o, lastId) /\ o.number \in Numbers
      /\ o.mode \in {"plain", "forced"}
  BY OperationFields DEF OpsInProgress, OpInProgress, WithNumber, Saving
<1>2. lastId \in 0 .. MaxRows
  BY DEF RowsOK
<1>3. CASE Inserts(o)
  <2>1. saved = [id |-> lastId + 1, version |-> 1, status |-> "draft",
                 header |-> 1, items |-> {1}]
    BY <1>3 DEF SavedRow, Inserts
  <2>2. saved \in Row
    BY <1>2, <1>3, <2>1, RowTyping, ConstantTyping DEF Statuses
  <2> QED
    BY <1>1, <1>3, <2>1, <2>2 DEF Accepts
<1>4. CASE ~Inserts(o)
  <2>1. /\ o.row.id \in 1 .. lastId /\ o.row.status \in Statuses
        /\ o.row.id = db[o.number].id /\ VersionMatches(o)
    BY <1>1, <1>4 DEF OpInProgress, Accepts, MayUpdate
  <2>2. Exists(o.number) /\ db[o.number].version \in Versions
    BY <1>1, <2>1, ListTyping, RowFields DEF RowsOK
  <2> DEFINE v == db[o.number].version + 1
  <2>3. saved = [id |-> o.row.id, version |-> v, status |-> o.row.status,
                 header |-> v, items |-> {v}]
    BY <1>4 DEF SavedRow, Inserts
  <2>4. v \in Versions
    <3>1. v <= MaxVersion
      BY <1>4, <2>3
    <3> QED
      BY <3>1, <2>2 DEF Versions
  <2>5. o.row.id \in 1 .. MaxRows
    BY <1>2, <2>1
  <2>6. saved \in Row
    BY <2>1, <2>3, <2>4, <2>5, RowTyping
  <2>7. saved.id <= lastId
    BY <1>2, <2>1, <2>3
  <2> QED
    BY <1>1, <1>4, <2>1, <2>2, <2>3, <2>6, <2>7
<1> QED
  BY <1>3, <1>4

LEMMA InsertTyping ==
  ASSUME RowsOK, RowIds, NEW q \in Numbers, NEW row \in Row,
         row.id = lastId + 1, Insert(q, row), disturbed' \subseteq 1 .. MaxRows
  PROVE  /\ RowsOK' /\ RowIds'
         /\ lastId \in Nat /\ lastId' \in Nat /\ lastId <= lastId'
         /\ db'[q] = row /\ \A p \in Numbers \ {q} : db'[p] = db[p]
<1>1. /\ lastId \in Nat /\ lastId' \in 0 .. MaxRows /\ lastId <= lastId'
      /\ lastId' = lastId + 1
  BY DEF RowsOK, Insert
<1>2. RowsOK'
  BY <1>1, NumberParts DEF RowsOK, Insert
<1>3. db'[q] = row /\ \A p \in Numbers \ {q} : db'[p] = db[p]
  BY DEF RowsOK, Insert
<1>4. used' = used \cup {Family(q)}
  BY DEF Insert
<1>5. ASSUME NEW p \in Numbers
      PROVE  db[p].id \in Nat
  BY ListTyping, KeyRowFields
<1>6. ASSUME NEW p \in Numbers
      PROVE  db'[p].id <= lastId' /\ (Exists(p)' => Family(p) \in used')
  <2>1. CASE p = q
    BY <1>1, <1>3, <1>4, <2>1
  <2>2. CASE p # q
    BY <1>1, <1>3, <1>4, <1>5, <2>2 DEF RowIds, Exists
  <2> QED
    BY <2>1, <2>2
<1> QED
  BY <1>1, <1>2, <1>3, <1>6 DEF RowIds

LEMMA WriteTyping ==
  ASSUME RowsOK, RowIds, NEW q \in Numbers, Exists(q),
         NEW row \in Row, row.id <= lastId,
         Write(q, row), disturbed' \subseteq 1 .. MaxRows
  PROVE  /\ RowsOK' /\ RowIds' /\ lastId' = lastId
         /\ lastId \in Nat /\ lastId' \in Nat /\ lastId <= lastId'
         /\ db'[q] = row /\ \A p \in Numbers \ {q} : db'[p] = db[p]
<1>1. lastId \in Nat /\ lastId' = lastId
  BY DEF RowsOK, Write
<1>2. RowsOK'
  BY DEF RowsOK, Write
<1>3. db'[q] = row /\ \A p \in Numbers \ {q} : db'[p] = db[p]
  BY DEF RowsOK, Write
<1>4. RowIds'
  BY <1>3 DEF RowIds, Exists, Write
<1> QED
  BY <1>1, <1>2, <1>3, <1>4

LEMMA PersistTyping ==
  ASSUME Typing, NEW e \in Editors, Persist(e)
  PROVE  Typing'
<1> DEFINE o == op[e]
<1>1. PICK saved :
        saved = IF Inserts(o) THEN SavedRow(o, lastId + 1, 1)
                ELSE SavedRow(o, o.row.id, db[o.number].version + 1)
  OBVIOUS
<1>2. /\ o.kind = "selected" /\ Accepts(o)
      /\ IF Inserts(o) THEN Insert(o.number, saved) ELSE Write(o.number, saved)
      /\ disturbed' = IF Revising(saved.id) THEN disturbed \cup {saved.id}
                      ELSE disturbed
      /\ \/ /\ Begin(e, "verifying", o.mode, o.number, o.list, saved)
            /\ copies' = IF IsNew(o) /\ e \notin left
                         THEN [copies EXCEPT ![TabOf(e)] =
                                 copies[TabOf(e)] \cup {o.number}]
                         ELSE copies
            /\ UNCHANGED troubles
         \/ /\ troubles < MaxTroubles
            /\ troubles' = troubles + 1
            /\ End(e)
            /\ UNCHANGED copies
      /\ UNCHANGED <<active, store>>
  BY <1>1 DEF Persist
<1>3. /\ o.number \in Numbers /\ saved \in Row
      /\ IF Inserts(o) THEN saved.id = lastId + 1
         ELSE saved.id <= lastId /\ Exists(o.number)
  <2>1. IF Inserts(o) THEN lastId < MaxRows ELSE saved.version <= MaxVersion
    BY <1>2 DEF Insert, Write
  <2> QED
    BY <1>1, <1>2, <2>1, SavedRowTyping
<1>4. disturbed' \subseteq 1 .. MaxRows
  BY <1>2, <1>3, RowFields DEF RowsOK
<1>5. /\ RowsOK' /\ RowIds' /\ lastId \in Nat /\ lastId' \in Nat
      /\ lastId <= lastId' /\ saved.id \in 1 .. lastId'
  <2>1. saved.id \in 1 .. MaxRows
    BY <1>3, RowFields
  <2>2. CASE Inserts(o)
    <3>1. /\ RowsOK' /\ RowIds' /\ lastId \in Nat /\ lastId' \in Nat
          /\ lastId <= lastId'
      BY <1>2, <1>3, <1>4, <2>2, InsertTyping
    <3> QED
      BY <1>2, <1>3, <2>1, <2>2, <3>1 DEF Insert
  <2>3. CASE ~Inserts(o)
    <3>1. /\ RowsOK' /\ RowIds' /\ lastId \in Nat /\ lastId' \in Nat
          /\ lastId <= lastId' /\ lastId' = lastId
      BY <1>2, <1>3, <1>4, <2>3, WriteTyping
    <3> QED
      BY <1>3, <2>1, <2>3, <3>1
  <2> QED
    BY <2>2, <2>3
<1>6. CalculatorsOK'
  BY <1>2, <1>3, TabTyping DEF CalculatorsOK
<1>7. op' \in [Editors -> Operations] /\ OpsInProgress'
  <2> DEFINE v == [kind |-> "verifying", mode |-> o.mode, number |-> o.number,
                   list |-> o.list, row |-> saved]
  <2>1. o \in Operations /\ OpInProgress(o, lastId)
    BY DEF OpsInProgress
  <2>2. v \in Operations
    BY <1>3, <2>1, OperationTyping, OperationFields, ConstantTyping DEF OpKinds
  <2>3. OpInProgress(v, lastId')
    BY <1>2, <1>3, <1>5, <2>1, RowFields
    DEF OpInProgress, Saving, Making, WithNumber
  <2>4. op' = [op EXCEPT ![e] = v] \/ op' = [op EXCEPT ![e] = NoOp]
    BY <1>2 DEF Begin, End
  <2> HIDE DEF v
  <2> QED
    BY <1>5, <2>2, <2>3, <2>4, Idling, OpsKept
<1> QED
  BY <1>5, <1>6, <1>7

LEMMA SaveDoneTyping ==
  ASSUME Typing, NEW e \in Editors, SaveDone(e)
  PROVE  Typing'
<1> DEFINE o == op[e]
<1>1. /\ o \in Operations /\ o.kind = "verifying" /\ o.number \in Numbers
      /\ o.row.version \in Versions
  BY DEF SaveDone, OpsInProgress, OpInProgress, WithNumber
<1>2. /\ RowsOK' /\ RowIds' /\ lastId \in Nat /\ lastId' \in Nat
      /\ lastId <= lastId'
  BY RowsUnchanged DEF SaveDone
<1>3. [o.list EXCEPT ![o.number] = o.row.version] \in Lists
  BY <1>1, OperationFields DEF Lists, Versions
<1>4. CalculatorsOK'
  BY <1>1, <1>3, TabTyping DEF SaveDone, CalculatorsOK
<1>5. op' \in [Editors -> Operations] /\ OpsInProgress'
  BY <1>2, Idling, OpsKept DEF SaveDone, End
<1> QED
  BY <1>2, <1>4, <1>5

LEMMA SaveDoubtedTyping ==
  ASSUME Typing, NEW e \in Editors, SaveDoubted(e)
  PROVE  Typing'
<1>1. /\ RowsOK' /\ RowIds' /\ lastId \in Nat /\ lastId' \in Nat
      /\ lastId <= lastId'
  BY RowsUnchanged DEF SaveDoubted
<1>2. CalculatorsOK'
  BY TabTyping DEF SaveDoubted, CalculatorsOK
<1>3. op' \in [Editors -> Operations] /\ OpsInProgress'
  BY <1>1, Idling, OpsKept DEF SaveDoubted, End
<1> QED
  BY <1>1, <1>2, <1>3

LEMMA StatusReadTyping ==
  ASSUME Typing, NEW e \in Editors, NEW q \in Numbers, NEW status \in Chosen,
         StatusRead(e, q, status)
  PROVE  Typing'
<1> DEFINE row == [Key(db[q]) EXCEPT !.status = status]
           o == [kind |-> "restatus", mode |-> "plain", number |-> q,
                 list |-> EmptyList, row |-> row]
<1>1. db[q] \in Row /\ db[q].id \in 1 .. lastId
  BY ListTyping, RowFields DEF StatusRead, RowIds, RowsOK
<1>2. row = [id |-> db[q].id, version |-> db[q].version, status |-> status,
             header |-> 0, items |-> {}]
  BY DEF Key
<1>3. row \in KeyRow /\ row.id \in 1 .. lastId /\ row.status \in Statuses
  <2>1. status \in Statuses
    OBVIOUS
  <2> QED
    BY <1>1, <1>2, <2>1, RowFields DEF KeyRow, Versions
<1> HIDE DEF row
<1>4. o \in Operations /\ OpInProgress(o, lastId) /\ o.kind = "restatus"
  BY <1>3, OperationTyping, ConstantTyping
  DEF OpKinds, OpInProgress, Saving, Making, WithNumber
<1>5. op' = [op EXCEPT ![e] = o]
  BY DEF StatusRead, Begin, row
<1> HIDE DEF o
<1> QED
  BY <1>4, <1>5, OperationTypingStep DEF StatusRead

(* Only an operation ends.                                                 *)
LEMMA EndTyping ==
  ASSUME Typing, NEW e \in Editors, End(e),
         lastId \in Nat, lastId' \in Nat, lastId <= lastId', UNCHANGED local
  PROVE  /\ CalculatorsOK'
         /\ op' \in [Editors -> Operations] /\ OpsInProgress'
<1>1. CalculatorsOK'
  BY DEF CalculatorsOK, local, calculator
<1> QED
  BY <1>1, Idling, OpsKept DEF End

LEMMA StatusWriteTyping ==
  ASSUME Typing, NEW e \in Editors, StatusWrite(e)
  PROVE  Typing'
<1> DEFINE o == op[e]
           row == [db[o.number] EXCEPT !.version = db[o.number].version + 1,
                                       !.status = o.row.status]
<1>1. /\ o.kind = "restatus" /\ End(e) /\ UNCHANGED <<local, disturbed>>
      /\ \/ /\ db[o.number].id = o.row.id
            /\ Write(o.number, row)
         \/ UNCHANGED <<db, lastId, used>>
  BY DEF StatusWrite
<1>2. /\ o.number \in Numbers /\ o.row.id \in 1 .. lastId
      /\ o.row.status \in Statuses
  BY <1>1 DEF OpsInProgress, OpInProgress, WithNumber
<1>3. /\ RowsOK' /\ RowIds' /\ lastId \in Nat /\ lastId' \in Nat
      /\ lastId <= lastId'
  <2>1. CASE db[o.number].id = o.row.id /\ Write(o.number, row)
    <3>1. db[o.number] \in Row /\ Exists(o.number)
      BY <1>2, <2>1, ListTyping
    <3>2. row.version <= MaxVersion /\ row.version = db[o.number].version + 1
      BY <2>1, <3>1 DEF Write, Row
    <3>3. row \in Row
      <4>1. db[o.number].version + 1 \in Versions
        BY <3>1, <3>2, RowFields DEF Versions
      <4> QED
        BY <1>2, <3>1, <4>1 DEF Row
    <3>4. row.id <= lastId
      BY <1>2, <3>1 DEF Row, RowIds
    <3>5. disturbed' \subseteq 1 .. MaxRows
      BY <1>1 DEF RowsOK
    <3> HIDE DEF row
    <3> QED
      BY <1>2, <2>1, <3>1, <3>3, <3>4, <3>5, WriteTyping
  <2>2. CASE UNCHANGED <<db, lastId, used>>
    BY <1>1, <2>2, RowsUnchanged DEF UnchangedRows
  <2> QED
    BY <1>1, <2>1, <2>2
<1> QED
  BY <1>1, <1>3, EndTyping

LEMMA DeleteTyping ==
  ASSUME Typing, NEW e \in Editors, NEW q \in Numbers, Delete(e, q)
  PROVE  Typing'
<1>1. RowsOK'
  BY DEF Delete, RowsOK
<1>2. RowIds'
  BY NoRowFields DEF Delete, RowsOK, RowIds, Exists
<1>3. CalculatorsOK'
  <2> DEFINE t == TabOf(e)
  <2>1. t \in Tabs
    BY TabTyping
  <2> HIDE DEF t
  <2>2. [store[t] EXCEPT ![q] = 0] \in Lists
    BY <2>1 DEF CalculatorsOK, Lists
  <2>3. store' = [store EXCEPT ![t] = [store[t] EXCEPT ![q] = 0]]
    BY DEF Delete, t
  <2> QED
    BY <2>1, <2>2, <2>3 DEF Delete, CalculatorsOK, calculator
<1>4. op' \in [Editors -> Operations] /\ OpsInProgress'
  BY DEF Delete, OpsInProgress, OpInProgress, ops
<1> QED
  BY <1>1, <1>2, <1>3, <1>4

LEMMA DuplicateTyping ==
  ASSUME Typing, NEW e \in Editors, NEW q \in Numbers, Duplicate(e, q)
  PROVE  Typing'
<1> DEFINE row == [db[q] EXCEPT !.id = lastId + 1, !.version = 1,
                                !.status = "draft"]
<1>1. PICK f \in Families \ used : Insert(<<f, 0>>, row)
  BY DEF Duplicate
<1>2. db[q] \in Row /\ lastId + 1 \in 1 .. MaxRows
  BY <1>1, ListTyping DEF Duplicate, Insert, RowsOK
<1>3. row \in Row /\ row.id = lastId + 1
  BY <1>2, ConstantTyping DEF Row, Statuses
<1>4. disturbed' \subseteq 1 .. MaxRows
  BY <1>2 DEF Duplicate, RowsOK
<1> HIDE DEF row
<1>5. /\ RowsOK' /\ RowIds' /\ lastId \in Nat /\ lastId' \in Nat
      /\ lastId <= lastId'
  BY <1>1, <1>3, <1>4, InsertTyping, NumberParts
<1>6. CalculatorsOK'
  BY DEF Duplicate, CalculatorsOK, local, calculator
<1>7. op' \in [Editors -> Operations] /\ OpsInProgress'
  BY <1>5 DEF Duplicate, OpsInProgress, OpInProgress, ops
<1> QED
  BY <1>5, <1>6, <1>7

LEMMA ReviseReadTyping ==
  ASSUME Typing, NEW e \in Editors, NEW q \in Numbers, ReviseRead(e, q)
  PROVE  Typing'
<1> DEFINE row == [db[q] EXCEPT !.status = "draft"]
           o == [kind |-> "original", mode |-> "plain", number |-> q,
                 list |-> EmptyList, row |-> row]
<1>1. db[q] \in Row
  BY ListTyping DEF ReviseRead
<1>2. row \in Row
  BY <1>1 DEF Row, Statuses
<1> HIDE DEF row
<1>3. o \in Operations /\ OpInProgress(o, lastId) /\ o.kind = "original"
  BY <1>2, OperationTyping, ConstantTyping
  DEF OpKinds, OpInProgress, Saving, Making, WithNumber
<1>4. op' = [op EXCEPT ![e] = o]
  BY DEF ReviseRead, Begin, row
<1> HIDE DEF o
<1> QED
  BY <1>3, <1>4, OperationTypingStep DEF ReviseRead

(* The version a revision is given is 2 at least, and fits its number.     *)
LEMMA NextVersionTyping ==
  ASSUME RowsOK, NEW o, o.row \in Row, o.number \in Numbers,
         NEW v \in Versions, IsNextVersion(v, o)
  PROVE  <<Family(o.number), v>> \in Revisions
<1>1. \A n \in Siblings(o.number) : db[n].version \in 1 .. MaxVersion
  BY ListTyping, RowFields DEF Siblings, Versions
<1>2. o.row.version \in 1 .. MaxVersion
  BY RowFields DEF Versions
<1>3. v - 1 \in 1 .. MaxVersion
  BY <1>1, <1>2 DEF IsNextVersion
<1> QED
  BY <1>3, NumberParts DEF Versions, Revisions

LEMMA ReviseNumberTyping ==
  ASSUME Typing, NEW e \in Editors, ReviseNumber(e)
  PROVE  Typing'
<1> DEFINE o == op[e]
<1>1. /\ o \in Operations /\ o.kind = "original" /\ o.row \in Row
      /\ o.number \in Numbers
  BY DEF ReviseNumber, OpsInProgress, OpInProgress, WithNumber
<1>2. PICK v \in Versions :
        /\ IsNextVersion(v, o)
        /\ Begin(e, "numbered", o.mode, <<Family(o.number), v>>, EmptyList,
                 [o.row EXCEPT !.version = v])
  BY DEF ReviseNumber
<1> DEFINE row == [o.row EXCEPT !.version = v]
           n == [kind |-> "numbered", mode |-> o.mode,
                 number |-> <<Family(o.number), v>>, list |-> EmptyList,
                 row |-> row]
<1>3. row \in Row /\ row.version = v
  BY <1>1 DEF Row
<1>4. <<Family(o.number), v>> \in Revisions
  BY <1>1, <1>2, NextVersionTyping
<1> HIDE DEF row
<1>5. n \in Operations /\ OpInProgress(n, lastId) /\ n.kind = "numbered"
  BY <1>1, <1>3, <1>4, OperationTyping, OperationFields, ConstantTyping
  DEF OpKinds, OpInProgress, Saving, Making, WithNumber
<1>6. op' = [op EXCEPT ![e] = n]
  BY <1>2 DEF Begin, row
<1> HIDE DEF n
<1> QED
  BY <1>1, <1>5, <1>6, OperationTypingStep DEF ReviseNumber

(* Only an operation is replaced.                                          *)
LEMMA ReplaceTyping ==
  ASSUME Typing, NEW e \in Editors, NEW o \in Operations,
         op' = [op EXCEPT ![e] = o], OpInProgress(o, lastId'),
         lastId \in Nat, lastId' \in Nat, lastId <= lastId', UNCHANGED local
  PROVE  /\ CalculatorsOK'
         /\ op' \in [Editors -> Operations] /\ OpsInProgress'
<1>1. CalculatorsOK'
  BY DEF CalculatorsOK, local, calculator
<1> QED
  BY <1>1, OpsKept

LEMMA ReviseInsertTyping ==
  ASSUME Typing, NEW e \in Editors, ReviseInsert(e)
  PROVE  Typing'
<1> DEFINE o == op[e]
           row == [id |-> lastId + 1, version |-> o.row.version,
                   status |-> "draft", header |-> o.row.version, items |-> {}]
           n == [kind |-> "inserted",
                 mode |-> IF o.row.items = {} THEN "empty" ELSE o.mode,
                 number |-> o.number, list |-> EmptyList, row |-> row]
<1>1. /\ o \in Operations /\ o.kind = "numbered" /\ o.number \in Revisions
      /\ o.row.version \in Versions /\ o.number \in Numbers
  BY DEF ReviseInsert, OpsInProgress, OpInProgress, WithNumber
<1>2. CASE Exists(o.number) /\ End(e) /\ UNCHANGED <<db, lastId, used>>
  BY <1>1, <1>2, Idling, OperationTypingStep
  DEF ReviseInsert, UnchangedRows, End
<1>3. CASE ~Exists(o.number) /\ Insert(o.number, row) /\ op' = [op EXCEPT ![e] = n]
  <2>1. lastId + 1 \in 1 .. MaxRows
    BY <1>3 DEF Insert, RowsOK
  <2>2. row \in Row /\ row.id = lastId + 1
    BY <1>1, <2>1, RowTyping DEF Statuses
  <2>3. disturbed' \subseteq 1 .. MaxRows
    BY DEF ReviseInsert, RowsOK
  <2>4. row.status = "draft" /\ row.header = o.row.version
    OBVIOUS
  <2> HIDE DEF row
  <2>5. /\ RowsOK' /\ RowIds' /\ lastId \in Nat /\ lastId' \in Nat
        /\ lastId <= lastId'
    BY <1>1, <1>3, <2>2, <2>3, InsertTyping
  <2>6. row.id \in 1 .. lastId'
    BY <1>3, <2>2, <2>5 DEF Insert
  <2>7. n \in Operations
    BY <1>1, <2>2, OperationTyping, OperationFields, ConstantTyping DEF OpKinds
  <2>8. OpInProgress(n, lastId')
    BY <1>1, <2>4, <2>6 DEF OpInProgress, Saving, Making, WithNumber, Statuses
  <2> HIDE DEF n
  <2> QED
    BY <1>1, <1>3, <2>5, <2>7, <2>8, ReplaceTyping DEF ReviseInsert
<1> QED
  BY <1>2, <1>3 DEF ReviseInsert, Begin

LEMMA ReviseItemsTyping ==
  ASSUME Typing, NEW e \in Editors, ReviseItems(e)
  PROVE  Typing'
<1> DEFINE o == op[e]
           items == db[o.number].items \cup {o.row.header}
           n == [kind |-> "itemised", mode |-> o.mode, number |-> o.number,
                 list |-> EmptyList, row |-> o.row]
<1>1. /\ o \in Operations /\ o.kind = "inserted" /\ o.number \in Revisions
      /\ o.number \in Numbers /\ o.row.header \in Versions
      /\ o.row.id \in 1 .. lastId /\ o.row.status \in Statuses
  BY DEF ReviseItems, OpsInProgress, OpInProgress, WithNumber, Making
<1>2. /\ RowsOK' /\ RowIds' /\ lastId \in Nat /\ lastId' \in Nat
      /\ lastId <= lastId' /\ lastId' = lastId
  <2>1. lastId \in Nat /\ lastId' = lastId /\ lastId' \in Nat /\ lastId <= lastId'
    BY DEF ReviseItems, RowsOK
  <2>2. CASE db' = db
    BY <2>1, <2>2, RowsUnchanged DEF ReviseItems, UnchangedRows
  <2>3. CASE /\ db[o.number].id = o.row.id
             /\ db' = [db EXCEPT ![o.number] = [db[o.number] EXCEPT !.items = items]]
    <3> DEFINE row == [db[o.number] EXCEPT !.items = items]
    <3>1. db[o.number] \in Row /\ Exists(o.number)
      BY <1>1, <2>3, ListTyping
    <3>2. row \in Row /\ row.id = db[o.number].id
      BY <1>1, <3>1 DEF Row
    <3> HIDE DEF row
    <3>3. RowsOK'
      BY <2>3, <3>2 DEF ReviseItems, RowsOK, row
    <3>4. db'[o.number] = row /\ \A p \in Numbers \ {o.number} : db'[p] = db[p]
      BY <1>1, <2>3 DEF RowsOK, row
    <3>5. RowIds'
      BY <3>1, <3>2, <3>4, <2>1 DEF RowIds, Exists, ReviseItems
    <3> QED
      BY <2>1, <3>3, <3>5
  <2> QED
    BY <2>2, <2>3 DEF ReviseItems
<1>3. n \in Operations /\ OpInProgress(n, lastId')
  BY <1>1, <1>2, OperationTyping, OperationFields, ConstantTyping
  DEF OpKinds, OpInProgress, Saving, Making, WithNumber
<1>4. op' = [op EXCEPT ![e] = n] \/ op' = [op EXCEPT ![e] = NoOp]
  BY DEF ReviseItems, Begin, End
<1> HIDE DEF n
<1>5. CalculatorsOK' /\ op' \in [Editors -> Operations] /\ OpsInProgress'
  <2>1. UNCHANGED local
    BY DEF ReviseItems
  <2>2. CASE op' = [op EXCEPT ![e] = n]
    BY <1>2, <1>3, <2>1, <2>2, ReplaceTyping
  <2>3. CASE op' = [op EXCEPT ![e] = NoOp]
    BY <1>2, <2>1, <2>3, Idling, ReplaceTyping
  <2> QED
    BY <1>4, <2>2, <2>3
<1> QED
  BY <1>2, <1>5

LEMMA ReviseTotalsTyping ==
  ASSUME Typing, NEW e \in Editors, ReviseTotals(e)
  PROVE  Typing'
<1> DEFINE o == op[e]
           row == [db[o.number] EXCEPT !.version = db[o.number].version + 1,
                                       !.header = o.row.header]
<1>1. /\ o \in Operations /\ o.kind = "itemised" /\ o.number \in Numbers
      /\ o.row.header \in Versions /\ o.row.id \in 1 .. lastId
  BY DEF ReviseTotals, OpsInProgress, OpInProgress, WithNumber, Making
<1>2. /\ End(e) /\ UNCHANGED local
      /\ \/ db[o.number].id = o.row.id /\ Write(o.number, row)
         \/ UNCHANGED <<db, lastId, used>>
  BY DEF ReviseTotals
<1>3. disturbed' \subseteq 1 .. MaxRows
  BY <1>1 DEF ReviseTotals, RowsOK
<1>4. /\ RowsOK' /\ RowIds' /\ lastId \in Nat /\ lastId' \in Nat
      /\ lastId <= lastId'
  <2>1. CASE db[o.number].id = o.row.id /\ Write(o.number, row)
    <3>1. db[o.number] \in Row /\ Exists(o.number)
      BY <1>1, <2>1, ListTyping
    <3>2. row.version <= MaxVersion /\ row.version = db[o.number].version + 1
      BY <2>1, <3>1 DEF Write, Row
    <3>3. db[o.number].version + 1 \in Versions
      BY <3>1, <3>2, RowFields DEF Versions
    <3>4. row \in Row
      BY <1>1, <3>1, <3>3 DEF Row
    <3>5. row.id <= lastId
      BY <1>1, <3>1 DEF Row, RowIds
    <3> HIDE DEF row
    <3> QED
      BY <1>1, <1>3, <2>1, <3>1, <3>4, <3>5, WriteTyping
  <2>2. CASE UNCHANGED <<db, lastId, used>>
    BY <1>3, <2>2 DEF RowsOK, RowIds, Exists
  <2> QED
    BY <1>2, <2>1, <2>2
<1> QED
  BY <1>1, <1>2, <1>4, EndTyping

LEMMA TypingStep ==
  ASSUME Typing, [Next]_vars
  PROVE  Typing'
<1>1. CASE UNCHANGED vars
  BY <1>1 DEF vars, local, calculator, ops, RowsOK, CalculatorsOK,
              OpsInProgress, OpInProgress, RowIds, Exists
<1>2. CASE \E t \in Tabs : Refetch(t) \/ RestoreDraft(t) \/ Restart(t)
  BY <1>2, RefetchTyping, RestoreDraftTyping, RestartTyping
<1>7. CASE \E e \in Editors : Leave(e)
  BY <1>7, LeaveTyping
<1>3. ASSUME NEW e \in Editors, Work(e)
      PROVE  Typing'
  <2>1. CASE \E q \in Numbers : Open(e, q)
    BY <2>1, LoadTyping DEF Open, ops
  <2> QED
    BY <1>3, <2>1, CaptureTyping, SaveSelectTyping, PersistTyping,
       PersistRefusedTyping, SaveDoneTyping, SaveDoubtedTyping
    DEF Work, SaveStart
<1>4. ASSUME NEW e \in Editors, Dialog(e)
      PROVE  Typing'
  <2>1. CASE Reload(e)
    <3>1. active[TabOf(e)] \in Numbers
      BY <2>1, TabTyping DEF Reload, CalculatorsOK
    <3> QED
      BY <2>1, <3>1, LoadTyping DEF Reload
  <2> QED
    BY <1>4, <2>1, CaptureTyping, CancelTyping DEF Dialog, SaveForced
<1>5. ASSUME NEW e \in Editors, Manage(e)
      PROVE  Typing'
  BY <1>5, StatusReadTyping, StatusWriteTyping, DeleteTyping, DuplicateTyping
  DEF Manage
<1>6. ASSUME NEW e \in Editors, Revise(e)
      PROVE  Typing'
  BY <1>6, ReviseReadTyping, ReviseNumberTyping, ReviseInsertTyping,
     ReviseItemsTyping, ReviseTotalsTyping
  DEF Revise
<1> QED
  BY <1>1, <1>2, <1>3, <1>4, <1>5, <1>6, <1>7 DEF Next

LEMMA TypingInit == Init => Typing
<1> SUFFICES ASSUME Init PROVE Typing
  OBVIOUS
<1>1. RowsOK /\ CalculatorsOK
  BY ConstantTyping DEF Init, RowsOK, CalculatorsOK
<1>2. op \in [Editors -> Operations] /\ OpsInProgress
  BY Idling DEF Init, OpsInProgress
<1>3. RowIds
  BY NoRowFields DEF Init, RowIds, Exists
<1> QED
  BY <1>1, <1>2, <1>3

(* The rows, lists and operations of any tabs stay of their types, and an  *)
(* operation knows its row and number by how far it has got.               *)
THEOREM QuoteTyping == Spec => []Typing
<1>1. Init => Typing
  BY TypingInit
<1>2. Typing /\ [Next]_vars => Typing'
  BY TypingStep
<1> QED
  BY <1>1, <1>2, PTL DEF Spec

(* Every step begins, continues or ends the operation of one page, leaves  *)
(* it, or ends all those of a tab.                                         *)
LEMMA LeftTyping ==
  ASSUME left \subseteq Editors, [Next]_vars
  PROVE  left' \subseteq Editors
<1>1. CASE UNCHANGED ops
  BY <1>1 DEF ops
<1>2. ASSUME NEW e \in Editors, UNCHANGED left \/ End(e) \/ Leave(e)
      PROVE  left' \subseteq Editors
  BY <1>2 DEF End, Leave
<1>3. CASE \E t \in Tabs : Restart(t)
  BY <1>3 DEF Restart
<1>4. CASE \E e \in Savers : Work(e) \/ Dialog(e)
  <2>1. PICK e \in Editors : Work(e) \/ Dialog(e)
    BY <1>4
  <2>2. UNCHANGED left \/ End(e)
    BY <2>1 DEF Work, Dialog, Open, ops, SaveStart, SaveForced, Capture, Begin,
                Conflict, SaveSelect, Persist, PersistRefused, SaveDone,
                SaveDoubted, Reload, Cancel
  <2> QED
    BY <1>2, <2>2
<1>5. CASE \E e \in Managers : Manage(e)
  <2>1. PICK e \in Editors : Manage(e)
    BY <1>5
  <2>2. UNCHANGED left \/ End(e)
    BY <2>1 DEF Manage, ops, StatusRead, Begin, StatusWrite, Delete, Duplicate
  <2> QED
    BY <1>2, <2>2
<1>6. CASE \E e \in Revisers : Revise(e)
  <2>1. PICK e \in Editors : Revise(e)
    BY <1>6
  <2>2. UNCHANGED left \/ End(e)
    BY <2>1 DEF Revise, ReviseRead, Begin, ReviseNumber, ReviseInsert,
                ReviseItems, ReviseTotals
  <2> QED
    BY <1>2, <2>2
<1> QED
  BY <1>1, <1>2, <1>3, <1>4, <1>5, <1>6
  DEF Next, vars, Refetch, RestoreDraft

(* The rows, the lists, the operations and the pages left keep their types *)
(* in every tab.                                                           *)
THEOREM QuoteTypes == Spec => []TypeOK
<1>1. Init => left \subseteq Editors
  BY DEF Init
<1>2. left \subseteq Editors /\ [Next]_vars => (left \subseteq Editors)'
  BY LeftTyping
<1>3. Typing /\ left \subseteq Editors => TypeOK
  BY DEF TypeOK, OpsOK
<1> QED
  BY <1>1, <1>2, <1>3, QuoteTyping, PTL DEF Spec

-----------------------------------------------------------------------------
(* How often the contents in a calculator have become a quote.             *)

(* Of the pages of a tab that are not left one at most is at work.         *)
OneShown ==
  \A t \in Tabs : \A d, e \in t \ left : ~Idle(d) /\ ~Idle(e) => d = e

(* A save that is to make the contents a quote of their own.               *)
Fresh(o) ==
  \/ o.kind = "captured" /\ o.number = NoNumber
  \/ o.kind = "selected" /\ IsNew(o)

(* What is said of a tab's contents while a page of it saves them: none is *)
(* a quote yet before a fresh save, and once one is the calculator has its *)
(* number, or is about to be given it.                                     *)
InHand(t) ==
  /\ \A m, n \in copies[t] : m = n
  /\ \A e \in t \ left : Fresh(op[e]) => copies[t] = {}
  /\ active[t] = NoNumber /\ copies[t] # {} =>
       \E e \in t \ left : /\ op[e].kind = "verifying"
                           /\ op[e].number \in copies[t]

(* A number in a calculator, or in a save, was once drawn.                 *)
FamiliesUsed ==
  /\ \A t \in Tabs : active[t] # NoNumber => Family(active[t]) \in used
  /\ \A e \in Editors :
       op[e].kind \in {"captured", "verifying"} /\ op[e].number # NoNumber
       => Family(op[e].number) \in used

CopiesInv == OneShown /\ FamiliesUsed /\ \A t \in Tabs : InHand(t)

(* One operation is replaced; only its own end returns its page.           *)
Replaced(e, o) ==
  /\ op' = [op EXCEPT ![e] = o]
  /\ left' = left \/ (left' = left \ {e} /\ o.kind = "idle")
  /\ ~Idle(e) \/ Free(e)
  /\ used \subseteq used'

LEMMA ReplacedOps ==
  ASSUME Typing, OneShown, NEW e \in Editors, NEW o, Replaced(e, o)
  PROVE  /\ OneShown'
         /\ op'[e] = o /\ \A d \in Editors \ {e} : op'[d] = op[d]
         /\ \A d \in Editors \ {e} : d \in left' <=> d \in left
         /\ o.kind # "idle" => left' = left
         /\ left' \subseteq left
<1>1. /\ op'[e] = o /\ \A d \in Editors \ {e} : op'[d] = op[d]
      /\ \A d \in Editors \ {e} : d \in left' <=> d \in left
      /\ o.kind # "idle" => left' = left
      /\ left' \subseteq left
  BY DEF Replaced
<1>2. ASSUME NEW t \in Tabs, NEW d \in t \ left', NEW f \in t \ left',
             ~Idle(d)', ~Idle(f)', d # f
      PROVE  FALSE
  <2>1. d \in Editors /\ f \in Editors /\ TabOf(d) = t /\ TabOf(f) = t
    BY TabTyping
  <2>2. CASE d # e /\ f # e
    BY <1>1, <1>2, <2>1, <2>2 DEF OneShown, Idle
  <2>3. ASSUME NEW g \in t \ left', g \in Editors, g # e, ~Idle(g)', e \in t \ left',
               TabOf(e) = t, ~Idle(e)'
        PROVE  FALSE
    <3>1. ~Idle(g) /\ g \notin left /\ left' = left
      BY <1>1, <2>3 DEF Idle
    <3>2. CASE ~Idle(e)
      BY <2>3, <3>1, <3>2 DEF OneShown
    <3>3. CASE Free(e)
      BY <2>3, <3>1, <3>3 DEF Free, Shown
    <3> QED
      BY <3>2, <3>3 DEF Replaced
  <2> QED
    BY <1>2, <2>1, <2>2, <2>3
<1> QED
  BY <1>1, <1>2 DEF OneShown

(* What a step on one page leaves as it was in the other tabs.             *)
LEMMA OtherTabs ==
  ASSUME Typing, CopiesInv, NEW t \in Tabs,
         \A d \in Editors \ t : op'[d] = op[d] /\ (d \in left' <=> d \in left),
         \A u \in Tabs \ {t} : active'[u] = active[u] /\ copies'[u] = copies[u],
         used \subseteq used'
  PROVE  \A u \in Tabs \ {t} : InHand(u)'
<1> SUFFICES ASSUME NEW u \in Tabs \ {t} PROVE InHand(u)'
  OBVIOUS
<1>1. /\ active'[u] = active[u] /\ copies'[u] = copies[u]
      /\ \A d \in u : op'[d] = op[d] /\ (d \in left' <=> d \in left)
  BY TabTyping
<1>2. \A d \in u : Fresh(op[d])' => Fresh(op[d])
  BY <1>1 DEF Fresh, IsNew, Inserts
<1> QED
  BY <1>1, <1>2 DEF CopiesInv, InHand

(* One operation is replaced and all else that matters stays.              *)
LEMMA OperationCopies ==
  ASSUME Typing, CopiesInv, NEW e \in Editors, NEW o, Replaced(e, o),
         UNCHANGED <<active, copies>>, op[e].kind # "verifying",
         o.kind \in {"captured", "verifying"} /\ o.number # NoNumber
           => Family(o.number) \in used',
         e \notin left /\ Fresh(o)' => copies[TabOf(e)] = {}
  PROVE  CopiesInv'
<1> DEFINE t == TabOf(e)
<1>1. t \in Tabs /\ e \in t /\ \A d \in t : d \in Editors
  BY TabTyping
<1>2. /\ OneShown'
      /\ op'[e] = o /\ \A d \in Editors \ {e} : op'[d] = op[d]
      /\ \A d \in Editors \ {e} : d \in left' <=> d \in left
      /\ o.kind # "idle" => left' = left
      /\ left' \subseteq left /\ used \subseteq used'
  BY ReplacedOps DEF CopiesInv, Replaced
<1>3. FamiliesUsed'
  BY <1>2 DEF CopiesInv, FamiliesUsed
<1>4. \A u \in Tabs \ {t} : InHand(u)'
  BY <1>1, <1>2, OtherTabs
<1>5. InHand(t)'
  <2>1. InHand(t)
    BY <1>1 DEF CopiesInv
  <2>2. \A d \in t \ {e} : Fresh(op[d])' => Fresh(op[d])
    BY <1>1, <1>2 DEF Fresh, IsNew, Inserts
  <2>3. Fresh(o)' => o.kind # "idle"
    BY DEF Fresh
  <2> HIDE DEF t
  <2>4. \A d \in t \ left' : Fresh(op[d])' => copies'[t] = {}
    <3> SUFFICES ASSUME NEW d \in t \ left', Fresh(op[d])' PROVE copies[t] = {}
      OBVIOUS
    <3>1. CASE d = e
      BY <1>2, <2>3, <3>1 DEF t
    <3>2. CASE d # e
      BY <1>1, <1>2, <2>1, <2>2, <3>2 DEF InHand
    <3> QED
      BY <3>1, <3>2
  <2>5. \A d \in t \ left : op[d].kind = "verifying" =>
          d \in t \ left' /\ op'[d] = op[d]
    BY <1>1, <1>2
  <2> QED
    BY <2>1, <2>4, <2>5 DEF InHand
<1> QED
  BY <1>2, <1>3, <1>4, <1>5 DEF CopiesInv

(* The operation ends, or goes on, without a save having been written.     *)
LEMMA EndCopies ==
  ASSUME Typing, CopiesInv, NEW e \in Editors, End(e), ~Idle(e),
         op[e].kind # "verifying", used \subseteq used',
         UNCHANGED <<active, copies>>
  PROVE  CopiesInv'
<1>1. Replaced(e, NoOp) /\ ~Fresh(NoOp)'
  BY Idling DEF Replaced, End, Fresh
<1> QED
  BY <1>1, Idling, OperationCopies

LEMMA BeginCopies ==
  ASSUME Typing, CopiesInv, NEW e \in Editors, NEW kind, NEW mode, NEW q,
         NEW list, NEW row, Begin(e, kind, mode, q, list, row),
         kind \notin {"idle", "captured", "selected", "verifying"},
         ~Idle(e) \/ Free(e), op[e].kind # "verifying", used \subseteq used',
         UNCHANGED <<active, copies>>
  PROVE  CopiesInv'
<1> DEFINE o == [kind |-> kind, mode |-> mode, number |-> q, list |-> list,
                 row |-> row]
<1>1. o.kind = kind /\ Replaced(e, o)
  BY DEF Replaced, Begin
<1> HIDE DEF o
<1>2. ~Fresh(o)'
  BY <1>1 DEF Fresh
<1> QED
  BY <1>1, <1>2, OperationCopies

(* A page that starts a save, or forces it, is the only one shown.         *)
LEMMA NothingCopied ==
  ASSUME Typing, CopiesInv, NEW e \in Editors, e \notin left,
         op[e].kind # "verifying", Free(e) \/ ~Idle(e),
         active[TabOf(e)] = NoNumber
  PROVE  copies[TabOf(e)] = {}
<1> DEFINE t == TabOf(e)
<1>1. t \in Tabs /\ e \in t /\ InHand(t)
  BY TabTyping DEF CopiesInv
<1>2. ASSUME NEW d \in t \ left, op[d].kind = "verifying"
      PROVE  FALSE
  <2>1. d # e /\ ~Idle(d)
    BY <1>2 DEF Idle
  <2> QED
    BY <1>1, <1>2, <2>1 DEF Free, Shown, CopiesInv, OneShown
<1> QED
  BY <1>1, <1>2 DEF InHand

LEMMA CaptureCopies ==
  ASSUME Typing, CopiesInv, NEW e \in Editors, NEW mode, Capture(e, mode),
         ~Idle(e) \/ Free(e), op[e].kind # "verifying",
         UnchangedRows, UNCHANGED local
  PROVE  CopiesInv'
<1> PICK o : o = [kind |-> "captured", mode |-> mode,
                  number |-> active[TabOf(e)], list |-> store[TabOf(e)],
                  row |-> NoRow]
  OBVIOUS
<1>1. /\ o.kind = "captured" /\ o.number = active[TabOf(e)]
      /\ Replaced(e, o)
  BY DEF Replaced, Capture, Begin, UnchangedRows
<1>2. o.number # NoNumber => Family(o.number) \in used
  BY <1>1, TabTyping DEF CopiesInv, FamiliesUsed
<1>3. Fresh(o)' => active[TabOf(e)] = NoNumber
  BY <1>1 DEF Fresh
<1>4. UNCHANGED <<active, copies, used>>
  BY DEF UnchangedRows, local, calculator
<1> QED
  BY <1>1, <1>2, <1>3, <1>4, NothingCopied, OperationCopies

(* A save that finds no row is fresh only if it began without a number.    *)
LEMMA SaveSelectCopies ==
  ASSUME Typing, CopiesInv, NEW e \in Editors, SaveSelect(e)
  PROVE  CopiesInv'
<1> DEFINE o == op[e]
<1>1. /\ o.kind = "captured" /\ UNCHANGED <<active, copies, used>>
      /\ ~Idle(e)
  BY DEF SaveSelect, UnchangedRows, local, calculator, Idle
<1>2. ASSUME NEW q, NEW row, Begin(e, "selected", o.mode, q, o.list, row),
             \/ o.number = NoNumber
             \/ row # NoRow \/ Family(q) \in used
      PROVE  CopiesInv'
  <2> PICK s : s = [kind |-> "selected", mode |-> o.mode, number |-> q,
                    list |-> o.list, row |-> row]
    OBVIOUS
  <2>1. Replaced(e, s)
    BY <1>1, <1>2 DEF Begin, Replaced
  <2>2. s.kind = "selected" /\ s.row = row /\ s.number = q
    OBVIOUS
  <2>3. ASSUME e \notin left, Fresh(s)'
        PROVE  copies[TabOf(e)] = {}
    <3>1. row = NoRow /\ Family(q) \notin used
      BY <1>1, <2>2, <2>3 DEF Fresh, IsNew, Inserts
    <3>2. Fresh(o)
      BY <1>1, <1>2, <3>1 DEF Fresh
    <3> QED
      BY <2>3, <3>2, TabTyping DEF CopiesInv, InHand
  <2> QED
    BY <1>1, <2>1, <2>2, <2>3, OperationCopies
<1>3. PICK row \in Found(o.number) :
        \/ End(e)
        \/ Begin(e, "conflict", o.mode, o.number, o.list, NoRow)
        \/ /\ row # NoRow
           /\ Begin(e, "selected", o.mode, o.number, o.list, Key(row))
        \/ /\ o.number # NoNumber
           /\ Begin(e, "selected", o.mode, o.number, o.list, NoRow)
        \/ /\ o.number = NoNumber
           /\ \E f \in Families \ used :
                Begin(e, "selected", o.mode, <<f, 0>>, o.list, NoRow)
  BY DEF SaveSelect, Conflict
<1>4. CASE End(e)
  BY <1>1, <1>4, EndCopies
<1>5. CASE Begin(e, "conflict", o.mode, o.number, o.list, NoRow)
  BY <1>1, <1>5, BeginCopies
<1>6. CASE /\ row # NoRow
           /\ Begin(e, "selected", o.mode, o.number, o.list, Key(row))
  <2>1. o \in Operations
    OBVIOUS
  <2>2. o.number \in Numbers /\ row = db[o.number] /\ row \in Row
    BY <1>6, <2>1, OperationFields, ListTyping DEF Found, Exists
  <2>3. Key(row) # NoRow
    BY <2>2, KeyTyping, RowFields, ConstantTyping
  <2> QED
    BY <1>2, <1>6, <2>3
<1>7. CASE /\ o.number # NoNumber
           /\ Begin(e, "selected", o.mode, o.number, o.list, NoRow)
  BY <1>1, <1>2, <1>7 DEF CopiesInv, FamiliesUsed
<1>8. CASE /\ o.number = NoNumber
           /\ \E f \in Families \ used :
                Begin(e, "selected", o.mode, <<f, 0>>, o.list, NoRow)
  BY <1>2, <1>8
<1> QED
  BY <1>3, <1>4, <1>5, <1>6, <1>7, <1>8

LEMMA PersistCopies ==
  ASSUME Typing, CopiesInv, NEW e \in Editors, Persist(e)
  PROVE  CopiesInv'
<1> DEFINE o == op[e]
           t == TabOf(e)
<1>1. PICK saved :
        /\ o.kind = "selected"
        /\ IF Inserts(o) THEN Insert(o.number, saved) ELSE Write(o.number, saved)
        /\ \/ /\ Begin(e, "verifying", o.mode, o.number, o.list, saved)
              /\ copies' = IF IsNew(o) /\ e \notin left
                           THEN [copies EXCEPT ![t] = copies[t] \cup {o.number}]
                           ELSE copies
           \/ End(e) /\ UNCHANGED copies
        /\ UNCHANGED active
  BY DEF Persist
<1>2. /\ used \subseteq used'
      /\ Inserts(o) => Family(o.number) \in used'
  BY <1>1 DEF Insert, Write
<1>3. o.number \in Numbers /\ ~Idle(e)
  BY <1>1 DEF OpsInProgress, OpInProgress, WithNumber, Idle
<1>4. Family(o.number) \in used'
  <2>1. CASE ~Inserts(o)
    <3>1. Accepts(o) /\ o.row.id \in 1 .. lastId
      BY <1>1, <2>1 DEF Persist, OpsInProgress, OpInProgress
    <3>2. db[o.number].id # 0
      BY <2>1, <3>1 DEF Accepts, MayUpdate
    <3> QED
      BY <1>2, <1>3, <3>2, ListTyping DEF RowIds
  <2> QED
    BY <1>2, <2>1
<1>5. CASE End(e) /\ UNCHANGED copies
  BY <1>1, <1>2, <1>3, <1>5, EndCopies
<1> PICK v : v = [kind |-> "verifying", mode |-> o.mode, number |-> o.number,
                  list |-> o.list, row |-> saved]
  OBVIOUS
<1>6. CASE Begin(e, "verifying", o.mode, o.number, o.list, saved)
  <2>1. v.kind = "verifying" /\ v.number = o.number /\ Replaced(e, v)
    BY <1>2, <1>3, <1>6 DEF Begin, Replaced
  <2>2. ~Fresh(v)'
    BY <2>1 DEF Fresh
  <2>3. CASE copies' = copies
    BY <1>1, <1>4, <2>1, <2>2, <2>3, OperationCopies
  <2>4. CASE /\ IsNew(o) /\ e \notin left
             /\ copies' = [copies EXCEPT ![t] = copies[t] \cup {o.number}]
    <3>1. t \in Tabs /\ e \in t /\ \A d \in t : d \in Editors
      BY TabTyping
    <3>2. /\ OneShown'
          /\ op'[e] = v /\ \A d \in Editors \ {e} : op'[d] = op[d]
          /\ \A d \in Editors \ {e} : d \in left' <=> d \in left
          /\ left' = left
      BY <2>1, ReplacedOps DEF CopiesInv
    <3>3. copies[t] = {}
      BY <1>1, <2>4, <3>1 DEF CopiesInv, InHand, Fresh
    <3>4. copies'[t] = {o.number} /\ \A u \in Tabs \ {t} : copies'[u] = copies[u]
      BY <2>4, <3>1, <3>3 DEF CalculatorsOK
    <3>5. FamiliesUsed'
      BY <1>1, <1>2, <1>4, <2>1, <3>2 DEF CopiesInv, FamiliesUsed
    <3>6. \A u \in Tabs \ {t} : InHand(u)'
      BY <1>1, <1>2, <3>1, <3>2, <3>4, OtherTabs
    <3>7. InHand(t)'
      <4>1. ASSUME NEW d \in t \ left', d # e
            PROVE  ~Fresh(op[d])'
        <5>1. Idle(d)'
          BY <2>1, <3>1, <3>2, <2>4, <4>1 DEF OneShown, Idle
        <5> QED
          BY <5>1 DEF Idle, Fresh
      <4>2. \A d \in t \ left' : ~Fresh(op[d])'
        BY <2>2, <3>2, <4>1
      <4>3. e \in t \ left' /\ op'[e].kind = "verifying" /\ op'[e].number = o.number
        BY <2>1, <2>4, <3>1, <3>2
      <4> HIDE DEF t
      <4> QED
        BY <3>4, <4>2, <4>3 DEF InHand
    <3> QED
      BY <3>2, <3>5, <3>6, <3>7 DEF CopiesInv
  <2> QED
    BY <1>1, <1>6, <2>3, <2>4, Idling DEF Begin, End
<1> QED
  BY <1>1, <1>5, <1>6

(* A save that has ended gives the calculator the number of its quote.     *)
LEMMA SaveDoneCopies ==
  ASSUME Typing, CopiesInv, NEW e \in Editors, SaveDone(e)
  PROVE  CopiesInv'
<1> DEFINE t == TabOf(e)
<1>1. /\ op[e].kind = "verifying" /\ op[e].number \in Numbers
      /\ active' = [active EXCEPT ![t] = op[e].number]
      /\ UNCHANGED copies /\ used' = used
      /\ Replaced(e, NoOp) /\ ~Idle(e)
  BY Idling
  DEF SaveDone, OpsInProgress, OpInProgress, WithNumber, UnchangedRows, Idle,
      Replaced, End
<1>2. t \in Tabs /\ e \in t /\ \A d \in t : d \in Editors
  BY TabTyping
<1>3. /\ OneShown' /\ op'[e] = NoOp /\ \A d \in Editors \ {e} : op'[d] = op[d]
      /\ \A d \in Editors \ {e} : d \in left' <=> d \in left
  BY <1>1, ReplacedOps DEF CopiesInv
<1>4. /\ active'[t] = op[e].number /\ active'[t] # NoNumber
      /\ \A u \in Tabs \ {t} : active'[u] = active[u]
  BY <1>1, <1>2, NumberParts DEF CalculatorsOK
<1>5. FamiliesUsed'
  BY <1>1, <1>3, <1>4, Idling, NumberParts DEF CopiesInv, FamiliesUsed
<1>6. \A u \in Tabs \ {t} : InHand(u)'
  BY <1>1, <1>2, <1>3, <1>4, OtherTabs
<1>7. InHand(t)'
  <2>1. InHand(t)
    BY <1>2 DEF CopiesInv
  <2>2. ASSUME NEW d \in t \ left', Fresh(op[d])'
        PROVE  d \in t \ left /\ Fresh(op[d])
    BY <1>1, <1>2, <1>3, <2>2, Idling DEF Fresh, IsNew, Inserts
  <2> HIDE DEF t
  <2> QED
    BY <1>1, <1>4, <2>1, <2>2 DEF InHand
<1> QED
  BY <1>3, <1>5, <1>6, <1>7 DEF CopiesInv

(* That a quote was inserted is not told: it is no longer counted.  It was *)
(* the only one, or the calculator has a number already.                   *)
LEMMA NotToldCopies ==
  ASSUME Typing, CopiesInv, NEW e \in Editors, op[e].kind = "verifying",
         OneShown', used' = used, UNCHANGED active,
         copies' = [copies EXCEPT ![TabOf(e)] = @ \ {op[e].number}],
         \A d \in Editors \ {e} : op'[d] = op[d] /\ (d \in left' <=> d \in left),
         op'[e] = NoOp \/ (op'[e] = op[e] /\ e \in left')
  PROVE  CopiesInv'
<1> DEFINE t == TabOf(e)
<1>1. t \in Tabs /\ e \in t /\ \A d \in t : d \in Editors
  BY TabTyping
<1>2. /\ copies'[t] = copies[t] \ {op[e].number}
      /\ \A u \in Tabs \ {t} : copies'[u] = copies[u]
  BY <1>1 DEF CalculatorsOK
<1>3. FamiliesUsed'
  BY Idling DEF CopiesInv, FamiliesUsed
<1>4. \A u \in Tabs \ {t} : InHand(u)'
  BY <1>1, <1>2, OtherTabs
<1>5. InHand(t)'
  <2>1. InHand(t)
    BY <1>1 DEF CopiesInv
  <2>2. ASSUME NEW d \in t \ left', Fresh(op[d])'
        PROVE  d \in t \ left /\ Fresh(op[d])
    BY <1>1, <2>2, Idling DEF Fresh, IsNew, Inserts
  <2> HIDE DEF t
  <2>3. ASSUME active[t] = NoNumber, copies'[t] # {}
        PROVE  \E d \in t \ left' : /\ op'[d].kind = "verifying"
                                    /\ op'[d].number \in copies'[t]
    <3>1. PICK d \in t \ left : /\ op[d].kind = "verifying"
                                /\ op[d].number \in copies[t]
      BY <1>2, <2>1, <2>3 DEF InHand
    <3>2. d # e
      BY <1>2, <2>1, <2>3, <3>1 DEF InHand
    <3> QED
      BY <1>1, <1>2, <2>1, <2>3, <3>1, <3>2 DEF InHand
  <2> QED
    BY <1>2, <2>1, <2>2, <2>3 DEF InHand
<1> QED
  BY <1>3, <1>4, <1>5 DEF CopiesInv

LEMMA SaveDoubtedCopies ==
  ASSUME Typing, CopiesInv, NEW e \in Editors, SaveDoubted(e)
  PROVE  CopiesInv'
<1>1. op[e].kind = "verifying" /\ Replaced(e, NoOp) /\ UNCHANGED <<active, used>>
  BY Idling DEF SaveDoubted, Idle, Replaced, End, UnchangedRows
<1>2. /\ OneShown' /\ op'[e] = NoOp /\ \A d \in Editors \ {e} : op'[d] = op[d]
      /\ \A d \in Editors \ {e} : d \in left' <=> d \in left
  BY <1>1, ReplacedOps DEF CopiesInv
<1>3. copies' = [copies EXCEPT ![TabOf(e)] = @ \ {op[e].number}]
  BY DEF SaveDoubted
<1> QED
  BY <1>1, <1>2, <1>3, NotToldCopies

LEMMA LeaveCopies ==
  ASSUME Typing, CopiesInv, NEW e \in Editors, Leave(e)
  PROVE  CopiesInv'
<1> DEFINE t == TabOf(e)
<1>1. /\ op' = op /\ left' = left \cup {e} /\ UNCHANGED <<active, used>>
      /\ OneShown'
  BY DEF Leave, UnchangedRows, CopiesInv, OneShown, Idle
<1>2. CASE op[e].kind = "verifying"
  <2>1. copies' = [copies EXCEPT ![TabOf(e)] = @ \ {op[e].number}]
    BY <1>2 DEF Leave
  <2> QED
    BY <1>1, <1>2, <2>1, NotToldCopies
<1>3. CASE op[e].kind # "verifying"
  <2>1. copies' = copies
    BY <1>3 DEF Leave
  <2>2. FamiliesUsed'
    BY <1>1 DEF CopiesInv, FamiliesUsed
  <2>3. ASSUME NEW u \in Tabs
        PROVE  InHand(u)'
    <3>1. InHand(u)
      BY DEF CopiesInv
    <3>2. \A d \in Editors : Fresh(op[d])' <=> Fresh(op[d])
      BY <1>1 DEF Fresh, IsNew, Inserts
    <3> QED
      BY <1>1, <1>3, <2>1, <3>1, <3>2, TabTyping DEF InHand
  <2> QED
    BY <1>1, <2>2, <2>3 DEF CopiesInv
<1> QED
  BY <1>2, <1>3

(* Other contents come into the calculator.                                *)
LEMMA ClearedCopies ==
  ASSUME Typing, CopiesInv, NEW t \in Tabs,
         active'[t] # NoNumber => Family(active'[t]) \in used,
         \A u \in Tabs \ {t} : active'[u] = active[u] /\ copies'[u] = copies[u],
         copies'[t] = {}, used' = used, OneShown',
         \A d \in Editors \ t : op'[d] = op[d] /\ (d \in left' <=> d \in left),
         \A d \in Editors : op'[d] \in {NoOp, op[d]}
  PROVE  CopiesInv'
<1>1. FamiliesUsed'
  <2>1. \A d \in Editors :
          op'[d].kind \in {"captured", "verifying"} => op'[d] = op[d]
    BY Idling
  <2> QED
    BY <2>1 DEF CopiesInv, FamiliesUsed
<1>2. \A u \in Tabs \ {t} : InHand(u)'
  BY OtherTabs
<1>3. InHand(t)'
  BY DEF InHand
<1> QED
  BY <1>1, <1>2, <1>3 DEF CopiesInv

LEMMA LoadCopies ==
  ASSUME Typing, CopiesInv, NEW e \in Editors, NEW q \in Numbers,
         NEW clone \in BOOLEAN, Load(TabOf(e), q, clone),
         UNCHANGED ops \/ (End(e) /\ op[e].kind = "conflict")
  PROVE  CopiesInv'
<1> DEFINE t == TabOf(e)
<1>1. t \in Tabs /\ used' = used /\ e \in t
  BY TabTyping DEF Load, UnchangedRows
<1>2. CASE ~Exists(q)
  <2>1. UNCHANGED <<active, copies>>
    BY <1>2 DEF Load
  <2>2. CASE UNCHANGED ops
    <3>1. /\ FamiliesUsed' /\ OneShown'
          /\ \A d \in Editors : Fresh(op[d])' <=> Fresh(op[d])
      BY <1>1, <2>1, <2>2
      DEF CopiesInv, FamiliesUsed, OneShown, Idle, ops, Fresh, IsNew, Inserts
    <3> QED
      BY <2>1, <2>2, <3>1, TabTyping DEF CopiesInv, InHand, ops
  <2>3. CASE End(e) /\ op[e].kind = "conflict"
    BY <1>1, <2>1, <2>3, EndCopies DEF Idle
  <2> QED
    BY <2>2, <2>3
<1>3. CASE Exists(q)
  <2>1. /\ active'[t] \in {q, NoNumber} /\ copies'[t] = {}
        /\ \A u \in Tabs \ {t} : active'[u] = active[u] /\ copies'[u] = copies[u]
    BY <1>1, <1>3 DEF Load, CalculatorsOK
  <2>2. Family(q) \in used
    BY <1>3 DEF RowIds
  <2>3. /\ OneShown'
        /\ \A d \in Editors \ t : op'[d] = op[d] /\ (d \in left' <=> d \in left)
        /\ \A d \in Editors : op'[d] \in {NoOp, op[d]}
    <3>1. CASE UNCHANGED ops
      BY <3>1 DEF ops, CopiesInv, OneShown, Idle
    <3>2. CASE End(e) /\ op[e].kind = "conflict"
      <4>1. Replaced(e, NoOp)
        BY <1>1, <3>2, Idling DEF Replaced, End, Idle
      <4> QED
        BY <1>1, <4>1, ReplacedOps DEF CopiesInv
    <3> QED
      BY <3>1, <3>2
  <2> QED
    BY <1>1, <2>1, <2>2, <2>3, ClearedCopies
<1> QED
  BY <1>2, <1>3

LEMMA TabCopies ==
  ASSUME Typing, CopiesInv, NEW t \in Tabs,
         Refetch(t) \/ RestoreDraft(t) \/ Restart(t)
  PROVE  CopiesInv'
<1>1. CASE Refetch(t)
  <2>1. UNCHANGED <<active, copies, op, left, used>>
    BY <1>1 DEF Refetch, UnchangedRows, calculator, ops
  <2>2. /\ FamiliesUsed' /\ OneShown'
        /\ \A d \in Editors : Fresh(op[d])' <=> Fresh(op[d])
    BY <2>1 DEF CopiesInv, FamiliesUsed, OneShown, Idle, Fresh, IsNew, Inserts
  <2> QED
    BY <2>1, <2>2, TabTyping DEF CopiesInv, InHand
<1>2. CASE RestoreDraft(t)
  <2>1. PICK q \in {NoNumber, active[t]} \cup {n \in Numbers : Exists(n)} :
          active' = [active EXCEPT ![t] = q]
    BY <1>2 DEF RestoreDraft
  <2>2. q # NoNumber => Family(q) \in used
    BY <2>1 DEF CopiesInv, FamiliesUsed, RowIds
  <2>3. /\ active'[t] = q /\ copies'[t] = {} /\ UNCHANGED <<op, left, used>>
        /\ \A u \in Tabs \ {t} : active'[u] = active[u] /\ copies'[u] = copies[u]
    BY <1>2, <2>1 DEF RestoreDraft, CalculatorsOK, UnchangedRows, ops
  <2>4. OneShown'
    BY <2>3 DEF CopiesInv, OneShown, Idle
  <2> QED
    BY <2>2, <2>3, <2>4, ClearedCopies
<1>3. CASE Restart(t)
  <2>1. /\ active'[t] = NoNumber /\ copies'[t] = {} /\ used' = used
        /\ \A u \in Tabs \ {t} : active'[u] = active[u] /\ copies'[u] = copies[u]
        /\ \A d \in Editors : op'[d] \in {NoOp, op[d]}
        /\ left' = left \ t
    BY <1>3 DEF Restart, CalculatorsOK
  <2>2. \A d \in Editors \ t : op'[d] = op[d]
    BY <1>3 DEF Restart
  <2>3. \A d \in t : op'[d] = NoOp
    BY <1>3, TabTyping DEF Restart
  <2>4. OneShown'
    <3> SUFFICES ASSUME NEW u \in Tabs, NEW d \in u \ left', NEW f \in u \ left',
                        ~Idle(d)', ~Idle(f)'
                 PROVE  d = f
      BY DEF OneShown
    <3>1. d \notin t /\ f \notin t /\ d \in Editors /\ f \in Editors
      BY <2>3, Idling, TabTyping DEF Idle
    <3>2. d \in u \ left /\ f \in u \ left /\ ~Idle(d) /\ ~Idle(f)
      BY <2>1, <2>2, <3>1 DEF Idle
    <3> QED
      BY <3>2 DEF CopiesInv, OneShown
  <2> QED
    BY <2>1, <2>2, <2>4, ClearedCopies
<1> QED
  BY <1>1, <1>2, <1>3

LEMMA ManageCopies ==
  ASSUME Typing, CopiesInv, NEW e \in Editors, Manage(e)
  PROVE  CopiesInv'
<1>1. UNCHANGED <<active, copies>> /\ used \subseteq used'
  BY DEF Manage, StatusRead, StatusWrite, Delete, Duplicate, UnchangedRows,
         local, calculator, Write, Insert
<1>2. ASSUME NEW q \in Numbers, NEW status \in Chosen, StatusRead(e, q, status)
      PROVE  CopiesInv'
  BY <1>1, <1>2, BeginCopies DEF StatusRead, Free, Idle
<1>3. CASE StatusWrite(e)
  BY <1>1, <1>3, EndCopies DEF StatusWrite, Idle
<1>4. CASE UNCHANGED ops
  <2>1. /\ FamiliesUsed' /\ OneShown'
        /\ \A d \in Editors : Fresh(op[d])' => Fresh(op[d])
    BY <1>1, <1>4
    DEF CopiesInv, FamiliesUsed, OneShown, Idle, ops, Fresh, IsNew, Inserts
  <2> QED
    BY <1>1, <1>4, <2>1, TabTyping DEF CopiesInv, InHand, ops
<1> QED
  BY <1>2, <1>3, <1>4 DEF Manage, Delete, Duplicate

LEMMA ReviseCopies ==
  ASSUME Typing, CopiesInv, NEW e \in Editors, Revise(e)
  PROVE  CopiesInv'
<1>1. UNCHANGED <<active, copies>> /\ used \subseteq used'
  BY DEF Revise, ReviseRead, ReviseNumber, ReviseInsert, ReviseItems,
         ReviseTotals, UnchangedRows, local, calculator, Write, Insert
<1>2. \/ /\ \E q \in Numbers : ReviseRead(e, q)
         /\ Free(e)
      \/ op[e].kind \in {"original", "numbered", "inserted", "itemised"}
  BY DEF Revise, ReviseRead, ReviseNumber, ReviseInsert, ReviseItems,
         ReviseTotals
<1>3. \/ End(e)
      \/ \E kind \in {"original", "numbered", "inserted", "itemised"} :
           \E mode, q, list, row : Begin(e, kind, mode, q, list, row)
  <2>1. CASE \E q \in Numbers : ReviseRead(e, q)
    BY <2>1 DEF ReviseRead
  <2>2. CASE ReviseNumber(e)
    BY <2>2 DEF ReviseNumber
  <2>3. CASE ReviseInsert(e)
    BY <2>3 DEF ReviseInsert
  <2>4. CASE ReviseItems(e)
    BY <2>4 DEF ReviseItems
  <2>5. CASE ReviseTotals(e)
    BY <2>5 DEF ReviseTotals
  <2> QED
    BY <2>1, <2>2, <2>3, <2>4, <2>5 DEF Revise
<1>4. op[e].kind # "verifying" /\ (~Idle(e) \/ Free(e))
  BY <1>2 DEF Free, Idle
<1>5. CASE End(e)
  <2>1. Replaced(e, NoOp) /\ ~Fresh(NoOp)'
    BY <1>1, <1>4, <1>5, Idling DEF Replaced, End, Fresh
  <2> QED
    BY <1>1, <1>4, <2>1, Idling, OperationCopies
<1>6. ASSUME NEW kind \in {"original", "numbered", "inserted", "itemised"},
             NEW mode, NEW q, NEW list, NEW row,
             Begin(e, kind, mode, q, list, row)
      PROVE  CopiesInv'
  BY <1>1, <1>4, <1>6, BeginCopies
<1> QED
  BY <1>3, <1>5, <1>6

LEMMA CopiesStep ==
  ASSUME Typing, CopiesInv, [Next]_vars
  PROVE  CopiesInv'
<1>1. CASE UNCHANGED vars
  <2>1. /\ FamiliesUsed' /\ OneShown'
        /\ \A d \in Editors : Fresh(op[d])' <=> Fresh(op[d])
    BY <1>1
    DEF vars, ops, local, calculator, CopiesInv, FamiliesUsed, OneShown, Idle,
        Fresh, IsNew, Inserts
  <2> QED
    BY <1>1, <2>1, TabTyping DEF vars, ops, local, calculator, CopiesInv, InHand
<1>2. CASE \E t \in Tabs : Refetch(t) \/ RestoreDraft(t) \/ Restart(t)
  BY <1>2, TabCopies
<1>3. CASE \E e \in Editors : Leave(e)
  BY <1>3, LeaveCopies
<1>4. ASSUME NEW e \in Editors, Work(e)
      PROVE  CopiesInv'
  <2>1. CASE \E q \in Numbers : Open(e, q)
    BY <2>1, LoadCopies DEF Open
  <2>2. CASE SaveStart(e)
    BY <2>2, CaptureCopies DEF SaveStart, Free, Idle
  <2>3. CASE PersistRefused(e)
    <3>1. /\ UNCHANGED <<active, copies>> /\ used \subseteq used'
          /\ op[e].kind # "verifying" /\ ~Idle(e)
      BY <2>3 DEF PersistRefused, UnchangedRows, local, calculator, Idle
    <3>2. CASE End(e)
      BY <3>1, <3>2, EndCopies
    <3>3. CASE Begin(e, "conflict", op[e].mode, op[e].number, op[e].list, NoRow)
      BY <3>1, <3>3, BeginCopies
    <3> QED
      BY <2>3, <3>2, <3>3 DEF PersistRefused, Conflict
  <2> QED
    BY <1>4, <2>1, <2>2, <2>3, SaveSelectCopies, PersistCopies, SaveDoneCopies,
       SaveDoubtedCopies
    DEF Work
<1>5. ASSUME NEW e \in Editors, Dialog(e)
      PROVE  CopiesInv'
  <2>1. CASE SaveForced(e)
    BY <2>1, CaptureCopies DEF SaveForced, Idle
  <2>2. CASE Reload(e)
    <3>1. active[TabOf(e)] \in Numbers
      BY <2>2, TabTyping DEF Reload, CalculatorsOK
    <3> QED
      BY <2>2, <3>1, LoadCopies DEF Reload
  <2>3. CASE Cancel(e)
    BY <2>3, EndCopies DEF Cancel, Idle, UnchangedRows, local, calculator
  <2> QED
    BY <1>5, <2>1, <2>2, <2>3 DEF Dialog
<1> QED
  BY <1>1, <1>2, <1>3, <1>4, <1>5, ManageCopies, ReviseCopies DEF Next

(* Once the contents of a calculator are a quote whose author was told so, *)
(* saving them again only updates that quote, however its saves interleave *)
(* with those left behind, refetched lists, drafts and other quotes.       *)
THEOREM OneQuote == Spec => []OneQuotePerContents
<1>1. ASSUME Init
      PROVE  CopiesInv
  <2>1. /\ \A e \in Editors : op[e].kind = "idle"
        /\ \A t \in Tabs : active[t] = NoNumber /\ copies[t] = {}
    BY <1>1, Idling DEF Init
  <2>2. OneShown
    BY <2>1, TabTyping DEF OneShown, Idle
  <2>3. FamiliesUsed
    BY <2>1 DEF FamiliesUsed
  <2> QED
    BY <2>1, <2>2, <2>3 DEF CopiesInv, InHand
<1>2. Typing /\ CopiesInv /\ [Next]_vars => CopiesInv'
  BY CopiesStep
<1>3. CopiesInv => OneQuotePerContents
  <2> SUFFICES ASSUME CopiesInv, NEW t \in Tabs
               PROVE  Cardinality(copies[t]) <= 1
    BY DEF OneQuotePerContents
  <2>1. CASE copies[t] = {}
    BY <2>1, FS_EmptySet
  <2>2. CASE copies[t] # {}
    <3>1. PICK n \in copies[t] : copies[t] = {n}
      BY <2>2 DEF CopiesInv, InHand
    <3>2. Cardinality({n}) = 1
      BY FS_Singleton
    <3> QED
      BY <3>1, <3>2
  <2> QED
    BY <2>1, <2>2
<1> QED
  BY <1>1, <1>2, <1>3, QuoteTyping, PTL DEF Spec

-----------------------------------------------------------------------------
(* A row only changes into a later version of itself, into a new one, or   *)
(* into none; at the same version its status stays the same.               *)
RowProgress(q) ==
  \/ db'[q].id = 0 \/ db'[q].id > lastId
  \/ db'[q].id = db[q].id /\ db'[q].version > db[q].version
  \/ /\ db'[q].id = db[q].id /\ db'[q].version = db[q].version
     /\ db'[q].status = db[q].status /\ db'[q].header = db[q].header

LEMMA RowsSame ==
  ASSUME Typing, UNCHANGED db
  PROVE  \A q \in Numbers : RowProgress(q)
BY DEF RowProgress

LEMMA InsertProgress ==
  ASSUME Typing, NEW p \in Numbers, NEW row \in Row, row.id = lastId + 1,
         Insert(p, row)
  PROVE  \A q \in Numbers : RowProgress(q)
<1>1. db'[p] = row /\ \A q \in Numbers \ {p} : db'[q] = db[q]
  BY DEF RowsOK, Insert
<1>2. row.id > lastId
  BY DEF RowsOK
<1> QED
  BY <1>1, <1>2 DEF RowProgress

LEMMA WriteProgress ==
  ASSUME Typing, NEW p \in Numbers, NEW row, row.id = db[p].id,
         row.version = db[p].version + 1, Write(p, row)
  PROVE  \A q \in Numbers : RowProgress(q)
<1>1. db'[p] = row /\ \A q \in Numbers \ {p} : db'[q] = db[q]
  BY DEF RowsOK, Write
<1>2. db[p].version \in Nat
  BY ListTyping
<1> QED
  BY <1>1, <1>2 DEF RowProgress

LEMMA PersistProgress ==
  ASSUME Typing, NEW e \in Editors, Persist(e)
  PROVE  \A q \in Numbers : RowProgress(q)
<1> DEFINE o == op[e]
<1>1. PICK saved :
        saved = IF Inserts(o) THEN SavedRow(o, lastId + 1, 1)
                ELSE SavedRow(o, o.row.id, db[o.number].version + 1)
  OBVIOUS
<1>2. /\ o.kind = "selected" /\ Accepts(o)
      /\ IF Inserts(o) THEN Insert(o.number, saved) ELSE Write(o.number, saved)
  BY <1>1 DEF Persist
<1>3. IF Inserts(o) THEN lastId < MaxRows ELSE saved.version <= MaxVersion
  BY <1>2 DEF Insert, Write
<1> QED
  BY <1>1, <1>2, <1>3, SavedRowTyping, InsertProgress, WriteProgress

LEMMA ManageProgress ==
  ASSUME Typing, NEW e \in Editors, Manage(e)
  PROVE  \A q \in Numbers : RowProgress(q)
<1>1. CASE \E q \in Numbers, status \in Chosen : StatusRead(e, q, status)
  BY <1>1, RowsSame DEF StatusRead, UnchangedRows
<1>2. CASE StatusWrite(e)
  <2> DEFINE o == op[e]
             row == [db[o.number] EXCEPT !.version = db[o.number].version + 1,
                                         !.status = o.row.status]
  <2>1. CASE db[o.number].id = o.row.id /\ Write(o.number, row)
    <3>1. o.number \in Numbers /\ o.row.id # 0
      BY <1>2 DEF StatusWrite, OpsInProgress, OpInProgress, WithNumber, RowsOK
    <3>2. db[o.number] \in Row
      BY <2>1, <3>1, ListTyping
    <3>3. row.id = db[o.number].id /\ row.version = db[o.number].version + 1
      BY <3>2 DEF Row
    <3> HIDE DEF row
    <3> QED
      BY <2>1, <3>1, <3>3, WriteProgress
  <2>2. CASE UNCHANGED db
    BY <2>2, RowsSame
  <2> QED
    BY <1>2, <2>1, <2>2 DEF StatusWrite
<1>3. ASSUME NEW p \in Numbers, Delete(e, p)
      PROVE  \A q \in Numbers : RowProgress(q)
  BY <1>3, NoRowFields DEF Delete, RowsOK, RowProgress
<1>4. ASSUME NEW p \in Numbers, Duplicate(e, p)
      PROVE  \A q \in Numbers : RowProgress(q)
  <2> DEFINE row == [db[p] EXCEPT !.id = lastId + 1, !.version = 1,
                                  !.status = "draft"]
  <2>1. PICK f \in Families \ used : Insert(<<f, 0>>, row)
    BY <1>4 DEF Duplicate
  <2>2. db[p] \in Row /\ lastId + 1 \in 1 .. MaxRows
    BY <1>4, <2>1, ListTyping DEF Duplicate, Insert, RowsOK
  <2>3. row \in Row /\ row.id = lastId + 1
    BY <2>2, ConstantTyping DEF Row, Statuses
  <2> HIDE DEF row
  <2> QED
    BY <2>1, <2>3, NumberParts, InsertProgress
<1> QED
  BY <1>1, <1>2, <1>3, <1>4 DEF Manage

LEMMA ReviseProgress ==
  ASSUME Typing, NEW e \in Editors, Revise(e)
  PROVE  \A q \in Numbers : RowProgress(q)
<1> DEFINE o == op[e]
<1>1. CASE (\E q \in Numbers : ReviseRead(e, q)) \/ ReviseNumber(e)
  BY <1>1, RowsSame DEF ReviseRead, ReviseNumber, UnchangedRows
<1>2. CASE ReviseInsert(e)
  <2> DEFINE row == [id |-> lastId + 1, version |-> o.row.version,
                     status |-> "draft", header |-> o.row.version, items |-> {}]
  <2>1. o.number \in Numbers /\ o.row.version \in Versions
    BY <1>2 DEF ReviseInsert, OpsInProgress, OpInProgress, WithNumber
  <2>2. CASE Insert(o.number, row)
    <3>1. lastId + 1 \in 1 .. MaxRows
      BY <2>2 DEF Insert, RowsOK
    <3>2. row \in Row /\ row.id = lastId + 1
      BY <2>1, <3>1, RowTyping DEF Statuses
    <3> HIDE DEF row
    <3> QED
      BY <2>1, <2>2, <3>2, InsertProgress
  <2> QED
    BY <1>2, <2>2, RowsSame DEF ReviseInsert
<1>3. CASE ReviseItems(e)
  <2>1. o.number \in Numbers /\ o.row.id # 0
    BY <1>3 DEF ReviseItems, OpsInProgress, OpInProgress, WithNumber, Making, RowsOK
  <2>2. CASE /\ db[o.number].id = o.row.id
             /\ db' = [db EXCEPT ![o.number] =
                         [db[o.number] EXCEPT !.items =
                            db[o.number].items \cup {o.row.header}]]
    <3>1. db[o.number] \in Row
      BY <2>1, <2>2, ListTyping
    <3>2. PICK row : /\ db' = [db EXCEPT ![o.number] = row]
                     /\ row = [db[o.number] EXCEPT !.items =
                                 db[o.number].items \cup {o.row.header}]
      BY <2>2
    <3>3. /\ row.id = db[o.number].id /\ row.version = db[o.number].version
          /\ row.status = db[o.number].status /\ row.header = db[o.number].header
      BY <3>1, <3>2 DEF Row
    <3> QED
      BY <2>1, <3>2, <3>3 DEF RowsOK, RowProgress
  <2> QED
    BY <1>3, <2>2, RowsSame DEF ReviseItems
<1>4. CASE ReviseTotals(e)
  <2> DEFINE row == [db[o.number] EXCEPT !.version = db[o.number].version + 1,
                                         !.header = o.row.header]
  <2>1. o.number \in Numbers /\ o.row.id # 0
    BY <1>4 DEF ReviseTotals, OpsInProgress, OpInProgress, WithNumber, Making, RowsOK
  <2>2. CASE db[o.number].id = o.row.id /\ Write(o.number, row)
    <3>1. db[o.number] \in Row
      BY <2>1, <2>2, ListTyping
    <3>2. row.id = db[o.number].id /\ row.version = db[o.number].version + 1
      BY <3>1 DEF Row
    <3> HIDE DEF row
    <3> QED
      BY <2>1, <2>2, <3>2, WriteProgress
  <2> QED
    BY <1>4, <2>2, RowsSame DEF ReviseTotals
<1> QED
  BY <1>1, <1>2, <1>3, <1>4 DEF Revise

LEMMA Progress ==
  ASSUME Typing, [Next]_vars
  PROVE  \A q \in Numbers : RowProgress(q)
<1>1. CASE UNCHANGED db
  BY <1>1, RowsSame
<1>2. ASSUME NEW e \in Editors, Work(e) \/ Dialog(e)
      PROVE  UNCHANGED db \/ Persist(e)
  BY <1>2 DEF Work, Dialog, Open, Reload, Load, SaveStart, SaveForced, Cancel,
              SaveSelect, PersistRefused, SaveDone, SaveDoubted, UnchangedRows
<1>3. ASSUME NEW t \in Tabs, Refetch(t) \/ RestoreDraft(t) \/ Restart(t)
      PROVE  UNCHANGED db
  BY <1>3 DEF Refetch, RestoreDraft, Restart, UnchangedRows
<1>4. ASSUME NEW e \in Editors, Leave(e)
      PROVE  UNCHANGED db
  BY <1>4 DEF Leave, UnchangedRows
<1> QED
  BY <1>1, <1>2, <1>3, <1>4, PersistProgress, ManageProgress, ReviseProgress
  DEF Next, vars

-----------------------------------------------------------------------------
(* A save about to be written looked up the row at the version its browser *)
(* has; as long as the row has that version it has that status, too.       *)
LookedUp(o) == o.kind = "selected" /\ ~Inserts(o)

SameVersionSameStatus ==
  \A e \in Editors :
    LookedUp(op[e]) =>
      /\ op[e].mode = "plain" => LocalVersion(op[e]) = op[e].row.version
      /\ op[e].row.version \in Nat
      /\ db[op[e].number].id = op[e].row.id =>
           /\ op[e].row.version <= db[op[e].number].version
           /\ op[e].row.version = db[op[e].number].version =>
                op[e].row.status = db[op[e].number].status

LEMMA SelectedBySelect ==
  ASSUME Typing, [Next]_vars, NEW e \in Editors
  PROVE  op'[e] = op[e] \/ ~LookedUp(op'[e]) \/ SaveSelect(e)
<1>1. ASSUME NEW x \in Editors, NEW o, op' = [op EXCEPT ![x] = o],
             o.kind # "selected"
      PROVE  op'[e] = op[e] \/ ~LookedUp(op'[e])
  BY <1>1 DEF LookedUp
<1>2. NoOp.kind # "selected"
  BY Idling
<1>3. CASE UNCHANGED op
  BY <1>3
<1>4. ASSUME NEW x \in Editors, End(x)
      PROVE  op'[e] = op[e] \/ ~LookedUp(op'[e])
  BY <1>1, <1>2, <1>4 DEF End
<1>5. ASSUME NEW x \in Editors, NEW kind, NEW mode, NEW q, NEW list, NEW row,
             Begin(x, kind, mode, q, list, row), kind # "selected"
      PROVE  op'[e] = op[e] \/ ~LookedUp(op'[e])
  BY <1>5 DEF LookedUp, Begin
<1>6. ASSUME NEW x \in Editors, Work(x)
      PROVE  op'[e] = op[e] \/ ~LookedUp(op'[e]) \/ SaveSelect(e)
  <2>1. CASE SaveSelect(x)
    <3>1. x # e => op'[e] = op[e]
      BY <2>1 DEF SaveSelect, Conflict, Begin, End
    <3> QED
      BY <2>1, <3>1
  <2>2. CASE SaveStart(x)
    BY <1>5, <2>2 DEF SaveStart, Capture
  <2>3. CASE Persist(x)
    <3>1. End(x) \/ \E q, mode, list, row : Begin(x, "verifying", mode, q, list, row)
      BY <2>3 DEF Persist
    <3> QED
      BY <1>4, <1>5, <3>1
  <2>4. CASE PersistRefused(x)
    BY <1>4, <1>5, <2>4 DEF PersistRefused, Conflict
  <2> QED
    BY <1>3, <1>4, <1>6, <2>1, <2>2, <2>3, <2>4
    DEF Work, Open, ops, SaveDone, SaveDoubted
<1>7. ASSUME NEW x \in Editors, Dialog(x)
      PROVE  op'[e] = op[e] \/ ~LookedUp(op'[e])
  BY <1>4, <1>5, <1>7 DEF Dialog, SaveForced, Capture, Reload, Cancel
<1>8. ASSUME NEW x \in Editors, Manage(x)
      PROVE  op'[e] = op[e] \/ ~LookedUp(op'[e])
  BY <1>3, <1>4, <1>5, <1>8 DEF Manage, StatusRead, StatusWrite, Delete, Duplicate, ops
<1>9. ASSUME NEW x \in Editors, Revise(x)
      PROVE  op'[e] = op[e] \/ ~LookedUp(op'[e])
  BY <1>4, <1>5, <1>9
  DEF Revise, ReviseRead, ReviseNumber, ReviseInsert, ReviseItems, ReviseTotals
<1>10. ASSUME NEW t \in Tabs, Restart(t)
       PROVE  op'[e] = op[e] \/ ~LookedUp(op'[e])
  BY <1>2, <1>10 DEF Restart, LookedUp
<1> QED
  BY <1>3, <1>6, <1>7, <1>8, <1>9, <1>10
  DEF Next, Refetch, RestoreDraft, Leave, ops, vars

LEMMA SelectionAgrees ==
  ASSUME Typing, NEW e \in Editors, SaveSelect(e), LookedUp(op'[e])
  PROVE  LET o == op'[e] IN
         /\ o.mode = "plain" => LocalVersion(o) = o.row.version
         /\ o.row.version \in Nat
         /\ o.row.version = db'[o.number].version
         /\ o.row.status = db'[o.number].status
<1> DEFINE o == op[e]
<1>1. o.kind = "captured" /\ o.number \in Numbers \cup {NoNumber} /\ UNCHANGED db
  BY OperationFields DEF SaveSelect, UnchangedRows
<1>2. PICK row \in Found(o.number) :
        /\ row # NoRow /\ ~Mismatch(o, row)
        /\ Begin(e, "selected", o.mode, o.number, o.list, Key(row))
  BY Idling DEF SaveSelect, Conflict, LookedUp, Inserts, Begin, End
<1>3. o.number \in Numbers /\ row = db[o.number] /\ row \in KeyRow
  BY <1>1, <1>2, ListTyping DEF Found
<1>4. op'[e] = [kind |-> "selected", mode |-> o.mode, number |-> o.number,
                list |-> o.list, row |-> Key(row)]
  BY <1>2 DEF Begin
<1> QED
  BY <1>1, <1>2, <1>3, <1>4, KeyTyping, KeyRowFields DEF Mismatch, LocalVersion

LEMMA LockingStep ==
  ASSUME Typing, SameVersionSameStatus, [Next]_vars
  PROVE  SameVersionSameStatus'
<1> SUFFICES
      ASSUME NEW e \in Editors, LookedUp(op'[e])
      PROVE  LET o == op'[e] IN
             /\ o.mode = "plain" => LocalVersion(o) = o.row.version
             /\ o.row.version \in Nat
             /\ db'[o.number].id = o.row.id =>
                  /\ o.row.version <= db'[o.number].version
                  /\ o.row.version = db'[o.number].version =>
                       o.row.status = db'[o.number].status
  BY DEF SameVersionSameStatus, LookedUp, LocalVersion, Inserts
<1>1. CASE SaveSelect(e)
  BY <1>1, SelectionAgrees
<1>2. CASE op'[e] = op[e]
  <2> DEFINE o == op[e]
             q == o.number
  <2>1. q \in Numbers /\ o.row.id \in 1 .. lastId
    BY <1>2 DEF LookedUp, OpsInProgress, OpInProgress, WithNumber
  <2>2. RowProgress(q) /\ db[q].version \in Nat /\ lastId \in Nat
    BY <2>1, Progress, ListTyping DEF RowsOK
  <2>3. /\ o.mode = "plain" => LocalVersion(o) = o.row.version
        /\ o.row.version \in Nat
        /\ db[q].id = o.row.id =>
             /\ o.row.version <= db[q].version
             /\ o.row.version = db[q].version => o.row.status = db[q].status
    BY <1>2 DEF SameVersionSameStatus
  <2>4. ASSUME db'[q].id = o.row.id
        PROVE  /\ o.row.version <= db'[q].version
               /\ o.row.version = db'[q].version => o.row.status = db'[q].status
    <3>1. CASE db'[q].id = db[q].id /\ db'[q].version > db[q].version
      <4>1. db'[q] \in Row \cup {NoRow}
        <5>1. RowsOK'
          BY TypingStep
        <5> QED
          BY <2>1, <5>1 DEF RowsOK
      <4>2. db'[q].version \in Nat
        BY <4>1, RowFields, NoRowFields DEF Versions
      <4> QED
        BY <2>2, <2>3, <2>4, <3>1, <4>2
    <3>2. CASE db'[q].id = 0 \/ db'[q].id > lastId
      BY <2>1, <2>2, <2>4, <3>2
    <3> QED
      BY <2>2, <2>3, <2>4, <3>1, <3>2 DEF RowProgress
  <2> QED
    BY <1>2, <2>3, <2>4
<1> QED
  BY <1>1, <1>2, SelectedBySelect

LEMMA Locking == Spec => []SameVersionSameStatus
<1>1. Init => SameVersionSameStatus
  BY Idling DEF Init, SameVersionSameStatus, LookedUp
<1>2. Typing /\ SameVersionSameStatus /\ [Next]_vars => SameVersionSameStatus'
  BY LockingStep
<1> QED
  BY <1>1, <1>2, QuoteTyping, PTL DEF Spec

-----------------------------------------------------------------------------
(* How a step of the browsers shows in what the abstract quotes are made   *)
(* of.                                                                     *)
LEMMA RowsMapped ==
  ASSUME RowsOK
  PROVE  /\ DOMAIN Rows = Numbers
         /\ \A q \in Numbers :
              /\ Rows[q].version = db[q].version
              /\ Rows[q].status = db[q].status
              /\ Rows[q].contents = db[q].header
              /\ Rows[q] = [version |-> db[q].version, status |-> db[q].status,
                            contents |-> db[q].header]
              /\ Rows[q] = Promise!None <=> ~Exists(q)
<1>1. \A q \in Numbers : db[q] = NoRow => Rows[q] = Promise!None
  BY NoRowFields DEF Rows, Promise!None
<1>2. \A q \in Numbers : db[q].version # 0 => Rows[q] # Promise!None
  BY DEF Rows, Promise!None
<1> QED
  BY <1>1, <1>2, ListTyping DEF Rows, Exists

LEMMA RowsUnchangedMapped ==
  ASSUME \A q \in Numbers : /\ db'[q].version = db[q].version
                            /\ db'[q].status = db[q].status
                            /\ db'[q].header = db[q].header
  PROVE  Rows' = Rows
BY DEF Rows

LEMMA RowsChangedMapped ==
  ASSUME NEW q \in Numbers, NEW row, db'[q] = row,
         \A p \in Numbers \ {q} : db'[p] = db[p]
  PROVE  Rows' = [Rows EXCEPT ![q] = [version |-> row.version,
                                      status |-> row.status,
                                      contents |-> row.header]]
BY DEF Rows

LEMMA GivenMapped ==
  /\ GivenTo \in [Tabs -> SUBSET (Numbers \X Nat)]
  /\ \A t \in Tabs : GivenTo[t] = Given(t)
BY DEF GivenTo, Given, Versions

(* What a page holds, and the list of its tab.                             *)
Held(e) ==
  {g \in Numbers \X Versions :
     \/ store[TabOf(e)][g[1]] = g[2]
     \/ op[e].list[g[1]] = g[2]
     \/ /\ op[e].kind = "verifying"
        /\ g = <<op[e].number, op[e].row.version>>}

LEMMA HeldGiven ==
  \A e \in Editors : Held(e) \subseteq Given(TabOf(e))
BY TabTyping DEF Held, Given

(* What a page comes to hold, its tab held already or it is of S.          *)
LEMMA LearnMapped ==
  ASSUME NEW e \in Editors, NEW t \in Tabs, t = TabOf(e), NEW S,
         \A x \in Tabs \ {t} : store'[x] = store[x],
         \A x \in Editors \ {e} : op'[x] = op[x],
         Held(e)' \subseteq Held(e) \cup S
  PROVE  Promise!Learn(t, S)
<1>1. GivenTo' \in [Tabs -> SUBSET (Numbers \X Nat)]
  BY DEF GivenTo, Given, Versions
<1>2. \A x \in Tabs : GivenTo'[x] = Given(x)'
  BY DEF GivenTo
<1>3. \A x \in Tabs \ {t} : Given(x)' = Given(x)
  <2>1. \A x \in Tabs \ {t} : \A d \in x : op'[d] = op[d]
    BY TabTyping
  <2> QED
    BY <2>1 DEF Given
<1>4. Given(t)' \subseteq Given(t) \cup S
  <2> SUFFICES ASSUME NEW g \in Given(t)' PROVE g \in Given(t) \cup S
    OBVIOUS
  <2>1. \A d \in t : d \in Editors
    BY TabTyping
  <2>2. CASE g \in Held(e)'
    BY <2>2, HeldGiven
  <2>3. CASE g \notin Held(e)'
    <3>1. PICK d \in t \ {e} :
            \/ op'[d].list[g[1]] = g[2]
            \/ /\ op'[d].kind = "verifying"
               /\ g = <<op'[d].number, op'[d].row.version>>
      BY <2>3, TabTyping DEF Given, Held
    <3>2. op'[d] = op[d] /\ g \in Numbers \X Versions
      BY <2>1, <3>1 DEF Given
    <3> QED
      BY <3>1, <3>2 DEF Given
  <2> QED
    BY <2>2, <2>3
<1> QED
  BY <1>1, <1>2, <1>3, <1>4, GivenMapped DEF Promise!Learn

LEMMA InsistingMapped ==
  ASSUME NEW e \in Editors, NEW t \in Tabs, t = TabOf(e),
         \A x \in Editors \ {e} : op'[x] = op[x]
  PROVE  /\ (e \in Overwriting' => e \in Overwriting) =>
              Promise!CeaseInsisting(t)
         /\ (e \in Overwriting' <=> e \in Overwriting) =>
              Overwriting' = Overwriting
         /\ e \in Overwriting' => Overwriting' = Overwriting \cup {e}
         /\ e \notin Overwriting' => Overwriting' = Overwriting \ {e}
BY TabTyping DEF Overwriting, Promise!CeaseInsisting

LEMMA ReadMapped ==
  ASSUME Typing, NEW e \in Editors, NEW t \in Tabs, t = TabOf(e),
         \A x \in Tabs \ {t} : store'[x] = store[x],
         \A x \in Editors \ {e} : op'[x] = op[x],
         \A q \in Numbers : /\ db'[q].version = db[q].version
                            /\ db'[q].status = db[q].status
                            /\ db'[q].header = db[q].header,
         Held(e)' \subseteq
           Held(e) \cup {<<q, db[q].version>> : q \in Numbers},
         e \in Overwriting' => e \in Overwriting
  PROVE  Promise!Read(t)
<1>1. Rows' = Rows
  BY RowsUnchangedMapped
<1>2. {<<q, Rows[q].version>> : q \in Numbers}
        = {<<q, db[q].version>> : q \in Numbers}
  BY RowsMapped
<1>3. Promise!Learn(t, {<<q, Rows[q].version>> : q \in Numbers})
  BY <1>2, LearnMapped
<1>4. Promise!CeaseInsisting(t)
  BY InsistingMapped
<1> QED
  BY <1>1, <1>3, <1>4 DEF Promise!Read

(* An operation replaced by one that holds no list, or the same one.       *)
LEMMA QuietMapped ==
  ASSUME Typing, NEW e \in Editors, NEW t \in Tabs, t = TabOf(e), UNCHANGED <<db, store>>,
         NEW o, op' = [op EXCEPT ![e] = o], o.kind # "verifying",
         o.list \in {EmptyList, op[e].list, store[t]},
         o.mode # "forced" \/ o.kind \notin {"captured", "selected"}
           \/ e \in Overwriting
  PROVE  Promise!Read(t)
<1>1. /\ op'[e] = o /\ \A x \in Editors \ {e} : op'[x] = op[x]
  OBVIOUS
<1>2. \A g \in Numbers \X Versions : EmptyList[g[1]] # g[2]
  BY DEF EmptyList, Versions
<1>3. Held(e)' \subseteq Held(e)
  BY <1>1, <1>2 DEF Held
<1>4. e \in Overwriting' => e \in Overwriting
  BY <1>1 DEF Overwriting
<1> QED
  BY <1>1, <1>3, <1>4, ReadMapped

LEMMA EndMapped ==
  ASSUME Typing, NEW e \in Editors, NEW t \in Tabs, t = TabOf(e), UNCHANGED <<db, store>>, End(e)
  PROVE  Promise!Read(t)
BY Idling, QuietMapped DEF End

LEMMA CurrentListMapped ==
  ASSUME Typing
  PROVE  \A g \in Numbers \X Versions :
           CurrentList[g[1]] = g[2] => g \in {<<q, db[q].version>> : q \in Numbers}
BY DEF CurrentList

LEMMA RefetchMapped ==
  ASSUME Typing, NEW t \in Tabs, Refetch(t)
  PROVE  Promise!Read(t)
<1>1. /\ store'[t] = CurrentList /\ UNCHANGED <<db, op>>
      /\ \A x \in Tabs \ {t} : store'[x] = store[x]
  BY DEF Refetch, UnchangedRows, CalculatorsOK, ops
<1>2. Given(t)' \subseteq Given(t) \cup {<<q, db[q].version>> : q \in Numbers}
  BY <1>1, CurrentListMapped DEF Given
<1>3. Rows' = Rows /\ Overwriting' = Overwriting
  BY <1>1 DEF Rows, Overwriting
<1>4. {<<q, Rows[q].version>> : q \in Numbers}
        = {<<q, db[q].version>> : q \in Numbers}
  BY RowsMapped
<1>5. GivenTo' \in [Tabs -> SUBSET (Numbers \X Nat)]
  BY DEF GivenTo, Given, Versions
<1>6. \A x \in Tabs : GivenTo'[x] = Given(x)'
  BY DEF GivenTo
<1>7. \A x \in Tabs \ {t} : Given(x)' = Given(x)
  BY <1>1 DEF Given
<1>8. Promise!Learn(t, {<<q, Rows[q].version>> : q \in Numbers})
  BY <1>2, <1>4, <1>5, <1>6, <1>7, GivenMapped DEF Promise!Learn
<1> QED
  BY <1>3, <1>8 DEF Promise!Read, Promise!CeaseInsisting

LEMMA LoadMapped ==
  ASSUME Typing, NEW e \in Editors, NEW t \in Tabs, t = TabOf(e), NEW q,
         NEW clone, Load(t, q, clone), UNCHANGED op \/ End(e)
  PROVE  Promise!Read(t)
<1>1. /\ store'[t] = CurrentList /\ UNCHANGED db
      /\ op'[e] = op[e] \/ op'[e] = NoOp
      /\ \A x \in Tabs \ {t} : store'[x] = store[x]
      /\ \A x \in Editors \ {e} : op'[x] = op[x]
  BY DEF Load, UnchangedRows, CalculatorsOK, End
<1>2. \A g \in Numbers \X Versions : EmptyList[g[1]] # g[2]
  BY DEF EmptyList, Versions
<1>3. Held(e)' \subseteq Held(e) \cup {<<p, db[p].version>> : p \in Numbers}
  BY <1>1, <1>2, CurrentListMapped, Idling DEF Held
<1>4. e \in Overwriting' => e \in Overwriting
  BY <1>1, Idling DEF Overwriting
<1> QED
  BY <1>1, <1>3, <1>4, ReadMapped

LEMMA RestartMapped ==
  ASSUME Typing, NEW t \in Tabs, Restart(t)
  PROVE  Promise!Read(t)
<1>1. /\ store'[t] = EmptyList /\ UNCHANGED db
      /\ \A x \in Tabs \ {t} : store'[x] = store[x]
      /\ \A d \in Editors : op'[d] = IF d \in t THEN NoOp ELSE op[d]
  BY DEF Restart, CalculatorsOK
<1>2. \A g \in Numbers \X Versions : EmptyList[g[1]] # g[2]
  BY DEF EmptyList, Versions
<1>3. Given(t)' = {}
  BY <1>1, <1>2, Idling, TabTyping DEF Given
<1>4. \A x \in Tabs \ {t} : Given(x)' = Given(x)
  <2>1. \A x \in Tabs \ {t} : \A d \in x : op'[d] = op[d]
    BY <1>1, TabTyping
  <2> QED
    BY <1>1, <2>1 DEF Given
<1>5. GivenTo' \in [Tabs -> SUBSET (Numbers \X Nat)]
  BY DEF GivenTo, Given, Versions
<1>6. \A x \in Tabs : GivenTo'[x] = Given(x)'
  BY DEF GivenTo
<1>7. Promise!Learn(t, {<<q, Rows[q].version>> : q \in Numbers})
  BY <1>3, <1>4, <1>5, <1>6, GivenMapped DEF Promise!Learn
<1>8. Rows' = Rows
  BY <1>1 DEF Rows
<1>9. Overwriting' = Overwriting \ t
  BY <1>1, Idling DEF Overwriting
<1> QED
  BY <1>7, <1>8, <1>9 DEF Promise!Read, Promise!CeaseInsisting

LEMMA SaveStartMapped ==
  ASSUME Typing, NEW e \in Editors, NEW t \in Tabs, t = TabOf(e), SaveStart(e)
  PROVE  Promise!Read(t)
<1> DEFINE o == [kind |-> "captured", mode |-> "plain", number |-> active[TabOf(e)],
                 list |-> store[TabOf(e)], row |-> NoRow]
<1>1. op' = [op EXCEPT ![e] = o] /\ UNCHANGED <<db, store>>
  BY DEF SaveStart, Capture, Begin, UnchangedRows, local
<1>2. o.list = store[t] /\ o.kind # "verifying" /\ o.mode # "forced"
  OBVIOUS
<1> HIDE DEF o
<1> QED
  BY <1>1, <1>2, QuietMapped

LEMMA SaveForcedMapped ==
  ASSUME Typing, NEW e \in Editors, NEW t \in Tabs, t = TabOf(e), SaveForced(e)
  PROVE  Promise!Insist(t, e)
<1>1. /\ op'[e] = [kind |-> "captured", mode |-> "forced", number |-> active[TabOf(e)],
                   list |-> store[TabOf(e)],
                 row |-> NoRow]
      /\ \A x \in Editors \ {e} : op'[x] = op[x]
      /\ UNCHANGED <<db, store>>
  BY DEF SaveForced, Capture, Begin, UnchangedRows, local
<1>2. Held(e)' \subseteq Held(e) \cup {}
  BY <1>1 DEF Held
<1>3. Promise!Learn(t, {})
  BY <1>1, <1>2, LearnMapped
<1>4. e \in Overwriting'
  BY <1>1 DEF Overwriting
<1>5. Overwriting' = Overwriting \cup {e}
  BY <1>1, <1>4, InsistingMapped
<1>6. Rows' = Rows
  BY <1>1, RowsUnchangedMapped
<1> QED
  BY <1>3, <1>5, <1>6 DEF Promise!Insist

LEMMA SaveSelectMapped ==
  ASSUME Typing, NEW e \in Editors, NEW t \in Tabs, t = TabOf(e), SaveSelect(e)
  PROVE  Promise!Read(t)
<1> DEFINE o == op[e]
<1>1. o.kind = "captured" /\ UNCHANGED <<db, store>>
  BY DEF SaveSelect, UnchangedRows, local
<1>2. CASE End(e)
  BY <1>1, <1>2, EndMapped
<1>3. CASE \E kind \in {"conflict", "selected"} : \E q, row :
             Begin(e, kind, o.mode, q, o.list, row)
  <2> PICK kind \in {"conflict", "selected"} : \E q, row :
         Begin(e, kind, o.mode, q, o.list, row)
    BY <1>3
  <2> PICK q, row : Begin(e, kind, o.mode, q, o.list, row)
    OBVIOUS
  <2> DEFINE n == [kind |-> kind, mode |-> o.mode, number |-> q,
                   list |-> o.list, row |-> row]
  <2>1. /\ op' = [op EXCEPT ![e] = n] /\ n.kind = kind /\ n.list = o.list
        /\ n.mode = o.mode
    BY DEF Begin
  <2>2. o.mode = "forced" => e \in Overwriting
    BY <1>1 DEF Overwriting
  <2> HIDE DEF n
  <2> QED
    BY <1>1, <2>1, <2>2, QuietMapped
<1> QED
  BY <1>2, <1>3 DEF SaveSelect, Conflict

LEMMA PersistRefusedMapped ==
  ASSUME Typing, NEW e \in Editors, NEW t \in Tabs, t = TabOf(e), PersistRefused(e)
  PROVE  Promise!Read(t)
<1> DEFINE o == op[e]
           n == [kind |-> "conflict", mode |-> o.mode, number |-> o.number,
                 list |-> o.list, row |-> NoRow]
<1>1. UNCHANGED <<db, store>>
  BY DEF PersistRefused, UnchangedRows, local
<1>2. End(e) \/ op' = [op EXCEPT ![e] = n]
  BY DEF PersistRefused, Conflict, Begin
<1>3. n.kind = "conflict" /\ n.list = o.list
  OBVIOUS
<1> HIDE DEF n
<1> QED
  BY <1>1, <1>2, <1>3, EndMapped, QuietMapped

LEMMA SaveDoneMapped ==
  ASSUME Typing, NEW e \in Editors, NEW t \in Tabs, t = TabOf(e), SaveDone(e)
  PROVE  Promise!Read(t)
<1> DEFINE o == op[e]
           list == [o.list EXCEPT ![o.number] = o.row.version]
<1>1. /\ store'[t] = list /\ UNCHANGED db /\ op'[e] = NoOp
      /\ \A x \in Tabs \ {t} : store'[x] = store[x]
      /\ \A x \in Editors \ {e} : op'[x] = op[x]
      /\ o.kind = "verifying"
  BY DEF SaveDone, UnchangedRows, CalculatorsOK, End
<1>2. o.list \in [Numbers -> 0 .. MaxVersion]
  BY OperationFields DEF Lists
<1>3. \A g \in Numbers \X Versions :
        list[g[1]] = g[2] => o.list[g[1]] = g[2] \/ g = <<o.number, o.row.version>>
  BY <1>2
<1>4. \A g \in Numbers \X Versions : EmptyList[g[1]] # g[2]
  BY DEF EmptyList, Versions
<1> HIDE DEF list
<1>5. Held(e)' \subseteq Held(e)
  BY <1>1, <1>3, <1>4, Idling DEF Held
<1>6. e \in Overwriting' => e \in Overwriting
  BY <1>1, Idling DEF Overwriting
<1> QED
  BY <1>1, <1>5, <1>6, ReadMapped

LEMMA PersistMapped ==
  ASSUME Typing, SameVersionSameStatus, NEW e \in Editors, NEW t \in Tabs, t = TabOf(e), Persist(e)
  PROVE  \E q \in Numbers :
           Promise!Create(t, q) \/ Promise!Save(t, q) \/ Promise!Overwrite(t, e, q)
<1> DEFINE o == op[e]
           q == o.number
<1>1. PICK saved :
        saved = IF Inserts(o) THEN SavedRow(o, lastId + 1, 1)
                ELSE SavedRow(o, o.row.id, db[o.number].version + 1)
  OBVIOUS
<1>2. /\ o.kind = "selected" /\ Accepts(o) /\ UNCHANGED store
      /\ IF Inserts(o) THEN Insert(q, saved) ELSE Write(q, saved)
      /\ Begin(e, "verifying", o.mode, q, o.list, saved) \/ End(e)
  BY <1>1 DEF Persist
<1>3. /\ q \in Numbers /\ saved \in Row /\ saved.header = saved.version
      /\ Inserts(o) => ~Exists(q) /\ saved.version = 1 /\ saved.status = "draft"
      /\ ~Inserts(o) => /\ Exists(q) /\ VersionMatches(o)
                        /\ saved.id = db[q].id /\ saved.id = o.row.id
                        /\ saved.version = db[q].version + 1
                        /\ saved.status = o.row.status
  <2>1. IF Inserts(o) THEN lastId < MaxRows ELSE saved.version <= MaxVersion
    BY <1>2 DEF Insert, Write
  <2> QED
    BY <1>1, <1>2, <2>1, SavedRowTyping
<1>4. db'[q] = saved /\ \A p \in Numbers \ {q} : db'[p] = db[p]
  BY <1>2, <1>3 DEF Insert, Write, RowsOK
<1>5. Rows' = [Rows EXCEPT ![q] = [version |-> saved.version,
                                   status |-> saved.status,
                                   contents |-> saved.version]]
  BY <1>3, <1>4, RowsChangedMapped
<1>6. /\ \/ /\ op'[e].kind = "verifying" /\ op'[e].list = o.list
            /\ op'[e].row = saved /\ op'[e].number = q
         \/ op'[e] = NoOp
      /\ \A x \in Tabs \ {t} : store'[x] = store[x]
      /\ \A x \in Editors \ {e} : op'[x] = op[x]
  BY <1>2 DEF Begin, End
<1>7. Promise!Learn(t, {<<q, saved.version>>})
  <2>1. \A g \in Numbers \X Versions : EmptyList[g[1]] # g[2]
    BY DEF EmptyList, Versions
  <2>2. Held(e)' \subseteq Held(e) \cup {<<q, saved.version>>}
    BY <1>2, <1>6, <2>1, Idling DEF Held
  <2> QED
    BY <1>6, <2>2, LearnMapped
<1>8. /\ e \notin Overwriting' /\ Overwriting' = Overwriting \ {e}
      /\ o.mode = "forced" <=> e \in Overwriting
      /\ Promise!CeaseInsisting(t)
  <2>1. e \notin Overwriting'
    BY <1>6, Idling DEF Overwriting
  <2>2. o.mode = "forced" <=> e \in Overwriting
    BY <1>2 DEF Overwriting
  <2> QED
    BY <1>6, <2>1, <2>2, InsistingMapped
<1>9. CASE Inserts(o)
  <2>1. 1 \in Versions /\ Rows[q] = Promise!None
    BY <1>3, <1>9, RowsMapped, ConstantTyping
  <2>2. Rows' = [Rows EXCEPT ![q] = [version |-> 1, status |-> "draft",
                                     contents |-> 1]]
    BY <1>3, <1>5, <1>9
  <2>3. Promise!Learn(t, {<<q, 1>>})
    BY <1>3, <1>7, <1>9
  <2>4. Promise!Create(t, q)
    BY <1>8, <2>1, <2>2, <2>3 DEF Promise!Create
  <2> QED
    BY <1>3, <2>4
<1>10. CASE ~Inserts(o)
  <2>1. /\ Rows[q] # Promise!None /\ Rows[q].version = db[q].version
        /\ Rows[q].status = db[q].status /\ db[q].version \in Versions
        /\ saved.status \in Statuses
    BY <1>3, <1>10, RowsMapped, ListTyping, RowFields
  <2>2. Promise!Become(q, saved.status, Rows[q].version + 1)
    BY <1>3, <1>5, <1>10, <2>1 DEF Promise!Become
  <2>3. Promise!Learn(t, {<<q, Rows[q].version + 1>>})
    BY <1>3, <1>7, <1>10, <2>1
  <2>4. CASE o.mode = "forced"
    <3>1. Promise!Overwrite(t, e, q)
      BY <1>8, <2>1, <2>2, <2>3, <2>4 DEF Promise!Overwrite
    <3> QED
      BY <1>3, <3>1
  <2>5. CASE o.mode # "forced"
    <3>1. db[q].version = LocalVersion(o) /\ o.mode = "plain"
      BY <1>2, <1>3, <1>10, <2>5 DEF VersionMatches, OpsInProgress, OpInProgress,
                                     Saving, Operations
    <3>2. saved.status = Rows[q].status
      BY <1>2, <1>3, <1>10, <2>1, <3>1 DEF SameVersionSameStatus, LookedUp
    <3>3. <<q, Rows[q].version>> \in GivenTo[t] \cup {<<q, 1>>}
      <4>1. o.list[q] = db[q].version \/ db[q].version = 1
        BY <3>1 DEF LocalVersion
      <4> QED
        BY <1>3, <2>1, <4>1, GivenMapped, TabTyping DEF Given
    <3>4. Overwriting' = Overwriting
      BY <1>8, <2>5
    <3>5. Promise!Save(t, q)
      BY <2>1, <2>2, <2>3, <3>2, <3>3, <3>4 DEF Promise!Save
    <3> QED
      BY <1>3, <3>5
  <2> QED
    BY <2>4, <2>5
<1> QED
  BY <1>9, <1>10

LEMMA StatusReadMapped ==
  ASSUME Typing, NEW e \in Editors, NEW t \in Tabs, t = TabOf(e), NEW q \in Numbers, NEW status \in Chosen,
         StatusRead(e, q, status)
  PROVE  Promise!Read(t)
<1> DEFINE n == [kind |-> "restatus", mode |-> "plain", number |-> q,
                 list |-> EmptyList,
                 row |-> [Key(db[q]) EXCEPT !.status = status]]
<1>1. op' = [op EXCEPT ![e] = n] /\ UNCHANGED <<db, store>>
  BY DEF StatusRead, Begin, UnchangedRows, local
<1>2. n.kind = "restatus" /\ n.list = EmptyList
  OBVIOUS
<1> HIDE DEF n
<1> QED
  BY <1>1, <1>2, QuietMapped

(* Only rows change: what the browsers hold may only become less.          *)
LEMMA ForgetMapped ==
  ASSUME Typing, NEW e \in Editors, NEW t \in Tabs, t = TabOf(e), UNCHANGED store,
         UNCHANGED op \/ (End(e) /\ op[e].kind \notin {"captured", "selected"})
  PROVE  Promise!Learn(t, {}) /\ Overwriting' = Overwriting
<1>1. /\ \A x \in Tabs \ {t} : store'[x] = store[x]
      /\ \A x \in Editors \ {e} : op'[x] = op[x]
      /\ \/ op'[e] = op[e]
         \/ op'[e] = NoOp /\ op[e].kind \notin {"captured", "selected"}
  BY DEF End
<1>2. \A g \in Numbers \X Versions : EmptyList[g[1]] # g[2]
  BY DEF EmptyList, Versions
<1>3. Held(e)' \subseteq Held(e) \cup {}
  BY <1>1, <1>2, Idling DEF Held
<1>4. e \in Overwriting' <=> e \in Overwriting
  BY <1>1, Idling DEF Overwriting
<1>5. Promise!Learn(t, {})
  BY <1>1, <1>3, LearnMapped
<1>6. Overwriting' = Overwriting
  BY <1>1, <1>4, InsistingMapped
<1> QED
  BY <1>5, <1>6

LEMMA StatusWriteMapped ==
  ASSUME Typing, NEW e \in Editors, NEW t \in Tabs, t = TabOf(e), StatusWrite(e)
  PROVE  Promise!Read(t) \/ \E q \in Numbers : Promise!ChangeStatus(t, q)
<1> DEFINE o == op[e]
           q == o.number
           row == [db[q] EXCEPT !.version = db[q].version + 1,
                                !.status = o.row.status]
<1>1. /\ o.kind = "restatus" /\ End(e) /\ UNCHANGED store
      /\ (db[q].id = o.row.id /\ Write(q, row)) \/ UNCHANGED db
  BY DEF StatusWrite, local
<1>2. CASE UNCHANGED db
  BY <1>1, <1>2, EndMapped
<1>3. CASE db[q].id = o.row.id /\ Write(q, row)
  <2>1. q \in Numbers /\ o.row.id # 0 /\ o.row.status \in Statuses
    BY <1>1 DEF OpsInProgress, OpInProgress, WithNumber, RowsOK
  <2>2. db[q] \in Row /\ Exists(q)
    BY <1>3, <2>1, ListTyping
  <2>3. /\ row.version = db[q].version + 1 /\ row.status = o.row.status
        /\ row.header = db[q].header
    BY <2>2 DEF Row
  <2> HIDE DEF row
  <2>4. db'[q] = row /\ \A p \in Numbers \ {q} : db'[p] = db[p]
    BY <1>3, <2>1 DEF Write, RowsOK
  <2>5. Promise!Become(q, o.row.status, Rows[q].contents)
    BY <2>1, <2>3, <2>4, RowsMapped, RowsChangedMapped DEF Promise!Become
  <2>6. Rows[q] # Promise!None
    BY <2>1, <2>2, RowsMapped
  <2>7. Promise!Learn(t, {}) /\ Overwriting' = Overwriting
    BY <1>1, ForgetMapped
  <2>8. Promise!ChangeStatus(t, q)
    BY <2>1, <2>5, <2>6, <2>7 DEF Promise!ChangeStatus
  <2> QED
    BY <2>1, <2>8
<1> QED
  BY <1>1, <1>2, <1>3

LEMMA DeleteMapped ==
  ASSUME Typing, NEW e \in Editors, NEW t \in Tabs, t = TabOf(e), NEW q \in Numbers, Delete(e, q)
  PROVE  Promise!Delete(t, q)
<1>1. /\ db'[q] = NoRow /\ \A p \in Numbers \ {q} : db'[p] = db[p]
      /\ UNCHANGED op
  BY DEF Delete, RowsOK, ops
<1>2. Rows' = [Rows EXCEPT ![q] = Promise!None]
  BY <1>1, NoRowFields, RowsChangedMapped DEF Promise!None
<1>3. /\ \A p \in Numbers : store'[t][p] = IF p = q THEN 0 ELSE store[t][p]
      /\ \A x \in Tabs \ {t} : store'[x] = store[x]
  <2>1. store[t] \in Lists /\ store \in [Tabs -> Lists]
    BY DEF CalculatorsOK
  <2>2. store' = [store EXCEPT ![t] = [store[t] EXCEPT ![q] = 0]]
    BY DEF Delete
  <2> QED
    BY <2>1, <2>2 DEF Lists
<1>4. Held(e)' \subseteq Held(e) \cup {}
  BY <1>1, <1>3 DEF Held, Versions
<1>5. Promise!Learn(t, {})
  BY <1>1, <1>3, <1>4, LearnMapped
<1>6. Overwriting' = Overwriting
  BY <1>1 DEF Overwriting
<1> QED
  BY <1>2, <1>5, <1>6 DEF Promise!Delete

(* A row is inserted, and nobody is told.                                  *)
LEMMA CreateMapped ==
  ASSUME Typing, NEW e \in Editors, NEW t \in Tabs, t = TabOf(e), NEW q \in Numbers, ~Exists(q),
         NEW row \in Row, row.status = "draft",
         db'[q] = row, \A p \in Numbers \ {q} : db'[p] = db[p],
         Promise!Learn(t, {}), Overwriting' = Overwriting
  PROVE  Promise!Create(t, q)
<1>1. Rows' = [Rows EXCEPT ![q] = [version |-> row.version, status |-> "draft",
                                   contents |-> row.header]]
  BY RowsChangedMapped
<1>2. row.version \in Versions /\ row.header \in Versions
  BY RowFields
<1>3. Promise!Learn(t, {<<q, row.version>>})
  BY DEF Promise!Learn
<1>4. Promise!CeaseInsisting(t)
  BY DEF Promise!CeaseInsisting
<1>5. Rows[q] = Promise!None
  BY RowsMapped
<1> QED
  BY <1>1, <1>2, <1>3, <1>4, <1>5 DEF Promise!Create

LEMMA DuplicateMapped ==
  ASSUME Typing, NEW e \in Editors, NEW t \in Tabs, t = TabOf(e), NEW q \in Numbers, Duplicate(e, q)
  PROVE  \E p \in Numbers : Promise!Create(t, p)
<1> DEFINE row == [db[q] EXCEPT !.id = lastId + 1, !.version = 1,
                                !.status = "draft"]
<1>1. PICK f \in Families \ used : Insert(<<f, 0>>, row)
  BY DEF Duplicate
<1>2. db[q] \in Row /\ lastId + 1 \in 1 .. MaxRows
  BY <1>1, ListTyping DEF Duplicate, Insert, RowsOK
<1>3. row \in Row /\ row.status = "draft"
  BY <1>2, ConstantTyping DEF Row, Statuses
<1> HIDE DEF row
<1> DEFINE p == <<f, 0>>
<1>4. p \in Numbers /\ Family(p) = f
  BY NumberParts DEF Family
<1>5. ~Exists(p)
  BY <1>4 DEF RowIds
<1>6. db'[p] = row /\ \A n \in Numbers \ {p} : db'[n] = db[n]
  BY <1>1, <1>4 DEF Insert, RowsOK
<1>7. Promise!Learn(t, {}) /\ Overwriting' = Overwriting
  <2>1. UNCHANGED store /\ UNCHANGED op
    BY DEF Duplicate, local, ops
  <2>2. UNCHANGED op \/ (End(e) /\ op[e].kind \notin {"captured", "selected"})
    BY <2>1
  <2> HIDE DEF row, p
  <2> QED
    BY <2>1, <2>2, ForgetMapped, Zenon
<1> HIDE DEF p
<1> QED
  BY <1>3, <1>4, <1>5, <1>6, <1>7, CreateMapped

LEMMA ReviseReadNumberMapped ==
  ASSUME Typing, NEW e \in Editors, NEW t \in Tabs, t = TabOf(e),
         (\E q \in Numbers : ReviseRead(e, q)) \/ ReviseNumber(e)
  PROVE  Promise!Read(t)
<1>1. PICK n :
        /\ op' = [op EXCEPT ![e] = n] /\ UNCHANGED <<db, store>>
        /\ n.kind \in {"original", "numbered"} /\ n.list = EmptyList
  BY DEF ReviseRead, ReviseNumber, Begin, UnchangedRows, local
<1> QED
  BY <1>1, QuietMapped

LEMMA ReviseInsertMapped ==
  ASSUME Typing, NEW e \in Editors, NEW t \in Tabs, t = TabOf(e), ReviseInsert(e)
  PROVE  Promise!Read(t) \/ \E q \in Numbers : Promise!Create(t, q)
<1> DEFINE o == op[e]
           q == o.number
           row == [id |-> lastId + 1, version |-> o.row.version,
                   status |-> "draft", header |-> o.row.version, items |-> {}]
           n == [kind |-> "inserted",
                 mode |-> IF o.row.items = {} THEN "empty" ELSE o.mode,
                 number |-> q, list |-> EmptyList, row |-> row]
<1>1. /\ o.kind = "numbered" /\ UNCHANGED store
      /\ \/ End(e) /\ UNCHANGED db
         \/ ~Exists(q) /\ Insert(q, row) /\ op' = [op EXCEPT ![e] = n]
  BY DEF ReviseInsert, Begin, local
<1>2. CASE End(e) /\ UNCHANGED db
  BY <1>1, <1>2, EndMapped
<1>3. CASE ~Exists(q) /\ Insert(q, row) /\ op' = [op EXCEPT ![e] = n]
  <2>1. q \in Numbers /\ o.row.version \in Versions
    BY <1>1 DEF OpsInProgress, OpInProgress, WithNumber
  <2>2. lastId + 1 \in 1 .. MaxRows
    BY <1>3 DEF Insert, RowsOK
  <2>3. row \in Row /\ row.status = "draft"
    BY <2>1, <2>2, RowTyping DEF Statuses
  <2>4. n.kind = "inserted" /\ n.list = EmptyList
    OBVIOUS
  <2> HIDE DEF row, n
  <2>5. db'[q] = row /\ \A p \in Numbers \ {q} : db'[p] = db[p]
    BY <1>3, <2>1 DEF Insert, RowsOK
  <2>6. Promise!Learn(t, {}) /\ Overwriting' = Overwriting
    <3>1. /\ op'[e] = n
          /\ \A x \in Tabs \ {t} : store'[x] = store[x]
          /\ \A x \in Editors \ {e} : op'[x] = op[x]
      BY <1>1, <1>3
    <3>2. \A g \in Numbers \X Versions : EmptyList[g[1]] # g[2]
      BY DEF EmptyList, Versions
    <3>3. Held(e)' \subseteq Held(e) \cup {}
      BY <1>1, <2>4, <3>1, <3>2 DEF Held
    <3>4. e \in Overwriting' <=> e \in Overwriting
      BY <1>1, <2>4, <3>1 DEF Overwriting
    <3>5. Promise!Learn(t, {})
      BY <3>1, <3>3, LearnMapped
    <3>6. Overwriting' = Overwriting
      BY <3>1, <3>4, InsistingMapped
    <3> QED
      BY <3>5, <3>6
  <2>7. Promise!Create(t, q)
    BY <1>3, <2>1, <2>3, <2>5, <2>6, CreateMapped
  <2> QED
    BY <2>1, <2>7
<1> QED
  BY <1>1, <1>2, <1>3

LEMMA ReviseItemsMapped ==
  ASSUME Typing, NEW e \in Editors, NEW t \in Tabs, t = TabOf(e), ReviseItems(e)
  PROVE  Promise!Read(t)
<1> DEFINE o == op[e]
<1>1. o.kind = "inserted" /\ o.number \in Numbers /\ o.row.id # 0
  BY DEF ReviseItems, OpsInProgress, OpInProgress, WithNumber, Making, RowsOK
<1>2. PICK n :
        /\ op' = [op EXCEPT ![e] = n] /\ UNCHANGED store
        /\ n.kind \in {"itemised", "idle"} /\ n.list = EmptyList
  BY Idling DEF ReviseItems, Begin, End, local
<1>3. /\ op'[e] = n
      /\ \A x \in Tabs \ {t} : store'[x] = store[x]
      /\ \A x \in Editors \ {e} : op'[x] = op[x]
  BY <1>2
<1>4. \A q \in Numbers : /\ db'[q].version = db[q].version
                         /\ db'[q].status = db[q].status
                         /\ db'[q].header = db[q].header
  <2>1. CASE /\ db[o.number].id = o.row.id
             /\ db' = [db EXCEPT ![o.number] =
                         [db[o.number] EXCEPT !.items =
                            db[o.number].items \cup {o.row.header}]]
    <3>1. db[o.number] \in Row
      BY <1>1, <2>1, ListTyping
    <3>2. PICK row : /\ db' = [db EXCEPT ![o.number] = row]
                     /\ row = [db[o.number] EXCEPT !.items =
                                 db[o.number].items \cup {o.row.header}]
      BY <2>1
    <3>3. /\ row.version = db[o.number].version
          /\ row.status = db[o.number].status /\ row.header = db[o.number].header
      BY <3>1, <3>2 DEF Row
    <3> QED
      BY <1>1, <3>2, <3>3 DEF RowsOK
  <2> QED
    BY <2>1 DEF ReviseItems
<1>5. \A g \in Numbers \X Versions : EmptyList[g[1]] # g[2]
  BY DEF EmptyList, Versions
<1>6. Held(e)' \subseteq Held(e)
  BY <1>2, <1>3, <1>5 DEF Held
<1>7. e \in Overwriting' => e \in Overwriting
  BY <1>2, <1>3 DEF Overwriting
<1> QED
  BY <1>3, <1>4, <1>6, <1>7, ReadMapped

LEMMA ReviseTotalsMapped ==
  ASSUME Typing, NEW e \in Editors, NEW t \in Tabs, t = TabOf(e), ReviseTotals(e)
  PROVE  Promise!Read(t) \/ \E q \in Numbers : Promise!Settle(t, q)
<1> DEFINE o == op[e]
           q == o.number
           row == [db[q] EXCEPT !.version = db[q].version + 1,
                                !.header = o.row.header]
<1>1. /\ o.kind = "itemised" /\ End(e) /\ UNCHANGED store
      /\ (db[q].id = o.row.id /\ Write(q, row)) \/ UNCHANGED db
  BY DEF ReviseTotals, local
<1>2. CASE UNCHANGED db
  BY <1>1, <1>2, EndMapped
<1>3. CASE db[q].id = o.row.id /\ Write(q, row)
  <2>1. /\ q \in Numbers /\ q \in Revisions
        /\ o.row.id # 0 /\ o.row.header \in Versions
    BY <1>1 DEF OpsInProgress, OpInProgress, WithNumber, Making, RowsOK
  <2>2. db[q] \in Row /\ Exists(q)
    BY <1>3, <2>1, ListTyping
  <2>3. /\ row.version = db[q].version + 1 /\ row.status = db[q].status
        /\ row.header = o.row.header
    BY <2>2 DEF Row
  <2> HIDE DEF row
  <2>4. db'[q] = row /\ \A p \in Numbers \ {q} : db'[p] = db[p]
    BY <1>3, <2>1 DEF Write, RowsOK
  <2>5. Promise!Become(q, Rows[q].status, o.row.header)
    BY <2>1, <2>3, <2>4, RowsMapped, RowsChangedMapped DEF Promise!Become
  <2>6. Rows[q] # Promise!None
    BY <2>1, <2>2, RowsMapped
  <2>7. Promise!Learn(t, {}) /\ Overwriting' = Overwriting
    BY <1>1, ForgetMapped
  <2>8. Promise!Settle(t, q)
    BY <2>1, <2>5, <2>6, <2>7 DEF Promise!Settle
  <2> QED
    BY <2>1, <2>8
<1> QED
  BY <1>1, <1>2, <1>3

LEMMA PromiseStep ==
  ASSUME Typing, SameVersionSameStatus, [Next]_vars
  PROVE  [Promise!Next]_Promise!vars
<1>1. CASE UNCHANGED <<db, store, op>>
  <2>1. Rows' = Rows /\ GivenTo' = GivenTo /\ Overwriting' = Overwriting
    BY <1>1 DEF Rows, GivenTo, Given, Overwriting
  <2> QED
    BY <2>1 DEF Promise!vars
<1>2. ASSUME NEW t \in Tabs, Refetch(t) \/ Restart(t)
      PROVE  Promise!Next
  BY <1>2, RefetchMapped, RestartMapped DEF Promise!Next
<1>3. ASSUME NEW e \in Editors, Work(e)
      PROVE  Promise!Next
  <2> PICK t \in Tabs : t = TabOf(e) /\ e \in t
    BY TabTyping
  <2>1. CASE SaveDoubted(e)
    BY <2>1, EndMapped DEF SaveDoubted, UnchangedRows, Promise!Next
  <2>2. CASE Persist(e)
    BY <2>2, PersistMapped DEF Promise!Next
  <2>3. CASE \E q \in Numbers : Open(e, q)
    BY <2>3, LoadMapped DEF Open, ops, Promise!Next
  <2> QED
    BY <1>3, <2>1, <2>2, <2>3, SaveStartMapped, SaveSelectMapped,
       PersistRefusedMapped, SaveDoneMapped
    DEF Work, Promise!Next
<1>4. ASSUME NEW e \in Editors, Dialog(e)
      PROVE  Promise!Next
  <2> PICK t \in Tabs : t = TabOf(e) /\ e \in t
    BY TabTyping
  <2>1. CASE Cancel(e)
    BY <2>1, EndMapped DEF Cancel, UnchangedRows, local, Promise!Next
  <2>2. CASE Reload(e)
    BY <2>2, LoadMapped DEF Reload, Promise!Next
  <2> QED
    BY <1>4, <2>1, <2>2, SaveForcedMapped DEF Dialog, Promise!Next
<1>5. ASSUME NEW e \in Editors, Manage(e)
      PROVE  Promise!Next
  <2> PICK t \in Tabs : t = TabOf(e) /\ e \in t
    BY TabTyping
  <2> QED
    BY <1>5, StatusReadMapped, StatusWriteMapped, DeleteMapped, DuplicateMapped
    DEF Manage, Promise!Next
<1>6. ASSUME NEW e \in Editors, Revise(e)
      PROVE  Promise!Next
  <2> PICK t \in Tabs : t = TabOf(e) /\ e \in t
    BY TabTyping
  <2> QED
    BY <1>6, ReviseReadNumberMapped, ReviseInsertMapped, ReviseItemsMapped,
       ReviseTotalsMapped
    DEF Revise, Promise!Next
<1>7. ASSUME NEW t \in Tabs, RestoreDraft(t)
      PROVE  UNCHANGED <<db, store, op>>
  BY <1>7 DEF RestoreDraft, UnchangedRows, ops
<1>8. ASSUME NEW e \in Editors, Leave(e)
      PROVE  UNCHANGED <<db, store, op>>
  BY <1>8 DEF Leave, UnchangedRows
<1>9. CASE UNCHANGED vars
  BY <1>1, <1>9 DEF vars, local, ops
<1> QED
  BY <1>1, <1>2, <1>3, <1>4, <1>5, <1>6, <1>7, <1>8, <1>9 DEF Next

LEMMA PromiseInit == Init => Promise!Init
<1> SUFFICES ASSUME Init PROVE Promise!Init
  OBVIOUS
<1>1. Rows = [q \in Numbers |-> Promise!None]
  BY NoRowFields DEF Init, Rows, Promise!None
<1>2. \A g \in Numbers \X Versions : EmptyList[g[1]] # g[2]
  BY DEF EmptyList, Versions
<1>3. GivenTo = [t \in Tabs |-> {}]
  BY <1>2, Idling, TabTyping DEF Init, GivenTo, Given
<1>4. Overwriting = {}
  BY Idling DEF Init, Overwriting
<1> QED
  BY <1>1, <1>3, <1>4 DEF Promise!Init

(* QuoteEditing implements VersionedQuotes: whatever the editors do, whose *)
(* plain save replaces a version has been given that version, and a save   *)
(* leaves the status, a change of status the contents.                     *)
THEOREM PromiseKept == Spec => KeepsPromise
<1>1. Init => Promise!Init
  BY PromiseInit
<1>2. Typing /\ SameVersionSameStatus /\ [Next]_vars => [Promise!Next]_Promise!vars
  BY PromiseStep
<1> QED
  BY <1>1, <1>2, QuoteTyping, Locking, PTL DEF Spec, KeepsPromise, Promise!Spec

-----------------------------------------------------------------------------
(* A revision in the making has a row to itself, of one maker, with the    *)
(* parts its maker has written, unless a save or a stopped maker disturbed *)
(* it.                                                                     *)
MakersApart ==
  \A e \in Editors : op[e].kind \in Making =>
    /\ \A q \in Numbers : db[q].id = op[e].row.id => q = op[e].number
    /\ \A x \in Editors : op[x].kind \in Making /\ op[x].row.id = op[e].row.id
                            => x = e

PartsInHand ==
  \A e \in Editors :
    /\ op[e].kind \in Making /\ op[e].row.id \notin disturbed
    /\ db[op[e].number].id = op[e].row.id
    => db[op[e].number].items =
         IF op[e].kind = "inserted" \/ op[e].mode = "empty" THEN {}
         ELSE {op[e].row.header}

(* "id" is the row of a revision that one of the operations makes.         *)
InTheMaking(work, id) ==
  \E e \in Editors : work[e].kind \in Making /\ work[e].row.id = id

WholeRow(row, spoilt, work) ==
  row # NoRow /\ row.items # {row.header} =>
    row.id \in spoilt \/ InTheMaking(work, row.id)

WholeInv == MakersApart /\ PartsInHand /\ WholeUnlessRevised

LEMMA WholeByRows ==
  /\ WholeUnlessRevised <=> \A q \in Numbers : WholeRow(db[q], disturbed, op)
  /\ WholeUnlessRevised' <=>
       \A q \in Numbers : WholeRow(db'[q], disturbed', op')
BY DEF WholeUnlessRevised, WholeRow, InTheMaking, Revising, Exists, Making

LEMMA MakingIds ==
  ASSUME Typing, NEW e \in Editors, op[e].kind \in Making
  PROVE  /\ op[e].number \in Numbers /\ op[e].row.id \in 1 .. lastId
         /\ lastId \in Nat
BY DEF OpsInProgress, OpInProgress, WithNumber, RowsOK

(* No operation comes to make a revision but by inserting its row.         *)
LEMMA MakersApartKept ==
  ASSUME Typing, MakersApart, [Next]_vars,
         \A e \in Editors : op'[e].kind \in Making =>
           /\ op[e].kind \in Making
           /\ op'[e].row = op[e].row /\ op'[e].number = op[e].number
  PROVE  MakersApart'
<1>1. \A q \in Numbers : RowProgress(q)
  BY Progress
<1>2. \A e \in Editors : op[e].kind \in Making =>
        op[e].row.id \in 1 .. lastId /\ lastId \in Nat
  BY MakingIds
<1> QED
  BY <1>1, <1>2 DEF MakersApart, RowProgress

(* Rows, and who makes what, stay as they are.                             *)
LEMMA NothingWritten ==
  ASSUME Typing, WholeInv, [Next]_vars, UNCHANGED <<db, disturbed>>,
         NEW e \in Editors, \A x \in Editors \ {e} : op'[x] = op[x],
         op[e].kind \notin Making, op'[e].kind \notin Making
  PROVE  WholeInv'
<1>1. MakersApart'
  BY MakersApartKept DEF WholeInv
<1>2. PartsInHand'
  BY DEF WholeInv, PartsInHand
<1>3. \A id : InTheMaking(op, id) => InTheMaking(op', id)
  BY DEF InTheMaking
<1>4. WholeUnlessRevised'
  BY <1>3, WholeByRows DEF WholeInv, WholeRow
<1> QED
  BY <1>1, <1>2, <1>4 DEF WholeInv

(* One row is written, its header and items together or its status.        *)
LEMMA RowWritten ==
  ASSUME Typing, WholeInv, [Next]_vars, NEW q \in Numbers,
         \A p \in Numbers \ {q} : db'[p] = db[p],
         disturbed \subseteq disturbed',
         NEW e \in Editors, \A x \in Editors \ {e} : op'[x] = op[x],
         op[e].kind \notin Making, op'[e].kind \notin Making,
         \/ ~Exists(q)'
         \/ db'[q].items = {db'[q].header} \/ db'[q].id \in disturbed'
         \/ Exists(q) /\ db'[q].id = db[q].id /\ db'[q].items = db[q].items
                      /\ db'[q].header = db[q].header,
         \A x \in Editors :
           op[x].kind \in Making /\ db'[q].id = op[x].row.id =>
             \/ op[x].row.id \in disturbed'
             \/ db'[q].id = db[q].id /\ db'[q].items = db[q].items
  PROVE  WholeInv'
<1>1. MakersApart'
  BY MakersApartKept DEF WholeInv
<1>2. PartsInHand'
  <2> SUFFICES
        ASSUME NEW x \in Editors, op'[x].kind \in Making,
               op'[x].row.id \notin disturbed',
               db'[op'[x].number].id = op'[x].row.id
        PROVE  db'[op'[x].number].items =
                 IF op'[x].kind = "inserted" \/ op'[x].mode = "empty" THEN {}
                 ELSE {op'[x].row.header}
    BY DEF PartsInHand
  <2>1. op'[x] = op[x] /\ op[x].number \in Numbers
    BY MakingIds
  <2>2. /\ db[op[x].number].id = op[x].row.id
        /\ db'[op[x].number].items = db[op[x].number].items
    BY <2>1
  <2> QED
    BY <2>1, <2>2 DEF WholeInv, PartsInHand
<1>3. \A id : InTheMaking(op, id) => InTheMaking(op', id)
  BY DEF InTheMaking
<1>4. WholeUnlessRevised'
  <2> SUFFICES ASSUME NEW p \in Numbers
               PROVE  WholeRow(db'[p], disturbed', op')
    BY WholeByRows
  <2>1. WholeRow(db[p], disturbed, op)
    BY WholeByRows DEF WholeInv
  <2>2. CASE p # q
    BY <1>3, <2>1, <2>2 DEF WholeRow
  <2>3. CASE p = q
    BY <1>3, <2>1, <2>3 DEF WholeRow, Exists
  <2> QED
    BY <2>2, <2>3
<1> QED
  BY <1>1, <1>2, <1>4 DEF WholeInv

LEMMA PersistWhole ==
  ASSUME Typing, WholeInv, [Next]_vars, NEW e \in Editors, Persist(e)
  PROVE  WholeInv'
<1> DEFINE o == op[e]
           q == o.number
<1>1. PICK saved :
        saved = IF Inserts(o) THEN SavedRow(o, lastId + 1, 1)
                ELSE SavedRow(o, o.row.id, db[o.number].version + 1)
  OBVIOUS
<1>2. /\ o.kind = "selected" /\ Accepts(o)
      /\ IF Inserts(o) THEN Insert(q, saved) ELSE Write(q, saved)
      /\ disturbed' = IF Revising(saved.id) THEN disturbed \cup {saved.id}
                      ELSE disturbed
      /\ Begin(e, "verifying", o.mode, q, o.list, saved) \/ End(e)
  BY <1>1 DEF Persist
<1>3. q \in Numbers /\ saved \in Row /\ saved.items = {saved.header}
  <2>1. IF Inserts(o) THEN lastId < MaxRows ELSE saved.version <= MaxVersion
    BY <1>2 DEF Insert, Write
  <2> QED
    BY <1>1, <1>2, <2>1, SavedRowTyping
<1>4. db'[q] = saved /\ \A p \in Numbers \ {q} : db'[p] = db[p]
  BY <1>2, <1>3 DEF Insert, Write, RowsOK
<1>5. /\ \A x \in Editors \ {e} : op'[x] = op[x]
      /\ op[e].kind \notin Making /\ op'[e].kind \notin Making
  <2>1. op'[e].kind \in {"verifying", "idle"} /\ \A x \in Editors \ {e} : op'[x] = op[x]
    BY <1>2, Idling DEF Begin, End
  <2>2. o.kind \notin Making /\ op'[e].kind \notin Making
    BY <1>2, <2>1 DEF Making
  <2> QED
    BY <2>1, <2>2
<1>6. \A x \in Editors :
        op[x].kind \in Making /\ saved.id = op[x].row.id =>
          op[x].row.id \in disturbed'
  BY <1>2 DEF Revising, Making
<1>7. disturbed \subseteq disturbed'
  BY <1>2
<1> QED
  BY <1>3, <1>4, <1>5, <1>6, <1>7, RowWritten

LEMMA StatusWriteWhole ==
  ASSUME Typing, WholeInv, [Next]_vars, NEW e \in Editors, StatusWrite(e)
  PROVE  WholeInv'
<1> DEFINE o == op[e]
           q == o.number
           row == [db[q] EXCEPT !.version = db[q].version + 1,
                                !.status = o.row.status]
<1>1. /\ o.kind = "restatus" /\ End(e) /\ UNCHANGED disturbed
      /\ (db[q].id = o.row.id /\ Write(q, row)) \/ UNCHANGED db
  BY DEF StatusWrite, local
<1>2. q \in Numbers /\ o.row.id # 0
  BY <1>1 DEF OpsInProgress, OpInProgress, WithNumber, RowsOK
<1>3. /\ \A x \in Editors \ {e} : op'[x] = op[x]
      /\ op[e].kind \notin Making /\ op'[e].kind \notin Making
  <2>1. op'[e].kind = "idle" /\ \A x \in Editors \ {e} : op'[x] = op[x]
    BY <1>1, Idling DEF End
  <2>2. o.kind \notin Making /\ op'[e].kind \notin Making
    BY <1>1, <2>1 DEF Making
  <2> QED
    BY <2>1, <2>2
<1>4. CASE UNCHANGED db
  <2>1. /\ \A x \in Editors \ {e} : op'[x] = op[x]
        /\ o.kind \notin Making /\ op'[e].kind \notin Making
    BY <1>1, Idling DEF End, Making
  <2> QED
    BY <1>1, <1>4, <2>1, NothingWritten
<1>5. CASE db[q].id = o.row.id /\ Write(q, row)
  <2>1. db[q] \in Row /\ Exists(q)
    BY <1>2, <1>5, ListTyping
  <2>2. /\ row.id = db[q].id /\ row.items = db[q].items
        /\ row.header = db[q].header
    BY <2>1 DEF Row
  <2> HIDE DEF row
  <2>3. db'[q] = row /\ \A p \in Numbers \ {q} : db'[p] = db[p]
    BY <1>2, <1>5 DEF Write, RowsOK
  <2> QED
    BY <1>1, <1>2, <1>3, <2>1, <2>2, <2>3, RowWritten
<1> QED
  BY <1>1, <1>4, <1>5

LEMMA DeleteWhole ==
  ASSUME Typing, WholeInv, [Next]_vars, NEW e \in Editors, NEW q \in Numbers,
         Delete(e, q)
  PROVE  WholeInv'
<1>1. /\ db'[q] = NoRow /\ \A p \in Numbers \ {q} : db'[p] = db[p]
      /\ UNCHANGED <<op, disturbed>>
  BY DEF Delete, ops, RowsOK
<1>2. \A x \in Editors : op[x].kind \in Making => op[x].row.id # 0
  BY MakingIds
<1>3. ~Exists(q)' /\ db'[q].id = 0
  BY <1>1, NoRowFields DEF Exists
<1>4. op[e].kind \notin Making /\ op'[e].kind \notin Making
  BY <1>1 DEF Delete, Free, Idle, Making
<1>5. \A x \in Editors :
        ~(op[x].kind \in Making /\ db'[q].id = op[x].row.id)
  BY <1>2, <1>3
<1> QED
  BY <1>1, <1>3, <1>4, <1>5, RowWritten

LEMMA DuplicateWhole ==
  ASSUME Typing, WholeInv, [Next]_vars, NEW e \in Editors, NEW q \in Numbers,
         Duplicate(e, q)
  PROVE  WholeInv'
<1> DEFINE row == [db[q] EXCEPT !.id = lastId + 1, !.version = 1,
                                !.status = "draft"]
<1>1. PICK f \in Families \ used : Insert(<<f, 0>>, row)
  BY DEF Duplicate
<1>2. db[q] \in Row /\ lastId + 1 \in 1 .. MaxRows
  BY <1>1, ListTyping DEF Duplicate, Insert, RowsOK
<1>3. row.id = lastId + 1 /\ row.items = db[q].items /\ row.header = db[q].header
  BY <1>2 DEF Row
<1> HIDE DEF row
<1> DEFINE p == <<f, 0>>
<1>4. p \in Numbers
  BY NumberParts
<1>5. db'[p] = row /\ \A n \in Numbers \ {p} : db'[n] = db[n]
  BY <1>1, <1>4 DEF Insert, RowsOK
<1>6. /\ \A x \in Editors : op'[x] = op[x]
      /\ op[e].kind \notin Making
      /\ disturbed \subseteq disturbed'
      /\ db[q].items = {db[q].header} \/ lastId + 1 \in disturbed'
  BY DEF Duplicate, Free, Idle, ops, Making
<1>7. \A x \in Editors : op[x].kind \in Making => op[x].row.id # lastId + 1
  BY MakingIds
<1> HIDE DEF p
<1>8. db'[p].items = {db'[p].header} \/ db'[p].id \in disturbed'
  BY <1>3, <1>5, <1>6
<1>9. \A x \in Editors :
        ~(op[x].kind \in Making /\ db'[p].id = op[x].row.id)
  BY <1>3, <1>5, <1>7
<1> QED
  BY <1>4, <1>5, <1>6, <1>8, <1>9, RowWritten

LEMMA ReviseInsertWhole ==
  ASSUME Typing, WholeInv, [Next]_vars, NEW e \in Editors, ReviseInsert(e)
  PROVE  WholeInv'
<1> DEFINE o == op[e]
           q == o.number
           row == [id |-> lastId + 1, version |-> o.row.version,
                   status |-> "draft", header |-> o.row.version, items |-> {}]
           n == [kind |-> "inserted",
                 mode |-> IF o.row.items = {} THEN "empty" ELSE o.mode,
                 number |-> q, list |-> EmptyList, row |-> row]
<1>1. /\ o.kind = "numbered" /\ UNCHANGED disturbed
      /\ \/ End(e) /\ UNCHANGED db
         \/ Insert(q, row) /\ op' = [op EXCEPT ![e] = n]
  BY DEF ReviseInsert, Begin
<1>2. CASE End(e) /\ UNCHANGED db
  <2>1. /\ \A x \in Editors \ {e} : op'[x] = op[x]
        /\ o.kind \notin Making /\ op'[e].kind \notin Making
    BY <1>1, <1>2, Idling DEF End, Making
  <2> QED
    BY <1>1, <1>2, <2>1, NothingWritten
<1>3. CASE Insert(q, row) /\ op' = [op EXCEPT ![e] = n]
  <2>1. q \in Numbers
    BY <1>1 DEF OpsInProgress, OpInProgress, WithNumber
  <2>2. /\ row.id = lastId + 1 /\ row.items = {}
        /\ n.kind = "inserted" /\ n.row = row /\ n.number = q
    OBVIOUS
  <2> HIDE DEF row, n
  <2>3. /\ db'[q] = row /\ \A p \in Numbers \ {q} : db'[p] = db[p]
        /\ op'[e] = n /\ \A x \in Editors \ {e} : op'[x] = op[x]
    BY <1>3, <2>1 DEF Insert, RowsOK
  <2>4. \A x \in Editors : op[x].kind \in Making => op[x].row.id < lastId + 1
    BY MakingIds
  <2>5. \A p \in Numbers : db[p].id < lastId + 1
    BY ListTyping, KeyRowFields DEF RowIds, RowsOK
  <2>6. MakersApart'
    <3> SUFFICES
          ASSUME NEW x \in Editors, op'[x].kind \in Making
          PROVE  /\ \A p \in Numbers :
                      db'[p].id = op'[x].row.id => p = op'[x].number
                 /\ \A y \in Editors :
                      op'[y].kind \in Making /\ op'[y].row.id = op'[x].row.id
                        => y = x
      BY DEF MakersApart
    <3>1. CASE x = e
      <4>1. op'[x].row.id = lastId + 1 /\ op'[x].number = q
        BY <2>2, <2>3, <3>1
      <4>2. \A p \in Numbers \ {q} : db'[p].id # lastId + 1
        BY <2>3, <2>5, ListTyping, KeyRowFields DEF RowsOK
      <4>3. \A y \in Editors \ {e} :
              op'[y].kind \in Making => op'[y].row.id # lastId + 1
        BY <2>3, <2>4, MakingIds
      <4> QED
        BY <3>1, <4>1, <4>2, <4>3
    <3>2. CASE x # e
      <4>1. op'[x] = op[x] /\ op[x].row.id < lastId + 1
        BY <2>3, <2>4, <3>2
      <4>2. \A p \in Numbers : db[p].id = op[x].row.id => p = op[x].number
        BY <4>1 DEF WholeInv, MakersApart
      <4>3. \A y \in Editors : op[y].kind \in Making /\ op[y].row.id = op[x].row.id
                                 => y = x
        BY <4>1 DEF WholeInv, MakersApart
      <4>4. op'[e].row.id = lastId + 1 /\ db'[q].id = lastId + 1
        BY <2>2, <2>3
      <4>5. op[x].row.id # lastId + 1
        BY <3>2, <4>1, MakingIds
      <4> QED
        BY <2>3, <4>1, <4>2, <4>3, <4>4, <4>5
    <3> QED
      BY <3>1, <3>2
  <2>7. PartsInHand'
    <3>1. ASSUME NEW x \in Editors \ {e}, op[x].kind \in Making,
                 db'[op[x].number].id = op[x].row.id
          PROVE  db'[op[x].number] = db[op[x].number]
      BY <2>2, <2>3, <2>4, <3>1, MakingIds
    <3>2. disturbed' = disturbed
      BY <1>1
    <3>3. ASSUME NEW x \in Editors, op'[x].kind \in Making,
                 op'[x].row.id \notin disturbed,
                 db'[op'[x].number].id = op'[x].row.id
          PROVE  db'[op'[x].number].items =
                   IF op'[x].kind = "inserted" \/ op'[x].mode = "empty" THEN {}
                   ELSE {op'[x].row.header}
      <4>1. CASE x = e
        BY <2>2, <2>3, <4>1
      <4>2. CASE x # e
        <5>1. x \in Editors \ {e} /\ op'[x] = op[x]
          BY <2>3, <4>2
        <5>2. db'[op[x].number] = db[op[x].number]
          BY <3>1, <3>3, <5>1
        <5>3. /\ op[x].kind \in Making /\ op[x].row.id \notin disturbed
              /\ db[op[x].number].id = op[x].row.id
          BY <3>3, <5>1, <5>2
        <5>4. db[op[x].number].items =
                IF op[x].kind = "inserted" \/ op[x].mode = "empty" THEN {}
                ELSE {op[x].row.header}
          BY <5>1, <5>3 DEF WholeInv, PartsInHand
        <5> QED
          BY <5>1, <5>2, <5>4
      <4> QED
        BY <4>1, <4>2
    <3> QED
      BY <3>2, <3>3 DEF PartsInHand
  <2>8. WholeUnlessRevised'
    <3>1. InTheMaking(op', row.id)
      BY <2>2, <2>3 DEF InTheMaking, Making
    <3>2. \A id : InTheMaking(op, id) => InTheMaking(op', id)
      BY <1>1, <2>2, <2>3 DEF InTheMaking, Making
    <3> QED
      BY <1>1, <2>3, <3>1, <3>2, WholeByRows DEF WholeInv, WholeRow
  <2> QED
    BY <2>6, <2>7, <2>8 DEF WholeInv
<1> QED
  BY <1>1, <1>2, <1>3

LEMMA ReviseItemsWhole ==
  ASSUME Typing, WholeInv, [Next]_vars, NEW e \in Editors, ReviseItems(e)
  PROVE  WholeInv'
<1> DEFINE o == op[e]
           q == o.number
           there == db[q].id = o.row.id
<1>1. /\ o.kind = "inserted" /\ q \in Numbers /\ o.row.id # 0
      /\ UNCHANGED disturbed
  BY MakingIds DEF ReviseItems, Making
<1>2. /\ \A x \in Editors \ {e} : op'[x] = op[x]
      /\ \/ /\ op'[e].kind = "itemised" /\ op'[e].row = o.row
            /\ op'[e].number = q /\ op'[e].mode = o.mode
            /\ there \/ o.mode = "empty"
         \/ op'[e].kind = "idle" /\ ~there
  BY Idling DEF ReviseItems, Begin, End
<1>3. /\ \A p \in Numbers \ {q} : db'[p] = db[p]
      /\ IF there /\ o.mode # "empty"
         THEN /\ db'[q].id = db[q].id /\ db'[q].header = db[q].header
              /\ db'[q].items = db[q].items \cup {o.row.header}
         ELSE db'[q] = db[q]
  <2>1. CASE there /\ o.mode # "empty"
    <3>1. db[q] \in Row
      BY <1>1, <2>1, ListTyping
    <3>2. PICK row : /\ db' = [db EXCEPT ![q] = row]
                     /\ row = [db[q] EXCEPT !.items =
                                 db[q].items \cup {o.row.header}]
      BY <2>1 DEF ReviseItems
    <3>3. /\ row.id = db[q].id /\ row.header = db[q].header
          /\ row.items = db[q].items \cup {o.row.header}
      BY <3>1, <3>2 DEF Row
    <3>4. db'[q] = row /\ \A p \in Numbers \ {q} : db'[p] = db[p]
      BY <1>1, <3>2 DEF RowsOK
    <3> QED
      BY <2>1, <3>3, <3>4
  <2>2. CASE ~(there /\ o.mode # "empty")
    BY <2>2 DEF ReviseItems
  <2> QED
    BY <2>1, <2>2
<1> HIDE DEF there
<1>4. MakersApart'
  <2>1. \A x \in Editors : op'[x].kind \in Making =>
          /\ op[x].kind \in Making
          /\ op'[x].row = op[x].row /\ op'[x].number = op[x].number
    BY <1>1, <1>2 DEF Making
  <2> QED
    BY <2>1, MakersApartKept DEF WholeInv
<1>5. PartsInHand'
  <2> SUFFICES
        ASSUME NEW x \in Editors, op'[x].kind \in Making,
               op'[x].row.id \notin disturbed,
               db'[op'[x].number].id = op'[x].row.id
        PROVE  db'[op'[x].number].items =
                 IF op'[x].kind = "inserted" \/ op'[x].mode = "empty" THEN {}
                 ELSE {op'[x].row.header}
    BY <1>1 DEF PartsInHand
  <2>1. CASE x = e
    <3>1. /\ op'[e].kind = "itemised" /\ op'[e].row = o.row
          /\ op'[e].number = q /\ op'[e].mode = o.mode
      BY <1>2, <2>1 DEF Making
    <3>2. db[q].id = o.row.id /\ there
      BY <1>3, <2>1, <3>1 DEF there
    <3>3. db[q].items = {}
      BY <1>1, <2>1, <3>1, <3>2 DEF WholeInv, PartsInHand, Making
    <3> QED
      BY <1>3, <2>1, <3>1, <3>2, <3>3
  <2>2. CASE x # e
    <3>1. op'[x] = op[x] /\ op[x].number \in Numbers
      BY <1>2, <2>2, MakingIds
    <3>2. db'[op[x].number] = db[op[x].number]
      <4>1. CASE op[x].number # q
        BY <1>3, <3>1, <4>1
      <4>2. CASE op[x].number = q
        <5>1. db[q].id = op[x].row.id
          BY <1>3, <3>1, <4>2
        <5>2. op[x].row.id # o.row.id
          BY <1>1, <2>2, <3>1 DEF WholeInv, MakersApart, Making
        <5> QED
          BY <1>3, <4>2, <5>1, <5>2 DEF there
      <4> QED
        BY <4>1, <4>2
    <3> QED
      BY <3>1, <3>2 DEF WholeInv, PartsInHand
  <2> QED
    BY <2>1, <2>2
<1>6. WholeUnlessRevised'
  <2> SUFFICES ASSUME NEW p \in Numbers
               PROVE  WholeRow(db'[p], disturbed', op')
    BY WholeByRows
  <2>1. CASE p = q /\ there
    <3>1. db'[q].id = o.row.id /\ op'[e].kind = "itemised" /\ op'[e].row = o.row
      BY <1>2, <1>3, <2>1 DEF there
    <3> QED
      BY <2>1, <3>1 DEF WholeRow, InTheMaking, Making
  <2>2. CASE ~(p = q /\ there)
    <3>1. db'[p] = db[p]
      BY <1>3, <2>2
    <3>2. WholeRow(db[p], disturbed, op)
      BY WholeByRows DEF WholeInv
    <3>3. db[p].id # o.row.id
      BY <1>1, <2>2 DEF there, WholeInv, MakersApart, Making
    <3> QED
      BY <1>1, <1>2, <3>1, <3>2, <3>3 DEF WholeRow, InTheMaking
  <2> QED
    BY <2>1, <2>2
<1> QED
  BY <1>4, <1>5, <1>6 DEF WholeInv

LEMMA ReviseTotalsWhole ==
  ASSUME Typing, WholeInv, [Next]_vars, NEW e \in Editors, ReviseTotals(e)
  PROVE  WholeInv'
<1> DEFINE o == op[e]
           q == o.number
           there == db[q].id = o.row.id
           row == [db[q] EXCEPT !.version = db[q].version + 1,
                                !.header = o.row.header]
<1>1. /\ o.kind = "itemised" /\ q \in Numbers /\ o.row.id # 0
      /\ o.kind \in Making
  BY MakingIds DEF ReviseTotals, Making
<1>2. /\ op'[e].kind = "idle" /\ \A x \in Editors \ {e} : op'[x] = op[x]
      /\ disturbed \subseteq disturbed'
      /\ o.mode = "empty" => o.row.id \in disturbed'
  BY Idling DEF ReviseTotals, End
<1>3. /\ \A p \in Numbers \ {q} : db'[p] = db[p]
      /\ IF there
         THEN /\ db'[q].id = db[q].id /\ db'[q].items = db[q].items
              /\ db'[q].header = o.row.header
         ELSE db'[q] = db[q]
  <2>1. CASE there
    <3>1. db[q] \in Row /\ Write(q, row)
      BY <1>1, <2>1, ListTyping DEF ReviseTotals
    <3>2. /\ row.id = db[q].id /\ row.items = db[q].items
          /\ row.header = o.row.header
      BY <3>1 DEF Row
    <3> HIDE DEF row
    <3>3. db'[q] = row /\ \A p \in Numbers \ {q} : db'[p] = db[p]
      BY <1>1, <3>1 DEF Write, RowsOK
    <3> QED
      BY <2>1, <3>2, <3>3
  <2>2. CASE ~there
    BY <2>2 DEF ReviseTotals
  <2> QED
    BY <2>1, <2>2
<1> HIDE DEF there
<1>4. MakersApart'
  <2>1. \A x \in Editors : op'[x].kind \in Making =>
          /\ op[x].kind \in Making
          /\ op'[x].row = op[x].row /\ op'[x].number = op[x].number
    BY <1>2 DEF Making
  <2> QED
    BY <2>1, MakersApartKept DEF WholeInv
<1>5. PartsInHand'
  <2> SUFFICES
        ASSUME NEW x \in Editors, op'[x].kind \in Making,
               op'[x].row.id \notin disturbed',
               db'[op'[x].number].id = op'[x].row.id
        PROVE  db'[op'[x].number].items =
                 IF op'[x].kind = "inserted" \/ op'[x].mode = "empty" THEN {}
                 ELSE {op'[x].row.header}
    BY DEF PartsInHand
  <2>1. x # e /\ op'[x] = op[x] /\ op[x].number \in Numbers
    BY <1>2, MakingIds DEF Making
  <2>2. /\ db[op[x].number].id = db'[op[x].number].id
        /\ db[op[x].number].items = db'[op[x].number].items
    BY <1>3, <2>1
  <2> QED
    BY <1>2, <2>1, <2>2 DEF WholeInv, PartsInHand
<1>6. WholeUnlessRevised'
  <2> SUFFICES ASSUME NEW p \in Numbers
               PROVE  WholeRow(db'[p], disturbed', op')
    BY WholeByRows
  <2>1. CASE p = q /\ there
    <3>1. db'[q].items = db[q].items /\ db'[q].header = o.row.header
          /\ db'[q].id = o.row.id /\ db[q].id = o.row.id
      BY <1>3, <2>1 DEF there
    <3>2. o.row.id \in disturbed \/ o.mode = "empty"
            \/ db[q].items = {o.row.header}
      BY <1>1, <3>1 DEF WholeInv, PartsInHand
    <3> QED
      BY <1>2, <2>1, <3>1, <3>2 DEF WholeRow
  <2>2. CASE ~(p = q /\ there)
    <3>1. db'[p] = db[p]
      BY <1>3, <2>2
    <3>2. WholeRow(db[p], disturbed, op)
      BY WholeByRows DEF WholeInv
    <3>3. db[p].id # o.row.id
      BY <1>1, <2>2 DEF there, WholeInv, MakersApart
    <3> QED
      BY <1>2, <3>1, <3>2, <3>3 DEF WholeRow, InTheMaking
  <2> QED
    BY <2>1, <2>2
<1> QED
  BY <1>4, <1>5, <1>6 DEF WholeInv

LEMMA RestartWhole ==
  ASSUME Typing, WholeInv, [Next]_vars, NEW t \in Tabs, Restart(t)
  PROVE  WholeInv'
<1>1. /\ UNCHANGED db
      /\ \A x \in Editors : op'[x] = IF x \in t THEN NoOp ELSE op[x]
      /\ disturbed \subseteq disturbed'
      /\ \A x \in t : op[x].kind \in Making => op[x].row.id \in disturbed'
  BY DEF Restart, Making
<1>2. NoOp.kind \notin Making
  BY Idling DEF Making
<1>3. MakersApart'
  <2>1. \A x \in Editors : op'[x].kind \in Making =>
          /\ op[x].kind \in Making
          /\ op'[x].row = op[x].row /\ op'[x].number = op[x].number
    BY <1>1, <1>2
  <2> QED
    BY <2>1, MakersApartKept DEF WholeInv
<1>4. PartsInHand'
  <2> SUFFICES
        ASSUME NEW x \in Editors, op'[x].kind \in Making,
               op'[x].row.id \notin disturbed',
               db'[op'[x].number].id = op'[x].row.id
        PROVE  db'[op'[x].number].items =
                 IF op'[x].kind = "inserted" \/ op'[x].mode = "empty" THEN {}
                 ELSE {op'[x].row.header}
    BY DEF PartsInHand
  <2>1. op'[x] = op[x]
    BY <1>1, <1>2
  <2> QED
    BY <1>1, <2>1 DEF WholeInv, PartsInHand
<1>5. \A id : InTheMaking(op, id) => InTheMaking(op', id) \/ id \in disturbed'
  BY <1>1 DEF InTheMaking
<1>6. WholeUnlessRevised'
  BY <1>1, <1>5, WholeByRows DEF WholeInv, WholeRow
<1> QED
  BY <1>3, <1>4, <1>6 DEF WholeInv

LEMMA WholeStep ==
  ASSUME Typing, WholeInv, [Next]_vars
  PROVE  WholeInv'
<1>1. CASE UNCHANGED vars
  BY <1>1 DEF vars, ops, WholeInv, MakersApart, PartsInHand, WholeUnlessRevised,
              Exists, Revising
<1>2. ASSUME UNCHANGED <<db, disturbed>>, UNCHANGED op
      PROVE  WholeInv'
  BY <1>2 DEF WholeInv, MakersApart, PartsInHand, WholeUnlessRevised,
              Exists, Revising
<1>3. ASSUME NEW e \in Editors, UNCHANGED <<db, disturbed>>, End(e),
             op[e].kind \notin Making
      PROVE  WholeInv'
  <2>1. op'[e].kind \notin Making /\ \A x \in Editors \ {e} : op'[x] = op[x]
    BY <1>3, Idling DEF End, Making
  <2> QED
    BY <1>3, <2>1, NothingWritten
<1>4. ASSUME NEW e \in Editors, UNCHANGED <<db, disturbed>>,
             NEW kind, NEW mode, NEW q, NEW list, NEW row,
             Begin(e, kind, mode, q, list, row),
             kind \notin Making, op[e].kind \notin Making
      PROVE  WholeInv'
  <2>1. op'[e].kind = kind /\ \A x \in Editors \ {e} : op'[x] = op[x]
    BY <1>4 DEF Begin
  <2> QED
    BY <1>4, <2>1, NothingWritten
<1>5. ASSUME NEW e \in Editors, Work(e)
      PROVE  WholeInv'
  <2>1. CASE \E q \in Numbers : Open(e, q)
    BY <1>2, <2>1 DEF Open, Load, UnchangedRows, ops
  <2>2. CASE SaveStart(e)
    BY <1>4, <2>2 DEF SaveStart, Capture, Free, Idle, UnchangedRows, Making
  <2>3. CASE SaveSelect(e)
    <3>1. \/ End(e)
          \/ \E kind \in {"conflict", "selected"} : \E q, row :
               Begin(e, kind, op[e].mode, q, op[e].list, row)
      BY <2>3 DEF SaveSelect, Conflict
    <3> QED
      BY <1>3, <1>4, <2>3, <3>1 DEF SaveSelect, UnchangedRows, Making
  <2>4. CASE PersistRefused(e)
    BY <1>3, <1>4, <2>4
    DEF PersistRefused, Conflict, UnchangedRows, Making
  <2>5. CASE SaveDone(e) \/ SaveDoubted(e)
    BY <1>3, <2>5 DEF SaveDone, SaveDoubted, UnchangedRows, Making
  <2> QED
    BY <1>5, <2>1, <2>2, <2>3, <2>4, <2>5, PersistWhole DEF Work
<1>6. ASSUME NEW e \in Editors, Dialog(e)
      PROVE  WholeInv'
  BY <1>3, <1>4, <1>6
  DEF Dialog, SaveForced, Capture, Reload, Load, Cancel, UnchangedRows, Making
<1>7. ASSUME NEW e \in Editors, Manage(e)
      PROVE  WholeInv'
  <2>1. CASE \E q \in Numbers, status \in Chosen : StatusRead(e, q, status)
    BY <1>4, <2>1 DEF StatusRead, Free, Idle, UnchangedRows, Making
  <2> QED
    BY <1>7, <2>1, StatusWriteWhole, DeleteWhole, DuplicateWhole DEF Manage
<1>8. ASSUME NEW e \in Editors, Revise(e)
      PROVE  WholeInv'
  <2>1. CASE (\E q \in Numbers : ReviseRead(e, q)) \/ ReviseNumber(e)
    <3>1. UNCHANGED <<db, disturbed>> /\ op[e].kind \notin Making
      BY <2>1 DEF ReviseRead, ReviseNumber, Free, Idle, UnchangedRows,
                   Making
    <3>2. \E kind \in {"original", "numbered"} : \E mode, q, list, row :
            Begin(e, kind, mode, q, list, row)
      BY <2>1 DEF ReviseRead, ReviseNumber
    <3> QED
      BY <1>4, <3>1, <3>2 DEF Making
  <2> QED
    BY <1>8, <2>1, ReviseInsertWhole, ReviseItemsWhole, ReviseTotalsWhole
    DEF Revise
<1>9. ASSUME NEW t \in Tabs, Refetch(t) \/ RestoreDraft(t) \/ Restart(t)
      PROVE  WholeInv'
  BY <1>2, <1>9, RestartWhole DEF Refetch, RestoreDraft, UnchangedRows, ops
<1>10. ASSUME NEW e \in Editors, Leave(e)
       PROVE  WholeInv'
  BY <1>2, <1>10 DEF Leave, UnchangedRows
<1> QED
  BY <1>1, <1>5, <1>6, <1>7, <1>8, <1>9, <1>10, QuoteConstants DEF Next

(* The figures of one save never stand over the items of another, but in a *)
(* revision in the making, one disturbed, or a copy of such a one.         *)
THEOREM QuotesWhole == Spec => []WholeUnlessRevised
<1>1. Init => WholeInv
  BY Idling
  DEF Init, WholeInv, MakersApart, PartsInHand, WholeUnlessRevised, Making, Exists
<1>2. Typing /\ WholeInv /\ [Next]_vars => WholeInv'
  BY WholeStep
<1>3. WholeInv => WholeUnlessRevised
  BY DEF WholeInv
<1> QED
  BY <1>1, <1>2, <1>3, QuoteTyping, PTL DEF Spec
=============================================================================
