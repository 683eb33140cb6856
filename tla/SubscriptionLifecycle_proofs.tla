-------------------- MODULE SubscriptionLifecycle_proofs --------------------
(***************************************************************************)
(* Proofs about SubscriptionLifecycle, for any organisations, requests,    *)
(* periods, graces and bounds.                                             *)
(***************************************************************************)
EXTENDS SubscriptionLifecycle, TLAPS

(* Every operation but "set" is on a row that exists.                      *)
RowOperations ==
  \A a \in Admins : op[a].kind \notin {"idle", "set"} => op[a].row \in Rows

(* A run of the SQL function holds one row of an organisation at most.     *)
OneItemPerOrg ==
  \A i, j \in function : i.row[1] = j.row[1] => i = j

(* What the function expires is past its grace, now and ever after.        *)
ExpiredIsPastGrace ==
  \A i \in function : i.to = "expired" => now > i.end + Grace

IInv == TypeOK /\ RowOperations /\ OneCurrentSubscription
        /\ OneItemPerOrg /\ ExpiredIsPastGrace

USE DEF CurrentStatuses, SubStatuses

(* A selection of a job is a set of items, of the current rows only.       *)
LEMMA SelectionTyping ==
  ASSUME TypeOK, NEW grace
  PROVE  /\ Selection(grace) \subseteq Items
         /\ \A i \in Selection(grace) :
              /\ IsCurrent(i.row) /\ i.row \in Rows
              /\ i.end = end[i.row]
              /\ i.to = "expired" => now > i.end + grace
<1>1. ASSUME NEW i \in Selection(grace)
      PROVE  /\ i \in Items
             /\ IsCurrent(i.row) /\ i.row \in Rows
             /\ i.end = end[i.row]
             /\ i.to = "expired" => now > i.end + grace
  <2>1. PICK r \in Rows :
          /\ Selects(r)
          /\ i = [row |-> r, end |-> end[r],
                  to |-> IF now > end[r] + grace THEN "expired"
                                                 ELSE "past_due"]
    BY <1>1 DEF Selection
  <2>2. end[r] \in 0 .. MaxEnd
    BY <2>1 DEF TypeOK
  <2>3. i \in Items
    BY <2>1, <2>2 DEF Items
  <2> QED
    BY <2>1, <2>3 DEF Selects, IsCurrent
<1> QED
  BY <1>1

(* Only one row of an organisation can become current at a time.           *)
LEMMA IndexKeepsOneCurrent ==
  ASSUME TypeOK, OneCurrentSubscription, NEW r \in Rows, NEW s,
         IndexAllows(r, s), status' = [status EXCEPT ![r] = s]
  PROVE  OneCurrentSubscription'
<1> SUFFICES ASSUME NEW o \in Orgs, NEW p \in RowsOf(o), NEW q \in RowsOf(o),
                    IsCurrent(p)', IsCurrent(q)'
             PROVE  p = q
  BY DEF OneCurrentSubscription, RowsOf
<1>1. p \in Rows /\ q \in Rows /\ p[1] = o /\ q[1] = o
  BY DEF RowsOf, Rows
<1>2. \A x \in Rows : status'[x] = IF x = r THEN s ELSE status[x]
  BY DEF TypeOK
<1>3. CASE p # r /\ q # r
  BY <1>1, <1>2, <1>3 DEF IsCurrent, OneCurrentSubscription
<1>4. CASE p = r /\ q # r
  <2>1. s \in CurrentStatuses /\ q \in RowsOf(r[1]) \ {r}
    BY <1>1, <1>2, <1>4 DEF IsCurrent
  <2>2. ~IsCurrent(q)
    BY <2>1 DEF IndexAllows
  <2> QED
    BY <1>1, <1>2, <1>4, <2>2 DEF IsCurrent
<1>5. CASE p # r /\ q = r
  <2>1. s \in CurrentStatuses /\ p \in RowsOf(r[1]) \ {r}
    BY <1>1, <1>2, <1>5 DEF IsCurrent
  <2>2. ~IsCurrent(p)
    BY <2>1 DEF IndexAllows
  <2> QED
    BY <1>1, <1>2, <1>5, <2>2 DEF IsCurrent
<1> QED
  BY <1>3, <1>4, <1>5

(* What an operation of row r remembers is well typed.                     *)
LEMMA BeginTyping ==
  ASSUME TypeOK, RowOperations, NEW a \in Admins, NEW k \in OpKinds,
         NEW r \in Orgs \X (0 .. MaxRows), NEW s \in SubStatuses,
         NEW e \in Nat, k \notin {"idle", "set"} => r \in Rows,
         Begin(a, k, r, s, e)
  PROVE  TypeOK' /\ RowOperations'
<1>1. Operation(k, r, s, e) \in Operations
  BY LifecycleConstants DEF Operation, Operations, Begin
<1>2. /\ op' = [op EXCEPT ![a] = Operation(k, r, s, e)]
      /\ UNCHANGED <<now, rowVars, crowded, jobVars>>
  BY DEF Begin
<1>3. op' \in [Admins -> Operations]
  BY <1>1, <1>2 DEF TypeOK
<1>4. TypeOK'
  BY <1>2, <1>3 DEF TypeOK, rowVars, jobVars
<1>5. RowOperations'
  BY <1>2 DEF RowOperations, Operation, TypeOK, Rows
<1> QED
  BY <1>4, <1>5

(* The rows the queries find are rows of the organisation.                 *)
LEMMA FoundRows ==
  ASSUME TypeOK, NEW o \in Orgs
  PROVE  /\ RowsOf(o) \subseteq Rows
         /\ \A r \in RowsOf(o) : r[1] = o
         /\ NoRow(o) \in Orgs \X (0 .. MaxRows)
         /\ CurrentRow(o) = NoRow(o) \/ CurrentRow(o) \in RowsOf(o)
         /\ CurrentRow(o) \in Orgs \X (0 .. MaxRows)
<1>1. /\ RowsOf(o) \subseteq Rows
      /\ \A r \in RowsOf(o) : r[1] = o
      /\ NoRow(o) \in Orgs \X (0 .. MaxRows)
      /\ Rows \subseteq Orgs \X (0 .. MaxRows)
  BY LifecycleConstants DEF RowsOf, Rows, NoRow
<1>2. CurrentRow(o) = NoRow(o) \/ CurrentRow(o) \in RowsOf(o)
  BY DEF CurrentRow
<1> QED
  BY <1>1, <1>2

(* Reading changes nothing but what is remembered.                         *)
LEMMA ReadsTyping ==
  ASSUME TypeOK, RowOperations, NEW a \in Admins, Read(a)
  PROVE  TypeOK' /\ RowOperations'
<1> USE DEF OpKinds
<1>1. \A r \in Rows : r \in Orgs \X (0 .. MaxRows) /\ end[r] \in Nat
  BY LifecycleConstants DEF Rows, TypeOK
<1>2. ASSUME NEW r \in Rows, ReadForCancel(a, r)
      PROVE  TypeOK' /\ RowOperations'
  BY <1>1, <1>2, BeginTyping DEF ReadForCancel
<1>3. ASSUME NEW r \in Rows, ReadForPayment(a, r)
      PROVE  TypeOK' /\ RowOperations'
  BY <1>1, <1>3, BeginTyping DEF ReadForPayment
<1>4. ASSUME NEW r \in Rows, NEW s \in SubStatuses, ReadForStatus(a, r, s)
      PROVE  TypeOK' /\ RowOperations'
  BY <1>1, <1>4, BeginTyping DEF ReadForStatus
<1>5. ASSUME NEW r \in Rows, NEW d \in Terms, ReadForExtension(a, r, d)
      PROVE  TypeOK' /\ RowOperations'
  <2>1. end[r] + d \in Nat
    BY <1>1, LifecycleConstants
  <2> QED
    BY <1>1, <1>5, <2>1, BeginTyping DEF ReadForExtension
<1>6. ASSUME NEW o \in Orgs, NEW s \in AssignedStatuses, NEW d \in Terms,
             ReadForAssignment(a, o, s, d)
      PROVE  TypeOK' /\ RowOperations'
  <2>1. s \in SubStatuses /\ now + d \in Nat
    BY LifecycleConstants DEF TypeOK
  <2>2. CurrentRow(o) # NoRow(o) => end[CurrentRow(o)] \in Nat
    BY <1>1, FoundRows
  <2> DEFINE e == IF CurrentRow(o) = NoRow(o) THEN now + d
                  ELSE end[CurrentRow(o)]
  <2>3. e \in Nat /\ CurrentRow(o) \in Orgs \X (0 .. MaxRows)
    BY <2>1, <2>2, FoundRows
  <2>4. Begin(a, "set", CurrentRow(o), s, e)
    BY <1>6 DEF ReadForAssignment
  <2> HIDE DEF e
  <2> QED
    BY <2>1, <2>3, <2>4, BeginTyping
<1>7. ASSUME NEW o \in Orgs, ReadForEnsure(a, o)
      PROVE  TypeOK' /\ RowOperations'
  <2>1. LatestRow(o) \in RowsOf(o) \cup {NoRow(o)}
    BY DEF LatestRow
  <2> DEFINE r == IF CurrentRow(o) # NoRow(o) THEN CurrentRow(o)
                  ELSE LatestRow(o)
  <2>2. r \in Orgs \X (0 .. MaxRows)
    BY <1>1, <2>1, FoundRows
  <2>3. now + Year \in Nat
    BY LifecycleConstants DEF TypeOK
  <2>4. Begin(a, "set", r, "active", now + Year)
    BY <1>7 DEF ReadForEnsure
  <2> HIDE DEF r
  <2> QED
    BY <2>2, <2>3, <2>4, BeginTyping
<1> QED
  BY <1>2, <1>3, <1>4, <1>5, <1>6, <1>7 DEF Read

(* An operation that ends, or goes on to activate, stays well typed.       *)
LEMMA OperationTyping ==
  ASSUME TypeOK, RowOperations, NEW a \in Admins
  PROVE  /\ op[a] \in Operations
         /\ Finish(a) => op' \in [Admins -> Operations] /\ RowOperations'
         /\ \A k \in OpKinds, e \in 0 .. MaxEnd :
              /\ op[a].row \in Rows
              /\ op' = [op EXCEPT ![a] = Operation(k, op[a].row, "active", e)]
              => op' \in [Admins -> Operations] /\ RowOperations'
<1>1. op[a] \in Operations
  BY DEF TypeOK
<1>2. op[a].row \in Orgs \X (0 .. MaxRows)
  BY <1>1 DEF Operations
<1>3. NoOperation(op[a].row[1]) \in Operations
  BY <1>2, LifecycleConstants
  DEF NoOperation, NoRow, Operation, Operations, OpKinds
<1>4. Finish(a) => op' \in [Admins -> Operations]
  BY <1>3 DEF Finish, TypeOK
<1>5. Finish(a) => RowOperations'
  BY DEF Finish, RowOperations, NoOperation, Operation, Rows, TypeOK
<1>6. ASSUME NEW k \in OpKinds, NEW e \in 0 .. MaxEnd, op[a].row \in Rows,
             op' = [op EXCEPT ![a] = Operation(k, op[a].row, "active", e)]
      PROVE  op' \in [Admins -> Operations] /\ RowOperations'
  <2>1. Operation(k, op[a].row, "active", e) \in Operations
    BY <1>2, <1>6 DEF Operation, Operations
  <2>2. op' \in [Admins -> Operations]
    BY <1>6, <2>1 DEF TypeOK
  <2>3. RowOperations'
    BY <1>6 DEF RowOperations, Operation, TypeOK, Rows
  <2> QED
    BY <2>2, <2>3
<1> QED
  BY <1>1, <1>4, <1>5, <1>6

(* The writes of the operations, one by one: they keep the types and one   *)
(* current row, whose index each new status passes.                        *)
LEMMA WritesSafe ==
  ASSUME TypeOK, RowOperations, OneCurrentSubscription,
         NEW a \in Admins, Write(a)
  PROVE  TypeOK' /\ RowOperations' /\ OneCurrentSubscription'
<1> DEFINE Safe == TypeOK' /\ RowOperations' /\ OneCurrentSubscription'
<1> USE DEF rowVars, jobVars
<1>1. /\ op[a].row \in Orgs \X (0 .. MaxRows) /\ op[a].to \in SubStatuses
      /\ op[a].until \in 0 .. MaxEnd
      /\ op[a].kind \notin {"idle", "set"} => op[a].row \in Rows
  BY OperationTyping DEF Operations, RowOperations
<1>2. UNCHANGED status => OneCurrentSubscription'
  BY DEF OneCurrentSubscription, IsCurrent, RowsOf
<1>3. CASE WriteExtension(a)
  <2>1. end' \in [Rows -> 0 .. MaxEnd]
    BY <1>1, <1>3 DEF WriteExtension, TypeOK
  <2> QED
    BY <1>2, <1>3, <2>1, OperationTyping DEF WriteExtension, TypeOK
<1>4. CASE ChangeStatus(a)
  <2>1. /\ op[a].row \in Rows /\ WriteStatus(op[a].row, op[a].to)
        /\ Finish(a) /\ UNCHANGED <<now, end, paid, crowded, jobVars>>
    BY <1>1, <1>4 DEF ChangeStatus
  <2>2. OneCurrentSubscription'
    BY <2>1, IndexKeepsOneCurrent DEF WriteStatus
  <2>3. status' \in [Rows -> SubStatuses \cup {"none"}]
    BY <1>1, <2>1 DEF WriteStatus, TypeOK
  <2> QED
    BY <2>1, <2>2, <2>3, OperationTyping DEF TypeOK
<1>5. CASE InsertPayment(a)
  <2>1. op[a].row \in Rows
    BY <1>1, <1>5 DEF InsertPayment
  <2>2. op' \in [Admins -> Operations] /\ RowOperations'
    <3>1. "paid" \in OpKinds /\ 0 \in 0 .. MaxEnd
      BY LifecycleConstants DEF OpKinds
    <3> QED
      BY <1>5, <2>1, <3>1, OperationTyping DEF InsertPayment
  <2> QED
    BY <1>2, <1>5, <2>1, <2>2 DEF InsertPayment, TypeOK
<1>6. ASSUME NEW d \in Terms, RereadForActivation(a, d)
      PROVE  Safe
  <2>1. op[a].row \in Rows /\ end[op[a].row] + d \in 0 .. MaxEnd
    BY <1>1, <1>6, LifecycleConstants DEF RereadForActivation, TypeOK
  <2>2. op' \in [Admins -> Operations] /\ RowOperations'
    <3>1. "activate" \in OpKinds
      BY DEF OpKinds
    <3> QED
      BY <1>6, <2>1, <3>1, OperationTyping DEF RereadForActivation
  <2> QED
    BY <1>2, <1>6, <2>2 DEF RereadForActivation, TypeOK
<1>7. CASE WriteActivation(a)
  <2>1. /\ op[a].row \in Rows /\ WriteStatus(op[a].row, "active")
        /\ end' = [end EXCEPT ![op[a].row] = op[a].until]
        /\ Finish(a) /\ UNCHANGED <<now, paid, crowded, jobVars>>
    BY <1>1, <1>7 DEF WriteActivation
  <2>2. OneCurrentSubscription'
    BY <2>1, IndexKeepsOneCurrent DEF WriteStatus
  <2>3. /\ status' \in [Rows -> SubStatuses \cup {"none"}]
        /\ end' \in [Rows -> 0 .. MaxEnd]
    BY <1>1, <2>1 DEF WriteStatus, TypeOK
  <2> QED
    BY <2>1, <2>2, <2>3, OperationTyping DEF TypeOK
<1>8. CASE WriteSubscription(a)
  <2>1. op[a].row[1] \in Orgs
    BY <1>1
  <2>2. PICK r \in RowsOf(op[a].row[1]) : WriteRow(r, op[a].to, op[a].until)
    BY <1>8 DEF WriteSubscription
  <2>3. r \in Rows
    BY <2>1, FoundRows
  <2>4. OneCurrentSubscription'
    BY <2>2, <2>3, IndexKeepsOneCurrent DEF WriteRow
  <2>5. /\ status' \in [Rows -> SubStatuses \cup {"none"}]
        /\ end' \in [Rows -> 0 .. MaxEnd] /\ crowded' \subseteq Orgs
    BY <1>1, <2>2, <2>3 DEF WriteRow, TypeOK
  <2> QED
    BY <1>8, <2>4, <2>5, OperationTyping DEF WriteSubscription, TypeOK
<1>9. CASE Abandon(a)
  BY <1>2, <1>9, OperationTyping DEF Abandon, TypeOK
<1> QED
  BY <1>3, <1>4, <1>5, <1>6, <1>7, <1>8, <1>9 DEF Write

(* The jobs keep the types and one current row; the SQL function, which    *)
(* writes its rows in one transaction, because no two are of the same      *)
(* organisation.                                                           *)
LEMMA JobsSafe ==
  ASSUME IInv,
         \/ ScriptSelect \/ ScriptWrite \/ ScriptCrash
         \/ FunctionSelect \/ FunctionCommit \/ FunctionAbort
  PROVE  TypeOK' /\ RowOperations' /\ OneCurrentSubscription'
<1> USE DEF rowVars, jobVars, IInv
<1>1. UNCHANGED status => OneCurrentSubscription'
  BY DEF OneCurrentSubscription, IsCurrent, RowsOf
<1>2. UNCHANGED op => RowOperations'
  BY DEF RowOperations, Rows
<1>3. CASE ScriptSelect
  BY <1>1, <1>2, <1>3, SelectionTyping DEF ScriptSelect, TypeOK
<1>4. CASE FunctionSelect
  BY <1>1, <1>2, <1>4, SelectionTyping DEF FunctionSelect, TypeOK
<1>5. CASE ScriptCrash
  BY <1>1, <1>2, <1>5 DEF ScriptCrash, TypeOK
<1>6. CASE FunctionAbort
  BY <1>1, <1>2, <1>6 DEF FunctionAbort, TypeOK
<1>7. CASE ScriptWrite
  <2>1. PICK i \in script :
          /\ \/ WriteStatus(i.row, i.to)
             \/ UNCHANGED status
          /\ script' = script \ {i}
          /\ UNCHANGED <<now, end, paid, crowded, op, function>>
    BY <1>7 DEF ScriptWrite
  <2>2. i.row \in Rows /\ i.to \in {"past_due", "expired"}
    BY DEF TypeOK, Items
  <2>3. CASE WriteStatus(i.row, i.to)
    <3>1. OneCurrentSubscription'
      BY <2>2, <2>3, IndexKeepsOneCurrent DEF WriteStatus
    <3>2. status' \in [Rows -> SubStatuses \cup {"none"}]
      BY <2>2, <2>3 DEF WriteStatus, TypeOK
    <3> QED
      BY <1>2, <2>1, <3>1, <3>2 DEF TypeOK
  <2>4. CASE UNCHANGED status
    BY <1>1, <1>2, <2>1, <2>4 DEF TypeOK
  <2> QED
    BY <2>1, <2>3, <2>4
<1>8. CASE FunctionCommit
  <2>1. /\ \A i \in function : IndexAllows(i.row, i.to)
        /\ status' = [r \in Rows |->
             IF \E i \in function : i.row = r
               THEN (CHOOSE i \in function : i.row = r).to ELSE status[r]]
        /\ function' = {} /\ UNCHANGED <<now, end, paid, crowded, op, script>>
    BY <1>8 DEF FunctionCommit
  <2>2. \A r \in Rows :
          \/ /\ status'[r] = status[r]
             /\ \A i \in function : i.row # r
          \/ \E i \in function : i.row = r /\ status'[r] = i.to
    BY <2>1
  <2>3. \A i \in function : i.row \in Rows /\ i.to \in {"past_due", "expired"}
    BY DEF TypeOK, Items
  <2>4. status' \in [Rows -> SubStatuses \cup {"none"}]
    <3>1. \A r \in Rows : status'[r] \in SubStatuses \cup {"none"}
      BY <2>2, <2>3 DEF TypeOK
    <3> QED
      BY <2>1, <3>1
  <2>5. OneCurrentSubscription'
    <3> SUFFICES ASSUME NEW o \in Orgs, NEW p \in RowsOf(o),
                        NEW q \in RowsOf(o), IsCurrent(p)', IsCurrent(q)',
                        p # q
                 PROVE  FALSE
      BY DEF OneCurrentSubscription, RowsOf
    <3>1. p \in Rows /\ q \in Rows /\ p[1] = o /\ q[1] = o
      BY FoundRows
    <3>2. ASSUME NEW x \in RowsOf(o), NEW y \in RowsOf(o), x # y,
                 x \in Rows, y \in Rows, x[1] = o, y[1] = o,
                 IsCurrent(x)', IsCurrent(y)',
                 NEW i \in function, i.row = x, status'[x] = i.to
          PROVE  FALSE
      <4>1. ~IsCurrent(y)
        BY <2>1, <3>2 DEF IndexAllows, IsCurrent
      <4>2. PICK j \in function : j.row = y
        BY <2>2, <3>2, <4>1 DEF IsCurrent
      <4> QED
        BY <3>2, <4>2 DEF OneItemPerOrg
    <3>3. ~ \E i \in function : i.row = p /\ status'[p] = i.to
      BY <3>1, <3>2
    <3>4. ~ \E i \in function : i.row = q /\ status'[q] = i.to
      BY <3>1, <3>2
    <3>5. status'[p] = status[p] /\ status'[q] = status[q]
      BY <2>2, <3>1, <3>3, <3>4
    <3> QED
      BY <3>1, <3>5 DEF IsCurrent, OneCurrentSubscription
  <2> QED
    BY <1>2, <2>1, <2>4, <2>5 DEF TypeOK
<1> QED
  BY <1>3, <1>4, <1>5, <1>6, <1>7, <1>8

(* What the function has selected stays as it is until it ends, and its    *)
(* selection holds one row of an organisation at most.                     *)
LEMMA FunctionSafe ==
  ASSUME IInv, [Next]_vars
  PROVE  OneItemPerOrg' /\ ExpiredIsPastGrace'
<1> USE DEF IInv, rowVars, jobVars
<1>1. CASE FunctionSelect
  <2>1. function' = Selection(Grace) /\ now' = now
    BY <1>1 DEF FunctionSelect, FunctionGrace
  <2>2. \A i \in Selection(Grace) :
          /\ i \in Items /\ IsCurrent(i.row) /\ i.row \in Rows
          /\ i.end = end[i.row]
          /\ i.to = "expired" => now > i.end + Grace
    BY SelectionTyping
  <2>3. ExpiredIsPastGrace'
    BY <2>1, <2>2 DEF ExpiredIsPastGrace
  <2>4. ASSUME NEW i \in Selection(Grace), NEW j \in Selection(Grace),
               i.row[1] = j.row[1]
        PROVE  i = j
    <3>1. /\ i.row[1] \in Orgs /\ i.row \in RowsOf(i.row[1])
          /\ j.row \in RowsOf(i.row[1])
      BY <2>2, <2>4 DEF Rows, RowsOf
    <3>2. i.row = j.row
      BY <2>2, <3>1 DEF OneCurrentSubscription
    <3>3. i.to = j.to
      <4>1. PICK r \in Rows :
              i = [row |-> r, end |-> end[r],
                   to |-> IF now > end[r] + Grace THEN "expired"
                                                  ELSE "past_due"]
        BY DEF Selection
      <4>2. PICK q \in Rows :
              j = [row |-> q, end |-> end[q],
                   to |-> IF now > end[q] + Grace THEN "expired"
                                                  ELSE "past_due"]
        BY DEF Selection
      <4> QED
        BY <3>2, <4>1, <4>2
    <3> QED
      BY <2>2, <3>2, <3>3 DEF Items
  <2> QED
    BY <2>1, <2>3, <2>4 DEF OneItemPerOrg
<1>2. CASE FunctionCommit \/ FunctionAbort
  BY <1>2 DEF FunctionCommit, FunctionAbort, OneItemPerOrg, ExpiredIsPastGrace
<1>3. CASE Tick
  <2>1. OneItemPerOrg'
    BY <1>3 DEF Tick, OneItemPerOrg
  <2>2. \A i \in function : i.end \in Nat
    BY DEF TypeOK, Items
  <2>3. ExpiredIsPastGrace'
    BY <1>3, <2>2, LifecycleConstants DEF Tick, ExpiredIsPastGrace, TypeOK
  <2> QED
    BY <2>1, <2>3
<1>4. ASSUME UNCHANGED <<now, function>>
      PROVE  OneItemPerOrg' /\ ExpiredIsPastGrace'
  BY <1>4 DEF OneItemPerOrg, ExpiredIsPastGrace
<1>5. ASSUME NEW a \in Admins, Read(a)
      PROVE  UNCHANGED <<now, function>>
  BY <1>5 DEF Read, Begin, ReadForCancel, ReadForPayment, ReadForStatus,
              ReadForExtension, ReadForAssignment, ReadForEnsure
<1>6. ASSUME NEW a \in Admins, Write(a)
      PROVE  UNCHANGED <<now, function>>
  BY <1>6 DEF Write, WriteExtension, ChangeStatus, InsertPayment,
              RereadForActivation, WriteActivation, WriteSubscription, Abandon
<1>7. ASSUME \/ \E o \in Orgs : ChangeMembers(o)
             \/ ScriptSelect \/ ScriptWrite \/ ScriptCrash \/ UNCHANGED vars
      PROVE  UNCHANGED <<now, function>>
  BY <1>7 DEF ChangeMembers, ScriptSelect, ScriptWrite, ScriptCrash, vars
<1> QED
  BY <1>1, <1>2, <1>3, <1>4, <1>5, <1>6, <1>7 DEF Next

(* The inductive invariant of the life cycle: types, one current row, and  *)
(* what the SQL function still knows about the rows it has selected.       *)
THEOREM LifecycleInvariant == Spec => []IInv
<1>1. Init => IInv
  <2> SUFFICES ASSUME Init PROVE IInv
    OBVIOUS
  <2>1. op \in [Admins -> Operations] /\ \A a \in Admins : op[a].kind = "idle"
    BY LifecycleConstants
    DEF Init, NoOperation, NoRow, Operation, Operations, OpKinds
  <2>2. TypeOK /\ RowOperations
    BY <2>1, LifecycleConstants DEF Init, TypeOK, RowOperations
  <2>3. \A o \in Orgs : \A r \in RowsOf(o) : ~IsCurrent(r)
    <3>1. \A r \in Rows : ~IsCurrent(r)
      BY DEF Init, IsCurrent
    <3> QED
      BY <2>2, <3>1, FoundRows
  <2> QED
    BY <2>2, <2>3
    DEF Init, IInv, OneCurrentSubscription, OneItemPerOrg, ExpiredIsPastGrace
<1>2. IInv /\ [Next]_vars => IInv'
  <2> SUFFICES ASSUME IInv, [Next]_vars
               PROVE  TypeOK' /\ RowOperations' /\ OneCurrentSubscription'
    BY FunctionSafe DEF IInv
  <2> USE DEF rowVars, jobVars
  <2>1. ASSUME UNCHANGED <<status, op>>
        PROVE  RowOperations' /\ OneCurrentSubscription'
    BY <2>1 DEF IInv, RowOperations, Rows, OneCurrentSubscription, IsCurrent,
                RowsOf
  <2>2. CASE Tick
    BY <2>1, <2>2, LifecycleConstants DEF Tick, IInv, TypeOK
  <2>3. ASSUME NEW o \in Orgs, ChangeMembers(o)
        PROVE  TypeOK' /\ RowOperations' /\ OneCurrentSubscription'
    BY <2>1, <2>3 DEF ChangeMembers, IInv, TypeOK
  <2>4. ASSUME NEW a \in Admins, Read(a)
        PROVE  TypeOK' /\ RowOperations' /\ OneCurrentSubscription'
    <3>1. TypeOK' /\ RowOperations'
      BY <2>4, ReadsTyping DEF IInv
    <3>2. UNCHANGED status
      BY <2>4 DEF Read, Begin, ReadForCancel, ReadForPayment, ReadForStatus,
                  ReadForExtension, ReadForAssignment, ReadForEnsure
    <3> QED
      BY <3>1, <3>2 DEF IInv, OneCurrentSubscription, IsCurrent, RowsOf
  <2>5. ASSUME NEW a \in Admins, Write(a)
        PROVE  TypeOK' /\ RowOperations' /\ OneCurrentSubscription'
    BY <2>5, WritesSafe DEF IInv
  <2>6. CASE \/ ScriptSelect \/ ScriptWrite \/ ScriptCrash
             \/ FunctionSelect \/ FunctionCommit \/ FunctionAbort
    BY <2>6, JobsSafe
  <2>7. CASE UNCHANGED vars
    BY <2>1, <2>7 DEF vars, IInv, TypeOK
  <2> QED
    BY <2>2, <2>3, <2>4, <2>5, <2>6, <2>7 DEF Next
<1> QED
  BY <1>1, <1>2, PTL DEF Spec

(* The rows, operations and jobs keep their types.                         *)
THEOREM LifecycleTypes == Spec => []TypeOK
BY LifecycleInvariant, PTL DEF IInv

(* However many requests and jobs create, revive and renew the rows of an  *)
(* organisation at once, one of them at most is current.                   *)
THEOREM NeverTwoCurrent == Spec => []OneCurrentSubscription
BY LifecycleInvariant, PTL DEF IInv

(* The SQL job never takes away, nor gives back, the use of an unpaid      *)
(* subscription whose period has not changed since the job selected it,    *)
(* whatever the grace and however late the commit.                         *)
THEOREM GraceAgrees == Spec => FunctionAgreesWithService
<1> DEFINE Agrees(i) ==
      /\ function' = {}
      /\ i.row \notin paid /\ Selects(i.row) /\ end[i.row] = i.end
      => (IsUsable(i.row)' <=> IsUsable(i.row))
<1>1. IInv /\ [Next]_vars => [\A i \in function : Agrees(i)]_vars
  <2> SUFFICES ASSUME IInv, [Next]_vars, NEW i \in function, function' = {},
                      i.row \notin paid, Selects(i.row), end[i.row] = i.end
               PROVE  IsUsable(i.row)' <=> IsUsable(i.row)
    OBVIOUS
  <2> USE DEF IInv, rowVars, jobVars
  <2>1. FunctionCommit \/ FunctionAbort
    <3>1. ASSUME NEW a \in Admins, Read(a) \/ Write(a)
          PROVE  UNCHANGED function
      BY <3>1 DEF Read, Begin, ReadForCancel, ReadForPayment, ReadForStatus,
                  ReadForExtension, ReadForAssignment, ReadForEnsure, Write,
                  WriteExtension, ChangeStatus, InsertPayment,
                  RereadForActivation, WriteActivation, WriteSubscription,
                  Abandon
    <3> QED
      BY <3>1 DEF Next, vars, Tick, ChangeMembers, ScriptSelect, ScriptWrite,
                  ScriptCrash, FunctionSelect
  <2>2. CASE FunctionAbort
    BY <2>2 DEF FunctionAbort, IsUsable, IsCurrent
  <2>3. CASE FunctionCommit
    <3>1. /\ i.row \in Rows /\ i.to \in {"past_due", "expired"}
          /\ now \in Nat /\ end[i.row] \in Nat
          /\ status[i.row] \in {"active", "trialing"} /\ end[i.row] < now
      BY DEF TypeOK, Items, Selects
    <3>2. \A j \in function : j.row = i.row => j = i
      BY DEF OneItemPerOrg
    <3>3. status'[i.row] = i.to /\ UNCHANGED <<now, end, paid>>
      BY <2>3, <3>1, <3>2 DEF FunctionCommit
    <3>4. i.to = "expired" => now > end[i.row] + Grace
      BY DEF ExpiredIsPastGrace
    <3>5. IsUsable(i.row) <=> now <= end[i.row] + Grace
      BY <3>1 DEF IsUsable, IsCurrent
    <3>6. IsUsable(i.row)' <=> i.to = "past_due" /\ now <= end[i.row] + Grace
      BY <3>1, <3>3 DEF IsUsable, IsCurrent
    <3> QED
      BY <3>1, <3>4, <3>5, <3>6, LifecycleConstants
  <2> QED
    BY <2>1, <2>2, <2>3
<1> QED
  BY <1>1, LifecycleInvariant, PTL DEF Spec, FunctionAgreesWithService

=============================================================================
