----------------------- MODULE SubscriptionLifecycle -----------------------
(***************************************************************************)
(* The subscription rows of the organisations over time: the super admin's *)
(* operations, the alignment that key generation and redemption make, and  *)
(* the two jobs that end lapsed subscriptions.                             *)
(*                                                                         *)
(* Every operation reads a row with one statement and writes it, by id,    *)
(* with a later one: nothing locks the row in between, so each operation   *)
(* is a read that remembers what it saw and a write that uses it.  Time is *)
(* counted in days.  trial_ends_at is left out: no code sets it.           *)
(*                                                                         *)
(* A row is <<organisation, n>>, its rows being created in the order 1, 2, *)
(* ..., and <<organisation, 0>> stands for the row a query did not find.   *)
(***************************************************************************)
EXTENDS Integers, FiniteSets

CONSTANTS
  Orgs,         \* organisations
  Admins,       \* requests in progress, of administrators and of key holders
  Grace,        \* days of grace, of the service and of the SQL job
  ScriptGrace,  \* days of grace of the script: an organisation's setting, or 0
  AssignedStatuses,  \* the statuses an assignment asks for
  Terms,        \* lengths of a billing period, and of an extension, in days
  Year,         \* the renewal of ensureActiveOrgSubscription, in days
  MaxRows,      \* bound: rows of an organisation
  MaxTime,      \* bound: the clock
  MaxEnd        \* bound: how far a period is extended

ASSUME LifecycleConstants ==
  /\ Grace \in Nat \ {0} /\ ScriptGrace \in Nat
  /\ Terms \subseteq Nat \ {0} /\ Year \in Nat \ {0}
  /\ AssignedStatuses \subseteq {"trialing", "active", "past_due", "cancelled",
                               "expired"}
  /\ MaxRows \in Nat /\ MaxTime \in Nat /\ MaxEnd \in Nat

VARIABLES
  now,       \* the day
  status,    \* org_subscriptions.status of each row, or "none"
  end,       \* org_subscriptions.current_period_end
  paid,      \* rows that have a payment whose status is paid
  crowded,   \* organisations with more members than the seats of the row
  op,        \* the operation in progress of each request
  script,    \* what the expiry script has still to write
  function   \* what the SQL function has selected and not committed

rowVars == <<status, end, paid>>
jobVars == <<script, function>>
vars == <<now, rowVars, crowded, op, jobVars>>

CurrentStatuses == {"trialing", "active", "past_due"}
SubStatuses == CurrentStatuses \cup {"cancelled", "expired"}
Rows == Orgs \X (1 .. MaxRows)
RowsOf(o) == {o} \X (1 .. MaxRows)
NoRow(o) == <<o, 0>>

(* The operations, by what their last statement writes: the period, the    *)
(* status, both, or the whole row; or a payment, which may go on to revive *)
(* its subscription.  "to" and "until" are the values to be written.       *)
OpKinds == {"idle", "extend", "status", "activate", "set",
            "pay", "payRevive", "paid"}
Operations == [kind : OpKinds, row : Orgs \X (0 .. MaxRows),
               to : SubStatuses, until : 0 .. MaxEnd]

(* A row a job has selected, its period then, the status it is to get.     *)
Items == [row : Rows, end : 0 .. MaxEnd, to : {"past_due", "expired"}]

TypeOK ==
  /\ now \in 0 .. MaxTime
  /\ status \in [Rows -> SubStatuses \cup {"none"}]
  /\ end \in [Rows -> 0 .. MaxEnd]
  /\ paid \subseteq Rows
  /\ crowded \subseteq Orgs
  /\ op \in [Admins -> Operations]
  /\ script \subseteq Items /\ function \subseteq Items

-----------------------------------------------------------------------------
(* Queries, constraints and the service's own view.                        *)

IsCurrent(r) == status[r] \in CurrentStatuses

CurrentRow(o) ==
  IF \E r \in RowsOf(o) : IsCurrent(r)
    THEN CHOOSE r \in RowsOf(o) : IsCurrent(r)
    ELSE NoRow(o)

LatestRow(o) ==
  IF \E r \in RowsOf(o) : status[r] # "none"
    THEN CHOOSE r \in RowsOf(o) :
           /\ status[r] # "none"
           /\ \A q \in RowsOf(o) : status[q] # "none" => q[2] <= r[2]
    ELSE NoRow(o)

(* The partial unique index over (org_id) of the current rows.             *)
IndexMissing(r, s) == TRUE  \* Variant: the index is dropped
IndexAllows(r, s) ==
  s \in CurrentStatuses
    => \A q \in RowsOf(r[1]) \ {r} : ~IsCurrent(q)

(* The trigger that counts the members when a status is written.           *)
MembersAllow(r, s) == s \in CurrentStatuses => r[1] \notin crowded

WriteStatus(r, s) ==
  /\ IndexAllows(r, s) /\ MembersAllow(r, s)
  /\ status' = [status EXCEPT ![r] = s]

(* A write that sets the seat limit too, to one that fits the members.     *)
WriteRow(r, s, e) ==
  /\ IndexAllows(r, s)
  /\ status' = [status EXCEPT ![r] = s]
  /\ end' = [end EXCEPT ![r] = e]
  /\ crowded' = IF s \in CurrentStatuses THEN crowded \ {r[1]} ELSE crowded

(* Any paid payment, ever, makes a current subscription usable.            *)
IsUsable(r) ==
  /\ IsCurrent(r)
  /\ \/ r \in paid
     \/ status[r] \in {"active", "trialing"} /\ end[r] > now
     \/ now <= end[r] + Grace

-----------------------------------------------------------------------------
(* The operations of the super admin, and ensureActiveOrgSubscription.     *)

Operation(k, r, s, e) == [kind |-> k, row |-> r, to |-> s, until |-> e]
NoOperation(o) == Operation("idle", NoRow(o), "active", 0)

Begin(a, k, r, s, e) ==
  /\ op[a].kind = "idle" /\ e <= MaxEnd
  /\ op' = [op EXCEPT ![a] = Operation(k, r, s, e)]
  /\ UNCHANGED <<now, rowVars, crowded, jobVars>>

Finish(a) == op' = [op EXCEPT ![a] = NoOperation(op[a].row[1])]

ValidTransitions ==
  [trialing  |-> {"active", "past_due", "cancelled", "expired"},
   active    |-> {"past_due", "cancelled", "expired"},
   past_due  |-> {"active", "cancelled", "expired"},
   cancelled |-> {"active"},
   expired   |-> {"active", "trialing"}]

ReadForExtension(a, r, days) ==
  /\ status[r] # "none"
  /\ Begin(a, "extend", r, "active", end[r] + days)

ReadForStatus(a, r, s) ==
  /\ status[r] # "none"
  /\ s \in ValidTransitions[status[r]]
  /\ Begin(a, "status", r, s, 0)

ReadForCancel(a, r) ==
  /\ status[r] \notin {"none", "cancelled"}
  /\ Begin(a, "status", r, "cancelled", 0)

(* Whether the payment revives the subscription is decided by this read.   *)
ReadForPayment(a, r) ==
  /\ status[r] # "none"
  /\ \/ Begin(a, "pay", r, "active", 0)
     \/ /\ status[r] \in {"expired", "past_due"}
        /\ Begin(a, "payRevive", r, "active", 0)

(* An existing row keeps the period that was read.                         *)
ReadForAssignment(a, o, s, days) ==
  LET c == CurrentRow(o) IN
  Begin(a, "set", c, s, IF c = NoRow(o) THEN now + days ELSE end[c])

(* The current row when its period is over, else the latest dead row, else *)
(* none; a current row whose period runs is left alone, its seat limit     *)
(* apart (ChangeMembers: the members then fit again).                      *)
ReadForEnsure(a, o) ==
  LET c == CurrentRow(o) IN
  /\ c # NoRow(o) => end[c] <= now
  /\ Begin(a, "set", IF c # NoRow(o) THEN c ELSE LatestRow(o),
           "active", now + Year)

(* Only the period is written: no trigger looks.                           *)
WriteExtension(a) ==
  /\ op[a].kind = "extend"
  /\ end' = [end EXCEPT ![op[a].row] = op[a].until]
  /\ Finish(a)
  /\ UNCHANGED <<now, status, paid, crowded, jobVars>>

ChangeStatus(a) ==
  /\ op[a].kind = "status"
  /\ WriteStatus(op[a].row, op[a].to)
  /\ Finish(a)
  /\ UNCHANGED <<now, end, paid, crowded, jobVars>>

InsertPayment(a) ==
  /\ op[a].kind \in {"pay", "payRevive"}
  /\ paid' = paid \cup {op[a].row}
  /\ IF op[a].kind = "pay" THEN Finish(a)
       ELSE op' = [op EXCEPT ![a] = Operation("paid", op[a].row, "active", 0)]
  /\ UNCHANGED <<now, status, end, crowded, jobVars>>

(* The revival reads the row again, to extend whatever period it has now.  *)
RereadForActivation(a, days) ==
  LET r == op[a].row IN
  /\ op[a].kind = "paid" /\ end[r] + days <= MaxEnd
  /\ op' = [op EXCEPT ![a] = Operation("activate", r, "active", end[r] + days)]
  /\ UNCHANGED <<now, rowVars, crowded, jobVars>>

WriteActivation(a) ==
  /\ op[a].kind = "activate"
  /\ WriteStatus(op[a].row, "active")
  /\ end' = [end EXCEPT ![op[a].row] = op[a].until]
  /\ Finish(a)
  /\ UNCHANGED <<now, paid, crowded, jobVars>>

(* The row that was read is updated; a row is created when none was.       *)
WriteSubscription(a) ==
  LET o == op[a] IN
  /\ o.kind = "set"
  /\ \E r \in RowsOf(o.row[1]) :
       /\ IF o.row[2] # 0 THEN r = o.row
            ELSE \A q \in RowsOf(r[1]) : status[q] = "none" <=> q[2] >= r[2]
       /\ WriteRow(r, o.to, o.until)
  /\ Finish(a)
  /\ UNCHANGED <<now, paid, jobVars>>

(* A statement is refused, or fails, or the server dies.                   *)
Abandon(a) ==
  /\ op[a].kind # "idle"
  /\ Finish(a)
  /\ UNCHANGED <<now, rowVars, crowded, jobVars>>

-----------------------------------------------------------------------------
(* The jobs.  Both select the rows first and update them by id later.      *)

SelectsActiveOnly(r) ==  \* Variant: trials are forgotten
  status[r] = "active" /\ end[r] < now
Selects(r) == status[r] \in {"active", "trialing"} /\ end[r] < now

(* Variant: within the grace the status is kept.                           *)
SelectionKeepsStatus(grace) ==
  {[row |-> r, end |-> end[r],
    to |-> IF now > end[r] + grace THEN "expired" ELSE status[r]]
     : r \in {q \in Rows : Selects(q)}}
Selection(grace) ==
  {[row |-> r, end |-> end[r],
    to |-> IF now > end[r] + grace THEN "expired" ELSE "past_due"]
     : r \in {q \in Rows : Selects(q)}}

ScriptSelect ==
  /\ script = {} /\ script' = Selection(ScriptGrace) /\ script' # {}
  /\ UNCHANGED <<now, rowVars, crowded, op, function>>

(* A row that cannot be updated is skipped.                                *)
ScriptWrite ==
  \E i \in script :
    /\ \/ WriteStatus(i.row, i.to)
       \/ /\ ~(IndexAllows(i.row, i.to) /\ MembersAllow(i.row, i.to))
          /\ UNCHANGED status
    /\ script' = script \ {i}
    /\ UNCHANGED <<now, end, paid, crowded, op, function>>

ScriptCrash ==
  /\ script # {} /\ script' = {}
  /\ UNCHANGED <<now, rowVars, crowded, op, function>>

NoGrace == 0  \* Variant: the default of the function's first version
FunctionGrace == Grace

FunctionSelect ==
  /\ function = {} /\ function' = Selection(FunctionGrace) /\ function' # {}
  /\ UNCHANGED <<now, rowVars, crowded, op, script>>

(* One transaction: all the rows, or none when one update is refused.      *)
FunctionCommit ==
  /\ function # {} /\ function' = {}
  /\ \A i \in function : IndexAllows(i.row, i.to) /\ MembersAllow(i.row, i.to)
  /\ status' = [r \in Rows |->
       IF \E i \in function : i.row = r
         THEN (CHOOSE i \in function : i.row = r).to ELSE status[r]]
  /\ UNCHANGED <<now, end, paid, crowded, op, script>>

FunctionAbort ==
  /\ function # {} /\ function' = {}
  /\ UNCHANGED <<now, rowVars, crowded, op, script>>

-----------------------------------------------------------------------------
Tick ==
  /\ now < MaxTime /\ now' = now + 1
  /\ UNCHANGED <<rowVars, crowded, op, jobVars>>

(* SeatLicensing shows how the members come to exceed the seats.           *)
ChangeMembers(o) ==
  /\ crowded' = IF o \in crowded THEN crowded \ {o} ELSE crowded \cup {o}
  /\ UNCHANGED <<now, rowVars, op, jobVars>>

Init ==
  /\ now = 0
  /\ status = [r \in Rows |-> "none"]
  /\ end = [r \in Rows |-> 0]
  /\ paid = {} /\ crowded = {}
  /\ op \in [Admins -> {NoOperation(o) : o \in Orgs}]
  /\ script = {} /\ function = {}

Read(a) ==
  \/ \E r \in Rows : \/ ReadForCancel(a, r)
                     \/ ReadForPayment(a, r)
                     \/ \E s \in SubStatuses : ReadForStatus(a, r, s)
                     \/ \E d \in Terms : ReadForExtension(a, r, d)
  \/ \E o \in Orgs, s \in AssignedStatuses, d \in Terms :
       ReadForAssignment(a, o, s, d)
  \/ \E o \in Orgs : ReadForEnsure(a, o)

Write(a) ==
  \/ WriteExtension(a) \/ ChangeStatus(a) \/ InsertPayment(a)
  \/ \E d \in Terms : RereadForActivation(a, d)
  \/ WriteActivation(a) \/ WriteSubscription(a) \/ Abandon(a)

Next ==
  \/ Tick
  \/ \E o \in Orgs : ChangeMembers(o)
  \/ \E a \in Admins : Read(a) \/ Write(a)
  \/ ScriptSelect \/ ScriptWrite \/ ScriptCrash
  \/ FunctionSelect \/ FunctionCommit \/ FunctionAbort

Spec == Init /\ [][Next]_vars

(* The script is scheduled again and again, and not every run of it dies.  *)
Fairness == WF_vars(ScriptSelect) /\ SF_vars(ScriptWrite)
FairSpec == Spec /\ Fairness

-----------------------------------------------------------------------------
(* Properties.                                                             *)

(* "Each organization should have one current subscription": never two,    *)
(* whoever creates, revives, renews or reactivates its rows at once.       *)
OneCurrentSubscription ==
  \A o \in Orgs : \A r, q \in RowsOf(o) : IsCurrent(r) /\ IsCurrent(q) => r = q

(* The SQL job and the service agree on the grace: committing the job does *)
(* not change whether an unpaid subscription may be used, when its period  *)
(* is the one the job selected, however late the commit.                   *)
FunctionAgreesWithService ==
  [][\A i \in function :
       /\ function' = {}
       /\ i.row \notin paid /\ Selects(i.row) /\ end[i.row] = i.end
       => (IsUsable(i.row)' <=> IsUsable(i.row))]_vars

(* A subscription whose period is over does not stay active or trialing,   *)
(* unless its organisation has too many members to be written at all.      *)
LapsedIsEnded ==
  \A r \in Rows :
    status[r] \in {"active", "trialing"} /\ end[r] < now
      ~> \/ status[r] \notin {"active", "trialing"} \/ end[r] >= now
         \/ r[1] \in crowded
=============================================================================
