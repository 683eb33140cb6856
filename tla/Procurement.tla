----------------------------- MODULE Procurement -----------------------------
(***************************************************************************)
(* Purchase requests, the orders they become and the receipt of the goods. *)
(* A request and its order are one row.  Pages of the program list the     *)
(* rows, load the lines of the one that is selected into their forms, and  *)
(* send what was decided there; the database functions lock the row, but   *)
(* do not ask whether it is still what the page showed.                    *)
(*                                                                         *)
(* The pages give no line a catalog item, so a receipt changes no stock    *)
(* and is not posted.                                                      *)
(***************************************************************************)
EXTENDS Integers, Sequences, FiniteSets

CONSTANTS
  Pages,        \* open procurement pages
  Lines,        \* the lines of a request
  MaxQuantity,  \* bound: quantity ordered in a line
  MaxOrders,    \* bound: requests made
  MaxClicks,    \* bound: rows selected
  MaxCalls,     \* bound: decisions, conversions and receipts sent
  MaxTroubles   \* bound: requests that fail and replies that are lost

ASSUME ProcurementConstants ==
  /\ MaxQuantity \in Nat /\ MaxOrders \in Nat /\ MaxClicks \in Nat
  /\ MaxCalls \in Nat /\ MaxTroubles \in Nat

VARIABLES
  orders,  \* proc_purchase_orders with their lines, by number
  page,    \* the state of each page
  call,    \* the call that each page has sent and not got answered
  clicks, calls, troubles  \* counters for the bounds

counters == <<clicks, calls, troubles>>
vars == <<orders, page, call, counters>>

Quantities == [Lines -> Nat]

PrStatuses == {"pending", "approved", "rejected", "po_generated"}
Statuses == {"draft", "sent", "partially_received", "received"}

(* "keys" are the idempotency keys of its receipt notes.  History:         *)
(* "recorded" adds up the notes and "notes" counts them, "stale", one was  *)
(* made from a form older than another note, "strayed", one from a form    *)
(* that was opened for another row, "generated", it became an order, and   *)
(* "regenerated", it did so again after goods were received.               *)
Orders ==
  [prStatus : PrStatuses, status : Statuses,
   ordered : Quantities, received : Quantities, keys : SUBSET Nat,
   recorded : Quantities, notes : Nat, stale : BOOLEAN, strayed : BOOLEAN,
   generated : BOOLEAN, regenerated : BOOLEAN]

NewRequest(ordered) ==
  [prStatus |-> "pending", status |-> "draft", ordered |-> ordered,
   received |-> [l \in Lines |-> 0], keys |-> {},
   recorded |-> [l \in Lines |-> 0], notes |-> 0, stale |-> FALSE,
   strayed |-> FALSE, generated |-> FALSE, regenerated |-> FALSE]

Listings == [prStatus : PrStatuses, status : Statuses]

(* The order whose lines are in the form, 0 if none; "seen" is the number  *)
(* of its notes when they were read.                                       *)
Forms == [order : Nat, outstanding : Quantities, seen : Nat]

NoForm == [order |-> 0, outstanding |-> [l \in Lines |-> 0], seen |-> 0]

(* "loading" are the rows whose lines were asked for, and whether the      *)
(* receipt form opens after that; "selecting" is the row that is marked as *)
(* loading, 0 if none.  "receiving" is the row for which the receipt form  *)
(* was opened, 0 if it is closed.                                          *)
PageStates ==
  [listed : Seq(Listings), selected : Nat, form : Forms,
   loading : SUBSET [order : Nat, opens : BOOLEAN], selecting : Nat,
   receiving : Nat, converting : BOOLEAN]

NewPage == [listed |-> <<>>, selected |-> 0, form |-> NoForm, loading |-> {},
            selecting |-> 0, receiving |-> 0, converting |-> FALSE]

(* "locked", a receipt has locked the order's row and read "base".         *)
Calls ==
  [kind : {"none", "approve", "reject", "convert", "receive"},
   step : {"sent", "locked", "done", "refused"}, order : Nat, form : Forms,
   quantity : Quantities, key : Nat, strayed : BOOLEAN, base : Quantities]

NoCall == [kind |-> "none", step |-> "done", order |-> 0, form |-> NoForm,
           quantity |-> NoForm.outstanding, key |-> 0, strayed |-> FALSE,
           base |-> NoForm.outstanding]

Least(m, n) == IF m < n THEN m ELSE n

Show(p, state) == page' = [page EXCEPT ![p] = state]

-----------------------------------------------------------------------------
(* The page                                                                *)

(* A dialog covers the lists.  The receipt form is not drawn while no row  *)
(* is selected, whether it is open or not.                                 *)
Uncovered(p) ==
  ~page[p].converting /\ (page[p].receiving = 0 \/ page[p].selected = 0)

(* No quantity is checked, and a line may be left out or ask for nothing.  *)
CreateRequest(p) ==
  /\ Uncovered(p) /\ Len(orders) < MaxOrders
  /\ \E ordered \in [Lines -> 0 .. MaxQuantity] :
       orders' = Append(orders, NewRequest(ordered))
  /\ UNCHANGED <<page, call, counters>>

(* At first, after a call that succeeded, and by "Refresh".  The two lists *)
(* of the page are taken to be read at once, and those that are read last  *)
(* to arrive last.                                                         *)
FetchData(p) ==
  /\ Show(p, [page[p] EXCEPT !.listed =
       [o \in DOMAIN orders |-> [prStatus |-> orders[o].prStatus,
                                 status |-> orders[o].status]]])
  /\ UNCHANGED <<orders, call, counters>>

SelectItem(p, o, opens, converting) ==
  /\ Uncovered(p) /\ clicks < MaxClicks
  /\ clicks' = clicks + 1
  /\ Show(p, [page[p] EXCEPT !.selected = o, !.selecting = o,
       !.converting = converting,
       !.loading = page[p].loading \cup {[order |-> o, opens |-> opens]}])
  /\ UNCHANGED <<orders, call, calls, troubles>>

ClickRow(p, o) == SelectItem(p, o, FALSE, FALSE)

(* Mutant: every row has the button.                                       *)
ReceiveAnything(p, o) == SelectItem(p, o, TRUE, FALSE)

ClickReceive(p, o) ==
  /\ page[p].listed[o].prStatus = "po_generated"
  /\ page[p].listed[o].status # "received" /\ page[p].selecting # o
  /\ SelectItem(p, o, TRUE, FALSE)

ClickGenerate(p, o) ==
  /\ page[p].listed[o].prStatus = "approved"
  /\ SelectItem(p, o, FALSE, TRUE)

Opened(p, w) == IF w.opens THEN w.order ELSE page[p].receiving

(* Mutant: the form offers what was ordered.                               *)
OutstandingIsOrdered(order) == order.ordered

Outstanding(order) ==
  [l \in Lines |-> order.ordered[l] - order.received[l]]

(* Lines arrive, whichever row is selected by then.                        *)
ItemsArrive(p, w) ==
  /\ Show(p, [page[p] EXCEPT !.loading = page[p].loading \ {w},
       !.selecting = 0, !.receiving = Opened(p, w),
       !.form = [order |-> w.order, outstanding |-> Outstanding(orders[w.order]),
                 seen |-> orders[w.order].notes]])
  /\ UNCHANGED <<orders, call, counters>>

(* A failure is told, and the form opens with what it held.                *)
ItemsFail(p, w) ==
  /\ troubles < MaxTroubles
  /\ troubles' = troubles + 1
  /\ Show(p, [page[p] EXCEPT !.loading = page[p].loading \ {w},
                  !.selecting = 0, !.receiving = Opened(p, w)])
  /\ UNCHANGED <<orders, call, clicks, calls>>

CloseConversion(p) ==
  /\ page[p].converting /\ page[p].selected # 0
  /\ Show(p, [page[p] EXCEPT !.converting = FALSE])
  /\ UNCHANGED <<orders, call, counters>>

CloseReceipt(p) ==
  /\ page[p].receiving # 0 /\ page[p].selected # 0
  /\ Show(p, [page[p] EXCEPT !.receiving = 0])
  /\ UNCHANGED <<orders, call, counters>>

Send(p, sent) ==
  /\ call[p].kind = "none" /\ calls < MaxCalls
  /\ calls' = calls + 1
  /\ call' = [call EXCEPT ![p] = [sent EXCEPT !.step = "sent"]]
  /\ UNCHANGED <<orders, page, clicks, troubles>>

Decide(p, o, kind) ==
  /\ Uncovered(p)
  /\ page[p].listed[o].prStatus = "pending"
  /\ Send(p, [NoCall EXCEPT !.kind = kind, !.order = o])

SubmitConversion(p) ==
  /\ page[p].converting /\ page[p].selected # 0
  /\ Send(p, [NoCall EXCEPT !.kind = "convert", !.order = page[p].selected,
                            !.form = page[p].form])

(* The key holds the time of the click: two pages can click at once.       *)
KeysFor(p) ==
  {calls + 1} \cup
  {call[q].key : q \in {r \in Pages \ {p} : call[r].kind = "receive"
                                  /\ call[r].order = page[p].selected}}

SubmitReceipt(p) ==
  /\ page[p].receiving # 0 /\ page[p].selected # 0
  /\ \E quantity \in [Lines -> 0 .. MaxQuantity], key \in KeysFor(p) :
       /\ \A l \in Lines : quantity[l] <= page[p].form.outstanding[l]
       /\ \E l \in Lines : quantity[l] > 0
       /\ Send(p, [NoCall EXCEPT !.kind = "receive",
                     !.order = page[p].selected, !.form = page[p].form,
                     !.quantity = quantity, !.key = key,
                     !.strayed = page[p].receiving # page[p].selected])

-----------------------------------------------------------------------------
(* The database                                                            *)

RowFree(o) ==
  \A p \in Pages : ~(call[p].step = "locked" /\ call[p].order = o)

Sent(p, kind) ==
  call[p].kind = kind /\ call[p].step = "sent" /\ RowFree(call[p].order)

Write(p, order) ==
  /\ orders' = [orders EXCEPT ![call[p].order] = order]
  /\ call' = [call EXCEPT ![p].step = "done"]
  /\ UNCHANGED <<page, counters>>

ApprovePR(p) ==
  /\ Sent(p, "approve")
  /\ Write(p, [orders[call[p].order] EXCEPT !.prStatus = "approved"])

RejectPR(p) ==
  /\ Sent(p, "reject")
  /\ Write(p, [orders[call[p].order] EXCEPT !.prStatus = "rejected"])

(* The rates are those of the form, and may be missing.                    *)
LinesAreOfOrder(p) == call[p].form.order = call[p].order

ConvertPrToPo(p) ==
  LET order == orders[call[p].order] IN
  /\ Sent(p, "convert")
  /\ call[p].form.order = 0 \/ LinesAreOfOrder(p)
  /\ Write(p, [order EXCEPT !.prStatus = "po_generated", !.status = "sent",
                 !.generated = TRUE,
                 !.regenerated = order.regenerated \/ order.notes > 0])

Refused(p) ==
  /\ call[p].step = "sent" /\ RowFree(call[p].order)
  /\ call[p].kind \in {"convert", "receive"}
  /\ call[p].form.order # 0 /\ ~LinesAreOfOrder(p)
  /\ call[p].kind = "receive" => call[p].key \notin orders[call[p].order].keys
  /\ call' = [call EXCEPT ![p].step = "refused"]
  /\ UNCHANGED <<orders, page, counters>>

Duplicate(p) ==
  /\ Sent(p, "receive") /\ call[p].key \in orders[call[p].order].keys
  /\ call' = [call EXCEPT ![p].step = "done"]
  /\ UNCHANGED <<orders, page, counters>>

CreateGrn(p) ==
  /\ Sent(p, "receive") /\ LinesAreOfOrder(p)
  /\ call[p].key \notin orders[call[p].order].keys
  /\ call' = [call EXCEPT ![p].step = "locked",
                          ![p].base = orders[call[p].order].received]
  /\ UNCHANGED <<orders, page, counters>>

(* Mutants: the sum is not cut off, or starts from what the form showed.   *)
ReceivedUncapped(p) == [l \in Lines |-> call[p].base[l] + call[p].quantity[l]]

ReceivedSinceForm(p) ==
  [l \in Lines |-> orders[call[p].order].ordered[l]
                     - call[p].form.outstanding[l] + call[p].quantity[l]]

(* What the note adds to a line, up to what was ordered.                   *)
Received(p) ==
  [l \in Lines |-> Least(orders[call[p].order].ordered[l],
                         call[p].base[l] + call[p].quantity[l])]

(* Mutant: the lines are looked at before they are updated.                *)
StatusBefore(order, received) ==
  IF order.received = order.ordered THEN "received"
  ELSE IF order.notes > 0 THEN "partially_received" ELSE "sent"

(* Something is received, for no quantity of a form is all zero.           *)
StatusAfter(order, received) ==
  IF received = order.ordered THEN "received" ELSE "partially_received"

CommitGrn(p) ==
  LET order == orders[call[p].order]
      c == call[p]
  IN
  /\ c.step = "locked"
  /\ Write(p,
       [order EXCEPT
          !.received = Received(p), !.status = StatusAfter(order, Received(p)),
          !.keys = order.keys \cup {c.key},
          !.recorded = [l \in Lines |-> order.recorded[l] + c.quantity[l]],
          !.notes = order.notes + 1,
          !.stale = order.stale \/ c.form.seen # order.notes,
          !.strayed = order.strayed \/ c.strayed])

-----------------------------------------------------------------------------
(* The answer                                                              *)

Answered(p) ==
  /\ call[p].kind # "none" /\ call[p].step = "done"
  /\ CASE call[p].kind = "receive" ->
            Show(p, [page[p] EXCEPT !.receiving = 0])
       [] call[p].kind = "convert" ->
            Show(p, [page[p] EXCEPT !.converting = FALSE, !.selected = 0])
       [] OTHER -> UNCHANGED page
  /\ call' = [call EXCEPT ![p] = NoCall]
  /\ UNCHANGED <<orders, counters>>

(* Told of a failure the page keeps its dialogs as they are.               *)
Failed(p) ==
  /\ call[p].step = "refused"
  /\ call' = [call EXCEPT ![p] = NoCall]
  /\ UNCHANGED <<orders, page, counters>>

(* The call fails before or during its transaction, or its reply is lost.  *)
Lost(p) ==
  /\ call[p].kind # "none" /\ troubles < MaxTroubles
  /\ troubles' = troubles + 1
  /\ call' = [call EXCEPT ![p] = NoCall]
  /\ UNCHANGED <<orders, page, clicks, calls>>

-----------------------------------------------------------------------------
(* One request has been approved.                                          *)
Init ==
  /\ orders = <<[NewRequest([l \in Lines |-> MaxQuantity])
                  EXCEPT !.prStatus = "approved"]>>
  /\ page = [p \in Pages |-> NewPage]
  /\ call = [p \in Pages |-> NoCall]
  /\ clicks = 0 /\ calls = 0 /\ troubles = 0

Next ==
  \E p \in Pages :
       \/ CreateRequest(p) \/ FetchData(p)
       \/ CloseConversion(p) \/ CloseReceipt(p)
       \/ \E o \in DOMAIN page[p].listed :
            \/ ClickRow(p, o) \/ ClickReceive(p, o) \/ ClickGenerate(p, o)
            \/ \E kind \in {"approve", "reject"} : Decide(p, o, kind)
       \/ \E w \in page[p].loading : ItemsArrive(p, w) \/ ItemsFail(p, w)
       \/ SubmitConversion(p) \/ SubmitReceipt(p)
       \/ ApprovePR(p) \/ RejectPR(p) \/ ConvertPrToPo(p)
       \/ Refused(p) \/ Duplicate(p) \/ CreateGrn(p) \/ CommitGrn(p)
       \/ Answered(p) \/ Failed(p) \/ Lost(p)

Spec == Init /\ [][Next]_vars

-----------------------------------------------------------------------------
(* Types of the orders, the pages and their calls.                         *)
TypeOK ==
  /\ orders \in Seq(Orders)
  /\ page \in [Pages -> PageStates]
  /\ call \in [Pages -> Calls]
  /\ clicks \in 0 .. MaxClicks /\ calls \in 0 .. MaxCalls
  /\ troubles \in 0 .. MaxTroubles

(* However the receipts of an order overlap, what its lines say was        *)
(* received is what its notes add up to, up to what was ordered            *)
(* (create_grn_atomic).                                                    *)
ReceivedAddsUp ==
  \A o \in DOMAIN orders, l \in Lines :
    orders[o].received[l] = Least(orders[o].ordered[l], orders[o].recorded[l])

(* More is recorded than was ordered only if a note was made from a form   *)
(* that did not show an earlier one: the functions check no quantity.      *)
OverReceivedIfStale ==
  \A o \in DOMAIN orders, l \in Lines :
    orders[o].recorded[l] > orders[o].ordered[l] => orders[o].stale

(* Goods are received for requests that became orders, unless the receipt  *)
(* form opened late, over another row than the one it was opened for.      *)
GoodsForOrders ==
  \A o \in DOMAIN orders :
    orders[o].notes > 0 => orders[o].generated \/ orders[o].strayed

(* The status says what was received, unless the order was generated again *)
(* since.                                                                  *)
StatusTellsReceipts ==
  \A o \in DOMAIN orders :
    orders[o].notes > 0 /\ ~orders[o].regenerated =>
      orders[o].status = IF orders[o].received = orders[o].ordered
                         THEN "received" ELSE "partially_received"
=============================================================================
