------------------------- MODULE Procurement_proofs -------------------------
(***************************************************************************)
(* Proofs about Procurement, for any pages, lines and bounds: its types,   *)
(* what the receipts of an order add up to, when more is recorded than was *)
(* ordered, which requests receive goods and what their status tells.      *)
(***************************************************************************)
EXTENDS Procurement, SequenceTheorems, TLAPS

(* An order and its receipts agree.                                        *)
OrderOK(q) ==
  /\ q.received = [l \in Lines |-> Least(q.ordered[l], q.recorded[l])]
  /\ \A l \in Lines : q.recorded[l] > q.ordered[l] => q.stale
  /\ q.notes > 0 => q.generated \/ q.strayed
  /\ q.notes > 0 /\ ~q.regenerated => q.status = StatusAfter(q, q.received)
  /\ q.prStatus = "po_generated" => q.generated

(* What is said below of orders "os" stays true as they go on to "ot".     *)
Later(q, r) ==
  /\ r.ordered = q.ordered /\ r.notes >= q.notes
  /\ r.notes = q.notes => r.received = q.received
  /\ q.generated => r.generated

GoesOn(os, ot) ==
  \A o \in DOMAIN os : o \in DOMAIN ot /\ Later(os[o], ot[o])

Generated(o, os) == o \in DOMAIN os /\ os[o].generated

(* A form shows lines of its order, as they are if no note was made since. *)
FormFits(f, os) ==
  f.order # 0 =>
    /\ f.order \in DOMAIN os /\ f.seen <= os[f.order].notes
    /\ f.seen = os[f.order].notes => f.outstanding = Outstanding(os[f.order])

(* What is listed as an order is one, and only such are opened for receipt.*)
PageFits(s, os) ==
  /\ FormFits(s.form, os)
  /\ \A o \in DOMAIN s.listed :
       /\ o \in DOMAIN os
       /\ s.listed[o].prStatus = "po_generated" => Generated(o, os)
  /\ \A w \in s.loading : w.order \in DOMAIN os /\ (w.opens => Generated(w.order, os))
  /\ s.selected # 0 => s.selected \in DOMAIN os
  /\ s.receiving # 0 => Generated(s.receiving, os)

CallFits(c, os) ==
  /\ c.kind # "none" => c.order \in DOMAIN os
  /\ FormFits(c.form, os)
  /\ c.kind = "receive" =>
       /\ c.strayed \/ Generated(c.order, os)
       /\ \A l \in Lines : c.quantity[l] <= c.form.outstanding[l]
       /\ \E l \in Lines : c.quantity[l] > 0
  /\ c.step = "locked" => c.kind = "receive" /\ c.form.order = c.order

(* Nobody else writes the row that a receipt has locked.                   *)
Locks(c, o) == c.step = "locked" /\ c.order = o

LocksHold ==
  \A p \in Pages : call[p].step = "locked" =>
    /\ call[p].base = orders[call[p].order].received
    /\ \A q \in Pages \ {p} : ~Locks(call[q], call[p].order)

Everything ==
  /\ orders \in Seq(Orders)
  /\ page \in [Pages -> PageStates]
  /\ call \in [Pages -> Calls]
  /\ \A o \in DOMAIN orders : OrderOK(orders[o])
  /\ \A p \in Pages : PageFits(page[p], orders) /\ CallFits(call[p], orders)
  /\ LocksHold

Counted ==
  /\ clicks \in 0 .. MaxClicks /\ calls \in 0 .. MaxCalls
  /\ troubles \in 0 .. MaxTroubles

ProcurementInv == Everything /\ Counted

USE ProcurementConstants

-----------------------------------------------------------------------------
(* Types                                                                   *)

LEMMA OrderFields ==
  ASSUME NEW q \in Orders
  PROVE  /\ q.prStatus \in PrStatuses /\ q.status \in Statuses
         /\ q.ordered \in Quantities /\ q.received \in Quantities
         /\ q.recorded \in Quantities /\ q.notes \in Nat /\ q.keys \in SUBSET Nat
         /\ q.stale \in BOOLEAN /\ q.strayed \in BOOLEAN
         /\ q.generated \in BOOLEAN /\ q.regenerated \in BOOLEAN
BY DEF Orders

LEMMA OrdersTyping ==
  ASSUME NEW os \in Seq(Orders)
  PROVE  /\ Len(os) \in Nat /\ DOMAIN os = 1 .. Len(os)
         /\ \A o \in DOMAIN os : os[o] \in Orders /\ o \in Nat /\ o # 0
<1>1. Len(os) \in Nat /\ DOMAIN os = 1 .. Len(os)
  BY LenProperties
<1>2. \A o \in 1 .. Len(os) : os[o] \in Orders
  BY ElementOfSeq
<1> QED
  BY <1>1, <1>2

LEMMA PageFields ==
  ASSUME NEW s \in PageStates
  PROVE  /\ s.listed \in Seq(Listings)
         /\ s.selected \in Nat /\ s.form \in Forms
         /\ s.loading \in SUBSET [order : Nat, opens : BOOLEAN]
         /\ s.selecting \in Nat /\ s.receiving \in Nat /\ s.converting \in BOOLEAN
BY DEF PageStates

LEMMA FormFields ==
  ASSUME NEW f \in Forms
  PROVE  f.order \in Nat /\ f.outstanding \in Quantities /\ f.seen \in Nat
BY DEF Forms

Kinds == {"none", "approve", "reject", "convert", "receive"}
CallSteps == {"sent", "locked", "done", "refused"}

LEMMA CallFields ==
  ASSUME NEW c \in Calls
  PROVE  /\ c.kind \in Kinds /\ c.step \in CallSteps /\ c.order \in Nat
         /\ c.form \in Forms /\ c.quantity \in Quantities /\ c.key \in Nat
         /\ c.strayed \in BOOLEAN /\ c.base \in Quantities
BY DEF Calls, Kinds, CallSteps

LEMMA Nones ==
  /\ NoForm \in Forms /\ NoCall \in Calls /\ NewPage \in PageStates
  /\ \A os : FormFits(NoForm, os) /\ CallFits(NoCall, os) /\ PageFits(NewPage, os)
<1>1. [l \in Lines |-> 0] \in Quantities
  BY DEF Quantities
<1>2. NoForm \in Forms
  BY <1>1 DEF NoForm, Forms
<1>3. NoCall \in Calls
  BY <1>1, <1>2 DEF NoCall, NoForm, Calls
<1>4. <<>> \in Seq(Listings) /\ DOMAIN <<>> = {}
  BY EmptySeq
<1>5. NewPage \in PageStates
  BY <1>2, <1>4 DEF NewPage, PageStates
<1>6. \A os : FormFits(NoForm, os)
  BY DEF FormFits, NoForm
<1>7. \A os : CallFits(NoCall, os)
  BY <1>6 DEF CallFits, NoCall
<1>8. \A os : PageFits(NewPage, os)
  BY <1>4, <1>6 DEF PageFits, NewPage
<1> QED
  BY <1>2, <1>3, <1>5, <1>6, <1>7, <1>8

-----------------------------------------------------------------------------
(* What fits the orders goes on to fit them.                               *)

LEMMA OnForm ==
  ASSUME NEW os \in Seq(Orders), NEW ot \in Seq(Orders), GoesOn(os, ot),
         NEW f \in Forms, FormFits(f, os)
  PROVE  FormFits(f, ot)
<1> SUFFICES ASSUME f.order # 0 PROVE FormFits(f, ot)
  BY DEF FormFits
<1>1. f.order \in DOMAIN os /\ f.order \in DOMAIN ot /\ Later(os[f.order], ot[f.order])
  BY DEF FormFits, GoesOn
<1>2. os[f.order].notes \in Nat /\ ot[f.order].notes \in Nat /\ f.seen \in Nat
  BY <1>1, OrdersTyping, OrderFields, FormFields
<1>3. f.seen <= ot[f.order].notes
  BY <1>1, <1>2 DEF FormFits, Later
<1>4. ASSUME f.seen = ot[f.order].notes
      PROVE  f.outstanding = Outstanding(ot[f.order])
  <2>1. ot[f.order].notes = os[f.order].notes
    BY <1>1, <1>2, <1>4 DEF FormFits, Later
  <2> QED
    BY <2>1, <1>1, <1>4 DEF FormFits, Later, Outstanding
<1> QED
  BY <1>1, <1>3, <1>4 DEF FormFits

LEMMA OnGenerated ==
  ASSUME NEW os, NEW ot, GoesOn(os, ot), NEW o, Generated(o, os)
  PROVE  Generated(o, ot)
BY DEF GoesOn, Generated, Later

LEMMA OnPage ==
  ASSUME NEW os \in Seq(Orders), NEW ot \in Seq(Orders), GoesOn(os, ot),
         NEW s \in PageStates, PageFits(s, os)
  PROVE  PageFits(s, ot)
<1>1. FormFits(s.form, ot)
  BY OnForm, PageFields DEF PageFits
<1>2. \A o : o \in DOMAIN os => o \in DOMAIN ot
  BY DEF GoesOn
<1>3. \A o : Generated(o, os) => Generated(o, ot)
  BY OnGenerated
<1> QED
  BY <1>1, <1>2, <1>3 DEF PageFits

LEMMA OnCall ==
  ASSUME NEW os \in Seq(Orders), NEW ot \in Seq(Orders), GoesOn(os, ot),
         NEW c \in Calls, CallFits(c, os)
  PROVE  CallFits(c, ot)
<1>1. FormFits(c.form, ot)
  BY OnForm, CallFields DEF CallFits
<1>2. \A o : o \in DOMAIN os => o \in DOMAIN ot
  BY DEF GoesOn
<1>3. \A o : Generated(o, os) => Generated(o, ot)
  BY OnGenerated
<1> QED
  BY <1>1, <1>2, <1>3 DEF CallFits

(* Page p comes to state s and its call to c.                              *)
Moves(p, s, c) ==
  /\ orders' \in Seq(Orders) /\ GoesOn(orders, orders')
  /\ \A o \in DOMAIN orders' : OrderOK(orders'[o])
  /\ page' = [page EXCEPT ![p] = s] /\ s \in PageStates /\ PageFits(s, orders')
  /\ call' = [call EXCEPT ![p] = c] /\ c \in Calls /\ CallFits(c, orders')
  /\ c.step = "locked" =>
       /\ c.base = orders'[c.order].received
       /\ \A q \in Pages \ {p} : ~Locks(call[q], c.order)
  /\ \A q \in Pages \ {p} : call[q].step = "locked" =>
       orders'[call[q].order].received = orders[call[q].order].received

LEMMA MovesPreserve ==
  ASSUME Everything, NEW p \in Pages, NEW s, NEW c, Moves(p, s, c)
  PROVE  Everything'
<1>1. orders \in Seq(Orders) /\ orders' \in Seq(Orders) /\ GoesOn(orders, orders')
  BY DEF Everything, Moves
<1>2. /\ page \in [Pages -> PageStates] /\ page' \in [Pages -> PageStates]
      /\ \A q \in Pages : page'[q] = IF q = p THEN s ELSE page[q]
  BY DEF Everything, Moves
<1>3. /\ call \in [Pages -> Calls] /\ call' \in [Pages -> Calls]
      /\ \A q \in Pages : call'[q] = IF q = p THEN c ELSE call[q]
  BY DEF Everything, Moves
<1>4. ASSUME NEW q \in Pages PROVE PageFits(page'[q], orders')
  <2>1. CASE q = p
    BY <2>1, <1>2 DEF Moves
  <2>2. CASE q # p
    <3>1. page'[q] = page[q] /\ page[q] \in PageStates /\ PageFits(page[q], orders)
      BY <2>2, <1>2 DEF Everything
    <3> QED
      BY <3>1, <1>1, OnPage
  <2> QED
    BY <2>1, <2>2
<1>5. ASSUME NEW q \in Pages PROVE CallFits(call'[q], orders')
  <2>1. CASE q = p
    BY <2>1, <1>3 DEF Moves
  <2>2. CASE q # p
    <3>1. call'[q] = call[q] /\ call[q] \in Calls /\ CallFits(call[q], orders)
      BY <2>2, <1>3 DEF Everything
    <3> QED
      BY <3>1, <1>1, OnCall
  <2> QED
    BY <2>1, <2>2
<1>6. LocksHold'
  <2> SUFFICES ASSUME NEW q \in Pages, call'[q].step = "locked"
               PROVE  /\ call'[q].base = orders'[call'[q].order].received
                      /\ \A r \in Pages \ {q} : ~Locks(call'[r], call'[q].order)
    BY DEF LocksHold, Locks
  <2>1. CASE q = p
    BY <2>1, <1>3 DEF Moves
  <2>2. CASE q # p
    <3>1. call'[q] = call[q] /\ LocksHold
      BY <2>2, <1>3 DEF Everything
    <3>2. call'[q].base = orders'[call'[q].order].received
      BY <2>2, <3>1 DEF Moves, LocksHold
    <3>3. ASSUME NEW r \in Pages \ {q} PROVE ~Locks(call'[r], call'[q].order)
      BY <2>2, <3>1, <3>3, <1>3 DEF Moves, LocksHold, Locks
    <3> QED
      BY <3>2, <3>3
  <2> QED
    BY <2>1, <2>2
<1> QED
  BY <1>1, <1>2, <1>3, <1>4, <1>5, <1>6 DEF Everything, Moves, PageFits, CallFits, FormFits, Generated, OrderOK, Outstanding, StatusAfter, Least

-----------------------------------------------------------------------------
(* Steps that leave the orders alone                                       *)

LEMMA GoesOnSame ==
  ASSUME NEW os \in Seq(Orders)
  PROVE  GoesOn(os, os)
<1>1. \A o \in DOMAIN os : os[o].notes \in Nat
  BY OrdersTyping, OrderFields
<1> QED
  BY <1>1 DEF GoesOn, Later

(* What is known of a page and its call.                                   *)
LEMMA Known ==
  ASSUME Everything, NEW p \in Pages
  PROVE  /\ page[p] \in PageStates /\ PageFits(page[p], orders)
         /\ call[p] \in Calls /\ CallFits(call[p], orders)
         /\ page = [page EXCEPT ![p] = page[p]]
         /\ call = [call EXCEPT ![p] = call[p]]
BY DEF Everything

LEMMA QuietMoves ==
  ASSUME Everything, orders' = orders, NEW p \in Pages, NEW s, NEW c,
         page' = [page EXCEPT ![p] = s], s \in PageStates, PageFits(s, orders),
         call' = [call EXCEPT ![p] = c], c \in Calls, CallFits(c, orders),
         \/ c.step # "locked"
         \/ c = call[p]
         \/ /\ c.base = orders[c.order].received
            /\ \A q \in Pages : ~Locks(call[q], c.order)
  PROVE  Everything'
<1>1. GoesOn(orders, orders') /\ orders \in Seq(Orders)
  BY GoesOnSame DEF Everything
<1>2. c.step = "locked" =>
        /\ c.base = orders'[c.order].received
        /\ \A q \in Pages \ {p} : ~Locks(call[q], c.order)
  BY DEF Everything, LocksHold
<1>3. \A o \in DOMAIN orders' : OrderOK(orders'[o])
  BY DEF Everything
<1>4. Moves(p, s, c)
  BY <1>1, <1>2, <1>3 DEF Moves
<1> QED
  BY <1>4, MovesPreserve

LEMMA PageMoves ==
  ASSUME Everything, orders' = orders, call' = call, NEW p \in Pages, NEW s,
         page' = [page EXCEPT ![p] = s], s \in PageStates, PageFits(s, orders)
  PROVE  Everything'
<1>1. /\ call' = [call EXCEPT ![p] = call[p]]
      /\ call[p] \in Calls /\ CallFits(call[p], orders)
  BY Known
<1> QED
  BY <1>1, QuietMoves

LEMMA CallMoves ==
  ASSUME Everything, orders' = orders, page' = page, NEW p \in Pages, NEW c,
         call' = [call EXCEPT ![p] = c], c \in Calls, CallFits(c, orders),
         \/ c.step # "locked"
         \/ /\ c.base = orders[c.order].received
            /\ \A q \in Pages : ~Locks(call[q], c.order)
  PROVE  Everything'
<1>1. /\ page' = [page EXCEPT ![p] = page[p]]
      /\ page[p] \in PageStates /\ PageFits(page[p], orders)
  BY Known
<1> QED
  BY <1>1, QuietMoves

LEMMA FetchDataPreserves ==
  ASSUME Everything, NEW p \in Pages, FetchData(p)
  PROVE  Everything'
<1> DEFINE ls == [o \in DOMAIN orders |-> [prStatus |-> orders[o].prStatus,
                                           status |-> orders[o].status]]
           s == [page[p] EXCEPT !.listed = ls]
<1>1. page[p] \in PageStates /\ PageFits(page[p], orders) /\ orders \in Seq(Orders)
  BY Known DEF Everything
<1>2. /\ DOMAIN orders = 1 .. Len(orders) /\ Len(orders) \in Nat
      /\ \A o \in DOMAIN orders : orders[o] \in Orders
  BY <1>1, OrdersTyping
<1>3. \A o \in DOMAIN orders : ls[o] \in Listings
  BY <1>2, OrderFields DEF Listings
<1>4. ls \in Seq(Listings) /\ DOMAIN ls = DOMAIN orders
  BY <1>2, <1>3
<1>5. s \in PageStates
  BY <1>1, <1>4 DEF PageStates
<1>6. \A o \in DOMAIN orders : ls[o].prStatus = "po_generated" => Generated(o, orders)
  BY DEF Everything, OrderOK, Generated
<1>7. /\ s.form = page[p].form /\ s.listed = ls /\ s.loading = page[p].loading
      /\ s.selected = page[p].selected /\ s.receiving = page[p].receiving
  BY <1>1 DEF PageStates
<1>8. PageFits(s, orders)
  BY <1>1, <1>4, <1>6, <1>7 DEF PageFits
<1>9. orders' = orders /\ call' = call /\ page' = [page EXCEPT ![p] = s]
  BY DEF FetchData, Show
<1> QED
  BY <1>5, <1>8, <1>9, PageMoves

(* A row that is listed is selected, to be received if it is an order.     *)
LEMMA SelectPreserves ==
  ASSUME Everything, NEW p \in Pages, NEW o \in DOMAIN page[p].listed,
         NEW opens \in BOOLEAN, NEW converting \in BOOLEAN,
         opens => page[p].listed[o].prStatus = "po_generated",
         SelectItem(p, o, opens, converting)
  PROVE  Everything'
<1> DEFINE w == [order |-> o, opens |-> opens]
           s == [page[p] EXCEPT !.selected = o, !.selecting = o,
                   !.converting = converting, !.loading = page[p].loading \cup {w}]
<1>1. page[p] \in PageStates /\ PageFits(page[p], orders) /\ orders \in Seq(Orders)
  BY Known DEF Everything
<1>2. o \in DOMAIN orders /\ (opens => Generated(o, orders)) /\ o \in Nat
  BY <1>1, OrdersTyping DEF PageFits
<1>3. page[p].loading \cup {w} \in SUBSET [order : Nat, opens : BOOLEAN]
  BY <1>1, <1>2, PageFields
<1>4. s \in PageStates
  BY <1>1, <1>2, <1>3 DEF PageStates
<1>5. /\ s.form = page[p].form /\ s.listed = page[p].listed
      /\ s.loading = page[p].loading \cup {w}
      /\ s.selected = o /\ s.receiving = page[p].receiving
  BY <1>1 DEF PageStates
<1>6. PageFits(s, orders)
  BY <1>1, <1>2, <1>5 DEF PageFits
<1>7. orders' = orders /\ call' = call /\ page' = [page EXCEPT ![p] = s]
  BY DEF SelectItem, Show
<1> QED
  BY <1>4, <1>6, <1>7, PageMoves

LEMMA ClickPreserves ==
  ASSUME Everything, NEW p \in Pages, NEW o \in DOMAIN page[p].listed,
         ClickRow(p, o) \/ ClickReceive(p, o) \/ ClickGenerate(p, o)
  PROVE  Everything'
BY SelectPreserves DEF ClickRow, ClickReceive, ClickGenerate

(* Lines of a row that was asked for arrive, or do not.                    *)
LEMMA LoadedPreserves ==
  ASSUME Everything, NEW p \in Pages, NEW w \in page[p].loading, NEW form \in Forms,
         FormFits(form, orders), orders' = orders, call' = call,
         page' = [page EXCEPT ![p] =
                    [page[p] EXCEPT !.loading = page[p].loading \ {w},
                       !.selecting = 0, !.receiving = Opened(p, w), !.form = form]]
  PROVE  Everything'
<1> DEFINE s == [page[p] EXCEPT !.loading = page[p].loading \ {w},
                   !.selecting = 0, !.receiving = Opened(p, w), !.form = form]
<1>1. page[p] \in PageStates /\ PageFits(page[p], orders) /\ orders \in Seq(Orders)
  BY Known DEF Everything
<1>2. w.order \in Nat /\ w.opens \in BOOLEAN /\ (w.opens => Generated(w.order, orders))
  BY <1>1, PageFields DEF PageFits
<1>3. /\ Opened(p, w) \in Nat
      /\ Opened(p, w) # 0 => Generated(Opened(p, w), orders)
  BY <1>1, <1>2, PageFields DEF Opened, PageFits
<1>4. s \in PageStates
  BY <1>1, <1>3 DEF PageStates
<1>5. /\ s.form = form /\ s.listed = page[p].listed
      /\ s.loading = page[p].loading \ {w}
      /\ s.selected = page[p].selected /\ s.receiving = Opened(p, w)
  BY <1>1 DEF PageStates
<1>6. PageFits(s, orders)
  BY <1>1, <1>3, <1>5 DEF PageFits
<1> QED
  BY <1>4, <1>6, PageMoves

LEMMA OutstandingTyping ==
  ASSUME Everything, NEW o \in DOMAIN orders
  PROVE  Outstanding(orders[o]) \in Quantities
<1>1. orders[o] \in Orders
  BY OrdersTyping DEF Everything
<1>2. \A l \in Lines : /\ orders[o].ordered[l] \in Nat /\ orders[o].received[l] \in Nat
                       /\ orders[o].recorded[l] \in Nat
  BY <1>1, OrderFields DEF Quantities
<1>3. \A l \in Lines :
        orders[o].received[l] = Least(orders[o].ordered[l], orders[o].recorded[l])
  BY Zenon DEF Everything, OrderOK
<1>4. \A l \in Lines : orders[o].received[l] <= orders[o].ordered[l]
  BY <1>2, <1>3 DEF Least
<1>5. \A l \in Lines : orders[o].ordered[l] - orders[o].received[l] \in Nat
  BY <1>2, <1>4
<1> QED
  BY <1>5 DEF Outstanding, Quantities

LEMMA ItemsArrivePreserves ==
  ASSUME Everything, NEW p \in Pages, NEW w \in page[p].loading, ItemsArrive(p, w)
  PROVE  Everything'
<1> DEFINE form == [order |-> w.order, outstanding |-> Outstanding(orders[w.order]),
                    seen |-> orders[w.order].notes]
<1>1. page[p] \in PageStates /\ PageFits(page[p], orders) /\ orders \in Seq(Orders)
  BY Known DEF Everything
<1>2. w.order \in DOMAIN orders /\ w.order \in Nat
  BY <1>1, PageFields DEF PageFits
<1>3. orders[w.order].notes \in Nat
  BY <1>1, <1>2, OrdersTyping, OrderFields
<1>4. form \in Forms
  BY <1>2, <1>3, OutstandingTyping DEF Forms
<1>5. FormFits(form, orders)
  BY <1>2, <1>3 DEF FormFits
<1> QED
  BY <1>4, <1>5, LoadedPreserves DEF ItemsArrive, Show

LEMMA ItemsFailPreserves ==
  ASSUME Everything, NEW p \in Pages, NEW w \in page[p].loading, ItemsFail(p, w)
  PROVE  Everything'
<1> DEFINE s == [page[p] EXCEPT !.loading = page[p].loading \ {w},
                   !.selecting = 0, !.receiving = Opened(p, w)]
<1>1. page[p] \in PageStates /\ PageFits(page[p], orders)
  BY Known
<1>2. page[p].form \in Forms /\ FormFits(page[p].form, orders)
  BY <1>1, PageFields DEF PageFits
<1>3. s = [page[p] EXCEPT !.loading = page[p].loading \ {w}, !.selecting = 0,
             !.receiving = Opened(p, w), !.form = page[p].form]
  BY <1>1 DEF PageStates
<1> QED
  BY <1>2, <1>3, LoadedPreserves DEF ItemsFail, Show

LEMMA ClosePreserves ==
  ASSUME Everything, NEW p \in Pages, CloseConversion(p) \/ CloseReceipt(p)
  PROVE  Everything'
<1> DEFINE conversion == [page[p] EXCEPT !.converting = FALSE]
           receipt == [page[p] EXCEPT !.receiving = 0]
<1>1. page[p] \in PageStates /\ PageFits(page[p], orders)
  BY Known
<1>2. conversion \in PageStates /\ receipt \in PageStates
  BY <1>1 DEF PageStates
<1>3. /\ conversion.form = page[p].form /\ conversion.listed = page[p].listed
      /\ conversion.loading = page[p].loading
      /\ conversion.selected = page[p].selected
      /\ conversion.receiving = page[p].receiving
  BY <1>1 DEF PageStates
<1>4. /\ receipt.form = page[p].form /\ receipt.listed = page[p].listed
      /\ receipt.loading = page[p].loading
      /\ receipt.selected = page[p].selected /\ receipt.receiving = 0
  BY <1>1 DEF PageStates
<1>5. PageFits(conversion, orders) /\ PageFits(receipt, orders)
  BY <1>1, <1>3, <1>4 DEF PageFits
<1>6. /\ orders' = orders /\ call' = call
      /\ \/ page' = [page EXCEPT ![p] = conversion]
         \/ page' = [page EXCEPT ![p] = receipt]
  BY DEF CloseConversion, CloseReceipt, Show
<1> QED
  BY <1>2, <1>5, <1>6, PageMoves

-----------------------------------------------------------------------------
(* Calls                                                                   *)

(* A call is sent.                                                         *)
LEMMA SendPreserves ==
  ASSUME Everything, NEW p \in Pages, NEW c \in Calls, Send(p, c),
         CallFits([c EXCEPT !.step = "sent"], orders)
  PROVE  Everything'
<1>1. [c EXCEPT !.step = "sent"] \in Calls /\ [c EXCEPT !.step = "sent"].step = "sent"
  BY DEF Calls
<1> QED
  BY <1>1, CallMoves DEF Send

LEMMA DecidePreserves ==
  ASSUME Everything, NEW p \in Pages, NEW o \in DOMAIN page[p].listed,
         NEW kind \in {"approve", "reject"}, Decide(p, o, kind)
  PROVE  Everything'
<1> DEFINE c == [NoCall EXCEPT !.kind = kind, !.order = o]
<1>1. page[p] \in PageStates /\ PageFits(page[p], orders) /\ orders \in Seq(Orders)
  BY Known DEF Everything
<1>2. o \in DOMAIN orders /\ o \in Nat
  BY <1>1, OrdersTyping DEF PageFits
<1>3. NoCall \in Calls /\ NoForm \in Forms /\ FormFits(NoForm, orders)
  BY Nones
<1>4. c \in Calls
  BY <1>2, <1>3 DEF Calls
<1>5. [c EXCEPT !.step = "sent"].form = NoForm
  BY <1>3 DEF NoCall
<1>6. CallFits([c EXCEPT !.step = "sent"], orders)
  BY <1>2, <1>3, <1>4, <1>5 DEF CallFits, Calls, NoCall
<1> QED
  BY <1>4, <1>6, SendPreserves DEF Decide

LEMMA SubmitConversionPreserves ==
  ASSUME Everything, NEW p \in Pages, SubmitConversion(p)
  PROVE  Everything'
<1> DEFINE c == [NoCall EXCEPT !.kind = "convert", !.order = page[p].selected,
                               !.form = page[p].form]
<1>1. page[p] \in PageStates /\ PageFits(page[p], orders) /\ page[p].selected # 0
  BY Known DEF SubmitConversion
<1>2. /\ page[p].selected \in DOMAIN orders /\ page[p].selected \in Nat
      /\ page[p].form \in Forms /\ FormFits(page[p].form, orders)
  BY <1>1, PageFields DEF PageFits
<1>3. NoCall \in Calls
  BY Nones
<1>4. c \in Calls
  BY <1>2, <1>3 DEF Calls
<1>5. CallFits([c EXCEPT !.step = "sent"], orders)
  BY <1>2, <1>3, <1>4 DEF CallFits, Calls, NoCall
<1> QED
  BY <1>4, <1>5, SendPreserves DEF SubmitConversion

LEMMA SubmitReceiptPreserves ==
  ASSUME Everything, Counted, NEW p \in Pages, SubmitReceipt(p)
  PROVE  Everything'
<1>1. PICK quantity \in [Lines -> 0 .. MaxQuantity], key \in KeysFor(p) :
        /\ \A l \in Lines : quantity[l] <= page[p].form.outstanding[l]
        /\ \E l \in Lines : quantity[l] > 0
        /\ Send(p, [NoCall EXCEPT !.kind = "receive",
                      !.order = page[p].selected, !.form = page[p].form,
                      !.quantity = quantity, !.key = key,
                      !.strayed = page[p].receiving # page[p].selected])
  BY DEF SubmitReceipt
<1> DEFINE c == [NoCall EXCEPT !.kind = "receive",
                   !.order = page[p].selected, !.form = page[p].form,
                   !.quantity = quantity, !.key = key,
                   !.strayed = page[p].receiving # page[p].selected]
<1>2. /\ page[p] \in PageStates /\ PageFits(page[p], orders)
      /\ page[p].selected # 0 /\ page[p].receiving # 0
  BY Known DEF SubmitReceipt
<1>3. /\ page[p].selected \in DOMAIN orders /\ page[p].selected \in Nat
      /\ page[p].form \in Forms /\ FormFits(page[p].form, orders)
      /\ Generated(page[p].receiving, orders)
  BY <1>2, PageFields DEF PageFits
<1>4. key \in Nat
  <2>1. calls + 1 \in Nat
    BY DEF Counted
  <2>2. \A q \in Pages : call[q].key \in Nat
    BY CallFields DEF Everything
  <2> QED
    BY <2>1, <2>2 DEF KeysFor
<1>5. NoCall \in Calls
  BY Nones
<1>6. quantity \in Quantities
  BY DEF Quantities
<1>7. c \in Calls
  BY <1>3, <1>4, <1>5, <1>6 DEF Calls
<1>8. /\ c.kind = "receive" /\ c.order = page[p].selected
      /\ c.form = page[p].form /\ c.quantity = quantity
      /\ c.strayed = (page[p].receiving # page[p].selected)
  BY <1>5 DEF Calls
<1>9. c.strayed \/ Generated(c.order, orders)
  BY <1>3, <1>8
<1>10. CallFits([c EXCEPT !.step = "sent"], orders)
  BY <1>1, <1>3, <1>7, <1>8, <1>9 DEF CallFits, Calls
<1>11. Send(p, c)
  BY <1>1
<1> QED
  BY <1>7, <1>10, <1>11, SendPreserves

(* A call is done or refused, with no change to its order, or forgotten.   *)
LEMMA EndsPreserve ==
  ASSUME Everything, NEW p \in Pages, NEW step \in {"done", "refused"},
         orders' = orders, page' = page,
         call' = [call EXCEPT ![p].step = step]
  PROVE  Everything'
<1> DEFINE c == [call[p] EXCEPT !.step = step]
<1>1. call[p] \in Calls /\ CallFits(call[p], orders)
  BY Known
<1>2. c \in Calls /\ c.step = step
  BY <1>1 DEF Calls
<1>3. CallFits(c, orders)
  BY <1>1, <1>2 DEF CallFits, Calls
<1>4. call' = [call EXCEPT ![p] = c]
  BY DEF Everything
<1> QED
  BY <1>2, <1>3, <1>4, CallMoves

LEMMA ForgetPreserves ==
  ASSUME Everything, NEW p \in Pages, orders' = orders, page' = page,
         call' = [call EXCEPT ![p] = NoCall]
  PROVE  Everything'
<1>1. NoCall \in Calls /\ CallFits(NoCall, orders) /\ NoCall.step # "locked"
  BY Nones DEF NoCall
<1> QED
  BY <1>1, CallMoves

LEMMA CreateGrnPreserves ==
  ASSUME Everything, NEW p \in Pages, CreateGrn(p)
  PROVE  Everything'
<1> DEFINE base == orders[call[p].order].received
           c == [call[p] EXCEPT !.step = "locked", !.base = base]
<1>1. /\ call[p] \in Calls /\ CallFits(call[p], orders) /\ orders \in Seq(Orders)
      /\ call[p].kind = "receive" /\ call[p].form.order = call[p].order
      /\ RowFree(call[p].order)
  BY Known DEF CreateGrn, Sent, LinesAreOfOrder, Everything
<1>2. call[p].order \in DOMAIN orders
  BY <1>1 DEF CallFits
<1>3. base \in Quantities
  BY <1>1, <1>2, OrdersTyping, OrderFields
<1>4. c \in Calls
  BY <1>1, <1>3 DEF Calls
<1>5. /\ c.kind = "receive" /\ c.step = "locked" /\ c.base = base
      /\ c.order = call[p].order /\ c.form = call[p].form
      /\ c.strayed = call[p].strayed /\ c.quantity = call[p].quantity
  BY <1>1 DEF Calls
<1>6. CallFits(c, orders)
  BY <1>1, <1>5 DEF CallFits
<1>7. \A q \in Pages : ~Locks(call[q], c.order)
  BY <1>1, <1>5 DEF RowFree, Locks
<1>8. call' = [call EXCEPT ![p] = c] /\ orders' = orders /\ page' = page
  BY DEF CreateGrn, Everything
<1> QED
  BY <1>4, <1>5, <1>6, <1>7, <1>8, CallMoves

LEMMA AnsweredPreserves ==
  ASSUME Everything, NEW p \in Pages, Answered(p)
  PROVE  Everything'
<1>1. page[p] \in PageStates /\ PageFits(page[p], orders)
  BY Known
<1>2. NoCall \in Calls /\ CallFits(NoCall, orders) /\ NoCall.step # "locked"
  BY Nones DEF NoCall
<1> DEFINE received == [page[p] EXCEPT !.receiving = 0]
           converted == [page[p] EXCEPT !.converting = FALSE, !.selected = 0]
<1>3. ASSUME NEW s \in {received, converted, page[p]},
             page' = [page EXCEPT ![p] = s]
      PROVE  Everything'
  <2>1. s \in PageStates
    <3>1. received \in PageStates
      BY <1>1 DEF PageStates
    <3>2. converted \in PageStates
      BY <1>1 DEF PageStates
    <3> QED
      BY <1>1, <3>1, <3>2
  <2>2. /\ s.form = page[p].form /\ s.listed = page[p].listed
        /\ s.loading = page[p].loading
        /\ s.selected \in {0, page[p].selected}
        /\ s.receiving \in {0, page[p].receiving}
    BY <1>1, <1>3 DEF PageStates
  <2>3. PageFits(s, orders)
    BY <1>1, <2>2 DEF PageFits
  <2>4. /\ page' = [page EXCEPT ![p] = s] /\ orders' = orders
        /\ call' = [call EXCEPT ![p] = NoCall]
    BY <1>3 DEF Answered
  <2> QED
    BY <1>2, <2>1, <2>3, <2>4, QuietMoves
<1>4. page = [page EXCEPT ![p] = page[p]]
  BY Known
<1>5. Show(p, received) \/ Show(p, converted) \/ page' = page
  BY DEF Answered
<1> QED
  BY <1>3, <1>4, <1>5 DEF Show

-----------------------------------------------------------------------------
(* Steps that change an order                                              *)

LEMMA CreateRequestPreserves ==
  ASSUME Everything, NEW p \in Pages, CreateRequest(p)
  PROVE  Everything'
<1>1. PICK ordered \in [Lines -> 0 .. MaxQuantity] :
        orders' = Append(orders, NewRequest(ordered))
  BY DEF CreateRequest
<1> DEFINE q == NewRequest(ordered)
<1>2. /\ page[p] \in PageStates /\ PageFits(page[p], orders) /\ orders \in Seq(Orders)
      /\ call[p] \in Calls /\ CallFits(call[p], orders)
      /\ call' = [call EXCEPT ![p] = call[p]]
  BY Known DEF Everything, CreateRequest
<1>3. ordered \in Quantities /\ [l \in Lines |-> 0] \in Quantities
  BY DEF Quantities
<1>4. q \in Orders
  BY <1>3 DEF NewRequest, Orders, PrStatuses, Statuses
<1>5. OrderOK(q)
  BY DEF OrderOK, NewRequest, Least
<1>6. /\ orders' \in Seq(Orders) /\ Len(orders') = Len(orders) + 1
      /\ \A o \in 1 .. Len(orders) : orders'[o] = orders[o]
      /\ orders'[Len(orders) + 1] = q
  BY <1>1, <1>2, <1>4, AppendProperties
<1>7. /\ DOMAIN orders = 1 .. Len(orders) /\ DOMAIN orders' = 1 .. Len(orders')
      /\ Len(orders) \in Nat
      /\ \A o \in DOMAIN orders : o \in DOMAIN orders' /\ orders'[o] = orders[o]
  BY <1>2, <1>6, OrdersTyping
<1>8. GoesOn(orders, orders')
  <2>1. GoesOn(orders, orders)
    BY <1>2, GoesOnSame
  <2> QED
    BY <2>1, <1>7 DEF GoesOn
<1>9. \A o \in DOMAIN orders' : OrderOK(orders'[o])
  <2>1. \A o \in DOMAIN orders : OrderOK(orders[o])
    BY DEF Everything
  <2>2. \A o \in DOMAIN orders' : o \in DOMAIN orders \/ o = Len(orders) + 1
    BY <1>6, <1>7
  <2> QED
    BY <2>1, <2>2, <1>5, <1>6, <1>7
<1>10. PageFits(page[p], orders')
  BY <1>2, <1>6, <1>8, OnPage
<1>11. CallFits(call[p], orders')
  BY <1>2, <1>6, <1>8, OnCall
<1>12. \A r \in Pages : call[r].step = "locked" =>
         orders'[call[r].order].received = orders[call[r].order].received
  <2> SUFFICES ASSUME NEW r \in Pages, call[r].step = "locked"
               PROVE  orders'[call[r].order] = orders[call[r].order]
    OBVIOUS
  <2>1. CallFits(call[r], orders)
    BY DEF Everything
  <2> QED
    BY <2>1, <1>7 DEF CallFits
<1>13. call[p].step = "locked" =>
         /\ call[p].base = orders'[call[p].order].received
         /\ \A r \in Pages \ {p} : ~Locks(call[r], call[p].order)
  BY <1>12 DEF Everything, LocksHold
<1>14. page' = [page EXCEPT ![p] = page[p]]
  BY Known DEF CreateRequest
<1>15. Moves(p, page[p], call[p])
  BY <1>2, <1>6, <1>8, <1>9, <1>10, <1>11, <1>12, <1>13, <1>14 DEF Moves
<1> QED
  BY <1>15, MovesPreserve

(* A call writes its order, whose row nobody else has locked.              *)
LEMMA WritePreserves ==
  ASSUME Everything, NEW p \in Pages, NEW order, Write(p, order), order \in Orders,
         call[p].kind # "none", OrderOK(order), Later(orders[call[p].order], order),
         \A q \in Pages \ {p} : ~Locks(call[q], call[p].order)
  PROVE  Everything'
<1> DEFINE n == call[p].order
           c == [call[p] EXCEPT !.step = "done"]
<1>1. /\ page[p] \in PageStates /\ PageFits(page[p], orders) /\ orders \in Seq(Orders)
      /\ call[p] \in Calls /\ CallFits(call[p], orders)
      /\ page' = [page EXCEPT ![p] = page[p]] /\ call' = [call EXCEPT ![p] = c]
  BY Known DEF Everything, Write
<1>2. /\ DOMAIN orders = 1 .. Len(orders) /\ Len(orders) \in Nat
      /\ n \in 1 .. Len(orders)
  BY <1>1, OrdersTyping DEF CallFits
<1>3. LET changed == [orders EXCEPT ![n] = order] IN
      /\ changed \in Seq(Orders) /\ Len(changed) = Len(orders)
      /\ \A o \in 1 .. Len(orders) :
           changed[o] = IF o = n THEN order ELSE orders[o]
  BY <1>1, <1>2, ExceptSeq
<1>4. orders' = [orders EXCEPT ![n] = order]
  BY DEF Write
<1>5. /\ orders' \in Seq(Orders) /\ DOMAIN orders' = DOMAIN orders
      /\ \A o \in DOMAIN orders : orders'[o] = IF o = n THEN order ELSE orders[o]
  BY <1>2, <1>3, <1>4, LenProperties
<1>6. GoesOn(orders, orders')
  <2>1. GoesOn(orders, orders)
    BY <1>1, GoesOnSame
  <2> QED
    BY <2>1, <1>5 DEF GoesOn
<1>7. \A o \in DOMAIN orders' : OrderOK(orders'[o])
  BY <1>5 DEF Everything
<1>8. PageFits(page[p], orders')
  BY <1>1, <1>5, <1>6, OnPage
<1>9. c \in Calls /\ c.step = "done"
  BY <1>1 DEF Calls
<1>10. CallFits(c, orders)
  BY <1>1, <1>9 DEF CallFits, Calls
<1>11. CallFits(c, orders')
  BY <1>1, <1>5, <1>6, <1>9, <1>10, OnCall
<1>12. ASSUME NEW q \in Pages \ {p}, call[q].step = "locked"
       PROVE  orders'[call[q].order].received = orders[call[q].order].received
  <2>1. call[q].order # n
    BY <1>12 DEF Locks
  <2>2. CallFits(call[q], orders)
    BY DEF Everything
  <2>3. call[q].order \in DOMAIN orders
    BY <2>2, <1>12 DEF CallFits
  <2> QED
    BY <2>1, <2>3, <1>5
<1>13. Moves(p, page[p], c)
  BY <1>1, <1>5, <1>6, <1>7, <1>8, <1>9, <1>11, <1>12 DEF Moves
<1> QED
  BY <1>13, MovesPreserve

LEMMA SentWrites ==
  ASSUME Everything, NEW p \in Pages, NEW kind \in Kinds \ {"none"}, Sent(p, kind)
  PROVE  /\ call[p].order \in DOMAIN orders /\ orders[call[p].order] \in Orders
         /\ OrderOK(orders[call[p].order]) /\ call[p].kind # "none"
         /\ \A q \in Pages \ {p} : ~Locks(call[q], call[p].order)
<1>1. call[p].kind # "none" /\ RowFree(call[p].order)
  BY DEF Sent
<1>2. call[p].order \in DOMAIN orders
  BY <1>1, Known DEF CallFits
<1> QED
  BY <1>1, <1>2, OrdersTyping DEF Everything, RowFree, Locks

LEMMA DecidedPreserves ==
  ASSUME Everything, NEW p \in Pages, ApprovePR(p) \/ RejectPR(p)
  PROVE  Everything'
<1> DEFINE order == orders[call[p].order]
<1>1. ASSUME NEW kind \in {"approve", "reject"}, Sent(p, kind),
             NEW status \in {"approved", "rejected"},
             Write(p, [order EXCEPT !.prStatus = status])
      PROVE  Everything'
  <2> DEFINE q == [order EXCEPT !.prStatus = status]
  <2>1. /\ order \in Orders /\ OrderOK(order) /\ call[p].kind # "none"
        /\ \A r \in Pages \ {p} : ~Locks(call[r], call[p].order)
    BY <1>1, SentWrites DEF Kinds
  <2>2. q \in Orders
    BY <2>1 DEF Orders, PrStatuses
  <2>3. /\ q.prStatus # "po_generated" /\ q.status = order.status
        /\ q.ordered = order.ordered /\ q.received = order.received
        /\ q.recorded = order.recorded /\ q.notes = order.notes
        /\ q.stale = order.stale /\ q.strayed = order.strayed
        /\ q.generated = order.generated /\ q.regenerated = order.regenerated
    BY <2>1 DEF Orders
  <2>4. OrderOK(q)
    BY <2>1, <2>3 DEF OrderOK, StatusAfter
  <2>5. Later(order, q)
    BY <2>1, <2>3, OrderFields DEF Later
  <2>6. Write(p, q)
    BY <1>1
  <2> QED
    BY <2>1, <2>2, <2>4, <2>5, <2>6, WritePreserves
<1> QED
  BY <1>1 DEF ApprovePR, RejectPR

LEMMA ConvertPreserves ==
  ASSUME Everything, NEW p \in Pages, ConvertPrToPo(p)
  PROVE  Everything'
<1> DEFINE order == orders[call[p].order]
           q == [order EXCEPT !.prStatus = "po_generated", !.status = "sent",
                   !.generated = TRUE,
                   !.regenerated = order.regenerated \/ order.notes > 0]
<1>1. Sent(p, "convert") /\ Write(p, q)
  BY DEF ConvertPrToPo
<1>2. /\ order \in Orders /\ OrderOK(order) /\ call[p].kind # "none"
      /\ \A r \in Pages \ {p} : ~Locks(call[r], call[p].order)
  BY <1>1, SentWrites DEF Kinds
<1>3. order.regenerated \in BOOLEAN /\ order.notes \in Nat
  BY <1>2, OrderFields
<1>4. q \in Orders
  BY <1>2, <1>3 DEF Orders, PrStatuses, Statuses
<1>5. /\ q.ordered = order.ordered /\ q.received = order.received
      /\ q.recorded = order.recorded /\ q.notes = order.notes
      /\ q.stale = order.stale /\ q.strayed = order.strayed
      /\ q.generated = TRUE
      /\ q.regenerated = (order.regenerated \/ order.notes > 0)
  BY <1>2 DEF Orders
<1>6. OrderOK(q)
  BY <1>2, <1>5 DEF OrderOK
<1>7. Later(order, q)
  BY <1>3, <1>5 DEF Later
<1> QED
  BY <1>1, <1>2, <1>4, <1>6, <1>7, WritePreserves
(* An order with one more note.                                            *)
Noted(order, received, status, keys, recorded, notes, stale, strayed) ==
  [order EXCEPT !.received = received, !.status = status, !.keys = keys,
                !.recorded = recorded, !.notes = notes, !.stale = stale,
                !.strayed = strayed]

LEMMA NotedTyping ==
  ASSUME NEW order \in Orders, NEW received \in Quantities, NEW recorded \in Quantities,
         NEW status \in Statuses, NEW keys \in SUBSET Nat, NEW notes \in Nat,
         NEW stale \in BOOLEAN, NEW strayed \in BOOLEAN
  PROVE  LET q == Noted(order, received, status, keys, recorded, notes, stale, strayed)
         IN  /\ q \in Orders
             /\ q.prStatus = order.prStatus /\ q.ordered = order.ordered
             /\ q.generated = order.generated /\ q.regenerated = order.regenerated
             /\ q.received = received /\ q.status = status /\ q.recorded = recorded
             /\ q.notes = notes /\ q.stale = stale /\ q.strayed = strayed
BY DEF Noted, Orders

(* A receipt adds up: its lines were read under the lock it holds.         *)
LEMMA CommitGrnPreserves ==
  ASSUME Everything, NEW p \in Pages, CommitGrn(p)
  PROVE  Everything'
<1> DEFINE order == orders[call[p].order]
           c == call[p]
           recorded == [l \in Lines |-> order.recorded[l] + c.quantity[l]]
           q == Noted(order, Received(p), StatusAfter(order, Received(p)),
                      order.keys \cup {c.key}, recorded, order.notes + 1,
                      order.stale \/ c.form.seen # order.notes,
                      order.strayed \/ c.strayed)
<1>1. c.step = "locked" /\ Write(p, q)
  BY DEF CommitGrn, Noted
<1>2. /\ c \in Calls /\ CallFits(c, orders) /\ orders \in Seq(Orders)
      /\ c.kind = "receive" /\ c.form.order = c.order
      /\ c.base = order.received
      /\ \A r \in Pages \ {p} : ~Locks(call[r], c.order)
  BY <1>1, Known DEF CallFits, Everything, LocksHold
<1>3. c.order \in DOMAIN orders /\ c.order # 0
  BY <1>2, OrdersTyping DEF CallFits
<1>4. order \in Orders /\ OrderOK(order)
  BY <1>2, <1>3, OrdersTyping DEF Everything
<1>5. /\ c.form \in Forms /\ c.quantity \in Quantities /\ c.key \in Nat
      /\ c.strayed \in BOOLEAN /\ c.form.seen \in Nat
  BY <1>2, CallFields, FormFields
<1>6. /\ order.notes \in Nat /\ order.keys \in SUBSET Nat
      /\ order.stale \in BOOLEAN /\ order.strayed \in BOOLEAN
  BY <1>4, OrderFields
<1>7. \A l \in Lines :
        /\ order.ordered[l] \in Nat /\ order.recorded[l] \in Nat
        /\ c.quantity[l] \in Nat
        /\ order.received[l] = Least(order.ordered[l], order.recorded[l])
  <2>1. \A l \in Lines :
          order.received[l] = Least(order.ordered[l], order.recorded[l])
    BY <1>4, Zenon DEF OrderOK
  <2> QED
    BY <2>1, <1>4, <1>5, OrderFields DEF Quantities
<1>8. ASSUME NEW l \in Lines
      PROVE  /\ recorded[l] \in Nat
             /\ Received(p)[l] = Least(order.ordered[l], recorded[l])
             /\ Received(p)[l] \in Nat
  <2>1. Received(p)[l] = Least(order.ordered[l], c.base[l] + c.quantity[l])
    BY DEF Received
  <2>2. c.base[l] = Least(order.ordered[l], order.recorded[l])
    BY <1>2, <1>7
  <2>3. recorded[l] = order.recorded[l] + c.quantity[l]
    OBVIOUS
  <2> QED
    BY <2>1, <2>2, <2>3, <1>7 DEF Least
<1>9. recorded \in Quantities /\ Received(p) \in Quantities
  <2>1. \A l \in Lines : Received(p)[l] \in Nat /\ recorded[l] \in Nat
    BY <1>8
  <2>2. Received(p) = [l \in Lines |-> Received(p)[l]]
    BY DEF Received
  <2>3. recorded = [l \in Lines |-> recorded[l]]
    OBVIOUS
  <2> QED
    BY <2>1, <2>2, <2>3 DEF Quantities
<1>10. StatusAfter(order, Received(p)) \in Statuses
  BY DEF StatusAfter, Statuses
<1>11. order.keys \cup {c.key} \in SUBSET Nat
  BY <1>5, <1>6
<1> HIDE DEF recorded
<1>12. /\ order.notes + 1 \in Nat
       /\ (order.stale \/ c.form.seen # order.notes) \in BOOLEAN
       /\ (order.strayed \/ c.strayed) \in BOOLEAN
  BY <1>6
<1>13. q \in Orders
  BY <1>4, <1>9, <1>10, <1>11, <1>12, NotedTyping
<1>14. /\ q.prStatus = order.prStatus /\ q.ordered = order.ordered
       /\ q.generated = order.generated /\ q.regenerated = order.regenerated
       /\ q.received = Received(p) /\ q.status = StatusAfter(order, Received(p))
       /\ q.recorded = recorded /\ q.notes = order.notes + 1
       /\ q.stale = (order.stale \/ c.form.seen # order.notes)
       /\ q.strayed = (order.strayed \/ c.strayed)
  BY <1>4 DEF Noted, Orders
<1>15. OrderOK(q)
  <2>1. q.received = [l \in Lines |-> Least(q.ordered[l], q.recorded[l])]
    <3>1. Received(p) = [l \in Lines |-> Received(p)[l]]
      BY DEF Received
    <3>2. \A l \in Lines : Received(p)[l] = Least(q.ordered[l], q.recorded[l])
      BY <1>8, <1>14
    <3> QED
      BY <3>1, <3>2, <1>14
  <2>2. ASSUME NEW l \in Lines, q.recorded[l] > q.ordered[l] PROVE q.stale
    <3> SUFFICES ASSUME ~order.stale, c.form.seen = order.notes PROVE FALSE
      BY <1>14
    <3>1. order.recorded[l] <= order.ordered[l]
      BY <1>4, <1>7 DEF OrderOK
    <3>2. c.form.outstanding = Outstanding(order)
      BY <1>2, <1>3 DEF CallFits, FormFits
    <3>3. c.form.outstanding[l] = order.ordered[l] - order.received[l]
      BY <3>2 DEF Outstanding
    <3>4. c.quantity[l] <= c.form.outstanding[l]
      BY <1>2 DEF CallFits
    <3>5. order.received[l] = order.recorded[l]
      BY <3>1, <1>7 DEF Least
    <3>6. order.recorded[l] + c.quantity[l] > order.ordered[l]
      BY <2>2, <1>14 DEF recorded
    <3> QED
      BY <3>3, <3>4, <3>5, <3>6, <1>7
  <2>3. q.generated \/ q.strayed
    BY <1>2, <1>14 DEF CallFits, Generated
  <2>4. q.status = StatusAfter(q, q.received)
    BY <1>14 DEF StatusAfter
  <2>5. q.prStatus = "po_generated" => q.generated
    BY <1>4, <1>14 DEF OrderOK
  <2> QED
    BY <2>1, <2>2, <2>3, <2>4, <2>5 DEF OrderOK
<1>16. Later(order, q)
  BY <1>6, <1>14 DEF Later
<1> QED
  BY <1>1, <1>2, <1>13, <1>15, <1>16, WritePreserves

-----------------------------------------------------------------------------
(* The invariant                                                           *)

LEMMA ProcurementInit ==
  ASSUME Init
  PROVE  ProcurementInv
<1> DEFINE ordered == [l \in Lines |-> MaxQuantity]
           q == [NewRequest(ordered) EXCEPT !.prStatus = "approved"]
<1>1. ordered \in Quantities /\ [l \in Lines |-> 0] \in Quantities
  BY DEF Quantities
<1>2. NewRequest(ordered) \in Orders
  BY <1>1 DEF NewRequest, Orders, PrStatuses, Statuses
<1>3. q \in Orders
  BY <1>2 DEF Orders, PrStatuses
<1>4. OrderOK(q)
  BY DEF OrderOK, NewRequest, Least
<1>5. orders = <<q>>
  BY DEF Init
<1>6. /\ orders \in Seq(Orders) /\ Len(orders) = 1 /\ DOMAIN orders = {1}
      /\ orders[1] = q
  BY <1>3, <1>5
<1>7. NewPage \in PageStates /\ NoCall \in Calls /\ NoCall.step = "done"
  BY Nones DEF NoCall
<1>8. \A p \in Pages : page[p] = NewPage /\ call[p] = NoCall
  BY DEF Init
<1>9. \A p \in Pages : PageFits(page[p], orders) /\ CallFits(call[p], orders)
  BY <1>8, Nones
<1>10. page \in [Pages -> PageStates] /\ call \in [Pages -> Calls]
  BY <1>7 DEF Init
<1>11. LocksHold
  BY <1>7, <1>8 DEF LocksHold
<1>12. Everything
  BY <1>4, <1>6, <1>9, <1>10, <1>11 DEF Everything
<1>13. Counted
  BY DEF Init, Counted
<1> QED
  BY <1>12, <1>13 DEF ProcurementInv

LEMMA EverythingNext ==
  ASSUME ProcurementInv, Next
  PROVE  Everything'
<1>0. Everything /\ Counted
  BY DEF ProcurementInv
<1>1. PICK p \in Pages :
       \/ CreateRequest(p) \/ FetchData(p)
       \/ CloseConversion(p) \/ CloseReceipt(p)
       \/ \E o \in DOMAIN page[p].listed :
            \/ ClickRow(p, o) \/ ClickReceive(p, o) \/ ClickGenerate(p, o)
            \/ \E kind \in {"approve", "reject"} : Decide(p, o, kind)
       \/ \E w \in page[p].loading : ItemsArrive(p, w) \/ ItemsFail(p, w)
       \/ SubmitConversion(p) \/ SubmitReceipt(p)
       \/ ApprovePR(p) \/ RejectPR(p) \/ ConvertPrToPo(p)
       \/ Refused(p) \/ Duplicate(p) \/ CreateGrn(p) \/ CommitGrn(p)
       \/ Answered(p) \/ Failed(p) \/ Lost(p)
  BY DEF Next
<1>2. CASE CreateRequest(p)
  BY <1>0, <1>2, CreateRequestPreserves
<1>3. CASE FetchData(p)
  BY <1>0, <1>3, FetchDataPreserves
<1>4. CASE CloseConversion(p) \/ CloseReceipt(p)
  BY <1>0, <1>4, ClosePreserves
<1>5. CASE \E o \in DOMAIN page[p].listed :
             ClickRow(p, o) \/ ClickReceive(p, o) \/ ClickGenerate(p, o)
  BY <1>0, <1>5, ClickPreserves
<1>6. CASE \E o \in DOMAIN page[p].listed :
             \E kind \in {"approve", "reject"} : Decide(p, o, kind)
  BY <1>0, <1>6, DecidePreserves
<1>7. CASE \E w \in page[p].loading : ItemsArrive(p, w)
  BY <1>0, <1>7, ItemsArrivePreserves
<1>8. CASE \E w \in page[p].loading : ItemsFail(p, w)
  BY <1>0, <1>8, ItemsFailPreserves
<1>9. CASE SubmitConversion(p)
  BY <1>0, <1>9, SubmitConversionPreserves
<1>10. CASE SubmitReceipt(p)
  BY <1>0, <1>10, SubmitReceiptPreserves
<1>11. CASE ApprovePR(p) \/ RejectPR(p)
  BY <1>0, <1>11, DecidedPreserves
<1>12. CASE ConvertPrToPo(p)
  BY <1>0, <1>12, ConvertPreserves
<1>13. CASE Refused(p) \/ Duplicate(p)
  BY <1>0, <1>13, EndsPreserve DEF Refused, Duplicate
<1>14. CASE CreateGrn(p)
  BY <1>0, <1>14, CreateGrnPreserves
<1>15. CASE CommitGrn(p)
  BY <1>0, <1>15, CommitGrnPreserves
<1>16. CASE Answered(p)
  BY <1>0, <1>16, AnsweredPreserves
<1>17. CASE Failed(p) \/ Lost(p)
  BY <1>0, <1>17, ForgetPreserves DEF Failed, Lost
<1> QED
  BY <1>1, <1>2, <1>3, <1>4, <1>5, <1>6, <1>7, <1>8, <1>9, <1>10, <1>11, <1>12,
     <1>13, <1>14, <1>15, <1>16, <1>17

LEMMA CountedNext ==
  ASSUME Counted, Next
  PROVE  Counted'
<1>1. /\ clicks' = clicks \/ (clicks < MaxClicks /\ clicks' = clicks + 1)
      /\ calls' = calls \/ (calls < MaxCalls /\ calls' = calls + 1)
      /\ troubles' = troubles \/ (troubles < MaxTroubles /\ troubles' = troubles + 1)
  <2>1. PICK p \in Pages :
       \/ CreateRequest(p) \/ FetchData(p)
       \/ CloseConversion(p) \/ CloseReceipt(p)
       \/ \E o \in DOMAIN page[p].listed :
            \/ ClickRow(p, o) \/ ClickReceive(p, o) \/ ClickGenerate(p, o)
            \/ \E kind \in {"approve", "reject"} : Decide(p, o, kind)
       \/ \E w \in page[p].loading : ItemsArrive(p, w) \/ ItemsFail(p, w)
       \/ SubmitConversion(p) \/ SubmitReceipt(p)
       \/ ApprovePR(p) \/ RejectPR(p) \/ ConvertPrToPo(p)
       \/ Refused(p) \/ Duplicate(p) \/ CreateGrn(p) \/ CommitGrn(p)
       \/ Answered(p) \/ Failed(p) \/ Lost(p)
    BY DEF Next
  <2>2. CASE \/ CreateRequest(p) \/ FetchData(p)
             \/ CloseConversion(p) \/ CloseReceipt(p)
             \/ ApprovePR(p) \/ RejectPR(p) \/ ConvertPrToPo(p)
             \/ Refused(p) \/ Duplicate(p) \/ CreateGrn(p) \/ CommitGrn(p)
             \/ Answered(p) \/ Failed(p)
    <3>1. UNCHANGED counters
      BY <2>2, Zenon DEF CreateRequest, FetchData, CloseConversion,
        CloseReceipt, ApprovePR, RejectPR, ConvertPrToPo, Write, Refused, Duplicate, CreateGrn, CommitGrn, Answered, Failed
    <3> QED
      BY <3>1 DEF counters
  <2>3. CASE \E o \in DOMAIN page[p].listed :
               ClickRow(p, o) \/ ClickReceive(p, o) \/ ClickGenerate(p, o)
    BY <2>3 DEF ClickRow, ClickReceive, ClickGenerate, SelectItem
  <2>4. CASE \/ \E o \in DOMAIN page[p].listed :
                  \E kind \in {"approve", "reject"} : Decide(p, o, kind)
             \/ SubmitConversion(p) \/ SubmitReceipt(p)
    BY <2>4 DEF Decide, SubmitConversion, SubmitReceipt, Send
  <2>5. CASE \E w \in page[p].loading : ItemsArrive(p, w) \/ ItemsFail(p, w)
    BY <2>5 DEF ItemsArrive, ItemsFail, counters
  <2>6. CASE Lost(p)
    BY <2>6 DEF Lost
  <2> QED
    BY <2>1, <2>2, <2>3, <2>4, <2>5, <2>6
<1> QED
  BY <1>1 DEF Counted

LEMMA ProcurementStutter ==
  ASSUME ProcurementInv, UNCHANGED vars
  PROVE  ProcurementInv'
BY DEF ProcurementInv, Everything, Counted, LocksHold, vars, counters

(* The orders, the pages' forms and the calls under way fit each other in  *)
(* every state: page.tsx with the procurement functions of the database.   *)
THEOREM ProcurementFits == Spec => []ProcurementInv
<1>1. Init => ProcurementInv
  BY ProcurementInit
<1>2. ProcurementInv /\ [Next]_vars => ProcurementInv'
  BY EverythingNext, CountedNext, ProcurementStutter DEF ProcurementInv
<1> QED
  BY <1>1, <1>2, PTL DEF Spec

(* Orders, pages and calls keep their types.                               *)
THEOREM ProcurementTypes == Spec => []TypeOK
<1>1. ProcurementInv => TypeOK
  BY DEF ProcurementInv, Everything, Counted, TypeOK
<1> QED
  BY <1>1, ProcurementFits, PTL

(* What the lines say was received is what the notes add up to, however    *)
(* the receipts of create_grn_atomic overlap.                              *)
THEOREM ReceiptsAddUp == Spec => []ReceivedAddsUp
<1>1. ASSUME ProcurementInv, NEW o \in DOMAIN orders, NEW l \in Lines
      PROVE  orders[o].received[l] = Least(orders[o].ordered[l], orders[o].recorded[l])
  BY <1>1, Zenon DEF ProcurementInv, Everything, OrderOK
<1>2. ProcurementInv => ReceivedAddsUp
  BY <1>1 DEF ReceivedAddsUp
<1> QED
  BY <1>2, ProcurementFits, PTL

(* More than was ordered is recorded only from a form that did not show an *)
(* earlier note.                                                           *)
THEOREM OverReceipts == Spec => []OverReceivedIfStale
<1>1. ProcurementInv => OverReceivedIfStale
  BY DEF ProcurementInv, Everything, OrderOK, OverReceivedIfStale
<1> QED
  BY <1>1, ProcurementFits, PTL

(* Goods are received for requests that became orders, unless the form had *)
(* opened over another row.                                                *)
THEOREM ReceiptsOfOrders == Spec => []GoodsForOrders
<1>1. ProcurementInv => GoodsForOrders
  BY DEF ProcurementInv, Everything, OrderOK, GoodsForOrders
<1> QED
  BY <1>1, ProcurementFits, PTL

(* The status of an order tells what was received, unless it was generated *)
(* again by convert_pr_to_po.                                              *)
THEOREM StatusTold == Spec => []StatusTellsReceipts
<1>1. ProcurementInv => StatusTellsReceipts
  BY DEF ProcurementInv, Everything, OrderOK, StatusAfter, StatusTellsReceipts
<1> QED
  BY <1>1, ProcurementFits, PTL
=============================================================================
