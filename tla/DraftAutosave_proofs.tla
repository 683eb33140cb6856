------------------------ MODULE DraftAutosave_proofs ------------------------
(***************************************************************************)
(* Proofs about DraftAutosave, for any tabs and bounds: its types, and     *)
(* that what is shown as saved is in the draft unless something took it.   *)
(***************************************************************************)
EXTENDS DraftAutosave, TLAPS

(* The contents have not changed since they were last saved.               *)
Settled(t) == tab[t].ready /\ ~tab[t].timer /\ ~tab[t].refused

(* The save that was sent last.                                            *)
Last(t) == requests[t][Len(requests[t])]

(* Only the oldest save of a page can have been served.  A save of the     *)
(* page that is open names the draft that the page names, or none, and the *)
(* last one has its contents.                                              *)
QueueOK(t) ==
  \A i \in DOMAIN requests[t] :
    LET r == requests[t][i] IN
    /\ r.served => i = 1
    /\ r.live => /\ Last(t).live
                 /\ r.served \/ r.id \in {0, tab[t].id}
                 /\ Settled(t) => Last(t).contents = tab[t].contents

(* The contents are on their way.                                          *)
Pending(t) ==
  /\ requests[t] # <<>>
  /\ Last(t).live /\ ~Last(t).served
  /\ Last(t).contents = tab[t].contents

Stored(t) == draft # NoDraft /\ draft.contents = tab[t].contents

Taken(t) == writer # t \/ NamesDeleted(t)

ContentsOK(t) ==
  Settled(t) =>
    \/ Stored(t) \/ Taken(t) \/ Pending(t)
    \/ tab[t].sync = "error" /\ ~Live(t)

RowOK == draft # NoDraft => draft.id # 0

Accounts == TypeOK /\ RowOK /\ \A t \in Tabs : QueueOK(t) /\ ContentsOK(t)

USE DraftConstants

LEMMA CalculatorFields ==
  ASSUME NEW c \in Calculators
  PROVE  /\ c.open \in BOOLEAN /\ c.ready \in BOOLEAN /\ c.timer \in BOOLEAN
         /\ c.refused \in BOOLEAN /\ c.contents \in Contents
         /\ c.id \in Nat /\ c.finished \in Nat /\ c.found \in Drafts
         /\ c.sync \in {"saved", "saving", "error"}
         /\ c.restore \in {"none", "asked", "read", "done", "failed"}
         /\ c.quote \in {"none", "saving", "printing"}
BY DEF Calculators

LEMMA NoDraftTyping == NoDraft \in Drafts /\ Closed \in Calculators
BY DEF NoDraft, Drafts, Closed, Calculators, Contents

(* A calculator with some of its fields changed.                           *)
LEMMA SyncChanges ==
  ASSUME NEW c \in Calculators, NEW sync \in {"saved", "saving", "error"},
         NEW b \in BOOLEAN, NEW refused \in BOOLEAN, NEW id \in Nat
  PROVE  /\ [c EXCEPT !.sync = sync, !.timer = b, !.refused = refused]
              \in Calculators
         /\ [c EXCEPT !.sync = sync, !.refused = refused] \in Calculators
         /\ [c EXCEPT !.sync = sync, !.id = id] \in Calculators
         /\ [c EXCEPT !.sync = sync] \in Calculators
         /\ [c EXCEPT !.timer = b] \in Calculators
         /\ [c EXCEPT !.ready = b] \in Calculators
<1>1. [c EXCEPT !.sync = sync, !.timer = b, !.refused = refused] \in Calculators
  BY DEF Calculators
<1>2. [c EXCEPT !.sync = sync, !.refused = refused] \in Calculators
  BY DEF Calculators
<1>3. [c EXCEPT !.sync = sync, !.id = id] \in Calculators
  BY DEF Calculators
<1>4. [c EXCEPT !.sync = sync] \in Calculators
  BY DEF Calculators
<1>5. [c EXCEPT !.timer = b] \in Calculators /\ [c EXCEPT !.ready = b] \in Calculators
  BY DEF Calculators
<1> QED
  BY <1>1, <1>2, <1>3, <1>4, <1>5

LEMMA RestoreChanges ==
  ASSUME NEW c \in Calculators, NEW id \in Nat,
         NEW contents \in Contents, NEW found \in Drafts,
         NEW restore \in {"none", "asked", "read", "done", "failed"}
  PROVE  /\ [c EXCEPT !.contents = contents] \in Calculators
         /\ [c EXCEPT !.open = TRUE, !.restore = restore] \in Calculators
         /\ [c EXCEPT !.restore = restore] \in Calculators
         /\ [c EXCEPT !.restore = restore, !.found = found] \in Calculators
         /\ [c EXCEPT !.restore = restore, !.found = found,
                      !.contents = contents, !.id = id] \in Calculators
<1>1. [c EXCEPT !.contents = contents] \in Calculators
  BY DEF Calculators
<1>2. [c EXCEPT !.open = TRUE, !.restore = restore] \in Calculators
  BY DEF Calculators
<1>3. /\ [c EXCEPT !.restore = restore] \in Calculators
      /\ [c EXCEPT !.restore = restore, !.found = found] \in Calculators
  BY DEF Calculators
<1>4. [c EXCEPT !.restore = restore, !.found = found,
                !.contents = contents, !.id = id] \in Calculators
  BY DEF Calculators
<1> QED
  BY <1>1, <1>2, <1>3, <1>4

LEMMA QuoteChanges ==
  ASSUME NEW c \in Calculators, NEW id \in Nat,
         NEW quote \in {"none", "saving", "printing"}
  PROVE  /\ [c EXCEPT !.quote = quote] \in Calculators
         /\ [c EXCEPT !.quote = quote, !.finished = id] \in Calculators
         /\ [c EXCEPT !.open = FALSE, !.ready = FALSE, !.id = 0,
                      !.timer = FALSE, !.sync = "saved", !.refused = FALSE]
              \in Calculators
<1>1. [c EXCEPT !.quote = quote] \in Calculators
  BY DEF Calculators
<1>2. [c EXCEPT !.quote = quote, !.finished = id] \in Calculators
  BY DEF Calculators
<1>3. [c EXCEPT !.open = FALSE, !.ready = FALSE, !.id = 0,
                !.timer = FALSE, !.sync = "saved", !.refused = FALSE]
        \in Calculators
  BY DEF Calculators
<1> QED
  BY <1>1, <1>2, <1>3

LEMMA RequestFields ==
  ASSUME NEW r \in Requests
  PROVE  /\ r.id \in Nat /\ r.contents \in Contents
         /\ r.served \in BOOLEAN /\ r.live \in BOOLEAN
BY DEF Requests

(* What the actions do to the page, its queue and the token.               *)
LEMMA ShowTyping ==
  ASSUME TypeOK, NEW t \in Tabs, NEW c \in Calculators, Show(t, c)
  PROVE  tab' \in [Tabs -> Calculators]
BY DEF TypeOK, Show

LEMMA OwnTyping ==
  ASSUME TypeOK, NEW t \in Tabs, Own(t) \/ Abandon(t) \/ UNCHANGED token
  PROVE  token' \in Tokens
<1>1. token \in Tokens
  BY DEF TypeOK
<1>2. CASE Own(t)
  BY <1>2 DEF Own, Tokens
<1>3. CASE Abandon(t)
  <2>1. [token EXCEPT !.owner = Gone] \in Tokens
    BY <1>1 DEF Tokens
  <2> QED
    BY <1>1, <1>3, <2>1 DEF Abandon
<1> QED
  BY <1>1, <1>2, <1>3

LEMMA DebounceTyping ==
  ASSUME TypeOK, NEW t \in Tabs, NEW c \in Calculators, Debounce(t, c)
  PROVE  token' \in Tokens /\ tab' \in [Tabs -> Calculators]
<1>1. CASE CanOwn(t)
  <2>1. [c EXCEPT !.sync = "saving", !.timer = TRUE, !.refused = FALSE]
          \in Calculators
    BY SyncChanges
  <2> QED
    BY <1>1, <2>1, ShowTyping, OwnTyping DEF Debounce
<1>2. CASE ~CanOwn(t)
  <2>1. [c EXCEPT !.sync = "saved", !.timer = FALSE, !.refused = TRUE]
          \in Calculators
    BY SyncChanges
  <2> QED
    BY <1>2, <2>1, ShowTyping, OwnTyping DEF Debounce
<1> QED
  BY <1>1, <1>2

LEMMA QueueTyping ==
  ASSUME TypeOK, NEW t \in Tabs, NEW q \in Seq(Requests),
         requests' = [requests EXCEPT ![t] = q]
  PROVE  requests' \in [Tabs -> Seq(Requests)]
BY DEF TypeOK

LEMMA SaveTyping ==
  ASSUME TypeOK, NEW t \in Tabs, NEW c \in Calculators, Save(t, c)
  PROVE  TypeOK'
<1>1. CASE CanOwn(t)
  <2>1. [c EXCEPT !.sync = "saving", !.refused = FALSE] \in Calculators
    BY SyncChanges
  <2> DEFINE r == [id |-> c.id, contents |-> c.contents, served |-> FALSE,
                   live |-> TRUE]
  <2>2. r \in Requests
    BY CalculatorFields DEF Requests
  <2>3. Append(requests[t], r) \in Seq(Requests)
    BY <2>2 DEF TypeOK
  <2>4. requests' \in [Tabs -> Seq(Requests)]
    BY <1>1, <2>3, QueueTyping DEF Save
  <2> QED
    BY <1>1, <2>1, <2>4, ShowTyping, OwnTyping DEF Save, TypeOK, counters
<1>2. CASE ~CanOwn(t)
  <2>1. [c EXCEPT !.sync = "saved", !.refused = TRUE] \in Calculators
    BY SyncChanges
  <2> QED
    BY <1>2, <2>1, ShowTyping, OwnTyping DEF Save, TypeOK, counters
<1> QED
  BY <1>1, <1>2

LEMMA StoreTyping ==
  ASSUME TypeOK, NEW r \in Requests, NEW by \in Tabs \cup {Nobody, Gone},
         Store(r, by)
  PROVE  /\ draft' \in Drafts /\ lastId' \in Nat
         /\ writer' \in Tabs \cup {Nobody, Gone} /\ Target(r) \in Nat
<1>1. Target(r) \in Nat
  BY RequestFields DEF Target, TypeOK, Drafts
<1> QED
  BY <1>1, RequestFields DEF Store, TypeOK, Drafts

(* A step that shows another calculator and leaves the rest alone.         *)
LEMMA ShownTyping ==
  ASSUME TypeOK, NEW t \in Tabs, NEW c \in Calculators,
         Debounce(t, c) \/ (Show(t, c) /\ UNCHANGED token),
         UNCHANGED <<draft, lastId, requests, orphans, writer>>,
         edits' \in Contents, openings' \in 0 .. MaxOpenings,
         troubles' \in 0 .. MaxTroubles
  PROVE  TypeOK'
<1>1. token' \in Tokens /\ tab' \in [Tabs -> Calculators]
  BY DebounceTyping, ShowTyping, OwnTyping
<1> QED
  BY <1>1 DEF TypeOK

LEMMA CountersTyping ==
  ASSUME TypeOK
  PROVE  /\ edits < MaxEdits => edits + 1 \in Contents
         /\ openings < MaxOpenings => openings + 1 \in 0 .. MaxOpenings
         /\ troubles < MaxTroubles => troubles + 1 \in 0 .. MaxTroubles
BY DEF TypeOK, Contents

LEMMA PageTyping ==
  ASSUME TypeOK, NEW t \in Tabs
  PROVE  /\ tab[t] \in Calculators /\ requests[t] \in Seq(Requests)
         /\ draft \in Drafts
BY DEF TypeOK

LEMMA ForgetTyping ==
  ASSUME TypeOK, NEW t \in Tabs, requests[t] # <<>>, Forget(t)
  PROVE  requests' \in [Tabs -> Seq(Requests)]
<1>1. Tail(requests[t]) \in Seq(Requests)
  BY PageTyping
<1> QED
  BY <1>1, QueueTyping DEF Forget

(* The steps of a page whose calculator alone changes.                     *)
LEMMA PageStepTyping ==
  ASSUME TypeOK, NEW t \in Tabs,
         \/ Ready(t) \/ Edit(t) \/ RestoreRead(t) \/ Restored(t)
         \/ RestoreFails(t) \/ QuoteSave(t) \/ QuoteSaved(t)
         \/ QuoteRefused(t) \/ Open(t)
  PROVE  TypeOK'
<1> USE PageTyping, CountersTyping
<1>0. /\ edits \in Contents /\ openings \in 0 .. MaxOpenings
      /\ troubles \in 0 .. MaxTroubles
  BY DEF TypeOK
<1>1. CASE Ready(t)
  <2>1. [tab[t] EXCEPT !.ready = TRUE] \in Calculators
    BY SyncChanges
  <2> QED
    BY <1>0, <1>1, <2>1, ShownTyping DEF Ready, counters
<1>2. CASE Edit(t)
  <2>1. edits' \in Contents
    BY <1>2 DEF Edit
  <2>2. [tab[t] EXCEPT !.contents = edits'] \in Calculators
    BY <2>1, NoDraftTyping, RestoreChanges
  <2> QED
    BY <1>0, <1>2, <2>1, <2>2, ShownTyping DEF Edit
<1>3. CASE RestoreRead(t)
  <2>1. [tab[t] EXCEPT !.restore = "read", !.found = draft] \in Calculators
    BY CalculatorFields, RestoreChanges
  <2> QED
    BY <1>0, <1>3, <2>1, ShownTyping DEF RestoreRead, counters
<1>4. CASE Restored(t)
  <2>1. [tab[t] EXCEPT !.restore = "done"] \in Calculators
    BY CalculatorFields, NoDraftTyping, RestoreChanges
  <2> DEFINE id == IF tab[t].id = 0 /\ tab[t].open THEN tab[t].found.id
                   ELSE tab[t].id
  <2>2. id \in Nat /\ tab[t].found.contents \in Contents
    BY CalculatorFields DEF Drafts
  <2>3. [tab[t] EXCEPT !.restore = "done", !.found = NoDraft,
                       !.contents = tab[t].found.contents, !.id = id]
          \in Calculators
    BY <2>2, NoDraftTyping, RestoreChanges
  <2> QED
    BY <1>0, <1>4, <2>1, <2>3, ShownTyping DEF Restored, counters
<1>5. CASE RestoreFails(t)
  <2>1. [tab[t] EXCEPT !.restore = "failed", !.found = NoDraft] \in Calculators
    BY CalculatorFields, NoDraftTyping, RestoreChanges
  <2>2. troubles' \in 0 .. MaxTroubles
    BY <1>5 DEF RestoreFails
  <2> QED
    BY <1>0, <1>5, <2>1, <2>2, ShownTyping DEF RestoreFails
<1>6. CASE QuoteSave(t)
  <2>1. [tab[t] EXCEPT !.quote = "saving", !.finished = tab[t].id]
          \in Calculators
    BY CalculatorFields, QuoteChanges
  <2>2. troubles' \in 0 .. MaxTroubles
    BY <1>6 DEF QuoteSave
  <2> QED
    BY <1>0, <1>6, <2>1, <2>2, ShownTyping DEF QuoteSave
<1>7. CASE QuoteSaved(t)
  <2>1. [tab[t] EXCEPT !.quote = "printing"] \in Calculators
    BY CalculatorFields, QuoteChanges
  <2> QED
    BY <1>0, <1>7, <2>1, ShownTyping DEF QuoteSaved, counters
<1>8. CASE QuoteRefused(t)
  <2>1. [tab[t] EXCEPT !.quote = "none", !.finished = 0] \in Calculators
    BY CalculatorFields, QuoteChanges
  <2> QED
    BY <1>0, <1>8, <2>1, ShownTyping DEF QuoteRefused, counters
<1>9. CASE Open(t)
  <2>1. PICK restore \in {"asked", "none"} :
          Show(t, [tab[t] EXCEPT !.open = TRUE, !.restore = restore])
    BY <1>9 DEF Open
  <2>2. [tab[t] EXCEPT !.open = TRUE, !.restore = restore] \in Calculators
    BY NoDraftTyping, CalculatorFields, RestoreChanges
  <2>3. openings' \in 0 .. MaxOpenings
    BY <1>9 DEF Open
  <2> QED
    BY <1>0, <1>9, <2>1, <2>2, <2>3, ShownTyping DEF Open
<1> QED
  BY <1>1, <1>2, <1>3, <1>4, <1>5, <1>6, <1>7, <1>8, <1>9

LEMMA SavingTyping ==
  ASSUME TypeOK, NEW t \in Tabs,
         \/ TimerFires(t) \/ Retry(t) \/ Serve(t) \/ Answered(t) \/ Failed(t)
  PROVE  TypeOK'
<1> USE PageTyping
<1>1. CASE TimerFires(t)
  <2>1. [tab[t] EXCEPT !.timer = FALSE] \in Calculators
    BY SyncChanges
  <2> QED
    BY <1>1, <2>1, SaveTyping DEF TimerFires
<1>2. CASE Retry(t)
  BY <1>2, SaveTyping DEF Retry
<1>3. CASE Serve(t)
  <2> DEFINE r == Head(requests[t])
             answer == [r EXCEPT !.served = TRUE,
                                 !.id = IF r.id = 0 THEN Target(r) ELSE r.id]
  <2>1. r \in Requests /\ Tail(requests[t]) \in Seq(Requests)
    BY <1>3 DEF Serve
  <2>2. Store(r, IF r.live THEN t ELSE Gone)
    BY <1>3 DEF Serve
  <2>3. /\ draft' \in Drafts /\ lastId' \in Nat
        /\ writer' \in Tabs \cup {Nobody, Gone} /\ Target(r) \in Nat
    BY <2>1, <2>2, StoreTyping
  <2>4. answer \in Requests
    BY <2>1, <2>3 DEF Requests
  <2>5. <<answer>> \o Tail(requests[t]) \in Seq(Requests)
    BY <2>1, <2>4
  <2>6. requests' \in [Tabs -> Seq(Requests)]
    BY <1>3, <2>5, QueueTyping DEF Serve
  <2> QED
    BY <1>3, <2>3, <2>6 DEF Serve, TypeOK, counters
<1>4. CASE Answered(t)
  <2> DEFINE r == Head(requests[t])
             id == IF tab[t].id = 0 THEN r.id ELSE tab[t].id
  <2>1. r \in Requests
    BY <1>4 DEF Answered
  <2>2. id \in Nat
    BY <2>1, RequestFields, CalculatorFields
  <2>3. [tab[t] EXCEPT !.sync = "saved", !.id = id] \in Calculators
    BY <2>2, SyncChanges
  <2>4. tab' \in [Tabs -> Calculators]
    BY <1>4, <2>3, ShowTyping DEF Answered, TypeOK
  <2>5. requests' \in [Tabs -> Seq(Requests)]
    BY <1>4, ForgetTyping DEF Answered
  <2> QED
    BY <1>4, <2>4, <2>5 DEF Answered, TypeOK, counters
<1>5. CASE Failed(t)
  <2>1. [tab[t] EXCEPT !.sync = "error"] \in Calculators
    BY SyncChanges
  <2>2. tab' \in [Tabs -> Calculators]
    BY <1>5, <2>1, ShowTyping DEF Failed, TypeOK
  <2>3. requests' \in [Tabs -> Seq(Requests)]
    BY <1>5, ForgetTyping DEF Failed
  <2>4. troubles' \in 0 .. MaxTroubles
    BY <1>5, CountersTyping DEF Failed
  <2> QED
    BY <1>5, <2>2, <2>3, <2>4 DEF Failed, TypeOK
<1> QED
  BY <1>1, <1>2, <1>3, <1>4, <1>5

LEMMA UnheardTyping ==
  ASSUME NEW queue \in Seq(Requests)
  PROVE  /\ Unheard(queue) \in Seq(Requests)
         /\ Len(Unheard(queue)) = Len(queue)
         /\ DOMAIN Unheard(queue) = DOMAIN queue
         /\ \A i \in DOMAIN queue :
              ~Unheard(queue)[i].live /\ Unheard(queue)[i].served = queue[i].served
<1>1. DOMAIN queue = 1 .. Len(queue) /\ Len(queue) \in Nat
  OBVIOUS
<1>0. \A r \in Requests : /\ [r EXCEPT !.live = FALSE] \in Requests
                          /\ ~[r EXCEPT !.live = FALSE].live
                          /\ [r EXCEPT !.live = FALSE].served = r.served
  BY DEF Requests
<1>2. \A i \in 1 .. Len(queue) : [queue[i] EXCEPT !.live = FALSE] \in Requests
  BY <1>0
<1>3. Unheard(queue) = [i \in 1 .. Len(queue) |-> [queue[i] EXCEPT !.live = FALSE]]
  BY <1>1 DEF Unheard
<1>4. Unheard(queue) \in Seq(Requests)
  BY <1>1, <1>2, <1>3
<1>5. \A i \in 1 .. Len(queue) :
        ~Unheard(queue)[i].live /\ Unheard(queue)[i].served = queue[i].served
  <2> TAKE i \in 1 .. Len(queue)
  <2>1. queue[i] \in Requests /\ Unheard(queue)[i] = [queue[i] EXCEPT !.live = FALSE]
    BY <1>3
  <2> QED
    BY <2>1, <1>0
<1> QED
  BY <1>1, <1>3, <1>4, <1>5

LEMMA SharedTyping ==
  ASSUME TypeOK, TokenExpires \/ ServeOrphan
  PROVE  TypeOK'
<1>1. CASE TokenExpires
  <2>1. [token EXCEPT !.fresh = FALSE] \in Tokens
    BY DEF TypeOK, Tokens
  <2> QED
    BY <1>1, <2>1 DEF TokenExpires, TypeOK, counters
<1>2. CASE ServeOrphan
  <2>1. PICK r \in orphans : /\ Store(r, Gone) /\ orphans' = orphans \ {r}
                             /\ UNCHANGED <<token, tab, requests, counters>>
    BY <1>2 DEF ServeOrphan
  <2>2. r \in Requests
    BY <2>1 DEF TypeOK
  <2> QED
    BY <2>1, <2>2, StoreTyping DEF TypeOK, counters
<1> QED
  BY <1>1, <1>2

LEMMA LeavingTyping ==
  ASSUME TypeOK, NEW t \in Tabs,
         Leave(t) \/ Exit(t) \/ QuoteFinished(t)
  PROVE  TypeOK'
<1> USE PageTyping
<1>1. CASE Leave(t)
  <2>1. tab' \in [Tabs -> Calculators]
    BY <1>1, QuoteChanges, ShowTyping DEF Leave
  <2>2. requests' \in [Tabs -> Seq(Requests)]
    BY <1>1, UnheardTyping, QueueTyping DEF Leave
  <2> QED
    BY <1>1, <2>1, <2>2, OwnTyping DEF Leave, TypeOK, counters
<1>2. CASE Exit(t)
  <2>1. tab' \in [Tabs -> Calculators]
    BY <1>2, NoDraftTyping, ShowTyping DEF Exit
  <2>2. <<>> \in Seq(Requests)
    OBVIOUS
  <2>3. requests' \in [Tabs -> Seq(Requests)]
    BY <1>2, <2>2, QueueTyping DEF Exit
  <2>4. [owner |-> Nobody, fresh |-> FALSE] \in Tokens
    BY DEF Tokens
  <2>5. token' \in Tokens
    BY <1>2, <2>4, OwnTyping DEF Exit, TypeOK
  <2>6. orphans' \subseteq Requests /\ troubles' \in 0 .. MaxTroubles
    <3>1. CASE UNCHANGED <<orphans, troubles>>
      BY <3>1 DEF TypeOK
    <3>2. CASE troubles < MaxTroubles
               /\ troubles' = troubles + 1
               /\ \E i \in DOMAIN requests[t] :
                    orphans' = orphans \cup {requests[t][i]}
      <4>1. PICK i \in DOMAIN requests[t] :
              orphans' = orphans \cup {requests[t][i]}
        BY <3>2
      <4>2. requests[t][i] \in Requests
        OBVIOUS
      <4> QED
        BY <3>2, <4>1, <4>2, CountersTyping DEF TypeOK
    <3> QED
      BY <1>2, <3>1, <3>2 DEF Exit
  <2> QED
    BY <1>2, <2>1, <2>3, <2>5, <2>6 DEF Exit, TypeOK
<1>3. CASE QuoteFinished(t)
  <2>1. [tab[t] EXCEPT !.quote = "none", !.finished = 0] \in Calculators
    BY QuoteChanges
  <2>2. tab' \in [Tabs -> Calculators]
    BY <1>3, <2>1, ShowTyping DEF QuoteFinished
  <2>3. draft' \in Drafts /\ writer' \in Tabs \cup {Nobody, Gone}
    BY <1>3, NoDraftTyping DEF QuoteFinished, TypeOK
  <2> QED
    BY <1>3, <2>2, <2>3 DEF QuoteFinished, TypeOK, counters
<1> QED
  BY <1>1, <1>2, <1>3

LEMMA TypingStep == TypeOK /\ [Next]_vars => TypeOK'
<1> SUFFICES ASSUME TypeOK, [Next]_vars PROVE TypeOK'
  OBVIOUS
<1>1. CASE Next
  <2>1. CASE TokenExpires \/ ServeOrphan
    BY <2>1, SharedTyping
  <2>2. CASE \E t \in Tabs :
               \/ Progress(t) \/ Failed(t) \/ RestoreFails(t)
               \/ Edit(t) \/ Retry(t) \/ Open(t) \/ Leave(t) \/ Exit(t)
    BY <2>2, PageStepTyping, SavingTyping, LeavingTyping DEF Progress
  <2>3. CASE \E t \in Quoters :
               QuoteSave(t) \/ QuoteSaved(t) \/ QuoteRefused(t) \/ QuoteFinished(t)
    BY <2>3, PageStepTyping, LeavingTyping
  <2> QED
    BY <1>1, <2>1, <2>2, <2>3 DEF Next
<1>2. CASE UNCHANGED vars
  BY <1>2 DEF vars, counters, TypeOK
<1> QED
  BY <1>1, <1>2

(* A page that a step leaves as it is, while the row does not change or    *)
(* somebody else changes it.                                               *)
LEMMA Undisturbed ==
  ASSUME Accounts, NEW t \in Tabs,
         requests'[t] = requests[t],
         tab'[t].ready = tab[t].ready, tab'[t].timer = tab[t].timer,
         tab'[t].refused = tab[t].refused, tab'[t].sync = tab[t].sync,
         tab'[t].contents = tab[t].contents,
         tab'[t].id = tab[t].id \/ tab[t].id = 0,
         UNCHANGED <<draft, writer>> \/ writer' # t
  PROVE  QueueOK(t)' /\ ContentsOK(t)'
<1>1. QueueOK(t) /\ ContentsOK(t)
  BY DEF Accounts
<1>2. Settled(t)' <=> Settled(t)
  BY DEF Settled
<1>3. /\ Last(t)' = Last(t) /\ (Pending(t)' <=> Pending(t))
      /\ Live(t)' <=> Live(t)
  BY DEF Last, Pending, Live
<1>4. QueueOK(t)'
  BY <1>1, <1>2, <1>3 DEF QueueOK
<1>5. (Stored(t) \/ Taken(t)) => (Stored(t)' \/ Taken(t)')
  BY DEF Stored, Taken, NamesDeleted
<1> QED
  BY <1>1, <1>2, <1>3, <1>4, <1>5 DEF ContentsOK

(* A page whose contents have to be saved again, or may not be.            *)
LEMMA Unsettled ==
  ASSUME Accounts, NEW t \in Tabs, ~Settled(t)', requests'[t] = requests[t],
         tab'[t].id = tab[t].id \/ tab[t].id = 0
  PROVE  QueueOK(t)' /\ ContentsOK(t)'
<1>1. QueueOK(t)
  BY DEF Accounts
<1>2. Last(t)' = Last(t)
  BY DEF Last
<1>3. QueueOK(t)'
  BY <1>1, <1>2 DEF QueueOK
<1> QED
  BY <1>3 DEF ContentsOK

(* The other pages, when a step changes one page and perhaps the row.      *)
LEMMA Others ==
  ASSUME Accounts, NEW t \in Tabs, NEW u \in Tabs, u # t,
         requests'[u] = requests[u], tab'[u] = tab[u],
         UNCHANGED <<draft, writer>> \/ writer' \in {t, Gone, Nobody}
  PROVE  QueueOK(u)' /\ ContentsOK(u)'
<1>1. UNCHANGED <<draft, writer>> \/ writer' # u
  OBVIOUS
<1> QED
  BY <1>1, Undisturbed

LEMMA ShowEffect ==
  ASSUME TypeOK, NEW t \in Tabs, NEW c, Show(t, c)
  PROVE  tab'[t] = c /\ \A u \in Tabs : u # t => tab'[u] = tab[u]
BY DEF TypeOK, Show

LEMMA QueueEffect ==
  ASSUME TypeOK, NEW t \in Tabs, NEW q, requests' = [requests EXCEPT ![t] = q]
  PROVE  requests'[t] = q /\ \A u \in Tabs : u # t => requests'[u] = requests[u]
BY DEF TypeOK

LEMMA DebounceEffect ==
  ASSUME TypeOK, NEW t \in Tabs, NEW c \in Calculators, Debounce(t, c)
  PROVE  /\ tab'[t].timer \/ tab'[t].refused
         /\ tab'[t].id = c.id
         /\ \A u \in Tabs : u # t => tab'[u] = tab[u]
<1>1. CASE CanOwn(t)
  <2> DEFINE d == [c EXCEPT !.sync = "saving", !.timer = TRUE, !.refused = FALSE]
  <2>1. Show(t, d)
    BY <1>1 DEF Debounce
  <2>2. d.timer /\ d.id = c.id
    BY DEF Calculators
  <2>3. tab'[t] = d /\ \A u \in Tabs : u # t => tab'[u] = tab[u]
    BY <2>1, ShowEffect
  <2> QED
    BY <2>2, <2>3
<1>2. CASE ~CanOwn(t)
  <2> DEFINE d == [c EXCEPT !.sync = "saved", !.timer = FALSE, !.refused = TRUE]
  <2>1. Show(t, d)
    BY <1>2 DEF Debounce
  <2>2. d.refused /\ d.id = c.id
    BY DEF Calculators
  <2>3. tab'[t] = d /\ \A u \in Tabs : u # t => tab'[u] = tab[u]
    BY <2>1, ShowEffect
  <2> QED
    BY <2>2, <2>3
<1> QED
  BY <1>1, <1>2

(* A step that shows another calculator on one page, whose contents are    *)
(* the same, are to be saved or may not be.                                *)
LEMMA ShownAccounts ==
  ASSUME Accounts, NEW t \in Tabs, NEW c \in Calculators,
         \/ Debounce(t, c)
         \/ /\ Show(t, c)
            /\ \/ ~c.ready
               \/ /\ c.ready = tab[t].ready /\ c.timer = tab[t].timer
                  /\ c.refused = tab[t].refused /\ c.sync = tab[t].sync
                  /\ c.contents = tab[t].contents,
         c.id = tab[t].id \/ tab[t].id = 0,
         UNCHANGED <<draft, requests, writer>>
  PROVE  \A u \in Tabs : QueueOK(u)' /\ ContentsOK(u)'
<1> TAKE u \in Tabs
<1>0. TypeOK
  BY DEF Accounts
<1>1. CASE Debounce(t, c)
  <2>1. /\ tab'[t].timer \/ tab'[t].refused
        /\ tab'[t].id = tab[t].id \/ tab[t].id = 0
        /\ u # t => tab'[u] = tab[u]
    BY <1>0, <1>1, DebounceEffect
  <2>2. ~Settled(t)'
    BY <2>1 DEF Settled
  <2> QED
    BY <2>1, <2>2, Unsettled, Others
<1>2. CASE Show(t, c)
  <2>1. tab'[t] = c /\ (u # t => tab'[u] = tab[u])
    BY <1>0, <1>2, ShowEffect
  <2>2. CASE ~c.ready
    <3>1. ~Settled(t)'
      BY <2>1, <2>2 DEF Settled
    <3> QED
      BY <2>1, <3>1, Unsettled, Others
  <2>3. CASE /\ c.ready = tab[t].ready /\ c.timer = tab[t].timer
             /\ c.refused = tab[t].refused /\ c.sync = tab[t].sync
             /\ c.contents = tab[t].contents
    BY <2>1, <2>3, Undisturbed, Others
  <2>4. CASE Debounce(t, c)
    BY <1>1, <2>4
  <2> QED
    BY <2>2, <2>3, <2>4
<1> QED
  BY <1>1, <1>2

(* The steps of a page whose calculator alone changes.                     *)
LEMMA PageStepAccounts ==
  ASSUME Accounts, NEW t \in Tabs,
         \/ Ready(t) \/ Edit(t) \/ RestoreRead(t) \/ Restored(t)
         \/ RestoreFails(t) \/ QuoteSave(t) \/ QuoteSaved(t)
         \/ QuoteRefused(t) \/ Open(t)
  PROVE  \A u \in Tabs : QueueOK(u)' /\ ContentsOK(u)'
<1>0. TypeOK
  BY DEF Accounts
<1>a. /\ tab[t] \in Calculators /\ draft \in Drafts
      /\ NoDraft \in Drafts
  BY <1>0, PageTyping, NoDraftTyping
<1>1. CASE Ready(t)
  <2> DEFINE c == [tab[t] EXCEPT !.ready = TRUE]
  <2>1. c \in Calculators
    BY <1>a DEF Calculators
  <2>2. c.id = tab[t].id
    BY <1>a DEF Calculators
  <2> QED
    BY <1>1, <2>1, <2>2, ShownAccounts DEF Ready
<1>2. CASE Edit(t)
  <2> DEFINE c == [tab[t] EXCEPT !.contents = edits']
  <2>1. edits' \in Contents
    BY <1>0, <1>2, CountersTyping DEF Edit
  <2>2. c \in Calculators
    BY <1>a, <2>1 DEF Calculators
  <2>3. c.id = tab[t].id
    BY <1>a DEF Calculators
  <2> QED
    BY <1>2, <2>2, <2>3, ShownAccounts DEF Edit
<1>3. CASE RestoreRead(t)
  <2> DEFINE c == [tab[t] EXCEPT !.restore = "read", !.found = draft]
  <2>1. c \in Calculators
    BY <1>a DEF Calculators
  <2>2. /\ c.ready = tab[t].ready /\ c.timer = tab[t].timer
        /\ c.refused = tab[t].refused /\ c.sync = tab[t].sync
        /\ c.contents = tab[t].contents /\ c.id = tab[t].id
    BY <1>a DEF Calculators
  <2> QED
    BY <1>3, <2>1, <2>2, ShownAccounts DEF RestoreRead
<1>4. CASE Restored(t)
  <2> DEFINE d == [tab[t] EXCEPT !.restore = "done"]
             id == IF tab[t].id = 0 /\ tab[t].open THEN tab[t].found.id
                   ELSE tab[t].id
             c == [tab[t] EXCEPT !.restore = "done", !.found = NoDraft,
                                 !.contents = tab[t].found.contents, !.id = id]
  <2>1. d \in Calculators
    BY <1>a DEF Calculators
  <2>2. /\ d.ready = tab[t].ready /\ d.timer = tab[t].timer
        /\ d.refused = tab[t].refused /\ d.sync = tab[t].sync
        /\ d.contents = tab[t].contents /\ d.id = tab[t].id
    BY <1>a DEF Calculators
  <2>3. id \in Nat /\ tab[t].found.contents \in Contents
    BY <1>a, CalculatorFields DEF Drafts
  <2>4. c \in Calculators
    BY <1>a, <2>3, RestoreChanges
  <2>5. /\ c.ready = tab[t].ready /\ c.timer = tab[t].timer
        /\ c.refused = tab[t].refused /\ c.sync = tab[t].sync
        /\ c.contents = tab[t].found.contents
        /\ c.id = tab[t].id \/ tab[t].id = 0
    BY <1>a DEF Calculators
  <2>6. UNCHANGED <<draft, requests, writer>>
    BY <1>4 DEF Restored
  <2>7. CASE tab[t].found = NoDraft
    <3>1. Show(t, d)
      BY <1>4, <2>7 DEF Restored
    <3> QED
      BY <2>1, <2>2, <2>6, <3>1, ShownAccounts
  <2>8. CASE tab[t].found # NoDraft /\ Debounce(t, c)
    BY <2>4, <2>5, <2>6, <2>8, ShownAccounts
  <2>9. CASE /\ Show(t, c)
             /\ ~(tab[t].ready /\ tab[t].found.contents # tab[t].contents)
    <3>1. ~c.ready \/ c.contents = tab[t].contents
      BY <2>5, <2>9
    <3> HIDE DEF c
    <3> QED
      BY <2>4, <2>5, <2>6, <2>9, <3>1, ShownAccounts
  <2> QED
    BY <1>4, <2>7, <2>8, <2>9 DEF Restored
<1>5. CASE RestoreFails(t)
  <2> DEFINE c == [tab[t] EXCEPT !.restore = "failed", !.found = NoDraft]
  <2>1. c \in Calculators
    BY <1>a DEF Calculators
  <2>2. /\ c.ready = tab[t].ready /\ c.timer = tab[t].timer
        /\ c.refused = tab[t].refused /\ c.sync = tab[t].sync
        /\ c.contents = tab[t].contents /\ c.id = tab[t].id
    BY <1>a DEF Calculators
  <2> QED
    BY <1>5, <2>1, <2>2, ShownAccounts DEF RestoreFails
<1>6. CASE QuoteSave(t)
  <2> DEFINE c == [tab[t] EXCEPT !.quote = "saving", !.finished = tab[t].id]
  <2>1. c \in Calculators
    BY <1>a, QuoteChanges, CalculatorFields
  <2>2. /\ c.ready = tab[t].ready /\ c.timer = tab[t].timer
        /\ c.refused = tab[t].refused /\ c.sync = tab[t].sync
        /\ c.contents = tab[t].contents /\ c.id = tab[t].id
    BY <1>a DEF Calculators
  <2> QED
    BY <1>6, <2>1, <2>2, ShownAccounts DEF QuoteSave
<1>7. CASE QuoteSaved(t)
  <2> DEFINE c == [tab[t] EXCEPT !.quote = "printing"]
  <2>1. c \in Calculators
    BY <1>a, QuoteChanges, CalculatorFields
  <2>2. /\ c.ready = tab[t].ready /\ c.timer = tab[t].timer
        /\ c.refused = tab[t].refused /\ c.sync = tab[t].sync
        /\ c.contents = tab[t].contents /\ c.id = tab[t].id
    BY <1>a DEF Calculators
  <2> QED
    BY <1>7, <2>1, <2>2, ShownAccounts DEF QuoteSaved
<1>8. CASE QuoteRefused(t)
  <2> DEFINE c == [tab[t] EXCEPT !.quote = "none", !.finished = 0]
  <2>1. c \in Calculators
    BY <1>a, QuoteChanges
  <2>2. /\ c.ready = tab[t].ready /\ c.timer = tab[t].timer
        /\ c.refused = tab[t].refused /\ c.sync = tab[t].sync
        /\ c.contents = tab[t].contents /\ c.id = tab[t].id
    BY <1>a DEF Calculators
  <2> QED
    BY <1>8, <2>1, <2>2, ShownAccounts DEF QuoteRefused
<1>9. CASE Open(t)
  <2>1. PICK restore \in {"asked", "none"} :
          Show(t, [tab[t] EXCEPT !.open = TRUE, !.restore = restore])
    BY <1>9 DEF Open
  <2> DEFINE c == [tab[t] EXCEPT !.open = TRUE, !.restore = restore]
  <2>2. c \in Calculators
    BY <1>a DEF Calculators
  <2>3. /\ c.ready = tab[t].ready /\ c.timer = tab[t].timer
        /\ c.refused = tab[t].refused /\ c.sync = tab[t].sync
        /\ c.contents = tab[t].contents /\ c.id = tab[t].id
    BY <1>a DEF Calculators
  <2> QED
    BY <1>9, <2>1, <2>2, <2>3, ShownAccounts DEF Open
<1> QED
  BY <1>1, <1>2, <1>3, <1>4, <1>5, <1>6, <1>7, <1>8, <1>9

(* A save that is sent has the contents of its page.                       *)
LEMMA SaveAccounts ==
  ASSUME Accounts, NEW t \in Tabs, NEW c \in Calculators, Save(t, c),
         c.id = tab[t].id, c.contents = tab[t].contents
  PROVE  \A u \in Tabs : QueueOK(u)' /\ ContentsOK(u)'
<1>0. TypeOK /\ QueueOK(t) /\ requests[t] \in Seq(Requests)
  BY PageTyping DEF Accounts
<1>1. CASE CanOwn(t)
  <2> DEFINE d == [c EXCEPT !.sync = "saving", !.refused = FALSE]
             r == [id |-> c.id, contents |-> c.contents, served |-> FALSE,
                   live |-> TRUE]
             n == Len(requests[t]) + 1
  <2>1. /\ Show(t, d) /\ UNCHANGED <<draft, writer>>
        /\ requests' = [requests EXCEPT ![t] = Append(requests[t], r)]
    BY <1>1 DEF Save
  <2>2. d.id = tab[t].id /\ d.contents = tab[t].contents
    BY DEF Calculators
  <2>3. tab'[t] = d /\ \A u \in Tabs : u # t => tab'[u] = tab[u]
    BY <1>0, <2>1, ShowEffect
  <2>4. /\ requests'[t] = Append(requests[t], r)
        /\ \A u \in Tabs : u # t => requests'[u] = requests[u]
    BY <1>0, <2>1, QueueEffect
  <2>5. /\ n \in Nat \ {0} /\ Len(requests'[t]) = n /\ requests'[t] # <<>>
        /\ DOMAIN requests'[t] = 1 .. n
        /\ requests'[t][n] = r
        /\ DOMAIN requests[t] = 1 .. (n - 1)
        /\ \A i \in 1 .. (n - 1) : requests'[t][i] = requests[t][i]
    BY <1>0, <2>4
  <2>6. Last(t)' = r
    BY <2>5 DEF Last
  <2> HIDE DEF d, n
  <2>7. QueueOK(t)'
    <3> SUFFICES ASSUME NEW i \in DOMAIN requests'[t]
                 PROVE /\ requests'[t][i].served => i = 1
                       /\ requests'[t][i].live =>
                            requests'[t][i].served
                              \/ requests'[t][i].id \in {0, tab'[t].id}
      BY <2>2, <2>3, <2>6 DEF QueueOK
    <3>1. CASE i = n
      BY <2>2, <2>3, <2>5, <3>1
    <3>2. CASE i # n
      <4>1. i \in DOMAIN requests[t] /\ requests'[t][i] = requests[t][i]
        BY <2>5, <3>2
      <4> QED
        BY <1>0, <2>2, <2>3, <4>1 DEF QueueOK
    <3> QED
      BY <3>1, <3>2
  <2>8. Pending(t)'
    BY <2>2, <2>3, <2>5, <2>6 DEF Pending
  <2> QED
    BY <2>1, <2>3, <2>4, <2>7, <2>8, Others DEF ContentsOK
<1>2. CASE ~CanOwn(t)
  <2> DEFINE d == [c EXCEPT !.sync = "saved", !.refused = TRUE]
  <2>1. Show(t, d) /\ UNCHANGED <<draft, writer, requests>>
    BY <1>2 DEF Save
  <2>2. d.refused /\ d.id = tab[t].id
    BY DEF Calculators
  <2>3. tab'[t] = d /\ \A u \in Tabs : u # t => tab'[u] = tab[u]
    BY <1>0, <2>1, ShowEffect
  <2>4. ~Settled(t)'
    BY <2>2, <2>3 DEF Settled
  <2> QED
    BY <2>1, <2>2, <2>3, <2>4, Unsettled, Others
<1> QED
  BY <1>1, <1>2

LEMMA TimerAccounts ==
  ASSUME Accounts, NEW t \in Tabs, TimerFires(t) \/ Retry(t)
  PROVE  \A u \in Tabs : QueueOK(u)' /\ ContentsOK(u)'
<1>0. tab[t] \in Calculators
  BY PageTyping DEF Accounts
<1>1. CASE TimerFires(t)
  <2> DEFINE c == [tab[t] EXCEPT !.timer = FALSE]
  <2>1. c \in Calculators
    BY <1>0, SyncChanges
  <2>2. c.id = tab[t].id /\ c.contents = tab[t].contents
    BY <1>0 DEF Calculators
  <2> QED
    BY <1>1, <2>1, <2>2, SaveAccounts DEF TimerFires
<1>2. CASE Retry(t)
  BY <1>0, <1>2, SaveAccounts DEF Retry
<1> QED
  BY <1>1, <1>2

(* What a save that is served makes of the row.                            *)
LEMMA StoreEffect ==
  ASSUME TypeOK, RowOK, NEW r \in Requests, NEW by, Store(r, by)
  PROVE  /\ UNCHANGED <<draft, writer>> \/ writer' = by
         /\ RowOK'
         /\ r.id \notin {0, draft.id} => UNCHANGED <<draft, writer>>
         /\ r.id \in {0, draft.id} =>
              draft' # NoDraft /\ draft'.contents = r.contents
<1>1. r.id \in Nat /\ lastId \in Nat /\ draft.id \in Nat
  BY RequestFields DEF TypeOK, Drafts
<1>2. UNCHANGED <<draft, writer>> \/ writer' = by
  BY DEF Store
<1>3. r.id \notin {0, draft.id} => UNCHANGED <<draft, writer>>
  BY DEF Store, Target
<1>4. CASE r.id \in {0, draft.id}
  <2>1. Target(r) # 0
    BY <1>1, <1>4 DEF Target, RowOK, NoDraft
  <2>2. draft' = [id |-> Target(r), contents |-> r.contents]
    BY <2>1 DEF Store
  <2>3. draft'.id # 0 /\ draft'.contents = r.contents
    BY <2>1, <2>2
  <2>4. draft' # NoDraft
    BY <2>3 DEF NoDraft
  <2> QED
    BY <1>2, <1>3, <2>3, <2>4 DEF RowOK
<1>5. CASE r.id \notin {0, draft.id}
  BY <1>2, <1>3, <1>5 DEF RowOK, NoDraft
<1> QED
  BY <1>4, <1>5

LEMMA ServeAccounts ==
  ASSUME Accounts, NEW t \in Tabs, Serve(t)
  PROVE  RowOK' /\ \A u \in Tabs : QueueOK(u)' /\ ContentsOK(u)'
<1> DEFINE r == Head(requests[t])
           by == IF r.live THEN t ELSE Gone
           answer == [r EXCEPT !.served = TRUE,
                               !.id = IF r.id = 0 THEN Target(r) ELSE r.id]
           n == Len(requests[t])
<1>0. /\ TypeOK /\ RowOK /\ QueueOK(t) /\ ContentsOK(t)
      /\ requests[t] \in Seq(Requests)
  BY PageTyping DEF Accounts
<1>1. /\ requests[t] # <<>> /\ ~r.served /\ Store(r, by) /\ UNCHANGED tab
      /\ requests' = [requests EXCEPT ![t] = <<answer>> \o Tail(requests[t])]
  BY DEF Serve
<1>2. /\ n \in Nat \ {0} /\ r = requests[t][1] /\ r \in Requests
      /\ 1 \in DOMAIN requests[t] /\ DOMAIN requests[t] = 1 .. n
  BY <1>0, <1>1
<1>3. answer.live = r.live /\ answer.contents = r.contents /\ answer.served
  BY <1>2 DEF Requests
<1>4. /\ requests'[t] = <<answer>> \o Tail(requests[t])
      /\ \A u \in Tabs : u # t => requests'[u] = requests[u]
  BY <1>0, <1>1, QueueEffect
<1> HIDE DEF answer
<1>5. /\ Len(requests'[t]) = n /\ requests'[t][1] = answer
      /\ DOMAIN requests'[t] = 1 .. n /\ requests'[t] # <<>>
      /\ \A i \in 2 .. n : requests'[t][i] = requests[t][i]
  BY <1>0, <1>1, <1>2, <1>4
<1>6. /\ Last(t)'.live = Last(t).live /\ Last(t)'.contents = Last(t).contents
      /\ n # 1 => Last(t)' = Last(t)
      /\ n = 1 => Last(t) = r
  <2>1. Last(t) = requests[t][n] /\ Last(t)' = requests'[t][n]
    BY <1>5 DEF Last
  <2>2. n # 1 => requests'[t][n] = requests[t][n]
    <3>1. \A k \in Nat \ {0} : k # 1 => k \in 2 .. k
      OBVIOUS
    <3>2. n # 1 => n \in 2 .. n
      BY <1>2, <3>1
    <3> HIDE DEF n
    <3> QED
      BY <1>5, <3>2
  <2> QED
    BY <1>2, <1>3, <1>5, <2>1, <2>2
<1>7. /\ UNCHANGED <<draft, writer>> \/ writer' = by
      /\ RowOK'
      /\ r.id \notin {0, draft.id} => UNCHANGED <<draft, writer>>
      /\ r.id \in {0, draft.id} =>
           draft' # NoDraft /\ draft'.contents = r.contents
  BY <1>0, <1>1, <1>2, StoreEffect
<1>8. Settled(t)' <=> Settled(t)
  BY <1>1 DEF Settled
<1> HIDE DEF r, n
<1>9. QueueOK(t)'
  <2> SUFFICES ASSUME NEW i \in DOMAIN requests'[t]
               PROVE /\ requests'[t][i].served => i = 1
                     /\ requests'[t][i].live =>
                          /\ Last(t)'.live
                          /\ \/ requests'[t][i].served
                             \/ requests'[t][i].id \in {0, tab'[t].id}
                          /\ Settled(t)' => Last(t)'.contents = tab'[t].contents
    BY DEF QueueOK
  <2>1. CASE i = 1
    BY <1>0, <1>1, <1>2, <1>3, <1>5, <1>6, <1>8, <2>1 DEF QueueOK
  <2>2. CASE i # 1
    <3>1. i \in DOMAIN requests[t] /\ requests'[t][i] = requests[t][i]
      BY <1>2, <1>5, <2>2
    <3> QED
      BY <1>0, <1>1, <1>6, <1>8, <3>1 DEF QueueOK
  <2> QED
    BY <2>1, <2>2
<1>10. ContentsOK(t)'
  <2> SUFFICES ASSUME Settled(t)
               PROVE  \/ Stored(t)' \/ Taken(t)' \/ Pending(t)'
                      \/ tab'[t].sync = "error" /\ ~Live(t)'
    BY <1>8 DEF ContentsOK
  <2>1. CASE n # 1
    <3>1. Last(t)' = Last(t) /\ ~Last(t).served
      <4>1. n \in DOMAIN requests[t] /\ Last(t) = requests[t][n]
        BY <1>2 DEF Last, n
      <4> QED
        BY <1>0, <1>6, <2>1, <4>1 DEF QueueOK
    <3>2. CASE r.live
      BY <1>0, <1>1, <1>2, <1>5, <2>1, <3>1, <3>2 DEF QueueOK, Pending
    <3>3. CASE ~r.live
      <4>1. UNCHANGED <<draft, writer>> \/ writer' # t
        BY <1>7, <3>3
      <4>2. (Stored(t) \/ Taken(t)) => (Stored(t)' \/ Taken(t)')
        BY <1>1, <4>1 DEF Stored, Taken, NamesDeleted
      <4>3. Pending(t) => Pending(t)'
        BY <1>1, <1>5, <3>1 DEF Pending
      <4>4. ~Live(t) => ~Live(t)'
        BY <1>2, <1>3, <1>5, <3>3 DEF Live
      <4> QED
        BY <1>0, <1>1, <4>2, <4>3, <4>4 DEF ContentsOK
    <3> QED
      BY <3>2, <3>3
  <2>2. CASE n = 1 /\ r.live
    <3>1. r.contents = tab[t].contents /\ r.id \in {0, tab[t].id}
      BY <1>0, <1>1, <1>2, <1>6, <2>2 DEF QueueOK
    <3>2. CASE r.id \in {0, draft.id}
      BY <1>1, <1>7, <3>1, <3>2 DEF Stored
    <3>3. CASE r.id \notin {0, draft.id}
      BY <1>1, <1>7, <3>1, <3>3 DEF Taken, NamesDeleted
    <3> QED
      BY <3>2, <3>3
  <2>3. CASE n = 1 /\ ~r.live
    <3>1. UNCHANGED <<draft, writer>> \/ writer' # t
      BY <1>7, <2>3
    <3>2. (Stored(t) \/ Taken(t)) => (Stored(t)' \/ Taken(t)')
      BY <1>1, <3>1 DEF Stored, Taken, NamesDeleted
    <3>3. ~Pending(t)
      BY <1>6, <2>3 DEF Pending
    <3>4. ~Live(t)'
      BY <1>3, <1>5, <2>3 DEF Live
    <3> QED
      BY <1>0, <1>1, <3>2, <3>3, <3>4 DEF ContentsOK
  <2> QED
    BY <2>1, <2>2, <2>3
<1>11. UNCHANGED <<draft, writer>> \/ writer' \in {t, Gone, Nobody}
  BY <1>7
<1> QED
  BY <1>1, <1>4, <1>7, <1>9, <1>10, <1>11, Others

(* The oldest save leaves the queue; a page that is open says how it went. *)
LEMMA ForgetAccounts ==
  ASSUME Accounts, NEW t \in Tabs, requests[t] # <<>>, Forget(t),
         UNCHANGED <<draft, writer>>, NEW c,
         IF Head(requests[t]).live THEN Show(t, c) ELSE UNCHANGED tab,
         /\ c.ready = tab[t].ready /\ c.timer = tab[t].timer
         /\ c.refused = tab[t].refused /\ c.contents = tab[t].contents
         /\ c.id = tab[t].id \/ tab[t].id = 0,
         c.sync = "error" \/ Head(requests[t]).served
  PROVE  \A u \in Tabs : QueueOK(u)' /\ ContentsOK(u)'
<1> DEFINE r == Head(requests[t])
           n == Len(requests[t])
<1>0. /\ TypeOK /\ QueueOK(t) /\ ContentsOK(t) /\ requests[t] \in Seq(Requests)
  BY PageTyping DEF Accounts
<1>1. /\ n \in Nat \ {0} /\ r = requests[t][1]
      /\ DOMAIN requests[t] = 1 .. n /\ 1 \in DOMAIN requests[t]
      /\ n \in DOMAIN requests[t]
  BY <1>0
<1>2. /\ requests'[t] = Tail(requests[t])
      /\ \A u \in Tabs : u # t => requests'[u] = requests[u]
  BY <1>0, QueueEffect DEF Forget
<1>3. /\ Len(requests'[t]) = n - 1 /\ DOMAIN requests'[t] = 1 .. (n - 1)
      /\ \A i \in 1 .. (n - 1) : requests'[t][i] = requests[t][i + 1]
  BY <1>0, <1>2
<1>4. /\ r.live => tab'[t] = c
      /\ ~r.live => tab' = tab
      /\ \A u \in Tabs : u # t => tab'[u] = tab[u]
  BY <1>0, ShowEffect
<1>5. /\ tab'[t].ready = tab[t].ready /\ tab'[t].timer = tab[t].timer
      /\ tab'[t].refused = tab[t].refused
      /\ tab'[t].contents = tab[t].contents
      /\ tab'[t].id = tab[t].id \/ tab[t].id = 0
  BY <1>4
<1>6. Settled(t)' <=> Settled(t)
  BY <1>5 DEF Settled
<1> HIDE DEF r, n
<1>7. n # 1 => Last(t)' = Last(t) /\ ~Last(t).served /\ requests'[t] # <<>>
  <2>1. SUFFICES ASSUME n # 1
                 PROVE  Last(t)' = Last(t) /\ ~Last(t).served
                        /\ requests'[t] # <<>>
    OBVIOUS
  <2>2. n - 1 \in 1 .. (n - 1) /\ requests'[t][n - 1] = requests[t][n]
    BY <1>1, <1>3, <2>1
  <2>3. Last(t)' = requests[t][n] /\ Last(t) = requests[t][n]
    BY <1>3, <2>2 DEF Last, n
  <2> QED
    BY <1>0, <1>1, <1>3, <2>1, <2>2, <2>3 DEF QueueOK
<1>8. QueueOK(t)'
  <2> SUFFICES ASSUME NEW i \in DOMAIN requests'[t]
               PROVE /\ requests'[t][i].served => i = 1
                     /\ requests'[t][i].live =>
                          /\ Last(t)'.live
                          /\ \/ requests'[t][i].served
                             \/ requests'[t][i].id \in {0, tab'[t].id}
                          /\ Settled(t)' => Last(t)'.contents = tab'[t].contents
    BY DEF QueueOK
  <2>1. /\ i + 1 \in DOMAIN requests[t] /\ i + 1 # 1 /\ n # 1
        /\ requests'[t][i] = requests[t][i + 1]
    BY <1>1, <1>3
  <2> QED
    BY <1>0, <1>5, <1>6, <1>7, <2>1 DEF QueueOK
<1>9. ContentsOK(t)'
  <2> SUFFICES ASSUME Settled(t)
               PROVE  \/ Stored(t)' \/ Taken(t)' \/ Pending(t)'
                      \/ tab'[t].sync = "error" /\ ~Live(t)'
    BY <1>6 DEF ContentsOK
  <2>1. (Stored(t) \/ Taken(t)) => (Stored(t)' \/ Taken(t)')
    BY <1>5 DEF Stored, Taken, NamesDeleted
  <2>2. CASE n # 1 /\ (r.live \/ Pending(t))
    <3>1. Last(t).live /\ Last(t).contents = tab[t].contents
      BY <1>0, <1>1, <2>2 DEF QueueOK, Pending
    <3> QED
      BY <1>5, <1>7, <2>2, <3>1 DEF Pending
  <2>3. CASE n = 1 /\ Pending(t)
    <3>1. Last(t) = r
      BY <1>1, <2>3 DEF Last, n
    <3>2. r.live /\ ~r.served
      BY <2>3, <3>1 DEF Pending
    <3>3. tab'[t].sync = "error"
      BY <1>4, <3>2 DEF r
    <3>4. ~Live(t)'
      BY <1>1, <1>3, <2>3 DEF Live
    <3> QED
      BY <3>3, <3>4
  <2>4. CASE tab[t].sync = "error" /\ ~Live(t)
    <3>1. ~r.live
      BY <1>1, <2>4 DEF Live
    <3>2. ~Live(t)'
      <4>1. \A i \in DOMAIN requests'[t] : i + 1 \in DOMAIN requests[t]
                                           /\ requests'[t][i] = requests[t][i + 1]
        BY <1>1, <1>3
      <4> QED
        BY <2>4, <4>1 DEF Live
    <3> QED
      BY <1>4, <2>4, <3>1, <3>2
  <2> QED
    BY <1>0, <2>1, <2>2, <2>3, <2>4 DEF ContentsOK
<1> QED
  BY <1>2, <1>4, <1>8, <1>9, Others

LEMMA AnswerAccounts ==
  ASSUME Accounts, NEW t \in Tabs, Answered(t) \/ Failed(t)
  PROVE  \A u \in Tabs : QueueOK(u)' /\ ContentsOK(u)'
<1>0. tab[t] \in Calculators
  BY PageTyping DEF Accounts
<1>1. CASE Answered(t)
  <2> DEFINE id == IF tab[t].id = 0 THEN Head(requests[t]).id ELSE tab[t].id
             c == [tab[t] EXCEPT !.sync = "saved", !.id = id]
  <2>1. /\ c.ready = tab[t].ready /\ c.timer = tab[t].timer
        /\ c.refused = tab[t].refused /\ c.contents = tab[t].contents
        /\ c.id = tab[t].id \/ tab[t].id = 0
    BY <1>0 DEF Calculators
  <2>2. /\ requests[t] # <<>> /\ Head(requests[t]).served /\ Forget(t)
        /\ UNCHANGED <<draft, writer>>
        /\ IF Head(requests[t]).live THEN Show(t, c) ELSE UNCHANGED tab
    BY <1>1 DEF Answered
  <2> HIDE DEF c
  <2> QED
    BY <2>1, <2>2, ForgetAccounts
<1>2. CASE Failed(t)
  <2> DEFINE c == [tab[t] EXCEPT !.sync = "error"]
  <2>1. /\ c.ready = tab[t].ready /\ c.timer = tab[t].timer
        /\ c.refused = tab[t].refused /\ c.contents = tab[t].contents
        /\ c.id = tab[t].id /\ c.sync = "error"
    BY <1>0 DEF Calculators
  <2>2. /\ requests[t] # <<>> /\ Forget(t) /\ UNCHANGED <<draft, writer>>
        /\ IF Head(requests[t]).live THEN Show(t, c) ELSE UNCHANGED tab
    BY <1>2 DEF Failed
  <2> HIDE DEF c
  <2> QED
    BY <2>1, <2>2, ForgetAccounts
<1> QED
  BY <1>1, <1>2

LEMMA LeavingAccounts ==
  ASSUME Accounts, NEW t \in Tabs, Leave(t) \/ Exit(t)
  PROVE  \A u \in Tabs : QueueOK(u)' /\ ContentsOK(u)'
<1>0. /\ TypeOK /\ QueueOK(t) /\ tab[t] \in Calculators
      /\ requests[t] \in Seq(Requests)
  BY PageTyping DEF Accounts
<1>1. CASE Leave(t)
  <2> DEFINE c == [tab[t] EXCEPT !.open = FALSE, !.ready = FALSE, !.id = 0,
                     !.timer = FALSE, !.sync = "saved", !.refused = FALSE]
  <2>1. ~c.ready
    BY <1>0 DEF Calculators
  <2>2. tab'[t] = c /\ \A u \in Tabs : u # t => tab'[u] = tab[u]
    BY <1>0, <1>1, ShowEffect DEF Leave
  <2>3. /\ requests'[t] = Unheard(requests[t])
        /\ \A u \in Tabs : u # t => requests'[u] = requests[u]
    BY <1>0, <1>1, QueueEffect DEF Leave
  <2>4. ~Settled(t)'
    BY <2>1, <2>2 DEF Settled
  <2>5. QueueOK(t)'
    <3>1. /\ DOMAIN requests'[t] = DOMAIN requests[t]
          /\ \A i \in DOMAIN requests[t] : ~requests'[t][i].live
      BY <1>0, <2>3, UnheardTyping
    <3>2. \A i \in DOMAIN requests[t] :
            requests'[t][i].served = requests[t][i].served
      BY <1>0, <2>3, UnheardTyping
    <3> QED
      BY <1>0, <3>1, <3>2 DEF QueueOK
  <2> QED
    BY <1>1, <2>2, <2>3, <2>4, <2>5, Others DEF ContentsOK, Leave
<1>2. CASE Exit(t)
  <2>1. tab'[t] = Closed /\ \A u \in Tabs : u # t => tab'[u] = tab[u]
    BY <1>0, <1>2, ShowEffect DEF Exit
  <2>2. /\ requests'[t] = <<>>
        /\ \A u \in Tabs : u # t => requests'[u] = requests[u]
    BY <1>0, <1>2, QueueEffect DEF Exit
  <2>3. ~Settled(t)'
    BY <2>1 DEF Settled, Closed
  <2>4. QueueOK(t)'
    BY <2>2 DEF QueueOK
  <2> QED
    BY <1>2, <2>1, <2>2, <2>3, <2>4, Others DEF ContentsOK, Exit
<1> QED
  BY <1>1, <1>2

(* The row is deleted, or changed by a page that is gone.                  *)
LEMMA RowAccounts ==
  ASSUME Accounts, NEW t \in Tabs, QuoteFinished(t)
  PROVE  RowOK' /\ \A u \in Tabs : QueueOK(u)' /\ ContentsOK(u)'
<1> DEFINE c == [tab[t] EXCEPT !.quote = "none", !.finished = 0]
<1>0. TypeOK /\ tab[t] \in Calculators
  BY PageTyping DEF Accounts
<1>1. /\ c.ready = tab[t].ready /\ c.timer = tab[t].timer
      /\ c.refused = tab[t].refused /\ c.sync = tab[t].sync
      /\ c.contents = tab[t].contents /\ c.id = tab[t].id
  BY <1>0 DEF Calculators
<1>2. tab'[t] = c /\ \A u \in Tabs : u # t => tab'[u] = tab[u]
  BY <1>0, ShowEffect DEF QuoteFinished
<1>3. UNCHANGED requests /\ RowOK'
  BY DEF QuoteFinished, RowOK, Accounts
<1>4. \A u \in Tabs : UNCHANGED <<draft, writer>> \/ writer' # u
  BY DEF QuoteFinished
<1>5. ASSUME NEW u \in Tabs PROVE QueueOK(u)' /\ ContentsOK(u)'
  <2>1. /\ tab'[u].ready = tab[u].ready /\ tab'[u].timer = tab[u].timer
        /\ tab'[u].refused = tab[u].refused /\ tab'[u].sync = tab[u].sync
        /\ tab'[u].contents = tab[u].contents /\ tab'[u].id = tab[u].id
    BY <1>1, <1>2
  <2> QED
    BY <1>3, <1>4, <2>1, Undisturbed
<1> QED
  BY <1>3, <1>5

LEMMA SharedAccounts ==
  ASSUME Accounts, TokenExpires \/ ServeOrphan
  PROVE  RowOK' /\ \A u \in Tabs : QueueOK(u)' /\ ContentsOK(u)'
<1>1. UNCHANGED <<tab, requests>>
  BY DEF TokenExpires, ServeOrphan
<1>2. RowOK' /\ (UNCHANGED <<draft, writer>> \/ writer' = Gone)
  <2>1. CASE TokenExpires
    BY <2>1 DEF TokenExpires, RowOK, Accounts
  <2>2. CASE ServeOrphan
    <3>1. PICK r \in orphans : Store(r, Gone)
      BY <2>2 DEF ServeOrphan
    <3>2. r \in Requests
      BY <3>1 DEF TypeOK, Accounts
    <3> QED
      BY <3>1, <3>2, StoreEffect DEF Accounts
  <2> QED
    BY <2>1, <2>2
<1>3. ASSUME NEW u \in Tabs PROVE QueueOK(u)' /\ ContentsOK(u)'
  BY <1>1, <1>2, Undisturbed
<1> QED
  BY <1>2, <1>3

LEMMA AccountsStep == Accounts /\ [Next]_vars => Accounts'
<1> SUFFICES ASSUME Accounts, [Next]_vars PROVE Accounts'
  OBVIOUS
<1>0. TypeOK /\ RowOK /\ TypeOK'
  BY TypingStep DEF Accounts
<1>1. UNCHANGED draft => RowOK'
  BY <1>0 DEF RowOK
<1>2. RowOK' /\ \A u \in Tabs : QueueOK(u)' /\ ContentsOK(u)'
  <2>1. ASSUME NEW t \in Tabs,
               \/ Ready(t) \/ Edit(t) \/ RestoreRead(t) \/ Restored(t)
               \/ RestoreFails(t) \/ QuoteSave(t) \/ QuoteSaved(t)
               \/ QuoteRefused(t) \/ Open(t)
        PROVE  UNCHANGED draft
    BY <2>1 DEF Ready, Edit, RestoreRead, Restored, RestoreFails, QuoteSave,
                QuoteSaved, QuoteRefused, Open
  <2>2. ASSUME NEW t \in Tabs,
               \/ TimerFires(t) \/ Retry(t) \/ Answered(t) \/ Failed(t)
               \/ Leave(t) \/ Exit(t)
        PROVE  UNCHANGED draft
    BY <2>2 DEF TimerFires, Retry, Save, Answered, Failed, Leave, Exit
  <2>3. CASE TokenExpires \/ ServeOrphan
    BY <2>3, SharedAccounts
  <2>4. CASE \E t \in Tabs :
               \/ Progress(t) \/ Failed(t) \/ RestoreFails(t)
               \/ Edit(t) \/ Retry(t) \/ Open(t) \/ Leave(t) \/ Exit(t)
    BY <1>1, <2>1, <2>2, <2>4, PageStepAccounts, TimerAccounts, ServeAccounts,
       AnswerAccounts, LeavingAccounts DEF Progress
  <2>5. CASE \E t \in Quoters :
               QuoteSave(t) \/ QuoteSaved(t) \/ QuoteRefused(t) \/ QuoteFinished(t)
    BY <1>1, <2>1, <2>5, PageStepAccounts, RowAccounts
  <2>6. CASE UNCHANGED vars
    <3>1. UNCHANGED <<draft, writer, tab, requests>>
      BY <2>6 DEF vars
    <3> QED
      BY <1>1, <3>1, Undisturbed
  <2> QED
    BY <2>3, <2>4, <2>5, <2>6 DEF Next
<1> QED
  BY <1>0, <1>2 DEF Accounts

LEMMA AccountsInit == Init => Accounts
<1> SUFFICES ASSUME Init PROVE Accounts
  OBVIOUS
<1>1. [owner |-> Nobody, fresh |-> FALSE] \in Tokens
  BY DEF Tokens
<1>2. TypeOK
  BY <1>1, NoDraftTyping DEF Init, TypeOK, Contents
<1>3. RowOK
  BY DEF Init, RowOK
<1>4. ASSUME NEW t \in Tabs PROVE QueueOK(t) /\ ContentsOK(t)
  BY DEF Init, QueueOK, ContentsOK, Settled, Closed
<1> QED
  BY <1>2, <1>3, <1>4 DEF Accounts

(* The row, the token, the pages and their saves keep their types in every *)
(* behaviour of the program.                                               *)
THEOREM DraftTypes == Spec => []TypeOK
<1>1. Init => TypeOK
  BY AccountsInit DEF Accounts
<1>2. TypeOK /\ [Next]_vars => TypeOK'
  BY TypingStep
<1> QED
  BY <1>1, <1>2, PTL DEF Spec

(* Whatever a page shows as saved has been accounted for.                  *)
LEMMA AccountsSaved == Accounts => SavedUnlessTaken
<1> SUFFICES ASSUME Accounts, NEW t \in Tabs, ShownAsSaved(t), ~tab[t].refused
             PROVE  Stored(t) \/ Taken(t)
  BY DEF SavedUnlessTaken, Stored, Taken
<1>1. Settled(t) /\ ~Live(t) /\ tab[t].sync = "saved"
  BY DEF ShownAsSaved, Settled
<1>2. ~Pending(t)
  <2>1. requests[t] \in Seq(Requests)
    BY PageTyping DEF Accounts
  <2>2. requests[t] # <<>> => Len(requests[t]) \in DOMAIN requests[t]
    BY <2>1
  <2> QED
    BY <1>1, <2>2 DEF Pending, Live, Last
<1> QED
  BY <1>1, <1>2 DEF Accounts, ContentsOK

(* What a calculator shows as saved is in the user's draft, unless it may  *)
(* not save, another tab, another page or a finished quote has touched the *)
(* row since, or the row it names was deleted, for any number of tabs,     *)
(* changes, saves on their way and failures.                               *)
THEOREM ShownIsStored == Spec => []SavedUnlessTaken
<1>1. Spec => []Accounts
  BY AccountsInit, AccountsStep, PTL DEF Spec
<1> QED
  BY <1>1, AccountsSaved, PTL

=============================================================================
