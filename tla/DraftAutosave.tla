--------------------------- MODULE DraftAutosave ---------------------------
(***************************************************************************)
(* The draft that the calculator keeps of one user's work.  Every tab with *)
(* the calculator saves what is on its screen two seconds after the last   *)
(* change, into the one row of draft_quotes that the user may have, and    *)
(* restores that row when the calculator opens.  A token in localStorage   *)
(* says which tab may save; it counts for ten seconds.                     *)
(*                                                                         *)
(* Contents are told apart by the change that made them; 0 is the empty    *)
(* calculator.  The test of the token and its renewal are one step.        *)
(***************************************************************************)
EXTENDS Integers, Sequences

CONSTANTS
  Tabs,
  Quoters,      \* the tabs in which contents are saved as a quote
  MaxEdits,     \* bound: changes made to the contents of calculators
  MaxSaves,     \* bound: saves of a tab on their way
  MaxOpenings,  \* bound: times a calculator is opened
  MaxTroubles   \* bound: quotes saved, and requests that fail, are not answered
                \* or outlive their page

(* No tab, and a calculator that is no longer open.                        *)
Nobody == "nobody"
Gone == "gone"

ASSUME DraftConstants ==
  /\ Nobody \notin Tabs /\ Gone \notin Tabs
  /\ Quoters \subseteq Tabs
  /\ MaxEdits \in Nat /\ MaxSaves \in Nat /\ MaxOpenings \in Nat
  /\ MaxTroubles \in Nat

VARIABLES
  draft,     \* the user's row of draft_quotes, or NoDraft
  lastId,    \* identity of the row inserted last
  token,     \* owner of autosaving, in localStorage
  tab,       \* the calculator of each tab
  requests,  \* saves sent by each tab and not answered, in their order
  orphans,   \* saves of pages that are gone, in no order
  edits, openings, troubles,  \* counters for the bounds
  writer     \* history: who changed the row last

counters == <<edits, openings, troubles>>
vars == <<draft, lastId, token, tab, requests, orphans, counters, writer>>

NoDraft == [id |-> 0, contents |-> 0]
Contents == 0 .. MaxEdits
Drafts == [id : Nat, contents : Contents]

Tokens == [owner : Tabs \cup {Nobody, Gone}, fresh : BOOLEAN]

(* "id" is currentDraftId, "quote" the step that saving a quote has        *)
(* reached and "finished" the draft to be deleted at its end.  History:    *)
(* "refused", the last attempt to save found another owner.                *)
Calculators ==
  [open : BOOLEAN, ready : BOOLEAN, contents : Contents, id : Nat,
   timer : BOOLEAN, sync : {"saved", "saving", "error"}, refused : BOOLEAN,
   restore : {"none", "asked", "read", "done", "failed"}, found : Drafts,
   quote : {"none", "saving", "printing"}, finished : Nat]

Requests == [id : Nat, contents : Contents, served : BOOLEAN, live : BOOLEAN]

Closed == [open |-> FALSE, ready |-> FALSE, contents |-> 0, id |-> 0,
           timer |-> FALSE, sync |-> "saved", refused |-> FALSE,
           restore |-> "none", found |-> NoDraft,
           quote |-> "none", finished |-> 0]

Show(t, calculator) == tab' = [tab EXCEPT ![t] = calculator]

-----------------------------------------------------------------------------
(* Who may save                                                            *)

CanOwn(t) == token.owner \in {t, Nobody} \/ ~token.fresh

Own(t) == token' = [owner |-> t, fresh |-> TRUE]

TokenExpires ==
  /\ token.fresh
  /\ token' = [token EXCEPT !.fresh = FALSE]
  /\ UNCHANGED <<draft, lastId, tab, requests, orphans, counters, writer>>

-----------------------------------------------------------------------------
(* Saving                                                                  *)

(* The effect that runs when the contents change: the timer starts again.  *)
Debounce(t, calculator) ==
  IF CanOwn(t)
  THEN /\ Own(t)
       /\ Show(t, [calculator EXCEPT !.sync = "saving", !.timer = TRUE,
                                      !.refused = FALSE])
  ELSE /\ Show(t, [calculator EXCEPT !.sync = "saved", !.timer = FALSE,
                                      !.refused = TRUE])
       /\ UNCHANGED token

(* Once the master data is there the effect runs for the first time.       *)
Ready(t) ==
  /\ tab[t].open /\ ~tab[t].ready
  /\ Debounce(t, [tab[t] EXCEPT !.ready = TRUE])
  /\ UNCHANGED <<draft, lastId, requests, orphans, counters, writer>>

Edit(t) ==
  /\ tab[t].ready /\ edits < MaxEdits
  /\ edits' = edits + 1
  /\ Debounce(t, [tab[t] EXCEPT !.contents = edits'])
  /\ UNCHANGED <<draft, lastId, requests, orphans, openings, troubles, writer>>

Save(t, calculator) ==
  /\ IF CanOwn(t)
     THEN /\ Own(t)
          /\ Show(t, [calculator EXCEPT !.sync = "saving", !.refused = FALSE])
          /\ requests' = [requests EXCEPT ![t] =
               Append(requests[t],
                      [id |-> calculator.id, contents |-> calculator.contents,
                       served |-> FALSE, live |-> TRUE])]
     ELSE /\ Show(t, [calculator EXCEPT !.sync = "saved", !.refused = TRUE])
          /\ UNCHANGED <<token, requests>>
  /\ UNCHANGED <<draft, lastId, orphans, counters, writer>>

(* As many saves may be on their way as there are changes; MaxSaves bounds *)
(* them.                                                                   *)
TimerFires(t) ==
  /\ tab[t].timer /\ Len(requests[t]) < MaxSaves
  /\ Save(t, [tab[t] EXCEPT !.timer = FALSE])

(* The user clicks on "Failed - Retry".                                    *)
Retry(t) == tab[t].ready /\ tab[t].sync = "error" /\ Save(t, tab[t])

(* Mutant: a draft is inserted where there may be one already.             *)
InsertedOnly(r) ==
  IF r.id # 0 THEN IF r.id = draft.id THEN r.id ELSE 0
  ELSE IF draft = NoDraft THEN lastId + 1 ELSE 0

(* The row that a save changes: the one it names, if that still exists, or *)
(* whichever the user has; else a new one.  0 is none.                     *)
Target(r) ==
  IF r.id # 0 THEN IF r.id = draft.id THEN r.id ELSE 0
  ELSE IF draft = NoDraft THEN lastId + 1 ELSE draft.id

(* An update that finds no row is a success too.                           *)
Store(r, by) ==
  LET id == Target(r) IN
  /\ lastId' = IF id > lastId THEN id ELSE lastId
  /\ IF id = 0 THEN UNCHANGED <<draft, writer>>
     ELSE draft' = [id |-> id, contents |-> r.contents] /\ writer' = by

Serve(t) ==
  /\ requests[t] # <<>> /\ ~Head(requests[t]).served
  /\ LET r == Head(requests[t])
         answer == [r EXCEPT !.served = TRUE,
                             !.id = IF r.id = 0 THEN Target(r) ELSE r.id]
     IN /\ Store(r, IF r.live THEN t ELSE Gone)
        /\ requests' = [requests EXCEPT ![t] =
                          <<answer>> \o Tail(requests[t])]
  /\ UNCHANGED <<token, tab, orphans, counters>>

Forget(t) == requests' = [requests EXCEPT ![t] = Tail(requests[t])]

Answered(t) ==
  /\ requests[t] # <<>> /\ Head(requests[t]).served
  /\ LET r == Head(requests[t])
         id == IF tab[t].id = 0 THEN r.id ELSE tab[t].id
     IN IF r.live THEN Show(t, [tab[t] EXCEPT !.sync = "saved", !.id = id])
        ELSE UNCHANGED tab
  /\ Forget(t)
  /\ UNCHANGED <<draft, lastId, token, orphans, counters, writer>>

(* Mutants: a failure is shown as a success, or by a state that the page   *)
(* does not know.                                                          *)
FailedUnknown(t) ==
  /\ requests[t] # <<>> /\ troubles < MaxTroubles
  /\ troubles' = troubles + 1
  /\ Show(t, [tab[t] EXCEPT !.sync = "failed"])
  /\ Forget(t)
  /\ UNCHANGED <<draft, lastId, token, orphans, edits, openings, writer>>

FailedQuietly(t) ==
  /\ requests[t] # <<>> /\ troubles < MaxTroubles
  /\ troubles' = troubles + 1
  /\ IF Head(requests[t]).live THEN Show(t, [tab[t] EXCEPT !.sync = "saved"])
     ELSE UNCHANGED tab
  /\ Forget(t)
  /\ UNCHANGED <<draft, lastId, token, orphans, edits, openings,
                 writer>>

(* The save failed, or its reply was lost.                                 *)
Failed(t) ==
  /\ requests[t] # <<>> /\ troubles < MaxTroubles
  /\ troubles' = troubles + 1
  /\ IF Head(requests[t]).live THEN Show(t, [tab[t] EXCEPT !.sync = "error"])
     ELSE UNCHANGED tab
  /\ Forget(t)
  /\ UNCHANGED <<draft, lastId, token, orphans, edits, openings,
                 writer>>

ServeOrphan ==
  \E r \in orphans :
    /\ Store(r, Gone)
    /\ orphans' = orphans \ {r}
    /\ UNCHANGED <<token, tab, requests, counters>>

-----------------------------------------------------------------------------
(* Restoring                                                               *)

RestoreRead(t) ==
  /\ tab[t].restore = "asked"
  /\ Show(t, [tab[t] EXCEPT !.restore = "read", !.found = draft])
  /\ UNCHANGED <<draft, lastId, token, requests, orphans, counters, writer>>

(* The restored contents are a change like any other, and the name of the  *)
(* draft goes only to a calculator that has none.  A page that has been    *)
(* left still gets its contents.                                           *)
Restored(t) ==
  LET c == tab[t]
      restored == [c EXCEPT !.restore = "done", !.found = NoDraft,
                            !.contents = c.found.contents,
                            !.id = IF c.id = 0 /\ c.open THEN c.found.id ELSE c.id]
  IN
  /\ c.restore = "read"
  /\ CASE c.found = NoDraft ->
            /\ Show(t, [tab[t] EXCEPT !.restore = "done"])
            /\ UNCHANGED token
       [] c.found # NoDraft /\ c.ready /\ c.found.contents # c.contents ->
            Debounce(t, restored)
       [] OTHER -> Show(t, restored) /\ UNCHANGED token
  /\ UNCHANGED <<draft, lastId, requests, orphans, counters, writer>>

RestoreFails(t) ==
  /\ tab[t].restore \in {"asked", "read"} /\ troubles < MaxTroubles
  /\ troubles' = troubles + 1
  /\ Show(t, [tab[t] EXCEPT !.restore = "failed", !.found = NoDraft])
  /\ UNCHANGED <<draft, lastId, token, requests, orphans, edits, openings,
                 writer>>

-----------------------------------------------------------------------------
(* Saving the contents as a quote ends their draft                         *)

(* The draft to delete is that of the page when the save was clicked.      *)
QuoteSave(t) ==
  /\ tab[t].ready /\ tab[t].quote = "none" /\ troubles < MaxTroubles
  /\ troubles' = troubles + 1
  /\ Show(t, [tab[t] EXCEPT !.quote = "saving", !.finished = tab[t].id])
  /\ UNCHANGED <<draft, lastId, token, requests, orphans, edits, openings,
                 writer>>

(* The number of a new quote is a change of the contents, that of one      *)
(* saved again is not.                                                     *)
QuoteSaved(t) ==
  LET printing == [tab[t] EXCEPT !.quote = "printing"] IN
  /\ tab[t].quote = "saving"
  /\ \/ tab[t].ready /\ Debounce(t, printing)
     \/ Show(t, printing) /\ UNCHANGED token
  /\ UNCHANGED <<draft, lastId, requests, orphans, counters, writer>>

QuoteRefused(t) ==
  /\ tab[t].quote = "saving"
  /\ Show(t, [tab[t] EXCEPT !.quote = "none", !.finished = 0])
  /\ UNCHANGED <<draft, lastId, token, requests, orphans, counters, writer>>

(* After the PDF, or its time-out.                                         *)
QuoteFinished(t) ==
  /\ tab[t].quote = "printing"
  /\ Show(t, [tab[t] EXCEPT !.quote = "none", !.finished = 0])
  /\ IF tab[t].finished # 0 /\ tab[t].finished = draft.id
     THEN draft' = NoDraft /\ writer' = Nobody
     ELSE UNCHANGED <<draft, writer>>
  /\ UNCHANGED <<lastId, token, requests, orphans, counters>>

-----------------------------------------------------------------------------
(* The page                                                                *)

(* Whether a quote is active decides if the draft is restored.             *)
Open(t) ==
  /\ ~tab[t].open /\ openings < MaxOpenings
  /\ openings' = openings + 1
  /\ \E restore \in {"asked", "none"} :
       Show(t, [tab[t] EXCEPT !.open = TRUE, !.restore = restore])
  /\ UNCHANGED <<draft, lastId, token, requests, orphans, edits, troubles, writer>>

Abandon(t) ==
  token' = IF token.owner = t THEN [token EXCEPT !.owner = Gone] ELSE token

Unheard(queue) ==
  [i \in DOMAIN queue |-> [queue[i] EXCEPT !.live = FALSE]]

(* To another page of the program: the timer is cleared, the contents stay *)
(* in memory, what was going on does, and requests that were sent are      *)
(* served in their order.                                                  *)
Leave(t) ==
  LET c == tab[t] IN
  /\ c.open
  /\ Show(t, [c EXCEPT !.open = FALSE, !.ready = FALSE, !.id = 0,
                        !.timer = FALSE, !.sync = "saved", !.refused = FALSE])
  /\ requests' = [requests EXCEPT ![t] = Unheard(requests[t])]
  /\ Abandon(t)
  /\ UNCHANGED <<draft, lastId, orphans, counters, writer>>

(* The tab is closed or reloaded, and lets go of the token, or it crashes. *)
(* A save that it has sent may still arrive, at any time.                  *)
Exit(t) ==
  /\ tab[t].open
  /\ Show(t, Closed)
  /\ requests' = [requests EXCEPT ![t] = <<>>]
  /\ \/ UNCHANGED <<orphans, troubles>>
     \/ /\ troubles < MaxTroubles
        /\ troubles' = troubles + 1
        /\ \E i \in DOMAIN requests[t] :
             /\ ~requests[t][i].served
             /\ orphans' = orphans \cup {requests[t][i]}
  /\ \/ token' = IF token.owner = t THEN [owner |-> Nobody, fresh |-> FALSE]
                 ELSE token
     \/ Abandon(t)
  /\ UNCHANGED <<draft, lastId, edits, openings, writer>>

-----------------------------------------------------------------------------
Init ==
  /\ draft = NoDraft /\ lastId = 0
  /\ token = [owner |-> Nobody, fresh |-> FALSE]
  /\ tab = [t \in Tabs |-> Closed]
  /\ requests = [t \in Tabs |-> <<>>]
  /\ orphans = {}
  /\ edits = 0 /\ openings = 0 /\ troubles = 0
  /\ writer = Nobody

Progress(t) ==
  \/ Ready(t) \/ TimerFires(t) \/ Serve(t) \/ Answered(t)
  \/ RestoreRead(t) \/ Restored(t)

Next ==
  \/ TokenExpires \/ ServeOrphan
  \/ \E t \in Tabs :
       \/ Progress(t) \/ Failed(t) \/ RestoreFails(t)
       \/ Edit(t) \/ Retry(t)
       \/ Open(t) \/ Leave(t) \/ Exit(t)
  \/ \E t \in Quoters :
       QuoteSave(t) \/ QuoteSaved(t) \/ QuoteRefused(t) \/ QuoteFinished(t)

Spec == Init /\ [][Next]_vars

(* Timers fire and the server answers; nobody need edit, retry or close.   *)
FairSpec == Spec /\ \A t \in Tabs : WF_vars(Progress(t))

-----------------------------------------------------------------------------
(* Types of the row, the token, the calculators and the saves.             *)
TypeOK ==
  /\ draft \in Drafts /\ lastId \in Nat
  /\ token \in Tokens
  /\ tab \in [Tabs -> Calculators]
  /\ requests \in [Tabs -> Seq(Requests)]
  /\ orphans \subseteq Requests
  /\ edits \in Contents
  /\ openings \in 0 .. MaxOpenings /\ troubles \in 0 .. MaxTroubles
  /\ writer \in Tabs \cup {Nobody, Gone}

Live(t) == \E i \in DOMAIN requests[t] : requests[t][i].live

(* "Saved", and nothing on its way that could change that.                 *)
ShownAsSaved(t) ==
  /\ tab[t].ready /\ tab[t].sync = "saved" /\ ~tab[t].timer /\ ~Live(t)

(* The calculator names a draft that was deleted since.                    *)
NamesDeleted(t) == tab[t].id # 0 /\ tab[t].id # draft.id

(* What a calculator shows as saved is in the user's draft, unless it may  *)
(* not save because another owner's token was fresh, something else has    *)
(* touched the row since, or the row it names was deleted with a quote.    *)
SavedUnlessTaken ==
  \A t \in Tabs :
    ShownAsSaved(t) =>
      \/ draft # NoDraft /\ draft.contents = tab[t].contents
      \/ tab[t].refused
      \/ writer # t
      \/ NamesDeleted(t)

(* What the timer is to save gets into the draft, unless it is replaced by *)
(* a later change, the calculator is closed, another owner's token was     *)
(* fresh, the user is told of a failure, or the draft was deleted with a   *)
(* quote.                                                                  *)
ChangesAreStored ==
  \A t \in Tabs, c \in 1 .. MaxEdits :
    (tab[t].timer /\ tab[t].contents = c) ~>
      \/ draft.contents = c
      \/ tab[t].contents # c \/ ~tab[t].ready
      \/ tab[t].refused \/ tab[t].sync = "error" \/ NamesDeleted(t)
=============================================================================
